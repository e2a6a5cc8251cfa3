------------------------- MODULE DividedWorkProofs -------------------------
(***************************************************************************)
(* Proofs about work that is divided among threads.  WorkQueues, for any   *)
(* number of workers and items: every item is queued or done once, one     *)
(* pass over the queues is enough, and work_done comes to TOTAL_WORK.      *)
(* PrefixScan, for vectors of any length and ints of any width: whatever   *)
(* ranges the scheduler accumulates, joins and scans, the results are      *)
(* those of the sequential loop.  Both rest on division with remainder.    *)
(***************************************************************************)
EXTENDS WorkQueues, PrefixScan, FiniteSetTheorems, SequenceTheorems, TLAPS
-----------------------------------------------------------------------------
(* Division. *)

\* A greater multiple is greater by at least one period.
LEMMA MoreTimes ==
  ASSUME NEW W \in Nat \ {0}, NEW m \in Int, NEW n \in Int, m < n
  PROVE  m * W + W <= n * W
<1>1. \A d \in Nat : d * W >= 0
  OBVIOUS
<1>2. n - m - 1 \in Nat
  OBVIOUS
<1>3. (n - m - 1) * W >= 0
  BY <1>1, <1>2
<1>4. (n - m - 1) * W = n * W - m * W - W
  OBVIOUS
<1> QED
  BY <1>3, <1>4

\* Quotient and remainder of a number ...
LEMMA Divided ==
  ASSUME NEW W \in Nat \ {0}, NEW i \in Nat
  PROVE  /\ i % W \in 0..(W - 1)
         /\ i \div W \in Nat
         /\ i = (i \div W) * W + (i % W)
OBVIOUS

\* ... and of one that may be negative.
LEMMA DividedInt ==
  ASSUME NEW W \in Nat \ {0}, NEW i \in Int
  PROVE  /\ i % W \in 0..(W - 1)
         /\ i \div W \in Int
         /\ i = (i \div W) * W + (i % W)
OBVIOUS

\* The remainder is the only one there is.
LEMMA RemainderOf ==
  ASSUME NEW W \in Nat \ {0}, NEW a \in Nat, NEW r \in 0..(W - 1)
  PROVE  (a * W + r) % W = r
<1> DEFINE x == a * W + r
           d == x \div W
           s == x % W
<1>1. x \in Nat
  OBVIOUS
<1>2. /\ s \in 0..(W - 1)
      /\ d \in Nat
      /\ x = d * W + s
  BY <1>1, Divided
<1>3. d * W + s = a * W + r
  BY <1>2
<1> HIDE DEF x, d, s
<1>4. d * W \in Int /\ a * W \in Int
  BY <1>2
<1>5. ~(d < a)
  BY <1>2, <1>3, <1>4, MoreTimes
<1>6. ~(a < d)
  BY <1>2, <1>3, <1>4, MoreTimes
<1>7. s = r
  BY <1>2, <1>3, <1>4, <1>5, <1>6
<1> QED
  BY <1>7 DEF x, s
-----------------------------------------------------------------------------
(***************************************************************************)
(* WorkQueues                                                              *)
(***************************************************************************)

\* A worker that has left its queue is past it, and one that is done is past
\* all of them.
Visits == \A w \in Workers : /\ pc[w] = "own" => at[w] = w
                             /\ pc[w] = "done" => at[w] > NumWorkers

\* No item is queued twice.
Distinct == /\ \A q \in Workers : IsInjective(queues[q])
            /\ \A q, r \in Workers : q # r => Range(queues[q]) \cap Range(queues[r]) = {}

\* What the workers that are done have worked on.
AddedUp == UNION {worked[w] : w \in {v \in Workers : pc[v] = "done"}}

\* The counts are the numbers of items.
Counted == /\ \A w \in Workers : localWork[w] = Cardinality(worked[w])
           /\ workDone = Cardinality(AddedUp)

IInv == TypeOK /\ NothingLeftBehind /\ Visits /\ Distinct /\ EachOnce /\ Counted
-----------------------------------------------------------------------------
(* The distribution of the work. *)

\* The items worker_queues[i % NUM_WORKERS] sends to queue q.
ItemsOf(q) == {i \in Work : i % NumWorkers = q - 1}

\* The k-th item of queue q, and how many there are.
Item(q, k) == q - 1 + (k - 1) * NumWorkers
Share(q) == IF q - 1 < TotalWork THEN ((TotalWork - q) \div NumWorkers) + 1 ELSE 0

\* The items of a queue are an arithmetic progression.
LEMMA ItemIsOf ==
  ASSUME NEW q \in Workers, NEW k \in 1..Share(q)
  PROVE  Item(q, k) \in ItemsOf(q)
<1> DEFINE d == (TotalWork - q) \div NumWorkers
<1>1. /\ q \in Nat \ {0}
      /\ q - 1 \in 0..(NumWorkers - 1)
      /\ NumWorkers \in Nat \ {0}
      /\ TotalWork \in Nat
  BY WorkAssumption DEF Workers
<1>2. q - 1 < TotalWork
  BY <1>1 DEF Share
<1>3. TotalWork - q \in Nat
  BY <1>1, <1>2
<1>4. d \in Nat /\ d * NumWorkers <= TotalWork - q
  <2>1. /\ (TotalWork - q) % NumWorkers \in 0..(NumWorkers - 1)
        /\ d \in Nat
        /\ TotalWork - q = d * NumWorkers + ((TotalWork - q) % NumWorkers)
    BY <1>1, <1>3, Divided
  <2> HIDE DEF d
  <2>2. d * NumWorkers \in Int
    BY <1>1, <2>1
  <2> QED
    BY <1>1, <2>1, <2>2
<1>5. k - 1 \in Nat /\ k - 1 <= d
  BY <1>2, <1>4 DEF Share
<1> HIDE DEF d
<1>6. /\ (k - 1) * NumWorkers \in Nat
      /\ d * NumWorkers \in Nat
  BY <1>1, <1>4, <1>5
<1>7. (k - 1) * NumWorkers <= d * NumWorkers
  <2>1. CASE k - 1 = d
    BY <1>6, <2>1
  <2>2. CASE k - 1 < d
    <3>1. (k - 1) * NumWorkers + NumWorkers <= d * NumWorkers
      BY <1>1, <1>4, <1>5, <2>2, MoreTimes
    <3> QED
      BY <1>1, <1>6, <3>1
  <2> QED
    BY <1>4, <1>5, <2>1, <2>2
<1>8. Item(q, k) = (k - 1) * NumWorkers + (q - 1)
  BY <1>1, <1>6 DEF Item
<1>9. Item(q, k) % NumWorkers = q - 1
  BY <1>1, <1>5, <1>8, RemainderOf
<1>10. Item(q, k) \in Work
  BY <1>1, <1>4, <1>6, <1>7, <1>8 DEF Work
<1> QED
  BY <1>9, <1>10 DEF ItemsOf

\* The progression lists all of them.
LEMMA ItemsListed ==
  ASSUME NEW q \in Workers, NEW i \in ItemsOf(q)
  PROVE  \E k \in 1..Share(q) : Item(q, k) = i
<1> DEFINE d == (TotalWork - q) \div NumWorkers
           e == i \div NumWorkers
<1>1. /\ q \in Nat \ {0}
      /\ NumWorkers \in Nat \ {0}
      /\ TotalWork \in Nat
      /\ i \in Nat
      /\ i < TotalWork
      /\ i % NumWorkers = q - 1
  BY WorkAssumption DEF Workers, ItemsOf, Work
<1>2. e \in Nat /\ i = e * NumWorkers + (q - 1)
  BY <1>1, Divided
<1>3. q - 1 <= i
  <2>1. e * NumWorkers \in Nat
    BY <1>1, <1>2
  <2> HIDE DEF e
  <2> QED
    BY <1>1, <1>2, <2>1
<1>4. TotalWork - q \in Nat
  BY <1>1, <1>3
<1>5. /\ (TotalWork - q) % NumWorkers \in 0..(NumWorkers - 1)
      /\ d \in Nat
      /\ TotalWork - q = d * NumWorkers + ((TotalWork - q) % NumWorkers)
  BY <1>1, <1>4, Divided
<1>6. Share(q) = d + 1
  BY <1>1, <1>3 DEF Share
<1> HIDE DEF d, e
<1>7. e * NumWorkers \in Int /\ d * NumWorkers \in Int
  BY <1>1, <1>2, <1>5
<1>8. e <= d
  <2>1. CASE d < e
    <3>1. d * NumWorkers + NumWorkers <= e * NumWorkers
      BY <1>1, <1>2, <1>5, <2>1, MoreTimes
    <3> QED
      BY <1>1, <1>2, <1>5, <1>7, <3>1
  <2> QED
    BY <1>2, <1>5, <2>1
<1>9. e + 1 \in 1..Share(q)
  BY <1>2, <1>5, <1>6, <1>8
<1>10. Item(q, e + 1) = i
  <2>1. e + 1 - 1 = e
    BY <1>2
  <2> QED
    BY <1>1, <1>2, <1>7, <2>1 DEF Item
<1> QED
  BY <1>9, <1>10

\* No queue lists an item twice.
LEMMA ItemsApart ==
  ASSUME NEW q \in Workers, NEW j \in Nat, NEW k \in Nat, Item(q, j) = Item(q, k)
  PROVE  j = k
<1>1. q \in Int /\ NumWorkers \in Nat \ {0}
  BY WorkAssumption DEF Workers
<1>2. (j - 1) * NumWorkers \in Int /\ (k - 1) * NumWorkers \in Int
  BY <1>1
<1>3. (j - 1) * NumWorkers = (k - 1) * NumWorkers
  BY <1>1, <1>2 DEF Item
<1>4. ~(j - 1 < k - 1)
  BY <1>1, <1>2, <1>3, MoreTimes
<1>5. ~(k - 1 < j - 1)
  BY <1>1, <1>2, <1>3, MoreTimes
<1> QED
  BY <1>4, <1>5

\* A queue starts with its items, each once.
LEMMA DistributedItems ==
  ASSUME NEW q \in Workers
  PROVE  /\ Distributed(q) \in Seq(Work)
         /\ Range(Distributed(q)) = ItemsOf(q)
         /\ IsInjective(Distributed(q))
<1> DEFINE f == [k \in 1..Share(q) |-> Item(q, k)]
<1>1. Share(q) \in Nat
  <2>1. CASE q - 1 < TotalWork
    <3>1. TotalWork - q \in Nat
      BY <2>1, WorkAssumption DEF Workers
    <3> QED
      BY <2>1, <3>1, WorkAssumption, Divided DEF Share
  <2> QED
    BY <2>1 DEF Share
<1>2. f \in [1..Share(q) -> ItemsOf(q)]
  BY ItemIsOf
<1>3. f \in Injection(1..Share(q), ItemsOf(q))
  <2>1. ASSUME NEW j \in 1..Share(q), NEW k \in 1..Share(q), f[j] = f[k]
        PROVE  j = k
    BY <1>1, <2>1, ItemsApart
  <2> QED
    BY <1>2, <2>1 DEF Injection, IsInjective
<1>4. f \in Surjection(1..Share(q), ItemsOf(q))
  BY <1>2, ItemsListed DEF Surjection
<1>5. Cardinality(ItemsOf(q)) = Share(q)
  BY <1>1, <1>3, <1>4, FS_CountingElements DEF ExistsBijection, Bijection
<1>6. Distributed(q) = f
  BY <1>5 DEF Distributed, ItemsOf, Item
<1>7. f \in Seq(Work)
  BY <1>1, <1>2 DEF ItemsOf
<1>8. Range(f) = ItemsOf(q)
  BY <1>2, <1>4 DEF Range, Surjection
<1>9. IsInjective(f)
  BY <1>3 DEF Injection
<1> QED
  BY <1>6, <1>7, <1>8, <1>9
-----------------------------------------------------------------------------
(* Queues and counts. *)

\* try_pop takes the front and leaves the rest.
LEMMA Taken ==
  ASSUME NEW S, NEW s \in Seq(S), s # <<>>, IsInjective(s)
  PROVE  /\ Tail(s) \in Seq(S)
         /\ Head(s) \in Range(s)
         /\ Range(Tail(s)) = Range(s) \ {Head(s)}
         /\ IsInjective(Tail(s))
<1>1. /\ Len(s) \in Nat \ {0}
      /\ DOMAIN s = 1..Len(s)
  BY EmptySeq, LenProperties
<1>2. /\ Tail(s) \in Seq(S)
      /\ Len(Tail(s)) = Len(s) - 1
      /\ \A i \in 1..Len(Tail(s)) : Tail(s)[i] = s[i + 1]
  BY HeadTailProperties
<1>3. DOMAIN Tail(s) = 1..(Len(s) - 1)
  BY <1>2, LenProperties
<1>4. Head(s) = s[1]
  OBVIOUS
<1> DEFINE r == Tail(s)
<1> HIDE DEF r
<1>5. /\ DOMAIN r = 1..(Len(s) - 1)
      /\ \A i \in 1..(Len(s) - 1) : r[i] = s[i + 1] /\ i + 1 \in 2..Len(s)
  BY <1>1, <1>2, <1>3 DEF r
<1>6. \A i, j \in 1..Len(s) : s[i] = s[j] => i = j
  BY <1>1 DEF IsInjective
<1>7. Range(r) = Range(s) \ {s[1]}
  <2>1. ASSUME NEW x, x \in Range(r) PROVE x \in Range(s) /\ x # s[1]
    <3>1. PICK i \in 1..(Len(s) - 1) : x = s[i + 1]
      BY <1>5, <2>1 DEF Range
    <3>2. i + 1 \in 1..Len(s) /\ i + 1 # 1
      BY <1>1, <1>5
    <3> QED
      BY <1>1, <1>6, <3>1, <3>2 DEF Range
  <2>2. ASSUME NEW x, x \in Range(s), x # s[1] PROVE x \in Range(r)
    <3>1. PICK i \in 1..Len(s) : x = s[i]
      BY <1>1, <2>2 DEF Range
    <3>2. i # 1
      BY <2>2, <3>1
    <3>3. i - 1 \in 1..(Len(s) - 1) /\ i - 1 + 1 = i
      BY <1>1, <3>2
    <3> QED
      BY <1>5, <3>1, <3>3 DEF Range
  <2> QED
    BY <2>1, <2>2
<1>8. IsInjective(r)
  <2> SUFFICES ASSUME NEW i \in 1..(Len(s) - 1), NEW j \in 1..(Len(s) - 1), r[i] = r[j]
               PROVE  i = j
    BY <1>5 DEF IsInjective
  <2>1. i + 1 \in 1..Len(s) /\ j + 1 \in 1..Len(s) /\ s[i + 1] = s[j + 1]
    BY <1>1, <1>5
  <2>2. i + 1 = j + 1
    BY <1>6, <2>1
  <2> QED
    BY <2>2
<1>9. Head(s) \in Range(s)
  BY <1>1, <1>4 DEF Range
<1> QED
  BY <1>2, <1>4, <1>7, <1>8, <1>9 DEF r

\* There are TOTAL_WORK items, and every set of them is finite.
LEMMA WorkSize ==
  /\ Cardinality(Work) = TotalWork
  /\ \A S \in SUBSET Work : IsFiniteSet(S) /\ Cardinality(S) \in 0..TotalWork
<1>1. IsFiniteSet(Work) /\ Cardinality(Work) = TotalWork
  BY WorkAssumption, FS_Interval DEF Work
<1>2. ASSUME NEW S \in SUBSET Work
      PROVE  IsFiniteSet(S) /\ Cardinality(S) \in 0..TotalWork
  <2>1. IsFiniteSet(S) /\ Cardinality(S) <= TotalWork
    BY <1>1, FS_Subset
  <2> QED
    BY <2>1, FS_CardinalityType, WorkAssumption
<1> QED
  BY <1>1, <1>2

\* The queue after q that a worker steals from is the next but its own.
LEMMA NextVictimIsNext ==
  ASSUME NEW w \in Workers, NEW q \in 0..NumWorkers
  PROVE  /\ NextVictim(w, q) \in 1..(NumWorkers + 1)
         /\ \A r \in Workers : r < NextVictim(w, q) => r <= q \/ r = w
BY WorkAssumption DEF NextVictim, Workers
-----------------------------------------------------------------------------
(* The invariant. *)

\* The workers start at their own queues, which hold each item once.
LEMMA InitInv == Init => IInv
<1> SUFFICES ASSUME Init PROVE IInv
  OBVIOUS
<1>1. /\ queues \in [Workers -> Seq(Work)]
      /\ \A q \in Workers : Range(queues[q]) = ItemsOf(q) /\ IsInjective(queues[q])
  BY DistributedItems DEF Init
<1>2. TypeOK
  BY <1>1, WorkAssumption DEF Init, TypeOK, Workers
<1>3. Distinct
  <2>1. \A q, r \in Workers : q # r => ItemsOf(q) \cap ItemsOf(r) = {}
    BY DEF ItemsOf, Workers
  <2> QED
    BY <1>1, <2>1 DEF Distinct
<1>4. EachOnce
  <2>1. ASSUME NEW i \in Work PROVE i \in Queued
    <3>1. (i % NumWorkers) + 1 \in Workers /\ i \in ItemsOf((i % NumWorkers) + 1)
      <4>1. i % NumWorkers \in 0..(NumWorkers - 1)
        BY WorkAssumption, Divided DEF Work
      <4> QED
        BY <4>1, WorkAssumption DEF Workers, ItemsOf
    <3> QED
      BY <1>1, <3>1 DEF Queued
  <2>2. Queued \subseteq Work
    BY <1>1 DEF Queued, ItemsOf
  <2>3. WorkedOn = {}
    BY DEF Init, WorkedOn
  <2> QED
    BY <2>1, <2>2, <2>3 DEF Init, EachOnce
<1>5. Counted
  <2>1. AddedUp = {}
    BY DEF Init, AddedUp
  <2> QED
    BY <2>1, FS_EmptySet DEF Init, Counted
<1> QED
  BY <1>2, <1>3, <1>4, <1>5 DEF Init, IInv, NothingLeftBehind, Visits

\* An item moves from the front of a queue to the worker; no queue grows.
LEMMA DoInv == ASSUME IInv, NEW w \in Workers, Do(w) PROVE IInv'
<1> DEFINE v == at[w]
           h == Head(queues[v])
<1>1. /\ v \in Workers
      /\ queues \in [Workers -> Seq(Work)]
      /\ worked \in [Workers -> SUBSET Work]
      /\ queues[v] \in Seq(Work)
      /\ queues[v] # <<>>
      /\ IsInjective(queues[v])
      /\ queues' = [queues EXCEPT ![v] = Tail(queues[v])]
      /\ worked' = [worked EXCEPT ![w] = worked[w] \cup {h}]
      /\ localWork' = [localWork EXCEPT ![w] = localWork[w] + 1]
      /\ UNCHANGED <<pc, at, workDone>>
      /\ pc[w] # "done"
  BY DEF IInv, TypeOK, Distinct, Do
<1>2. /\ Tail(queues[v]) \in Seq(Work)
      /\ h \in Range(queues[v])
      /\ Range(Tail(queues[v])) = Range(queues[v]) \ {h}
      /\ IsInjective(Tail(queues[v]))
  BY <1>1, Taken
<1>3. /\ \A q \in Workers : q # v => queues'[q] = queues[q]
      /\ queues'[v] = Tail(queues[v])
      /\ queues' \in [Workers -> Seq(Work)]
  BY <1>1, <1>2
<1> HIDE DEF v, h
<1>4. h \in Queued /\ h \in Work
  BY <1>1, <1>2 DEF Queued, IInv, EachOnce
<1>5. Queued' = Queued \ {h}
  <2>1. ASSUME NEW x, x \in Queued' PROVE x \in Queued /\ x # h
    <3>1. PICK q \in Workers : x \in Range(queues'[q])
      BY <2>1 DEF Queued
    <3>2. CASE q = v
      BY <1>1, <1>2, <1>3, <3>1, <3>2 DEF Queued
    <3>3. CASE q # v
      BY <1>1, <1>2, <1>3, <3>1, <3>3 DEF Queued, IInv, Distinct
    <3> QED
      BY <3>2, <3>3
  <2>2. ASSUME NEW x, x \in Queued, x # h PROVE x \in Queued'
    <3>1. PICK q \in Workers : x \in Range(queues[q])
      BY <2>2 DEF Queued
    <3>2. x \in Range(queues'[q])
      BY <1>2, <1>3, <2>2, <3>1
    <3> QED
      BY <3>2 DEF Queued
  <2> QED
    BY <2>1, <2>2
<1>6. WorkedOn' = WorkedOn \cup {h}
  <2>1. \A u \in Workers : worked'[u] = IF u = w THEN worked[w] \cup {h} ELSE worked[u]
    BY <1>1
  <2> QED
    BY <2>1 DEF WorkedOn
<1>7. EachOnce'
  <2>1. h \notin WorkedOn
    BY <1>4 DEF IInv, EachOnce
  <2>2. \A u \in Workers : h \notin worked[u]
    BY <2>1 DEF WorkedOn
  <2> QED
    BY <1>1, <1>4, <1>5, <1>6, <2>1, <2>2 DEF IInv, EachOnce
<1>8. Distinct'
  <2>1. \A q \in Workers : IsInjective(queues'[q])
    BY <1>2, <1>3 DEF IInv, Distinct
  <2>2. \A q \in Workers : Range(queues'[q]) \subseteq Range(queues[q])
    BY <1>2, <1>3
  <2> QED
    BY <2>1, <2>2 DEF IInv, Distinct
<1>9. Counted'
  <2>1. h \notin worked[w]
    BY <1>4 DEF IInv, EachOnce, WorkedOn
  <2>2. IsFiniteSet(worked[w])
    BY <1>1, WorkSize
  <2>3. Cardinality(worked'[w]) = localWork'[w]
    <3>1. Cardinality(worked[w] \cup {h}) = Cardinality(worked[w]) + 1
      BY <2>1, <2>2, FS_AddElement
    <3> QED
      BY <1>1, <3>1 DEF IInv, TypeOK, Counted
  <2>4. AddedUp' = AddedUp
    BY <1>1 DEF AddedUp
  <2> QED
    BY <1>1, <2>3, <2>4 DEF IInv, TypeOK, Counted
<1>10. TypeOK'
  <2>1. worked' \in [Workers -> SUBSET Work]
    BY <1>1, <1>4
  <2>2. localWork' \in [Workers -> 0..TotalWork]
    <3>1. localWork' = [localWork EXCEPT ![w] = Cardinality(worked'[w])]
      BY <1>1, <1>9 DEF IInv, TypeOK, Counted
    <3>2. Cardinality(worked'[w]) \in 0..TotalWork
      BY <2>1, WorkSize
    <3> QED
      BY <3>1, <3>2 DEF IInv, TypeOK
  <2> QED
    BY <1>1, <1>3, <2>1, <2>2 DEF IInv, TypeOK
<1>11. NothingLeftBehind'
  BY <1>1, <1>3 DEF IInv, NothingLeftBehind
<1>12. Visits'
  BY <1>1 DEF IInv, Visits
<1> QED
  BY <1>7, <1>8, <1>9, <1>10, <1>11, <1>12 DEF IInv

\* A step that only moves a worker between queues touches no item.
LEMMA ItemsKept ==
  ASSUME IInv, UNCHANGED <<queues, worked, localWork, workDone>>,
         \A w \in Workers : pc'[w] = "done" <=> pc[w] = "done"
  PROVE  Distinct' /\ EachOnce' /\ Counted'
<1>1. AddedUp' = AddedUp
  BY DEF AddedUp
<1> QED
  BY <1>1 DEF IInv, Distinct, EachOnce, Counted, Queued, WorkedOn

\* A worker whose own queue is empty goes to the first of the others.
LEMMA StartStealingInv == ASSUME IInv, NEW w \in Workers, StartStealing(w) PROVE IInv'
<1>1. NextVictim(w, 0) \in 1..(NumWorkers + 1)
  BY WorkAssumption, NextVictimIsNext
<1>2. TypeOK'
  BY <1>1 DEF IInv, TypeOK, StartStealing, Goto
<1>3. NothingLeftBehind'
  <2> SUFFICES ASSUME NEW v \in Workers, pc'[v] # "own", NEW q \in Workers, q = v \/ q < at'[v]
               PROVE  queues'[q] = <<>>
    BY DEF NothingLeftBehind
  <2>1. CASE v = w
    <3>1. q = w \/ q < NextVictim(w, 0)
      BY <2>1 DEF IInv, TypeOK, StartStealing
    <3>2. q = w
      BY <3>1, WorkAssumption, NextVictimIsNext DEF Workers
    <3> QED
      BY <3>2 DEF StartStealing
  <2>2. CASE v # w
    BY <2>2 DEF IInv, TypeOK, NothingLeftBehind, StartStealing, Goto
  <2> QED
    BY <2>1, <2>2
<1>4. Distinct' /\ EachOnce' /\ Counted'
  BY ItemsKept DEF IInv, TypeOK, StartStealing, Goto
<1> QED
  BY <1>2, <1>3, <1>4 DEF IInv, TypeOK, Visits, StartStealing, Goto

\* A worker that finds another's queue empty goes on to the next.
LEMMA MoveOnInv == ASSUME IInv, NEW w \in Workers, MoveOn(w) PROVE IInv'
<1>1. at[w] \in 0..NumWorkers
  BY WorkAssumption DEF MoveOn, Workers
<1>2. TypeOK'
  BY <1>1, NextVictimIsNext DEF IInv, TypeOK, MoveOn, Goto
<1>3. NothingLeftBehind'
  <2> SUFFICES ASSUME NEW v \in Workers, pc'[v] # "own", NEW q \in Workers, q = v \/ q < at'[v]
               PROVE  queues'[q] = <<>>
    BY DEF NothingLeftBehind
  <2>1. CASE v = w
    <3>1. q = w \/ q < NextVictim(w, at[w])
      BY <2>1 DEF IInv, TypeOK, MoveOn
    <3>2. q = w \/ q < at[w] \/ q = at[w]
      BY <1>1, <3>1, WorkAssumption, NextVictimIsNext DEF Workers
    <3> QED
      BY <3>2 DEF IInv, NothingLeftBehind, MoveOn, Goto
  <2>2. CASE v # w
    BY <2>2 DEF IInv, TypeOK, NothingLeftBehind, MoveOn, Goto
  <2> QED
    BY <2>1, <2>2
<1>4. Distinct' /\ EachOnce' /\ Counted'
  BY ItemsKept DEF IInv, TypeOK, MoveOn, Goto
<1> QED
  BY <1>2, <1>3, <1>4 DEF IInv, TypeOK, Visits, MoveOn, Goto

\* A worker adds up past the last queue: its items are nobody else's.
LEMMA AddInv == ASSUME IInv, NEW w \in Workers, Add(w) PROVE IInv'
<1>1. /\ pc[w] = "steal"
      /\ pc' = [pc EXCEPT ![w] = "done"]
      /\ pc \in [Workers -> {"own", "steal", "done"}]
      /\ workDone' = workDone + localWork[w]
      /\ UNCHANGED <<queues, at, worked, localWork>>
      /\ at[w] > NumWorkers
  BY WorkAssumption DEF IInv, TypeOK, Add, Goto, Workers
<1>2. /\ AddedUp' = AddedUp \cup worked[w]
      /\ AddedUp \cap worked[w] = {}
  <2>1. {v \in Workers : pc'[v] = "done"} = {v \in Workers : pc[v] = "done"} \cup {w}
    BY <1>1
  <2>2. AddedUp' = AddedUp \cup worked[w]
    BY <1>1, <2>1 DEF AddedUp
  <2>3. AddedUp \cap worked[w] = {}
    BY <1>1 DEF AddedUp, IInv, EachOnce
  <2> QED
    BY <2>2, <2>3
<1>3. /\ AddedUp \in SUBSET Work
      /\ worked[w] \in SUBSET Work
      /\ AddedUp' \in SUBSET Work
  BY <1>2 DEF AddedUp, IInv, TypeOK
<1>4. Cardinality(AddedUp') = Cardinality(AddedUp) + Cardinality(worked[w])
  <2>1. /\ IsFiniteSet(AddedUp) /\ Cardinality(AddedUp) \in Nat
        /\ IsFiniteSet(worked[w]) /\ Cardinality(worked[w]) \in Nat
    BY <1>3, WorkSize, WorkAssumption
  <2>2. Cardinality(AddedUp \cup worked[w])
          = Cardinality(AddedUp) + Cardinality(worked[w]) - Cardinality({})
    BY <1>2, <2>1, FS_Union
  <2> QED
    BY <1>2, <2>1, <2>2, FS_EmptySet
<1>5. workDone' = Cardinality(AddedUp') /\ workDone' \in 0..TotalWork
  BY <1>1, <1>3, <1>4, WorkSize DEF IInv, Counted
<1>6. TypeOK'
  BY <1>1, <1>5 DEF IInv, TypeOK
<1>7. Distinct' /\ EachOnce' /\ Counted'
  BY <1>1, <1>5 DEF IInv, Distinct, EachOnce, Counted, Queued, WorkedOn
<1>8. NothingLeftBehind' /\ Visits'
  BY <1>1 DEF IInv, NothingLeftBehind, Visits
<1> QED
  BY <1>6, <1>7, <1>8 DEF IInv

\* The invariant is inductive.
LEMMA NextInv == IInv /\ [Next]_vars => IInv'
<1> SUFFICES ASSUME IInv, [Next]_vars PROVE IInv'
  OBVIOUS
<1>1. ASSUME NEW w \in Workers, Worker(w) PROVE IInv'
  BY <1>1, DoInv, StartStealingInv, MoveOnInv, AddInv DEF Worker
<1>2. CASE UNCHANGED vars
  <2>1. Distinct' /\ EachOnce' /\ Counted'
    BY <1>2, ItemsKept DEF vars
  <2> QED
    BY <1>2, <2>1 DEF IInv, TypeOK, NothingLeftBehind, Visits, vars
<1> QED
  BY <1>1, <1>2 DEF Next, Finished
-----------------------------------------------------------------------------
\* No count passes TOTAL_WORK and no worker the queue after the last.
THEOREM TypeCorrect == Spec => []TypeOK
<1>1. IInv => TypeOK
  BY DEF IInv
<1> QED
  BY <1>1, InitInv, NextInv, PTL DEF Spec

\* However the workers steal from one another, every item is in one queue or
\* has been done by one worker.
THEOREM NothingTwice == Spec => []EachOnce
<1>1. IInv => EachOnce
  BY DEF IInv
<1> QED
  BY <1>1, InitInv, NextInv, PTL DEF Spec

\* A worker that is done, or has left a queue behind it, has left no work there.
THEOREM OnePassIsEnough == Spec => []NothingLeftBehind
<1>1. IInv => NothingLeftBehind
  BY DEF IInv
<1> QED
  BY <1>1, InitInv, NextInv, PTL DEF Spec

\* When main has joined the workers, all the work is done and work_done, which
\* example 7 prints against TOTAL_WORK, says so.
THEOREM AllWorkDone == Spec => [](AllDone => WorkedOn = Work /\ workDone = TotalWork)
<1>1. IInv => (AllDone => WorkedOn = Work /\ workDone = TotalWork)
  <2> SUFFICES ASSUME IInv, AllDone PROVE WorkedOn = Work /\ workDone = TotalWork
    OBVIOUS
  <2>1. 1 \in Workers /\ pc[1] = "done" /\ at[1] > NumWorkers
    BY WorkAssumption DEF IInv, Visits, AllDone, Workers
  <2>2. \A q \in Workers : queues[q] = <<>>
    <3> TAKE q \in Workers
    <3>1. q < at[1]
      BY <2>1, WorkAssumption DEF IInv, TypeOK, Workers
    <3> QED
      BY <2>1, <3>1 DEF IInv, NothingLeftBehind
  <2>3. Queued = {}
    BY <2>2 DEF Queued, Range
  <2>4. WorkedOn = Work
    BY <2>3 DEF IInv, EachOnce
  <2>5. AddedUp = WorkedOn
    BY DEF AllDone, AddedUp, WorkedOn
  <2> QED
    BY <2>4, <2>5, WorkSize DEF IInv, Counted
<1> QED
  BY <1>1, InitInv, NextInv, PTL DEF Spec

-----------------------------------------------------------------------------
(***************************************************************************)
(* PrefixScan                                                              *)
(***************************************************************************)

(* Induction.  The library's induction theorems speak about operators; this *)
(* one speaks about sets, from the least element of the complement.         *)

\* A set of numbers has a least element.
LEMMA LeastNat ==
  ASSUME NEW T, T \subseteq Nat, T # {}
  PROVE  \E x \in T : \A y \in T : x <= y
<1> DEFINE R == OpToRel(<, Nat)
<1>1. IsWellFoundedOn(R, Nat)
  BY NatLessThanWellFounded
<1>2. \A x, y \in Nat : y < x => <<y, x>> \in R
  BY DEF OpToRel
<1> HIDE DEF R
<1>3. \E x \in T : \A y \in T : ~ (<<y, x>> \in R)
  BY <1>1, WFMin
<1>4. PICK x \in T : \A y \in T : ~ (<<y, x>> \in R)
  BY <1>3
<1>5. ASSUME NEW y \in T PROVE x <= y
  <2>1. x \in Nat /\ y \in Nat
    OBVIOUS
  <2>2. ~ (y < x)
    BY <1>2, <1>4, <2>1, Zenon
  <2> QED
    BY <2>1, <2>2
<1> QED
  BY <1>5

\* A set with 0 that has n + 1 whenever it has n has every number.
LEMMA Induction ==
  ASSUME NEW S, 0 \in S, \A n \in Nat : n \in S => n + 1 \in S
  PROVE  \A n \in Nat : n \in S
<1> SUFFICES ASSUME Nat \ S # {} PROVE FALSE
  OBVIOUS
<1>1. PICK x \in Nat \ S : \A y \in Nat \ S : x <= y
  BY LeastNat
<1>2. x # 0
  OBVIOUS
<1>3. x - 1 \in Nat /\ ~ (x <= x - 1) /\ x - 1 + 1 = x
  BY <1>2
<1>4. x - 1 \in S
  BY <1>1, <1>3
<1> QED
  BY <1>3, <1>4
-----------------------------------------------------------------------------
(* int arithmetic. *)

\* Wrapping changes a number by a multiple of 2^w.
LEMMA WrapShape ==
  ASSUME NEW x \in Int
  PROVE  /\ Wrap(x) \in Ints
         /\ \E k \in Int : x = Wrap(x) + k * (2 * Half)
<1> DEFINE M == 2 * Half
           r == (x + Half) % M
           k == (x + Half) \div M
<1>1. Half \in Nat \ {0} /\ M \in Nat \ {0} /\ M = Half + Half
  BY ScanAssumption
<1>2. /\ r \in 0..(M - 1)
      /\ k \in Int
      /\ x + Half = k * M + r
  <2>1. x + Half \in Int
    BY <1>1
  <2> HIDE DEF M
  <2> QED
    BY <1>1, <2>1, DividedInt
<1>3. Wrap(x) = r - Half
  BY DEF Wrap
<1> HIDE DEF M, r, k
<1>4. k * M \in Int
  BY <1>1, <1>2
<1>5. Wrap(x) \in Ints /\ x = Wrap(x) + k * M
  BY <1>1, <1>2, <1>3, <1>4 DEF Ints
<1> QED
  BY <1>2, <1>5 DEF M

\* An int is determined by its remainder.
LEMMA WrapUnique ==
  ASSUME NEW a \in Ints, NEW b \in Ints, NEW k \in Int, a = b + k * (2 * Half)
  PROVE  a = b
<1> DEFINE M == 2 * Half
<1>1. Half \in Nat \ {0} /\ M \in Nat \ {0} /\ M = Half + Half
  BY ScanAssumption
<1>2. a \in Int /\ b \in Int /\ a - b < M /\ b - a < M
  BY <1>1 DEF Ints
<1>3. a = b + k * M
  OBVIOUS
<1> HIDE DEF M
<1>4. k * M \in Int /\ 0 * M = 0
  BY <1>1
<1>5. ~ (k < 0)
  BY <1>1, <1>2, <1>3, <1>4, MoreTimes
<1>6. ~ (0 < k)
  BY <1>1, <1>2, <1>3, <1>4, MoreTimes
<1>7. k = 0
  BY <1>5, <1>6
<1> QED
  BY <1>2, <1>3, <1>4, <1>7

\* Where in a sum it is wrapped around does not matter.
LEMMA WrapAbsorbs ==
  /\ \A x \in Ints : Wrap(x) = x
  /\ \A x, y \in Int : Wrap(x + Wrap(y)) = Wrap(x + y)
  /\ \A x, y \in Int : Wrap(Wrap(x) + y) = Wrap(x + y)
<1> DEFINE M == 2 * Half
<1>1. Half \in Nat \ {0} /\ M \in Nat \ {0} /\ M = Half + Half
  BY ScanAssumption
<1>2. ASSUME NEW x \in Int
      PROVE  Wrap(x) \in Ints /\ Wrap(x) \in Int /\ \E k \in Int : x = Wrap(x) + k * M
  <2>1. Ints \subseteq Int
    BY <1>1 DEF Ints
  <2>2. Wrap(x) \in Ints /\ \E k \in Int : x = Wrap(x) + k * M
    BY WrapShape
  <2> QED
    BY <2>1, <2>2
<1>3. \A a, b \in Ints, k \in Int : a = b + k * M => a = b
  BY WrapUnique
<1>4. Ints \subseteq Int
  BY <1>1 DEF Ints
<1> HIDE DEF M
<1>5. ASSUME NEW x \in Ints PROVE Wrap(x) = x
  <2>1. PICK k \in Int : x = Wrap(x) + k * M
    BY <1>2, <1>4
  <2> QED
    BY <1>2, <1>3, <1>4, <2>1
<1>6. ASSUME NEW x \in Int, NEW y \in Int PROVE Wrap(x + Wrap(y)) = Wrap(x + y)
  <2> DEFINE v == Wrap(y)
             p == Wrap(x + v)
             q == Wrap(x + y)
  <2>1. v \in Int /\ x + v \in Int /\ x + y \in Int
    BY <1>2
  <2>2. p \in Ints /\ q \in Ints /\ p \in Int /\ q \in Int
    BY <1>2, <2>1
  <2>3. PICK i \in Int : y = v + i * M
    BY <1>2
  <2>4. PICK j \in Int : x + v = p + j * M
    BY <1>2, <2>1
  <2>5. PICK k \in Int : x + y = q + k * M
    BY <1>2, <2>1
  <2> HIDE DEF v, p, q
  <2>6. k - i - j \in Int /\ (k - i - j) * M = k * M - i * M - j * M
    BY <1>1
  <2>7. p = q + (k - i - j) * M
    BY <1>1, <2>1, <2>2, <2>3, <2>4, <2>5, <2>6
  <2>8. p = q
    BY <1>3, <2>2, <2>6, <2>7
  <2> QED
    BY <2>8 DEF v, p, q
<1>7. ASSUME NEW x \in Int, NEW y \in Int PROVE Wrap(Wrap(x) + y) = Wrap(x + y)
  <2>1. Wrap(x) \in Int
    BY <1>2
  <2>2. Wrap(x) + y = y + Wrap(x) /\ x + y = y + x
    BY <2>1
  <2> QED
    BY <1>6, <2>2
<1> QED
  BY <1>5, <1>6, <1>7
-----------------------------------------------------------------------------
(* The loop. *)

\* g is what the loop over [from, to) has accumulated before each index.
Loop(acc, from, to, g) ==
  g = [i \in from..to |-> IF i = from THEN acc ELSE Apply(g[i - 1], i - 1)]

\* There is such a g for every number of iterations.
LEMMA LoopExists ==
  ASSUME NEW acc, NEW from \in Nat
  PROVE  \A n \in Nat : \E g : Loop(acc, from, from + n, g)
<1> DEFINE S == {n \in Nat : \E g : Loop(acc, from, from + n, g)}
<1>1. 0 \in S
  <2> DEFINE h == [i \in from..(from + 0) |-> acc]
  <2>1. \A i \in from..(from + 0) : i = from
    OBVIOUS
  <2>2. Loop(acc, from, from + 0, h)
    BY <2>1 DEF Loop
  <2> QED
    BY <2>2
<1>2. ASSUME NEW n \in Nat, n \in S PROVE n + 1 \in S
  <2>1. PICK g : Loop(acc, from, from + n, g)
    BY <1>2
  <2> DEFINE h == [i \in from..(from + (n + 1)) |->
                     IF i = from THEN acc ELSE Apply(g[i - 1], i - 1)]
  <2>2. \A i \in from..(from + n) :
          g[i] = IF i = from THEN acc ELSE Apply(g[i - 1], i - 1)
    BY <2>1 DEF Loop
  <2>3. \A i \in from..(from + (n + 1)) : i # from => i - 1 \in from..(from + n)
    OBVIOUS
  <2>4. \A i \in from..(from + n) : i \in from..(from + (n + 1)) /\ h[i] = g[i]
    BY <2>2
  <2>5. h = [i \in from..(from + (n + 1)) |->
               IF i = from THEN acc ELSE Apply(h[i - 1], i - 1)]
    BY <2>3, <2>4
  <2>6. Loop(acc, from, from + (n + 1), h)
    BY <2>5 DEF Loop
  <2> QED
    BY <2>6
<1> HIDE DEF S
<1>3. \A n \in Nat : n \in S
  BY <1>1, <1>2, Induction
<1> QED
  BY <1>3 DEF S

\* A longer loop goes through the same values.
LEMMA LoopUnique ==
  ASSUME NEW acc, NEW from \in Nat, NEW lo \in Nat, NEW hi \in Nat, from <= lo, lo <= hi,
         NEW g, NEW h, Loop(acc, from, lo, g), Loop(acc, from, hi, h)
  PROVE  g[lo] = h[lo]
<1> DEFINE S == {k \in Nat : from + k <= lo => g[from + k] = h[from + k]}
<1>1. /\ \A i \in from..lo : g[i] = IF i = from THEN acc ELSE Apply(g[i - 1], i - 1)
      /\ \A i \in from..hi : h[i] = IF i = from THEN acc ELSE Apply(h[i - 1], i - 1)
  BY DEF Loop
<1>2. 0 \in S
  BY <1>1
<1>3. ASSUME NEW k \in Nat, k \in S PROVE k + 1 \in S
  <2> SUFFICES ASSUME from + (k + 1) <= lo PROVE g[from + (k + 1)] = h[from + (k + 1)]
    OBVIOUS
  <2>1. g[from + k] = h[from + k]
    BY <1>3
  <2>2. /\ from + (k + 1) \in from..lo
        /\ from + (k + 1) \in from..hi
        /\ from + (k + 1) # from
        /\ from + (k + 1) - 1 = from + k
    OBVIOUS
  <2> QED
    BY <1>1, <2>1, <2>2
<1> HIDE DEF S
<1>4. \A k \in Nat : k \in S
  BY <1>2, <1>3, Induction
<1>5. lo - from \in Nat /\ from + (lo - from) = lo
  OBVIOUS
<1> QED
  BY <1>4, <1>5 DEF S

\* Scan ends with the last value of the loop.
LEMMA ScanIsLoop ==
  ASSUME NEW acc, NEW from \in Nat, NEW n \in Nat
  PROVE  \E g : Loop(acc, from, from + n, g) /\ Scan(acc, from, from + n) = g[from + n]
<1> DEFINE g == CHOOSE g : Loop(acc, from, from + n, g)
<1>1. Loop(acc, from, from + n, g)
  BY LoopExists
<1>2. Scan(acc, from, from + n) = g[from + n]
  BY DEF Scan, Loop
<1> QED
  BY <1>1, <1>2

\* The loop over no index is its start; over one more index, one more iteration.
LEMMA ScanSteps ==
  ASSUME NEW acc, NEW from \in Nat
  PROVE  /\ Scan(acc, from, from) = acc
         /\ \A n \in Nat : Scan(acc, from, from + n + 1)
                             = Apply(Scan(acc, from, from + n), from + n)
<1>1. Scan(acc, from, from) = acc
  <2>1. from + 0 = from
    OBVIOUS
  <2>2. PICK g : Loop(acc, from, from + 0, g) /\ Scan(acc, from, from + 0) = g[from + 0]
    BY ScanIsLoop
  <2>3. g[from] = acc
    BY <2>1, <2>2 DEF Loop
  <2> QED
    BY <2>1, <2>2, <2>3
<1>2. ASSUME NEW n \in Nat
      PROVE  Scan(acc, from, from + n + 1) = Apply(Scan(acc, from, from + n), from + n)
  <2>1. from + (n + 1) = from + n + 1 /\ n + 1 \in Nat /\ n <= n + 1
    OBVIOUS
  <2>2. PICK g : Loop(acc, from, from + n, g) /\ Scan(acc, from, from + n) = g[from + n]
    BY ScanIsLoop
  <2>3. PICK h : /\ Loop(acc, from, from + (n + 1), h)
                 /\ Scan(acc, from, from + (n + 1)) = h[from + (n + 1)]
    BY <2>1, ScanIsLoop
  <2>4. g[from + n] = h[from + n]
    <3>1. from + n \in Nat /\ from + (n + 1) \in Nat /\ from <= from + n
          /\ from + n <= from + (n + 1)
      OBVIOUS
    <3> QED
      BY <2>2, <2>3, <3>1, LoopUnique
  <2>5. /\ from + (n + 1) \in from..(from + (n + 1))
        /\ from + (n + 1) # from
        /\ from + (n + 1) - 1 = from + n
    OBVIOUS
  <2>6. h[from + (n + 1)] = Apply(h[from + n], from + n)
    BY <2>3, <2>5 DEF Loop
  <2> QED
    BY <2>1, <2>2, <2>3, <2>4, <2>6
<1> QED
  BY <1>1, <1>2

\* A loop can stop and go on.
LEMMA ScanGoesOn ==
  ASSUME NEW acc, NEW a \in Nat, NEW b \in Nat, NEW c \in Nat, a <= b, b <= c
  PROVE  Scan(Scan(acc, a, b), b, c) = Scan(acc, a, c)
<1> DEFINE S == {n \in Nat : Scan(Scan(acc, a, b), b, b + n) = Scan(acc, a, b + n)}
<1>1. 0 \in S
  BY ScanSteps
<1>2. ASSUME NEW n \in Nat, n \in S PROVE n + 1 \in S
  <2>1. Scan(Scan(acc, a, b), b, b + n + 1) = Apply(Scan(Scan(acc, a, b), b, b + n), b + n)
    BY ScanSteps
  <2>2. PICK m \in Nat : a + m = b + n /\ a + m + 1 = b + n + 1
    <3>1. b - a + n \in Nat /\ a + (b - a + n) = b + n
      OBVIOUS
    <3> QED
      BY <3>1
  <2>3. Scan(acc, a, a + m + 1) = Apply(Scan(acc, a, a + m), a + m)
    BY ScanSteps
  <2>4. b + (n + 1) = b + n + 1
    OBVIOUS
  <2> QED
    BY <1>2, <2>1, <2>2, <2>3, <2>4
<1> HIDE DEF S
<1>3. \A n \in Nat : n \in S
  BY <1>1, <1>2, Induction
<1>4. c - b \in Nat /\ b + (c - b) = c
  OBVIOUS
<1> QED
  BY <1>3, <1>4 DEF S
-----------------------------------------------------------------------------
(* The operations of a body. *)

\* The state the operations read: which example runs, on which vector.
Input == /\ example \in Scans \cup Reductions
         /\ input \in [1..N -> Ints]
         /\ example = "histogram" => \A i \in 1..N : input[i] >= 0

\* What can have been accumulated over n elements.
Over(n) == CASE example = "find" -> [index : 0..N, value : Ints]
             [] example = "stats" -> [sum : Ints, sum_sq : Ints, count : 0..n]
             [] example = "histogram" -> [0 .. BINS - 1 -> 0..n]
             [] OTHER -> Ints

\* The examples that add a number per element, and what they add.
Adding == {"sum", "total", "count", "dot"}
Delta(i) == IF example = "dot" THEN input[i] * (N - (i - 1))
            ELSE IF example # "count" THEN input[i]
            ELSE IF input[i] > 0 THEN 1 ELSE 0

\* The sizes are positive, and an int can count the elements.
LEMMA Sizes ==
  N \in Nat /\ N # 0 /\ Half \in Nat /\ Half # 0 /\ N < Half /\ BINS \in Nat /\ BINS # 0
BY ScanAssumption

\* An int is a number ...
LEMMA IntIs ==
  \A x \in Ints : x \in Int
BY ScanAssumption DEF Ints

\* ... within its bounds.
LEMMA IntBounds ==
  /\ \A x \in Ints : -Half <= x /\ x <= Half - 1
  /\ 0 \in Ints /\ -Half \in Ints /\ Half - 1 \in Ints
BY ScanAssumption DEF Ints

\* int arithmetic yields an int.
LEMMA WrapIn ==
  ASSUME NEW x \in Int
  PROVE  Wrap(x) \in Ints
BY WrapShape

\* The operations of sum, total, count and dot, ...
LEMMA AddingIs ==
  ASSUME Input, example \in Adding
  PROVE  /\ Identity = 0
         /\ \A n : Over(n) = Ints
         /\ \A i \in 1..N : Delta(i) \in Int
         /\ \A acc \in Ints, i \in 1..N : Apply(acc, i) = Wrap(acc + Delta(i))
         /\ \A a, b : Combine(a, b) = Wrap(a + b)
         /\ \A x, y : Agree(x, y) <=> x = y
<1>1. Identity = 0 /\ (\A n : Over(n) = Ints) /\ (\A a, b : Combine(a, b) = Wrap(a + b))
  BY DEF Adding, Identity, Over, Combine
<1>2. \A x, y : Agree(x, y) <=> x = y
  BY DEF Adding, Agree
<1>3. ASSUME NEW i \in 1..N PROVE Delta(i) \in Int
  <2>1. input[i] \in Int /\ N - (i - 1) \in Int
    <3>1. input[i] \in Ints
      BY <1>3 DEF Input
    <3> QED
      BY <1>3, <3>1, Sizes, IntIs, IntBounds
  <2>2. input[i] * (N - (i - 1)) \in Int
    BY <2>1
  <2> QED
    BY <2>1, <2>2 DEF Delta
<1>4. ASSUME NEW acc \in Ints, NEW i \in 1..N PROVE Apply(acc, i) = Wrap(acc + Delta(i))
  <2>1. CASE example \in {"sum", "total"}
    BY <2>1 DEF Apply, PrefixSum, Delta
  <2>2. CASE example = "dot"
    BY <2>2 DEF Apply, DotProduct, Delta
  <2>3. CASE example = "count"
    <3>1. acc + 0 = acc /\ Wrap(acc) = acc
      BY WrapAbsorbs, Sizes, IntIs, IntBounds
    <3> QED
      BY <2>3, <3>1 DEF Apply, PositiveCount, Delta
  <2> QED
    BY <2>1, <2>2, <2>3 DEF Adding
<1> QED
  BY <1>1, <1>2, <1>3, <1>4

\* ... of the running maximum, ...
LEMMA MaxIs ==
  ASSUME Input, example = "max"
  PROVE  /\ Identity = -Half
         /\ \A n : Over(n) = Ints
         /\ \A acc, i : Apply(acc, i) = IF input[i] > acc THEN input[i] ELSE acc
         /\ \A a, b : Combine(a, b) = IF b > a THEN b ELSE a
         /\ \A x, y : Agree(x, y) <=> x = y
BY DEF Identity, Over, Apply, RunningMaximum, Combine, Agree

\* ... of the minimum, ...
LEMMA MinimumIs ==
  ASSUME Input, example = "minimum"
  PROVE  /\ Identity = Half - 1
         /\ \A n : Over(n) = Ints
         /\ \A acc, i : Apply(acc, i) = IF input[i] < acc THEN input[i] ELSE acc
         /\ \A a, b : Combine(a, b) = IF b < a THEN b ELSE a
         /\ \A x, y : Agree(x, y) <=> x = y
BY DEF Identity, Over, Apply, Minimum, Combine, Agree

\* ... of the maximum with its index, ...
LEMMA FindIs ==
  ASSUME Input, example = "find"
  PROVE  /\ Identity = [index |-> 0, value |-> -Half]
         /\ \A n : Over(n) = [index : 0..N, value : Ints]
         /\ \A acc, i : Apply(acc, i) = IF input[i] > acc.value
                                        THEN [index |-> i, value |-> input[i]] ELSE acc
         /\ \A a, b : Combine(a, b) = IF a.value > b.value THEN a ELSE b
         /\ \A x, y : Agree(x, y) <=> /\ x.value = y.value
                                      /\ x.index # 0 => input[x.index] = x.value
BY DEF Identity, Over, Apply, FindMaximum, FindResult, Combine, Agree

\* ... of the statistics ...
LEMMA StatsIs ==
  ASSUME Input, example = "stats"
  PROVE  /\ Identity = [sum |-> 0, sum_sq |-> 0, count |-> 0]
         /\ \A n : Over(n) = [sum : Ints, sum_sq : Ints, count : 0..n]
         /\ \A acc, i : Apply(acc, i) = [sum |-> Wrap(acc.sum + input[i]),
                                         sum_sq |-> Wrap(acc.sum_sq + input[i] * input[i]),
                                         count |-> acc.count + 1]
         /\ \A a, b : Combine(a, b) = [sum |-> Wrap(a.sum + b.sum),
                                       sum_sq |-> Wrap(a.sum_sq + b.sum_sq),
                                       count |-> a.count + b.count]
         /\ \A x, y : Agree(x, y) <=> x = y
BY DEF Identity, Over, Apply, Statistics, Stats, Combine, Agree

\* ... and of the histogram.
LEMMA HistogramIs ==
  ASSUME Input, example = "histogram"
  PROVE  /\ Identity = [bin \in 0 .. BINS - 1 |-> 0]
         /\ \A n : Over(n) = [0 .. BINS - 1 -> 0..n]
         /\ \A i \in 1..N : \E k \in 0 .. BINS - 1 :
              \A acc : Apply(acc, i) = [acc EXCEPT ![k] = @ + 1]
         /\ \A a, b : Combine(a, b) = [bin \in DOMAIN a |-> a[bin] + b[bin]]
         /\ \A x, y : Agree(x, y) <=> x = y
<1>1. ASSUME NEW i \in 1..N
      PROVE  \E k \in 0 .. BINS - 1 : \A acc : Apply(acc, i) = [acc EXCEPT ![k] = @ + 1]
  <2> DEFINE k == Minimum(input[i], BINS - 1)
  <2>1. input[i] \in Int /\ input[i] >= 0
    BY <1>1, Sizes, IntIs, IntBounds DEF Input
  <2>2. k \in 0 .. BINS - 1
    BY <2>1, Sizes, IntIs, IntBounds DEF Minimum
  <2>3. \A acc : Apply(acc, i) = [acc EXCEPT ![k] = @ + 1]
    BY DEF Apply, Histogram
  <2> QED
    BY <2>2, <2>3
<1> QED
  BY <1>1 DEF Identity, Over, Combine, Agree

\* There are no other examples.
LEMMA ByKind ==
  ASSUME Input
  PROVE  \/ example \in Adding
         \/ example \in {"max", "minimum", "find", "stats", "histogram"}
BY DEF Input, Scans, Reductions, Adding

\* A body that has accumulated nothing.
LEMMA IdentityIn ==
  ASSUME Input
  PROVE  Identity \in Over(0)
<1>1. CASE example \in Adding
  BY <1>1, AddingIs, Sizes, IntIs, IntBounds
<1>2. CASE example = "max"
  BY <1>2, MaxIs, Sizes, IntIs, IntBounds
<1>3. CASE example = "minimum"
  BY <1>3, MinimumIs, Sizes, IntIs, IntBounds
<1>4. CASE example = "find"
  <2>1. 0 \in 0..N
    BY Sizes, IntIs, IntBounds
  <2> QED
    BY <1>4, <2>1, FindIs, Sizes, IntIs, IntBounds
<1>5. CASE example = "stats"
  <2>1. [sum |-> 0, sum_sq |-> 0, count |-> 0] \in [sum : Ints, sum_sq : Ints, count : 0..0]
    BY IntBounds
  <2> QED
    BY <1>5, <2>1, StatsIs
<1>6. CASE example = "histogram"
  BY <1>6, HistogramIs
<1> QED
  BY <1>1, <1>2, <1>3, <1>4, <1>5, <1>6, ByKind

\* One more iteration yields a value over one more element.
LEMMA ApplyIn ==
  ASSUME Input, NEW n \in Nat, NEW acc \in Over(n), NEW i \in 1..N
  PROVE  Apply(acc, i) \in Over(n + 1)
<1>0. input[i] \in Ints /\ input[i] \in Int /\ i \in 0..N
  <2>1. input[i] \in Ints
    BY DEF Input
  <2> QED
    BY <2>1, Sizes, IntIs, IntBounds
<1>1. CASE example \in Adding
  <2>1. acc \in Ints /\ acc \in Int /\ Delta(i) \in Int
    BY <1>1, AddingIs, Sizes, IntIs, IntBounds
  <2>2. acc + Delta(i) \in Int
    BY <2>1
  <2> QED
    BY <1>1, <2>1, <2>2, AddingIs, WrapIn
<1>2. CASE example = "max"
  BY <1>0, <1>2, MaxIs
<1>3. CASE example = "minimum"
  BY <1>0, <1>3, MinimumIs
<1>4. CASE example = "find"
  BY <1>0, <1>4, FindIs
<1>5. CASE example = "stats"
  <2>1. acc \in [sum : Ints, sum_sq : Ints, count : 0..n]
    BY <1>5, StatsIs
  <2>2. acc.sum \in Int /\ acc.sum_sq \in Int /\ acc.count + 1 \in 0..(n + 1)
    BY <2>1, Sizes, IntIs, IntBounds
  <2>3. acc.sum + input[i] \in Int /\ acc.sum_sq + input[i] * input[i] \in Int
    BY <1>0, <2>2
  <2>4. Wrap(acc.sum + input[i]) \in Ints /\ Wrap(acc.sum_sq + input[i] * input[i]) \in Ints
    BY <2>3, WrapIn
  <2>5. [sum |-> Wrap(acc.sum + input[i]), sum_sq |-> Wrap(acc.sum_sq + input[i] * input[i]),
         count |-> acc.count + 1] \in [sum : Ints, sum_sq : Ints, count : 0..(n + 1)]
    BY <2>2, <2>4
  <2> QED
    BY <1>5, <2>5, StatsIs
<1>6. CASE example = "histogram"
  <2>1. acc \in [0 .. BINS - 1 -> 0..n]
    BY <1>6, HistogramIs
  <2>2. PICK k \in 0 .. BINS - 1 : Apply(acc, i) = [acc EXCEPT ![k] = @ + 1]
    BY <1>6, HistogramIs
  <2>3. \A bin \in 0 .. BINS - 1 : acc[bin] \in 0..(n + 1) /\ acc[bin] + 1 \in 0..(n + 1)
    BY <2>1
  <2>4. [acc EXCEPT ![k] = @ + 1] \in [0 .. BINS - 1 -> 0..(n + 1)]
    BY <2>1, <2>3
  <2> QED
    BY <1>6, <2>2, <2>4, HistogramIs
<1> QED
  BY <1>1, <1>2, <1>3, <1>4, <1>5, <1>6, ByKind

\* A join yields a value over the elements of both.
LEMMA CombineIn ==
  ASSUME Input, NEW m \in Nat, NEW n \in Nat, NEW a \in Over(m), NEW b \in Over(n)
  PROVE  Combine(a, b) \in Over(m + n)
<1>1. CASE example \in Adding
  <2>1. a \in Int /\ b \in Int
    BY <1>1, AddingIs, Sizes, IntIs, IntBounds
  <2>2. a + b \in Int
    BY <2>1
  <2> QED
    BY <1>1, <2>2, AddingIs, WrapIn
<1>2. CASE example = "max"
  BY <1>2, MaxIs
<1>3. CASE example = "minimum"
  BY <1>3, MinimumIs
<1>4. CASE example = "find"
  BY <1>4, FindIs
<1>5. CASE example = "stats"
  <2>1. /\ a \in [sum : Ints, sum_sq : Ints, count : 0..m]
        /\ b \in [sum : Ints, sum_sq : Ints, count : 0..n]
    BY <1>5, StatsIs
  <2>2. /\ a.sum \in Int /\ a.sum_sq \in Int /\ b.sum \in Int /\ b.sum_sq \in Int
        /\ a.count + b.count \in 0..(m + n)
    BY <2>1, Sizes, IntIs, IntBounds
  <2>3. a.sum + b.sum \in Int /\ a.sum_sq + b.sum_sq \in Int
    BY <2>2
  <2>4. Wrap(a.sum + b.sum) \in Ints /\ Wrap(a.sum_sq + b.sum_sq) \in Ints
    BY <2>3, WrapIn
  <2>5. [sum |-> Wrap(a.sum + b.sum), sum_sq |-> Wrap(a.sum_sq + b.sum_sq),
         count |-> a.count + b.count] \in [sum : Ints, sum_sq : Ints, count : 0..(m + n)]
    BY <2>2, <2>4
  <2> QED
    BY <1>5, <2>5, StatsIs
<1>6. CASE example = "histogram"
  <2>1. a \in [0 .. BINS - 1 -> 0..m] /\ b \in [0 .. BINS - 1 -> 0..n]
    BY <1>6, HistogramIs
  <2>2. \A bin \in 0 .. BINS - 1 : a[bin] + b[bin] \in 0..(m + n)
    BY <2>1
  <2>3. [bin \in DOMAIN a |-> a[bin] + b[bin]] \in [0 .. BINS - 1 -> 0..(m + n)]
    BY <2>1, <2>2
  <2>4. /\ Over(m + n) = [0 .. BINS - 1 -> 0..(m + n)]
        /\ Combine(a, b) = [bin \in DOMAIN a |-> a[bin] + b[bin]]
    BY <1>6, HistogramIs
  <2> QED
    BY <2>3, <2>4
<1> QED
  BY <1>1, <1>2, <1>3, <1>4, <1>5, <1>6, ByKind

\* What can be accumulated over m elements can be over more.
LEMMA OverGrows ==
  ASSUME Input, NEW m \in Nat, NEW n \in Nat, m <= n
  PROVE  Over(m) \subseteq Over(n)
<1>1. 0..m \subseteq 0..n
  OBVIOUS
<1> QED
  BY <1>1 DEF Over

\* A value over m elements that agrees with one over n elements is one over n elements.
LEMMA AgreeIn ==
  ASSUME Input, NEW m \in Nat, NEW n \in Nat, NEW x \in Over(m), NEW y \in Over(n),
         Agree(x, y)
  PROVE  x \in Over(n)
<1>1. CASE example = "find"
  BY <1>1, FindIs
<1>2. CASE example # "find"
  BY <1>2 DEF Agree
<1> QED
  BY <1>1, <1>2
-----------------------------------------------------------------------------
(* Agreement is kept by the operations, and they can be regrouped. *)

\* Agreement passes on, and what agrees with something agrees with itself.
LEMMA AgreeTransitive ==
  ASSUME NEW x, NEW y, NEW z, Agree(x, y)
  PROVE  /\ Agree(x, x)
         /\ Agree(y, z) => Agree(x, z)
BY DEF Agree

\* The identity names no index.
LEMMA IdentityAgrees ==
  ASSUME Input
  PROVE  Agree(Identity, Identity)
BY DEF Agree, Identity, FindResult

\* An iteration keeps agreement.
LEMMA AgreeApply ==
  ASSUME Input, NEW n \in Nat, NEW x \in Over(n), NEW y \in Over(n), Agree(x, y),
         NEW i \in 1..N
  PROVE  Agree(Apply(x, i), Apply(y, i))
<1>1. CASE example = "find"
  <2>1. x.value = y.value /\ (x.index # 0 => input[x.index] = x.value)
    BY <1>1, FindIs
  <2>2. CASE input[i] > x.value
    BY <1>1, <2>1, <2>2, FindIs
  <2>3. CASE ~ (input[i] > x.value)
    BY <1>1, <2>1, <2>3, FindIs
  <2> QED
    BY <2>2, <2>3
<1>2. CASE example # "find"
  BY <1>2 DEF Agree
<1> QED
  BY <1>1, <1>2

\* A join keeps agreement on the right.
LEMMA AgreeCombine ==
  ASSUME Input, NEW m \in Nat, NEW n \in Nat,
         NEW x \in Over(m), NEW y \in Over(n), NEW z \in Over(n),
         Agree(x, x), Agree(y, z)
  PROVE  Agree(Combine(x, y), Combine(x, z))
<1>1. CASE example = "find"
  <2>1. /\ y.value = z.value /\ (y.index # 0 => input[y.index] = y.value)
        /\ (x.index # 0 => input[x.index] = x.value)
    BY <1>1, FindIs
  <2>2. CASE x.value > y.value
    BY <1>1, <2>1, <2>2, FindIs
  <2>3. CASE ~ (x.value > y.value)
    BY <1>1, <2>1, <2>3, FindIs
  <2> QED
    BY <2>2, <2>3
<1>2. CASE example # "find"
  BY <1>2 DEF Agree
<1> QED
  BY <1>1, <1>2

\* Joining with a body that has accumulated nothing.
LEMMA CombineIdentity ==
  ASSUME Input, NEW n \in Nat, NEW x \in Over(n), Agree(x, x)
  PROVE  Agree(Combine(x, Identity), x)
<1>1. CASE example \in Adding
  <2>1. x \in Ints /\ x + 0 = x
    BY <1>1, AddingIs, Sizes, IntIs, IntBounds
  <2> QED
    BY <1>1, <2>1, AddingIs, WrapAbsorbs
<1>2. CASE example = "max"
  BY <1>2, MaxIs, Sizes, IntIs, IntBounds
<1>3. CASE example = "minimum"
  BY <1>3, MinimumIs, Sizes, IntIs, IntBounds
<1>4. CASE example = "find"
  <2>1. x \in [index : 0..N, value : Ints]
    BY <1>4, FindIs
  <2>2. x.value > -Half \/ x.value = -Half
    BY <2>1, Sizes, IntIs, IntBounds
  <2> QED
    BY <1>4, <2>2, FindIs
<1>5. CASE example = "stats"
  <2>1. x \in [sum : Ints, sum_sq : Ints, count : 0..n]
    BY <1>5, StatsIs
  <2>2. x.sum + 0 = x.sum /\ x.sum_sq + 0 = x.sum_sq /\ x.count + 0 = x.count
    BY <2>1, Sizes, IntIs, IntBounds
  <2>3. Wrap(x.sum) = x.sum /\ Wrap(x.sum_sq) = x.sum_sq
    BY <2>1, WrapAbsorbs
  <2> QED
    BY <1>5, <2>1, <2>2, <2>3, StatsIs
<1>6. CASE example = "histogram"
  <2>1. x \in [0 .. BINS - 1 -> 0..n]
    BY <1>6, HistogramIs
  <2>2. \A bin \in 0 .. BINS - 1 : x[bin] + 0 = x[bin]
    BY <2>1
  <2>3. Combine(x, Identity) = [bin \in DOMAIN x |-> x[bin] + Identity[bin]]
    BY <1>6 DEF Combine
  <2>4. \A bin \in 0 .. BINS - 1 : Identity[bin] = 0
    BY <1>6, HistogramIs
  <2>5. Combine(x, Identity) = x
    BY <2>1, <2>2, <2>3, <2>4
  <2> QED
    BY <1>6, <2>5, HistogramIs
<1> QED
  BY <1>1, <1>2, <1>3, <1>4, <1>5, <1>6, ByKind

\* One more element: on the right of a join, or in the right one of the two.
LEMMA CombineApply ==
  ASSUME Input, NEW m \in Nat, NEW n \in Nat, NEW x \in Over(m), NEW y \in Over(n),
         Agree(x, x), Agree(y, y), NEW i \in 1..N
  PROVE  Agree(Combine(x, Apply(y, i)), Apply(Combine(x, y), i))
<1>0. input[i] \in Ints /\ input[i] \in Int
  <2>1. input[i] \in Ints
    BY DEF Input
  <2> QED
    BY <2>1, Sizes, IntIs, IntBounds
<1>1. CASE example \in Adding
  <2>1. x \in Ints /\ y \in Ints /\ x \in Int /\ y \in Int /\ Delta(i) \in Int
    BY <1>1, AddingIs, Sizes, IntIs, IntBounds
  <2>2. y + Delta(i) \in Int /\ x + y \in Int /\ Wrap(x + y) \in Ints
    BY <2>1, WrapIn
  <2>3. Combine(x, Apply(y, i)) = Wrap(x + Wrap(y + Delta(i)))
    BY <1>1, <2>1, AddingIs
  <2>4. Apply(Combine(x, y), i) = Wrap(Wrap(x + y) + Delta(i))
    BY <1>1, <2>2, AddingIs
  <2>5. Wrap(x + Wrap(y + Delta(i))) = Wrap(x + (y + Delta(i)))
    BY <2>1, <2>2, WrapAbsorbs
  <2>6. Wrap(Wrap(x + y) + Delta(i)) = Wrap((x + y) + Delta(i))
    BY <2>1, <2>2, WrapAbsorbs
  <2>7. x + (y + Delta(i)) = (x + y) + Delta(i)
    BY <2>1
  <2> QED
    BY <1>1, <2>3, <2>4, <2>5, <2>6, <2>7, AddingIs
<1>2. CASE example = "max"
  <2>1. x \in Int /\ y \in Int
    BY <1>2, MaxIs, Sizes, IntIs, IntBounds
  <2> QED
    BY <1>0, <1>2, <2>1, MaxIs
<1>3. CASE example = "minimum"
  <2>1. x \in Int /\ y \in Int
    BY <1>3, MinimumIs, Sizes, IntIs, IntBounds
  <2> QED
    BY <1>0, <1>3, <2>1, MinimumIs
<1>4. CASE example = "find"
  <2>0. x \in [index : 0..N, value : Ints] /\ y \in [index : 0..N, value : Ints]
    BY <1>4, FindIs
  <2>1. x.value \in Int /\ y.value \in Int
    BY <2>0, IntIs
  <2>2. CASE input[i] > y.value
    BY <1>0, <1>4, <2>1, <2>2, FindIs
  <2>3. CASE ~ (input[i] > y.value)
    BY <1>0, <1>4, <2>1, <2>3, FindIs
  <2> QED
    BY <2>2, <2>3
<1>5. CASE example = "stats"
  <2>1. /\ x \in [sum : Ints, sum_sq : Ints, count : 0..m]
        /\ y \in [sum : Ints, sum_sq : Ints, count : 0..n]
    BY <1>5, StatsIs
  <2>2. /\ x.sum \in Int /\ x.sum_sq \in Int /\ y.sum \in Int /\ y.sum_sq \in Int
        /\ x.count \in Int /\ y.count \in Int
    BY <2>1, Sizes, IntIs, IntBounds
  <2>3. \A u, v, d \in Int : Wrap(u + Wrap(v + d)) = Wrap(Wrap(u + v) + d)
    <3> SUFFICES ASSUME NEW u \in Int, NEW v \in Int, NEW d \in Int
                 PROVE  Wrap(u + Wrap(v + d)) = Wrap(Wrap(u + v) + d)
      OBVIOUS
    <3>1. u + v \in Int /\ v + d \in Int /\ u + (v + d) = (u + v) + d
      OBVIOUS
    <3> QED
      BY <3>1, WrapAbsorbs
  <2>4. input[i] * input[i] \in Int
    BY <1>0
  <2>5. x.count + (y.count + 1) = (x.count + y.count) + 1
    BY <2>2
  <2> QED
    BY <1>0, <1>5, <2>2, <2>3, <2>4, <2>5, StatsIs
<1>6. CASE example = "histogram"
  <2>1. x \in [0 .. BINS - 1 -> 0..m] /\ y \in [0 .. BINS - 1 -> 0..n]
    BY <1>6, HistogramIs
  <2>2. PICK k \in 0 .. BINS - 1 : \A acc : Apply(acc, i) = [acc EXCEPT ![k] = @ + 1]
    BY <1>6, HistogramIs
  <2>3. \A bin \in 0 .. BINS - 1 : x[bin] \in Int /\ y[bin] \in Int
    BY <2>1
  <2> DEFINE l == [bin \in DOMAIN x |-> x[bin] + [y EXCEPT ![k] = @ + 1][bin]]
             r == [[bin \in DOMAIN x |-> x[bin] + y[bin]] EXCEPT ![k] = @ + 1]
  <2>4. l = r
    <3>1. ASSUME NEW bin \in 0 .. BINS - 1 PROVE l[bin] = r[bin]
      <4>1. bin \in DOMAIN x /\ bin \in DOMAIN y /\ x[bin] \in Int /\ y[bin] \in Int
        BY <2>1, <2>3
      <4>2. CASE bin = k
        BY <4>1, <4>2
      <4>3. CASE bin # k
        BY <4>1, <4>3
      <4> QED
        BY <4>2, <4>3
    <3>2. l = [bin \in 0 .. BINS - 1 |-> l[bin]] /\ r = [bin \in 0 .. BINS - 1 |-> r[bin]]
      BY <2>1
    <3> HIDE DEF l, r
    <3> QED
      BY <3>1, <3>2
  <2>5. Combine(x, Apply(y, i)) = l /\ Apply(Combine(x, y), i) = r
    BY <1>6, <2>2, HistogramIs
  <2> QED
    BY <1>6, <2>4, <2>5, HistogramIs
<1> QED
  BY <1>1, <1>2, <1>3, <1>4, <1>5, <1>6, ByKind
-----------------------------------------------------------------------------
(* What a loop yields, by induction on the number of its iterations. *)

\* A loop over b - a more elements yields a value over so many more.
LEMMA ScanIn ==
  ASSUME Input, NEW m \in Nat, NEW x \in Over(m),
         NEW a \in 1..(N + 1), NEW b \in 1..(N + 1), a <= b
  PROVE  Scan(x, a, b) \in Over(m + (b - a))
<1> DEFINE S == {n \in Nat : a + n <= N + 1 => Scan(x, a, a + n) \in Over(m + n)}
<1>0. a \in Nat /\ b \in Nat /\ N \in Nat
  BY Sizes
<1>1. 0 \in S
  BY <1>0, ScanSteps
<1>2. ASSUME NEW n \in Nat, n \in S PROVE n + 1 \in S
  <2> SUFFICES ASSUME a + (n + 1) <= N + 1
               PROVE  Scan(x, a, a + (n + 1)) \in Over(m + (n + 1))
    OBVIOUS
  <2>1. a + n \in 1..N /\ a + n <= N + 1 /\ m + n \in Nat
    BY <1>0
  <2>2. Scan(x, a, a + n) \in Over(m + n)
    BY <1>2, <2>1
  <2>3. Apply(Scan(x, a, a + n), a + n) \in Over(m + n + 1)
    BY <2>1, <2>2, ApplyIn
  <2>4. Scan(x, a, a + n + 1) = Apply(Scan(x, a, a + n), a + n)
    BY <1>0, ScanSteps
  <2>5. a + (n + 1) = a + n + 1 /\ m + (n + 1) = m + n + 1
    BY <1>0
  <2> QED
    BY <2>3, <2>4, <2>5
<1> HIDE DEF S
<1>3. \A n \in Nat : n \in S
  BY <1>1, <1>2, Induction
<1>4. b - a \in Nat /\ a + (b - a) = b /\ b <= N + 1
  BY <1>0
<1> QED
  BY <1>3, <1>4 DEF S

\* Loops that start with values of the same range end with such values.
LEMMA ScanAgrees ==
  ASSUME Input, NEW m \in Nat, NEW x \in Over(m), NEW y \in Over(m), Agree(x, y),
         NEW a \in 1..(N + 1), NEW b \in 1..(N + 1), a <= b
  PROVE  Agree(Scan(x, a, b), Scan(y, a, b))
<1> DEFINE S == {n \in Nat : a + n <= N + 1 => Agree(Scan(x, a, a + n), Scan(y, a, a + n))}
<1>0. a \in Nat /\ b \in Nat /\ N \in Nat
  BY Sizes
<1>1. 0 \in S
  BY <1>0, ScanSteps
<1>2. ASSUME NEW n \in Nat, n \in S PROVE n + 1 \in S
  <2> SUFFICES ASSUME a + (n + 1) <= N + 1
               PROVE  Agree(Scan(x, a, a + (n + 1)), Scan(y, a, a + (n + 1)))
    OBVIOUS
  <2>1. /\ a + n \in 1..N /\ a + n \in 1..(N + 1) /\ a + n <= N + 1 /\ a <= a + n
        /\ m + (a + n - a) \in Nat
    BY <1>0
  <2>2. Agree(Scan(x, a, a + n), Scan(y, a, a + n))
    BY <1>2, <2>1
  <2>3. /\ Scan(x, a, a + n) \in Over(m + (a + n - a))
        /\ Scan(y, a, a + n) \in Over(m + (a + n - a))
    BY <2>1, ScanIn
  <2>4. Agree(Apply(Scan(x, a, a + n), a + n), Apply(Scan(y, a, a + n), a + n))
    BY <2>1, <2>2, <2>3, AgreeApply
  <2>5. /\ Scan(x, a, a + n + 1) = Apply(Scan(x, a, a + n), a + n)
        /\ Scan(y, a, a + n + 1) = Apply(Scan(y, a, a + n), a + n)
    BY <1>0, ScanSteps
  <2>6. a + (n + 1) = a + n + 1
    BY <1>0
  <2> QED
    BY <2>4, <2>5, <2>6
<1> HIDE DEF S
<1>3. \A n \in Nat : n \in S
  BY <1>1, <1>2, Induction
<1>4. b - a \in Nat /\ a + (b - a) = b /\ b <= N + 1
  BY <1>0
<1> QED
  BY <1>3, <1>4 DEF S

\* The sequential loop's value is one over its elements, with a right index.
LEMMA SequentialIs ==
  ASSUME Input, NEW a \in 1..(N + 1), NEW b \in 1..(N + 1), a <= b
  PROVE  /\ Sequential(a, b) \in Over(b - a)
         /\ Agree(Sequential(a, b), Sequential(a, b))
         /\ b - a \in Nat
<1>1. Identity \in Over(0) /\ Agree(Identity, Identity)
  BY IdentityIn, IdentityAgrees
<1>2. Sequential(a, b) \in Over(0 + (b - a))
  BY <1>1, ScanIn DEF Sequential
<1>3. Agree(Sequential(a, b), Sequential(a, b))
  BY <1>1, ScanAgrees DEF Sequential
<1>4. b - a \in Nat /\ 0 + (b - a) = b - a
  BY Sizes
<1> QED
  BY <1>2, <1>3, <1>4

\* A value joined with that of the range to its right is as good as the value the
\* loop over that range starts with.
LEMMA ScanJoins ==
  ASSUME Input, NEW m \in Nat, NEW x \in Over(m), Agree(x, x),
         NEW a \in 1..(N + 1), NEW b \in 1..(N + 1), a <= b
  PROVE  Agree(Combine(x, Sequential(a, b)), Scan(x, a, b))
<1> DEFINE S == {n \in Nat : a + n <= N + 1 =>
                   Agree(Combine(x, Sequential(a, a + n)), Scan(x, a, a + n))}
<1>0. a \in Nat /\ b \in Nat /\ N \in Nat
  BY Sizes
<1>1. 0 \in S
  <2>1. Scan(x, a, a) = x /\ Sequential(a, a) = Identity
    BY <1>0, ScanSteps DEF Sequential
  <2>2. Agree(Combine(x, Identity), x)
    BY CombineIdentity
  <2>3. a + 0 = a
    BY <1>0
  <2> QED
    BY <2>1, <2>2, <2>3
<1>2. ASSUME NEW n \in Nat, n \in S PROVE n + 1 \in S
  <2> SUFFICES ASSUME a + (n + 1) <= N + 1
               PROVE  Agree(Combine(x, Sequential(a, a + (n + 1))), Scan(x, a, a + (n + 1)))
    OBVIOUS
  <2> DEFINE c == a + n
             s == Sequential(a, c)
             t == Scan(x, a, c)
  <2>1. /\ c \in 1..N /\ c \in 1..(N + 1) /\ c <= N + 1 /\ a <= c
        /\ c - a = n /\ m + n \in Nat /\ a + (n + 1) = c + 1
    BY <1>0
  <2>2. Agree(Combine(x, s), t)
    BY <1>2, <2>1
  <2>3. s \in Over(n) /\ Agree(s, s)
    <3>1. Sequential(a, c) \in Over(c - a) /\ Agree(Sequential(a, c), Sequential(a, c))
      BY <2>1, SequentialIs
    <3> QED
      BY <2>1, <3>1
  <2>4. t \in Over(m + n)
    <3>1. Scan(x, a, c) \in Over(m + (c - a))
      BY <2>1, ScanIn
    <3> QED
      BY <2>1, <3>1
  <2>5. Scan(x, a, c + 1) = Apply(t, c) /\ Sequential(a, c + 1) = Apply(s, c)
    BY <1>0, ScanSteps DEF Sequential
  <2> HIDE DEF c, s, t
  <2>6. Combine(x, s) \in Over(m + n)
    BY <2>3, CombineIn
  <2>7. Agree(Combine(x, Apply(s, c)), Apply(Combine(x, s), c))
    BY <2>1, <2>3, CombineApply
  <2>8. Agree(Apply(Combine(x, s), c), Apply(t, c))
    BY <2>1, <2>2, <2>4, <2>6, AgreeApply
  <2>9. Agree(Combine(x, Apply(s, c)), Apply(t, c))
    BY <2>7, <2>8, AgreeTransitive
  <2> QED
    BY <2>1, <2>5, <2>9
<1> HIDE DEF S
<1>3. \A n \in Nat : n \in S
  BY <1>1, <1>2, Induction
<1>4. b - a \in Nat /\ a + (b - a) = b /\ b <= N + 1
  BY <1>0
<1> QED
  BY <1>3, <1>4 DEF S

\* A body that has accumulated [a, b) goes on over [b, c).
LEMMA ScanCovers ==
  ASSUME Input, NEW x \in Over(N),
         NEW a \in 1..(N + 1), NEW b \in 1..(N + 1), NEW c \in 1..(N + 1), a <= b, b <= c,
         Agree(x, Sequential(a, b))
  PROVE  /\ Scan(x, b, c) \in Over(N)
         /\ Agree(Scan(x, b, c), Sequential(a, c))
<1> DEFINE s == Sequential(a, b)
<1>0. N \in Nat /\ a <= c /\ a \in Nat /\ b \in Nat /\ c \in Nat /\ b - a \in Nat /\ b - a <= N
      /\ c - a \in Nat /\ c - a <= N /\ N + (c - b) \in Nat
  BY Sizes
<1>1. s \in Over(b - a) /\ Over(b - a) \subseteq Over(N)
  BY <1>0, SequentialIs, OverGrows
<1>2. Agree(Scan(x, b, c), Scan(s, b, c))
  BY <1>0, <1>1, ScanAgrees
<1>3. Scan(s, b, c) = Sequential(a, c)
  BY <1>0, ScanGoesOn DEF Sequential
<1>4. Scan(x, b, c) \in Over(N + (c - b))
  BY <1>0, ScanIn
<1>5. Sequential(a, c) \in Over(c - a) /\ Over(c - a) \subseteq Over(N)
  BY <1>0, SequentialIs, OverGrows
<1>6. Scan(x, b, c) \in Over(c - a)
  BY <1>0, <1>2, <1>3, <1>4, <1>5, AgreeIn
<1> QED
  BY <1>2, <1>3, <1>5, <1>6

\* A body that has accumulated [a, b) is joined with one that has accumulated [b, c).
LEMMA JoinCovers ==
  ASSUME Input, NEW x \in Over(N), NEW y \in Over(N),
         NEW a \in 1..(N + 1), NEW b \in 1..(N + 1), NEW c \in 1..(N + 1), a <= b, b <= c,
         Agree(x, Sequential(a, b)), Agree(y, Sequential(b, c))
  PROVE  /\ Combine(x, y) \in Over(N)
         /\ Agree(Combine(x, y), Sequential(a, c))
<1> DEFINE t == Sequential(b, c)
<1>0. N \in Nat /\ a <= c /\ a \in Nat /\ b \in Nat /\ c \in Nat /\ c - b \in Nat /\ c - b <= N
      /\ c - a \in Nat /\ c - a <= N /\ N + N \in Nat
  BY Sizes
<1>1. t \in Over(c - b) /\ Over(c - b) \subseteq Over(N)
  BY <1>0, SequentialIs, OverGrows
<1>2. Agree(x, x)
  BY AgreeTransitive
<1>3. Agree(Combine(x, y), Combine(x, t))
  BY <1>0, <1>1, <1>2, AgreeCombine
<1>4. Agree(Combine(x, t), Scan(x, b, c))
  BY <1>0, <1>2, ScanJoins
<1>5. Agree(Scan(x, b, c), Sequential(a, c))
  BY ScanCovers
<1> HIDE DEF t
<1>6. Agree(Combine(x, y), Sequential(a, c))
  BY <1>3, <1>4, <1>5, AgreeTransitive
<1>7. Combine(x, y) \in Over(N + N)
  BY <1>0, CombineIn
<1>8. Sequential(a, c) \in Over(c - a) /\ Over(c - a) \subseteq Over(N)
  BY <1>0, SequentialIs, OverGrows
<1>9. Combine(x, y) \in Over(c - a)
  BY <1>0, <1>6, <1>7, <1>8, AgreeIn
<1> QED
  BY <1>6, <1>8, <1>9
-----------------------------------------------------------------------------
(* Example 4: the positive elements and their places. *)

\* There are at most n positive elements among the first n, ...
LEMMA PositiveFinite ==
  ASSUME NEW n \in Nat
  PROVE  /\ IsFiniteSet(Positive(n))
         /\ Cardinality(Positive(n)) \in 0..n
<1>1. IsFiniteSet(1..n) /\ Cardinality(1..n) = n
  BY FS_Interval
<1>2. Positive(n) \in SUBSET (1..n)
  BY DEF Positive
<1>3. IsFiniteSet(Positive(n)) /\ Cardinality(Positive(n)) <= n
  BY <1>1, <1>2, FS_Subset
<1>4. Cardinality(Positive(n)) \in Nat
  BY <1>3, FS_CardinalityType
<1> QED
  BY <1>3, <1>4

\* ... and the next one is one more if it is positive.
LEMMA PositiveStep ==
  ASSUME NEW n \in Nat
  PROVE  Cardinality(Positive(n + 1))
           = IF input[n + 1] > 0 THEN Cardinality(Positive(n)) + 1
             ELSE Cardinality(Positive(n))
<1>1. n + 1 \notin Positive(n)
  BY DEF Positive
<1>2. CASE input[n + 1] > 0
  <2>1. Positive(n + 1) = Positive(n) \cup {n + 1}
    BY <1>2 DEF Positive
  <2>2. Cardinality(Positive(n) \cup {n + 1}) = Cardinality(Positive(n)) + 1
    BY <1>1, PositiveFinite, FS_AddElement
  <2> QED
    BY <1>2, <2>1, <2>2
<1>3. CASE ~ (input[n + 1] > 0)
  <2>1. Positive(n + 1) = Positive(n)
    BY <1>3 DEF Positive
  <2> QED
    BY <1>3, <2>1
<1> QED
  BY <1>2, <1>3

\* A positive element has a greater place than those before it.
LEMMA PlacesGrow ==
  ASSUME NEW i \in Nat, NEW j \in Positive(i), NEW k \in Nat, k < j
  PROVE  Cardinality(Positive(k)) < Cardinality(Positive(i))
<1>1. IsFiniteSet(Positive(i)) /\ IsFiniteSet(Positive(k))
  BY PositiveFinite
<1>2. Positive(k) \in SUBSET Positive(i) /\ j \notin Positive(k)
  BY DEF Positive
<1>3. Cardinality(Positive(k)) <= Cardinality(Positive(i))
  BY <1>1, <1>2, FS_Subset
<1>4. Cardinality(Positive(k)) # Cardinality(Positive(i))
  BY <1>1, <1>2, FS_Subset
<1>5. Cardinality(Positive(k)) \in Int /\ Cardinality(Positive(i)) \in Int
  BY PositiveFinite
<1> QED
  BY <1>3, <1>4, <1>5

\* The loop of example 4 counts them: there are fewer than wrap an int around.
LEMMA CountIs ==
  ASSUME Input, example = "count", NEW i \in 0..N
  PROVE  Sequential(1, i + 1) = Cardinality(Positive(i))
<1> DEFINE S == {n \in Nat : n <= N => Sequential(1, n + 1) = Cardinality(Positive(n))}
<1>0. N \in Nat
  BY Sizes
<1>1. 0 \in S
  <2>1. Sequential(1, 0 + 1) = 0
    BY ScanSteps, AddingIs DEF Sequential, Adding
  <2>2. Positive(0) = {} /\ Cardinality({}) = 0
    BY FS_EmptySet DEF Positive
  <2> QED
    BY <2>1, <2>2
<1>2. ASSUME NEW n \in Nat, n \in S PROVE n + 1 \in S
  <2> SUFFICES ASSUME n + 1 <= N
               PROVE  Sequential(1, n + 1 + 1) = Cardinality(Positive(n + 1))
    OBVIOUS
  <2> DEFINE c == Cardinality(Positive(n))
  <2>1. Sequential(1, n + 1) = c
    BY <1>0, <1>2
  <2>2. Sequential(1, n + 1 + 1) = Apply(Sequential(1, n + 1), n + 1)
    <3>1. 1 + n = n + 1 /\ 1 + n + 1 = n + 1 + 1
      OBVIOUS
    <3>2. Scan(Identity, 1, 1 + n + 1) = Apply(Scan(Identity, 1, 1 + n), 1 + n)
      BY ScanSteps
    <3> QED
      BY <3>1, <3>2 DEF Sequential
  <2>3. c \in 0..n
    BY PositiveFinite
  <2>4. Apply(c, n + 1) = IF input[n + 1] > 0 THEN Wrap(c + 1) ELSE c
    BY DEF Apply, PositiveCount
  <2>5. c + 1 \in Ints
    BY <2>3, Sizes DEF Ints
  <2>6. Wrap(c + 1) = c + 1
    BY <2>5, WrapAbsorbs
  <2>7. Cardinality(Positive(n + 1)) = IF input[n + 1] > 0 THEN c + 1 ELSE c
    BY PositiveStep
  <2> QED
    BY <2>1, <2>2, <2>4, <2>6, <2>7
<1> HIDE DEF S
<1>3. \A n \in Nat : n \in S
  BY <1>1, <1>2, Induction
<1>4. i \in Nat /\ i <= N
  BY <1>0
<1> QED
  BY <1>3, <1>4 DEF S

\* The maximum of some indices is one of them.
LEMMA MaxIn ==
  ASSUME NEW n \in Nat, NEW T, T \subseteq 1..n, T # {}
  PROVE  Max(T) \in T
<1> DEFINE U == {n - i : i \in T}
<1>1. U \subseteq Nat /\ U # {}
  <2>1. \A i \in 1..n : n - i \in Nat
    OBVIOUS
  <2>2. \A i \in T : n - i \in Nat /\ n - i \in U
    BY <2>1
  <2>3. PICK i \in T : TRUE
    OBVIOUS
  <2> QED
    BY <2>2, <2>3
<1>2. PICK u \in U : \A y \in U : u <= y
  BY <1>1, LeastNat
<1>3. PICK x \in T : u = n - x
  OBVIOUS
<1>4. \A y \in T : x >= y
  <2> TAKE y \in T
  <2>1. n - y \in U
    OBVIOUS
  <2>2. n - x <= n - y
    BY <1>2, <1>3, <2>1
  <2>3. x \in Int /\ y \in Int
    OBVIOUS
  <2> QED
    BY <2>2, <2>3
<1> QED
  BY <1>3, <1>4 DEF Max
-----------------------------------------------------------------------------
(* The inductive invariant: as well as what the properties say, no input of *)
(* the histogram is negative (as the examples choose it, and as no step     *)
(* changes), and the final scan has passed everything once it returns.      *)

NoNegatives == example = "histogram" => \A i \in 1..N : input[i] >= 0
AllScanned == returned /\ example \in Scans => final = 1..N

ScanInv == ScanTypeOK /\ NoNegatives /\ AllScanned /\ PartialSums /\ OutputsFinal /\ PacksPositives

\* The values of the type invariant are those over the whole vector.
LEMMA ValuesIs ==
  Values = Over(N)
BY DEF Values, Over

\* What the lemmas about the operations assume holds in every state.
LEMMA InputIs ==
  ASSUME ScanTypeOK, NoNegatives
  PROVE  Input
<1>1. input \in Seq(Ints) /\ Len(input) = N
  BY ScanAssumption DEF ScanTypeOK, Ints
<1>2. input \in [1..N -> Ints]
  BY <1>1
<1>3. example \in Scans \cup Reductions
  BY ScanAssumption DEF ScanTypeOK
<1> QED
  BY <1>2, <1>3 DEF Input, NoNegatives

\* The results depend on the example and on the vector, which do not change.
LEMMA SameResults ==
  ASSUME UNCHANGED <<example, input>>
  PROVE  /\ \A x, a, b : Scan(x, a, b)' = Scan(x, a, b)
         /\ \A a, b : Sequential(a, b)' = Sequential(a, b)
         /\ \A x, y : Agree(x, y)' <=> Agree(x, y)
         /\ Values' = Values
         /\ \A n : Positive(n)' = Positive(n)
<1>1. \A x, a, b : Scan(x, a, b)' = Scan(x, a, b)
  BY DEF Scan, Apply, DotProduct, FindMaximum
<1>2. Identity' = Identity
  BY DEF Identity
<1>3. \A a, b : Sequential(a, b)' = Sequential(a, b)
  BY <1>1, <1>2 DEF Sequential
<1>4. \A x, y : Agree(x, y)' <=> Agree(x, y)
  BY DEF Agree
<1>5. Values' = Values
  BY DEF Values
<1>6. \A n : Positive(n)' = Positive(n)
  BY DEF Positive
<1> QED
  BY <1>1, <1>3, <1>4, <1>5, <1>6

\* The invariant holds at the start: no body has accumulated anything.
LEMMA ScanInitInv ==
  ASSUME ScanInit
  PROVE  ScanInv
<1>1. N \in Nat \ {0} /\ 1 \in 1..N /\ 1 \in 1..(N + 1) /\ 0 \in Ints
  BY Sizes, IntBounds
<1>2. example \in Scans \cup Reductions
  BY ScanAssumption DEF ScanInit
<1>3. Input
  <2>1. input \in Seq(Ints) /\ Len(input) = N
    BY ScanAssumption DEF ScanInit, Ints
  <2>2. input \in [1..N -> Ints]
    BY <2>1
  <2> QED
    BY <1>2, <2>2 DEF ScanInit, Input
<1>4. Identity \in Values
  BY <1>1, <1>3, IdentityIn, OverGrows, ValuesIs
<1>5. ScanTypeOK
  <2>1. output \in [1..N -> Ints] /\ packed \in Seq(Ints)
    BY <1>1 DEF ScanInit
  <2>2. bodies \subseteq [from : 1..N, to : 1..(N + 1), sum : Values]
    BY <1>1, <1>4 DEF ScanInit
  <2>3. \A b \in bodies : b.from <= b.to
    BY DEF ScanInit
  <2> QED
    BY <1>4, <2>1, <2>2, <2>3 DEF ScanInit, ScanTypeOK
<1>6. PartialSums
  <2>1. Sequential(1, 1) = Identity
    BY ScanSteps DEF Sequential
  <2>2. Agree(Identity, Identity)
    BY <1>3, IdentityAgrees
  <2> QED
    BY <2>1, <2>2 DEF ScanInit, PartialSums
<1> QED
  BY <1>5, <1>6 DEF ScanInit, ScanInv, NoNegatives, AllScanned, OutputsFinal, PacksPositives

\* A body that goes on has the value of what it covers then.
LEMMA ExtendedIs ==
  ASSUME ScanInv, NEW b \in bodies, NEW to \in (b.to + 1)..(N + 1)
  PROVE  LET e == [b EXCEPT !.to = to, !.sum = Scan(b.sum, b.to, to)]
         IN  /\ e \in [from : 1..N, to : 1..(N + 1), sum : Values]
             /\ e.from <= e.to
             /\ Agree(e.sum, Sequential(e.from, e.to))
<1>0. Input
  BY InputIs DEF ScanInv
<1>1. /\ b \in [from : 1..N, to : 1..(N + 1), sum : Over(N)]
      /\ b.from <= b.to
      /\ Agree(b.sum, Sequential(b.from, b.to))
  BY ValuesIs DEF ScanInv, ScanTypeOK, PartialSums
<1>2. /\ b.from \in 1..(N + 1) /\ b.to \in 1..(N + 1) /\ to \in 1..(N + 1)
      /\ b.to <= to /\ b.from <= to /\ b.from \in 1..N
  BY <1>1, Sizes
<1>3. Scan(b.sum, b.to, to) \in Over(N) /\ Agree(Scan(b.sum, b.to, to), Sequential(b.from, to))
  BY <1>0, <1>1, <1>2, ScanCovers
<1> DEFINE v == Scan(b.sum, b.to, to)
           e == [b EXCEPT !.to = to, !.sum = v]
<1> HIDE DEF v
<1>4. v \in Over(N)
  BY <1>3 DEF v
<1>5. e.from = b.from /\ e.to = to /\ e.sum = v
  BY <1>1
<1>6. e \in [from : 1..N, to : 1..(N + 1), sum : Over(N)]
  BY <1>1, <1>2, <1>4
<1> HIDE DEF e
<1>7. /\ e \in [from : 1..N, to : 1..(N + 1), sum : Values]
      /\ e.from <= e.to
      /\ Agree(e.sum, Sequential(e.from, e.to))
  BY <1>2, <1>3, <1>5, <1>6, ValuesIs DEF v
<1> QED
  BY <1>7 DEF e, v

\* The same of a join of neighbours.
LEMMA JoinedIs ==
  ASSUME ScanInv, NEW a \in bodies, NEW b \in bodies, a.to = b.from
  PROVE  /\ Joined(a, b) \in [from : 1..N, to : 1..(N + 1), sum : Values]
         /\ Joined(a, b).from <= Joined(a, b).to
         /\ Agree(Joined(a, b).sum, Sequential(Joined(a, b).from, Joined(a, b).to))
<1>0. Input
  BY InputIs DEF ScanInv
<1>1. /\ a \in [from : 1..N, to : 1..(N + 1), sum : Over(N)]
      /\ b \in [from : 1..N, to : 1..(N + 1), sum : Over(N)]
      /\ a.from <= a.to /\ b.from <= b.to
      /\ Agree(a.sum, Sequential(a.from, a.to)) /\ Agree(b.sum, Sequential(b.from, b.to))
  BY ValuesIs DEF ScanInv, ScanTypeOK, PartialSums
<1>2. /\ a.from \in 1..(N + 1) /\ a.to \in 1..(N + 1) /\ b.to \in 1..(N + 1)
      /\ a.to <= b.to /\ a.from <= b.to /\ a.from \in 1..N
  BY <1>1, Sizes
<1>3. /\ Combine(a.sum, b.sum) \in Over(N)
      /\ Agree(Combine(a.sum, b.sum), Sequential(a.from, b.to))
  BY <1>0, <1>1, <1>2, JoinCovers
<1>4. /\ Joined(a, b) = [from |-> a.from, to |-> b.to, sum |-> Combine(a.sum, b.sum)]
      /\ Joined(a, b).from = a.from /\ Joined(a, b).to = b.to
      /\ Joined(a, b).sum = Combine(a.sum, b.sum)
  BY DEF Joined
<1> QED
  BY <1>2, <1>3, <1>4, ValuesIs

\* A step that only adds a body like these keeps the invariant.
LEMMA BodyAdded ==
  ASSUME ScanInv, UNCHANGED <<example, input, output, final, total, returned, packed>>,
         NEW e \in [from : 1..N, to : 1..(N + 1), sum : Values],
         e.from <= e.to, Agree(e.sum, Sequential(e.from, e.to)),
         bodies' \subseteq bodies \cup {e}
  PROVE  ScanInv'
<1>1. /\ \A a, b : Sequential(a, b)' = Sequential(a, b)
      /\ \A x, y : Agree(x, y)' <=> Agree(x, y)
      /\ Values' = Values
      /\ \A n : Positive(n)' = Positive(n)
  BY SameResults, Zenon
<1>2. ScanTypeOK'
  BY <1>1 DEF ScanInv, ScanTypeOK
<1>3. PartialSums'
  <2>1. ASSUME NEW b \in bodies'
        PROVE  Agree(b.sum, Sequential(b.from, b.to))
    BY <2>1 DEF ScanInv, PartialSums
  <2>2. returned => Agree(total, Sequential(1, N + 1))
    BY DEF ScanInv, PartialSums
  <2>3. /\ \A b \in bodies' : Agree(b.sum, Sequential(b.from, b.to)')
        /\ returned' => Agree(total', Sequential(1, N + 1)')
    BY <1>1, <2>1, <2>2
  <2> QED
    BY <2>3 DEF PartialSums, Agree
<1>4. OutputsFinal'
  BY <1>1 DEF ScanInv, OutputsFinal
<1>5. PacksPositives'
  BY <1>1 DEF ScanInv, PacksPositives
<1> QED
  BY <1>2, <1>3, <1>4, <1>5 DEF ScanInv, NoNegatives, AllScanned

\* The final scan writes the values of everything up to each element.
LEMMA FinalScanStep ==
  ASSUME ScanInv, ~returned, NEW b \in bodies, NEW to \in (b.to + 1)..(N + 1), FinalScan(b, to)
  PROVE  ScanInv'
<1> DEFINE e == [b EXCEPT !.to = to, !.sum = Scan(b.sum, b.to, to)]
<1>0. Input
  BY InputIs DEF ScanInv
<1>1. /\ example \in Scans /\ b.from = 1
      /\ (b.to..(to - 1)) \cap final = {}
      /\ output' = [i \in 1..N |->
                      IF b.to <= i /\ i < to THEN Scan(b.sum, b.to, i + 1) ELSE output[i]]
      /\ final' = final \cup (b.to..(to - 1))
      /\ bodies' = (bodies \ {b}) \cup {e}
      /\ UNCHANGED <<example, input, total, returned, packed>>
  BY DEF FinalScan, Extended
<1>2. /\ \A x, y : Sequential(x, y)' = Sequential(x, y)
      /\ \A x, y : Agree(x, y)' <=> Agree(x, y)
      /\ Values' = Values
      /\ \A n : Positive(n)' = Positive(n)
  BY <1>1, SameResults, Zenon
<1>3. /\ e \in [from : 1..N, to : 1..(N + 1), sum : Values]
      /\ e.from <= e.to
      /\ Agree(e.sum, Sequential(e.from, e.to))
  BY ExtendedIs
<1>4. /\ b \in [from : 1..N, to : 1..(N + 1), sum : Over(N)]
      /\ b.from <= b.to
      /\ Agree(b.sum, Sequential(b.from, b.to))
  BY ValuesIs DEF ScanInv, ScanTypeOK, PartialSums
<1> HIDE DEF e
<1>5. N \in Nat /\ b.to \in 1..(N + 1) /\ to \in 1..(N + 1)
  BY <1>4, Sizes
<1>6. Over(N) = Ints /\ \A x, y : Agree(x, y) <=> x = y
  BY <1>0, <1>1 DEF Scans, Over, Agree
<1>7. ASSUME NEW i \in b.to..(to - 1)
      PROVE  /\ i \in 1..N /\ i \notin final
             /\ output'[i] = Sequential(1, i + 1)
             /\ output'[i] \in Ints
  <2>1. i \in 1..N /\ i + 1 \in 1..(N + 1) /\ b.to <= i + 1 /\ b.to <= i /\ i < to
    BY <1>5
  <2>2. 1 \in 1..(N + 1) /\ 1 <= b.to
    BY <1>5
  <2>3. /\ Scan(b.sum, b.to, i + 1) \in Over(N)
        /\ Agree(Scan(b.sum, b.to, i + 1), Sequential(1, i + 1))
    BY <1>0, <1>1, <1>4, <1>5, <2>1, <2>2, ScanCovers
  <2>4. output'[i] = Scan(b.sum, b.to, i + 1)
    BY <1>1, <2>1
  <2> QED
    BY <1>1, <1>6, <2>1, <2>3, <2>4
<1>8. \A i \in (1..N) \ (b.to..(to - 1)) : output'[i] = output[i]
  BY <1>1, <1>5
<1>9. ScanTypeOK'
  <2>1. final' \subseteq 1..N
    BY <1>1, <1>7 DEF ScanInv, ScanTypeOK
  <2>2. \A i \in 1..N : output'[i] \in Ints
    BY <1>7, <1>8 DEF ScanInv, ScanTypeOK
  <2>3. output' \in [1..N -> Ints]
    BY <1>1, <2>2
  <2>4. /\ bodies' \subseteq [from : 1..N, to : 1..(N + 1), sum : Values]
        /\ \A c \in bodies' : c.from <= c.to
    BY <1>1, <1>3 DEF ScanInv, ScanTypeOK
  <2> QED
    BY <1>1, <1>2, <2>1, <2>3, <2>4 DEF ScanInv, ScanTypeOK
<1>10. PartialSums'
  <2>1. ASSUME NEW c \in bodies'
        PROVE  Agree(c.sum, Sequential(c.from, c.to))
    BY <1>1, <1>3, <2>1 DEF ScanInv, PartialSums
  <2>2. \A c \in bodies' : Agree(c.sum, Sequential(c.from, c.to)')
    BY <1>2, <2>1
  <2> QED
    BY <1>1, <2>2 DEF PartialSums, Agree
<1>11. OutputsFinal'
  <2>1. ASSUME NEW i \in final' PROVE output'[i] = Sequential(1, i + 1)
    <3>1. CASE i \in b.to..(to - 1)
      BY <1>7, <3>1
    <3>2. CASE i \notin b.to..(to - 1)
      <4>1. i \in final /\ i \in 1..N
        BY <1>1, <2>1, <3>2 DEF ScanInv, ScanTypeOK
      <4> QED
        BY <1>8, <3>2, <4>1 DEF ScanInv, OutputsFinal
    <3> QED
      BY <3>1, <3>2
  <2> QED
    BY <1>2, <2>1 DEF OutputsFinal
<1>12. PacksPositives'
  BY <1>1, <1>2 DEF ScanInv, PacksPositives
<1> QED
  BY <1>1, <1>9, <1>10, <1>11, <1>12 DEF ScanInv, NoNegatives, AllScanned

\* The caller is given the value of the last body.
LEMMA ReturnStep ==
  ASSUME ScanInv, Return
  PROVE  ScanInv'
<1>1. /\ ~returned /\ (example \in Scans => final = 1..N)
      /\ returned' = TRUE
      /\ UNCHANGED <<example, input, output, bodies, final, packed>>
  BY DEF Return
<1>2. PICK b \in bodies : b.from = 1 /\ b.to = N + 1 /\ total' = b.sum
  BY DEF Return
<1>3. /\ \A x, y : Sequential(x, y)' = Sequential(x, y)
      /\ \A x, y : Agree(x, y)' <=> Agree(x, y)
      /\ Values' = Values
      /\ \A n : Positive(n)' = Positive(n)
  BY <1>1, SameResults, Zenon
<1>4. b.sum \in Values /\ Agree(b.sum, Sequential(b.from, b.to))
  BY DEF ScanInv, ScanTypeOK, PartialSums
<1>5. ScanTypeOK'
  BY <1>1, <1>2, <1>3, <1>4 DEF ScanInv, ScanTypeOK
<1>6. PartialSums'
  <2>1. Agree(total', Sequential(1, N + 1)')
    BY <1>2, <1>3, <1>4
  <2>2. \A c \in bodies' : Agree(c.sum, Sequential(c.from, c.to)')
    BY <1>1, <1>3 DEF ScanInv, PartialSums
  <2> QED
    BY <1>1, <2>1, <2>2 DEF PartialSums, Agree
<1>7. OutputsFinal'
  BY <1>1, <1>3 DEF ScanInv, OutputsFinal
<1>8. PacksPositives'
  BY <1>1, <1>3 DEF ScanInv, PacksPositives
<1> QED
  BY <1>1, <1>5, <1>6, <1>7, <1>8 DEF ScanInv, NoNegatives, AllScanned

\* Each positive element is the only one with its place, so it is found there.
LEMMA PackStep ==
  ASSUME ScanInv, Pack
  PROVE  ScanInv'
<1> DEFINE At(k) == {i \in 1..N : input[i] > 0 /\ output[i] = k}
<1>0. Input
  BY InputIs DEF ScanInv
<1>1. /\ returned /\ example = "count"
      /\ packed' = [k \in 1..output[N] |-> IF At(k) = {} THEN 0 ELSE input[Max(At(k))]]
      /\ UNCHANGED <<example, input, output, bodies, final, total, returned>>
  BY DEF Pack
<1>2. /\ \A x, y : Sequential(x, y)' = Sequential(x, y)
      /\ \A x, y : Agree(x, y)' <=> Agree(x, y)
      /\ Values' = Values
      /\ \A n : Positive(n)' = Positive(n)
  BY <1>1, SameResults, Zenon
<1>3. N \in 1..N /\ N \in Nat
  BY Sizes
<1>4. ASSUME NEW i \in 1..N
      PROVE  output[i] = Cardinality(Positive(i)) /\ output[i] \in Nat
  <2>1. i \in final
    BY <1>1 DEF ScanInv, AllScanned, Scans
  <2>2. output[i] = Sequential(1, i + 1)
    BY <2>1 DEF ScanInv, OutputsFinal
  <2>3. Sequential(1, i + 1) = Cardinality(Positive(i))
    BY <1>0, <1>1, <1>3, CountIs
  <2> QED
    BY <1>3, <2>2, <2>3, PositiveFinite
<1>5. packed' \in Seq(Ints) /\ Len(packed') = Cardinality(Positive(N))
  <2>1. output[N] = Cardinality(Positive(N)) /\ output[N] \in Nat
    BY <1>3, <1>4
  <2>2. ASSUME NEW k PROVE (IF At(k) = {} THEN 0 ELSE input[Max(At(k))]) \in Ints
    <3>1. CASE At(k) = {}
      BY <3>1, IntBounds
    <3>2. CASE At(k) # {}
      <4>1. Max(At(k)) \in At(k)
        BY <1>3, <3>2, MaxIn
      <4> QED
        BY <1>0, <3>2, <4>1 DEF Input
    <3> QED
      BY <3>1, <3>2
  <2>3. packed' \in [1..output[N] -> Ints]
    BY <1>1, <2>2
  <2> QED
    BY <2>1, <2>3
<1>6. ASSUME NEW i \in Positive(N)
      PROVE  packed'[Cardinality(Positive(i))] = input[i]
  <2> DEFINE k == Cardinality(Positive(i))
  <2>1. i \in 1..N /\ input[i] > 0 /\ i \in Positive(i) /\ i \in Nat /\ i <= N
    BY <1>3 DEF Positive
  <2>2. k \in Nat /\ output[i] = k
    BY <1>4, <2>1
  <2>3. \A j \in 1..N : j \in At(k) => ~ (j < i) /\ ~ (i < j)
    <3> SUFFICES ASSUME NEW j \in 1..N, j \in At(k) PROVE ~ (j < i) /\ ~ (i < j)
      OBVIOUS
    <3>1. /\ j \in Nat /\ j \in Positive(j)
          /\ Cardinality(Positive(j)) = k
      BY <1>4 DEF Positive
    <3>2. j < i => Cardinality(Positive(j)) < Cardinality(Positive(i))
      BY <2>1, <3>1, PlacesGrow
    <3>3. i < j => Cardinality(Positive(i)) < Cardinality(Positive(j))
      BY <2>1, <3>1, PlacesGrow
    <3> QED
      BY <2>2, <3>1, <3>2, <3>3
  <2>4. At(k) = {i}
    BY <2>1, <2>2, <2>3
  <2>5. Max({i}) = i
    BY <1>3, <2>1, MaxIn
  <2>6. k \in 1..output[N]
    <3>1. k <= Cardinality(Positive(N))
      <4>1. IsFiniteSet(Positive(N)) /\ Positive(i) \in SUBSET Positive(N)
        BY <1>3, <2>1, PositiveFinite DEF Positive
      <4> QED
        BY <4>1, FS_Subset
    <3>2. k # 0
      BY <2>1, PositiveFinite, FS_EmptySet
    <3>3. output[N] = Cardinality(Positive(N)) /\ output[N] \in Nat
      BY <1>3, <1>4
    <3> QED
      BY <2>2, <3>1, <3>2, <3>3
  <2> HIDE DEF k, At
  <2>7. packed'[k] = input[Max(At(k))]
    BY <1>1, <2>4, <2>6
  <2> QED
    BY <2>4, <2>5, <2>7 DEF k
<1> HIDE DEF At
<1>7. ScanTypeOK'
  BY <1>1, <1>2, <1>5 DEF ScanInv, ScanTypeOK
<1>8. PartialSums'
  <2>1. \A c \in bodies' : Agree(c.sum, Sequential(c.from, c.to)')
    BY <1>1, <1>2 DEF ScanInv, PartialSums
  <2>2. returned' => Agree(total', Sequential(1, N + 1)')
    BY <1>1, <1>2 DEF ScanInv, PartialSums
  <2> QED
    BY <1>1, <2>1, <2>2 DEF PartialSums, Agree
<1>9. OutputsFinal'
  BY <1>1, <1>2 DEF ScanInv, OutputsFinal
<1>10. PacksPositives'
  BY <1>2, <1>5, <1>6, <1>1 DEF PacksPositives
<1> QED
  BY <1>1, <1>7, <1>8, <1>9, <1>10 DEF ScanInv, NoNegatives, AllScanned

\* The invariant is inductive.
LEMMA ScanNextInv ==
  ASSUME ScanInv, [ScanNext]_scanVars
  PROVE  ScanInv'
<1>0. Input
  BY InputIs DEF ScanInv
<1>1. ASSUME NEW b \in bodies, NEW start \in 2..N, SplitBody(b, start)
      PROVE  ScanInv'
  <2> DEFINE e == [from |-> start, to |-> start, sum |-> Identity]
  <2>1. start \in 1..N /\ start \in 1..(N + 1) /\ start \in Nat /\ start <= start /\ 0 <= N
    BY Sizes
  <2>2. Identity \in Values
    BY <1>0, <2>1, IdentityIn, OverGrows, ValuesIs, Sizes
  <2>3. Sequential(start, start) = Identity /\ Agree(Identity, Identity)
    BY <1>0, <2>1, ScanSteps, IdentityAgrees DEF Sequential
  <2>4. /\ e \in [from : 1..N, to : 1..(N + 1), sum : Values]
        /\ e.from = start /\ e.to = start /\ e.sum = Identity
    BY <2>1, <2>2
  <2>5. /\ bodies' = bodies \cup {e}
        /\ UNCHANGED <<example, input, output, final, total, returned, packed>>
    BY <1>1 DEF SplitBody
  <2> HIDE DEF e
  <2> QED
    BY <2>1, <2>3, <2>4, <2>5, BodyAdded
<1>2. ASSUME NEW b \in bodies, NEW to \in (b.to + 1)..(N + 1),
             PreScan(b, to) \/ Accumulate(b, to)
      PROVE  ScanInv'
  <2> DEFINE e == [b EXCEPT !.to = to, !.sum = Scan(b.sum, b.to, to)]
  <2>1. /\ bodies' = (bodies \ {b}) \cup {e}
        /\ UNCHANGED <<example, input, output, final, total, returned, packed>>
    BY <1>2 DEF PreScan, Accumulate, Extended
  <2>2. /\ e \in [from : 1..N, to : 1..(N + 1), sum : Values]
        /\ e.from <= e.to
        /\ Agree(e.sum, Sequential(e.from, e.to))
    BY ExtendedIs
  <2> HIDE DEF e
  <2>3. bodies' \subseteq bodies \cup {e}
    BY <2>1
  <2> QED
    BY <2>1, <2>2, <2>3, BodyAdded
<1>3. ASSUME NEW a \in bodies, NEW b \in bodies, ReverseJoin(a, b) \/ Join(a, b)
      PROVE  ScanInv'
  <2>1. /\ a.to = b.from
        /\ bodies' \subseteq bodies \cup {Joined(a, b)}
        /\ UNCHANGED <<example, input, output, final, total, returned, packed>>
    BY <1>3 DEF ReverseJoin, Join
  <2>2. /\ Joined(a, b) \in [from : 1..N, to : 1..(N + 1), sum : Values]
        /\ Joined(a, b).from <= Joined(a, b).to
        /\ Agree(Joined(a, b).sum, Sequential(Joined(a, b).from, Joined(a, b).to))
    BY <2>1, JoinedIs
  <2> QED
    BY <2>1, <2>2, BodyAdded
<1>4. CASE UNCHANGED scanVars
  <2>1. /\ \A x, y : Sequential(x, y)' = Sequential(x, y)
        /\ \A x, y : Agree(x, y)' <=> Agree(x, y)
        /\ Values' = Values
        /\ \A n : Positive(n)' = Positive(n)
    BY <1>4, SameResults, Zenon DEF scanVars
  <2>2. ScanTypeOK' /\ OutputsFinal' /\ PacksPositives' /\ NoNegatives' /\ AllScanned'
    BY <1>4, <2>1 DEF scanVars, ScanInv, ScanTypeOK, OutputsFinal, PacksPositives,
                      NoNegatives, AllScanned
  <2>3. PartialSums'
    <3>1. \A c \in bodies' : Agree(c.sum, Sequential(c.from, c.to)')
      BY <1>4, <2>1 DEF scanVars, ScanInv, PartialSums
    <3>2. returned' => Agree(total', Sequential(1, N + 1)')
      BY <1>4, <2>1 DEF scanVars, ScanInv, PartialSums
    <3> QED
      BY <1>4, <3>1, <3>2 DEF scanVars, PartialSums, Agree
  <2> QED
    BY <2>2, <2>3 DEF ScanInv
<1> QED
  BY <1>1, <1>2, <1>3, <1>4, FinalScanStep, ReturnStep, PackStep DEF ScanNext, ScanFinished

\* What is accumulated, written and packed are ints, and the ranges of the bodies
\* lie within the vector.
THEOREM ScanTypeCorrect == ScanSpec => []ScanTypeOK
<1>1. ScanInv => ScanTypeOK
  BY DEF ScanInv
<1> QED
  BY <1>1, ScanInitInv, ScanNextInv, PTL DEF ScanSpec

\* Whatever ranges the scheduler accumulates, splits off and joins, every body has
\* the value the sequential loop has over its elements, and so has the caller's.
THEOREM SumsRight == ScanSpec => []PartialSums
<1>1. ScanInv => PartialSums
  BY DEF ScanInv
<1> QED
  BY <1>1, ScanInitInv, ScanNextInv, PTL DEF ScanSpec

\* Every output a final scan has written is that of the sequential scan.
THEOREM ScansRight == ScanSpec => []OutputsFinal
<1>1. ScanInv => OutputsFinal
  BY DEF ScanInv
<1> QED
  BY <1>1, ScanInitInv, ScanNextInv, PTL DEF ScanSpec

\* Example 4 packs the positive elements in order and without gaps.
THEOREM PackedRight == ScanSpec => []PacksPositives
<1>1. ScanInv => PacksPositives
  BY DEF ScanInv
<1> QED
  BY <1>1, ScanInitInv, ScanNextInv, PTL DEF ScanSpec
=============================================================================
