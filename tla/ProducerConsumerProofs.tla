----------------------- MODULE ProducerConsumerProofs -----------------------
(***************************************************************************)
(* Proofs about ProducerConsumer, for any number of producers, items and   *)
(* consumers: no item is lost or taken twice, no consumer stops while an   *)
(* item is still to come, and the program implements Delivery.             *)
(***************************************************************************)
EXTENDS ProducerConsumer, FiniteSetTheorems, SequenceTheorems, TLAPS

\* What main has joined has pushed everything.
JoinedFinished == \A p \in Producers : p <= joined => produced[p] = NumItems

\* A scan has passed only producers that main has joined.
ScannedJoined == \A c \in Consumers : pc[c] = "scan" => scan[c] - 1 <= joined

\* Every item pushed is either still queued, once, or with one consumer, once.
OneHolder ==
  /\ Made = Queued \cup Delivered
  /\ Queued \cap Delivered = {}
  /\ IsInjective(queue)
  /\ \A c, d \in Consumers : c # d => Taken(c) \cap Taken(d) = {}
  /\ \A c \in Consumers : IsInjective(taken[c])

\* A consumer counts the items it takes; the total is that of the consumers
\* that have added their counts.
Counted == UNION {Taken(c) : c \in {d \in Consumers : pc[d] = "done"}}
CountsRight == /\ \A c \in Consumers : local[c] = Len(taken[c])
               /\ consumed = Cardinality(Counted)

\* Main reports when nobody is left in the loop.
ReportedDone == reported => joined = NumProducers /\ \A c \in Consumers : pc[c] = "done"

IInv == /\ TypeOK
        /\ OneHolder
        /\ CountsRight
        /\ JoinedFinished
        /\ ScannedJoined
        /\ StopsWhenDrained
        /\ ReportedDone
-----------------------------------------------------------------------------
(* The queue as a sequence. *)

\* push adds one item behind the others.
LEMMA AppendOne ==
  ASSUME NEW S, NEW q \in Seq(S), NEW x \in S
  PROVE  /\ Append(q, x) \in Seq(S)
         /\ ToSet(Append(q, x)) = ToSet(q) \cup {x}
         /\ IsInjective(q) /\ x \notin ToSet(q) => IsInjective(Append(q, x))
<1> DEFINE r == Append(q, x)
<1>1. /\ r \in Seq(S)
      /\ Len(q) \in Nat
      /\ Len(r) = Len(q) + 1
      /\ r[Len(q) + 1] = x
      /\ \A i \in 1..Len(q) : r[i] = q[i]
      /\ DOMAIN r = 1..Len(r) /\ DOMAIN q = 1..Len(q)
  OBVIOUS
<1> HIDE DEF r
<1>2. 1..Len(r) = 1..Len(q) \cup {Len(q) + 1}
  BY <1>1
<1>3. ToSet(r) = ToSet(q) \cup {x}
  BY <1>1 DEF ToSet
<1>4. IsInjective(q) /\ x \notin ToSet(q) => IsInjective(r)
  BY <1>1 DEF ToSet, IsInjective
<1> QED
  BY <1>3, <1>4 DEF r

\* try_pop takes the first item, and only that one.
LEMMA TailRest ==
  ASSUME NEW S, NEW q \in Seq(S), q # <<>>
  PROVE  /\ Head(q) \in S
         /\ Tail(q) \in Seq(S)
         /\ Head(q) \in ToSet(q)
         /\ IsInjective(q) => ToSet(Tail(q)) = ToSet(q) \ {Head(q)}
         /\ IsInjective(q) => IsInjective(Tail(q))
<1> DEFINE r == Tail(q)
<1>1. /\ Head(q) \in S
      /\ Head(q) = q[1]
      /\ r \in Seq(S)
      /\ Len(q) \in Nat \ {0}
      /\ Len(r) = Len(q) - 1
      /\ \A i \in 1..Len(r) : r[i] = q[i + 1]
      /\ DOMAIN r = 1..Len(r) /\ DOMAIN q = 1..Len(q)
  BY HeadTailProperties, EmptySeq
<1> HIDE DEF r
<1>2. /\ 1 \in 1..Len(q)
      /\ \A i \in 1..Len(r) : i + 1 \in 1..Len(q) /\ i + 1 # 1
      /\ \A i \in 1..Len(q) : i = 1 \/ (i - 1 \in 1..Len(r) /\ q[i] = r[i - 1])
  BY <1>1
<1>3. ASSUME IsInjective(q) PROVE ToSet(r) = ToSet(q) \ {Head(q)}
  <2>1. ASSUME NEW i \in 1..Len(r) PROVE r[i] \in ToSet(q) /\ r[i] # Head(q)
    BY <1>1, <1>3 DEF ToSet, IsInjective
  <2>2. ASSUME NEW i \in 1..Len(q), q[i] # Head(q) PROVE q[i] \in ToSet(r)
    BY <1>2, <2>2 DEF ToSet
  <2> QED
    BY <2>1, <2>2 DEF ToSet
<1>4. ASSUME IsInjective(q) PROVE IsInjective(r)
  BY <1>1, <1>2, <1>4 DEF IsInjective
<1>5. Head(q) \in ToSet(q)
  BY DEF ToSet
<1> QED
  BY <1>3, <1>4, <1>5 DEF r
\* What a consumer has taken, each item once, is as much as it has counted.
LEMMA TakenOnce ==
  ASSUME NEW S, NEW q \in Seq(S), IsInjective(q)
  PROVE  IsFiniteSet(ToSet(q)) /\ Cardinality(ToSet(q)) = Len(q)
<1>1. Len(q) \in Nat /\ DOMAIN q = 1..Len(q) /\ q = [i \in 1..Len(q) |-> q[i]]
  OBVIOUS
<1>2. ToSet(q) = {q[i] : i \in 1..Len(q)}
  BY <1>1 DEF ToSet
<1>3. q \in Surjection(1..Len(q), ToSet(q)) /\ q \in Injection(1..Len(q), ToSet(q))
  BY <1>1, <1>2 DEF Surjection, Injection
<1>4. IsFiniteSet(1..Len(q)) /\ Cardinality(1..Len(q)) = Len(q)
  <2>1. 1 \in Int /\ Len(q) \in Int /\ (IF 1 > Len(q) THEN 0 ELSE Len(q) - 1 + 1) = Len(q)
    BY <1>1
  <2> QED
    BY <2>1, FS_Interval
<1> QED
  BY <1>3, <1>4, FS_Surjection
-----------------------------------------------------------------------------
(* The inductive invariant. *)

\* The invariant holds at the start.
LEMMA InitIInv == Init => IInv
<1> SUFFICES ASSUME Init PROVE IInv
  OBVIOUS
<1>1. Made = {} /\ Delivered = {} /\ \A c \in Consumers : Taken(c) = {}
  BY DEF Init, Made, Delivered, Taken, ToSet, Items
<1>2. queue = <<>> /\ queue \in Seq(Items) /\ DOMAIN queue = {}
  BY DEF Init
<1>3. Queued = {} /\ IsInjective(queue)
  BY <1>2 DEF Queued, ToSet, IsInjective
<1>4. TypeOK
  <2>1. 0 \in 0..NumItems /\ 0 \in 0..NumProducers /\ 1 \in 1..(NumProducers + 1)
    BY CountAssumption
  <2> QED
    BY <1>2, <2>1 DEF Init, TypeOK
<1>5. OneHolder
  BY <1>1, <1>3, <1>2 DEF Init, OneHolder, IsInjective
<1>6. CountsRight
  <2>1. Counted = {} /\ Len(<<>>) = 0
    BY <1>1 DEF Counted
  <2> QED
    BY <2>1, FS_EmptySet DEF Init, CountsRight
<1> QED
  BY <1>4, <1>5, <1>6, CountAssumption
     DEF Init, IInv, JoinedFinished, ScannedJoined, StopsWhenDrained, ReportedDone, Producers

\* A push makes one item, and delivers none.
LEMMA PushMakes ==
  ASSUME TypeOK, NEW p \in Producers, Push(p)
  PROVE  /\ <<p, produced[p] + 1>> \in Items
         /\ <<p, produced[p] + 1>> \notin Made
         /\ Made' = Made \cup {<<p, produced[p] + 1>>}
         /\ Delivered' = Delivered
BY CountAssumption DEF TypeOK, Items, Made, Delivered, Taken, Push, consumerVars

\* A pop delivers one item to one consumer, and makes none.
LEMMA PopDelivers ==
  ASSUME TypeOK, NEW c \in Consumers, PopItem(c)
  PROVE  /\ Made' = Made
         /\ taken'[c] = Append(taken[c], Head(queue))
         /\ taken'[c] \in Seq(Items)
         /\ Taken(c)' = Taken(c) \cup {Head(queue)}
         /\ IsInjective(taken[c]) /\ Head(queue) \notin Taken(c) => IsInjective(taken'[c])
         /\ \A d \in Consumers \ {c} : taken'[d] = taken[d] /\ Taken(d)' = Taken(d)
         /\ Delivered' = Delivered \cup {Head(queue)}
<1>1. /\ Head(queue) \in Items
      /\ taken[c] \in Seq(Items)
      /\ taken' = [taken EXCEPT ![c] = Append(@, Head(queue))]
  BY TailRest DEF TypeOK, PopItem
<1>2. /\ taken'[c] = Append(taken[c], Head(queue))
      /\ \A d \in Consumers \ {c} : taken'[d] = taken[d]
  BY <1>1 DEF TypeOK
<1>3. /\ taken'[c] \in Seq(Items)
      /\ Taken(c)' = Taken(c) \cup {Head(queue)}
      /\ IsInjective(taken[c]) /\ Head(queue) \notin Taken(c) => IsInjective(taken'[c])
  BY <1>1, <1>2, AppendOne DEF Taken
<1>4. \A d \in Consumers \ {c} : Taken(d)' = Taken(d)
  BY <1>2 DEF Taken
<1>5. Delivered' = Delivered \cup {Head(queue)}
  BY <1>3, <1>4 DEF Delivered
<1>6. Made' = Made
  BY DEF Made, PopItem
<1> QED
  BY <1>2, <1>3, <1>4, <1>5, <1>6

\* What a step that leaves the queue, the items and the counts alone leaves true.
LEMMA Undisturbed ==
  ASSUME IInv, UNCHANGED <<queue, produced, taken, local, consumed>>,
         \A c \in Consumers : pc'[c] = "done" <=> pc[c] = "done"
  PROVE  /\ Made' = Made /\ Queued' = Queued /\ Delivered' = Delivered
         /\ OneHolder'
         /\ CountsRight'
<1>1. \A c \in Consumers : Taken(c)' = Taken(c)
  BY DEF Taken
<1>2. Made' = Made /\ Queued' = Queued /\ Delivered' = Delivered
  BY <1>1 DEF Made, Queued, Delivered
<1>3. Counted' = Counted
  BY <1>1 DEF Counted
<1> QED
  BY <1>1, <1>2, <1>3 DEF IInv, OneHolder, CountsRight

\* A producer pushes its next item.
LEMMA PushInv ==
  ASSUME IInv, NEW p \in Producers, Push(p)
  PROVE  IInv'
<1>1. /\ <<p, produced[p] + 1>> \in Items
      /\ <<p, produced[p] + 1>> \notin Made
      /\ Made' = Made \cup {<<p, produced[p] + 1>>}
      /\ Delivered' = Delivered
  BY PushMakes DEF IInv
<1>2. /\ queue' \in Seq(Items)
      /\ Queued' = Queued \cup {<<p, produced[p] + 1>>}
      /\ IsInjective(queue')
  BY <1>1, AppendOne DEF IInv, TypeOK, OneHolder, Queued, Push
<1>3. TypeOK'
  BY <1>2, CountAssumption DEF IInv, TypeOK, Push, consumerVars
<1>4. OneHolder'
  BY <1>1, <1>2 DEF IInv, OneHolder, Taken, Push, consumerVars
<1>5. JoinedFinished'
  BY CountAssumption DEF IInv, JoinedFinished, Push
<1>6. ScannedJoined'
  BY DEF IInv, ScannedJoined, Push, consumerVars
<1>7. StopsWhenDrained'
  BY <1>1 DEF IInv, StopsWhenDrained, Push, consumerVars
<1>8. ReportedDone'
  BY DEF IInv, ReportedDone, Push, consumerVars
<1>9. CountsRight'
  BY DEF IInv, CountsRight, Counted, Taken, Push, consumerVars
<1> QED
  BY <1>3, <1>4, <1>5, <1>6, <1>7, <1>8, <1>9 DEF IInv

\* Main joins a producer, which has pushed everything.
LEMMA JoinInv ==
  ASSUME IInv, JoinProducer
  PROVE  IInv'
<1>1. /\ Made' = Made /\ Queued' = Queued /\ Delivered' = Delivered
      /\ OneHolder' /\ CountsRight'
  BY Undisturbed DEF IInv, TypeOK, Goto, consumerVars, JoinProducer
<1>2. TypeOK'
  BY CountAssumption DEF IInv, TypeOK, JoinProducer, consumerVars, JoinProducer
<1>3. JoinedFinished'
  BY DEF IInv, TypeOK, OneHolder, JoinedFinished, Producers, JoinProducer, JoinProducer
<1>4. ScannedJoined'
  BY DEF IInv, TypeOK, OneHolder, ScannedJoined, JoinProducer, consumerVars,
         JoinProducer
<1>5. StopsWhenDrained'
  BY <1>1 DEF IInv, StopsWhenDrained, JoinProducer, consumerVars, JoinProducer
<1>6. ReportedDone'
  BY CountAssumption DEF IInv, ReportedDone, JoinProducer, JoinProducer
<1> QED
  BY <1>1, <1>2, <1>3, <1>4, <1>5, <1>6 DEF IInv

\* Main reports, all consumers having stopped.
LEMMA ReportInv ==
  ASSUME IInv, Report
  PROVE  IInv'
<1>1. /\ Made' = Made /\ Queued' = Queued /\ Delivered' = Delivered
      /\ OneHolder' /\ CountsRight'
  BY Undisturbed DEF IInv, TypeOK, Goto, consumerVars, Report
<1>2. TypeOK'
  BY DEF IInv, TypeOK, consumerVars, Report
<1>3. JoinedFinished'
  BY DEF IInv, JoinedFinished, Report
<1>4. ScannedJoined'
  BY DEF ScannedJoined, consumerVars, Report
<1>5. StopsWhenDrained'
  BY <1>1 DEF IInv, StopsWhenDrained, Report
<1>6. ReportedDone'
  BY DEF ReportedDone, consumerVars, Report
<1> QED
  BY <1>1, <1>2, <1>3, <1>4, <1>5, <1>6 DEF IInv

\* An item goes from the queue to a consumer.
LEMMA PopItemInv ==
  ASSUME IInv, NEW c \in Consumers, PopItem(c)
  PROVE  IInv'
<1>1. /\ Head(queue) \in Items
      /\ queue' \in Seq(Items)
      /\ Head(queue) \in Queued
      /\ Queued' = Queued \ {Head(queue)}
      /\ IsInjective(queue')
  BY TailRest DEF IInv, TypeOK, OneHolder, Queued, PopItem
<1>2. /\ Made' = Made
      /\ taken'[c] = Append(taken[c], Head(queue))
      /\ taken'[c] \in Seq(Items)
      /\ Taken(c)' = Taken(c) \cup {Head(queue)}
      /\ IsInjective(taken[c]) /\ Head(queue) \notin Taken(c) => IsInjective(taken'[c])
      /\ \A d \in Consumers \ {c} : taken'[d] = taken[d] /\ Taken(d)' = Taken(d)
      /\ Delivered' = Delivered \cup {Head(queue)}
  BY PopDelivers DEF IInv
<1>3. TypeOK'
  <2>1. taken' \in [Consumers -> Seq(Items)]
    BY <1>2 DEF IInv, TypeOK, PopItem
  <2> QED
    BY <1>1, <2>1 DEF IInv, TypeOK, Goto, PopItem
<1>4. OneHolder'
  <2>1. Head(queue) \notin Delivered
    BY <1>1 DEF IInv, OneHolder
  <2>2. \A d \in Consumers : Head(queue) \notin Taken(d)
    BY <2>1 DEF Delivered
  <2>3. \A d, e \in Consumers : d # e => Taken(d)' \cap Taken(e)' = {}
    BY <1>2, <2>2 DEF IInv, OneHolder
  <2>4. \A d \in Consumers : IsInjective(taken'[d])
    BY <1>2, <2>2 DEF IInv, OneHolder
  <2> QED
    BY <1>1, <1>2, <2>3, <2>4 DEF IInv, OneHolder
<1>5. CountsRight'
  <2>1. Counted' = Counted
    BY <1>2 DEF IInv, TypeOK, Counted, Goto, PopItem
  <2>2. \A d \in Consumers : local'[d] = Len(taken'[d])
    <3>1. Len(taken'[c]) = Len(taken[c]) + 1
      BY <1>1, <1>2 DEF IInv, TypeOK
    <3> QED
      BY <1>2, <3>1 DEF IInv, TypeOK, CountsRight, PopItem
  <2> QED
    BY <2>1, <2>2 DEF IInv, CountsRight, PopItem
<1>6. JoinedFinished'
  BY DEF IInv, JoinedFinished, PopItem
<1>7. ScannedJoined'
  BY DEF IInv, ScannedJoined, Goto, PopItem
<1>8. StopsWhenDrained'
  BY <1>1, <1>2 DEF IInv, StopsWhenDrained, Goto, PopItem
<1>9. ReportedDone'
  BY DEF IInv, ReportedDone, Goto, PopItem
<1> QED
  BY <1>3, <1>4, <1>5, <1>6, <1>7, <1>8, <1>9 DEF IInv

\* A consumer finds the queue empty and starts its scan.
LEMMA PopNothingInv ==
  ASSUME IInv, NEW c \in Consumers, PopNothing(c)
  PROVE  IInv'
<1>1. /\ Made' = Made /\ Queued' = Queued /\ Delivered' = Delivered
      /\ OneHolder' /\ CountsRight'
  BY Undisturbed DEF IInv, TypeOK, Goto, consumerVars, PopNothing
<1>2. TypeOK'
  BY CountAssumption DEF IInv, TypeOK, Goto, PopNothing
<1>3. JoinedFinished'
  BY DEF IInv, JoinedFinished, PopNothing
<1>4. ScannedJoined'
  BY DEF IInv, TypeOK, ScannedJoined, Goto, PopNothing
<1>5. StopsWhenDrained'
  BY <1>1 DEF IInv, StopsWhenDrained, Goto, PopNothing
<1>6. ReportedDone'
  BY DEF IInv, ReportedDone, Goto, PopNothing
<1> QED
  BY <1>1, <1>2, <1>3, <1>4, <1>5, <1>6 DEF IInv

\* The scan stops at a producer that is still joinable.
LEMMA ScanJoinableInv ==
  ASSUME IInv, NEW c \in Consumers, ScanJoinable(c)
  PROVE  IInv'
<1>1. /\ Made' = Made /\ Queued' = Queued /\ Delivered' = Delivered
      /\ OneHolder' /\ CountsRight'
  BY Undisturbed DEF IInv, TypeOK, Goto, consumerVars, ScanJoinable
<1>2. TypeOK'
  BY DEF IInv, TypeOK, Goto, ScanJoinable
<1>3. JoinedFinished'
  BY DEF IInv, JoinedFinished, ScanJoinable
<1>4. ScannedJoined'
  BY DEF IInv, ScannedJoined, Goto, ScanJoinable
<1>5. StopsWhenDrained'
  BY <1>1 DEF IInv, StopsWhenDrained, Goto, ScanJoinable
<1>6. ReportedDone'
  BY DEF IInv, ReportedDone, Goto, ScanJoinable
<1> QED
  BY <1>1, <1>2, <1>3, <1>4, <1>5, <1>6 DEF IInv

\* The scan goes on past a joined producer.
LEMMA ScanJoinedInv ==
  ASSUME IInv, NEW c \in Consumers, ScanJoined(c)
  PROVE  IInv'
<1>1. /\ Made' = Made /\ Queued' = Queued /\ Delivered' = Delivered
      /\ OneHolder' /\ CountsRight'
  BY Undisturbed DEF IInv, TypeOK, Goto, consumerVars, ScanJoined
<1>2. TypeOK'
  BY CountAssumption DEF IInv, TypeOK, Joinable, Goto, ScanJoined
<1>3. JoinedFinished'
  BY DEF IInv, JoinedFinished, ScanJoined
<1>4. ScannedJoined'
  BY DEF IInv, TypeOK, ScannedJoined, Joinable, Goto, ScanJoined
<1>5. StopsWhenDrained'
  BY <1>1 DEF IInv, StopsWhenDrained, Goto, ScanJoined
<1>6. ReportedDone'
  BY DEF IInv, ReportedDone, Goto, ScanJoined
<1> QED
  BY <1>1, <1>2, <1>3, <1>4, <1>5, <1>6 DEF IInv

\* A consumer stops: the scan is over and the queue is empty.
LEMMA StopInv ==
  ASSUME IInv, NEW c \in Consumers, Stop(c)
  PROVE  IInv'
<1>1. /\ Made' = Made /\ Queued' = Queued /\ Delivered' = Delivered
      /\ OneHolder' /\ CountsRight'
  BY Undisturbed DEF IInv, TypeOK, Goto, consumerVars, Stop
<1>2. Delivered = Items
  <2>1. \A p \in Producers : produced[p] = NumItems
    BY CountAssumption
       DEF IInv, TypeOK, ScannedJoined, JoinedFinished, Goto, Stop, Producers
  <2>2. Made = Items
    BY <2>1 DEF Made, Items
  <2>3. Queued = {}
    BY DEF Queued, ToSet, Stop
  <2> QED
    BY <2>2, <2>3 DEF IInv, OneHolder
<1>3. TypeOK'
  BY DEF IInv, TypeOK, Goto, Stop
<1>4. JoinedFinished'
  BY DEF IInv, JoinedFinished, Stop
<1>5. ScannedJoined'
  BY DEF IInv, ScannedJoined, Goto, Stop
<1>6. StopsWhenDrained'
  BY <1>1, <1>2 DEF StopsWhenDrained
<1>7. ReportedDone'
  BY DEF IInv, ReportedDone, Goto, Stop
<1> QED
  BY <1>1, <1>2, <1>3, <1>4, <1>5, <1>6, <1>7 DEF IInv

\* A consumer goes back to the queue.
LEMMA StopNotInv ==
  ASSUME IInv, NEW c \in Consumers, StopNot(c)
  PROVE  IInv'
<1>1. /\ Made' = Made /\ Queued' = Queued /\ Delivered' = Delivered
      /\ OneHolder' /\ CountsRight'
  BY Undisturbed DEF IInv, TypeOK, Goto, consumerVars, StopNot
<1>2. TypeOK'
  BY DEF IInv, TypeOK, Goto, StopNot
<1>3. JoinedFinished'
  BY DEF IInv, JoinedFinished, StopNot
<1>4. ScannedJoined'
  BY DEF IInv, ScannedJoined, Goto, StopNot
<1>5. StopsWhenDrained'
  BY <1>1 DEF IInv, StopsWhenDrained, Goto, StopNot
<1>6. ReportedDone'
  BY DEF IInv, ReportedDone, Goto, StopNot
<1> QED
  BY <1>1, <1>2, <1>3, <1>4, <1>5, <1>6 DEF IInv

\* The items are as many as main says.
LEMMA ItemsFinite == IsFiniteSet(Items) /\ Cardinality(Items) = NumProducers * NumItems
<1>1. ASSUME NEW n \in Nat PROVE IsFiniteSet(1..n) /\ Cardinality(1..n) = n
  <2>1. (IF 1 > n THEN 0 ELSE n - 1 + 1) = n
    OBVIOUS
  <2> QED
    BY <2>1, FS_Interval
<1>2. /\ IsFiniteSet(1..NumProducers) /\ Cardinality(1..NumProducers) = NumProducers
      /\ IsFiniteSet(1..NumItems) /\ Cardinality(1..NumItems) = NumItems
  BY <1>1, CountAssumption
<1> QED
  BY <1>2, FS_Product DEF Items, Producers

\* A consumer adds its count to the total, once.
LEMMA CountInv ==
  ASSUME IInv, NEW c \in Consumers, Count(c)
  PROVE  IInv'
<1>1. /\ Made' = Made /\ Queued' = Queued /\ Delivered' = Delivered
      /\ \A d \in Consumers : Taken(d)' = Taken(d)
  BY DEF Made, Queued, Delivered, Taken, Count
<1>2. TypeOK'
  BY DEF IInv, TypeOK, Goto, Count
<1>3. OneHolder'
  BY <1>1 DEF IInv, OneHolder, Count
<1>4. CountsRight'
  <2>1. /\ pc[c] = "count"
        /\ \A d \in Consumers : pc'[d] = "done" <=> d = c \/ pc[d] = "done"
    BY DEF IInv, TypeOK, Goto, Count
  <2>2. Counted' = Counted \cup Taken(c)
    BY <1>1, <2>1 DEF Counted
  <2>3. Counted \cap Taken(c) = {}
    BY <2>1 DEF IInv, OneHolder, Counted
  <2>4. IsFiniteSet(Taken(c)) /\ Cardinality(Taken(c)) = Len(taken[c])
    BY TakenOnce DEF IInv, TypeOK, OneHolder, Taken
  <2>5. IsFiniteSet(Counted)
    <3>1. Counted \in SUBSET Items
      BY DEF IInv, TypeOK, Counted, Taken, ToSet
    <3> QED
      BY <3>1, ItemsFinite, FS_Subset
  <2>6. Cardinality(Counted') = Cardinality(Counted) + Len(taken[c])
    <3>1. Cardinality(Counted) \in Nat /\ Len(taken[c]) \in Nat
      BY <2>5, FS_CardinalityType DEF IInv, TypeOK
    <3>2. Cardinality(Counted \cap Taken(c)) = 0
      BY <2>3, FS_EmptySet
    <3>3. Cardinality(Counted \cup Taken(c))
            = Cardinality(Counted) + Cardinality(Taken(c)) - Cardinality(Counted \cap Taken(c))
      BY <2>4, <2>5, FS_Union
    <3> QED
      BY <2>2, <2>4, <3>1, <3>2, <3>3
  <2> QED
    BY <2>6 DEF IInv, CountsRight, Count
<1>5. JoinedFinished'
  BY DEF IInv, JoinedFinished, Count
<1>6. ScannedJoined'
  BY DEF IInv, ScannedJoined, Goto, Count
<1>7. StopsWhenDrained'
  BY <1>1 DEF IInv, StopsWhenDrained, Goto, Count
<1>8. ReportedDone'
  BY DEF IInv, ReportedDone, Goto, Count
<1> QED
  BY <1>2, <1>3, <1>4, <1>5, <1>6, <1>7, <1>8 DEF IInv

\* The invariant is inductive.
LEMMA NextIInv == IInv /\ [Next]_vars => IInv'
<1> SUFFICES ASSUME IInv, [Next]_vars PROVE IInv'
  OBVIOUS
<1>1. CASE Next
  <2>1. CASE Finished
    BY <2>1 DEF Finished, vars, consumerVars, IInv, TypeOK, OneHolder, JoinedFinished,
                ScannedJoined, StopsWhenDrained, ReportedDone, CountsRight,
                Made, Queued, Delivered, Taken, Counted
  <2> QED
    BY <1>1, <2>1, PushInv, JoinInv, ReportInv, PopItemInv, PopNothingInv, ScanJoinableInv,
       ScanJoinedInv, StopInv, StopNotInv, CountInv DEF Next, Consumer, Main
<1>2. CASE UNCHANGED vars
  BY <1>2 DEF vars, consumerVars, IInv, TypeOK, OneHolder, JoinedFinished,
              ScannedJoined, StopsWhenDrained, ReportedDone, CountsRight,
              Made, Queued, Delivered, Taken, Counted
<1> QED
  BY <1>1, <1>2
-----------------------------------------------------------------------------
\* Every reachable state has its type: in particular no producer's index runs
\* past its last item, and no consumer's scan past the last producer.
THEOREM TypeCorrect == Spec => []TypeOK
<1>1. IInv => TypeOK
  BY DEF IInv
<1> QED
  BY <1>1, InitIInv, NextIInv, PTL DEF Spec

\* No consumer stops before every item is consumed, and no item is lost or
\* delivered twice, in any execution.
THEOREM NothingLost == Spec => [](OneHolder /\ StopsWhenDrained)
<1>1. IInv => OneHolder /\ StopsWhenDrained
  BY DEF IInv
<1> QED
  BY <1>1, InitIInv, NextIInv, PTL DEF Spec

\* Every execution is an execution of the exactly-once delivery: a pop gives an
\* item that no consumer has had before to one consumer, and what main prints is
\* the number of items, all of them received.
THEOREM Implements == Spec => DeliversOnce
<1>1. Init => Abstract!Init
  BY DEF Init, Abstract!Init, Made, Items
<1>2. IInv /\ [Next]_vars => [Abstract!Next]_Abstract!vars
  <2> SUFFICES ASSUME IInv, [Next]_vars PROVE [Abstract!Next]_Abstract!vars
    OBVIOUS
  <2>1. Abstract!Given = Delivered
    BY DEF Abstract!Given, Abstract!Received, Delivered, Taken, ToSet
  <2>2. ASSUME NEW p \in Producers, Push(p) PROVE Abstract!Make
    <3>1. /\ <<p, produced[p] + 1>> \in Items
          /\ <<p, produced[p] + 1>> \notin Made
          /\ Made' = Made \cup {<<p, produced[p] + 1>>}
      BY <2>2, PushMakes DEF IInv
    <3> QED
      BY <2>2, <3>1 DEF Abstract!Make, Push, consumerVars
  <2>3. ASSUME NEW c \in Consumers, PopItem(c) PROVE Abstract!Deliver
    <3>1. Head(queue) \in Queued
      BY <2>3, TailRest DEF IInv, TypeOK, Queued, PopItem
    <3>2. Made' = Made
      BY <2>3, PopDelivers DEF IInv
    <3>3. Head(queue) \in Made \ Abstract!Given
      BY <2>1, <3>1 DEF IInv, OneHolder
    <3> QED
      BY <2>3, <3>2, <3>3 DEF Abstract!Deliver, PopItem
  <2>4. ASSUME Report PROVE Abstract!Report
    <3>1. Delivered = Items
      BY <2>4, CountAssumption DEF IInv, StopsWhenDrained, Report
    <3>2. Counted = Delivered
      BY <2>4 DEF Counted, Delivered, Report
    <3>3. consumed = NumProducers * NumItems
      BY <3>1, <3>2, ItemsFinite DEF IInv, CountsRight
    <3>4. Made' = Made /\ taken' = taken
      BY <2>4 DEF Made, Report, consumerVars
    <3>5. ~reported /\ reported' /\ consumed' = consumed
      BY <2>4 DEF Report, consumerVars
    <3> QED
      BY <2>1, <3>1, <3>3, <3>4, <3>5 DEF Abstract!Report
  <2>5. ASSUME \/ JoinProducer
               \/ \E c \in Consumers : \/ PopNothing(c) \/ ScanJoinable(c) \/ ScanJoined(c)
                                       \/ Stop(c) \/ StopNot(c)
               \/ UNCHANGED vars
        PROVE  UNCHANGED Abstract!vars
    BY <2>5 DEF JoinProducer, PopNothing, ScanJoinable, ScanJoined, Stop, StopNot,
                vars, consumerVars, Abstract!vars, Made
  <2>6. ASSUME NEW c \in Consumers, Count(c) PROVE UNCHANGED Abstract!vars
    <3>1. ~reported /\ ~reported'
      BY <2>6 DEF IInv, ReportedDone, Count, Goto
    <3> QED
      BY <2>6, <3>1 DEF Count, Abstract!vars, Made
  <2> QED
    BY <2>2, <2>3, <2>4, <2>5, <2>6
       DEF Next, Main, Consumer, Finished, Abstract!Next
<1> QED
  BY <1>1, <1>2, InitIInv, NextIInv, PTL DEF Spec, DeliversOnce, Abstract!Spec
=============================================================================
