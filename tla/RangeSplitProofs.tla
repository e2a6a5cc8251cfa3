-------------------------- MODULE RangeSplitProofs --------------------------
(***************************************************************************)
(* RangeSplit for every size of the data, every grain, any number of       *)
(* threads and any order of splitting: the pieces always partition what is *)
(* left of the range.  Partition alone is not inductive: that the body's   *)
(* loop stops at its range's end and that a half is not empty is in IInv.  *)
(***************************************************************************)
EXTENDS RangeSplit, TLAPS

\* No range a task or a thread has is empty, and the loop stays in its range.
Shape == /\ \A r \in tasks : r.begin < r.end
         /\ \A t \in Threads : pc[t] = "range" => held[t].begin < held[t].end
         /\ \A t \in Threads :
              pc[t] = "body" => held[t].begin <= pos[t] /\ pos[t] <= held[t].end

IInv == TypeOK /\ Shape /\ Partition

\* What is smaller than the modulus is its own remainder.
LEMMA SmallRemainder ==
  ASSUME NEW m \in Nat \ {0}, NEW x \in 0..(m - 1)
  PROVE  x % m = x /\ (x + m) % m = x
OBVIOUS

\* The sizes do not wrap: is_divisible() compares the length with the grain,
\* and mid lies strictly inside a range that is divided.
LEMMA Halves ==
  ASSUME NEW r \in Ranges, r.begin < r.end
  PROVE  /\ Divisible(r) <=> r.end - r.begin > Grain
         /\ Divisible(r) => /\ Mid(r) \in 0..N
                            /\ r.begin < Mid(r) /\ Mid(r) < r.end
<1>1. /\ N \in Nat \ {0} /\ Grain \in Nat \ {0} /\ Modulus \in Nat \ {0}
      /\ 2 * N <= Modulus /\ r.begin \in 0..N /\ r.end \in 0..N
  BY RangeAssumption DEF Ranges
<1>2. (r.end + Modulus - r.begin) % Modulus = r.end - r.begin
  <2>1. r.end - r.begin \in 0..(Modulus - 1)
    BY <1>1
  <2>2. ((r.end - r.begin) + Modulus) % Modulus = r.end - r.begin
    BY <1>1, <2>1, SmallRemainder
  <2>3. r.end + Modulus - r.begin = (r.end - r.begin) + Modulus
    BY <1>1
  <2> QED
    BY <2>2, <2>3
<1>3. (r.begin + r.end) % Modulus = r.begin + r.end
  <2>1. r.begin + r.end \in 0..(Modulus - 1)
    BY <1>1
  <2> QED
    BY <1>1, <2>1, SmallRemainder
<1>4. Divisible(r) <=> r.end - r.begin > Grain
  BY <1>2 DEF Divisible
<1>5. Mid(r) = (r.begin + r.end) \div 2
  BY <1>3 DEF Mid
<1> QED
  BY <1>1, <1>4, <1>5

\* The halves of a range are ranges, not empty, and share its indices out.
LEMMA Sharing ==
  ASSUME NEW r \in Ranges, r.begin < r.end, Divisible(r)
  PROVE  /\ Lower(r) \in Ranges /\ Lower(r).begin < Lower(r).end
         /\ Upper(r) \in Ranges /\ Upper(r).begin < Upper(r).end
         /\ \A i \in Index : /\ InRange(r, i) <=> InRange(Lower(r), i) \/ InRange(Upper(r), i)
                            /\ ~(InRange(Lower(r), i) /\ InRange(Upper(r), i))
         /\ InRange(r, r.begin) /\ r.begin \in Index
<1>1. /\ Mid(r) \in 0..N /\ r.begin < Mid(r) /\ Mid(r) < r.end
      /\ r.begin \in 0..N /\ r.end \in 0..N /\ N \in Nat
  BY Halves, RangeAssumption DEF Ranges
<1>2. /\ Lower(r).begin = r.begin /\ Lower(r).end = Mid(r)
      /\ Upper(r).begin = Mid(r) /\ Upper(r).end = r.end
      /\ Lower(r) \in Ranges /\ Upper(r) \in Ranges
  BY <1>1 DEF Lower, Upper, Ranges
<1> QED
  BY <1>1, <1>2 DEF InRange, Index
-----------------------------------------------------------------------------
\* At the start the one task holds every index.
LEMMA InitInv == Init => IInv
<1> SUFFICES ASSUME Init PROVE IInv
  OBVIOUS
<1>1. Whole \in Ranges /\ Whole.begin = 0 /\ Whole.end = N /\ N \in Nat \ {0}
  BY RangeAssumption DEF Whole, Ranges
<1>2. TypeOK
  BY <1>1 DEF Init, TypeOK
<1>3. Shape
  BY <1>1 DEF Init, Shape
<1>4. Partition
  BY <1>1 DEF Init, Partition, InRange, Before, Index
<1> QED
  BY <1>2, <1>3, <1>4 DEF IInv

\* A thread's indices are those of the task it took.
LEMMA TakeTaskInv ==
  ASSUME IInv, NEW t \in Threads, TakeTask(t)
  PROVE  IInv'
<1>1. PICK r \in tasks : tasks' = tasks \ {r} /\ held' = [held EXCEPT ![t] = r]
  BY DEF TakeTask
<1>2. pc[t] = "idle" /\ pc' = [pc EXCEPT ![t] = "range"] /\ UNCHANGED <<eager, pos, writes>>
  BY DEF TakeTask, Goto
<1>3. TypeOK'
  BY <1>1, <1>2 DEF IInv, TypeOK
<1>4. Shape'
  BY <1>1, <1>2 DEF IInv, TypeOK, Shape
<1>5. \A u \in Threads, i \in Index :
        Before(u, i)' <=> IF u = t THEN InRange(r, i) ELSE Before(u, i)
  BY <1>1, <1>2 DEF IInv, TypeOK, Before, InRange
<1>6. \A i \in Index : ~Before(t, i)
  BY <1>2 DEF Before
<1>7. Partition'
  BY <1>1, <1>2, <1>5, <1>6 DEF IInv, Partition, InRange
<1> QED
  BY <1>3, <1>4, <1>7 DEF IInv

\* The new task and what the thread keeps share the thread's indices out.
LEMMA SplitInv ==
  ASSUME IInv, NEW t \in Threads, Split(t)
  PROVE  IInv'
<1> DEFINE r == held[t]
<1>1. /\ pc[t] = "range" /\ Divisible(r) /\ UNCHANGED <<eager, pc, pos, writes>>
      /\ tasks' = tasks \cup {Lower(r)} /\ held' = [held EXCEPT ![t] = Upper(r)]
  BY DEF Split
<1>2. r \in Ranges /\ r.begin < r.end
  BY <1>1 DEF IInv, TypeOK, Shape
<1>3. /\ Lower(r) \in Ranges /\ Lower(r).begin < Lower(r).end
      /\ Upper(r) \in Ranges /\ Upper(r).begin < Upper(r).end
      /\ \A i \in Index : /\ InRange(r, i) <=> InRange(Lower(r), i) \/ InRange(Upper(r), i)
                         /\ ~(InRange(Lower(r), i) /\ InRange(Upper(r), i))
  BY <1>1, <1>2, Sharing
<1> HIDE DEF r
<1>4. TypeOK'
  BY <1>1, <1>3 DEF IInv, TypeOK
<1>5. Shape'
  BY <1>1, <1>3 DEF IInv, TypeOK, Shape
<1>6. \A i \in Index : Before(t, i) <=> InRange(r, i)
  BY <1>1 DEF Before, InRange, r
<1>7. \A u \in Threads, i \in Index :
        Before(u, i)' <=> IF u = t THEN InRange(Upper(r), i) ELSE Before(u, i)
  BY <1>1 DEF IInv, TypeOK, Before, InRange
<1>8. Partition'
  BY <1>1, <1>3, <1>6, <1>7 DEF IInv, Partition, InRange
<1> QED
  BY <1>4, <1>5, <1>8 DEF IInv

\* Before the loop starts, all of the range is before it.
LEMMA RunInv ==
  ASSUME IInv, NEW t \in Threads, Run(t)
  PROVE  IInv'
<1>1. /\ pc[t] = "range" /\ pc' = [pc EXCEPT ![t] = "body"]
      /\ pos' = [pos EXCEPT ![t] = held[t].begin] /\ UNCHANGED <<eager, tasks, held, writes>>
  BY DEF Run, Goto
<1>2. held[t].begin \in 0..N
  BY DEF IInv, TypeOK, Ranges
<1>3. TypeOK'
  BY <1>1, <1>2 DEF IInv, TypeOK
<1>4. Shape'
  BY <1>1, <1>2 DEF IInv, TypeOK, Shape, Ranges
<1>5. \A u \in Threads, i \in Index : Before(u, i)' <=> Before(u, i)
  BY <1>1 DEF IInv, TypeOK, Before
<1>6. Partition'
  BY <1>1, <1>5 DEF IInv, Partition, InRange
<1> QED
  BY <1>3, <1>4, <1>6 DEF IInv

\* The index visited leaves the thread's indices as it is written.
LEMMA VisitInv ==
  ASSUME IInv, NEW t \in Threads, Visit(t)
  PROVE  IInv'
<1> DEFINE p == pos[t]
<1>1. /\ pc[t] = "body" /\ p # held[t].end /\ UNCHANGED <<eager, tasks, pc, held>>
      /\ writes' = [writes EXCEPT ![p] = @ + 1] /\ pos' = [pos EXCEPT ![t] = p + 1]
  BY DEF Visit
<1>2. p \in 0..N /\ held[t].begin <= p /\ p < held[t].end /\ held[t].end \in 0..N
  BY <1>1 DEF IInv, TypeOK, Shape, Ranges
<1>3. p \in Index /\ p + 1 \in 0..N /\ N \in Nat
  BY <1>2, RangeAssumption DEF Index
<1>4. Before(t, p) /\ writes[p] = 0
  <2>1. Before(t, p)
    BY <1>1, <1>2 DEF Before
  <2> QED
    BY <1>3, <2>1 DEF IInv, Partition
<1> HIDE DEF p
<1>5. TypeOK'
  BY <1>1, <1>3, <1>4 DEF IInv, TypeOK
<1>6. Shape'
  BY <1>1, <1>2, <1>3 DEF IInv, TypeOK, Shape, Ranges
<1>7. \A u \in Threads, i \in Index :
        Before(u, i)' <=> Before(u, i) /\ (u = t => i # p)
  <2>1. ASSUME NEW i \in Index PROVE Before(t, i)' <=> Before(t, i) /\ i # p
    <3>1. Before(t, i) <=> p <= i /\ i < held[t].end
      BY <1>1 DEF Before, p
    <3>2. Before(t, i)' <=> p + 1 <= i /\ i < held[t].end
      BY <1>1, <1>3 DEF IInv, TypeOK, Before
    <3>3. i \in Nat /\ p \in Nat
      BY <1>3 DEF Index
    <3> QED
      BY <3>1, <3>2, <3>3
  <2>2. ASSUME NEW u \in Threads \ {t}, NEW i \in Index
        PROVE  Before(u, i)' <=> Before(u, i)
    BY <1>1 DEF IInv, TypeOK, Before
  <2> QED
    BY <2>1, <2>2
<1>8. \A i \in Index : writes'[i] = IF i = p THEN 1 ELSE writes[i]
  BY <1>1, <1>3, <1>4 DEF IInv, TypeOK
<1>9. Partition'
  BY <1>1, <1>3, <1>4, <1>7, <1>8 DEF IInv, Partition, InRange
<1> QED
  BY <1>5, <1>6, <1>9 DEF IInv

\* A body that returns has nothing before it.
LEMMA ReturnInv ==
  ASSUME IInv, NEW t \in Threads, Return(t)
  PROVE  IInv'
<1>1. /\ pc[t] = "body" /\ pos[t] = held[t].end
      /\ pc' = [pc EXCEPT ![t] = "idle"] /\ UNCHANGED <<eager, tasks, held, pos, writes>>
  BY DEF Return, Goto
<1>2. TypeOK'
  BY <1>1 DEF IInv, TypeOK
<1>3. Shape'
  BY <1>1 DEF IInv, TypeOK, Shape
<1>4. \A i \in Index : ~Before(t, i)
  <2>1. held[t].end \in 0..N
    BY DEF IInv, TypeOK, Ranges
  <2> QED
    BY <1>1, <2>1 DEF Before, Index
<1>5. \A u \in Threads, i \in Index : Before(u, i)' <=> Before(u, i)
  BY <1>1, <1>4 DEF IInv, TypeOK, Before
<1>6. Partition'
  BY <1>1, <1>5 DEF IInv, Partition, InRange
<1> QED
  BY <1>2, <1>3, <1>6 DEF IInv
-----------------------------------------------------------------------------
\* IInv is inductive.
LEMMA Inductive == (Init => IInv) /\ (IInv /\ [Next]_vars => IInv')
<1>1. Init => IInv
  BY InitInv
<1>2. IInv /\ [Next]_vars => IInv'
  <2> SUFFICES ASSUME IInv, [Next]_vars PROVE IInv'
    OBVIOUS
  <2>1. CASE UNCHANGED vars
    <3>1. UNCHANGED <<eager, tasks, pc, held, pos, writes>>
      BY <2>1 DEF vars
    <3>2. \A u \in Threads, i \in Index : Before(u, i)' <=> Before(u, i)
      BY <3>1 DEF Before
    <3> QED
      BY <3>1, <3>2 DEF IInv, TypeOK, Shape, Partition, InRange
  <2>2. CASE \E t \in Threads : Thread(t)
    BY <2>2, TakeTaskInv, SplitInv, RunInv, VisitInv, ReturnInv DEF Thread
  <2> QED
    BY <2>1, <2>2 DEF Next, Finished
<1> QED
  BY <1>1, <1>2

\* Every split stays inside the range it divides, without the size_t
\* arithmetic leaving it, and no element is written twice.
THEOREM TypeCorrect == Spec => []TypeOK
<1>1. IInv => TypeOK
  BY DEF IInv
<1> QED
  BY Inductive, <1>1, PTL DEF Spec

\* However a CustomRange is split and whoever runs the pieces, no index is
\* written twice, and one that is not written yet is still in one place.
THEOREM Partitioned == Spec => []Partition
<1>1. IInv => Partition
  BY DEF IInv
<1> QED
  BY Inductive, <1>1, PTL DEF Spec
-----------------------------------------------------------------------------
\* At least half a grain long, or the whole range.
Wide(r) == r.end - r.begin >= (Grain + 1) \div 2 \/ r = Whole

AllWide == /\ \A r \in tasks : Wide(r)
           /\ \A t \in Threads : pc[t] # "idle" => Wide(held[t])

\* A range longer than the grain has no half shorter than half the grain.
LEMMA HalvesWide ==
  ASSUME NEW r \in Ranges, r.begin < r.end, Divisible(r)
  PROVE  Wide(Lower(r)) /\ Wide(Upper(r))
<1>1. /\ r.begin \in Nat /\ r.end \in Nat /\ Grain \in Nat
      /\ r.end - r.begin > Grain
  BY Halves, RangeAssumption DEF Ranges
<1>2. Mid(r) = (r.begin + r.end) \div 2
  <2>1. /\ r.begin + r.end \in 0..(Modulus - 1) /\ Modulus \in Nat \ {0}
    BY RangeAssumption DEF Ranges
  <2> QED
    BY <2>1, SmallRemainder DEF Mid
<1>3. /\ Mid(r) - r.begin >= (Grain + 1) \div 2
      /\ r.end - Mid(r) >= (Grain + 1) \div 2
  BY <1>1, <1>2
<1> QED
  BY <1>3 DEF Wide, Lower, Upper

\* No leaf is empty or shorter than half a grain, and under a partitioner that
\* splits while it can none is longer than the grain.
THEOREM LeavesSized == Spec => []LeafSize
<1>1. Init => AllWide
  BY DEF Init, AllWide, Wide
<1>2. IInv /\ AllWide /\ [Next]_vars => AllWide'
  <2> SUFFICES ASSUME IInv, AllWide, [Next]_vars PROVE AllWide'
    OBVIOUS
  <2>1. ASSUME NEW t \in Threads, TakeTask(t) PROVE AllWide'
    BY <2>1 DEF IInv, TypeOK, AllWide, TakeTask, Goto, Wide
  <2>2. ASSUME NEW t \in Threads, Split(t) PROVE AllWide'
    <3>1. pc[t] = "range" /\ held[t] \in Ranges /\ held[t].begin < held[t].end
      BY <2>2 DEF IInv, TypeOK, Shape, Split
    <3>2. Wide(Lower(held[t])) /\ Wide(Upper(held[t]))
      BY <2>2, <3>1, HalvesWide DEF Split
    <3> QED
      BY <2>2, <3>1, <3>2 DEF IInv, TypeOK, AllWide, Split, Wide
  <2>3. ASSUME NEW t \in Threads, Run(t) \/ Visit(t) \/ Return(t) PROVE AllWide'
    BY <2>3 DEF IInv, TypeOK, AllWide, Run, Visit, Return, Goto, Wide
  <2>4. CASE UNCHANGED vars
    BY <2>4 DEF vars, AllWide, Wide
  <2> QED
    BY <2>1, <2>2, <2>3, <2>4 DEF Next, Thread, Finished
<1>3. Init => LeafSize
  BY DEF Init, LeafSize
<1>4. IInv /\ AllWide /\ LeafSize /\ [Next]_vars => LeafSize'
  <2> SUFFICES ASSUME IInv, AllWide, LeafSize, [Next]_vars PROVE LeafSize'
    OBVIOUS
  <2>1. ASSUME NEW t \in Threads, TakeTask(t) \/ Split(t) PROVE LeafSize'
    BY <2>1 DEF IInv, TypeOK, LeafSize, TakeTask, Split, Goto
  <2>2. ASSUME NEW t \in Threads, Run(t) PROVE LeafSize'
    <3>1. pc[t] = "range" /\ held[t] \in Ranges /\ held[t].begin < held[t].end
      BY <2>2 DEF IInv, TypeOK, Shape, Run, Goto
    <3>2. eager => held[t].end - held[t].begin <= Grain
      BY <2>2, <3>1, Halves, RangeAssumption DEF Run, Ranges
    <3>3. Wide(held[t])
      BY <3>1 DEF AllWide
    <3> QED
      BY <2>2, <3>1, <3>2, <3>3 DEF IInv, TypeOK, LeafSize, Run, Goto, Wide, Ranges
  <2>3. ASSUME NEW t \in Threads, Visit(t) \/ Return(t) PROVE LeafSize'
    BY <2>3 DEF IInv, TypeOK, LeafSize, Visit, Return, Goto
  <2>4. CASE UNCHANGED vars
    BY <2>4 DEF vars, LeafSize
  <2> QED
    BY <2>1, <2>2, <2>3, <2>4 DEF Next, Thread, Finished
<1>5. Spec => []IInv
  BY Inductive, PTL DEF Spec
<1> QED
  BY <1>1, <1>2, <1>3, <1>4, <1>5, PTL DEF Spec
=============================================================================
