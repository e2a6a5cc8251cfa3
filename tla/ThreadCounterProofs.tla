------------------------ MODULE ThreadCounterProofs ------------------------
(***************************************************************************)
(* Proofs about ThreadCounter, for any number of threads and entries: the  *)
(* active count is exact, and the compare_exchange_weak loop records the   *)
(* true maximum without ever lowering it.                                  *)
(***************************************************************************)
EXTENDS ThreadCounter, FiniteSetTheorems, TLAPS

\* A thread whose entry has not yet dealt with the maximum.
Entering(t) == pc[t] \in {"total", "load", "cas"}

\* What an entry is about to record is no more than the real maximum, and what
\* it expects has been the recorded one.
EntryInv == \A t \in Threads : /\ Entering(t) => current[t] <= peak
                               /\ pc[t] = "cas" => expected[t] <= maxThreads

\* The real maximum is recorded, or its thread is still on its way to do so.
PeakInv == /\ maxThreads <= peak
           /\ maxThreads = peak \/ \E t \in Threads : Entering(t) /\ current[t] = peak

\* The first half of ActiveCounts, and the second.
InsideCounted == activeThreads = Cardinality(Inside)
EntriesCounted == totalThreads + Cardinality(HalfCounted) = entries

IInv == TypeOK /\ InsideCounted /\ EntryInv /\ PeakInv
-----------------------------------------------------------------------------
\* A thread that comes in or goes out changes the number inside by one.
LEMMA InsideChanges ==
  ASSUME TypeOK, NEW t \in Threads
  PROVE  /\ Cardinality(Inside) \in Nat
         /\ Inside' = Inside => Cardinality(Inside') = Cardinality(Inside)
         /\ t \notin Inside /\ Inside' = Inside \cup {t}
              => Cardinality(Inside') = Cardinality(Inside) + 1
         /\ t \in Inside /\ Inside' = Inside \ {t}
              => /\ Cardinality(Inside') = Cardinality(Inside) - 1
                 /\ Cardinality(Inside') \in Nat
<1>1. IsFiniteSet(Inside)
  BY ThreadAssumption, FS_Subset DEF Inside
<1>2. IsFiniteSet(Inside \ {t})
  BY <1>1, FS_Subset
<1> QED
  BY <1>1, <1>2, FS_AddElement, FS_RemoveElement, FS_CardinalityType

\* The invariant holds at the start.
LEMMA InitIInv == Init => IInv
<1> SUFFICES ASSUME Init PROVE IInv
  OBVIOUS
<1>1. Inside = {}
  BY DEF Init, Inside
<1> QED
  BY <1>1, ThreadAssumption, FS_EmptySet
     DEF Init, IInv, TypeOK, InsideCounted, EntryInv, PeakInv, Entering

\* A thread enters and is counted.
LEMMA EnterInv ==
  ASSUME IInv, NEW t \in Threads, Enter(t)
  PROVE  IInv'
<1>1. t \notin Inside /\ Inside' = Inside \cup {t}
  BY DEF IInv, TypeOK, Enter, Goto, Inside
<1>2. TypeOK'
  BY ThreadAssumption DEF IInv, TypeOK, Enter, Goto
<1>3. InsideCounted'
  BY <1>1, InsideChanges DEF IInv, InsideCounted, Enter
<1>4. EntryInv'
  BY DEF IInv, TypeOK, EntryInv, Entering, Enter, Goto
<1>5. PeakInv'
  BY DEF IInv, TypeOK, PeakInv, Entering, Enter, Goto
<1> QED
  BY <1>2, <1>3, <1>4, <1>5 DEF IInv

\* A step of the entry loop: the maximum is not lowered, nor the peak lost.
LEMMA EntryStepInv ==
  ASSUME IInv, NEW t \in Threads, EntryStep(t)
  PROVE  IInv' /\ maxThreads' >= maxThreads
<1>1. CASE CountEntry(t)
  <2>1. Inside' = Inside
    BY <1>1 DEF IInv, TypeOK, CountEntry, Goto, Inside
  <2>2. InsideCounted'
    BY <1>1, <2>1, InsideChanges DEF IInv, InsideCounted, CountEntry
  <2> QED
    BY <1>1, <2>2 DEF IInv, TypeOK, EntryInv, PeakInv, Entering, CountEntry, Goto
<1>2. CASE LoadMax(t)
  <2>1. Inside' = Inside
    BY <1>2 DEF IInv, TypeOK, LoadMax, Goto, Inside
  <2>2. InsideCounted'
    BY <1>2, <2>1, InsideChanges DEF IInv, InsideCounted, LoadMax
  <2> QED
    BY <1>2, <2>2 DEF IInv, TypeOK, EntryInv, PeakInv, Entering, LoadMax, Goto
<1>3. CASE NoNewMax(t)
  <2>1. Inside' = Inside
    BY <1>3 DEF IInv, TypeOK, NoNewMax, Goto, Inside
  <2>2. InsideCounted'
    BY <1>3, <2>1, InsideChanges DEF IInv, InsideCounted, NoNewMax
  <2>3. current[t] <= maxThreads
    BY <1>3 DEF IInv, TypeOK, EntryInv, NoNewMax, Goto
  <2> QED
    BY <1>3, <2>2, <2>3 DEF IInv, TypeOK, EntryInv, PeakInv, Entering, NoNewMax, Goto
<1>4. CASE CasMax(t)
  <2>1. Inside' = Inside
    BY <1>4 DEF IInv, TypeOK, CasMax, Goto, Inside
  <2>2. InsideCounted'
    BY <1>4, <2>1, InsideChanges DEF IInv, InsideCounted, CasMax
  <2>3. maxThreads' = current[t] /\ current[t] <= peak /\ current[t] > maxThreads
    BY <1>4 DEF IInv, TypeOK, EntryInv, Entering, CasMax, Goto
  <2> QED
    BY <1>4, <2>2, <2>3 DEF IInv, TypeOK, EntryInv, PeakInv, Entering, CasMax, Goto
<1>5. CASE CasFails(t)
  <2>1. Inside' = Inside
    BY <1>5 DEF IInv, TypeOK, CasFails, Goto, Inside
  <2>2. InsideCounted'
    BY <1>5, <2>1, InsideChanges DEF IInv, InsideCounted, CasFails
  <2> QED
    BY <1>5, <2>2 DEF IInv, TypeOK, EntryInv, PeakInv, Entering, CasFails, Goto
<1> QED
  BY <1>1, <1>2, <1>3, <1>4, <1>5 DEF EntryStep

\* A thread leaves.
LEMMA ExitInv ==
  ASSUME IInv, NEW t \in Threads, Exit(t)
  PROVE  IInv'
<1>1. t \in Inside /\ Inside' = Inside \ {t}
  BY DEF IInv, TypeOK, Exit, Goto, Inside
<1>2. InsideCounted' /\ activeThreads' \in Nat
  BY <1>1, InsideChanges DEF IInv, InsideCounted, Exit
<1> QED
  BY <1>2 DEF IInv, TypeOK, EntryInv, PeakInv, Entering, Exit, Goto

\* The invariant is inductive, and no step lowers the maximum.
LEMMA NextIInv == IInv /\ [Next]_vars => IInv' /\ [maxThreads' >= maxThreads]_vars
<1> SUFFICES ASSUME IInv, [Next]_vars PROVE IInv' /\ [maxThreads' >= maxThreads]_vars
  OBVIOUS
<1>1. CASE UNCHANGED vars
  BY <1>1 DEF vars, locals, IInv, TypeOK, InsideCounted, EntryInv, PeakInv, Entering, Inside
<1>2. ASSUME NEW t \in Threads, Enter(t) \/ Exit(t) PROVE maxThreads' >= maxThreads
  BY <1>2 DEF IInv, TypeOK, Enter, Exit
<1> QED
  BY <1>1, <1>2, EnterInv, EntryStepInv, ExitInv DEF Next
-----------------------------------------------------------------------------
(* The entries. *)

LEMMA InitEntries == Init => EntriesCounted
<1>1. Init => HalfCounted = {}
  BY DEF Init, HalfCounted
<1> QED
  BY <1>1, FS_EmptySet DEF Init, EntriesCounted

\* A thread that is to count its entry is one more, and one less when it has.
LEMMA NextEntries == TypeOK /\ EntriesCounted /\ [Next]_vars => EntriesCounted'
<1> SUFFICES ASSUME TypeOK, EntriesCounted, [Next]_vars PROVE EntriesCounted'
  OBVIOUS
<1>1. IsFiniteSet(HalfCounted)
  BY ThreadAssumption, FS_Subset DEF HalfCounted
<1>2. Cardinality(HalfCounted) \in Nat
  BY <1>1, FS_CardinalityType
<1>3. ASSUME NEW t \in Threads, Enter(t) PROVE EntriesCounted'
  <2>1. t \notin HalfCounted /\ HalfCounted' = HalfCounted \cup {t}
    BY <1>3 DEF TypeOK, Enter, Goto, HalfCounted
  <2>2. Cardinality(HalfCounted') = Cardinality(HalfCounted) + 1
    BY <1>1, <2>1, FS_AddElement
  <2> QED
    BY <1>2, <1>3, <2>2 DEF TypeOK, EntriesCounted, Enter
<1>4. ASSUME NEW t \in Threads, CountEntry(t) PROVE EntriesCounted'
  <2>1. t \in HalfCounted /\ HalfCounted' = HalfCounted \ {t}
    BY <1>4 DEF TypeOK, CountEntry, Goto, HalfCounted
  <2>2. Cardinality(HalfCounted') = Cardinality(HalfCounted) - 1
    BY <1>1, <2>1, FS_RemoveElement
  <2> QED
    BY <1>2, <1>4, <2>2 DEF TypeOK, EntriesCounted, CountEntry
<1>5. ASSUME NEW t \in Threads, LoadMax(t) \/ NoNewMax(t) \/ CasMax(t) \/ CasFails(t) \/ Exit(t)
      PROVE  EntriesCounted'
  <2>1. HalfCounted' = HalfCounted
    BY <1>5 DEF TypeOK, LoadMax, NoNewMax, CasMax, CasFails, Exit, Goto, HalfCounted
  <2> QED
    BY <1>5, <2>1 DEF EntriesCounted, LoadMax, NoNewMax, CasMax, CasFails, Exit
<1>6. CASE UNCHANGED vars
  BY <1>6 DEF vars, locals, EntriesCounted, HalfCounted
<1> QED
  BY <1>3, <1>4, <1>5, <1>6 DEF Next, EntryStep
-----------------------------------------------------------------------------
\* No counter ever goes below zero, whatever the order of entries and exits.
THEOREM TypeCorrect == Spec => []TypeOK
<1>1. IInv => TypeOK
  BY DEF IInv
<1> QED
  BY <1>1, InitIInv, NextIInv, PTL DEF Spec

\* In every execution active_threads is the number of threads inside, and
\* total_threads that of the entries that have got past its increment.
THEOREM CountsExact == Spec => []ActiveCounts
<1>1. IInv /\ EntriesCounted => ActiveCounts
  BY DEF IInv, InsideCounted, EntriesCounted, ActiveCounts
<1>2. IInv => TypeOK
  BY DEF IInv
<1> QED
  BY <1>1, <1>2, InitIInv, NextIInv, InitEntries, NextEntries, PTL DEF Spec

\* max_threads is the most threads there ever were inside as soon as no entry
\* is under way: a compare_exchange_weak that fails loses no maximum.
THEOREM PeakRecorded == Spec => []MaxIsPeak
<1>1. IInv => MaxIsPeak
  BY DEF IInv, TypeOK, PeakInv, MaxIsPeak, Entering
<1> QED
  BY <1>1, InitIInv, NextIInv, PTL DEF Spec

\* No step of any execution lowers max_threads.
THEOREM NeverLowered == Spec => MaxGrows
BY InitIInv, NextIInv, PTL DEF Spec, MaxGrows
=============================================================================
