--------------------------- MODULE ThreadCounter ---------------------------
(***************************************************************************)
(* examples/34_task_scheduler_observer.cpp, example 3: an observer counts  *)
(* the threads that are inside the scheduler, how many came in, and the    *)
(* most that were in at the same time.  Each access to an atomic is one    *)
(* action.  compare_exchange_weak may fail although it found the value it  *)
(* expected; whenever it fails it loads the current value into expected.   *)
(***************************************************************************)
EXTENDS Naturals, FiniteSets

CONSTANTS Threads,    \* the threads of the scheduler
          MaxEntries  \* bound on the number of entries of an execution

ASSUME ThreadAssumption == IsFiniteSet(Threads) /\ MaxEntries \in Nat

VARIABLES activeThreads,  \* active_threads
          maxThreads,     \* max_threads
          totalThreads,   \* total_threads
          pc,             \* where each thread is
          current,        \* current of each thread's on_scheduler_entry
          expected,       \* expected of each thread's on_scheduler_entry
          entries,        \* history: the calls of on_scheduler_entry
          peak            \* history: the most threads inside at one time

locals == <<pc, current, expected>>
vars == <<activeThreads, maxThreads, totalThreads, locals, entries, peak>>

Init == /\ activeThreads = 0
        /\ maxThreads = 0
        /\ totalThreads = 0
        /\ pc = [t \in Threads |-> "out"]
        /\ current = [t \in Threads |-> 0]
        /\ expected = [t \in Threads |-> 0]
        /\ entries = 0
        /\ peak = 0

Goto(t, from, to) == pc[t] = from /\ pc' = [pc EXCEPT ![t] = to]

\* The threads between the increment of their entry and the decrement of
\* their exit.
Inside == {t \in Threads : pc[t] # "out"}

\* Those whose entry is in active_threads and not yet in total_threads.
HalfCounted == {t \in Threads : pc[t] = "total"}
-----------------------------------------------------------------------------
(* on_scheduler_entry *)

\* current = ++active_threads.
Enter(t) ==
  /\ entries < MaxEntries
  /\ Goto(t, "out", "total")
  /\ activeThreads' = activeThreads + 1
  /\ current' = [current EXCEPT ![t] = activeThreads + 1]
  /\ entries' = entries + 1
  /\ peak' = IF activeThreads + 1 > peak THEN activeThreads + 1 ELSE peak
  /\ UNCHANGED <<maxThreads, totalThreads, expected>>

\* total_threads++.
CountEntry(t) ==
  /\ Goto(t, "total", "load")
  /\ totalThreads' = totalThreads + 1
  /\ UNCHANGED <<activeThreads, maxThreads, current, expected, entries, peak>>

\* expected = max_threads.
LoadMax(t) ==
  /\ Goto(t, "load", "cas")
  /\ expected' = [expected EXCEPT ![t] = maxThreads]
  /\ UNCHANGED <<activeThreads, maxThreads, totalThreads, current, entries, peak>>

\* current <= expected: the maximum is another thread's business.
NoNewMax(t) ==
  /\ current[t] <= expected[t]
  /\ Goto(t, "cas", "in")
  /\ UNCHANGED <<activeThreads, maxThreads, totalThreads, current, expected, entries, peak>>

\* Mutant: the maximum is stored whatever it has become.
StoreMax(t) ==
  /\ current[t] > expected[t]
  /\ Goto(t, "cas", "in")
  /\ maxThreads' = current[t]
  /\ UNCHANGED <<activeThreads, totalThreads, current, expected, entries, peak>>

\* compare_exchange_weak succeeds.
CasMax(t) ==
  /\ current[t] > expected[t]
  /\ maxThreads = expected[t]
  /\ Goto(t, "cas", "in")
  /\ maxThreads' = current[t]
  /\ UNCHANGED <<activeThreads, totalThreads, current, expected, entries, peak>>

\* Mutant: one try only.
CasOnce(t) ==
  /\ current[t] > expected[t]
  /\ Goto(t, "cas", "in")
  /\ expected' = [expected EXCEPT ![t] = maxThreads]
  /\ UNCHANGED <<activeThreads, maxThreads, totalThreads, current, entries, peak>>

\* Mutant: a failed compare_exchange_weak leaves expected as it was.
CasKeepExpected(t) ==
  /\ current[t] > expected[t]
  /\ Goto(t, "cas", "cas")
  /\ UNCHANGED <<activeThreads, maxThreads, totalThreads, current, expected, entries, peak>>

\* compare_exchange_weak fails, for a reason or without, and reloads expected.
CasFails(t) ==
  /\ current[t] > expected[t]
  /\ Goto(t, "cas", "cas")
  /\ expected' = [expected EXCEPT ![t] = maxThreads]
  /\ UNCHANGED <<activeThreads, maxThreads, totalThreads, current, entries, peak>>
-----------------------------------------------------------------------------
(* on_scheduler_exit *)

\* Mutant: the exit forgets to take the thread off the count.
ExitUncounted(t) ==
  /\ Goto(t, "in", "out")
  /\ UNCHANGED <<activeThreads, maxThreads, totalThreads, current, expected, entries, peak>>

\* Mutant: an exit is counted for a thread whose entry was not.
ExitUnmatched(t) ==
  /\ Goto(t, "out", "out")
  /\ activeThreads' = activeThreads - 1
  /\ UNCHANGED <<maxThreads, totalThreads, current, expected, entries, peak>>

\* --active_threads.
Exit(t) ==
  /\ Goto(t, "in", "out")
  /\ activeThreads' = activeThreads - 1
  /\ UNCHANGED <<maxThreads, totalThreads, current, expected, entries, peak>>
-----------------------------------------------------------------------------
\* What a thread inside on_scheduler_entry does next.
EntryStep(t) == CountEntry(t) \/ LoadMax(t) \/ NoNewMax(t) \/ CasMax(t) \/ CasFails(t)

Next == \E t \in Threads : Enter(t) \/ EntryStep(t) \/ Exit(t)

Spec == Init /\ [][Next]_vars

\* A thread inside the callback is scheduled, and compare_exchange_weak does
\* not fail without a reason for ever.
Fairness == \A t \in Threads : WF_vars(EntryStep(t)) /\ SF_vars(CasMax(t))

FairSpec == Spec /\ Fairness
-----------------------------------------------------------------------------
\* Type invariant: no counter goes below zero.
TypeOK == /\ activeThreads \in Nat
          /\ maxThreads \in Nat
          /\ totalThreads \in Nat
          /\ pc \in [Threads -> {"out", "total", "load", "cas", "in"}]
          /\ current \in [Threads -> Nat]
          /\ expected \in [Threads -> Nat]
          /\ entries \in 0..MaxEntries
          /\ peak \in Nat

\* At every moment active_threads is the number of threads inside, and
\* total_threads that of the entries so far but for those in between the two.
ActiveCounts == /\ activeThreads = Cardinality(Inside)
                /\ totalThreads + Cardinality(HalfCounted) = entries

\* The maximum printed is the real one: once no entry is under way, max_threads
\* is the most threads that were ever inside, however their entries and exits
\* overlapped; and it never runs ahead.
MaxIsPeak ==
  /\ maxThreads <= peak
  /\ (\A t \in Threads : pc[t] \in {"out", "in"}) => maxThreads = peak

\* A smaller maximum never replaces a larger one.
MaxGrows == [][maxThreads' >= maxThreads]_vars

\* The callback returns: the loop over compare_exchange_weak ends.
EntryCompletes == \A t \in Threads : pc[t] = "total" ~> pc[t] \in {"in", "out"}
=============================================================================
