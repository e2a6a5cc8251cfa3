----------------------------- MODULE RangeSplit -----------------------------
(***************************************************************************)
(* examples/31_blocked_range.cpp, example 5: parallel_for over a           *)
(* CustomRange.  A thread that holds a range may split it while it is      *)
(* divisible: the splitting constructor builds the lower half as a new     *)
(* range, which becomes a task of its own, and leaves the upper half in    *)
(* the range it was given.  The body visits a range index by index.        *)
(*                                                                         *)
(* The scheduler is outside the repository: any thread may run any task.   *)
(***************************************************************************)
EXTENDS Naturals, FiniteSets

CONSTANTS Threads,  \* the threads that run the parallel_for
          N,        \* data.size(): the range is [0, N)
          Grain,    \* my_grain
          Modulus   \* 2^w, for a size_t of w bits

\* my_begin + my_end must not wrap, and a grain of 0 never stops dividing.
ASSUME RangeAssumption == /\ N \in Nat \ {0} /\ Grain \in Nat \ {0}
                          /\ Modulus \in Nat /\ 2 * N <= Modulus

VARIABLES eager,   \* split for as long as is_divisible() (simple_partitioner), or
                   \* only when the scheduler sees fit (auto_partitioner)
          tasks,   \* the ranges waiting for a thread
          pc,      \* where each thread is
          held,    \* the range each thread has
          pos,     \* the body's i
          writes   \* how often each element of data has been written

vars == <<eager, tasks, pc, held, pos, writes>>

Index == 0..(N - 1)
Ranges == [begin : 0..N, end : 0..N]
Whole == [begin |-> 0, end |-> N]

\* Mutant: a range no longer than the grain is divided too.
DivisibleAtGrain(r) == (r.end + Modulus - r.begin) % Modulus >= Grain

\* is_divisible(), with the subtraction of size_t.
Divisible(r) == (r.end + Modulus - r.begin) % Modulus > Grain

\* mid of the splitting constructor.
Mid(r) == ((r.begin + r.end) % Modulus) \div 2

\* Mutant: the new range is given both halves.
LowerAll(r) == [begin |-> r.begin, end |-> r.end]

\* What the splitting constructor makes of r, for the new range ...
Lower(r) == [begin |-> r.begin, end |-> Mid(r)]

\* Mutant: r keeps its beginning.
UpperKept(r) == [begin |-> r.begin, end |-> r.end]

\* ... and what it leaves in r.
Upper(r) == [begin |-> Mid(r), end |-> r.end]

Init == /\ eager \in BOOLEAN
        /\ tasks = {Whole}
        /\ pc = [t \in Threads |-> "idle"]
        /\ held = [t \in Threads |-> Whole]
        /\ pos = [t \in Threads |-> 0]
        /\ writes = [i \in Index |-> 0]

Goto(t, from, to) == pc[t] = from /\ pc' = [pc EXCEPT ![t] = to]
-----------------------------------------------------------------------------
\* A thread takes a task.
TakeTask(t) ==
  /\ Goto(t, "idle", "range")
  /\ \E r \in tasks : /\ tasks' = tasks \ {r}
                      /\ held' = [held EXCEPT ![t] = r]
  /\ UNCHANGED <<eager, pos, writes>>

\* A thread splits its range, and keeps what is left of it.
Split(t) ==
  /\ pc[t] = "range"
  /\ Divisible(held[t])
  /\ tasks' = tasks \cup {Lower(held[t])}
  /\ held' = [held EXCEPT ![t] = Upper(held[t])]
  /\ UNCHANGED <<eager, pc, pos, writes>>

\* A thread calls the body on its range.
Run(t) ==
  /\ ~(eager /\ Divisible(held[t]))
  /\ Goto(t, "range", "body")
  /\ pos' = [pos EXCEPT ![t] = held[t].begin]
  /\ UNCHANGED <<eager, tasks, held, writes>>

\* The loop's next iteration, while i != r.end().
Visit(t) ==
  /\ pc[t] = "body"
  /\ pos[t] # held[t].end
  /\ writes' = [writes EXCEPT ![pos[t]] = @ + 1]
  /\ pos' = [pos EXCEPT ![t] = @ + 1]
  /\ UNCHANGED <<eager, tasks, pc, held>>

\* The body returns.
Return(t) ==
  /\ pos[t] = held[t].end
  /\ Goto(t, "body", "idle")
  /\ UNCHANGED <<eager, tasks, held, pos, writes>>
-----------------------------------------------------------------------------
Thread(t) == TakeTask(t) \/ Split(t) \/ Run(t) \/ Visit(t) \/ Return(t)

\* The parallel_for returns when no task is left and no thread runs one.
Returned == tasks = {} /\ \A t \in Threads : pc[t] = "idle"
Finished == Returned /\ UNCHANGED vars

Next == (\E t \in Threads : Thread(t)) \/ Finished

Spec == Init /\ [][Next]_vars

\* Every thread that can run does run.
FairSpec == Spec /\ \A t \in Threads : WF_vars(Thread(t))
-----------------------------------------------------------------------------
\* The indices a thread still has before it.
Before(t, i) == CASE pc[t] = "idle"  -> FALSE
                  [] pc[t] = "range" -> held[t].begin <= i /\ i < held[t].end
                  [] pc[t] = "body"  -> pos[t] <= i /\ i < held[t].end
InRange(r, i) == r.begin <= i /\ i < r.end

\* Type invariant: every range lies within the whole one.
TypeOK == /\ eager \in BOOLEAN
          /\ tasks \subseteq Ranges
          /\ pc \in [Threads -> {"idle", "range", "body"}]
          /\ held \in [Threads -> Ranges]
          /\ pos \in [Threads -> 0..N]
          /\ writes \in [Index -> 0..1]

\* At every moment an index is written, or waits in exactly one task, or lies
\* before exactly one thread: however the range is split and whoever runs the
\* pieces, no element is skipped and no two threads come to the same one.
Partition ==
  \A i \in Index :
    /\ \A r, s \in tasks : InRange(r, i) /\ InRange(s, i) => r = s
    /\ \A t, u \in Threads : Before(t, i) /\ Before(u, i) => t = u
    /\ \A r \in tasks, t \in Threads : ~(InRange(r, i) /\ Before(t, i))
    /\ writes[i] = 0 <=> \/ \E r \in tasks : InRange(r, i)
                         \/ \E t \in Threads : Before(t, i)

\* A range the body is run on is not empty, no longer than the grain when the
\* splitting is eager, and at least half a grain long (31_blocked_range.cpp:12 calls
\* the grain the "Minimum subdivision size", which it is not).
LeafSize ==
  \A t \in Threads : pc[t] = "body" =>
    /\ held[t].end > held[t].begin
    /\ eager => held[t].end - held[t].begin <= Grain
    /\ held[t].end - held[t].begin >= (Grain + 1) \div 2 \/ held[t] = Whole

\* The parallel_for returns, with every element written once.
Completes == <>[](Returned /\ \A i \in Index : writes[i] = 1)
=============================================================================
