----------------------------- MODULE WorkQueues -----------------------------
(***************************************************************************)
(* examples/12_concurrent_queue.cpp, example 7: every worker drains its    *)
(* own concurrent_queue, then goes once over the others in order and       *)
(* drains each of them.  All the work is queued before the workers start.  *)
(***************************************************************************)
EXTENDS Naturals, Sequences, FiniteSetsExt, Functions

CONSTANTS NumWorkers,  \* NUM_WORKERS
          TotalWork    \* TOTAL_WORK

ASSUME WorkAssumption == NumWorkers \in Nat \ {0} /\ TotalWork \in Nat

VARIABLES queues,     \* worker_queues
          pc,         \* where each worker is
          at,         \* the queue each worker is draining
          worked,     \* the items each worker has done
          localWork,  \* local_work of each worker
          workDone    \* work_done

vars == <<queues, pc, at, worked, localWork, workDone>>

Workers == 1..NumWorkers
Work == 0..(TotalWork - 1)

\* Mutant: the stride is one short.
DistributedOverlap(q) ==
  LET length == Cardinality({i \in Work : i % NumWorkers = q - 1})
  IN  [k \in 1..length |-> q - 1 + (k - 1) * (NumWorkers - 1)]

\* worker_queues[i % NUM_WORKERS].push(i), for i from 0: queue q, numbered from
\* 1, holds q - 1, q - 1 + NumWorkers, ...
Distributed(q) ==
  LET length == Cardinality({i \in Work : i % NumWorkers = q - 1})
  IN  [k \in 1..length |-> q - 1 + (k - 1) * NumWorkers]

Init == /\ queues = [q \in Workers |-> Distributed(q)]
        /\ pc = [w \in Workers |-> "own"]
        /\ at = [w \in Workers |-> w]
        /\ worked = [w \in Workers |-> {}]
        /\ localWork = [w \in Workers |-> 0]
        /\ workDone = 0

\* Mutant: the worker skips the queue after its own, too.
SkipVictim(w, q) == IF q + 1 = w THEN q + 3 ELSE q + 1

\* The queue a worker steals from after queue q: the next one but its own.
NextVictim(w, q) == IF q + 1 = w THEN q + 2 ELSE q + 1

Goto(w, from, to) == pc[w] \in from /\ pc' = [pc EXCEPT ![w] = to]
-----------------------------------------------------------------------------

\* try_pop found an item in the queue the worker is at, its own or another's.
Do(w) ==
  /\ pc[w] \in {"own", "steal"}
  /\ at[w] \in Workers
  /\ queues[at[w]] # <<>>
  /\ queues' = [queues EXCEPT ![at[w]] = Tail(@)]
  /\ worked' = [worked EXCEPT ![w] = @ \cup {Head(queues[at[w]])}]
  /\ localWork' = [localWork EXCEPT ![w] = @ + 1]
  /\ UNCHANGED <<pc, at, workDone>>

\* Its own queue is empty: start with the first of the others.
StartStealing(w) ==
  /\ queues[w] = <<>>
  /\ Goto(w, {"own"}, "steal")
  /\ at' = [at EXCEPT ![w] = NextVictim(w, 0)]
  /\ UNCHANGED <<queues, worked, localWork, workDone>>

\* Mutant: the worker goes on to the next queue after one item.
MoveOnEarly(w) ==
  /\ at[w] \in Workers
  /\ Goto(w, {"steal"}, "steal")
  /\ at' = [at EXCEPT ![w] = NextVictim(w, at[w])]
  /\ UNCHANGED <<queues, worked, localWork, workDone>>

\* Mutant: the worker starts over, as if its own queue could fill again.
StartOver(w) ==
  /\ at[w] \in Workers
  /\ queues[at[w]] = <<>>
  /\ Goto(w, {"steal"}, "own")
  /\ at' = [at EXCEPT ![w] = w]
  /\ UNCHANGED <<queues, worked, localWork, workDone>>

\* The queue it steals from is empty: go on to the next.
MoveOn(w) ==
  /\ at[w] \in Workers
  /\ queues[at[w]] = <<>>
  /\ Goto(w, {"steal"}, "steal")
  /\ at' = [at EXCEPT ![w] = NextVictim(w, at[w])]
  /\ UNCHANGED <<queues, worked, localWork, workDone>>

\* After the last queue: work_done += local_work, atomically.
Add(w) ==
  /\ at[w] \notin Workers
  /\ Goto(w, {"steal"}, "done")
  /\ workDone' = workDone + localWork[w]
  /\ UNCHANGED <<queues, at, worked, localWork>>
-----------------------------------------------------------------------------
Worker(w) == Do(w) \/ StartStealing(w) \/ MoveOn(w) \/ Add(w)

AllDone == \A w \in Workers : pc[w] = "done"

\* The program stops when main has joined the workers.
Finished == AllDone /\ UNCHANGED vars

Next == (\E w \in Workers : Worker(w)) \/ Finished

Spec == Init /\ [][Next]_vars

\* Every worker that can run does run.
FairSpec == Spec /\ \A w \in Workers : WF_vars(Worker(w))
-----------------------------------------------------------------------------
Queued == UNION {Range(queues[q]) : q \in Workers}
WorkedOn == UNION {worked[w] : w \in Workers}

\* Type invariant: items are those of the work, and no worker goes past the last queue.
TypeOK == /\ queues \in [Workers -> Seq(Work)]
          /\ pc \in [Workers -> {"own", "steal", "done"}]
          /\ at \in [Workers -> 1..(NumWorkers + 1)]
          /\ worked \in [Workers -> SUBSET Work]
          /\ localWork \in [Workers -> 0..TotalWork]
          /\ workDone \in 0..TotalWork

\* Every item is queued or has been done, by one worker.
EachOnce == /\ Queued \cup WorkedOn = Work
            /\ Queued \cap WorkedOn = {}
            /\ \A v, w \in Workers : v # w => worked[v] \cap worked[w] = {}

\* A worker that is done, or has left a queue behind it, has left no work: one
\* pass over the queues is enough, because none of them ever fills again.
NothingLeftBehind ==
  \A w \in Workers : pc[w] # "own" =>
    \A q \in Workers : q = w \/ q < at[w] => queues[q] = <<>>

\* The workers finish.
Terminates == <>AllDone
=============================================================================
