-------------------------- MODULE ProducerConsumer --------------------------
(***************************************************************************)
(* examples/12_concurrent_queue.cpp, example 3: producers push to one      *)
(* concurrent_queue while consumers drain it, and a consumer that finds    *)
(* the queue empty decides whether to stop from the producers' joinable(). *)
(*                                                                         *)
(* joinable() reads the thread id that main's join() clears when it        *)
(* returns, with no synchronization: a read may come before or after that  *)
(* store, and the model lets it.                                           *)
(***************************************************************************)
EXTENDS Naturals, SequencesExt

CONSTANTS NumProducers,  \* NUM_PRODUCERS
          NumItems,      \* ITEMS_PER_PRODUCER
          Consumers      \* the consumer threads

ASSUME CountAssumption == /\ NumProducers \in Nat
                          /\ NumItems \in Nat
                          /\ Consumers # {} /\ IsFiniteSet(Consumers)

VARIABLES queue,     \* the concurrent_queue
          produced,  \* per producer, how many items it has pushed
          joined,    \* how many producers main has joined
          pc,        \* where each consumer is
          scan,      \* per consumer, the producer its scan has come to
          taken,     \* history: the items each consumer has popped, in this order
          local,     \* local_count of each consumer
          consumed,  \* consumed_count
          reported   \* main has joined everybody and printed consumed

consumerVars == <<pc, scan, taken, local, consumed>>
vars == <<queue, produced, joined, consumerVars, reported>>

Producers == 1..NumProducers
Items == Producers \X (1..NumItems)

Init == /\ queue = <<>>
        /\ produced = [p \in Producers |-> 0]
        /\ joined = 0
        /\ pc = [c \in Consumers |-> "pop"]
        /\ scan = [c \in Consumers |-> 1]
        /\ taken = [c \in Consumers |-> <<>>]
        /\ local = [c \in Consumers |-> 0]
        /\ consumed = 0
        /\ reported = FALSE

\* main joins the producers in order, and join() clears the id at its end.
Joinable(p) == p > joined

Goto(c, from, to) == pc[c] = from /\ pc' = [pc EXCEPT ![c] = to]
-----------------------------------------------------------------------------
\* A producer's next queue.push.
Push(p) ==
  /\ produced[p] < NumItems
  /\ produced' = [produced EXCEPT ![p] = @ + 1]
  /\ queue' = Append(queue, <<p, produced[p] + 1>>)
  /\ UNCHANGED <<joined, consumerVars, reported>>

\* main's join of the next producer returns once that producer has finished.
JoinProducer ==
  /\ joined < NumProducers
  /\ produced[joined + 1] = NumItems
  /\ joined' = joined + 1
  /\ UNCHANGED <<queue, produced, consumerVars, reported>>

\* main has joined the consumers too, and prints the totals.
Report ==
  /\ ~reported
  /\ joined = NumProducers
  /\ \A c \in Consumers : pc[c] = "done"
  /\ reported' = TRUE
  /\ UNCHANGED <<queue, produced, joined, consumerVars>>
-----------------------------------------------------------------------------

\* Mutant: the item is read and left in the queue.
PopCopy(c) ==
  /\ queue # <<>>
  /\ Goto(c, "pop", "pop")
  /\ taken' = [taken EXCEPT ![c] = Append(@, Head(queue))]
  /\ local' = [local EXCEPT ![c] = @ + 1]
  /\ UNCHANGED <<queue, produced, joined, scan, consumed, reported>>

\* try_pop found an item, and local_count counts it.
PopItem(c) ==
  /\ queue # <<>>
  /\ Goto(c, "pop", "pop")
  /\ queue' = Tail(queue)
  /\ taken' = [taken EXCEPT ![c] = Append(@, Head(queue))]
  /\ local' = [local EXCEPT ![c] = @ + 1]
  /\ UNCHANGED <<produced, joined, scan, consumed, reported>>

\* try_pop found nothing: the scan of the producers starts.
PopNothing(c) ==
  /\ queue = <<>>
  /\ Goto(c, "pop", "scan")
  /\ scan' = [scan EXCEPT ![c] = 1]
  /\ UNCHANGED <<queue, produced, joined, taken, local, consumed, reported>>

\* A joinable producer: all_done is false, yield and try again.
ScanJoinable(c) ==
  /\ scan[c] \in Producers
  /\ Joinable(scan[c])
  /\ Goto(c, "scan", "pop")
  /\ UNCHANGED <<queue, produced, joined, scan, taken, local, consumed, reported>>

ScanJoined(c) ==
  /\ scan[c] \in Producers
  /\ ~Joinable(scan[c])
  /\ Goto(c, "scan", "scan")
  /\ scan' = [scan EXCEPT ![c] = @ + 1]
  /\ UNCHANGED <<queue, produced, joined, taken, local, consumed, reported>>

\* Mutant: the consumer stops on all_done alone.
StopOnAllDone(c) ==
  /\ scan[c] = NumProducers + 1
  /\ Goto(c, "scan", "count")
  /\ UNCHANGED <<queue, produced, joined, scan, taken, local, consumed, reported>>

\* all_done && queue.empty(): leave the loop.
Stop(c) ==
  /\ scan[c] = NumProducers + 1
  /\ queue = <<>>
  /\ Goto(c, "scan", "count")
  /\ UNCHANGED <<queue, produced, joined, scan, taken, local, consumed, reported>>

\* Mutant: the scan runs on past the last producer.
ScanPastEnd(c) ==
  /\ scan[c] = NumProducers + 1
  /\ queue # <<>>
  /\ Goto(c, "scan", "scan")
  /\ scan' = [scan EXCEPT ![c] = @ + 1]
  /\ UNCHANGED <<queue, produced, joined, taken, local, consumed, reported>>

\* Mutant: the consumer does not try again after items turned up.
GiveUp(c) ==
  /\ scan[c] = NumProducers + 1
  /\ queue # <<>>
  /\ Goto(c, "scan", "scan")
  /\ scan' = [scan EXCEPT ![c] = 1]
  /\ UNCHANGED <<queue, produced, joined, taken, local, consumed, reported>>

\* all_done, but the queue is not empty: yield and try again.
StopNot(c) ==
  /\ scan[c] = NumProducers + 1
  /\ queue # <<>>
  /\ Goto(c, "scan", "pop")
  /\ UNCHANGED <<queue, produced, joined, scan, taken, local, consumed, reported>>

\* consumed_count += local_count, atomically.
Count(c) ==
  /\ Goto(c, "count", "done")
  /\ consumed' = consumed + local[c]
  /\ UNCHANGED <<queue, produced, joined, scan, taken, local, reported>>
-----------------------------------------------------------------------------
Consumer(c) == \/ PopItem(c) \/ PopNothing(c) \/ ScanJoinable(c) \/ ScanJoined(c)
               \/ Stop(c) \/ StopNot(c) \/ Count(c)

Main == JoinProducer \/ Report

\* The program stops when main has reported.
Finished == reported /\ UNCHANGED vars

Next == \/ \E p \in Producers : Push(p)
        \/ \E c \in Consumers : Consumer(c)
        \/ Main
        \/ Finished

Spec == Init /\ [][Next]_vars

\* Every thread that can run does run.
Fairness == /\ \A p \in Producers : WF_vars(Push(p))
            /\ \A c \in Consumers : WF_vars(Consumer(c))
            /\ WF_vars(Main)

FairSpec == Spec /\ Fairness
-----------------------------------------------------------------------------
Made == {x \in Items : x[2] <= produced[x[1]]}
Queued == ToSet(queue)
Taken(c) == ToSet(taken[c])
Delivered == UNION {Taken(c) : c \in Consumers}

\* Type invariant.
TypeOK ==
  /\ queue \in Seq(Items)
  /\ produced \in [Producers -> 0..NumItems]
  /\ joined \in 0..NumProducers
  /\ pc \in [Consumers -> {"pop", "scan", "count", "done"}]
  /\ scan \in [Consumers -> 1..(NumProducers + 1)]
  /\ taken \in [Consumers -> Seq(Items)]
  /\ local \in [Consumers -> Nat]
  /\ consumed \in Nat
  /\ reported \in BOOLEAN

\* A consumer leaves its loop only when every item has been pushed and popped,
\* although it reads the queue and each thread at a different time.
StopsWhenDrained ==
  \A c \in Consumers : pc[c] \in {"count", "done"} => Delivered = Items

\* Every item reaches one consumer, and only once, and the total that main
\* prints, added up from the counts of the consumers, is the number of items made
\* ("Match").
Abstract == INSTANCE Delivery WITH
  Total <- NumProducers * NumItems,
  made <- Made, received <- taken, printed <- IF reported THEN <<consumed>> ELSE <<>>

DeliversOnce == Abstract!Spec

\* The consumers notice that the producers are done: the program ends.
Terminates == <>reported
=============================================================================
