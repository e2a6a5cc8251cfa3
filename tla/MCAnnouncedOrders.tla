-------------------------- MODULE MCAnnouncedOrders --------------------------
(* Example 3 of 16_concurrent_priority_queue.cpp and example 4 of            *)
(* 32_parallel_deterministic.cpp, called one after the other: each announces *)
(* the order in which its numbers come.                                      *)
EXTENDS SharedMemory, TLC

CONSTANT N  \* the iterations of a loop

Queues == INSTANCE QueueExamples
Looping == INSTANCE LoopExamples

Heap == Queues!custom_comparator
Insertion == Looping!ordered

\* The heap is main's alone; the loop's tasks are those of the example.
MCCode == [p \in {"announced_orders"} |-> [Insertion.code EXCEPT ![Main] = Heap.code[Main] \o @]]
MCMemory == [p \in {"announced_orders"} |-> Heap.memory @@ Insertion.memory]
MCOutcomes == [p \in {"announced_orders"} |-> Heap.outcomes \cup Insertion.outcomes]

\* At least one of the two orders is kept: the "Min heap (smallest first)" of
\* 16_concurrent_priority_queue.cpp:70 gives the smallest first, or the "Ordered
\* insertion" of 32_parallel_deterministic.cpp:184 leaves the results in order.
\* A single execution in which it fails shows that neither is.
OneOrderKept ==
  Done(Main) => \E o \in Heap.outcomes \cup Insertion.outcomes : \A v \in DOMAIN o : mem[v] = o[v]
=============================================================================
