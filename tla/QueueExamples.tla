--------------------------- MODULE QueueExamples ---------------------------
(***************************************************************************)
(* The programs about queues and pipelines: examples 1, 2, 4 and 5 of      *)
(* 12_concurrent_queue.cpp (the others have modules of their own),         *)
(* 15_concurrent_bounded_queue.cpp, 16_concurrent_priority_queue.cpp and   *)
(* 06_parallel_pipeline.cpp.                                               *)
(***************************************************************************)
EXTENDS Examples

queue == V("queue")
push(x) == <<Update(queue, "push", x)>>
try_pop == <<Update(queue, "pop", 0)>>

\* Item i popped is put into out[i]; the last pop fails.
Drain(pop, n) == Repeat(n, LAMBDA i : pop \o <<StoreRead(El("out", i))>>) \o pop
NoOut(n) == [v \in {El("out", i) : i \in 1..n} |-> Absent]
Out(s) == [v \in {El("out", i) : i \in DOMAIN s} |-> s[v[2]]]
-----------------------------------------------------------------------------
(* 12_concurrent_queue.cpp *)

queue_basic ==
  Program(queue :> <<>> @@ NoOut(3), Ends(Out(<<1, 2, 3>>) @@ queue :> <<>>),
          push(1) \o push(2) \o push(3) \o Drain(try_pop, 3), <<>>)

\* Mutant: the producers are not joined before the queue is drained.
producers_not_joined ==
  Program(queue :> <<>> @@ NoOut(4), {Out(s) : s \in Merges},
          <<Spawn({1, 2})>> \o Drain(try_pop, 4) \o <<Join({1, 2})>>,
          [p \in 1..2 |-> push(10 * p + 1) \o push(10 * p + 2)])

multiple_producers ==
  Program(queue :> <<>> @@ NoOut(4), {Out(s) : s \in Merges},
          Joined({1, 2}) \o Drain(try_pop, 4),
          [p \in 1..2 |-> push(10 * p + 1) \o push(10 * p + 2)])

\* Two workers stop at the first empty queue, which nobody fills any more.
task_queue ==
  Program(queue :> <<>> @@ Zero("completed"), Ends(queue :> <<>> @@ V("completed") :> N),
          Repeat(N, LAMBDA i : push(i)) \o Joined({1, 2}),
          [w \in 1..2 |-> While(N + 1, try_pop, 1..N, <<FetchAdd(V("completed"), 1)>>)])

\* One producer and one consumer of the two of each; trying until an item comes
\* is a pop that waits for one.
queue_performance ==
  Program(queue :> <<>> @@ NoOut(2), Ends(Out(<<1, 2>>) @@ queue :> <<>>), Joined({1, 2}),
          <<push(1) \o push(2),
            Repeat(2, LAMBDA i : <<Update(queue, "take", 0), StoreRead(El("out", i))>>)>>)
-----------------------------------------------------------------------------
(* 15_concurrent_bounded_queue.cpp *)

Capacity == 2
bounded_push(x) == <<Update(queue, "offer", <<x, Capacity>>)>>

\* As many pushes as there is room for.
bounded_basic ==
  Program(queue :> <<>> @@ NoOut(2), Ends(Out(<<1, 2>>) @@ queue :> <<>>),
          bounded_push(1) \o bounded_push(2) \o Drain(try_pop, 2), <<>>)

\* Twice as many items as there is room for.
blocking ==
  Program(queue :> <<>> @@ NoOut(4), Ends(Out(<<1, 2, 3, 4>>) @@ queue :> <<>>), Joined({1, 2}),
          <<Repeat(4, LAMBDA i : bounded_push(i)),
            Repeat(4, LAMBDA i : <<Update(queue, "take", 0), StoreRead(El("out", i))>>)>>)
-----------------------------------------------------------------------------
(* 16_concurrent_priority_queue.cpp *)

pq_try_pop == <<Update(queue, "popmost", 0)>>

priority_basic ==
  Program(queue :> <<>> @@ NoOut(5), Ends(Out(<<10, 7, 5, 3, 1>>) @@ queue :> <<>>),
          push(5) \o push(1) \o push(10) \o push(3) \o push(7) \o Drain(pq_try_pop, 5), <<>>)

priority_concurrent ==
  Program(queue :> <<>> @@ NoOut(N), Ends(Out([i \in 1..N |-> N + 1 - i])),
          For(1..N) \o Drain(pq_try_pop, N), [i \in 1..N |-> push(i)])

\* "Min at top", "Min heap (smallest first)".  But less<int> is the default order,
\* in which the largest comes first.
custom_comparator ==
  Program(queue :> <<>> @@ NoOut(3), Ends(Out(<<1, 5, 10>>)),
          push(5) \o push(1) \o push(10) \o Drain(pq_try_pop, 3), <<>>)

\* Tasks are their priorities.
task_scheduling ==
  Program(queue :> <<>> @@ NoOut(4), Ends(Out(<<15, 10, 5, 3>>)),
          push(10) \o push(5) \o push(15) \o push(3) \o Drain(pq_try_pop, 4), <<>>)
-----------------------------------------------------------------------------
(* 06_parallel_pipeline.cpp.  One task for each item i and filter f, and   *)
(* one for the last call of the input filter, which stops the pipeline.    *)
(* A task is started by the last of those it must come after: the filter   *)
(* before; in a serial filter the item before; at the input the end of an  *)
(* item that went in max_tokens before.                                    *)

Pipeline(n, filters, max_tokens, serial, Filter(_, _)) ==
  LET id(i, f) == (i - 1) * filters + f
      stages == (1..n) \X (1..filters) \cup {<<n + 1, 1>>}
      after(s) == {<<s[1], s[2] - 1>>}
                  \cup (IF s[2] \in serial THEN {<<s[1] - 1, s[2]>>} ELSE {})
                  \cup (IF s[2] = 1 THEN {<<s[1] - max_tokens, filters>>} ELSE {})
      first(s) == after(s) \cap stages
      next(s) == SetToSeq({u \in stages : s \in first(u)})
      arrive(u) == <<FetchAdd(El("waiting", id(u[1], u[2])), -1)>>
                   \o If({1}, <<Start({id(u[1], u[2])}, All)>>)
      body(s) == Filter(s[1], s[2])
                 \o Repeat(Len(next(s)), LAMBDA k : arrive(next(s)[k]))
      ids == {id(s[1], s[2]) : s \in stages} IN
  [waiting |-> [v \in {El("waiting", j) : j \in ids} |->
                  Cardinality(first(CHOOSE s \in stages : id(s[1], s[2]) = v[2]))],
   main |-> <<Start({1}, All), Wait(ids)>>,
   tasks |-> [j \in ids |-> body(CHOOSE s \in stages : id(s[1], s[2]) = j)]]

PipelineProgram(memory, outcomes, p) ==
  Program(memory @@ p.waiting, outcomes, p.main, p.tasks)

\* Filters 1 and 3 of example 1.
SerialInOrder == {1, 3}

\* The input filter numbers the items from 0, the second squares them, the last
\* prints those below 10.
Limit == 3
pipeline_basic ==
  LET item(i) == El("item", i)
      filter(i, f) ==
        CASE f = 1 -> <<Load(V("processed_count"))>>
                      \o If(0 .. Limit - 1,
                            <<StoreRead(item(i)), StoreOf(V("processed_count"), "plus", 1)>>)
          [] f = 2 -> <<Load(item(i)), StoreOf(item(i), "square", 0)>>
          [] f = 3 -> <<Load(item(i))>> \o If(0..9, PushBack(V("cout"), i)) IN
  PipelineProgram(Zero("processed_count") @@ V("cout") :> <<>>
                  @@ [v \in {item(i) : i \in 1 .. Limit + 1} |-> 0],
                  Ends(V("processed_count") :> Limit @@ V("cout") :> <<1, 2, 3>>
                       @@ item(1) :> 0 @@ item(2) :> 1 @@ item(3) :> 4),
                  Pipeline(Limit, 3, 2, SerialInOrder, filter))

\* An image goes through two parallel filters and is deleted by the last one.
image_processing ==
  LET img(i) == El("img", i)
      filter(i, f) ==
        CASE f = 1 -> <<Load(V("generated"))>>
                      \o If(0..1, <<StoreOf(V("generated"), "plus", 1), Store(img(i), 1)>>)
          [] f \in {2, 3} -> <<Load(img(i)), StoreOf(img(i), "plus", 1)>>
          [] f = 4 -> <<Load(img(i)), StoreRead(El("saved", i)), Store(img(i), Absent)>> IN
  PipelineProgram(Zero("generated") @@ [v \in {img(i) : i \in 1..3} |-> Absent]
                  @@ [v \in {El("saved", i) : i \in 1..2} |-> 0],
                  Ends(V("generated") :> 2 @@ img(1) :> Absent @@ img(2) :> Absent
                       @@ El("saved", 1) :> 3 @@ El("saved", 2) :> 3),
                  Pipeline(2, 4, 2, {1, 4}, filter))
-----------------------------------------------------------------------------
\* The one whose numbers come in another order than it says.
MisdescribedQueues == {"custom_comparator"}

QueuePrograms ==
  [queue_basic |-> queue_basic, multiple_producers |-> multiple_producers,
   task_queue |-> task_queue, queue_performance |-> queue_performance,
   bounded_basic |-> bounded_basic, blocking |-> blocking,
   priority_basic |-> priority_basic, priority_concurrent |-> priority_concurrent,
   custom_comparator |-> custom_comparator, task_scheduling |-> task_scheduling,
   pipeline_basic |-> pipeline_basic, image_processing |-> image_processing]
=============================================================================
