---------------------------- MODULE LoopExamples ----------------------------
(***************************************************************************)
(* The programs whose point is a loop: 01_parallel_for.cpp,                *)
(* 30_partitioners.cpp, 31_blocked_range.cpp, 32_parallel_deterministic.cpp,*)
(* 35_performance_tuning.cpp, 22_scalable_allocator.cpp and                *)
(* 23_cache_aligned_allocator.cpp.  Their parallel_reduces are in          *)
(* PrefixScan.  A partitioner or a grain size decides which iterations make*)
(* up a task; here every one is a task of its own.  What a body computes   *)
(* from its index and from data that nobody changes is written as its value*)
(***************************************************************************)
EXTENDS Examples

Square(i) == i * i
Double(i) == i * 2
Index(i) == i
Nought(i) == 0
SumOver(X(_)) == FoldFunction(LAMBDA a, b : a + b, 0, [i \in 1..N |-> X(i)])
-----------------------------------------------------------------------------
(* 01_parallel_for.cpp *)

\* Once sequentially and once, after a reset, in parallel.
for_basic ==
  Program(Elements("data", 0), Ends(ElementsOf("data", Square)),
          Fill("data", Square) \o Fill("data", Nought) \o For(1..N),
          [i \in 1..N |-> <<Store(El("data", i), i * i)>>])

for_grain_size == Assign("data", Index, <<All, All>>)

\* A pixel of the result is the mean of the pixels around it.
for_2d ==
  LET image(i, j) == i + j
      around(i, j) == {p \in (i - 1 .. i + 1) \X (j - 1 .. j + 1) : p[1] \in 0..1 /\ p[2] \in 0..1}
      total(S) == FoldSet(LAMBDA p, s : image(p[1], p[2]) + s, 0, S)
      mean(i, j) == total(around(i, j)) \div Cardinality(around(i, j)) IN
  Grid("result", mean)

ApplyTransform(data, i) == <<Load(El(data, i)), StoreOf(El(data, i), "plus", 1)>>

function_object ==
  Loop(Elements("data", 0), Ends(Elements("data", 1)), [i \in 1..N |-> ApplyTransform("data", i)])

simple_syntax == Assign("data", LAMBDA i : i * i * i, <<All>>)

\* Every iteration changes the element several times, which is filled again
\* before the next loop.
expensive_computation(value, iterations) ==
  Repeat(iterations, LAMBDA k : <<Load(value), StoreOf(value, "plus", 1)>>)
for_partitioners ==
  Program(Elements("data", 0), Ends(Elements("data", 3)),
          Repeat(3, LAMBDA k : Fill("data", LAMBDA i : 1) \o For(Phase(k))),
          [j \in 1 .. 3 * N |-> expensive_computation(El("data", 1 + ((j - 1) % N)), 2)])

\* The seed of a range gives hits; here odd indices hit.
monte_carlo ==
  Program(Elements("hits", 0) @@ Zero("total_hits"), Ends(V("total_hits") :> (N + 1) \div 2),
          For(1..N) \o SumOf("hits", "total_hits"), [i \in 1..N |-> <<Store(El("hits", i), i % 2)>>])
-----------------------------------------------------------------------------
(* 30_partitioners.cpp *)

\* Every task adds its local sum under the spin_mutex.
auto_partitioner ==
  Loop(Zero("sum"), Counted("sum"), Each(Locked(V("mtx"), Add(V("sum"), 1))))

simple_partitioner == Assign("data", Double, <<All>>)

\* The same loop twice, and a checksum after each.
static_partitioner ==
  Program(Elements("data", 0) @@ Zero("checksum1") @@ Zero("checksum2"),
          Ends(V("checksum1") :> SumOver(Index) @@ V("checksum2") :> SumOver(Index)),
          For(Phase(1)) \o SumOf("data", "checksum1") \o For(Phase(2)) \o SumOf("data", "checksum2"),
          [j \in 1 .. 2 * N |-> LET i == 1 + ((j - 1) % N) IN <<Store(El("data", i), i)>>])

affinity_partitioner == OverData(0, 3, <<All, All, All>>, "plus", 1)
comparison == Assign("data", Double, <<All, All, All>>)

\* results[i] takes a number of steps that depends on i.
nonuniform ==
  LET nonuniform_work(i) == Repeat(i % 3, LAMBDA j : Add(El("sum", i), 1))
                            \o <<Load(El("sum", i)), StoreRead(El("results", i))>> IN
  Loop(Elements("sum", 0) @@ Elements("results", 0), Ends(ElementsOf("results", LAMBDA i : i % 3)),
       [i \in 1..N |-> nonuniform_work(i)])

partitioner_grain_size == Assign("data", Square, <<All, All, All, All>>)
-----------------------------------------------------------------------------
(* 31_blocked_range.cpp *)

range_grain_size == OverData(1, 32, <<All, All, All, All, All>>, "times", 2)
range_2d == Grid("matrix", LAMBDA i, j : i * j)

\* One column of a cube.
range_3d == Grid("cube", LAMBDA p, i : p + i + 0)

\* Two by two matrices of ones and of twos.
matrix_multiply == Grid("C", LAMBDA i, j : 1 * 2 + 1 * 2)
-----------------------------------------------------------------------------
(* 32_parallel_deterministic.cpp *)

\* One of the runs over a plain checksum.
determinism == Loop(Zero("checksum"), Ends(V("checksum") :> SumOver(Index)),
                    [i \in 1..N |-> Add(V("checksum"), i)])

deterministic_thread_local ==
  Program(Slots("thread_sums", 0) @@ Zero("total"), Ends(V("total") :> SumOver(Index)),
          For(1..N) \o Total("thread_sums", "total"), [i \in 1..N |-> Add(Own("thread_sums"), i)])

\* "Ordered insertion".  But the tasks append their local results as they come.
ordered ==
  Loop(V("results") :> <<>>, Ends(V("results") :> [i \in 1..N |-> i * i]),
       [i \in 1..N |-> Locked(V("mtx"), PushBack(V("results"), i * i))])

\* Three runs, each with results of its own.
reproducible ==
  Program(Elements("results", 0) @@ [v \in {El("checksum", k) : k \in 1..3} |-> 0] @@ Zero("checksum"),
          Ends([v \in {El("checksum", k) : k \in 1..3} |-> SumOver(Square)]),
          Repeat(3, LAMBDA k : Fill("results", Nought) \o For(Phase(k))
                               \o SumOf("results", "checksum") \o <<StoreRead(El("checksum", k))>>),
          [j \in 1 .. 3 * N |-> LET i == 1 + ((j - 1) % N) IN <<Store(El("results", i), i * i)>>])

\* A single index has the result that is reported.
debugging ==
  Program(ElementsOf("data", Index) @@ V("error_index") :> -1, Ends(V("error_index") :> 2),
          For(1..N) \o <<Load(V("error_index"))>>,
          [i \in 1..N |-> <<Load(El("data", i))>> \o If({2}, <<Store(V("error_index"), i)>>)])
-----------------------------------------------------------------------------
(* 35_performance_tuning.cpp *)

tuning_grain_size == OverData(0, 4, <<All, All, All, All>>, "plus", 1)
tuning_partitioners == Assign("data", Double, <<All, All, All>>)

\* Index tid of the loop increments the counter tid.
counting(counters) == [tid \in 1..N |-> Repeat(2, LAMBDA i : <<FetchAdd(El(counters, tid), 1)>>)]
TwoCounters ==
  TwoLoops(Elements("unaligned", 0) @@ Elements("aligned", 0),
           Ends(Elements("unaligned", 2) @@ Elements("aligned", 2)),
           counting("unaligned"), counting("aligned"))
tuning_false_sharing == TwoCounters

tuning_allocators == TwoLoops(Zero("work"), AllRan(2 * N), Each(Work), Each(Work))

\* Local sums are added under a mutex, and then in thread_sums.
tuning_thread_local ==
  Program(Zero("sum") @@ Slots("thread_sums", 0) @@ Zero("total"),
          Ends(V("sum") :> SumOver(Index) @@ V("total") :> SumOver(Index)),
          For(Phase(1)) \o For(Phase(2)) \o Total("thread_sums", "total"),
          [i \in 1..N |-> Locked(V("mtx"), Add(V("sum"), i))]
          \o [i \in 1..N |-> Add(Own("thread_sums"), i)])

algorithms == Loop(Zero("sum"), Ends(V("sum") :> SumOver(Index)), [i \in 1..N |-> <<FetchAdd(V("sum"), i)>>])
thread_count == OverData(0, 3, <<1, 2, All>>, "plus", 1)
-----------------------------------------------------------------------------
(* 22_scalable_allocator.cpp *)

allocator_performance == TwoLoops(Zero("work"), AllRan(2 * N), Each(Work), Each(Work))

\* Each index fills a vector of its own with two elements.
parallel_operations ==
  Program(Elements("outer", <<>>) @@ Zero("total"), Ends(V("total") :> 2 * N),
          For(1..N) \o [i \in 1..N |-> IF i = 1 THEN LoadSize(El("outer", 1)) ELSE LoadSizes(El("outer", i))]
          \o <<StoreRead(V("total"))>>,
          [i \in 1..N |-> PushBack(El("outer", i), 0) \o PushBack(El("outer", i), 1)])

\* Every chunk allocated is given back.
allocation_patterns ==
  Loop(Zero("chunks"), Ends(Zero("chunks")), Each(<<FetchAdd(V("chunks"), 1), FetchAdd(V("chunks"), -1)>>))

scalability == Loops(Zero("work"), AllRan(4 * N), <<All, All, All, All>>, [k \in 1..4 |-> Each(Work)])
-----------------------------------------------------------------------------
(* 23_cache_aligned_allocator.cpp *)

false_sharing == TwoCounters

per_thread_data ==
  LET body(counter, sum) == [tid \in 1..N |-> Add(El(counter, tid), 1) \o Add(El(sum, tid), tid)]
      all(Count(_), Sum(_)) == ElementsOf("counter", Count) @@ ElementsOf("sum", Sum)
                               @@ ElementsOf("aligned counter", Count) @@ ElementsOf("aligned sum", Sum) IN
  TwoLoops(all(Nought, Nought), Ends(all(LAMBDA i : 1, Index)),
           body("counter", "sum"), body("aligned counter", "aligned sum"))

\* More threads than accumulators.
accumulator_array ==
  LET acc(t) == El("accumulators", t) IN
  Program(acc(0) :> 0 @@ acc(1) :> 0 @@ Zero("total"), Ends(V("total") :> SumOver(Index)),
          For(1..N) \o <<Load(acc(0)), LoadSum(acc(1)), StoreRead(V("total"))>>,
          [i \in 1..N |-> <<FetchAdd(El("accumulators", Wrapped), i)>>])

matrix_rows == Assign("row_sums", LAMBDA row : 2, <<All>>)
benchmark == TwoCounters
aligned_containers == Loop(Elements("counters", 0), Ends(Elements("counters", 2)), counting("counters"))
-----------------------------------------------------------------------------
\* The one with a data race.
RacyLoops == {"determinism"}

\* The one whose results come in another order than it says.
MisdescribedLoops == {"ordered"}

LoopPrograms ==
  [for_basic |-> for_basic, for_grain_size |-> for_grain_size, for_2d |-> for_2d,
   function_object |-> function_object, simple_syntax |-> simple_syntax,
   for_partitioners |-> for_partitioners, monte_carlo |-> monte_carlo,
   auto_partitioner |-> auto_partitioner, simple_partitioner |-> simple_partitioner,
   static_partitioner |-> static_partitioner, affinity_partitioner |-> affinity_partitioner,
   comparison |-> comparison, nonuniform |-> nonuniform,
   partitioner_grain_size |-> partitioner_grain_size, range_grain_size |-> range_grain_size,
   range_2d |-> range_2d, range_3d |-> range_3d, matrix_multiply |-> matrix_multiply,
   determinism |-> determinism, deterministic_thread_local |-> deterministic_thread_local,
   ordered |-> ordered, reproducible |-> reproducible, debugging |-> debugging,
   tuning_grain_size |-> tuning_grain_size, tuning_partitioners |-> tuning_partitioners,
   tuning_false_sharing |-> tuning_false_sharing, tuning_allocators |-> tuning_allocators,
   tuning_thread_local |-> tuning_thread_local, algorithms |-> algorithms,
   thread_count |-> thread_count, allocator_performance |-> allocator_performance,
   parallel_operations |-> parallel_operations, allocation_patterns |-> allocation_patterns,
   scalability |-> scalability, false_sharing |-> false_sharing,
   per_thread_data |-> per_thread_data, accumulator_array |-> accumulator_array,
   matrix_rows |-> matrix_rows, benchmark |-> benchmark, aligned_containers |-> aligned_containers]
=============================================================================
