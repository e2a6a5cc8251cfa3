---------------------------- MODULE TaskExamples ----------------------------
(***************************************************************************)
(* The programs about tasks and the scheduler: 05_parallel_invoke.cpp,     *)
(* 07_task_group.cpp, 08_task_arena.cpp, 09_task_scheduler.cpp,            *)
(* 33_global_control.cpp and 34_task_scheduler_observer.cpp.  Numbers of   *)
(* threads are scaled down to those of the model: 4 and more are All.      *)
(***************************************************************************)
EXTENDS Examples

-----------------------------------------------------------------------------
(* 05_parallel_invoke.cpp *)

invoke_basic == Program(Zero("work"), AllRan(3), For(1..3), <<Work, Work, Work>>)

\* The first sum runs over 0 .. 2, the product over 1 .. 2, the last over the
\* squares of 0 .. 2.
invoke_lambdas ==
  Program(Zero("result1") @@ Zero("result2") @@ Zero("result3"),
          Ends(V("result1") :> 3 @@ V("result2") :> 2 @@ V("result3") :> 5), For(1..3),
          <<<<Store(V("result1"), 0)>> \o Repeat(3, LAMBDA i : Add(V("result1"), i - 1)),
            <<Store(V("result2"), 1)>>
            \o Repeat(2, LAMBDA i : <<Load(V("result2")), StoreOf(V("result2"), "times", i)>>),
            <<Store(V("result3"), 0)>> \o Repeat(3, LAMBDA i : Add(V("result3"), (i - 1) * (i - 1)))>>)

\* The loops of parallel_quicksort over data[left .. right]: i and j run towards
\* each other and swap what each finds on the wrong side of the pivot.
partition(data, left, right) ==
  LET pivot == data[(left + right) \div 2]
      Index == 0 .. Len(data) + 1
      loop[s \in [i : Index, j : Index, data : [DOMAIN data -> Range(data)]]] ==
        LET i == Min({k \in s.i .. Len(data) : s.data[k] >= pivot})
            j == Max({k \in 1 .. s.j : s.data[k] <= pivot})
            swapped == [s.data EXCEPT ![i] = s.data[j], ![j] = s.data[i]] IN
        IF s.i > s.j THEN s
        ELSE loop[IF i <= j THEN [i |-> i + 1, j |-> j - 1, data |-> swapped]
                  ELSE [s EXCEPT !.i = i, !.j = j]]
  IN  loop[[i |-> left, j |-> right, data |-> data]]

\* A call over data[left .. right]: its steps, the tasks it starts, and data as
\* it leaves it.  The parallel threshold is scaled to 1.
parallel_quicksort(input) ==
  LET id(left, right) == 10 * left + right
      call[left \in 1 .. Len(input) + 1, right \in DOMAIN input \cup {0},
           data \in [DOMAIN input -> Range(input)]] ==
        LET at == [k \in 1 .. right - left + 1 |-> left + k - 1]
            p == partition(data, left, right)
            lower == call[left, p.j, p.data]
            upper == call[p.i, right, lower.data]
            bounds == <<Load(V("bounds"))>>
            own == bounds \o [k \in DOMAIN at |-> Load(El("data", at[k]))]
                   \o [k \in DOMAIN at |-> Store(El("data", at[k]), p.data[at[k]])]
            parts == (id(left, p.j) :> lower.steps) @@ (id(p.i, right) :> upper.steps) IN
        CASE left >= right -> [steps |-> bounds, tasks |-> <<>>, data |-> data]
          [] right - left > 1 -> [steps |-> own \o For(DOMAIN parts),
                                  tasks |-> parts @@ lower.tasks @@ upper.tasks, data |-> upper.data]
          [] OTHER -> [steps |-> own \o lower.steps \o upper.steps,
                       tasks |-> <<>>, data |-> upper.data]
  IN  call[1, Len(input), input]

quicksort ==
  LET input == <<2, 3, 1, 2, 1>>
      elements(s) == [v \in {El("data", i) : i \in DOMAIN s} |-> s[v[2]]] IN
  Program(elements(input) @@ Zero("bounds"), Ends(elements(SortSeq(input, <))),
          parallel_quicksort(input).steps, parallel_quicksort(input).tasks)

invoke_pipeline ==
  Program(ElementsOf("raw_data", LAMBDA i : i) @@ Elements("processed_data", 0)
          @@ Elements("aggregated_data", 0),
          Ends(ElementsOf("processed_data", LAMBDA i : 2 * i + 1) @@ Elements("aggregated_data", 3)),
          For({1, 2}),
          <<Repeat(N, LAMBDA i : <<Load(El("raw_data", i)),
                                   Store(El("processed_data", i), 2 * i + 1)>>),
            Repeat(N, LAMBDA i : <<Store(El("aggregated_data", i), 3)>>)>>)

\* Tasks 1 and 2 invoke two tasks each.
invoke_nested ==
  Program([v \in {El("results", i) : i \in 0..3} |-> 0],
          Ends([v \in {El("results", i) : i \in 0..3} |-> v[2] + 1]), For({1, 2}),
          <<For({3, 4}), For({5, 6})>>
          \o [i \in 1..4 |-> <<Store(El("results", i - 1), i)>>])
-----------------------------------------------------------------------------
(* 07_task_group.cpp *)

run(j) == <<Start({j}, 1)>>

group_basic ==
  Program(Zero("result1") @@ Zero("result2") @@ Zero("result3"),
          Ends(V("result1") :> 1 @@ V("result2") :> 2 @@ V("result3") :> 3),
          run(1) \o run(2) \o run(3)
          \o <<Wait({1, 2, 3}), Load(V("result1")), Load(V("result2")), Load(V("result3"))>>,
          <<<<Store(V("result1"), 1)>>, <<Store(V("result2"), 2)>>, <<Store(V("result3"), 3)>>>>)

fib_sequential[n \in 0..4] == IF n < 2 THEN n ELSE fib_sequential[n - 1] + fib_sequential[n - 2]

\* A call of fib_parallel(n) whose x is the element k of x, whose task is j,
\* which computes y itself with the given steps, and returns into result.
fib_parallel(k, j, inline, result) ==
  run(j) \o inline
  \o <<Wait({j}), Load(El("x", k)), LoadSum(El("y", k)), StoreRead(result)>>

\* fib_parallel(4), sequential below 2: the calls are 1 (of 4), 2 (of 3), 3 and
\* 4 (of 2), and the task j computes the x of call j.
fibonacci ==
  LET leaf(n, v) == <<Store(v, fib_sequential[n])>>
      y(k) == El("y", k)
      x(k) == El("x", k) IN
  Program([v \in {x(k) : k \in 1..4} \cup {y(k) : k \in 1..4} |-> 0] @@ Zero("result_par"),
          Ends(V("result_par") :> fib_sequential[4]),
          fib_parallel(1, 1, fib_parallel(3, 3, leaf(0, y(3)), y(1)), V("result_par")),
          <<fib_parallel(2, 2, leaf(1, y(2)), x(1)),
            fib_parallel(4, 4, leaf(0, y(4)), x(2)), leaf(1, x(3)), leaf(1, x(4))>>)

dynamic_tasks ==
  Program(ElementsOf("data", LAMBDA i : i) @@ Elements("results", 0),
          Ends(ElementsOf("results", LAMBDA i : i * i)),
          Repeat(N, LAMBDA i : run(i)) \o <<Wait(1..N)>>,
          [i \in 1..N |-> <<Load(El("data", i)), Store(El("results", i), i * i)>>])
-----------------------------------------------------------------------------
(* 08_task_arena.cpp *)

arena_basic == Loops(Zero("counter"), Counted("counter"), <<All>>, <<Each(<<FetchAdd(V("counter"), 1)>>)>>)

\* Threads 1 and 2 each execute a loop in an arena of their own.
TwoArenas(width1, width2) ==
  Program(Zero("work"), AllRan(4), Joined({1, 2}),
          <<Parallel({3, 4}, width1), Parallel({5, 6}, width2), Work, Work, Work, Work>>)
isolation == TwoArenas(2, All)
resource_control == TwoArenas(2, 1)
server_pattern == TwoArenas(All, 2)

\* Two iterations of the outer loop, each with a loop of two in one inner arena.
nested_arenas ==
  LET inner(tasks) == <<StartIn(tasks, 3..6, 2), Wait(tasks)>> IN
  Program(Zero("work"), AllRan(4), For({1, 2}),
          <<inner({3, 4}), inner({5, 6}), Work, Work, Work, Work>>)

\* The same loop over a plain sum in an arena of one thread, and in a larger one.
SumIn(width) == Loops(Zero("sum"), Counted("sum"), <<width>>, <<Each(Add(V("sum"), 1))>>)
sequential_mode == SumIn(1)
parallel_mode == SumIn(All)

\* The work enqueued is not waited for.
enqueue ==
  Program(Zero("work"), AllRan(N), Repeat(N, LAMBDA i : <<Start({i}, All)>>), Each(Work))
-----------------------------------------------------------------------------
(* 09_task_scheduler.cpp *)

\* Each scope has a sum of its own.
thread_control ==
  LET body(name) == [i \in 1..N |-> <<FetchAdd(V(name), i)>>]
      sum == (N * (N + 1)) \div 2 IN
  Loops(Zero("sum 1") @@ Zero("sum 2"), Ends(V("sum 1") :> sum @@ V("sum 2") :> sum),
        <<All, All>>, <<body("sum 1"), body("sum 2")>>)

\* One round: the tasks add their local sums to a plain sum.
scheduler_performance(threads) ==
  Loops(Zero("sum"), Ends(V("sum") :> (N * (N + 1)) \div 2), <<threads>>,
        <<[i \in 1..N |-> Add(V("sum"), i)]>>)

automatic == WorkLoop(All)

\* Two loops, one after the other, in the first and the second scope.
TwoScopes(width1, width2) ==
  Loops(Zero("work"), AllRan(2 * N), <<width1, width2>>, <<Each(Work), Each(Work)>>)
nested_init == TwoScopes(2, All)
terminate == TwoScopes(All, 2)
control == WorkLoop(All)

testing ==
  Loops(Elements("data", 0), Ends(ElementsOf("data", LAMBDA i : i * i)), <<1>>,
        <<[i \in 1..N |-> <<Store(El("data", i), i * i)>>]>>)
-----------------------------------------------------------------------------
(* 33_global_control.cpp *)

gc_basic == OverData(1, 8, <<1, 2, All>>, "times", 2)
gc_scoping == OverData(1, 9, <<All, 2>>, "times", 3)
gc_nested == OverData(1, 4, <<All, 2, All>>, "plus", 1)
gc_dynamic == OverData(0, 4, <<1, 1, 2, All>>, "plus", 1)

heavy_computation == [i \in 1..N |-> Repeat(2, LAMBDA j : Add(El("heavy_data", i), 1))]
light_computation ==
  [i \in 1..N |-> <<Load(El("light_data", i)), StoreOf(El("light_data", i), "times", 2)>>]
gc_mixed_workload ==
  Loops(Elements("heavy_data", 0) @@ Elements("light_data", 1),
        Ends(Elements("heavy_data", 2) @@ Elements("light_data", 2)), <<All, All>>,
        <<heavy_computation, light_computation>>)

gc_constrained ==
  Loops(Elements("data", 0), Ends(ElementsOf("data", LAMBDA i : i)), <<2>>,
        <<[i \in 1..N |-> <<Store(El("data", i), i)>>]>>)
-----------------------------------------------------------------------------
(* 34_task_scheduler_observer.cpp.  Main and the workers, tasks 1 and 2,   *)
(* take the iterations of a loop until there are no more.  A worker calls  *)
(* on_scheduler_entry before and on_scheduler_exit after, at any time;     *)
(* main has long entered, and goes on when the iterations are done.        *)

\* An iteration is taken; taken ones are run.
Share == Repeat(2, LAMBDA i : <<FetchAdd(V("next"), 1)>> \o If(0..1, Work))

Observed(memory, outcomes, on_entry, on_exit, print_stats) ==
  Program(memory @@ Zero("next") @@ Zero("work"), outcomes,
          <<Start({1, 2}, All)>> \o on_entry \o Share \o <<Spin(V("work"), 2)>> \o print_stats,
          [w \in 1..2 |-> on_entry \o Share \o on_exit])

LoadSlots(name) == LET threads == SetToSeq(Threads) IN [k \in DOMAIN threads |-> Load(El(name, threads[k]))]

simple_observer ==
  Observed(Zero("entry_count") @@ Zero("exit_count"),
           Ends(V("entry_count") :> 3 @@ V("exit_count") :> 2 @@ V("work") :> 2),
           <<FetchAdd(V("entry_count"), 1)>>, <<FetchAdd(V("exit_count"), 1)>>,
           <<LoadAtomic(V("entry_count")), LoadAtomic(V("exit_count"))>>)

\* A stay is one unit of time long.
performance_observer ==
  Observed(Slots("start_time", 0) @@ Slots("total_time_us", 0), AllRan(2),
           <<Store(Own("start_time"), 1)>>,
           <<Load(Own("start_time"))>> \o Add(Own("total_time_us"), 1), LoadSlots("total_time_us"))

resource_manager ==
  Observed(Slots("allocations", 0), AllRan(2), Add(Own("allocations"), 1), <<Load(Own("allocations"))>>,
           LoadSlots("allocations"))

\* What is printed under the lock.
debug_tracer ==
  LET trace(what) == Locked(V("mtx"), PushBack(V("cout"), what)) IN
  Observed(V("cout") :> <<>>, {V("cout") :> s : s \in
             {x \in [1..5 -> {"entry", "exit"}] :
                \A k \in 1..5 : LET n(what) == Cardinality({i \in 1..k : x[i] = what})
                                IN  n("exit") <= n("entry") /\ n("entry") <= 3 /\ n("exit") <= 2}},
           trace("entry"), trace("exit"), <<>>)

\* Two observers, each called by every thread.
two_observers ==
  Observed(Zero("obs1") @@ Zero("obs2"), Ends(V("obs1") :> 5 @@ V("obs2") :> 5 @@ V("work") :> 2),
           <<FetchAdd(V("obs1"), 1), FetchAdd(V("obs2"), 1)>>,
           <<FetchAdd(V("obs1"), 1), FetchAdd(V("obs2"), 1)>>, <<>>)

\* The callbacks come while the observer is enabled, in the second loop.
toggle_observer ==
  Observed(Zero("event_count"), Ends(V("event_count") :> 3 @@ V("work") :> 2),
           <<FetchAdd(V("event_count"), 1)>>, <<>>, <<LoadAtomic(V("event_count"))>>)
-----------------------------------------------------------------------------
\* The programs whose main does not wait, and the ones with a data race.
DetachedPrograms == {"enqueue", "simple_observer", "performance_observer", "resource_manager",
                     "debug_tracer", "two_observers", "toggle_observer"}
RacyPrograms == {"parallel_mode", "scheduler_performance", "performance_observer", "resource_manager"}

TaskPrograms ==
  [invoke_basic |-> invoke_basic, invoke_lambdas |-> invoke_lambdas, quicksort |-> quicksort,
   invoke_pipeline |-> invoke_pipeline, invoke_nested |-> invoke_nested,
   group_basic |-> group_basic, fibonacci |-> fibonacci, dynamic_tasks |-> dynamic_tasks,
   arena_basic |-> arena_basic, isolation |-> isolation, resource_control |-> resource_control,
   server_pattern |-> server_pattern, nested_arenas |-> nested_arenas,
   sequential_mode |-> sequential_mode, parallel_mode |-> parallel_mode, enqueue |-> enqueue,
   thread_control |-> thread_control, scheduler_performance_1 |-> scheduler_performance(1),
   scheduler_performance |-> scheduler_performance(2), automatic |-> automatic,
   nested_init |-> nested_init, terminate |-> terminate, control |-> control,
   testing |-> testing, gc_basic |-> gc_basic, gc_scoping |-> gc_scoping,
   gc_nested |-> gc_nested, gc_dynamic |-> gc_dynamic, gc_mixed_workload |-> gc_mixed_workload,
   gc_constrained |-> gc_constrained, simple_observer |-> simple_observer,
   performance_observer |-> performance_observer, resource_manager |-> resource_manager,
   debug_tracer |-> debug_tracer, two_observers |-> two_observers,
   toggle_observer |-> toggle_observer]
=============================================================================
