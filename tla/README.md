# A TLA+ verification project for the oneTBB Mastery Guide examples

The repository is a guide to oneTBB: Markdown chapters and 36 C++ programs under
`examples/`, one per topic. The TBB runtime itself is a library outside the
repository; what the repository owns is the concurrent logic of the programs:
lock-free code, termination protocols over queues, classes guarded by the TBB
mutexes, splittable ranges, scan and reduce bodies, observers, flow graphs.
This directory models that logic. TBB's and the C++ library's operations
(`concurrent_queue::try_pop`, a mutex acquire, `std::thread::join`, the
scheduler handing a subrange to a thread) are modelled by what the programs use
of them, and the map marks those definitions external.

## Inventory

| Component | Source | State | Operations | Hard behaviour | Correct means |
|---|---|---|---|---|---|
| Lock-free stack | `19_atomic.cpp` ex. 6 | `head`, heap nodes, each caller's `old_head`/`new_head` | `push`, `try_pop` | CAS retry, node reuse after `delete` | linearizable LIFO, no node leaked, lost, or read after free |
| Producer/consumer queue | `12_concurrent_queue.cpp` ex. 2, 3, 5 | queue, producer threads' joinable flags, per-consumer counts | push, try_pop, joinable scan, empty, join | consumers decide when to stop while producers still push | every item consumed once, everyone terminates |
| Event pipeline | `12_concurrent_queue.cpp` ex. 6 | two queues, generator | generate, process, collect | the stop test is made after a stale failed pop | every event reaches the output queue |
| Per-worker queues | `12_concurrent_queue.cpp` ex. 4, 7 | one queue per worker | drain own, steal from others | workers finish while others still pop | all work done exactly once |
| Bounded queue | `15_concurrent_bounded_queue.cpp` | queue of bounded capacity | blocking push, pop | full and empty blocking | FIFO, never above capacity, no deadlock |
| Thread counter | `34_task_scheduler_observer.cpp` ex. 3 | three atomics | entry, exit | CAS maximum with weak CAS | the recorded maximum is the real one |
| Other observers | `34_task_scheduler_observer.cpp` ex. 1, 2, 4-7 | counters, per-thread info | entry, exit, observe(bool) | callbacks after the test | symmetric counts |
| Ticket system and queuing mutex | `21_queuing_mutex.cpp` | tickets, bookings, FIFO of waiters | `book_ticket`, `report`, lock, unlock | contention, sell-out boundary | never oversold, books balance, FIFO, nobody starves |
| Bank account, lock order, try-lock | `17_mutex.cpp` | balance and log, two mutexes | `transfer`, deposit, withdraw, try_acquire | two locks, check then act | no overdraft, log matches balance, no deadlock |
| Spin mutex counters | `18_spin_mutex.cpp` | counter | increment under lock | lost update | exact count |
| Reader-writer caches | `20_reader_writer_lock.cpp` | map, counters, rw lock | get, put, set, size, upgrade by release and re-acquire | check again after re-acquiring | readers exclude writers, no double insert |
| Concurrent hash map, cache | `13_concurrent_hash_map.cpp` | map of elements each with a lock | insert, find, erase through accessors | element visible before its value is set | no half-written value is read |
| Unordered map | `14_concurrent_unordered_map.cpp` | map of atomics | operator[] | concurrent first insertion | exact counts |
| Priority queue | `16_concurrent_priority_queue.cpp` | heap | push, try_pop | comparator direction | pops in comparator order |
| Concurrent vector | `11_concurrent_vector.cpp` | growing vector | push_back, grow_by, grow_to_at_least | concurrent growth | stable elements, no lost element |
| Ranges and parallel_for | `31_blocked_range.cpp`, `30_partitioners.cpp`, `01_parallel_for.cpp` | set of subranges | split, run body | recursive splitting, boundaries | every index once |
| parallel_reduce | `02_parallel_reduce.cpp`, `32_parallel_deterministic.cpp` | partial results | body, join | any split tree | same result as the sequential loop |
| parallel_scan | `03_parallel_scan.cpp` | body sums, output | pre-scan, final scan, reverse_join, assign | scans out of order, int overflow | output is the prefix sums |
| parallel_sort, quicksort | `04_parallel_sort.cpp`, `05_parallel_invoke.cpp` | array | partition, recurse | crossing indices, overlapping halves | sorted permutation |
| parallel_invoke, task_group | `05_parallel_invoke.cpp`, `07_task_group.cpp` | tasks, result variables | run, wait, inline call | read before the wait | fork-join results |
| Pipeline | `06_parallel_pipeline.cpp` | tokens, per-filter order | stages, `fc.stop` | out-of-order middle stage, token limit | in-order output, every item freed once |
| Arenas and scheduler control | `08_task_arena.cpp`, `09_task_scheduler.cpp`, `33_global_control.cpp` | arena slots, enqueued tasks | execute, enqueue, init | nobody waits for enqueued tasks, races on plain sums | completed means completed |
| Thread-specific storage | `24_enumerable_thread_specific.cpp` | per-thread slots | local, combine | lazy first use | combined total exact |
| Allocators, alignment | `22_scalable_allocator.cpp`, `23_cache_aligned_allocator.cpp` | memory, per-thread counters | allocate and free in loops, counters side by side | elements indexed by thread | every loop and counter right |
| Flow graphs | `10`, `25`-`29` `*.cpp.broken` | nodes, edges, buffers | try_put, body, decrement | rejected messages, joins | no message lost silently |
| Performance tuning | `35_performance_tuning.cpp` | arrays, counters | repeats of the above | shared against per-thread counters | the same results in every variant |

## How the parts interact

Every example is a function that `main` of its file calls; the examples share
nothing with each other. Inside an example the parts interact through shared
memory only: `std::thread`s or the threads of a TBB algorithm call a small class
(`LockFreeStack`, `TicketSystem`, `CustomRange`, an observer), share variables
under a mutex, or share a container, and `main` waits for them and prints totals.
So there are two kinds of modules. An example with a protocol of its own has a
module of its own. The others, 141 programs and variants of programs, are bodies
of tasks for one machine, `SharedMemory`, which runs tasks on threads the way the
scheduler does. What `main` prints at the end is the property in both: it is what
the program itself claims.

## Modules

| Module | Models | State that stands for code | Actions |
|---|---|---|---|
| `LockFreeStack` | `19_atomic.cpp` ex. 6 | `head`, `next`, `value` (the nodes by address), `live` (allocated addresses), `node`, `oldHead`, `newHead` (locals), `result` | one per access to memory others can reach: `PushNew`, `PushLoad`, `PushCas`, `PushRetry`, `PopCall` ... `PopDelete` |
| `AbstractStack` | what the stack promises | a sequence, the last results | `Push`, `Pop`, `PopEmpty` |
| `ProducerConsumer` | `12_concurrent_queue.cpp` ex. 3 | the queue, per-producer progress, how many producers are joined, each consumer's loop, the total; `taken` (history): what each consumer has popped, in order | `Push`, `PopItem`, `PopNothing`, the scan over `joinable()` one producer at a time, `Stop`, `StopNot`, `Count`, `JoinProducer`, `Report` |
| `Delivery` | what a producer/consumer program promises | the items made, what each consumer has received, the total printed | `Make`, `Deliver`, `Report` |
| `EventPipeline` | `12_concurrent_queue.cpp` ex. 6 | two queues, the generator, the processors, `main`; `looked` (history): how far the generator was at each processor's last look | `Generate`, `Take`, `Put`, `TakeNothing`, `Again`, `Stop`, `JoinGenerator`, `JoinProcessors`, `Collect`, `Report` |
| `WorkQueues` | `12_concurrent_queue.cpp` ex. 7 | one queue per worker, `local_work`, `work_done` | `Do`, `StartStealing`, `MoveOn`, `Add` |
| `ThreadCounter` | `34_task_scheduler_observer.cpp` ex. 3 | the three atomics, the callback's locals | `Enter`, `CountEntry`, `LoadMax`, `NoNewMax`, `CasMax`, `CasFails`, `Exit` |
| `TicketSystem` | `21_queuing_mutex.cpp` ex. 5 | the FIFO of the mutex, tickets, bookings, totals | `Ask`, `Available`, `SoldOut`, `Take`, `Push`, `Release`, `Count`, `Report` |
| `RangeSplit` | `31_blocked_range.cpp` ex. 5 | the waiting ranges, each thread's range and loop index, how often each element was written | `TakeTask`, `Split`, `Run`, `Visit`, `Return` |
| `PrefixScan` | `03_parallel_scan.cpp`; the reductions of `02` and of the loops of `31`, `32`, `33`, `35` that repeat them | the bodies with what they have accumulated, the output, the packed vector | `SplitBody`, `PreScan`, `FinalScan`, `ReverseJoin`, `Return`, `Pack` |
| `Steps` | the accesses the other programs are made of | none | constructors: `Load`, `Store`, `FetchAdd`, `Locked`, `ReadLocked`, `If`, `Parallel`, `Spawn`, `Join`, ... |
| `SharedMemory` | how such a program runs | `mem`, `held` (mutexes), `reg` (each task's local variable), `pc`, `ready` (tasks nobody has taken), `stack` (the tasks a thread is in the middle of) | one per kind of step; `TakeTask`: an idle thread, or one that waits, takes a task |
| `LockDiscipline` | the rule the guide teaches: shared data under a mutex, or before the start or after the end of the task; and that `main` waits for what it starts | constants: what the text of each program shows is held and over at each step | none, `Disciplined(p)` and `WaitsForAll(p)` are conditions on the text |
| `KnownOutcome` | how the guide's programs know what to print: additions that do not overlap commute, and a value that is assigned is made of values that are final | constants: what each task has given to each number, and what it knows of its local variable, at each step of the text | none, `Known(p)` is a condition on the text |
| `Examples` | what the programs have in common | none | `For`, `Loops`, `Joined`, `Slots`, ... |
| `LockExamples` | `17`, `18`, `20`, `21` ex. 1-4, 6, 7 | 23 programs | |
| `ContainerExamples` | `11`, `13`, `14`, `19` ex. 1-5 and 7, `24` | 30 programs | |
| `TaskExamples` | `05` with quicksort, `07`, `08`, `09`, `33`, `34` ex. 1, 2, 4-7 | 36 programs | |
| `QueueExamples` | `12` ex. 1, 2, 4, 5, `15`, `16`, `06` | 12 programs | |
| `LoopExamples` | `01`, `30`, `31`, `32`, `35`, `22`, `23` | 40 programs | |

A definition of a catalogue is named after the example it models
(`example5_basic_mutex` is `basic_mutex`, and so on): its memory is what `main`
sets up, its tasks are the bodies of the threads, lambdas and callbacks, and its
outcomes are what its text (messages, comments, the arithmetic of its inputs) says
it prints; where the code prints something else, see *Exemptions* and *Findings*.

`MC...` modules extend a module with what a configuration needs: symmetry sets
for the runs of safety properties only, input sets for `PrefixScan`, the table of
all programs for `SharedMemory` together with what computes the constants of
`LockDiscipline` and `KnownOutcome` from their text: a data flow for `Holds`,
`Ended` and `Knows`, and for `Gives` a rehearsal of the program on one thread.
`MCAnnouncedOrders` puts two programs of the catalogues one after the other.
None of this is trusted: the conditions say what the constants must satisfy, and
TLC checks them. `...Proofs` modules extend a module with its
theorems; `DividedWorkProofs` extends both `WorkQueues` and `PrefixScan`, which is
why the latter's `ScanInit`, `ScanNext`, `ScanTypeOK` and `scanVars` have names of
their own. Definitions marked `Mutant:` are the plausible bugs that show the
properties have teeth; no specification uses them.

### Correspondence and abstractions

* **Grain of atomicity.** An action is one access to state another thread can
  touch. Purely local statements are part of the neighbouring access; a
  `concurrent_queue` operation, an atomic operation and a mutex hand-over are one
  action because the library makes them so. In `SharedMemory` `x++` on a plain
  variable is a read and a write, and `push_back` on a plain vector a read of its
  size and a change, so that two of them unprotected can lose an update.
* **Addresses in `LockFreeStack`.** `new` returns any address that is not live, so
  a deleted node's address comes back at once, which is what ABA needs. A read
  through a deleted pointer yields any value of the field's type.
* **`joinable()` while `main` joins.** Examples 3 and 6 of `12_concurrent_queue.cpp`
  read `joinable()` on a `std::thread` on which `main` is in `join()`. That is a
  data race; the modules take the read to return the value before or after the
  `join`, and assume that a thread that sees the new value also sees what `main`
  had seen by then (total store order).
* **Weak compare-and-swap.** `CasFails` of `ThreadCounter` may fire although the
  expected value is there, and in both cases loads the current one.
* **Data.** Queue items and bookings carry an identity and nothing else. Integers
  are unbounded except where a width matters: `Modulus` in `RangeSplit` is the
  size of `size_t`, `Half` in `PrefixScan` half the range of an `int`, and both
  wrap. Floating-point values are integers; rounding is not modelled. A value that
  a task computes from data nobody changes any more (the square of its index, the
  sum of a row) is written as a value. So are the keys that the tasks of `13` ex. 5
  draw with `rand()`: that they call it at the same time is not modelled.
* **Schedulers.** Which thread takes which range (`RangeSplit`), and which ranges
  are pre-scanned, joined and finally scanned (`PrefixScan`), is free within what
  the library's algorithm promises the body. In `SharedMemory` every index of a
  loop is a task of its own: a partition into longer chunks only removes
  interleavings. A thread that waits takes other tasks on top of the one it is in,
  which is why each thread has a stack of tasks. A limit on threads (`task_arena`,
  `task_scheduler_init`, `global_control`) is the width of a loop.
* **Counts.** A loop of 1000 or 1000000 iterations has `N` = 3 here, and a thread
  count of 4 or 8 is 3. What two threads can do to each other in one iteration each
  they can do in the large, and a third sees what they left.
* **Mutexes and containers.** `queuing_mutex`, `spin_mutex` and `mutex` differ in
  whom they wake; in `SharedMemory` any waiter may get a mutex, and `TicketSystem`
  models the order. An accessor of `concurrent_hash_map` is the mutex of its
  element, a `const_accessor` its shared mode. `enumerable_thread_specific::local()`
  is the element indexed by the running thread.
* **Observers.** The runtime calls `on_scheduler_entry` and `on_scheduler_exit` of
  two workers at any time around their share of the loop; `main` goes on when the
  iterations are done, not when the workers have left.
* **Scaled-down programs.** `queue_performance` (`12` ex. 5) has one producer and
  one consumer of its two of each. `upgrade_users` and `cache_client` are users of
  the classes of `20` ex. 7 and `13` ex. 5 that the examples only call once: two
  threads that miss the same key.

## Runs

| Run | Instance | Shows |
|---|---|---|
| `stack` | 3 threads, 1 popper, 3 addresses, 2 values | list = abstract stack, no leak, refinement of `AbstractStack`, lock freedom |
| `stack_two_poppers` | 2 poppers, 2 addresses | **violated**: ABA or a read after delete breaks the list |
| `producer_consumer` | 2 producers with 2 items, 3 consumers | consumers stop only when drained, refinement of `Delivery` (each item to one consumer, once, and the total printed is all of them), termination |
| `event_pipeline` | 4 events, 3 processors | no event copied or dropped in transit, the report is final, an event is left behind only if it came after the last look, termination |
| `event_pipeline_lost` | 2 events, 2 processors | **violated**: not every event is processed |
| `thread_counter` | 3 threads, 5 entries | active and total counts exact at every step, the maximum is the peak, it never shrinks, entries return |
| `work_queues` | 3 workers, 7 items | each item done once, one pass suffices, termination |
| `ticket_system` | 3 threads, 4 customers, 2 tickets | never oversold, first come first served, termination |
| `range_split` | 9 indices, grain 3, 3 threads, both partitioners | the pieces partition what is left, no piece is empty or shorter than half the grain, every element written once in the end |
| `prefix_scan` | every vector of 4 numbers out of -2, 1, 3, 4-bit ints, 3 bodies, three scans and six reductions | every partial result is that of the range it covers, outputs final, dense packing |
| `shared_memory` | all 141 programs, 3 threads, loops of 3 | no data race, the result `main` says it prints in every interleaving, nothing left running, termination |
| `announced_orders` | `custom_comparator` and `ordered` one after the other, nothing exempt | **violated**: neither keeps the order it announces, shown by one execution |

**Exemptions in `shared_memory`.** A program is exempt from a property only where
the property fails of it, and each is named in a catalogue:

* `Racy` (no claim of `RaceFree` and `OutcomeRight`): `parallel_mode` (`08` ex. 5),
  `scheduler_performance` on more than one thread (`09` ex. 2) and `determinism`
  (`32` ex. 1) add to a plain sum from several threads; the last does so on
  purpose and says so. `performance_observer` and `resource_manager` (`34` ex. 2,
  4) print a thread's slot while its worker may be in `on_scheduler_exit`.
* `Detached` (no claim of `NothingLeftRunning`; `OutcomeRight` is claimed of the
  end of all tasks instead of the end of `main`): `enqueue` (`08` ex. 6), whose
  `main` prints "All enqueued tasks completed" after an empty `execute`, which does
  not wait for what was enqueued, and the observers of `34`.
* `Misdescribed` (no claim of `OutcomeRight`): `custom_comparator` (`16` ex. 3) and
  `ordered` (`32` ex. 4), which say what order they print in and print another (run
  `announced_orders`). The other properties are checked of them.

`LockDiscipline.Guarded` are the programs whose text shows that they have no
race. Besides the racy ones, the text is not enough for `try_lock` (the mutex is
held if `try_acquire` said so), `sequential_mode` and `scheduler_performance_1`
(an arena of one thread), `pipeline_basic` and `image_processing` (a stage is
started by the last of those it waits for) and `debugging` (only one index has the
result that is written). For these `RaceFree` is model-checked and not proved.

`KnownOutcome.Exact` are 81 programs, the guarded ones that wait for all their
tasks, but for those of three lists in `MCSharedMemory`: what they print is a
container, whose contents depend on the order of the tasks (`Collected`); it depends
on what a branch finds (`Branching`); or it is collected from the slots of the
threads (`ByThread`). For these `OutcomeRight` is model-checked and not proved.

**Bounds and why they suffice.** The stack needs two operations overlapping a
third and an address that comes back: three threads and three addresses give both,
and leave a list of two nodes under them. For the queues the interesting case is a
consumer that decides to stop while another pops and a producer is still pushing:
three consumers, two producers with two items each reach it, with every position
of the scan. The events exceed the processors by one, so that a processor goes
round its loop. In `ThreadCounter` a third thread enters between the load and the
exchange of a second while a first has left. Seven items on three queues are no
multiple of three. The tickets sell out with two customers left and three threads
waiting. Nine indices split into 4 and 5, and these into 2 and 2, 2 and 3: odd
lengths, a range just above the grain of 3 and pieces below it; the proof covers
all sizes. The 4-bit ints of `PrefixScan` overflow on both sides. Three threads
and three iterations of `SharedMemory` let a reader see what two writers left,
fill a buffer of two, and put two tasks on the stack of a thread that waits.
`ThreadCounter.MaxEntries` and `PrefixScan.MaxBodies` are the two bounds that cut
executions off; the other constants are parameters of the programs.

**Deadlock** is checked in every run but `thread_counter`, where the scheduler may
have no more entries to make; programs that end do so through an explicit
`Finished` step. In `shared_memory` it is what shows the lock order of `17` ex. 7
and the blocking queues of `15` to be safe.

**Fairness.** Weak fairness per thread: an operating-system thread that can run
does run. In `SharedMemory` it is on the program counter and the stack, which every
step changes. A thread waiting for a mutex needs no more there, because each
program takes each mutex finitely often. The stack's fairness covers operations
under way only (`Step`), nobody has to start one, and its liveness property is lock
freedom, not that each operation ends. `ThreadCounter` adds strong fairness of a
successful exchange: the standard allows `compare_exchange_weak` to fail
spuriously, and the callback returns only if it does not do so for ever.
`TicketSystem` needs nothing stronger because its mutex is a FIFO.

## What is proved

`tlapm` checks these for every value of the constants allowed by the named
assumptions. Every safety invariant and every action property of the runs is the
statement of a theorem; those of `SharedMemory` are proved of the programs whose
text satisfies a condition, which TLC evaluates.

* `LockDisciplineProofs!NoRaces`: a program that follows the rule has no data race,
  on any number of threads and under any schedule. `Disciplined(p)` looks at the
  text alone, and TLC evaluates it for every guarded program when it checks the
  assumption `GuardedAssumption`; so the proof covers the real programs, for the
  given length of their loops. The invariant is `Typed` and `Stacks` (a task is on
  one stack, once; what is ready has not begun; what runs has been started),
  `Exclusive` (a mutex held twice is shared), and that what the text says is held
  (`HoldsRight`) and over (`EndedRight`) is so. Two conflicting accesses would then
  hold the same mutex exclusively, or be made by a task that is over.
  `TypeCorrect` is its first part. `NothingRunsOn` is `NothingLeftRunning` of the
  guarded programs: that by the end of `main` every other task has been waited for
  is again a condition on the text (`WaitsForAll`), which TLC evaluates for each of
  them with the assumption `AttachedAssumption`; by `EndedRight` those tasks are
  over, and what is over is neither ready nor on a stack.
* `LockDisciplineProofs!OutcomeKnown`: `OutcomeRight` of the programs of `Exact`, in
  every interleaving and on any number of threads. Again `Known(p)` looks at the
  text, and TLC evaluates it for each of them (`ExactAssumption`). It asks that
  what each task is said to have given to each number grows along its body by what
  the steps add (`Accounted`): an atomic `+=`, a plain read followed by the write of
  the sum, or the assignment of a known value to a number that is *settled*, one
  to which every other task, wherever it may then be (`Meanwhile`), has given the
  same. The outcome is the total (`Expected`). The invariant `OInv` adds to that
  of `NoRaces` that every number is the sum of what has been given so far
  (`SumsRight`), that what is said of local variables is so (`KnowsRight`), and that
  a task between the read and the write of a plain increment has read the latest
  value (`LatestRight`): whoever changed it in between would race with that write,
  which `StepsApart`, the lemma behind `NoRaces`, excludes. Lost updates are
  excluded by that last part. `SumFunction` of the community modules is treated in
  `SumByParts` and `SumChanges`, by induction on the size of a set.
* `LockFreeStackProofs!TypeCorrect`: `Spec => []TypeOK`, for any number of
  poppers.
* `LockFreeStackProofs!StackSafe` and `NothingLeaked`: with at most one popper
  (`OnePopper`), `Spec => []ListIsStack` and `Spec => []NoLeak`. `ListIsStack` is
  not inductive: a successful `compare_and_swap` links or unlinks the right node
  only if the caller's locals still describe the list. `IInv` adds that a pusher's
  node is linked to the head it read and is in nobody else's hands (`PushInv`,
  `PushesApart`), that the popper's `oldHead` is still on the list and its
  `newHead` is what lies below it (`PopInv`), and that what it unlinked is off the
  list and its own (`UnlinkInv`). The popper's clauses hold because only a popper
  removes nodes, which is where `OnePopper` enters and where two poppers break
  them.
* `LockFreeStackProofs!StackRefines`: with at most one popper the stack implements
  `AbstractStack` (`Spec => Linearizable`). A push takes effect at its successful
  `compare_and_swap`, a pop at its own, and a pop of an empty stack where it finds
  `head` null; every other step is a stutter. That the value read after the
  exchange, before the `delete`, is the one on top at the exchange is `UnlinkInv`.
* `ProducerConsumerProofs!TypeCorrect` and `NothingLost`: `Spec => [](OneHolder /\
  StopsWhenDrained)`. The strengthening says how far a consumer's scan has got:
  the producers it has passed are joined, hence have pushed all their items; so at
  the end of the scan an empty queue means every item is with a consumer, and both
  facts are stable.
* `ProducerConsumerProofs!Implements`: every step maps to a step of `Delivery` or a
  stutter. A pop maps to `Deliver` because what is in the queue is with no consumer
  (`OneHolder`), so an item popped by two consumers would be no step of `Delivery`.
  `Report` maps to that of `Delivery` because every item is with a consumer by then
  (`StopsWhenDrained`), and because what was consumed is counted: a consumer's
  count is the length of its sequence and the total is the number of items that the
  finished consumers have taken (`CountsRight`); all of them is
  `NumProducers * NumItems`.
* `EventPipelineProofs!TypeCorrect`, `NothingCopied`, `ReportFinal` and
  `NothingOverlooked`: that no event is in two places (`OnePlace`) is shown by counting.
  There are as many places in use as there are events generated, and every event
  has a place; so no two places hold the same event (`CoverIsPartition`,
  `CountedOnce`), and what `main` takes it has not counted yet. The report is final
  because of what has been joined by then (`Joined`). What it leaves behind no
  processor overlooked (`LeftBehindLate`): a processor that found the queue empty and
  has not looked again has seen the end of all that was pushed by then (`SeenToEnd`).
* `DividedWorkProofs` is about work divided in two ways. Of `WorkQueues`:
  `TypeCorrect`; `NothingTwice` (`EachOnce`), for which the division of the work
  among the workers, the remainder included, is shown to be a partition of the
  items (lemmas on `\div` and `%`); and `AllWorkDone` and `OnePassIsEnough`: a
  queue a worker has passed stays empty, so that once a worker is done all queues
  are.
* The same module proves `ScanTypeCorrect`, `SumsRight`, `ScansRight` and
  `PackedRight` of `PrefixScan`, for vectors of any length and ints of any width.
  Its reference results are functions defined by recursion over the end of a
  range; their laws (a scan goes on where it stopped, two scans from the same start
  agree, the scans of adjacent ranges join: `ScanGoesOn`, `ScanAgrees`,
  `ScanJoins`) are proved by taking the least number that violates them, since the
  library's induction theorems cannot be used. `WrapAbsorbs` carries them over int
  overflow, `CountIs` and `PlacesGrow` say where the packing puts an element. The
  invariant `ScanInv` adds to the four properties that every index has been
  scanned when a scan has returned (`AllScanned`) and that the input of the
  histogram has no negative numbers (`NoNegatives`).
* `TicketSystemProofs!TypeCorrect`, `NeverOversold` and `FirstCome`: the line holds
  everybody who waits, once, in the order of the requests (`Line`, `Requests`);
  between the two updates of `book_ticket` one ticket is in the owner's hands
  (`Books`); the bookings are as many as the requests answered while there are
  tickets (`Order`).
* `ThreadCounterProofs!TypeCorrect`, `CountsExact`, `PeakRecorded` and
  `NeverLowered`: the invariant adds that `current` of a thread between its two
  updates is at most `peak`, and that some entry under way still carries the peak
  while `max_threads` is below it.
* `RangeSplitProofs!TypeCorrect`, `Partitioned` and `LeavesSized`: the arithmetic
  of the split (`Halves`, `Sharing`, `HalvesWide`) is proved once, with the modulus;
  `Shape` (no range is empty, the loop index stays in its range) makes `Partition`
  inductive.

Only model-checked: the liveness properties (`Terminates`, `Completes`,
`EntryCompletes`) and lock freedom, because temporal reasoning under fairness is
beyond the prover; `RaceFree` and `NothingLeftRunning` of the programs that are not
guarded; and `OutcomeRight` of the programs that are not in `Exact`.

## Findings

1. `19_atomic.cpp`: `try_pop` is unsafe with two concurrent poppers.
2. `12_concurrent_queue.cpp` example 6: events can stay behind; example 3 of the
   same file makes the missing second look and is proved right.
3. `16_concurrent_priority_queue.cpp:63` and `:70` call a queue with `less<int>` a
   min heap, smallest first; it gives the largest first.
4. `32_parallel_deterministic.cpp:184` calls "ordered insertion" what appends the
   chunks in the order of the lock.

The run `announced_orders` shows the last two in one execution: its property asks
that at least one of the two orders be kept (`OneOrderKept` in `MCAnnouncedOrders`).

Observed without a run of their own:

* the races and missing waits listed under *Exemptions*;
* `03_parallel_scan.cpp:102` sums 1 to 1000000 in an `int`, which overflows, and
  `main` prints the last output beside "Expected: " `N * (N + 1) / 2` in a
  `long long` (lines 115-116); `OutputsFinal` is about the wrapped sums;
* `31_blocked_range.cpp:12` calls the grain the minimum size of a subdivision; the
  code divides a range just above the grain: `range_split` reaches pieces of 2 with
  a grain of 3, as the example leaves pieces of 62 with one of 100. `LeafSize`, with
  its proof, states the bounds the code does keep;
* of two equal maxima the join of `02` example 4 takes the right one and the
  sequential loop the left one, so the index it reports depends on the split tree
  (`PartialSums` allows either, as the example promises neither).

## Not modelled, and why

* `04_parallel_sort.cpp`: one call of the library's sort per example, on data only
  `main` touches.
* Flow graphs (`10`, `25` to `29`, named `*.cpp.broken`): they do not compile and
  the build leaves them out; there is no behaviour to be faithful to.
* `11` ex. 3, `22` ex. 1, 3, 6, `23` ex. 2, `31` ex. 1: `main` alone calls the
  library and prints.
* Rounding of floating-point sums (`02` ex. 6, `32` ex. 2 and 5): their point is
  that the result depends on the order of additions, which integers cannot show.
* Times, cache lines, false sharing, memory orders weaker than sequential
  consistency, the menus of the `main` functions, what is printed beyond the
  values. The chapters, figures, `index.html`, the Makefile and the scripts are not
  programs of the system.

## What is left

Of the programs outside `Exact`, those of `ByThread` are within reach: the slot of a
thread is an account of its own, whose tasks are those the thread has run. Those of
`Collected` need a count of the elements of a container in place of a sum.
