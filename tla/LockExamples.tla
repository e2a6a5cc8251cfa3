---------------------------- MODULE LockExamples ----------------------------
(***************************************************************************)
(* The programs about mutexes: examples/17_mutex.cpp, 18_spin_mutex.cpp,   *)
(* 20_reader_writer_lock.cpp and 21_queuing_mutex.cpp.  Amounts of money   *)
(* are in hundreds, "every hundredth" is every second.                     *)
(***************************************************************************)
EXTENDS Examples

mtx == V("mtx")

\* counter++ under a lock.
Increment(name) == Locked(V("mtx of " \o name), Add(V(name), 1))
-----------------------------------------------------------------------------
(* 17_mutex.cpp *)

basic_mutex ==
  Loop(Zero("shared_counter") @@ V("shared_log") :> <<>>,
       Ends(V("shared_counter") :> N @@ V("shared_log") :> <<2>>),
       Each(Locked(mtx, Add(V("shared_counter"), 1) \o <<Load(V("shared_counter"))>>
                        \o If({2}, PushBack(V("shared_log"), 2)))))

deposit(amount) == Locked(mtx, Add(V("balance"), amount))

withdraw(amount) ==
  Locked(mtx, <<Load(V("balance"))>> \o If(amount..99, <<StoreOf(V("balance"), "plus", -amount)>>))

\* The balance is one that the four calls leave in some order.
scoped_lock ==
  LET call(balance, amount) == IF balance + amount < 0 THEN balance ELSE balance + amount IN
  Program(V("balance") :> 10,
          {V("balance") :> FoldLeft(call, 10, o) : o \in Orders({5, -3, 2, -10})},
          Joined(1..4), <<deposit(5), withdraw(3), deposit(2), withdraw(10)>>)

multiple_mutexes ==
  Loop(Zero("counter1") @@ Zero("counter2"),
       Ends(V("counter1") :> N \div 2 @@ V("counter2") :> N - N \div 2),
       [i \in 1..N |-> Increment(IF i % 2 = 0 THEN "counter1" ELSE "counter2")])

\* Mutant: the mutex is given up before the resource is changed.
try_lock_released_early ==
  Loop(Zero("resource") @@ Zero("failed_attempts"),
       {V("resource") :> k @@ V("failed_attempts") :> N - k : k \in 1..N},
       Each(<<TryAcquire(mtx)>>
            \o IfElse({1}, <<Release(mtx)>> \o Add(V("resource"), 1),
                           <<FetchAdd(V("failed_attempts"), 1)>>)))

try_lock ==
  Loop(Zero("resource") @@ Zero("failed_attempts"),
       {V("resource") :> k @@ V("failed_attempts") :> N - k : k \in 1..N},
       Each(<<TryAcquire(mtx)>>
            \o IfElse({1}, Add(V("resource"), 1) \o <<Release(mtx)>>,
                           <<FetchAdd(V("failed_attempts"), 1)>>)))

\* The same loop with two of the three kinds of mutex.
mutex_comparison ==
  TwoLoops(Zero("counter") @@ Zero("spin counter"),
           Ends(V("counter") :> N @@ V("spin counter") :> N),
           Each(Increment("counter")), Each(Increment("spin counter")))

\* BankAccount
transfer(amount, description) ==
  Locked(mtx, <<Load(V("balance"))>>
              \o If(amount..99, <<StoreOf(V("balance"), "plus", -amount)>>
                                \o PushBack(V("transaction_log"), description)))
get_balance == Locked(mtx, <<Load(V("balance"))>>)
get_transaction_count == Locked(mtx, <<LoadSize(V("transaction_log"))>>)

\* The account is one transfer short.
complex_protection ==
  Program(V("balance") :> N - 1 @@ V("transaction_log") :> <<>>,
          {V("balance") :> 0 @@ V("transaction_log") :> SubSeq(o, 1, N - 1) : o \in Orders(1..N)},
          For(1..N) \o get_balance \o get_transaction_count,
          [i \in 1..N |-> transfer(1, i)])

\* Two threads, two iterations each, that take both mutexes.
bothMutexes(first, second) ==
  Repeat(2, LAMBDA i : Locked(first, Locked(second, Add(V("resource1"), 1) \o Add(V("resource2"), 1))))

\* Mutant: the second thread takes the mutexes in the other order.
deadlock_prone ==
  Program(Zero("resource1") @@ Zero("resource2"),
          Ends(V("resource1") :> 4 @@ V("resource2") :> 4), Joined({1, 2}),
          <<bothMutexes(V("mtx1"), V("mtx2")), bothMutexes(V("mtx2"), V("mtx1"))>>)

deadlock_avoidance ==
  Program(Zero("resource1") @@ Zero("resource2"),
          Ends(V("resource1") :> 4 @@ V("resource2") :> 4), Joined({1, 2}),
          <<bothMutexes(V("mtx1"), V("mtx2")), bothMutexes(V("mtx1"), V("mtx2"))>>)
-----------------------------------------------------------------------------
(* 18_spin_mutex.cpp *)

spin_basic == Loop(Zero("counter"), Counted("counter"), Each(Increment("counter")))
spin_performance == Loop(Zero("spin_counter"), Counted("spin_counter"), Each(Increment("spin_counter")))
-----------------------------------------------------------------------------
(* 20_reader_writer_lock.cpp *)

rw_mtx == V("rw_mtx")

rw_basic ==
  Program(V("shared_data") :> 100, Ends(V("shared_data") :> 200),
          ReadLocked(rw_mtx, <<Load(V("shared_data"))>>)
          \o ReadLocked(rw_mtx, <<Load(V("shared_data"))>>)
          \o Locked(rw_mtx, <<Store(V("shared_data"), 200)>>)
          \o ReadLocked(rw_mtx, <<Load(V("shared_data"))>>), <<>>)

concurrent_reads ==
  Loop(V("shared_config") :> <<1, 2>> @@ Zero("reader_count"), Counted("reader_count"),
       Each(ReadLocked(rw_mtx, <<LoadSize(V("shared_config")), FetchAdd(V("reader_count"), 1)>>)))

\* One iteration in N writes.
mixed ==
  Loop(Zero("shared_counter") @@ Zero("reads") @@ Zero("writes"),
       Ends(V("shared_counter") :> 1 @@ V("reads") :> N - 1 @@ V("writes") :> 1),
       [i \in 1..N |->
          IF i = 1 THEN Locked(rw_mtx, Add(V("shared_counter"), 1) \o <<FetchAdd(V("writes"), 1)>>)
          ELSE ReadLocked(rw_mtx, <<Load(V("shared_counter")), FetchAdd(V("reads"), 1)>>)])

\* ConfigManager: the keys 1, 2 and 3 are host, port and timeout, 4 is counter.
config_get(key) == ReadLocked(rw_mtx, <<Find(V("config"), key)>>)
config_set(key, value) == Locked(rw_mtx, Put(V("config"), key, value))
config_size == ReadLocked(rw_mtx, <<LoadSize(V("config"))>>)

\* Task 1 is the thread of readers, whose parallel_for has the tasks 3 and 4;
\* task 2 is the writer.
config_manager ==
  Program(V("config") :> <<10, 20, 30>> @@ Zero("read_count"),
          Ends(V("config") :> <<10, 20, 30, 2>> @@ V("read_count") :> 2),
          Joined({1, 2}) \o config_size,
          <<For({3, 4}), config_set(4, 1) \o config_set(4, 2)>>
          \o [i \in 1..2 |-> config_get(1) \o config_get(2) \o <<FetchAdd(V("read_count"), 1)>>])

rw_performance ==
  TwoLoops(V("data") :> <<1, 2>>, Ends(V("data") :> <<1, 2>>),
           Each(Locked(V("regular_mtx"), <<LoadSize(V("data"))>>)),
           Each(ReadLocked(rw_mtx, <<LoadSize(V("data"))>>)))

\* ThreadSafeCache
cache_get(key) ==
  ReadLocked(rw_mtx, <<Find(V("cache"), key)>>
                     \o IfElse({Absent}, <<FetchAdd(V("misses"), 1)>>, <<FetchAdd(V("hits"), 1)>>))
cache_put(key, value) ==
  Locked(rw_mtx, Put(V("cache"), key, value) \o <<FetchAdd(V("updates"), 1)>>)
cache_stats == <<LoadSize(V("cache")), LoadAtomic(V("hits")), LoadAtomic(V("misses")),
                 LoadAtomic(V("updates"))>>

\* Key 1 is there from the start, key 2 is put while it is looked for, key 3
\* never is.
rw_cache ==
  Program(V("cache") :> <<>> @@ Zero("hits") @@ Zero("misses") @@ Zero("updates"),
          {V("cache") :> <<11, 12>> @@ V("updates") :> 2 @@ V("hits") :> h @@ V("misses") :> 3 - h
             : h \in {1, 2}},
          cache_put(1, 11) \o Joined({1, 2}) \o cache_stats,
          <<For({3, 4, 5}), cache_put(2, 12), cache_get(1), cache_get(2), cache_get(3)>>)

\* The read lock is given up before the write lock is taken; the key is looked
\* for again under the write lock.  Insertions are counted.
upgrade(key) ==
  <<Acquire(rw_mtx, "r"), Find(V("data"), key)>>
  \o IfElse({Absent}, <<Release(rw_mtx)>>
                      \o Locked(rw_mtx, <<Find(V("data"), key)>>
                                        \o If({Absent}, Put(V("data"), key, 10 * key)
                                                        \o <<FetchAdd(V("inserted"), 1), Find(V("data"), key)>>)),
                      <<Find(V("data"), key), Release(rw_mtx)>>)

upgrade_pattern ==
  Program(V("data") :> <<1, 2>> @@ Zero("inserted"), Ends(V("data") :> <<1, 2>> @@ Zero("inserted")),
          upgrade(2), <<>>)

\* The pattern in two threads that miss the same key.
upgrade_users ==
  Program(V("data") :> <<1, 2>> @@ Zero("inserted"), Ends(V("data") :> <<1, 2, 30>> @@ V("inserted") :> 1),
          For({1, 2}), <<upgrade(3), upgrade(3)>>)
-----------------------------------------------------------------------------
(* 21_queuing_mutex.cpp *)

queuing_basic == Loop(Zero("shared_counter"), Counted("shared_counter"), Each(Increment("shared_counter")))

\* Each index locks the mutex twice, to count its own accesses.
access(m, name, id) == Repeat(2, LAMBDA i : Locked(m, <<FetchAdd(El(name, id), 1)>>))

fairness ==
  Loop(Elements("thread_access_count", 0), Ends(Elements("thread_access_count", 2)),
       [i \in 1..N |-> access(mtx, "thread_access_count", i)])

test_mutex_fairness(m, name) == [i \in 1..N |-> access(m, name, i)]
fairness_comparison ==
  TwoLoops(Elements("counters", 0) @@ Elements("fair counters", 0),
           Ends(Elements("counters", 2) @@ Elements("fair counters", 2)),
           test_mutex_fairness(mtx, "counters"), test_mutex_fairness(V("fair mtx"), "fair counters"))

\* The latency of a task is its index.
predictability ==
  Program(V("latencies") :> <<>>, {V("latencies") :> o : o \in Orders(1..N)},
          For(1..N) \o <<LoadSize(V("latencies"))>>,
          [i \in 1..N |-> Locked(mtx, Locked(V("latencies_mtx"), PushBack(V("latencies"), i)))])

queuing_performance ==
  TwoLoops(Zero("counter") @@ Zero("spin counter"),
           Ends(V("counter") :> N @@ V("spin counter") :> N),
           Each(Increment("counter")), Each(Increment("spin counter")))

\* Two producers of two items each for a buffer of three: what does not fit is
\* dropped.  Item 10 * p + i is the i-th of producer p.
MaxBuffer == 3
produce(p) ==
  Repeat(2, LAMBDA i : Locked(mtx, <<LoadSize(V("buffer"))>>
                                   \o If(0 .. MaxBuffer - 1, PushBack(V("buffer"), 10 * p + i))))
producer_consumer ==
  Program(V("buffer") :> <<>> @@ V("done") :> 0,
          {V("buffer") :> SubSeq(o, 1, MaxBuffer) @@ V("done") :> 1 : o \in Merges},
          Joined({1, 2}) \o Locked(mtx, <<Store(V("done"), 1), LoadSize(V("buffer"))>>),
          <<produce(1), produce(2)>>)
-----------------------------------------------------------------------------
LockPrograms ==
  [basic_mutex |-> basic_mutex, scoped_lock |-> scoped_lock,
   multiple_mutexes |-> multiple_mutexes, try_lock |-> try_lock,
   mutex_comparison |-> mutex_comparison, complex_protection |-> complex_protection,
   deadlock_avoidance |-> deadlock_avoidance,
   spin_basic |-> spin_basic, spin_performance |-> spin_performance,
   rw_basic |-> rw_basic, concurrent_reads |-> concurrent_reads, mixed |-> mixed,
   config_manager |-> config_manager, rw_performance |-> rw_performance,
   rw_cache |-> rw_cache, upgrade_pattern |-> upgrade_pattern,
   upgrade_users |-> upgrade_users,
   queuing_basic |-> queuing_basic, fairness |-> fairness,
   fairness_comparison |-> fairness_comparison, predictability |-> predictability,
   queuing_performance |-> queuing_performance, producer_consumer |-> producer_consumer]
=============================================================================
