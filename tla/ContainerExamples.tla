------------------------- MODULE ContainerExamples -------------------------
(***************************************************************************)
(* The programs about concurrent containers, atomics and thread-specific   *)
(* storage: examples/11_concurrent_vector.cpp, 13_concurrent_hash_map.cpp, *)
(* 14_concurrent_unordered_map.cpp, 19_atomic.cpp and                      *)
(* 24_enumerable_thread_specific.cpp.  The element of a map with key k is  *)
(* El(map, k), Absent while it is not in the map; an accessor holds the    *)
(* mutex of the element.                                                   *)
(***************************************************************************)
EXTENDS Examples

push_back(name, x) == Update(V(name), "push", x)

\* Two tasks push two items each.
pushTwo(name) == [p \in 1..2 |-> <<push_back(name, 10 * p + 1), push_back(name, 10 * p + 2)>>]
-----------------------------------------------------------------------------
(* 11_concurrent_vector.cpp *)

basic_pushback ==
  Program(V("vec") :> <<>>, {V("vec") :> s : s \in Merges},
          For({1, 2}) \o <<LoadSize(V("vec"))>>, pushTwo("vec"))

concurrent_access ==
  Loop(ElementsOf("vec", LAMBDA i : i), Ends(ElementsOf("vec", LAMBDA i : 2 * i)),
       [i \in 1..N |-> <<Load(El("vec", i)), StoreOf(El("vec", i), "times", 2)>>])

\* A reference to vec[1] is used again after the vector has grown.
iterator_stability ==
  Program(V("vec") :> <<>> @@ Zero("ref"), Ends(V("vec") :> <<1, 2, 3, 4, 5>> @@ V("ref") :> 2),
          <<push_back("vec", 1), push_back("vec", 2), push_back("vec", 3)>>
          \o Joined({1}) \o <<Find(V("vec"), 2), StoreRead(V("ref"))>>,
          <<<<push_back("vec", 4), push_back("vec", 5)>>>>)

parallel_population ==
  Loop(V("results") :> <<>>, {V("results") :> s : s \in Orders(1..N)},
       [i \in 1..N |-> <<push_back("results", i)>>])

vector_performance ==
  Program(V("std_vec") :> <<>> @@ V("conc_vec_seq") :> <<>> @@ V("conc_vec_par") :> <<>>,
          {V("conc_vec_par") :> s @@ V("std_vec") :> [i \in 1..N |-> i]
             @@ V("conc_vec_seq") :> [i \in 1..N |-> i] : s \in Orders(1..N)},
          Repeat(N, LAMBDA i : PushBack(V("std_vec"), i))
          \o Repeat(N, LAMBDA i : <<push_back("conc_vec_seq", i)>>) \o For(1..N),
          [i \in 1..N |-> <<push_back("conc_vec_par", i)>>])

log_collection ==
  Program(V("logs") :> <<>>, {V("logs") :> s : s \in Merges},
          For({1, 2}) \o <<LoadSize(V("logs"))>>, pushTwo("logs"))
-----------------------------------------------------------------------------
(* 13_concurrent_hash_map.cpp *)

insert(map, key, x) == <<Update(El(map, key), "insert", x)>>
erase(map, key) == <<Update(El(map, key), "is", Absent)>>

\* With an accessor: steps if the key is found; the element inserted if it is
\* absent, with value fresh, and then the steps of one branch.
find(map, key, steps) == Locked(El(map, key), <<Load(El(map, key))>> \o If(0..99, steps))
const_find(map, key, steps) == ReadLocked(El(map, key), <<Load(El(map, key))>> \o If(0..99, steps))
insertOrFind(map, key, new, old) ==
  Locked(El(map, key), <<Load(El(map, key))>>
                       \o IfElse({Absent}, <<Store(El(map, key), 0)>> \o new, old))

map_basic ==
  Program(Elements("map", Absent), Ends(El("map", 1) :> 10 @@ El("map", 2) :> Absent @@ El("map", 3) :> 7),
          insert("map", 1, 5) \o insert("map", 2, 3) \o insert("map", 3, 7)
          \o find("map", 1, <<Store(El("map", 1), 10)>>) \o const_find("map", 1, <<>>)
          \o erase("map", 2), <<>>)

concurrent_insert ==
  Program(Elements("map", Absent), Ends(ElementsOf("map", LAMBDA k : k * k)),
          Joined(1..N), [k \in 1..N |-> insert("map", k, k * k)])

accessor_pattern ==
  Program(Elements("users", Absent), Ends(El("users", 1) :> 15 @@ El("users", 2) :> 15 @@ El("users", 3) :> 20),
          insert("users", 1, 10) \o insert("users", 2, 15) \o insert("users", 3, 20)
          \o find("users", 1, <<StoreOf(El("users", 1), "plus", 5)>>)
          \o const_find("users", 1, <<>>), <<>>)

\* Two of the words are the same.
insert_or_update ==
  LET key(i) == (i + 1) \div 2 IN
  Loop(Elements("word_count", Absent),
       Ends([v \in {El("word_count", k) : k \in 1..N} |->
               LET n == Cardinality({i \in 1..N : key(i) = v[2]}) IN IF n = 0 THEN Absent ELSE n]),
       [i \in 1..N |->
          insertOrFind("word_count", key(i), <<Store(El("word_count", key(i)), 1)>>,
                       Add(El("word_count", key(i)), 1))])

\* ConcurrentCache; get leaves the string it returns in val, "" is 0.
cache_get(key, val) ==
  <<Acquire(El("cache", key), "r"), Load(El("cache", key))>>
  \o IfElse({Absent}, <<Release(El("cache", key)), FetchAdd(V("misses"), 1)>>,
                      <<FetchAdd(V("hits"), 1), Load(El("cache", key)), StoreRead(val),
                        Release(El("cache", key))>>)

cache_put(key, value) ==
  insertOrFind("cache", key, <<Store(El("cache", key), value)>>, <<Store(El("cache", key), value)>>)

cache_stats == <<LoadAtomic(V("hits")), LoadAtomic(V("misses"))>>

EmptyCache == Elements("cache", Absent) @@ Zero("hits") @@ Zero("misses")

\* Two of the three keys looked for are in the cache.  The keys are given: the
\* program draws them with rand(), which its tasks call at the same time.
cache ==
  Program(EmptyCache @@ Elements("val", 0),
          Ends(V("hits") :> 2 @@ V("misses") :> 1 @@ El("val", 1) :> 11 @@ El("val", 2) :> 12
               @@ El("val", 3) :> 0),
          cache_put(1, 11) \o cache_put(2, 12) \o For(1..3) \o cache_stats,
          [i \in 1..3 |-> cache_get(i, El("val", i))])

\* The cache as its users may call it: a key is looked for twice, put and
\* changed at the same time.  Who finds it sees a value that was put.
cache_client ==
  Program(EmptyCache @@ Elements("val", 0),
          {V("hits") :> h @@ V("misses") :> 1 - h @@ El("val", 1) :> x
             : <<h, x>> \in {<<0, 0>>, <<1, 11>>, <<1, 12>>}},
          For(1..3), <<cache_get(1, El("val", 1)), cache_put(1, 11), cache_put(1, 12)>>)

\* The counters are made one by one and then changed in parallel.
concurrent_updates ==
  LET id(i) == 1 + (i % 2) IN
  Program(El("counters", 1) :> Absent @@ El("counters", 2) :> Absent,
       Ends([v \in {El("counters", 1), El("counters", 2)} |-> Cardinality({i \in 1..N : id(i) = v[2]})]),
       insertOrFind("counters", 1, <<>>, <<>>) \o insertOrFind("counters", 2, <<>>, <<>>) \o For(1..N),
       [i \in 1..N |-> find("counters", id(i), <<FetchAdd(El("counters", id(i)), 1)>>)])

map_performance ==
  Loop(Elements("tbb_map", Absent), Ends(ElementsOf("tbb_map", LAMBDA i : i * i)),
       [i \in 1..N |-> insert("tbb_map", i, i * i)])
-----------------------------------------------------------------------------
(* 14_concurrent_unordered_map.cpp *)

\* map[key] inserts the key with value 0 if need be and gives a reference,
\* which nothing locks.
subscript(map, key) == insert(map, key, 0)

unordered_basic ==
  Program(Elements("map", Absent), Ends(El("map", 1) :> 5 @@ El("map", 2) :> 3 @@ El("map", 3) :> 7),
          subscript("map", 1) \o <<Store(El("map", 1), 5)>>
          \o subscript("map", 2) \o <<Store(El("map", 2), 3)>>
          \o subscript("map", 3) \o <<Store(El("map", 3), 7)>>
          \o subscript("map", 1) \o <<Load(El("map", 2))>>
          \o If(0..99, subscript("map", 2)), <<>>)

unordered_concurrent ==
  Loop(Elements("map", Absent), Ends(ElementsOf("map", LAMBDA i : i * i)),
       [i \in 1..N |-> subscript("map", i) \o <<Store(El("map", i), i * i)>>])

word_count ==
  LET key(i) == (i + 1) \div 2 IN
  Loop(Elements("counts", Absent),
       Ends([v \in {El("counts", key(i)) : i \in 1..N} |-> Cardinality({i \in 1..N : key(i) = v[2]})]),
       [i \in 1..N |-> subscript("counts", key(i)) \o <<FetchAdd(El("counts", key(i)), 1)>>])
-----------------------------------------------------------------------------
(* 19_atomic.cpp *)

atomic_counter == Loop(Zero("counter"), Counted("counter"), Each(<<FetchAdd(V("counter"), 1)>>))

atomic_performance ==
  TwoLoops(Zero("atomic_counter") @@ Zero("mutex_counter"),
           Ends(V("atomic_counter") :> N @@ V("mutex_counter") :> N),
           Each(<<FetchAdd(V("atomic_counter"), 1)>>),
           Each(Locked(V("mtx"), Add(V("mutex_counter"), 1))))

compare_and_swap(v, new_val, old_val) == Update(v, "swap", <<old_val, new_val>>)

\* The second comparison fails.
compare_and_swap_twice ==
  Program(V("value") :> 1 @@ Zero("result"), Ends(V("value") :> 2 @@ V("result") :> 2),
          <<compare_and_swap(V("value"), 2, 1), compare_and_swap(V("value"), 3, 1),
            StoreRead(V("result"))>>, <<>>)

\* old3 is what fetch_and_increment returned.
fetch_and_add ==
  Program(Zero("counter") @@ Zero("old3"), Ends(V("counter") :> 16 @@ V("old3") :> 15),
          <<FetchAdd(V("counter"), 5), FetchAdd(V("counter"), 10), FetchAdd(V("counter"), 1),
            StoreRead(V("old3"))>>, <<>>)

\* Main gives the worker thread the signal and waits for the answer.
flags ==
  Program(Zero("ready") @@ Zero("done") @@ Zero("result"), Ends(V("result") :> 3),
          <<Spawn({1}), StoreAtomic(V("ready"), 1), Spin(V("done"), 1),
            LoadAtomic(V("result")), Join({1})>>,
          <<<<Spin(V("ready"), 1)>> \o Repeat(3, LAMBDA i : <<FetchAdd(V("result"), i - 1)>>)
            \o <<StoreAtomic(V("done"), 1)>>>>)

\* Every iteration adds its own sum in one step.
atomic_accumulation ==
  Loop(Zero("sum"), Ends(V("sum") :> (N * (N + 1)) \div 2), [i \in 1..N |-> <<FetchAdd(V("sum"), i)>>])
-----------------------------------------------------------------------------
(* 24_enumerable_thread_specific.cpp *)

\* local() is the slot of the thread that runs the task.  Nobody else touches
\* it until main goes through all of them.

accumulation ==
  Program(Slots("thread_local_sum", 0) @@ Zero("total"), Ends(V("total") :> N),
          For(1..N) \o Total("thread_local_sum", "total"), Each(Add(Own("thread_local_sum"), 1)))

ets_performance ==
  Program(Zero("atomic_sum") @@ Slots("ets_sum", 0) @@ Zero("total"),
          Ends(V("atomic_sum") :> N @@ V("total") :> N),
          For(Phase(1)) \o For(Phase(2)) \o Total("ets_sum", "total"),
          [j \in 1 .. 2 * N |-> IF j \in Phase(1) THEN <<FetchAdd(V("atomic_sum"), 1)>>
                                ELSE Add(Own("ets_sum"), 1)])

\* Two bins: for odd and even data.
histogram ==
  LET bin(i) == IF i % 2 = 1 THEN "odd" ELSE "even" IN
  Program(Slots("odd", 0) @@ Slots("even", 0) @@ Zero("final odd") @@ Zero("final even"),
          Ends(V("final odd") :> N - N \div 2 @@ V("final even") :> N \div 2),
          For(1..N) \o Total("odd", "final odd") \o Total("even", "final even"),
          [i \in 1..N |-> Add(Own(bin(i)), 1)])

buffers ==
  Program(Slots("thread_buffers", <<>>) @@ Zero("total_items"), Ends(V("total_items") :> N),
          For(1..N) \o combine("thread_buffers", LoadSize, LoadSizes, "total_items"),
          [i \in 1..N |-> PushBack(Own("thread_buffers"), i)])

\* The initializer gives each thread that comes first to its slot a number.
custom_init ==
  LET ids(S) == {f \in [S -> 0 .. Cardinality(S) - 1] : \A t, u \in S : f[t] = f[u] => t = u} IN
  Program(Slots("thread_id", Absent) @@ Slots("sum", 0) @@ Slots("count", 0)
          @@ Zero("next_thread_id") @@ Zero("total_sum") @@ Zero("total_count"),
          {[v \in {El("thread_id", t) : t \in Threads} |->
               IF v[2] \in DOMAIN f THEN f[v[2]] ELSE Absent]
           @@ V("total_sum") :> (N * (N + 1)) \div 2 @@ V("total_count") :> N
             : f \in UNION {ids(S) : S \in (SUBSET Threads) \ {{}}}},
          For(1..N) \o Total("sum", "total_sum") \o Total("count", "total_count"),
          [i \in 1..N |-> <<Load(Own("thread_id"))>>
                          \o If({Absent}, <<FetchAdd(V("next_thread_id"), 1), StoreRead(Own("thread_id"))>>)
                          \o Add(Own("sum"), i) \o Add(Own("count"), 1)])

ets_combine ==
  Program(Slots("thread_sums", 0) @@ Zero("total"), Ends(V("total") :> (N * (N + 1)) \div 2),
          For(1..N) \o Total("thread_sums", "total"), [i \in 1..N |-> Add(Own("thread_sums"), i)])

\* Line i has i words of one letter.
text_processing ==
  Program(Slots("line_count", 0) @@ Slots("char_count", 0) @@ Slots("word_count", 0)
          @@ Zero("lines") @@ Zero("chars") @@ Zero("words"),
          Ends(V("lines") :> N @@ V("chars") :> N * N @@ V("words") :> (N * (N + 1)) \div 2),
          For(1..N) \o Total("line_count", "lines") \o Total("char_count", "chars")
          \o Total("word_count", "words"),
          [i \in 1..N |-> Add(Own("line_count"), 1) \o Add(Own("char_count"), 2 * i - 1)
                          \o Add(Own("word_count"), i)])
-----------------------------------------------------------------------------
ContainerPrograms ==
  [basic_pushback |-> basic_pushback, concurrent_access |-> concurrent_access,
   iterator_stability |-> iterator_stability, parallel_population |-> parallel_population,
   vector_performance |-> vector_performance, log_collection |-> log_collection,
   map_basic |-> map_basic, concurrent_insert |-> concurrent_insert,
   accessor_pattern |-> accessor_pattern, insert_or_update |-> insert_or_update,
   cache |-> cache, cache_client |-> cache_client, concurrent_updates |-> concurrent_updates,
   map_performance |-> map_performance, unordered_basic |-> unordered_basic,
   unordered_concurrent |-> unordered_concurrent, word_count |-> word_count,
   atomic_counter |-> atomic_counter, atomic_performance |-> atomic_performance,
   compare_and_swap_twice |-> compare_and_swap_twice, fetch_and_add |-> fetch_and_add,
   flags |-> flags, atomic_accumulation |-> atomic_accumulation,
   accumulation |-> accumulation, ets_performance |-> ets_performance, histogram |-> histogram,
   buffers |-> buffers, custom_init |-> custom_init, ets_combine |-> ets_combine,
   text_processing |-> text_processing]
=============================================================================
