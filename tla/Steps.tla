------------------------------- MODULE Steps -------------------------------
(***************************************************************************)
(* The steps the bodies of the guide's programs are made of, as far as     *)
(* other threads can tell them apart: an access to a variable, an          *)
(* operation on a mutex, a test of a value read before, the start of tasks *)
(* and the wait for them.  The body of a task is a sequence of steps.      *)
(***************************************************************************)
EXTENDS Integers, Sequences, FiniteSets

CONSTANT Threads  \* the threads that run the programs

\* A variable is <<name, index>>.  Index Self is the thread's own copy of
\* an enumerable_thread_specific; index Wrapped is the number of the thread,
\* wrapped around into an array of two.
V(name) == <<name, 0>>
El(name, i) == <<name, i>>
Self == -1
Wrapped == -3
Own(name) == <<name, Self>>

\* No value: a key that is not in a map, the result of a failed try_pop.
Absent == -2

\* Where the largest item of a sequence is.
Most(x) == CHOOSE i \in DOMAIN x : \A j \in DOMAIN x : x[j] <= x[i]

\* What an access makes of the value x it finds.
Changed(fn, arg, x) ==
  CASE fn = "is" -> arg
    [] fn = "same" -> x
    [] fn = "plus" -> x + arg
    [] fn = "times" -> x * arg
    [] fn = "square" -> x * x
    [] fn = "over" -> x \div arg
    [] fn = "push" -> Append(x, arg)
    [] fn = "offer" -> Append(x, arg[1])
    [] fn \in {"pop", "take"} -> IF x = <<>> THEN x ELSE Tail(x)
    [] fn = "popmost" -> IF x = <<>> THEN x ELSE SubSeq(x, 1, Most(x) - 1) \o SubSeq(x, Most(x) + 1, Len(x))
    [] fn = "put" -> [k \in DOMAIN x \cup {arg[1]} |-> IF k = arg[1] THEN arg[2] ELSE x[k]]
    [] fn = "insert" -> IF x = Absent THEN arg ELSE x
    [] fn = "swap" -> IF x = arg[1] THEN arg[2] ELSE x

\* What a read leaves in the reader's local variable r.
Seen(fn, arg, r, x) ==
  CASE fn = "get" -> x
    [] fn = "sum" -> r + x
    [] fn = "size" -> Len(x)
    [] fn = "sizes" -> r + Len(x)
    [] fn = "front" -> IF x = <<>> THEN Absent ELSE Head(x)
    [] fn = "find" -> IF arg \in DOMAIN x THEN x[arg] ELSE Absent

\* What an atomic update returns.
Returned(fn, x) ==
  CASE fn \in {"pop", "take"} -> Seen("front", 0, 0, x)
    [] fn = "popmost" -> IF x = <<>> THEN Absent ELSE x[Most(x)]
    [] fn \in {"push", "offer"} -> Len(x)
    [] OTHER -> x

\* A blocking pop waits for an item, a blocking push for room.
CanUpdate(fn, arg, x) == /\ fn = "take" => x # <<>>
                         /\ fn = "offer" => Len(x) < arg[2]

Read(v, fn, arg, atomic) ==
  [op |-> "read", var |-> v, fn |-> fn, arg |-> arg, atomic |-> atomic]
Write(v, fn, arg, atomic) ==
  [op |-> "write", var |-> v, fn |-> fn, arg |-> arg, atomic |-> atomic]

\* Plain accesses.  The number written is made of the one read before; a
\* container changes where it is.
Load(v) == Read(v, "get", 0, FALSE)
LoadSum(v) == Read(v, "sum", 0, FALSE)
LoadSize(v) == Read(v, "size", 0, FALSE)
LoadSizes(v) == Read(v, "sizes", 0, FALSE)
Find(v, key) == Read(v, "find", key, FALSE)
Store(v, x) == Write(v, "is", x, FALSE)
StoreRead(v) == Write(v, "same", 0, FALSE)
StoreOf(v, fn, arg) == Write(v, fn, arg, FALSE)
Add(v, n) == <<Load(v), StoreOf(v, "plus", n)>>
Change(v, fn, arg) ==
  [op |-> "change", var |-> v, fn |-> fn, arg |-> arg, atomic |-> FALSE]
PushBack(v, x) == <<LoadSize(v), Change(v, "push", x)>>
Put(v, key, x) == <<Find(v, key), Change(v, "put", <<key, x>>)>>

\* Accesses to atomics and operations of concurrent containers.
LoadAtomic(v) == Read(v, "get", 0, TRUE)
StoreAtomic(v, x) == Write(v, "is", x, TRUE)
Update(v, fn, arg) ==
  [op |-> "update", var |-> v, fn |-> fn, arg |-> arg, atomic |-> TRUE]
FetchAdd(v, n) == Update(v, "plus", n)
Spin(v, x) == [op |-> "spin", var |-> v, arg |-> x, atomic |-> TRUE]

\* A scoped_lock around steps; mode "r" shares a mutex, mode "w" does not.
Acquire(m, mode) == [op |-> "acquire", mutex |-> m, mode |-> mode]
TryAcquire(m) == [op |-> "try", mutex |-> m]
Release(m) == [op |-> "release", mutex |-> m]
Locked(m, steps) == <<Acquire(m, "w")>> \o steps \o <<Release(m)>>
ReadLocked(m, steps) == <<Acquire(m, "r")>> \o steps \o <<Release(m)>>

\* Tests of the value read last.
Skip(in, n) == [op |-> "skip", in |-> in, count |-> n]
If(values, then) == <<Skip(values, Len(then))>> \o then
IfElse(values, then, else) ==
  <<Skip(values, Len(then) + 1)>> \o then \o <<Skip({}, Len(else))>> \o else

\* Tasks: start a set of which at most width run at a time, counting all of
\* the arena; wait for a set.
StartIn(tasks, arena, width) ==
  [op |-> "start", tasks |-> tasks, arena |-> arena, width |-> width, threads |-> FALSE]
Start(tasks, width) == StartIn(tasks, tasks, width)
Wait(tasks) == [op |-> "wait", tasks |-> tasks]
Parallel(tasks, width) == <<Start(tasks, width), Wait(tasks)>>

\* std::threads, which nobody who waits can run, and their join, in which the
\* caller runs nothing else.
Spawn(tasks) == [op |-> "start", tasks |-> tasks, arena |-> tasks,
                 width |-> Cardinality(tasks), threads |-> TRUE]
Join(tasks) == [op |-> "join", tasks |-> tasks]
=============================================================================
