------------------------------ MODULE Examples ------------------------------
(***************************************************************************)
(* What the programs of SharedMemory have in common.  A program is its     *)
(* memory before any task starts, the outcomes it may end with, the body   *)
(* of main (task 0) and those of the tasks main starts.  Loops are N       *)
(* iterations long, and every index of a parallel_for is a task.           *)
(***************************************************************************)
EXTENDS Steps, SequencesExt

CONSTANT N  \* the iterations of a loop

Program(memory, outcomes, main, tasks) ==
  [memory |-> memory, outcomes |-> outcomes, code |-> (0 :> main) @@ tasks]

\* parallel_for over the indices S, on at most all threads.
All == Cardinality(Threads)
For(S) == Parallel(S, All)

\* std::threads, each joined.
Joined(S) == <<Spawn(S), Join(S)>>

\* The tasks of the k-th of several loops.
Phase(k) == (k - 1) * N + 1 .. k * N

\* A program of loops that follow each other, the k-th on widths[k] threads with
\* body bodies[k][i] for index i.
Loops(memory, outcomes, widths, bodies) ==
  LET upTo[k \in 0 .. Len(widths)] ==
        IF k = 0 THEN <<>> ELSE upTo[k - 1] \o Parallel(Phase(k), widths[k])
  IN  Program(memory, outcomes, upTo[Len(widths)],
              [j \in 1 .. N * Len(widths) |-> bodies[(j - 1) \div N + 1][1 + ((j - 1) % N)]])

\* One parallel_for, or two, on all threads.
Loop(memory, outcomes, body) == Loops(memory, outcomes, <<All>>, <<body>>)
TwoLoops(memory, outcomes, body1, body2) ==
  Loops(memory, outcomes, <<All, All>>, <<body1, body2>>)

\* The same steps for every index.
Each(steps) == [i \in 1..N |-> steps]

\* n steps one after the other, iteration i made of Iteration(i).
Repeat(n, Iteration(_)) ==
  LET upTo[i \in 0..n] == IF i = 0 THEN <<>> ELSE upTo[i - 1] \o Iteration(i)
  IN  upTo[n]

\* while(test sees one of values) body, of which the test fails by the n-th time.
While(n, test, values, body) ==
  LET loop[i \in 0..n] == IF i = 0 THEN <<>> ELSE test \o If(values, body \o loop[i - 1])
  IN  loop[n]

\* The slots of an enumerable_thread_specific, and main adding them up in the
\* variable total.
Slots(name, x) == [v \in {El(name, t) : t \in Threads} |-> x]
combine(name, first(_), next(_), total) ==
  LET threads == SetToSeq(Threads) IN
  [k \in DOMAIN threads |-> IF k = 1 THEN first(El(name, threads[k])) ELSE next(El(name, threads[k]))]
  \o <<StoreRead(V(total))>>
Total(name, total) == combine(name, Load, LoadSum, total)

\* The one outcome in which the variables of values have those values.
Ends(values) == {values}

\* Elements of an array, all with one value or each with its own.
Elements(name, x) == [v \in {El(name, i) : i \in 1..N} |-> x]
ElementsOf(name, X(_)) == [v \in {El(name, i) : i \in 1..N} |-> X(v[2])]

\* A counter that N iterations of a loop increment.
Counted(name) == Ends(V(name) :> N)
Zero(name) == V(name) :> 0

\* An iteration that touches nothing shared is counted when it has run.
Work == <<FetchAdd(V("work"), 1)>>
AllRan(n) == Ends(V("work") :> n)
WorkLoop(width) == Loops(Zero("work"), AllRan(N), <<width>>, <<Each(Work)>>)

\* Loops over data on the given numbers of threads, each of which changes every
\* element by fn; in the end an element is last.  A function of the old value
\* that is not simple is counted: the element is how often it was applied.
OverData(first, last, widths, fn, arg) ==
  Loops(Elements("data", first), Ends(Elements("data", last)), widths,
        [k \in DOMAIN widths |-> [i \in 1..N |-> <<Load(El("data", i)), StoreOf(El("data", i), fn, arg)>>]])

\* The same number of loops, each of which makes element i of data X(i).
Assign(data, X(_), widths) ==
  Loops(Elements(data, 0), Ends(ElementsOf(data, X)), widths,
        [k \in DOMAIN widths |-> [i \in 1..N |-> <<Store(El(data, i), X(i))>>]])

\* A loop over the cells of a grid of two by two, which makes each X(row, column).
Grid(data, X(_, _)) ==
  LET value(c) == X((c - 1) \div 2, (c - 1) % 2) IN
  Program([v \in {El(data, c) : c \in 1..4} |-> 0],
          Ends([v \in {El(data, c) : c \in 1..4} |-> value(v[2])]),
          For(1..4), [c \in 1..4 |-> <<Store(El(data, c), value(c))>>])

\* Main fills an array, or adds its elements up.
Fill(data, X(_)) == [i \in 1..N |-> Store(El(data, i), X(i))]
SumOf(data, total) == [i \in 1..N |-> IF i = 1 THEN Load(El(data, 1)) ELSE LoadSum(El(data, i))]
                      \o <<StoreRead(V(total))>>

\* The orders in which tasks can have come.
Orders(S) == {s \in [1..Cardinality(S) -> S] :
                \A i, j \in DOMAIN s : s[i] = s[j] => i = j}
\* The orders in which the items 10 * p + 1 and 10 * p + 2 of two tasks p can
\* come together: each task's in its own order.
InOrder(s) == \A p \in {1, 2} : \A k \in DOMAIN s :
                s[k] = 10 * p + 2 => \E l \in 1 .. k - 1 : s[l] = 10 * p + 1
Merges == {s \in Orders({11, 12, 21, 22}) : InOrder(s)}
=============================================================================
