----------------------------- MODULE PrefixScan -----------------------------
(***************************************************************************)
(* The bodies handed to parallel_scan and parallel_reduce: examples 1 to 5 *)
(* of 03_parallel_scan.cpp, and the reductions of 02_parallel_reduce.cpp   *)
(* and of the loops that repeat them (31, 32, 33 and 35).  A body          *)
(* accumulates a value over adjacent ranges.  A reduction joins bodies     *)
(* until one covers the whole; a scan first runs without output where what *)
(* lies to the left is not known yet (the pre-scan), joins, and then runs  *)
(* again with output (the final scan).  Example 1 of the scans writes the  *)
(* four operations of a body out, the others hand two lambdas to the       *)
(* library.                                                                *)
(*                                                                         *)
(* The scheduler is outside the repository: which ranges are accumulated,  *)
(* joined and scanned, and in what order, is free within the protocols of  *)
(* parallel_scan and parallel_reduce.  Ranges and vectors are 1-based here.*)
(***************************************************************************)
EXTENDS Integers, Sequences, FiniteSetsExt

CONSTANTS Examples,  \* out of Scans and Reductions
          Inputs,    \* the vectors scanned, all of length N
          N,
          Half,      \* 2^(w-1): an int lies in -Half .. Half-1
          BINS,      \* the bins of the histogram, each one wide
          MaxBodies  \* bound: bodies alive at a time

\* "sum" is in examples 1, 2 and 5 of the scans, "max" in 3, "count" in 4.
Scans == {"sum", "max", "count"}
Reductions == {"total", "minimum", "dot", "find", "stats", "histogram"}

ASSUME ScanAssumption ==
  /\ Examples \subseteq Scans \cup Reductions
  /\ N \in Nat \ {0} /\ Half \in Nat \ {0} /\ BINS \in Nat \ {0} /\ MaxBodies \in Nat \ {0}
  /\ N < Half  \* the number of elements is an int
  /\ \A s \in Inputs : s \in Seq((-Half)..(Half - 1)) /\ Len(s) = N

VARIABLES example,   \* which of them runs
          input,
          output,    \* output, or indices in example 4
          bodies,    \* the bodies: what each has accumulated, [from, to) and sum
          final,     \* the indices the final scan has passed
          total,     \* the sum of the caller's body
          returned,  \* parallel_scan has returned
          packed     \* example 4: packed

scanVars == <<example, input, output, bodies, final, total, returned, packed>>

Ints == (-Half)..(Half - 1)

\* Mutant: a wider int.
NoWrap(x) == x

\* int arithmetic, as the builds do it.
Wrap(x) == ((x + Half) % (2 * Half)) - Half

FindResult(i, v) == [index |-> i, value |-> v]
Stats(s, sq, c) == [sum |-> s, sum_sq |-> sq, count |-> c]

Identity == CASE example = "max" -> -Half
              [] example = "minimum" -> Half - 1
              [] example = "find" -> FindResult(0, -Half)
              [] example = "stats" -> Stats(0, 0, 0)
              [] example = "histogram" -> [bin \in 0 .. BINS - 1 |-> 0]
              [] OTHER -> 0

\* One iteration of the loop: temp += input[i] ...
PrefixSum(acc, x) == Wrap(acc + x)

\* ... current_max = max(current_max, input[i]) ...
RunningMaximum(acc, x) == IF x > acc THEN x ELSE acc

\* ... if(input[i] > 0) count++.
PositiveCount(acc, x) == IF x > 0 THEN Wrap(acc + 1) ELSE acc

\* ... current_min = min(current_min, data[i]) ...
Minimum(acc, x) == IF x < acc THEN x ELSE acc

\* ... sum += a[i] * b[i], where b[i] is N - i, counting from 0 ...
DotProduct(acc, i) == Wrap(acc + input[i] * (N - (i - 1)))

\* ... if(data[i] > current.value) current is data[i] at i ...
FindMaximum(acc, i) == IF input[i] > acc.value THEN FindResult(i, input[i]) ELSE acc

\* ... s.sum += data[i], s.sum_sq += data[i] * data[i], s.count++ ...
Statistics(acc, x) == Stats(Wrap(acc.sum + x), Wrap(acc.sum_sq + x * x), acc.count + 1)

\* ... hist[bin]++ with bin = min(data[i] / width, BINS - 1).
Histogram(acc, x) == [acc EXCEPT ![Minimum(x, BINS - 1)] = @ + 1]

Apply(acc, i) == CASE example \in {"sum", "total"} -> PrefixSum(acc, input[i])
                   [] example = "max" -> RunningMaximum(acc, input[i])
                   [] example = "count" -> PositiveCount(acc, input[i])
                   [] example = "minimum" -> Minimum(acc, input[i])
                   [] example = "dot" -> DotProduct(acc, i)
                   [] example = "find" -> FindMaximum(acc, i)
                   [] example = "stats" -> Statistics(acc, input[i])
                   [] example = "histogram" -> Histogram(acc, input[i])

\* reverse_join, or the join of a reduction: a is what lies to the left of b.
\* Of two equal maxima the right one is found.
Combine(a, b) ==
  CASE example = "max" -> RunningMaximum(a, b)
    [] example = "minimum" -> Minimum(a, b)
    [] example = "find" -> IF a.value > b.value THEN a ELSE b
    [] example = "stats" -> Stats(Wrap(a.sum + b.sum), Wrap(a.sum_sq + b.sum_sq), a.count + b.count)
    [] example = "histogram" -> [bin \in DOMAIN a |-> a[bin] + b[bin]]
    [] OTHER -> Wrap(a + b)

ScanInit == /\ example \in Examples
            /\ input \in Inputs
            /\ example = "histogram" => \A i \in 1..N : input[i] >= 0
            /\ output = [i \in 1..N |-> 0]
            /\ bodies = {[from |-> 1, to |-> 1, sum |-> Identity]}
            /\ final = {}
            /\ total = Identity
            /\ returned = FALSE
            /\ packed = <<>>

\* The loop over [from, to) that starts with acc.
Scan(acc, from, to) ==
  LET temp[i \in from..to] == IF i = from THEN acc ELSE Apply(temp[i - 1], i - 1)
  IN  temp[to]

\* The bodies when b has gone on up to to.
Extended(b, to) == (bodies \ {b}) \cup {[b EXCEPT !.to = to, !.sum = Scan(b.sum, b.to, to)]}
Joined(a, b) == [from |-> a.from, to |-> b.to, sum |-> Combine(a.sum, b.sum)]
-----------------------------------------------------------------------------
\* Mutant: the new body keeps the sum of the one it is split from.
SplitKeepSum(b, at) ==
  /\ at > b.to /\ \A c \in bodies : at \notin c.from..c.to
  /\ Cardinality(bodies) < MaxBodies
  /\ bodies' = bodies \cup {[from |-> at, to |-> at, sum |-> b.sum]}
  /\ UNCHANGED <<example, input, output, final, total, returned, packed>>

\* The splitting constructor, for a body that is to start further right.
SplitBody(b, at) ==
  /\ at > b.to /\ \A c \in bodies : at \notin c.from..c.to
  /\ Cardinality(bodies) < MaxBodies
  /\ bodies' = bodies \cup {[from |-> at, to |-> at, sum |-> Identity]}
  /\ UNCHANGED <<example, input, output, final, total, returned, packed>>

\* What lies left of b.from is not known to b.
PreScan(b, to) ==
  /\ example \in Scans
  /\ b.from > 1
  /\ \A c \in bodies : c.from >= to \/ c.from <= b.from
  /\ (b.to..(to - 1)) \cap final = {}
  /\ bodies' = Extended(b, to)
  /\ UNCHANGED <<example, input, output, final, total, returned, packed>>

\* Mutant: the output is written before the element is added.
FinalScanExclusive(b, to) ==
  /\ example \in Scans
  /\ b.from = 1
  /\ (b.to..(to - 1)) \cap final = {}
  /\ output' = [i \in 1..N |->
                  IF b.to <= i /\ i < to THEN Scan(b.sum, b.to, i) ELSE output[i]]
  /\ final' = final \cup (b.to..(to - 1))
  /\ bodies' = Extended(b, to)
  /\ UNCHANGED <<example, input, total, returned, packed>>

\* b has all that lies to the left of the range.
FinalScan(b, to) ==
  /\ example \in Scans
  /\ b.from = 1
  /\ (b.to..(to - 1)) \cap final = {}
  /\ output' = [i \in 1..N |->
                  IF b.to <= i /\ i < to THEN Scan(b.sum, b.to, i + 1) ELSE output[i]]
  /\ final' = final \cup (b.to..(to - 1))
  /\ bodies' = Extended(b, to)
  /\ UNCHANGED <<example, input, total, returned, packed>>

\* b.reverse_join(a); a is kept while its final scan of b's range is to come.
ReverseJoin(a, b) ==
  /\ example \in Scans
  /\ a # b /\ a.to = b.from /\ b.from > 1
  /\ bodies' = (IF a.from = 1 THEN bodies \ {b} ELSE bodies \ {a, b}) \cup {Joined(a, b)}
  /\ UNCHANGED <<example, input, output, final, total, returned, packed>>

\* The body of a reduction runs over the range to its right.
Accumulate(b, to) ==
  /\ example \in Reductions
  /\ \A c \in bodies : c.from >= to \/ c.from <= b.from
  /\ bodies' = Extended(b, to)
  /\ UNCHANGED <<example, input, output, final, total, returned, packed>>

\* a is joined with its right neighbour, which is gone.
Join(a, b) ==
  /\ example \in Reductions
  /\ a # b /\ a.to = b.from
  /\ bodies' = (bodies \ {a, b}) \cup {Joined(a, b)}
  /\ UNCHANGED <<example, input, output, final, total, returned, packed>>

\* The last body is assigned to the caller's, or its value is the result.
Return ==
  /\ ~returned
  /\ example \in Scans => final = 1..N
  /\ \E b \in bodies : b.from = 1 /\ b.to = N + 1 /\ total' = b.sum
  /\ returned' = TRUE
  /\ UNCHANGED <<example, input, output, bodies, final, packed>>

\* Mutant: every element is packed.
PackAll ==
  /\ returned /\ example = "count" /\ packed = <<>>
  /\ packed' = [k \in 1..output[N] |->
                  input[Max({i \in 1..N : output[i] = k} \cup {1})]]
  /\ UNCHANGED <<example, input, output, bodies, final, total, returned>>

\* Example 4: indices says where each positive element goes.
Pack ==
  /\ returned /\ example = "count" /\ packed = <<>>
  /\ packed' = [k \in 1..output[N] |->
                  LET at == {i \in 1..N : input[i] > 0 /\ output[i] = k}
                  IN  IF at = {} THEN 0 ELSE input[Max(at)]]
  /\ UNCHANGED <<example, input, output, bodies, final, total, returned>>
-----------------------------------------------------------------------------
ScanFinished == returned /\ UNCHANGED scanVars

ScanNext == \/ /\ ~returned
               /\ \E b \in bodies : \/ \E at \in 2..N : SplitBody(b, at)
                                    \/ \E to \in (b.to + 1)..(N + 1) : \/ PreScan(b, to)
                                                                       \/ FinalScan(b, to)
                                                                       \/ Accumulate(b, to)
                                    \/ \E a \in bodies : ReverseJoin(a, b) \/ Join(a, b)
            \/ Return \/ Pack \/ ScanFinished

ScanSpec == ScanInit /\ [][ScanNext]_scanVars
-----------------------------------------------------------------------------
\* The sequential loop over input[from .. to-1].
Sequential(from, to) == Scan(Identity, from, to)

Values == CASE example = "find" -> [index : 0..N, value : Ints]
            [] example = "stats" -> [sum : Ints, sum_sq : Ints, count : 0..N]
            [] example = "histogram" -> [0 .. BINS - 1 -> 0..N]
            [] OTHER -> Ints

\* Type invariant: what bodies accumulate stays in the range of an int, and the
\* ranges within the vector.
ScanTypeOK == /\ example \in Examples
              /\ input \in Inputs
              /\ output \in [1..N -> Ints]
              /\ bodies \subseteq [from : 1..N, to : 1..(N + 1), sum : Values]
              /\ \A b \in bodies : b.from <= b.to
              /\ final \subseteq 1..N
              /\ total \in Values
              /\ returned \in BOOLEAN
              /\ packed \in Seq(Ints)

\* Two values of the same range: of several maxima either may be found, if it is
\* where the index says.
Agree(x, y) ==
  IF example = "find"
  THEN x.value = y.value /\ (x.index # 0 => input[x.index] = x.value)
  ELSE x = y

\* A body has exactly the value of the elements it covers, however it came to
\* cover them: scanned in pieces, joined, wrapped around or split off; and the
\* caller ends up with the value of the whole vector.
PartialSums == /\ \A b \in bodies : Agree(b.sum, Sequential(b.from, b.to))
               /\ returned => Agree(total, Sequential(1, N + 1))

\* What a final scan has written is the value of everything up to that element,
\* also where the value to the left was put together by joins.
OutputsFinal == \A i \in final : output[i] = Sequential(1, i + 1)

\* The positive elements among the first n.
Positive(n) == {i \in 1..n : input[i] > 0}

\* Example 4 packs the positive elements, in order and without gaps: each is
\* where the number of those up to it says.
PacksPositives ==
  example = "count" /\ packed # <<>> =>
    /\ Len(packed) = Cardinality(Positive(N))
    /\ \A i \in Positive(N) : packed[Cardinality(Positive(i))] = input[i]
=============================================================================
