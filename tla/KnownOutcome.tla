---------------------------- MODULE KnownOutcome ----------------------------
(***************************************************************************)
(* When the text of a program of SharedMemory alone shows what its numbers *)
(* are in the end: the updates of a variable are additions that do not     *)
(* overlap, in whatever order they come, or the value it has before an     *)
(* assignment is known.  This is how the guide's programs say what they    *)
(* are expected to print.  What each task has added to each variable, and  *)
(* what is known of its local variable, is given for each place of the     *)
(* text; Accounted says that it is consistent with the steps.              *)
(***************************************************************************)
EXTENDS LockDiscipline, Functions

CONSTANTS Exact,  \* the programs whose outcome the text shows
          Gives,  \* Gives[p][v][j][i]: what task j has added to v before step i
          Knows   \* Knows[p][j][i]: the value of its local variable then, or nothing

\* The variables that are accounted for.
Tracked(p) == DOMAIN Gives[p]

\* Where task k may be while task j is before step i: at its end if it is over
\* by then, at its start if j starts it later, past the step that starts j, and
\* not where j would be over.
Meanwhile(p, j, i, k) ==
  LET started == {n \in DOMAIN Code[p][k] : StartedBy(p, j, k, n)}
      over == k \in Ended[p][j][i]
      to == IF \E n \in DOMAIN Code[p][j] : n >= i /\ StartedBy(p, k, j, n) THEN 1 ELSE Len(Code[p][k]) + 1
  IN  {m \in Places(p, k) : /\ over => m = Len(Code[p][k]) + 1
                            /\ m <= to
                            /\ \A n \in started : n < m
                            /\ m = 1 \/ j \notin Ended[p][k][m]}

\* What it may have added to v by then.
Added(p, v, j, i, k) == {Gives[p][v][k][m] : m \in Meanwhile(p, j, i, k)}

\* For every other task that is one amount: the value of v is known.
Settled(p, v, j, i) ==
  \A k \in Tasks(p) \ {j} : LET added == Added(p, v, j, i, k) IN \A x, y \in added : x = y

Value(p, v, j, i) ==
  Memory[p][v] + SumFunction([k \in Tasks(p) |-> IF k = j THEN Gives[p][v][j][i]
                                           ELSE CHOOSE x \in Added(p, v, j, i, k) : TRUE])

\* What variable v has in the end.
Sum(p, v) == Memory[p][v] + SumFunction([k \in Tasks(p) |-> Gives[p][v][k][Len(Code[p][k]) + 1]])
-----------------------------------------------------------------------------
(* The conditions. *)

\* Step s may change variable v.
MayWrite(s, v) == /\ s.op \in Writes /\ s.var[1] = v[1]
                  /\ s.var[2] = v[2] \/ s.var[2] \in {Self, Wrapped}

\* Step i of task j writes what the step before it has read, and an amount more.
Increments(p, v, j, i) ==
  LET s == Code[p][j][i] IN
  /\ s.op = "write" /\ s.fn = "plus" /\ s.var = v /\ ~s.atomic
  /\ i > 1
  /\ LET r == Code[p][j][i - 1] IN r.op = "read" /\ r.fn = "get" /\ r.var = v
  /\ \A m \in DOMAIN Code[p][j] : i \in NextPlaces(Code[p][j][m], m) => m = i - 1

\* What step i of task j makes of v, where that is known.
Results(p, v, j, i) ==
  LET s == Code[p][j][i] IN
  CASE s.op = "write" /\ s.fn = "is" -> {s.arg}
    [] s.op = "write" /\ s.fn # "is" -> {Changed(s.fn, s.arg, x) : x \in Knows[p][j][i]}
    [] s.op = "update" -> {Changed(s.fn, s.arg, Value(p, v, j, i))}
    [] OTHER -> {}

\* The step adds an amount, or it assigns a known value to a variable whose value
\* is known, or it leaves v alone.
Adds(p, v, j, i) ==
  LET s == Code[p][j][i] IN
  IF ~MayWrite(s, v) THEN {0}
  ELSE IF (s.op = "update" /\ s.fn = "plus" /\ s.var = v) \/ Increments(p, v, j, i) THEN {s.arg}
  ELSE IF s.var = v /\ Settled(p, v, j, i) THEN {x - Value(p, v, j, i) : x \in Results(p, v, j, i) \cap Int}
  ELSE {}

\* What task j knows of its local variable after step i, if it knew that before.
Learns(p, j, i, before) ==
  LET s == Code[p][j][i]
      known == s.var \in Tracked(p) /\ Settled(p, s.var, j, i) IN
  CASE s.op = "read" /\ s.fn = "get" -> IF known THEN {Value(p, s.var, j, i)} ELSE {}
    [] s.op = "read" /\ s.fn = "sum" -> IF known THEN {x + Value(p, s.var, j, i) : x \in before} ELSE {}
    [] s.op = "read" /\ s.fn \notin {"get", "sum"} -> {}
    [] s.op = "update" -> IF known THEN {Returned(s.fn, Value(p, s.var, j, i))} ELSE {}
    [] s.op = "try" -> {}
    [] OTHER -> before

\* The accounts agree with the steps.
Accounted(p) ==
  \A j \in Tasks(p) :
    /\ Knows[p][j][1] \subseteq {0}
    /\ \A i \in DOMAIN Code[p][j] : \A n \in NextPlaces(Code[p][j][i], i) :
         Knows[p][j][n] \subseteq Learns(p, j, i, Knows[p][j][i])
    /\ \A v \in Tracked(p) :
         /\ Gives[p][v][j][1] = 0
         /\ \A i \in Places(p, j) : Gives[p][v][j][i] \in Int
         /\ \A i \in DOMAIN Code[p][j] : \A n \in NextPlaces(Code[p][j][i], i) :
              Gives[p][v][j][n] - Gives[p][v][j][i] \in Adds(p, v, j, i)

\* Numbers that the program has from the start, each under its own name.
Numbers(p) == \A v \in Tracked(p) : /\ v \in DOMAIN Memory[p] /\ Memory[p][v] \in Int
                                    /\ v = <<v[1], v[2]>> /\ v[2] \notin {Self, Wrapped}

\* The sums are one of the outcomes.
Expected(p) == \E o \in Outcomes[p] : \A v \in DOMAIN o : v \in Tracked(p) /\ o[v] = Sum(p, v)

Known(p) == /\ IsFiniteSet(Tasks(p)) /\ WaitsForAll(p)
            /\ Numbers(p) /\ Expected(p) /\ Accounted(p)

ASSUME ExactAssumption == Exact \subseteq Guarded \ Detached /\ \A p \in Exact : Known(p)
=============================================================================
