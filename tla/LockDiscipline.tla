--------------------------- MODULE LockDiscipline ---------------------------
(***************************************************************************)
(* When the text of a program of SharedMemory alone shows that it has no   *)
(* data race: any two accesses that conflict are made under a common       *)
(* mutex, or one before the start or after the end of the other's task.    *)
(* This is the rule the guide's programs follow.  What is known at each    *)
(* step of the text is given as constants; Disciplined says that it is     *)
(* consistent with the steps and enough.                                   *)
(***************************************************************************)
EXTENDS SharedMemory

CONSTANTS Guarded,  \* the programs that follow the rule
          Holds,    \* Holds[p][j][i]: the <<mutex, mode>> task j has before step i
          Ended     \* Ended[p][j][i]: the tasks that are over by then

\* The places of a body: before each step, and after the last.
Places(p, j) == 1 .. Len(Code[p][j]) + 1

\* Where a task can go on after its i-th step s.
NextPlaces(s, i) ==
  IF s.op = "skip" THEN {i + 1 + s.count} \cup (IF s.in = {} THEN {} ELSE {i + 1}) ELSE {i + 1}

\* The mutexes held after step s by a task that held those of known before.
HeldAfter(s, known) ==
  CASE s.op = "acquire" -> known \cup {<<s.mutex, s.mode>>}
    [] s.op = "release" -> {h \in known : h[1] # s.mutex}
    [] OTHER -> known

\* The tasks that are over after step s, if those of known were before and those
\* of atEnd[k] when task k was over.
EndedAfter(s, known, atEnd) ==
  IF s.op \in {"wait", "join"} THEN known \cup s.tasks \cup UNION {atEnd[k] : k \in s.tasks} ELSE known

AtEnd(p) == [k \in Tasks(p) |-> Ended[p][k][Len(Code[p][k]) + 1]]

\* Step i of task k starts task j.
StartedBy(p, j, k, i) == Code[p][k][i].op = "start" /\ j \in Code[p][k][i].tasks
-----------------------------------------------------------------------------
(* The conditions. *)

\* The steps of task j are such as the constructors of Steps make; no jump leaves
\* the body or passes over the start of a task.
WellFormed(p, j) ==
  \A i \in DOMAIN Code[p][j] :
    LET s == Code[p][j][i] IN
    /\ s.op = "skip" => /\ s.count \in Nat /\ i + s.count <= Len(Code[p][j])
                        /\ \A n \in i + 1 .. i + s.count : Code[p][j][n].op # "start"
    /\ s.op = "acquire" => s.mode \in {"r", "w"}
    /\ s.op \in {"start", "wait", "join"} => s.tasks \subseteq Tasks(p)

\* No two steps start the same task, and none starts main.
StartedOnce(p) ==
  \A j, k, l \in Tasks(p) : \A i \in DOMAIN Code[p][k], n \in DOMAIN Code[p][l] :
    StartedBy(p, j, k, i) /\ StartedBy(p, j, l, n) => j # Main /\ k = l /\ i = n

\* What is said to be known at a place is known on every way there.
Consistent(p) ==
  /\ \A j \in Tasks(p) :
       /\ Holds[p][j][1] = {}
       /\ \A i \in Places(p, j) : Ended[p][j][i] \subseteq Tasks(p)
       /\ \A i \in DOMAIN Code[p][j] : \A n \in NextPlaces(Code[p][j][i], i) :
            /\ Holds[p][j][n] \subseteq HeldAfter(Code[p][j][i], Holds[p][j][i])
            /\ Ended[p][j][n] \subseteq EndedAfter(Code[p][j][i], Ended[p][j][i], AtEnd(p))
  /\ Ended[p][Main][1] = {}
  /\ \A j, k \in Tasks(p) : \A i \in DOMAIN Code[p][k] :
       StartedBy(p, j, k, i) => Ended[p][j][1] \subseteq Ended[p][k][i]

\* The steps s and t, run by two threads, can access the same variable, and one
\* of them writes it and one is not atomic.
MayConflict(s, t) ==
  /\ s.op \in Accesses /\ t.op \in Accesses /\ {s.op, t.op} \cap Writes # {}
  /\ ~(s.atomic /\ t.atomic)
  /\ s.var[1] = t.var[1]
  /\ \/ s.var[2] = t.var[2] /\ s.var[2] # Self
     \/ s.var[2] # t.var[2] /\ {s.var[2], t.var[2]} \cap {Self, Wrapped} # {}

\* Step i of task j is over when task k begins, or k is over when it comes.
Ordered(p, j, i, k) ==
  \/ k \in Ended[p][j][i]
  \/ \E n \in DOMAIN Code[p][j] : n >= i /\ StartedBy(p, k, j, n)

CommonMutex(p, j, i, k, n) ==
  \E g \in Holds[p][j][i], h \in Holds[p][k][n] : g[1] = h[1] /\ ~(g[2] = "r" /\ h[2] = "r")

Protected(p) ==
  \A j, k \in Tasks(p) : \A i \in DOMAIN Code[p][j], n \in DOMAIN Code[p][k] :
    j # k /\ MayConflict(Code[p][j][i], Code[p][k][n])
      => Ordered(p, j, i, k) \/ Ordered(p, k, n, j) \/ CommonMutex(p, j, i, k, n)

\* By the end of main every other task is over.
WaitsForAll(p) == Tasks(p) \ {Main} \subseteq AtEnd(p)[Main]

Disciplined(p) == /\ \A j \in Tasks(p) : WellFormed(p, j)
                  /\ StartedOnce(p) /\ Consistent(p) /\ Protected(p)

ASSUME GuardedAssumption == Guarded \subseteq Programs /\ \A p \in Guarded : Disciplined(p)
ASSUME AttachedAssumption == \A p \in Guarded \ Detached : WaitsForAll(p)
=============================================================================
