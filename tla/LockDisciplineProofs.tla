------------------------ MODULE LockDisciplineProofs ------------------------
(***************************************************************************)
(* A program that follows the rule of LockDiscipline has no data race and  *)
(* its states are well typed, and one that waits for its tasks leaves none *)
(* running, on any number of threads and in whatever order the scheduler   *)
(* runs them. One whose text also fixes its sums, in the sense of          *)
(* KnownOutcome, ends with the outcome its example prints.                 *)
(***************************************************************************)
EXTENDS KnownOutcome, FiniteSetTheorems, TLAPS

\* Task j has been started: it is main, or the step that starts it is past.
Started(j) ==
  j = Main \/ \E k \in Tasks(program) : \E i \in DOMAIN Body(k) : StartedBy(program, j, k, i) /\ i < pc[k]

\* The inductive invariant.  What has a type:
Typed == /\ program \in Guarded
         /\ DOMAIN mem = DOMAIN Memory[program]
         /\ \A h \in held : /\ h = <<h[1], h[2], h[3]>>
                            /\ h[1] \in Tasks(program) /\ h[3] \in {"r", "w"}
         /\ DOMAIN reg = Tasks(program)
         /\ pc \in [Tasks(program) -> Nat]
         /\ \A j \in Tasks(program) : pc[j] \in Places(program, j)
         /\ ready \subseteq Tasks(program)
         /\ stack \in [Threads -> Seq(Tasks(program))]

\* A task is in one place on one stack.
OnceOnStacks == \A t, u \in Threads : \A a \in DOMAIN stack[t], b \in DOMAIN stack[u] :
                  stack[t][a] = stack[u][b] => t = u /\ a = b

\* What is on a stack is not over.
Unfinished == \A t \in Threads : \A a \in DOMAIN stack[t] : ~Done(stack[t][a])

\* What is ready has not begun and is on no stack.
Fresh == \A j \in ready : pc[j] = 1 /\ \A t \in Threads : \A a \in DOMAIN stack[t] : stack[t][a] # j

\* What is ready, on a stack, or under way has been started.
Begun == /\ \A j \in Tasks(program) : j \in ready \/ pc[j] # 1 => Started(j)
         /\ \A t \in Threads : \A a \in DOMAIN stack[t] : Started(stack[t][a])

\* A mutex held twice is shared.
Exclusive == \A g, h \in held : g # h /\ g[2] = h[2] => g[3] = "r" /\ h[3] = "r"

\* What the text says of mutexes and of tasks that are over is so.
HoldsRight == \A j \in Tasks(program) : \A h \in Holds[program][j][pc[j]] : <<j, h[1], h[2]>> \in held
EndedRight == \A j \in Tasks(program) :
                Started(j) => \A k \in Ended[program][j][pc[j]] : Done(k)

Stacks == OnceOnStacks /\ Unfinished /\ Fresh /\ Begun
IInv == Typed /\ Stacks /\ Exclusive /\ HoldsRight /\ EndedRight
-----------------------------------------------------------------------------
(* What the assumptions say of a guarded program. *)

\* The body of a task of a program is a sequence that is not empty.
LEMMA Bodies ==
  ASSUME NEW p \in Programs, NEW j \in Tasks(p)
  PROVE  /\ Main \in Tasks(p)
         /\ Len(Code[p][j]) \in Nat \ {0}
         /\ DOMAIN Code[p][j] = 1 .. Len(Code[p][j])
BY ProgramsAssumption DEF Tasks

\* The conditions of the rule hold of a guarded program.
LEMMA Rule ==
  ASSUME NEW p \in Guarded
  PROVE  /\ p \in Programs
         /\ \A j \in Tasks(p) : WellFormed(p, j)
         /\ StartedOnce(p) /\ Consistent(p) /\ Protected(p)
BY GuardedAssumption DEF Disciplined

\* The places that follow a step are places of the body.
LEMMA NextIsPlace ==
  ASSUME NEW p \in Guarded, NEW j \in Tasks(p), NEW i \in DOMAIN Code[p][j],
         NEW n \in NextPlaces(Code[p][j][i], i)
  PROVE  n \in Places(p, j) /\ n > i
<1>1. p \in Programs /\ WellFormed(p, j)
  BY Rule
<1>2. Len(Code[p][j]) \in Nat /\ i \in 1 .. Len(Code[p][j])
  BY <1>1, Bodies
<1> QED
  BY <1>1, <1>2 DEF NextPlaces, WellFormed, Places

\* What is left of a sequence without its last element.
LEMMA Popped ==
  ASSUME NEW S, NEW s \in Seq(S), s # <<>>
  PROVE  LET r == SubSeq(s, 1, Len(s) - 1) IN
         /\ r \in Seq(S) /\ Len(r) = Len(s) - 1 /\ Len(s) \in Nat \ {0}
         /\ DOMAIN r = 1 .. Len(s) - 1 /\ DOMAIN s = 1 .. Len(s)
         /\ \A a \in DOMAIN r : r[a] = s[a]
<1>1. Len(s) \in Nat \ {0} /\ DOMAIN s = 1 .. Len(s)
  OBVIOUS
<1>2. \A a \in 1 .. Len(s) - 1 : s[a] \in S
  BY <1>1
<1>3. SubSeq(s, 1, Len(s) - 1) = [a \in 1 .. Len(s) - 1 |-> s[a]]
  BY <1>1
<1> QED
  BY <1>1, <1>2, <1>3

\* A sequence with an element more.
LEMMA Pushed ==
  ASSUME NEW S, NEW s \in Seq(S), NEW x \in S
  PROVE  LET r == Append(s, x) IN
         /\ r \in Seq(S) /\ Len(r) = Len(s) + 1 /\ Len(s) \in Nat
         /\ DOMAIN r = 1 .. Len(s) + 1 /\ DOMAIN s = 1 .. Len(s)
         /\ \A a \in DOMAIN s : r[a] = s[a]
         /\ r[Len(s) + 1] = x
OBVIOUS
-----------------------------------------------------------------------------
(* Every step but the taking of a task moves the task of one thread on.     *)

\* Thread t goes on to place n.
Move(t, n) ==
  LET j == Current(t) IN
  /\ Busy(t)
  /\ n \in NextPlaces(Here(t), pc[j])
  /\ pc' = [pc EXCEPT ![j] = n]
  /\ stack' = IF n > Len(Body(j)) THEN [stack EXCEPT ![t] = SubSeq(@, 1, Len(@) - 1)] ELSE stack
  /\ program' = program /\ DOMAIN mem' = DOMAIN mem /\ DOMAIN reg' = DOMAIN reg

\* What the step does to the mutexes, and to the tasks.
MutexEffect(t) ==
  LET j == Current(t)
      s == Here(t) IN
  \/ s.op = "acquire" /\ Free(s.mutex, s.mode) /\ held' = held \cup {<<j, s.mutex, s.mode>>}
  \/ s.op = "try" /\ (\/ held' = held
                      \/ Free(s.mutex, "w") /\ held' = held \cup {<<j, s.mutex, "w">>})
  \/ s.op = "release" /\ held' = {h \in held : h[1] # j \/ h[2] # s.mutex}
  \/ s.op \notin {"acquire", "try", "release"} /\ held' = held
TaskEffect(t) ==
  LET s == Here(t) IN
  \/ s.op = "start" /\ ready' = ready \cup s.tasks
  \/ s.op \in {"wait", "join"} /\ ready' = ready /\ \A k \in s.tasks : Done(k)
  \/ s.op \notin {"start", "wait", "join"} /\ ready' = ready

\* What it does to the variables.
DataEffect(t) ==
  LET j == Current(t)
      s == Here(t)
      a == Address(t, s.var) IN
  \/ s.op = "read" /\ mem' = mem /\ reg' = [reg EXCEPT ![j] = Seen(s.fn, s.arg, @, mem[a])]
  \/ s.op = "write" /\ mem' = [mem EXCEPT ![a] = Changed(s.fn, s.arg, reg[j])] /\ reg' = reg
  \/ s.op = "change" /\ mem' = [mem EXCEPT ![a] = Changed(s.fn, s.arg, @)] /\ reg' = reg
  \/ s.op = "update" /\ mem' = [mem EXCEPT ![a] = Changed(s.fn, s.arg, @)]
                     /\ reg' = [reg EXCEPT ![j] = Returned(s.fn, mem[a])]
  \/ s.op = "try" /\ mem' = mem /\ \E x : reg' = [reg EXCEPT ![j] = x]
  \/ s.op \notin {"read", "write", "change", "update", "try"} /\ mem' = mem /\ reg' = reg

Step(t, n) == Move(t, n) /\ MutexEffect(t) /\ TaskEffect(t) /\ DataEffect(t)

\* Where a busy thread is.
LEMMA Position ==
  ASSUME Typed, Unfinished, NEW t \in Threads, Busy(t)
  PROVE  /\ Len(stack[t]) \in DOMAIN stack[t]
         /\ Current(t) \in Tasks(program)
         /\ pc[Current(t)] \in DOMAIN Body(Current(t))
         /\ pc[Current(t)] \in Nat
         /\ Here(t) = Code[program][Current(t)][pc[Current(t)]]
<1>1. stack[t] \in Seq(Tasks(program)) /\ stack[t] # <<>>
  BY DEF Typed, Busy
<1>2. Len(stack[t]) \in DOMAIN stack[t] /\ Current(t) \in Tasks(program)
  BY <1>1 DEF Current
<1>3. ~Done(Current(t))
  BY <1>2 DEF Unfinished, Current
<1>4. pc[Current(t)] \in Places(program, Current(t)) /\ program \in Programs
  BY <1>2, GuardedAssumption DEF Typed
<1>5. /\ Len(Body(Current(t))) \in Nat
      /\ DOMAIN Body(Current(t)) = 1 .. Len(Body(Current(t)))
  BY <1>2, <1>4, Bodies DEF Body
<1>6. pc[Current(t)] \in 1 .. Len(Body(Current(t))) + 1
  BY <1>4 DEF Places, Body
<1> QED
  BY <1>2, <1>3, <1>5, <1>6 DEF Done, Here, Body

\* A task that is not over stands before a step; one that is, at its end.
LEMMA UnderWay ==
  ASSUME Typed, NEW j \in Tasks(program)
  PROVE  /\ pc[j] \in Nat /\ DOMAIN Code[program][j] = 1 .. Len(Code[program][j])
         /\ ~Done(j) => pc[j] \in DOMAIN Code[program][j]
         /\ Done(j) => pc[j] = Len(Code[program][j]) + 1 /\ pc[j] # 1
         /\ pc[j] \in DOMAIN Code[program][j] => ~Done(j)
<1>1. /\ Len(Code[program][j]) \in Nat \ {0}
      /\ DOMAIN Code[program][j] = 1 .. Len(Code[program][j])
  BY Bodies, GuardedAssumption DEF Typed
<1>2. pc[j] \in 1 .. Len(Code[program][j]) + 1
  BY DEF Typed, Places
<1> QED
  BY <1>1, <1>2 DEF Done, Body

\* A step that advances by k, other than a skip, is a move.
LEMMA Advances ==
  ASSUME Typed, Unfinished, NEW t \in Threads, NEW k, Busy(t),
         pc[Current(t)] + k \in NextPlaces(Here(t), pc[Current(t)]),
         Advance(t, k),
         program' = program, DOMAIN mem' = DOMAIN mem, DOMAIN reg' = DOMAIN reg
  PROVE  Move(t, pc[Current(t)] + k)
BY DEF Move, Advance

\* The actions of a thread are steps.
LEMMA Actions ==
  ASSUME Typed, Unfinished, NEW t \in Threads, Thread(t)
  PROVE  TakeTask(t) \/ \E n : Step(t, n)
<1> DEFINE i == pc[Current(t)]
           s == Here(t)
<1>1. ASSUME Busy(t), s.op # "skip", Advance(t, 1),
             program' = program, DOMAIN mem' = DOMAIN mem, DOMAIN reg' = DOMAIN reg
      PROVE  Move(t, i + 1)
  <2>1. i + 1 \in NextPlaces(s, i)
    BY <1>1 DEF NextPlaces
  <2> QED
    BY <1>1, <2>1, Advances
<1>2. CASE ReadVariable(t)
  <2>1. Move(t, i + 1)
    BY <1>1, <1>2 DEF ReadVariable, At
  <2> QED
    BY <1>2, <2>1 DEF ReadVariable, At, Step, MutexEffect, TaskEffect, DataEffect
<1>3. CASE WriteVariable(t)
  <2>1. Move(t, i + 1)
    BY <1>1, <1>3 DEF WriteVariable, At
  <2> QED
    BY <1>3, <2>1 DEF WriteVariable, At, Step, MutexEffect, TaskEffect, DataEffect
<1>4. CASE ChangeContainer(t)
  <2>1. Move(t, i + 1)
    BY <1>1, <1>4 DEF ChangeContainer, At
  <2> QED
    BY <1>4, <2>1 DEF ChangeContainer, At, Step, MutexEffect, TaskEffect, DataEffect
<1>5. CASE UpdateAtomic(t)
  <2>1. Move(t, i + 1)
    BY <1>1, <1>5 DEF UpdateAtomic, At
  <2> QED
    BY <1>5, <2>1 DEF UpdateAtomic, At, Step, MutexEffect, TaskEffect, DataEffect
<1>6. CASE SpinUntil(t)
  <2>1. Move(t, i + 1)
    BY <1>1, <1>6 DEF SpinUntil, At
  <2> QED
    BY <1>6, <2>1 DEF SpinUntil, At, Step, MutexEffect, TaskEffect, DataEffect
<1>7. CASE Branch(t)
  <2>1. PICK k : /\ k = IF reg[Current(t)] \in s.in THEN 1 ELSE 1 + s.count
                 /\ Advance(t, k)
    BY <1>7 DEF Branch
  <2>2. i + k \in NextPlaces(s, i)
    <3>1. i \in Nat /\ Current(t) \in Tasks(program) /\ i \in DOMAIN Body(Current(t))
          /\ s = Code[program][Current(t)][i] /\ s.op = "skip"
      BY <1>7, Position DEF Branch, At
    <3>2. WellFormed(program, Current(t))
      BY <3>1, Rule DEF Typed
    <3>3. s.count \in Nat
      BY <3>1, <3>2 DEF WellFormed, Body
    <3> QED
      BY <2>1, <3>1, <3>3 DEF NextPlaces
  <2>3. Move(t, i + k)
    BY <1>7, <2>1, <2>2, Advances DEF Branch, At
  <2> QED
    BY <1>7, <2>3 DEF Branch, At, Step, MutexEffect, TaskEffect, DataEffect
<1>8. CASE AcquireMutex(t)
  <2>1. Move(t, i + 1)
    BY <1>1, <1>8 DEF AcquireMutex, At
  <2> QED
    BY <1>8, <2>1 DEF AcquireMutex, At, Step, MutexEffect, TaskEffect, DataEffect
<1>9. CASE TryAcquireMutex(t)
  <2>1. Move(t, i + 1)
    BY <1>1, <1>9 DEF TryAcquireMutex, At
  <2> QED
    BY <1>9, <2>1 DEF TryAcquireMutex, At, Step, MutexEffect, TaskEffect, DataEffect
<1>10. CASE ReleaseMutex(t)
  <2>1. Move(t, i + 1)
    BY <1>1, <1>10 DEF ReleaseMutex, At
  <2> QED
    BY <1>10, <2>1 DEF ReleaseMutex, At, Step, MutexEffect, TaskEffect, DataEffect
<1>11. CASE StartTasks(t)
  <2>1. Move(t, i + 1)
    BY <1>1, <1>11 DEF StartTasks, At
  <2> QED
    BY <1>11, <2>1 DEF StartTasks, At, Step, MutexEffect, TaskEffect, DataEffect
<1>12. CASE WaitForTasks(t)
  <2>1. Move(t, i + 1)
    BY <1>1, <1>12 DEF WaitForTasks, At
  <2> QED
    BY <1>12, <2>1 DEF WaitForTasks, At, Step, MutexEffect, TaskEffect, DataEffect
<1> QED
  BY <1>2, <1>3, <1>4, <1>5, <1>6, <1>7, <1>8, <1>9, <1>10, <1>11, <1>12 DEF Thread
-----------------------------------------------------------------------------
(* What a move changes. *)

\* One program counter goes up; a stack only loses its last task, if that is over.
LEMMA Moved ==
  ASSUME Typed, Stacks, NEW t \in Threads, NEW n, Move(t, n)
  PROVE  LET j == Current(t) IN
         /\ j \in Tasks(program) /\ ~Done(j) /\ Started(j)
         /\ n \in Places(program, j) /\ n > pc[j] /\ pc[j] \in Nat
         /\ pc' \in [Tasks(program) -> Nat] /\ pc'[j] = n
         /\ \A k \in Tasks(program) : k # j => pc'[k] = pc[k]
         /\ stack' \in [Threads -> Seq(Tasks(program))]
         /\ \A u \in Threads : \A a \in DOMAIN stack'[u] :
              /\ a \in DOMAIN stack[u] /\ stack'[u][a] = stack[u][a]
              /\ stack[u][a] = j => n <= Len(Body(j))
<1> DEFINE j == Current(t)
<1> Busy(t) /\ Unfinished /\ Begun /\ OnceOnStacks
  BY DEF Move, Stacks
<1>1. /\ Len(stack[t]) \in DOMAIN stack[t] /\ j \in Tasks(program)
      /\ pc[j] \in DOMAIN Body(j) /\ pc[j] \in Nat /\ Here(t) = Code[program][j][pc[j]]
  BY Position
<1>2. ~Done(j) /\ Started(j)
  BY <1>1 DEF Unfinished, Begun, Current
<1>3. n \in Places(program, j) /\ n > pc[j]
  BY <1>1, NextIsPlace DEF Move, Typed, Body
<1>4. /\ pc' \in [Tasks(program) -> Nat] /\ pc'[j] = n
      /\ \A k \in Tasks(program) : k # j => pc'[k] = pc[k]
  <2>1. n \in Nat
    BY <1>1, <1>3, Bodies, GuardedAssumption DEF Typed, Places
  <2> QED
    BY <1>1, <2>1 DEF Move, Typed
<1>5. CASE n > Len(Body(j))
  <2>1. stack' = [stack EXCEPT ![t] = SubSeq(@, 1, Len(@) - 1)]
    BY <1>5 DEF Move
  <2>2. stack[t] \in Seq(Tasks(program)) /\ stack[t] # <<>>
    BY DEF Typed, Busy
  <2>3. LET r == SubSeq(stack[t], 1, Len(stack[t]) - 1) IN
        /\ r \in Seq(Tasks(program)) /\ Len(stack[t]) \in Nat \ {0}
        /\ DOMAIN r = 1 .. Len(stack[t]) - 1 /\ DOMAIN stack[t] = 1 .. Len(stack[t])
        /\ \A a \in DOMAIN r : r[a] = stack[t][a]
    BY <2>2, Popped
  <2>4. stack' \in [Threads -> Seq(Tasks(program))]
    BY <2>1, <2>3 DEF Typed
  <2>5. ASSUME NEW u \in Threads, NEW a \in DOMAIN stack'[u]
        PROVE  a \in DOMAIN stack[u] /\ stack'[u][a] = stack[u][a] /\ stack[u][a] # j
    <3>1. stack'[t] = SubSeq(stack[t], 1, Len(stack[t]) - 1) /\ (u # t => stack'[u] = stack[u])
      BY <2>1 DEF Typed
    <3>2. a \in DOMAIN stack[u] /\ stack'[u][a] = stack[u][a] /\ (u = t => a # Len(stack[t]))
      BY <2>3, <3>1
    <3>3. stack[t][Len(stack[t])] = j
      BY DEF Current
    <3> QED
      BY <1>1, <3>2, <3>3 DEF OnceOnStacks
  <2> QED
    BY <1>1, <1>2, <1>3, <1>4, <2>4, <2>5
<1>6. CASE ~(n > Len(Body(j)))
  <2>1. stack' = stack
    BY <1>6 DEF Move
  <2>2. n <= Len(Body(j))
    <3>1. Len(Body(j)) \in Nat
      BY <1>1, Bodies, GuardedAssumption DEF Typed, Body
    <3> QED
      BY <1>3, <1>6, <3>1 DEF Places
  <2> QED
    BY <1>1, <1>2, <1>3, <1>4, <2>1, <2>2 DEF Typed
<1> QED
  BY <1>5, <1>6

\* What is over stays over, and what has been started stays so.
LEMMA Monotone ==
  ASSUME Typed, Stacks, NEW t \in Threads, NEW n, Move(t, n), NEW k \in Tasks(program)
  PROVE  /\ Done(k) => Done(k)'
         /\ Started(k) => Started(k)'
<1> DEFINE j == Current(t)
<1>1. /\ j \in Tasks(program) /\ ~Done(j) /\ pc'[j] = n /\ n > pc[j] /\ pc[j] \in Nat
      /\ n \in Places(program, j)
      /\ \A l \in Tasks(program) : l # j => pc'[l] = pc[l]
  BY Moved
<1>2. program' = program
  BY DEF Move
<1>3. Done(k) => Done(k)'
  BY <1>1, <1>2 DEF Done, Body
<1>4. ASSUME Started(k), k # Main PROVE Started(k)'
  <2>1. PICK l \in Tasks(program) : \E i \in DOMAIN Body(l) : StartedBy(program, k, l, i) /\ i < pc[l]
    BY <1>4 DEF Started
  <2>2. PICK i \in DOMAIN Body(l) : StartedBy(program, k, l, i) /\ i < pc[l]
    BY <2>1
  <2>3. i \in Nat /\ n \in Nat /\ Len(Body(j)) \in Nat
    BY <1>1, <2>2, Bodies, GuardedAssumption DEF Typed, Body, Places
  <2>4. i < pc'[l]
    BY <1>1, <2>2, <2>3
  <2> QED
    BY <1>2, <2>2, <2>4 DEF Started, Body
<1>5. k = Main => Started(k)'
  BY DEF Started
<1> QED
  BY <1>3, <1>4, <1>5

\* A task that a step starts was not started before.
LEMMA NotStartedYet ==
  ASSUME Typed, Stacks, NEW j \in Tasks(program), NEW i \in DOMAIN Body(j), NEW k \in Tasks(program),
         StartedBy(program, k, j, i), i >= pc[j]
  PROVE  ~Started(k)
<1>1. SUFFICES ASSUME Started(k) PROVE FALSE
  OBVIOUS
<1>2. StartedOnce(program)
  BY Rule DEF Typed
<1>3. k # Main
  BY <1>2 DEF StartedOnce, Body
<1>4. PICK l \in Tasks(program) : \E m \in DOMAIN Body(l) : StartedBy(program, k, l, m) /\ m < pc[l]
  BY <1>1, <1>3 DEF Started
<1>5. PICK m \in DOMAIN Body(l) : StartedBy(program, k, l, m) /\ m < pc[l]
  BY <1>4
<1>6. l = j /\ m = i
  BY <1>2, <1>5 DEF StartedOnce, Body
<1>7. i \in Nat /\ pc[j] \in Nat
  BY Bodies, GuardedAssumption DEF Typed, Body, Places
<1> QED
  BY <1>5, <1>6, <1>7

\* A task that a move makes started is started by the step it makes.
LEMMA NewlyStarted ==
  ASSUME Typed, Stacks, NEW t \in Threads, NEW n, Move(t, n), NEW k \in Tasks(program),
         ~Started(k), Started(k)'
  PROVE  StartedBy(program, k, Current(t), pc[Current(t)])
<1> DEFINE j == Current(t)
           s == Code[program][j][pc[j]]
<1>1. /\ j \in Tasks(program) /\ pc'[j] = n /\ pc[j] \in Nat
      /\ \A l \in Tasks(program) : l # j => pc'[l] = pc[l]
  BY Moved
<1>2. program' = program /\ k # Main
  BY DEF Move, Started
<1>3. PICK l \in Tasks(program) : \E m \in DOMAIN Body(l) : StartedBy(program, k, l, m) /\ m < pc'[l]
  BY <1>2 DEF Started, Body
<1>4. PICK m \in DOMAIN Body(l) : StartedBy(program, k, l, m) /\ m < pc'[l]
  BY <1>3
<1>5. ~(m < pc[l])
  BY <1>4 DEF Started
<1>6. l = j
  BY <1>1, <1>4, <1>5
<1>7. m \in Nat /\ m >= pc[j] /\ m < n
  <2>1. m \in Nat
    BY <1>4, Bodies, GuardedAssumption DEF Typed, Body
  <2> QED
    BY <1>1, <1>4, <1>5, <1>6, <2>1
<1>8. m = pc[j]
  <2>1. n \in NextPlaces(s, pc[j]) /\ WellFormed(program, j) /\ pc[j] \in DOMAIN Code[program][j]
    BY <1>1, Position, Rule DEF Move, Stacks, Typed, Body
  <2>2. CASE s.op = "skip"
    <3>1. s.count \in Nat /\ \A x \in pc[j] + 1 .. pc[j] + s.count : Code[program][j][x].op # "start"
      BY <2>1, <2>2 DEF WellFormed
    <3>2. n <= pc[j] + 1 + s.count
      BY <1>1, <2>1, <2>2, <3>1 DEF NextPlaces
    <3>3. Code[program][j][m].op = "start"
      BY <1>4, <1>6 DEF StartedBy
    <3>4. n = pc[j] + 1 + s.count \/ n = pc[j] + 1
      BY <2>1, <2>2 DEF NextPlaces
    <3> QED
      BY <1>1, <1>7, <3>1, <3>3, <3>4
  <2>3. CASE s.op # "skip"
    <3>1. n = pc[j] + 1
      BY <2>1, <2>3 DEF NextPlaces
    <3> QED
      BY <1>1, <1>7, <3>1
  <2> QED
    BY <2>2, <2>3
<1> QED
  BY <1>4, <1>6, <1>8
-----------------------------------------------------------------------------
(* The invariant is inductive. *)

\* Main is all that exists at the start: the invariant holds.
LEMMA InitInvariant ==
  ASSUME Init, program \in Guarded
  PROVE  IInv
<1> USE DEF Init
<1>1. /\ program \in Programs /\ Main \in Tasks(program)
      /\ \A j \in Tasks(program) : Len(Body(j)) \in Nat \ {0} /\ DOMAIN Body(j) = 1 .. Len(Body(j))
  BY ProgramsAssumption DEF Tasks, Body
<1>2. Consistent(program)
  BY Rule
<1>3. Typed
  <2>1. stack \in [Threads -> Seq(Tasks(program))]
    BY <1>1
  <2>2. \A j \in Tasks(program) : pc[j] \in Places(program, j)
    BY <1>1 DEF Places, Body
  <2> QED
    BY <2>1, <2>2 DEF Typed
<1>4. \A t \in Threads : \A a \in DOMAIN stack[t] : t = MainThread /\ a = 1 /\ stack[t][a] = Main
  OBVIOUS
<1>5. Stacks
  <2>1. OnceOnStacks
    BY <1>4 DEF OnceOnStacks
  <2>2. Unfinished
    BY <1>1, <1>4 DEF Unfinished, Done
  <2>3. Fresh
    BY DEF Fresh
  <2>4. Begun
    BY <1>4 DEF Begun, Started
  <2> QED
    BY <2>1, <2>2, <2>3, <2>4 DEF Stacks
<1>6. Exclusive
  BY DEF Exclusive
<1>7. HoldsRight
  BY <1>2 DEF HoldsRight, Consistent
<1>8. EndedRight
  <2>1. ASSUME NEW j \in Tasks(program), Started(j) PROVE j = Main
    <3>1. \A k \in Tasks(program) : \A i \in DOMAIN Body(k) : ~(i < pc[k])
      BY <1>1
    <3> QED
      BY <2>1, <3>1 DEF Started
  <2> QED
    BY <1>1, <1>2, <2>1 DEF EndedRight, Consistent
<1> QED
  BY <1>3, <1>5, <1>6, <1>7, <1>8 DEF IInv

\* The facts about the current task that the following lemmas share.
LEMMA Stepping ==
  ASSUME IInv, NEW t \in Threads, NEW n, Step(t, n)
  PROVE  LET j == Current(t)
             i == pc[j] IN
         /\ Typed /\ Stacks /\ Move(t, n)
         /\ j \in Tasks(program) /\ i \in DOMAIN Code[program][j] /\ i \in Nat
         /\ Here(t) = Code[program][j][i] /\ n \in NextPlaces(Here(t), i)
         /\ WellFormed(program, j) /\ StartedOnce(program) /\ Consistent(program)
         /\ program' = program
BY Position, Rule DEF IInv, Step, Move, Stacks, Typed, Body

\* No step of a thread leaves the types.
LEMMA StepTyped ==
  ASSUME IInv, NEW t \in Threads, NEW n, Step(t, n)
  PROVE  Typed'
<1> DEFINE j == Current(t)
           s == Here(t)
<1>1. /\ Typed /\ Stacks /\ Move(t, n) /\ j \in Tasks(program) /\ program' = program
      /\ s = Code[program][j][pc[j]] /\ pc[j] \in DOMAIN Code[program][j] /\ WellFormed(program, j)
  BY Stepping
<1>2. /\ stack' \in [Threads -> Seq(Tasks(program))] /\ pc' \in [Tasks(program) -> Nat]
      /\ pc'[j] = n /\ n \in Places(program, j)
      /\ \A k \in Tasks(program) : k # j => pc'[k] = pc[k]
  BY <1>1, Moved
<1>3. \A h \in held' : h = <<h[1], h[2], h[3]>> /\ h[1] \in Tasks(program) /\ h[3] \in {"r", "w"}
  <2>1. s.op = "acquire" => s.mode \in {"r", "w"}
    BY <1>1 DEF WellFormed
  <2>2. \A h \in held : h = <<h[1], h[2], h[3]>> /\ h[1] \in Tasks(program) /\ h[3] \in {"r", "w"}
    BY <1>1 DEF Typed
  <2>3. \A h \in held' : h \in held \/ (\E m \in {"r", "w"} : h = <<j, s.mutex, m>>)
    BY <2>1 DEF Step, MutexEffect
  <2>4. ASSUME NEW h, NEW m \in {"r", "w"}, h = <<j, s.mutex, m>>
        PROVE  h = <<h[1], h[2], h[3]>> /\ h[1] \in Tasks(program) /\ h[3] \in {"r", "w"}
    BY <1>1, <2>4
  <2> QED
    BY <2>2, <2>3, <2>4
<1>4. ready' \subseteq Tasks(program)
  <2>1. s.op = "start" => s.tasks \subseteq Tasks(program)
    BY <1>1 DEF WellFormed
  <2> QED
    BY <1>1, <2>1 DEF Step, TaskEffect, Typed
<1> QED
  BY <1>1, <1>2, <1>3, <1>4 DEF Typed, Move, Places

\* Only the tasks a step starts become ready, and they were not started before.
LEMMA NewReady ==
  ASSUME IInv, NEW t \in Threads, NEW n, Step(t, n), NEW k \in ready', k \notin ready
  PROVE  /\ k \in Tasks(program) /\ StartedBy(program, k, Current(t), pc[Current(t)])
         /\ ~Started(k) /\ Started(k)'
<1> DEFINE j == Current(t)
           s == Here(t)
<1>1. /\ Typed /\ Stacks /\ Move(t, n) /\ j \in Tasks(program) /\ program' = program
      /\ s = Code[program][j][pc[j]] /\ pc[j] \in DOMAIN Code[program][j] /\ WellFormed(program, j)
      /\ pc[j] \in Nat
  BY Stepping
<1>2. s.op = "start" /\ k \in s.tasks
  BY DEF Step, TaskEffect
<1>3. k \in Tasks(program) /\ StartedBy(program, k, j, pc[j])
  BY <1>1, <1>2 DEF WellFormed, StartedBy
<1>4. ~Started(k)
  BY <1>1, <1>3, NotStartedYet DEF Body
<1>5. pc[j] < pc'[j]
  BY <1>1, Moved
<1>6. Started(k)'
  BY <1>1, <1>3, <1>5 DEF Started, Body
<1> QED
  BY <1>3, <1>4, <1>6

\* No step puts a task on two stacks, or back on one after its end.
LEMMA StepStacks ==
  ASSUME IInv, NEW t \in Threads, NEW n, Step(t, n)
  PROVE  Stacks'
<1> DEFINE j == Current(t)
<1>1. /\ Typed /\ Stacks /\ Move(t, n) /\ j \in Tasks(program) /\ program' = program
  BY Stepping
<1>2. /\ ~Done(j) /\ Started(j) /\ n \in Places(program, j)
      /\ pc'[j] = n /\ \A k \in Tasks(program) : k # j => pc'[k] = pc[k]
      /\ \A u \in Threads : \A a \in DOMAIN stack'[u] :
           /\ a \in DOMAIN stack[u] /\ stack'[u][a] = stack[u][a]
           /\ stack[u][a] = j => n <= Len(Body(j))
  BY <1>1, Moved
<1>3. Busy(t) /\ Len(stack[t]) \in DOMAIN stack[t] /\ j = stack[t][Len(stack[t])]
  BY <1>1, Position DEF Move, Stacks, Current
<1>4. ASSUME NEW u \in Threads, NEW a \in DOMAIN stack[u]
      PROVE  stack[u][a] \in Tasks(program)
  BY <1>1 DEF Typed
<1>5. OnceOnStacks'
  BY <1>1, <1>2 DEF OnceOnStacks, Stacks
<1>6. Unfinished'
  <2>1. SUFFICES ASSUME NEW u \in Threads, NEW a \in DOMAIN stack'[u]
                 PROVE  ~(pc'[stack'[u][a]] > Len(Body(stack'[u][a])))
    BY <1>1 DEF Unfinished, Done, Body
  <2>2. CASE stack[u][a] = j
    <3>1. n \in Nat /\ Len(Body(j)) \in Nat
      BY <1>1, <1>2, Bodies, GuardedAssumption DEF Typed, Places, Body
    <3> QED
      BY <1>2, <2>2, <3>1
  <2>3. CASE stack[u][a] # j
    BY <1>1, <1>2, <1>4, <2>3 DEF Stacks, Unfinished, Done
  <2> QED
    BY <2>2, <2>3
<1>7. Fresh'
  <2>1. ASSUME NEW k \in ready'
        PROVE  k \in Tasks(program) /\ pc[k] = 1
               /\ \A u \in Threads : \A a \in DOMAIN stack[u] : stack[u][a] # k
    <3>1. CASE k \in ready
      BY <1>1, <3>1 DEF Stacks, Fresh, Typed
    <3>2. CASE k \notin ready
      BY <1>1, <3>2, NewReady DEF Stacks, Begun
    <3> QED
      BY <3>1, <3>2
  <2> QED
    BY <1>2, <1>3, <2>1 DEF Fresh
<1>8. Begun'
  <2>1. ASSUME NEW k \in Tasks(program), k \in ready' \/ pc'[k] # 1
        PROVE  Started(k)'
    <3>1. CASE k \in ready' /\ k \notin ready
      BY <3>1, NewReady
    <3>2. CASE k \in ready \/ k # j
      BY <1>1, <1>2, <2>1, <3>2, <3>1, Monotone DEF Stacks, Begun
    <3>3. CASE k = j
      BY <1>1, <1>2, <3>3, Monotone
    <3> QED
      BY <3>1, <3>2, <3>3
  <2>2. ASSUME NEW u \in Threads, NEW a \in DOMAIN stack'[u]
        PROVE  Started(stack[u][a])'
    <3>1. PICK k \in Tasks(program) : k = stack[u][a]
      BY <1>2, <1>4
    <3>2. stack'[u][a] = k /\ Started(k)
      BY <1>1, <1>2, <3>1 DEF Stacks, Begun
    <3>3. Started(k)'
      BY <1>1, <3>2, Monotone
    <3> QED
      BY <3>2, <3>3 DEF Started
  <2> QED
    BY <1>1, <2>1, <2>2 DEF Begun
<1> QED
  BY <1>5, <1>6, <1>7, <1>8 DEF Stacks

\* No step lets two tasks hold a mutex unless both share it.
LEMMA StepExclusive ==
  ASSUME IInv, NEW t \in Threads, NEW n, Step(t, n)
  PROVE  Exclusive'
<1> DEFINE j == Current(t)
           s == Here(t)
<1>1. Exclusive
  BY DEF IInv
<1>2. ASSUME NEW m, Free(s.mutex, m), held' = held \cup {<<j, s.mutex, m>>}
      PROVE  Exclusive'
  <2>1. \A h \in held : h[2] = s.mutex => m = "r" /\ h[3] = "r"
    BY <1>2 DEF Free
  <2>2. \A g \in held' : g \in held \/ g = <<j, s.mutex, m>>
    BY <1>2
  <2>3. ASSUME NEW g \in held', NEW h \in held', g # h, g[2] = h[2]
        PROVE  g[3] = "r" /\ h[3] = "r"
    <3>1. CASE g \in held /\ h \in held
      BY <1>1, <2>3, <3>1 DEF Exclusive
    <3>2. CASE g \in held /\ h = <<j, s.mutex, m>>
      BY <2>1, <2>3, <3>2
    <3>3. CASE h \in held /\ g = <<j, s.mutex, m>>
      BY <2>1, <2>3, <3>3
    <3> QED
      BY <2>2, <2>3, <3>1, <3>2, <3>3
  <2> QED
    BY <2>3 DEF Exclusive
<1>3. ASSUME held' \subseteq held
      PROVE  Exclusive'
  BY <1>1, <1>3 DEF Exclusive
<1>4. \/ \E m : Free(s.mutex, m) /\ held' = held \cup {<<j, s.mutex, m>>}
      \/ held' \subseteq held
  BY DEF Step, MutexEffect
<1> QED
  BY <1>2, <1>3, <1>4

\* After a step every task still holds what Holds says it does where it is.
LEMMA StepHoldsRight ==
  ASSUME IInv, NEW t \in Threads, NEW n, Step(t, n)
  PROVE  HoldsRight'
<1> DEFINE j == Current(t)
           i == pc[j]
           s == Here(t)
<1>1. /\ Typed /\ Stacks /\ Move(t, n) /\ j \in Tasks(program) /\ program' = program
      /\ i \in DOMAIN Code[program][j] /\ s = Code[program][j][i] /\ n \in NextPlaces(s, i)
      /\ Consistent(program)
  BY Stepping
<1>2. pc'[j] = n /\ \A k \in Tasks(program) : k # j => pc'[k] = pc[k]
  BY <1>1, Moved
<1>3. HoldsRight
  BY DEF IInv
<1>4. ASSUME NEW k \in Tasks(program), k # j, NEW h \in Holds[program][k][pc[k]]
      PROVE  <<k, h[1], h[2]>> \in held'
  <2>1. <<k, h[1], h[2]>> \in held
    BY <1>3, <1>4 DEF HoldsRight
  <2>2. <<k, h[1], h[2]>>[1] # j
    BY <1>4
  <2> QED
    BY <2>1, <2>2 DEF Step, MutexEffect
<1>5. ASSUME NEW h \in Holds[program][j][n]
      PROVE  <<j, h[1], h[2]>> \in held'
  <2>1. h \in HeldAfter(s, Holds[program][j][i])
    BY <1>1, <1>5 DEF Consistent
  <2>2. CASE s.op = "acquire"
    <3>1. h \in Holds[program][j][i] \/ h = <<s.mutex, s.mode>>
      BY <2>1, <2>2 DEF HeldAfter
    <3>2. held' = held \cup {<<j, s.mutex, s.mode>>}
      BY <2>2 DEF Step, MutexEffect
    <3>3. CASE h = <<s.mutex, s.mode>>
      BY <3>2, <3>3
    <3> QED
      BY <1>1, <1>3, <3>1, <3>2, <3>3 DEF HoldsRight
  <2>3. CASE s.op = "release"
    <3>1. h \in Holds[program][j][i] /\ h[1] # s.mutex
      BY <2>1, <2>3 DEF HeldAfter
    <3>2. held' = {x \in held : x[1] # j \/ x[2] # s.mutex}
      BY <2>3 DEF Step, MutexEffect
    <3>3. <<j, h[1], h[2]>> \in held /\ <<j, h[1], h[2]>>[2] # s.mutex
      BY <1>1, <1>3, <3>1 DEF HoldsRight
    <3> QED
      BY <3>2, <3>3
  <2>4. CASE s.op \notin {"acquire", "release"}
    <3>1. h \in Holds[program][j][i]
      BY <2>1, <2>4 DEF HeldAfter
    <3>2. held \subseteq held'
      BY <2>4 DEF Step, MutexEffect
    <3> QED
      BY <1>1, <1>3, <3>1, <3>2 DEF HoldsRight
  <2> QED
    BY <2>2, <2>3, <2>4
<1> QED
  BY <1>1, <1>2, <1>4, <1>5 DEF HoldsRight

\* After a step every task that Ended names is over.
LEMMA StepEndedRight ==
  ASSUME IInv, NEW t \in Threads, NEW n, Step(t, n)
  PROVE  EndedRight'
<1> DEFINE j == Current(t)
           i == pc[j]
           s == Here(t)
<1>1. /\ Typed /\ Stacks /\ Move(t, n) /\ j \in Tasks(program) /\ program' = program
      /\ i \in DOMAIN Code[program][j] /\ s = Code[program][j][i] /\ n \in NextPlaces(s, i)
      /\ WellFormed(program, j) /\ Consistent(program) /\ i \in Nat
  BY Stepping
<1>2. /\ Started(j) /\ ~Done(j) /\ n > i
      /\ pc'[j] = n /\ \A k \in Tasks(program) : k # j => pc'[k] = pc[k]
  BY <1>1, Moved
<1>3. EndedRight
  BY DEF IInv
<1>4. \A k \in Tasks(program) : Done(k) => Done(k)'
  BY <1>1, Monotone
<1>5. \A k \in Ended[program][j][i] : Done(k) /\ k \in Tasks(program)
  BY <1>1, <1>2, <1>3 DEF EndedRight, Consistent, Typed
<1>6. ASSUME NEW k \in Tasks(program), k # j, Started(k)', NEW l \in Ended[program][k][pc[k]]
      PROVE  Done(l)'
  <2>1. l \in Tasks(program)
    BY <1>1, <1>6 DEF Consistent, Typed
  <2>2. CASE Started(k)
    BY <1>3, <1>4, <1>6, <2>1, <2>2 DEF EndedRight
  <2>3. CASE ~Started(k)
    <3>1. StartedBy(program, k, j, i)
      BY <1>1, <1>6, <2>3, NewlyStarted
    <3>2. pc[k] = 1
      BY <1>1, <2>3 DEF Stacks, Begun
    <3>3. l \in Ended[program][j][i]
      BY <1>1, <1>6, <3>1, <3>2 DEF Consistent
    <3> QED
      BY <1>4, <1>5, <3>3
  <2> QED
    BY <2>2, <2>3
<1>7. ASSUME NEW l \in Ended[program][j][n]
      PROVE  Done(l)'
  <2>1. l \in EndedAfter(s, Ended[program][j][i], AtEnd(program))
    BY <1>1, <1>7 DEF Consistent
  <2>2. CASE l \in Ended[program][j][i]
    BY <1>4, <1>5, <2>2
  <2>3. CASE l \notin Ended[program][j][i]
    <3>1. s.op \in {"wait", "join"} /\ (l \in s.tasks \/ \E k \in s.tasks : l \in AtEnd(program)[k])
      BY <2>1, <2>3 DEF EndedAfter
    <3>2. s.tasks \subseteq Tasks(program) /\ \A k \in s.tasks : Done(k)
      BY <1>1, <3>1 DEF WellFormed, Step, TaskEffect
    <3>3. CASE l \in s.tasks
      BY <1>4, <3>2, <3>3
    <3>4. ASSUME NEW k \in s.tasks, l \in AtEnd(program)[k]
          PROVE  Done(l) /\ l \in Tasks(program)
      <4>1. k \in Tasks(program) /\ Done(k)
        BY <3>2
      <4>2. Len(Code[program][k]) \in Nat \ {0} /\ pc[k] \in 1 .. Len(Code[program][k]) + 1
        BY <1>1, <4>1, Bodies, GuardedAssumption DEF Typed, Places
      <4>3. pc[k] = Len(Code[program][k]) + 1 /\ pc[k] # 1
        BY <4>1, <4>2 DEF Done, Body
      <4>4. Started(k)
        BY <1>1, <4>1, <4>3 DEF Stacks, Begun
      <4>5. l \in Ended[program][k][pc[k]]
        BY <3>4, <4>1, <4>3 DEF AtEnd
      <4> QED
        BY <1>1, <1>3, <4>1, <4>4, <4>5 DEF EndedRight, Consistent, Typed
    <3> QED
      BY <1>4, <3>1, <3>3, <3>4
  <2> QED
    BY <2>2, <2>3
<1>8. ASSUME NEW k \in Tasks(program), Started(k)', NEW l \in Ended[program][k][pc'[k]]
      PROVE  Done(l)'
  BY <1>2, <1>6, <1>7, <1>8
<1> QED
  BY <1>1, <1>8 DEF EndedRight

\* A thread that takes a task puts it on its stack; nothing else changes.
LEMMA TakeInvariant ==
  ASSUME IInv, NEW t \in Threads, TakeTask(t)
  PROVE  IInv'
<1>1. PICK x \in ready : /\ ready' = ready \ {x}
                         /\ stack' = [stack EXCEPT ![t] = Append(@, x)]
                         /\ UNCHANGED <<program, mem, held, reg, pc>>
  BY DEF TakeTask
<1>2. Typed /\ Stacks /\ Exclusive /\ HoldsRight /\ EndedRight /\ x \in Tasks(program)
  BY DEF IInv, Typed
<1>3. /\ stack' \in [Threads -> Seq(Tasks(program))]
      /\ \A u \in Threads : \A a \in DOMAIN stack'[u] :
           \/ a \in DOMAIN stack[u] /\ stack'[u][a] = stack[u][a]
           \/ u = t /\ a = Len(stack[t]) + 1 /\ stack'[u][a] = x
  <2>1. stack[t] \in Seq(Tasks(program))
    BY <1>2 DEF Typed
  <2>2. LET r == Append(stack[t], x) IN
        /\ r \in Seq(Tasks(program)) /\ DOMAIN r = 1 .. Len(stack[t]) + 1 /\ Len(stack[t]) \in Nat
        /\ DOMAIN stack[t] = 1 .. Len(stack[t])
        /\ \A a \in DOMAIN stack[t] : r[a] = stack[t][a]
        /\ r[Len(stack[t]) + 1] = x
    BY <1>2, <2>1, Pushed
  <2>3. stack'[t] = Append(stack[t], x) /\ \A u \in Threads : u # t => stack'[u] = stack[u]
    BY <1>1, <1>2 DEF Typed
  <2>4. stack' \in [Threads -> Seq(Tasks(program))]
    BY <1>1, <1>2, <2>2 DEF Typed
  <2> QED
    BY <2>2, <2>3, <2>4
<1>4. /\ program' = program /\ pc' = pc /\ held' = held
      /\ \A k \in Tasks(program) : /\ Done(k)' <=> Done(k)
                                   /\ Started(k)' <=> Started(k)
  BY <1>1 DEF Done, Started, Body
<1>5. Typed'
  BY <1>1, <1>2, <1>3 DEF Typed
<1>6. pc[x] = 1 /\ ~Done(x) /\ Started(x)
      /\ \A u \in Threads : \A a \in DOMAIN stack[u] : stack[u][a] # x
  <2>1. Len(Body(x)) \in Nat \ {0}
    BY <1>2, Bodies, GuardedAssumption DEF Typed, Body
  <2> QED
    BY <1>2, <2>1 DEF Stacks, Fresh, Begun, Done
<1>7. Stacks'
  <2>1. OnceOnStacks'
    BY <1>2, <1>3, <1>6 DEF Stacks, OnceOnStacks
  <2>2. Unfinished'
    BY <1>2, <1>3, <1>4, <1>6 DEF Stacks, Unfinished, Done, Body
  <2>3. Fresh'
    BY <1>1, <1>2, <1>3 DEF Stacks, Fresh
  <2>4. Begun'
    BY <1>1, <1>2, <1>3, <1>4, <1>6 DEF Stacks, Begun, Started, Body
  <2> QED
    BY <2>1, <2>2, <2>3, <2>4 DEF Stacks
<1>8. Exclusive' /\ HoldsRight'
  BY <1>2, <1>4 DEF Exclusive, HoldsRight
<1>9. EndedRight'
  BY <1>1, <1>2 DEF EndedRight, Started, Done, Body
<1> QED
  BY <1>5, <1>7, <1>8, <1>9 DEF IInv

\* The invariant is inductive.
LEMMA NextInvariant ==
  ASSUME IInv, [Next]_vars
  PROVE  IInv'
<1>1. CASE UNCHANGED vars
  BY <1>1 DEF vars, IInv, Typed, Stacks, OnceOnStacks, Unfinished, Fresh, Begun, Exclusive, HoldsRight,
              EndedRight, Started, Done, Body
<1>2. ASSUME NEW t \in Threads, Thread(t)
      PROVE  IInv'
  <2>1. TakeTask(t) \/ \E n : Step(t, n)
    BY <1>2, Actions DEF IInv, Stacks
  <2>2. ASSUME NEW n, Step(t, n)
        PROVE  IInv'
    BY <2>2, StepTyped, StepStacks, StepExclusive, StepHoldsRight, StepEndedRight DEF IInv
  <2> QED
    BY <2>1, <2>2, TakeInvariant
<1> QED
  BY <1>1, <1>2 DEF Next

\* The program stays the one it is.
LEMMA ProgramStays ==
  ASSUME [Next]_vars
  PROVE  program' = program
BY DEF Next, vars, Thread, ReadVariable, WriteVariable, ChangeContainer, UpdateAtomic, SpinUntil,
       Branch, AcquireMutex, TryAcquireMutex, ReleaseMutex, StartTasks, WaitForTasks, TakeTask

\* The invariant holds in every run of a program that follows the rule.
LEMMA GuardedInvariant == Spec => [](program \in Guarded => IInv)
<1>1. Init => (program \in Guarded => IInv)
  BY InitInvariant
<1>2. (program \in Guarded => IInv) /\ [Next]_vars => (program \in Guarded => IInv)'
  BY ProgramStays, NextInvariant
<1> QED
  BY <1>1, <1>2, PTL DEF Spec
-----------------------------------------------------------------------------
\* The states of a guarded program are well typed; no thread is left with a task
\* that is over, so every thread always stands before a step.
THEOREM TypeCorrect == Spec => [](program \in Guarded => TypeOK)
<1>1. IInv => TypeOK
  <2>1. SUFFICES ASSUME IInv PROVE TypeOK
    OBVIOUS
  <2>2. Typed /\ Unfinished /\ program \in Programs
    BY <2>1, GuardedAssumption DEF IInv, Stacks, Typed
  <2>3. pc \in [Tasks(program) -> Nat \ {0}]
    <3>1. ASSUME NEW j \in Tasks(program) PROVE pc[j] \in Nat \ {0}
      BY <2>2, Bodies DEF Typed, Places
    <3> QED
      BY <2>2, <3>1 DEF Typed
  <2>4. \A t \in Threads : Busy(t) => ~Done(Current(t))
    BY <2>2, Position DEF Unfinished, Current
  <2> QED
    BY <2>2, <2>3, <2>4 DEF TypeOK, Typed
<1> QED
  BY <1>1, GuardedInvariant, PTL

\* Accesses that conflict in a state may conflict by the text.
LEMMA ConflictShows ==
  ASSUME NEW t, NEW u, t # u, Conflict(t, u)
  PROVE  MayConflict(Here(t), Here(u))
<1> DEFINE v == Here(t).var
           w == Here(u).var
<1>1. Address(t, v) = Address(u, w)
  BY DEF Conflict
<1>2. Self # Wrapped
  BY DEF Self, Wrapped
<1>3. v[1] = w[1] /\ (v[2] = w[2] => v[2] # Self)
                 /\ (v[2] # w[2] => {v[2], w[2]} \cap {Self, Wrapped} # {})
  <2>1. CASE v[2] = Self
    <3>1. Address(t, v) = <<v[1], t>>
      BY <2>1 DEF Address, Self, Wrapped
    <3>2. CASE w[2] = Self
      BY <1>1, <3>1, <3>2 DEF Address, Self, Wrapped
    <3>3. CASE w[2] # Self
      BY <1>1, <1>2, <2>1, <3>1, <3>3 DEF Address, Self, Wrapped
    <3> QED
      BY <3>2, <3>3
  <2>2. CASE v[2] = Wrapped
    <3>1. Address(t, v) = <<v[1], t % 2>>
      BY <1>2, <2>2 DEF Address
    <3> QED
      BY <1>1, <1>2, <2>2, <3>1 DEF Address
  <2>3. CASE v[2] # Self /\ v[2] # Wrapped
    <3>1. Address(t, v) = v
      BY <2>3 DEF Address
    <3>2. ASSUME NEW x, v = <<w[1], x>>, w[2] \in {Self, Wrapped}
          PROVE  v[1] = w[1] /\ v[2] # w[2] /\ {v[2], w[2]} \cap {Self, Wrapped} # {}
      <4> HIDE DEF v, w
      <4>1. v[1] = w[1]
        BY <3>2
      <4>2. v[2] # w[2] /\ w[2] \in {v[2], w[2]} \cap {Self, Wrapped}
        BY <2>3, <3>2
      <4> QED
        BY <4>1, <4>2
    <3>3. CASE w[2] = Self
      BY <1>1, <1>2, <3>1, <3>2, <3>3 DEF Address
    <3>4. CASE w[2] = Wrapped
      BY <1>1, <1>2, <3>1, <3>2, <3>4 DEF Address
    <3>5. CASE w[2] \notin {Self, Wrapped}
      <4>1. v = w
        BY <1>1, <3>1, <3>5 DEF Address
      <4> QED
        BY <2>3, <4>1
    <3> QED
      BY <3>3, <3>4, <3>5
  <2> QED
    BY <2>1, <2>2, <2>3
<1> QED
  BY <1>3 DEF Conflict, MayConflict

\* The order in which the text says two tasks run keeps them apart.
LEMMA OrderedApart ==
  ASSUME IInv, NEW j \in Tasks(program), NEW k \in Tasks(program), Started(j), Started(k), ~Done(k)
  PROVE  ~Ordered(program, j, pc[j], k)
<1>1. Typed /\ Stacks /\ EndedRight
  BY DEF IInv
<1>2. k \notin Ended[program][j][pc[j]]
  BY <1>1 DEF EndedRight
<1>3. ASSUME NEW n \in DOMAIN Code[program][j], n >= pc[j], StartedBy(program, k, j, n)
      PROVE  FALSE
  BY <1>1, <1>3, NotStartedYet DEF Body
<1> QED
  BY <1>2, <1>3 DEF Ordered

\* Two tasks under way never stand before steps that conflict by the text.
LEMMA StepsApart ==
  ASSUME IInv, NEW j \in Tasks(program), NEW k \in Tasks(program), j # k,
         Started(j), ~Done(j), Started(k), ~Done(k)
  PROVE  ~MayConflict(Code[program][j][pc[j]], Code[program][k][pc[k]])
<1>1. SUFFICES ASSUME MayConflict(Code[program][j][pc[j]], Code[program][k][pc[k]])
               PROVE  FALSE
  OBVIOUS
<1>2. Typed /\ Exclusive /\ HoldsRight
  BY DEF IInv
<1>3. pc[j] \in DOMAIN Code[program][j] /\ pc[k] \in DOMAIN Code[program][k]
  BY <1>2, UnderWay
<1>4. \/ Ordered(program, j, pc[j], k) \/ Ordered(program, k, pc[k], j)
      \/ CommonMutex(program, j, pc[j], k, pc[k])
  BY <1>1, <1>2, <1>3, Rule DEF Protected, Typed
<1>5. ~Ordered(program, j, pc[j], k) /\ ~Ordered(program, k, pc[k], j)
  BY OrderedApart
<1>6. PICK g \in Holds[program][j][pc[j]], h \in Holds[program][k][pc[k]] :
        g[1] = h[1] /\ ~(g[2] = "r" /\ h[2] = "r")
  BY <1>4, <1>5 DEF CommonMutex
<1>7. <<j, g[1], g[2]>> \in held /\ <<k, h[1], h[2]>> \in held
  BY <1>2 DEF HoldsRight
<1> QED
  BY <1>2, <1>6, <1>7 DEF Exclusive

\* A guarded program has no data race: two threads never stand before accesses to
\* the same variable of which one writes and one is not atomic.
THEOREM NoRaces == Spec => [](program \in Guarded => RaceFree)
<1>1. IInv => RaceFree
  <2>1. SUFFICES ASSUME IInv, NEW t \in Threads, NEW u \in Threads, t # u, Conflict(t, u)
                 PROVE  FALSE
    BY DEF RaceFree
  <2> DEFINE j == Current(t)
             k == Current(u)
  <2>2. Busy(t) /\ Busy(u) /\ Typed /\ Unfinished /\ Begun /\ OnceOnStacks
    BY <2>1 DEF IInv, Stacks, Conflict
  <2>3. /\ j \in Tasks(program) /\ k \in Tasks(program)
        /\ Here(t) = Code[program][j][pc[j]] /\ Here(u) = Code[program][k][pc[k]]
        /\ Len(stack[t]) \in DOMAIN stack[t] /\ Len(stack[u]) \in DOMAIN stack[u]
    BY <2>1, <2>2, Position
  <2>4. j # k /\ Started(j) /\ ~Done(j) /\ Started(k) /\ ~Done(k)
    BY <2>1, <2>2, <2>3 DEF OnceOnStacks, Unfinished, Begun, Current
  <2>5. MayConflict(Code[program][j][pc[j]], Code[program][k][pc[k]])
    BY <2>1, <2>3, ConflictShows
  <2> QED
    BY <2>1, <2>3, <2>4, <2>5, StepsApart
<1> QED
  BY <1>1, GuardedInvariant, PTL

\* When a main that has waited for everybody is at its end, every task is over.
LEMMA AllOver ==
  ASSUME IInv, WaitsForAll(program), Done(Main), NEW j \in Tasks(program)
  PROVE  Done(j)
<1>1. Typed /\ EndedRight
  BY DEF IInv
<1>2. Main \in Tasks(program) /\ Started(Main)
  <2>1. Main \in Tasks(program)
    BY <1>1, ProgramsAssumption, GuardedAssumption DEF Typed, Tasks
  <2> QED
    BY <2>1 DEF Started
<1>3. pc[Main] = Len(Code[program][Main]) + 1
  BY <1>1, <1>2, UnderWay
<1>4. Tasks(program) \ {Main} \subseteq Ended[program][Main][pc[Main]]
  BY <1>2, <1>3 DEF WaitsForAll, AtEnd
<1> QED
  BY <1>1, <1>2, <1>4 DEF EndedRight

\* A guarded program whose main waits for all it started leaves nothing running:
\* when main is at its end, nothing is ready and no thread has a task.
THEOREM NothingRunsOn == Spec => [](program \in Guarded => NothingLeftRunning)
<1>1. IInv => NothingLeftRunning
  <2>1. SUFFICES ASSUME IInv, Done(Main), program \notin Detached
                 PROVE  Finished
    BY DEF NothingLeftRunning
  <2>2. Typed /\ Unfinished /\ Fresh
    BY <2>1 DEF IInv, Stacks
  <2>3. \A j \in Tasks(program) : Done(j)
    BY <2>1, <2>2, AllOver, AttachedAssumption DEF Typed
  <2>4. ready = {}
    BY <2>2, <2>3, UnderWay DEF Typed, Fresh
  <2>5. \A t \in Threads : ~Busy(t)
    BY <2>2, <2>3, Position DEF Unfinished, Current
  <2> QED
    BY <2>4, <2>5 DEF Finished
<1> QED
  BY <1>1, GuardedInvariant, PTL
-----------------------------------------------------------------------------
(* SumFunction, by induction on the size of a set. *)

\* A set of numbers has a least element.
LEMMA LeastNat ==
  ASSUME NEW T, T \subseteq Nat, T # {}
  PROVE  \E x \in T : \A y \in T : x <= y
<1> DEFINE R == OpToRel(<, Nat)
<1>1. IsWellFoundedOn(R, Nat)
  BY NatLessThanWellFounded
<1>2. \A x, y \in Nat : y < x => <<y, x>> \in R
  BY DEF OpToRel
<1> HIDE DEF R
<1>3. \E x \in T : \A y \in T : ~ (<<y, x>> \in R)
  BY <1>1, WFMin
<1>4. PICK x \in T : \A y \in T : ~ (<<y, x>> \in R)
  BY <1>3
<1>5. ASSUME NEW y \in T PROVE x <= y
  <2>1. x \in Nat /\ y \in Nat
    OBVIOUS
  <2>2. ~ (y < x)
    BY <1>2, <1>4, <2>1, Zenon
  <2> QED
    BY <2>1, <2>2
<1> QED
  BY <1>5

\* A set with 0 that has n + 1 whenever it has n has every number.
LEMMA Induction ==
  ASSUME NEW S, 0 \in S, \A n \in Nat : n \in S => n + 1 \in S
  PROVE  \A n \in Nat : n \in S
<1> SUFFICES ASSUME Nat \ S # {} PROVE FALSE
  OBVIOUS
<1>1. PICK x \in Nat \ S : \A y \in Nat \ S : x <= y
  BY LeastNat
<1>2. x # 0
  OBVIOUS
<1>3. x - 1 \in Nat /\ ~ (x <= x - 1) /\ x - 1 + 1 = x
  BY <1>2
<1>4. x - 1 \in S
  BY <1>1, <1>3
<1> QED
  BY <1>3, <1>4
\* Of the elements of a set the one that SumFunction takes first.
First(S) == CHOOSE x \in S : TRUE

\* The element that is taken out first.
LEMMA FirstOut ==
  ASSUME NEW D, IsFiniteSet(D), NEW S \in SUBSET D, S # {}
  PROVE  /\ First(S) \in S /\ First(S) \in D /\ S \ {First(S)} \in SUBSET D
         /\ Cardinality(S) \in Nat \ {0}
         /\ Cardinality(S \ {First(S)}) = Cardinality(S) - 1
<1>1. First(S) \in S
  BY DEF First
<1>2. IsFiniteSet(S)
  BY FS_Subset
<1>3. Cardinality(S) \in Nat /\ Cardinality(S) # 0
  BY <1>2, FS_CardinalityType, FS_EmptySet
<1> QED
  BY <1>1, <1>2, <1>3, FS_RemoveElement

\* What holds of the empty set, and of every set if it does when its first
\* element is out, holds of every subset of a finite set.
LEMMA TakingOut ==
  ASSUME NEW D, IsFiniteSet(D), NEW T, {} \in T,
         \A S \in SUBSET D : S # {} /\ S \ {First(S)} \in T => S \in T
  PROVE  \A S \in SUBSET D : S \in T
<1> DEFINE M == {n \in Nat : \A S \in SUBSET D : Cardinality(S) = n => S \in T}
<1>1. \A S \in SUBSET D : IsFiniteSet(S) /\ Cardinality(S) \in Nat /\ (Cardinality(S) = 0 => S = {})
  BY FS_Subset, FS_CardinalityType, FS_EmptySet
<1>2. 0 \in M
  BY <1>1
<1>3. ASSUME NEW n \in Nat, n \in M PROVE n + 1 \in M
  <2>1. ASSUME NEW S \in SUBSET D, Cardinality(S) = n + 1 PROVE S \in T
    <3>1. S # {}
      <4>1. Cardinality({}) # n + 1
        BY FS_EmptySet
      <4> QED
        BY <2>1, <4>1
    <3>2. S \ {First(S)} \in SUBSET D /\ Cardinality(S \ {First(S)}) = n
      BY <2>1, <3>1, FirstOut
    <3> QED
      BY <1>3, <3>1, <3>2
  <2> QED
    BY <2>1
<1> HIDE DEF M
<1>4. \A n \in Nat : n \in M
  BY <1>2, <1>3, Induction
<1> QED
  BY <1>1, <1>4 DEF M

\* F[S] is the sum of f over S, for every set S of at most n elements.
Sums(f, F, n) == \A S \in SUBSET DOMAIN f :
                   Cardinality(S) <= n => F[S] = IF S = {} THEN 0 ELSE f[First(S)] + F[S \ {First(S)}]

\* There are such sums.
LEMMA SumsExist ==
  ASSUME NEW D, IsFiniteSet(D), NEW f \in [D -> Int]
  PROVE  \A n \in Nat : \E F \in [SUBSET D -> Int] : Sums(f, F, n)
<1> DEFINE M == {n \in Nat : \E F \in [SUBSET D -> Int] : Sums(f, F, n)}
<1>1. \A S \in SUBSET D : Cardinality(S) \in Nat /\ (Cardinality(S) <= 0 => S = {})
  BY FS_Subset, FS_CardinalityType, FS_EmptySet
<1>2. 0 \in M
  <2> DEFINE F == [S \in SUBSET D |-> 0]
  <2>1. F \in [SUBSET D -> Int] /\ Sums(f, F, 0)
    BY <1>1 DEF Sums
  <2> QED
    BY <2>1
<1>3. ASSUME NEW n \in Nat, n \in M PROVE n + 1 \in M
  <2>1. PICK F \in [SUBSET D -> Int] : Sums(f, F, n)
    BY <1>3
  <2> DEFINE G == [S \in SUBSET D |-> IF S = {} THEN 0 ELSE f[First(S)] + F[S \ {First(S)}]]
  <2>2. G \in [SUBSET D -> Int]
    <3>1. ASSUME NEW S \in SUBSET D, S # {}
          PROVE  f[First(S)] + F[S \ {First(S)}] \in Int
      <4>1. First(S) \in D /\ S \ {First(S)} \in SUBSET D
        BY <3>1, FirstOut
      <4>2. f[First(S)] \in Int /\ F[S \ {First(S)}] \in Int
        BY <4>1
      <4> QED
        BY <4>2
    <3> QED
      BY <3>1
  <2>3. ASSUME NEW S \in SUBSET D, Cardinality(S) <= n
        PROVE  G[S] = F[S]
    BY <2>1, <2>3 DEF Sums
  <2>4. ASSUME NEW S \in SUBSET D, Cardinality(S) <= n + 1, S # {}
        PROVE  G[S] = f[First(S)] + G[S \ {First(S)}]
    <3>1. S \ {First(S)} \in SUBSET D /\ Cardinality(S \ {First(S)}) = Cardinality(S) - 1
          /\ Cardinality(S) \in Nat
      BY <2>4, FirstOut
    <3>2. G[S \ {First(S)}] = F[S \ {First(S)}]
      <4>1. Cardinality(S \ {First(S)}) <= n
        BY <2>4, <3>1
      <4> QED
        BY <2>3, <3>1, <4>1
    <3> QED
      BY <2>4, <3>2
  <2>5. Sums(f, G, n + 1)
    BY <2>4 DEF Sums
  <2>6. \E H \in [SUBSET D -> Int] : Sums(f, H, n + 1)
    BY <2>2, <2>5
  <2> QED
    BY <2>6
<1> HIDE DEF M
<1>4. \A n \in Nat : n \in M
  BY <1>2, <1>3, Induction
<1> QED
  BY <1>4 DEF M

\* SumFunction adds the values one by one.
LEMMA SumByParts ==
  ASSUME NEW D, IsFiniteSet(D), NEW f \in [D -> Int]
  PROVE  \E F \in [SUBSET D -> Int] :
           /\ F[{}] = 0
           /\ \A S \in SUBSET D : S # {} => F[S] = f[First(S)] + F[S \ {First(S)}]
           /\ SumFunction(f) = F[D]
<1> DEFINE Is(F) == F = [S \in SUBSET D |-> IF S = {} THEN 0 ELSE f[First(S)] + F[S \ {First(S)}]]
<1>1. SumFunction(f) = (CHOOSE F : Is(F))[D]
  <2>1. D = DOMAIN f
    OBVIOUS
  <2> QED
    BY <2>1 DEF SumFunction, SumFunctionOnSet, FoldFunctionOnSet, MapThenFoldSet, First
<1>2. \E F : Is(F)
  <2>1. Cardinality(D) \in Nat /\ \A S \in SUBSET D : Cardinality(S) <= Cardinality(D)
    BY FS_CardinalityType, FS_Subset
  <2>2. PICK F \in [SUBSET D -> Int] : Sums(f, F, Cardinality(D))
    BY <2>1, SumsExist
  <2>3. \A S \in SUBSET D : F[S] = IF S = {} THEN 0 ELSE f[First(S)] + F[S \ {First(S)}]
    BY <2>1, <2>2 DEF Sums
  <2> QED
    BY <2>3
<1> DEFINE F == CHOOSE F : Is(F)
<1>3. Is(F)
  BY <1>2
<1> HIDE DEF F
<1>4. /\ F[{}] = 0
      /\ \A S \in SUBSET D : S # {} => F[S] = f[First(S)] + F[S \ {First(S)}]
  BY <1>3
<1>5. \A S \in SUBSET D : F[S] \in Int
  <2> DEFINE T == {S \in SUBSET D : F[S] \in Int}
  <2>1. {} \in T
    BY <1>4
  <2>2. ASSUME NEW S \in SUBSET D, S # {}, S \ {First(S)} \in T
        PROVE  S \in T
    <3>1. First(S) \in D
      BY <2>2, FirstOut
    <3>2. f[First(S)] \in Int /\ F[S \ {First(S)}] \in Int
      BY <2>2, <3>1
    <3>3. F[S] = f[First(S)] + F[S \ {First(S)}]
      BY <1>4, <2>2
    <3> QED
      BY <3>2, <3>3
  <2> HIDE DEF T
  <2>3. \A S \in SUBSET D : S \in T
    BY <2>1, <2>2, TakingOut
  <2> QED
    BY <2>3 DEF T
<1>6. F \in [SUBSET D -> Int]
  <2>1. F = [S \in SUBSET D |-> F[S]]
    BY <1>3
  <2> QED
    BY <1>5, <2>1
<1>7. SumFunction(f) = F[D]
  BY <1>1 DEF F
<1> QED
  BY <1>4, <1>6, <1>7

\* The sum of zeros.
LEMMA SumOfZeros ==
  ASSUME NEW D, IsFiniteSet(D)
  PROVE  SumFunction([x \in D |-> 0]) = 0
<1> DEFINE f == [x \in D |-> 0]
<1>1. PICK F \in [SUBSET D -> Int] :
        /\ F[{}] = 0
        /\ \A S \in SUBSET D : S # {} => F[S] = f[First(S)] + F[S \ {First(S)}]
        /\ SumFunction(f) = F[D]
  BY f \in [D -> Int], SumByParts
<1> DEFINE T == {S \in SUBSET D : F[S] = 0}
<1>2. {} \in T
  BY <1>1
<1>3. ASSUME NEW S \in SUBSET D, S # {}, S \ {First(S)} \in T
      PROVE  S \in T
  <2>1. First(S) \in D
    BY <1>3, FirstOut
  <2> QED
    BY <1>1, <1>3, <2>1
<1> HIDE DEF T
<1>4. D \in T
  BY <1>2, <1>3, TakingOut
<1> QED
  BY <1>1, <1>4 DEF T

\* The sum of numbers is a number; when one of them changes the sum changes as much.
LEMMA SumChanges ==
  ASSUME NEW D, IsFiniteSet(D), NEW f \in [D -> Int], NEW g \in [D -> Int], NEW j \in D,
         \A x \in D : x # j => g[x] = f[x]
  PROVE  SumFunction(f) \in Int /\ SumFunction(g) = SumFunction(f) + (g[j] - f[j])
<1>1. PICK F \in [SUBSET D -> Int] :
        /\ F[{}] = 0
        /\ \A S \in SUBSET D : S # {} => F[S] = f[First(S)] + F[S \ {First(S)}]
        /\ SumFunction(f) = F[D]
  BY SumByParts
<1>2. PICK G \in [SUBSET D -> Int] :
        /\ G[{}] = 0
        /\ \A S \in SUBSET D : S # {} => G[S] = g[First(S)] + G[S \ {First(S)}]
        /\ SumFunction(g) = G[D]
  BY SumByParts
<1> DEFINE T == {S \in SUBSET D : G[S] = F[S] + (IF j \in S THEN g[j] - f[j] ELSE 0)}
<1>3. {} \in T
  BY <1>1, <1>2
<1>4. ASSUME NEW S \in SUBSET D, S # {}, S \ {First(S)} \in T
      PROVE  S \in T
  <2> DEFINE x == First(S)
             R == S \ {x}
  <2>1. x \in D /\ x \in S /\ R \in SUBSET D
    BY <1>4, FirstOut
  <2>2. F[S] = f[x] + F[R] /\ G[S] = g[x] + G[R]
    BY <1>1, <1>2, <1>4
  <2>3. G[R] = F[R] + (IF j \in R THEN g[j] - f[j] ELSE 0)
    BY <1>4
  <2>4. j \in R <=> j \in S /\ j # x
    OBVIOUS
  <2>5. f[x] \in Int /\ g[x] \in Int /\ F[R] \in Int /\ f[j] \in Int /\ g[j] \in Int
    BY <2>1
  <2> HIDE DEF x, R
  <2>6. CASE x = j
    <3>1. G[R] = F[R]
      BY <2>3, <2>4, <2>5, <2>6
    <3>2. G[S] = F[S] + (g[j] - f[j])
      BY <2>2, <2>5, <2>6, <3>1
    <3> QED
      BY <2>1, <2>6, <3>2
  <2>7. CASE x # j
    <3>1. g[x] = f[x]
      BY <2>1, <2>7
    <3>2. G[R] = F[R] + (IF j \in S THEN g[j] - f[j] ELSE 0)
      BY <2>3, <2>4, <2>7
    <3>3. G[S] = F[S] + (IF j \in S THEN g[j] - f[j] ELSE 0)
      BY <2>2, <2>5, <3>1, <3>2
    <3> QED
      BY <3>3
  <2> QED
    BY <2>6, <2>7
<1> HIDE DEF T
<1>5. D \in T
  BY <1>3, <1>4, TakingOut
<1> QED
  BY <1>1, <1>2, <1>5 DEF T
-----------------------------------------------------------------------------
(* The outcome of a program whose text shows it.  The invariant adds that   *)
(* every number is the sum of what the tasks have given to it so far, that  *)
(* what the text knows of a local variable is so, and that a task about to  *)
(* write an increment has read the latest number.                           *)

SumsRight == \A v \in Tracked(program) :
  mem[v] = Memory[program][v] + SumFunction([k \in Tasks(program) |-> Gives[program][v][k][pc[k]]])
KnowsRight == \A j \in Tasks(program) : \A x \in Knows[program][j][pc[j]] : reg[j] = x
LatestRight == \A j \in Tasks(program), v \in Tracked(program) :
  pc[j] \in DOMAIN Code[program][j] /\ Increments(program, v, j, pc[j]) => reg[j] = mem[v]

Counted == SumsRight /\ KnowsRight /\ LatestRight
OInv == program \in Exact /\ IInv /\ Counted

\* The conditions hold of such a program.
LEMMA ExactRule ==
  ASSUME NEW p \in Exact
  PROVE  /\ p \in Guarded /\ p \notin Detached
         /\ IsFiniteSet(Tasks(p)) /\ WaitsForAll(p) /\ Numbers(p) /\ Expected(p) /\ Accounted(p)
BY ExactAssumption DEF Known

\* A tracked variable is where its name says, for every thread.
LEMMA AddressOf ==
  ASSUME NEW p \in Exact, NEW v \in Tracked(p), NEW t
  PROVE  Address(t, v) = v /\ v[2] # Self /\ v[2] # Wrapped
BY ExactRule DEF Numbers, Address

\* What a task has given at its place is a number.
LEMMA Given ==
  ASSUME Typed, program \in Exact, NEW v \in Tracked(program)
  PROVE  [k \in Tasks(program) |-> Gives[program][v][k][pc[k]]] \in [Tasks(program) -> Int]
<1>1. Accounted(program)
  BY ExactRule
<1> QED
  BY <1>1 DEF Accounted, Typed

\* A tracked variable holds a number.
LEMMA NumberIs ==
  ASSUME OInv, NEW v \in Tracked(program)
  PROVE  mem[v] \in Int
<1>1. Typed /\ SumsRight /\ IsFiniteSet(Tasks(program)) /\ Memory[program][v] \in Int
  BY ExactRule DEF OInv, IInv, Counted, Numbers
<1>2. Main \in Tasks(program)
  BY ProgramsAssumption, GuardedAssumption, <1>1 DEF Typed, Tasks
<1>3. SumFunction([k \in Tasks(program) |-> Gives[program][v][k][pc[k]]]) \in Int
  BY <1>1, <1>2, Given, SumChanges DEF OInv
<1> QED
  BY <1>1, <1>3 DEF SumsRight

\* While a task is under way the others are where Meanwhile says.
LEMMA MeanwhileRight ==
  ASSUME IInv, NEW j \in Tasks(program), NEW k \in Tasks(program), k # j, Started(j), ~Done(j)
  PROVE  pc[k] \in Meanwhile(program, j, pc[j], k)
<1> DEFINE i == pc[j]
           m == pc[k]
           end == Len(Code[program][k]) + 1
<1>1. Typed /\ Stacks /\ EndedRight /\ Begun /\ StartedOnce(program)
  BY Rule DEF IInv, Stacks, Typed
<1>2. m \in Places(program, k) /\ m \in Nat /\ end \in Nat /\ m >= 1 /\ m <= end /\ 1 <= end
  BY <1>1, Bodies, GuardedAssumption DEF Typed, Places
<1>3. k \in Ended[program][j][i] => m = end
  BY <1>1, UnderWay DEF EndedRight
<1>4. ASSUME NEW n \in DOMAIN Code[program][j], n >= i, StartedBy(program, k, j, n)
      PROVE  m = 1
  <2>1. ~Started(k)
    BY <1>1, <1>4, NotStartedYet DEF Body
  <2> QED
    BY <1>1, <2>1 DEF Begun
<1>5. ASSUME NEW n \in DOMAIN Code[program][k], StartedBy(program, j, k, n)
      PROVE  n < m
  <2>1. j # Main
    BY <1>1, <1>5 DEF StartedOnce
  <2>2. PICK l \in Tasks(program) : \E h \in DOMAIN Body(l) : StartedBy(program, j, l, h) /\ h < pc[l]
    BY <2>1 DEF Started
  <2>3. PICK h \in DOMAIN Body(l) : StartedBy(program, j, l, h) /\ h < pc[l]
    BY <2>2
  <2>4. l = k /\ h = n
    BY <1>1, <1>5, <2>3 DEF StartedOnce, Body
  <2> QED
    BY <2>3, <2>4
<1>6. m = 1 \/ j \notin Ended[program][k][m]
  BY <1>1 DEF Begun, EndedRight
<1>7. m <= IF \E n \in DOMAIN Code[program][j] : n >= i /\ StartedBy(program, k, j, n) THEN 1 ELSE end
  BY <1>2, <1>4
<1> HIDE DEF i, m, end
<1> QED
  BY <1>2, <1>3, <1>5, <1>6, <1>7 DEF Meanwhile, i, m, end

\* Where the text says that a number is settled it has the value it says.
LEMMA ValueKnown ==
  ASSUME OInv, NEW j \in Tasks(program), Started(j), ~Done(j), NEW v \in Tracked(program),
         Settled(program, v, j, pc[j])
  PROVE  mem[v] = Value(program, v, j, pc[j])
<1> DEFINE there(k) == CHOOSE x \in Added(program, v, j, pc[j], k) : TRUE
<1>1. SumsRight /\ IInv
  BY DEF OInv, Counted
<1>2. ASSUME NEW k \in Tasks(program), k # j
      PROVE  Gives[program][v][k][pc[k]] = there(k)
  <2>1. Gives[program][v][k][pc[k]] \in Added(program, v, j, pc[j], k)
    BY <1>1, <1>2, MeanwhileRight DEF Added
  <2>2. there(k) \in Added(program, v, j, pc[j], k)
    BY <2>1
  <2> QED
    BY <1>2, <2>1, <2>2 DEF Settled
<1>3. [k \in Tasks(program) |-> Gives[program][v][k][pc[k]]]
        = [k \in Tasks(program) |-> IF k = j THEN Gives[program][v][j][pc[j]] ELSE there(k)]
  BY <1>2
<1> QED
  BY <1>1, <1>3 DEF SumsRight, Value

\* Where a step is made, and by whom.
LEMMA Making ==
  ASSUME OInv, NEW t \in Threads, NEW n, Step(t, n)
  PROVE  LET j == Current(t)
             i == pc[j] IN
         /\ Typed /\ Stacks /\ program' = program
         /\ j \in Tasks(program) /\ Started(j) /\ ~Done(j)
         /\ i \in DOMAIN Code[program][j] /\ Here(t) = Code[program][j][i]
         /\ n \in NextPlaces(Code[program][j][i], i)
         /\ pc'[j] = n /\ \A k \in Tasks(program) : k # j => pc'[k] = pc[k]
BY Stepping, Moved DEF OInv

\* A step that may not write a number leaves it alone.
LEMMA NotWritten ==
  ASSUME OInv, NEW t \in Threads, NEW n, Step(t, n), NEW v \in Tracked(program),
         ~MayWrite(Here(t), v)
  PROVE  mem'[v] = mem[v]
<1> DEFINE s == Here(t)
           a == Address(t, s.var)
<1>1. v \in DOMAIN mem /\ v = <<v[1], v[2]>>
  BY ExactRule DEF OInv, IInv, Typed, Numbers
<1>2. CASE s.op \in Writes
  <2>1. a # v
    <3>1. CASE s.var[2] = Self
      BY <1>1, <1>2, <3>1 DEF MayWrite, Address
    <3>2. CASE s.var[2] # Self /\ s.var[2] = Wrapped
      BY <1>1, <1>2, <3>2 DEF MayWrite, Address
    <3>3. CASE s.var[2] # Self /\ s.var[2] # Wrapped
      BY <1>2, <3>3 DEF MayWrite, Address
    <3> QED
      BY <3>1, <3>2, <3>3
  <2>2. \E x : mem' = [mem EXCEPT ![a] = x]
    BY <1>2 DEF Step, DataEffect, Writes
  <2> HIDE DEF a
  <2> QED
    BY <1>1, <2>1, <2>2
<1>3. CASE s.op \notin Writes
  BY <1>3 DEF Step, DataEffect, Writes
<1> QED
  BY <1>2, <1>3

\* A number changes by what the text says that the step adds.
LEMMA AddsRight ==
  ASSUME OInv, NEW t \in Threads, NEW n, Step(t, n), NEW v \in Tracked(program),
         NEW d \in Adds(program, v, Current(t), pc[Current(t)]), d \in Int
  PROVE  mem'[v] = mem[v] + d
<1> DEFINE j == Current(t)
           i == pc[j]
           s == Code[program][j][i]
<1>1. /\ j \in Tasks(program) /\ Started(j) /\ ~Done(j)
      /\ i \in DOMAIN Code[program][j] /\ Here(t) = s
  BY Making
<1>2. mem[v] \in Int /\ v \in DOMAIN mem /\ Address(t, v) = v
  BY NumberIs, AddressOf, ExactRule DEF OInv, IInv, Typed, Numbers
<1>3. Counted
  BY DEF OInv
<1>4. CASE ~MayWrite(s, v)
  <2>1. d = 0
    BY <1>4 DEF Adds
  <2> QED
    BY <1>1, <1>2, <1>4, <2>1, NotWritten
<1>5. CASE s.op = "update" /\ s.fn = "plus" /\ s.var = v
  <2>1. d = s.arg
    BY <1>5 DEF Adds, MayWrite, Writes
  <2>2. mem' = [mem EXCEPT ![v] = Changed(s.fn, s.arg, @)]
    BY <1>1, <1>2, <1>5 DEF Step, DataEffect
  <2>3. mem'[v] = Changed(s.fn, s.arg, mem[v])
    BY <1>2, <2>2
  <2> QED
    BY <1>5, <2>1, <2>3 DEF Changed
<1>6. CASE Increments(program, v, j, i)
  <2>1. s.op = "write" /\ s.fn = "plus" /\ s.var = v
    BY <1>6 DEF Increments
  <2>2. d = s.arg
    BY <1>6, <2>1 DEF Adds, MayWrite, Writes
  <2>3. mem' = [mem EXCEPT ![v] = Changed(s.fn, s.arg, reg[j])]
    BY <1>1, <1>2, <2>1 DEF Step, DataEffect
  <2>4. reg[j] = mem[v]
    BY <1>1, <1>3, <1>6 DEF Counted, LatestRight
  <2>5. mem'[v] = Changed(s.fn, s.arg, mem[v])
    BY <1>2, <2>3, <2>4
  <2> QED
    BY <2>1, <2>2, <2>5 DEF Changed
<1>7. CASE /\ MayWrite(s, v)
           /\ ~(s.op = "update" /\ s.fn = "plus" /\ s.var = v) /\ ~Increments(program, v, j, i)
  <2>1. s.var = v /\ Settled(program, v, j, i)
        /\ \E x \in Results(program, v, j, i) \cap Int : d = x - Value(program, v, j, i)
    BY <1>7 DEF Adds
  <2>2. PICK x \in Results(program, v, j, i) \cap Int : d = x - Value(program, v, j, i)
    BY <2>1
  <2>3. mem[v] = Value(program, v, j, i)
    BY <1>1, <2>1, ValueKnown
  <2>4. mem'[v] = x
    <3>1. CASE s.op = "write" /\ s.fn = "is"
      <4>1. x = s.arg
        BY <2>2, <3>1 DEF Results
      <4>2. mem' = [mem EXCEPT ![v] = Changed(s.fn, s.arg, reg[j])]
        BY <1>1, <1>2, <2>1, <3>1 DEF Step, DataEffect
      <4> QED
        BY <1>2, <3>1, <4>1, <4>2 DEF Changed
    <3>2. CASE s.op = "write" /\ s.fn # "is"
      <4>1. \E y \in Knows[program][j][i] : x = Changed(s.fn, s.arg, y)
        BY <2>2, <3>2 DEF Results
      <4>2. x = Changed(s.fn, s.arg, reg[j])
        BY <1>1, <1>3, <4>1 DEF Counted, KnowsRight
      <4>3. mem' = [mem EXCEPT ![v] = Changed(s.fn, s.arg, reg[j])]
        BY <1>1, <1>2, <2>1, <3>2 DEF Step, DataEffect
      <4> QED
        BY <1>2, <4>2, <4>3
    <3>3. CASE s.op = "update"
      <4>1. x = Changed(s.fn, s.arg, Value(program, v, j, i))
        BY <2>2, <3>3 DEF Results
      <4>2. mem' = [mem EXCEPT ![v] = Changed(s.fn, s.arg, @)]
        BY <1>1, <1>2, <2>1, <3>3 DEF Step, DataEffect
      <4>3. mem'[v] = Changed(s.fn, s.arg, mem[v])
        BY <1>2, <4>2
      <4> QED
        BY <2>3, <4>1, <4>3
    <3> QED
      BY <2>2, <3>1, <3>2, <3>3 DEF Results
  <2> QED
    BY <1>2, <2>2, <2>3, <2>4
<1> QED
  BY <1>4, <1>5, <1>6, <1>7

\* After a step every number is the sum of what has been given.
LEMMA StepSumsRight ==
  ASSUME OInv, NEW t \in Threads, NEW n, Step(t, n), Typed'
  PROVE  SumsRight'
<1> DEFINE j == Current(t)
           i == pc[j]
           shares(v) == [k \in Tasks(program) |-> Gives[program][v][k][pc[k]]]
           shares1(v) == [k \in Tasks(program) |-> Gives[program][v][k][pc'[k]]]
<1>1. /\ Typed /\ program' = program /\ program \in Exact /\ SumsRight
      /\ j \in Tasks(program) /\ i \in DOMAIN Code[program][j] /\ Here(t) = Code[program][j][i]
      /\ n \in NextPlaces(Code[program][j][i], i)
      /\ pc'[j] = n /\ \A k \in Tasks(program) : k # j => pc'[k] = pc[k]
  BY Making DEF OInv, Counted
<1>2. ASSUME NEW v \in Tracked(program)
      PROVE  mem'[v] = Memory[program][v] + SumFunction(shares1(v))
  <2> DEFINE d == Gives[program][v][j][n] - Gives[program][v][j][i]
  <2>1. IsFiniteSet(Tasks(program)) /\ Accounted(program) /\ Numbers(program)
    BY <1>1, ExactRule
  <2>2. shares(v) \in [Tasks(program) -> Int]
    BY <1>1, Given
  <2>3. shares1(v) \in [Tasks(program) -> Int]
    <3>1. \A k \in Tasks(program) : pc'[k] \in Places(program, k)
      BY <1>1 DEF Typed
    <3> QED
      BY <2>1, <3>1 DEF Accounted
  <2>4. d \in Adds(program, v, j, i) /\ d \in Int
    <3>1. Gives[program][v][j][n] \in Int /\ Gives[program][v][j][i] \in Int
      <4>1. shares1(v)[j] \in Int /\ shares(v)[j] \in Int
        BY <1>1, <2>2, <2>3
      <4> QED
        BY <1>1, <4>1
    <3> QED
      BY <1>1, <2>1, <3>1 DEF Accounted
  <2>5. mem'[v] = mem[v] + d
    BY <2>4, AddsRight
  <2>6. SumFunction(shares(v)) \in Int /\ SumFunction(shares1(v)) = SumFunction(shares(v)) + d
    <3>1. \A k \in Tasks(program) : k # j => shares1(v)[k] = shares(v)[k]
      BY <1>1
    <3>2. shares1(v)[j] - shares(v)[j] = d
      BY <1>1
    <3> HIDE DEF shares, shares1, d
    <3> QED
      BY <1>1, <2>1, <2>2, <2>3, <3>1, <3>2, SumChanges
  <2>7. mem[v] = Memory[program][v] + SumFunction(shares(v)) /\ Memory[program][v] \in Int
    BY <1>1, <2>1 DEF SumsRight, Numbers
  <2> HIDE DEF shares, shares1, d
  <2> QED
    BY <2>4, <2>5, <2>6, <2>7
<1> QED
  BY <1>1, <1>2 DEF SumsRight

\* After a step what the text knows of the local variables is so.
LEMMA StepKnowsRight ==
  ASSUME OInv, NEW t \in Threads, NEW n, Step(t, n)
  PROVE  KnowsRight'
<1> DEFINE j == Current(t)
           i == pc[j]
           s == Code[program][j][i]
<1>1. /\ Typed /\ program' = program /\ program \in Exact /\ KnowsRight
      /\ j \in Tasks(program) /\ Started(j) /\ ~Done(j)
      /\ i \in DOMAIN Code[program][j] /\ Here(t) = s /\ n \in NextPlaces(s, i)
      /\ pc'[j] = n /\ \A k \in Tasks(program) : k # j => pc'[k] = pc[k]
  BY Making DEF OInv, Counted
<1>2. j \in DOMAIN reg
  BY <1>1 DEF Typed
<1>3. ASSUME NEW k \in Tasks(program), k # j
      PROVE  reg'[k] = reg[k]
  <2>1. reg' = reg \/ \E x : reg' = [reg EXCEPT ![j] = x]
    BY DEF Step, DataEffect
  <2>2. k \in DOMAIN reg
    BY <1>1 DEF Typed
  <2> QED
    BY <1>3, <2>1, <2>2
<1>4. ASSUME NEW x \in Knows[program][j][n]
      PROVE  reg'[j] = x
  <2> DEFINE before == Knows[program][j][i]
             value == Value(program, s.var, j, i)
             known == s.var \in Tracked(program) /\ Settled(program, s.var, j, i)
  <2>1. x \in Learns(program, j, i, before)
    BY <1>1, <1>4, ExactRule DEF Accounted
  <2>2. \A y \in before : reg[j] = y
    BY <1>1 DEF KnowsRight
  <2>3. known => mem[Address(t, s.var)] = value
    BY <1>1, AddressOf, ValueKnown
  <2> HIDE DEF before, value, known
  <2>4. CASE s.op = "read" /\ s.fn = "get"
    <3>1. known /\ x = value
      BY <2>1, <2>4 DEF Learns, known, value
    <3>2. reg'[j] = Seen(s.fn, s.arg, reg[j], mem[Address(t, s.var)])
      BY <1>1, <1>2, <2>4 DEF Step, DataEffect
    <3> QED
      BY <2>3, <2>4, <3>1, <3>2 DEF Seen
  <2>5. CASE s.op = "read" /\ s.fn = "sum"
    <3>1. known /\ \E y \in before : x = y + value
      BY <2>1, <2>5 DEF Learns, known, value
    <3>2. reg'[j] = Seen(s.fn, s.arg, reg[j], mem[Address(t, s.var)])
      BY <1>1, <1>2, <2>5 DEF Step, DataEffect
    <3>3. reg'[j] = reg[j] + mem[Address(t, s.var)]
      BY <2>5, <3>2 DEF Seen
    <3> QED
      BY <2>2, <2>3, <3>1, <3>3
  <2>6. CASE s.op = "update"
    <3>1. known /\ x = Returned(s.fn, value)
      BY <2>1, <2>6 DEF Learns, known, value
    <3>2. reg'[j] = Returned(s.fn, mem[Address(t, s.var)])
      BY <1>1, <1>2, <2>6 DEF Step, DataEffect
    <3> QED
      BY <2>3, <3>1, <3>2
  <2>7. CASE s.op \notin {"read", "update"}
    <3>1. s.op # "try" /\ x \in before
      BY <2>1, <2>7 DEF Learns
    <3>2. reg' = reg
      BY <1>1, <2>7, <3>1 DEF Step, DataEffect
    <3> QED
      BY <2>2, <3>1, <3>2
  <2> QED
    BY <2>1, <2>4, <2>5, <2>6, <2>7 DEF Learns
<1> QED
  BY <1>1, <1>3, <1>4 DEF KnowsRight

\* A task about to write an increment has read the latest number: it has just
\* done so, or it has since, because whoever wrote it now would race with it.
LEMMA StepLatestRight ==
  ASSUME OInv, NEW t \in Threads, NEW n, Step(t, n)
  PROVE  LatestRight'
<1> DEFINE j == Current(t)
           i == pc[j]
           s == Code[program][j][i]
<1>1. /\ Typed /\ IInv /\ Begun /\ program' = program /\ program \in Exact /\ LatestRight
      /\ j \in Tasks(program) /\ Started(j) /\ ~Done(j)
      /\ i \in DOMAIN Code[program][j] /\ Here(t) = s /\ n \in NextPlaces(s, i)
      /\ pc'[j] = n /\ \A k \in Tasks(program) : k # j => pc'[k] = pc[k]
  BY Making DEF OInv, Counted, Stacks
<1>2. ASSUME NEW v \in Tracked(program), n \in DOMAIN Code[program][j], Increments(program, v, j, n)
      PROVE  reg'[j] = mem'[v]
  <2>1. i = n - 1
    BY <1>1, <1>2 DEF Increments
  <2>2. s.op = "read" /\ s.fn = "get" /\ s.var = v
    BY <1>2, <2>1 DEF Increments
  <2>3. j \in DOMAIN reg /\ Address(t, v) = v
    BY <1>1, AddressOf DEF Typed
  <2>4. mem' = mem /\ reg' = [reg EXCEPT ![j] = Seen(s.fn, s.arg, @, mem[v])]
    BY <1>1, <2>2, <2>3 DEF Step, DataEffect
  <2> QED
    BY <2>2, <2>3, <2>4 DEF Seen
<1>3. ASSUME NEW k \in Tasks(program), k # j, NEW v \in Tracked(program),
             pc[k] \in DOMAIN Code[program][k], Increments(program, v, k, pc[k])
      PROVE  reg'[k] = mem'[v]
  <2> DEFINE w == Code[program][k][pc[k]]
  <2>1. w.op = "write" /\ w.var = v /\ ~w.atomic /\ pc[k] > 1
    BY <1>3 DEF Increments
  <2>2. Started(k) /\ ~Done(k)
    BY <1>1, <1>3, <2>1, UnderWay DEF Begun
  <2>3. ~MayConflict(w, s)
    BY <1>1, <1>3, <2>2, StepsApart
  <2>4. ~MayWrite(s, v)
    <3>1. v[2] # Self /\ v[2] # Wrapped
      BY <1>1, AddressOf
    <3>2. SUFFICES ASSUME MayWrite(s, v) PROVE FALSE
      OBVIOUS
    <3>3. s.op \in Accesses /\ w.op \in Accesses /\ w.op \in {w.op, s.op} \cap Writes
      BY <2>1, <3>2 DEF MayWrite, Accesses, Writes
    <3>4. w.var[1] = s.var[1]
      BY <2>1, <3>2 DEF MayWrite
    <3>5. \/ w.var[2] = s.var[2] /\ w.var[2] # Self
          \/ w.var[2] # s.var[2] /\ s.var[2] \in {w.var[2], s.var[2]} \cap {Self, Wrapped}
      BY <2>1, <3>1, <3>2 DEF MayWrite
    <3> QED
      BY <2>1, <2>3, <3>3, <3>4, <3>5 DEF MayConflict
  <2>5. mem'[v] = mem[v]
    BY <1>1, <2>4, NotWritten
  <2>6. reg'[k] = reg[k]
    <3>1. reg' = reg \/ \E x : reg' = [reg EXCEPT ![j] = x]
      BY DEF Step, DataEffect
    <3>2. k \in DOMAIN reg
      BY <1>1 DEF Typed
    <3> QED
      BY <1>3, <3>1, <3>2
  <2> QED
    BY <1>1, <1>3, <2>5, <2>6 DEF LatestRight
<1> QED
  BY <1>1, <1>2, <1>3 DEF LatestRight

\* In the beginning nothing has been given and everything read is zero.
LEMMA InitCounted ==
  ASSUME Init, program \in Exact
  PROVE  Counted
<1>1. /\ Accounted(program) /\ Numbers(program) /\ IsFiniteSet(Tasks(program))
      /\ \A j \in Tasks(program) : pc[j] = 1 /\ reg[j] = 0
      /\ mem = Memory[program]
  BY ExactRule DEF Init
<1>2. SumsRight
  <2>1. ASSUME NEW v \in Tracked(program)
        PROVE  mem[v] = Memory[program][v] + SumFunction([k \in Tasks(program) |-> Gives[program][v][k][pc[k]]])
    <3>1. \A k \in Tasks(program) : Gives[program][v][k][pc[k]] = 0
      BY <1>1 DEF Accounted
    <3>2. [k \in Tasks(program) |-> Gives[program][v][k][pc[k]]] = [k \in Tasks(program) |-> 0]
      BY <3>1
    <3>3. SumFunction([k \in Tasks(program) |-> Gives[program][v][k][pc[k]]]) = 0
      BY <1>1, <3>2, SumOfZeros
    <3>4. Memory[program][v] \in Int
      BY <1>1 DEF Numbers
    <3> QED
      BY <1>1, <3>3, <3>4
  <2> QED
    BY <2>1 DEF SumsRight
<1>3. KnowsRight
  BY <1>1 DEF KnowsRight, Accounted
<1>4. LatestRight
  BY <1>1 DEF LatestRight, Increments
<1> QED
  BY <1>2, <1>3, <1>4 DEF Counted

\* The invariant is inductive.
LEMMA OutcomeInductive ==
  ASSUME OInv, [Next]_vars
  PROVE  OInv'
<1>1. IInv' /\ program' = program
  BY NextInvariant, ProgramStays DEF OInv
<1>2. Typed' /\ IInv /\ Typed /\ Unfinished
  BY <1>1 DEF IInv, OInv, Stacks
<1>3. CASE UNCHANGED vars
  BY <1>1, <1>3 DEF vars, OInv, Counted, SumsRight, KnowsRight, LatestRight
<1>4. ASSUME NEW t \in Threads, Thread(t)
      PROVE  Counted'
  <2>1. CASE TakeTask(t)
    BY <2>1 DEF TakeTask, OInv, Counted, SumsRight, KnowsRight, LatestRight
  <2>2. ASSUME NEW n, Step(t, n)
        PROVE  Counted'
    BY <1>2, <2>2, StepSumsRight, StepKnowsRight, StepLatestRight DEF Counted
  <2> QED
    BY <1>2, <1>4, <2>1, <2>2, Actions
<1> QED
  BY <1>1, <1>3, <1>4 DEF Next, OInv

\* A program whose text shows its outcome has it at the end of main, whichever
\* thread runs which task when: no update is lost, none is made twice, and what
\* was computed was computed from values that were final.
THEOREM OutcomeKnown == Spec => [](program \in Exact => OutcomeRight)
<1>1. Init => (program \in Exact => OInv)
  <2>1. Exact \subseteq Guarded
    BY ExactAssumption
  <2> QED
    BY <2>1, InitInvariant, InitCounted DEF OInv
<1>2. (program \in Exact => OInv) /\ [Next]_vars => (program \in Exact => OInv)'
  BY OutcomeInductive, ProgramStays
<1>3. OInv => OutcomeRight
  <2>1. SUFFICES ASSUME OInv, Done(Main)
                 PROVE  \E o \in Outcomes[program] : \A v \in DOMAIN o : mem[v] = o[v]
    BY ExactRule DEF OutcomeRight, OInv
  <2>2. \A k \in Tasks(program) : pc[k] = Len(Code[program][k]) + 1
    BY <2>1, ExactRule, AllOver, UnderWay DEF OInv, IInv
  <2>3. ASSUME NEW v \in Tracked(program)
        PROVE  mem[v] = Sum(program, v)
    <3>1. [k \in Tasks(program) |-> Gives[program][v][k][pc[k]]]
            = [k \in Tasks(program) |-> Gives[program][v][k][Len(Code[program][k]) + 1]]
      BY <2>2
    <3> QED
      BY <2>1, <3>1 DEF OInv, Counted, SumsRight, Sum
  <2> QED
    BY <2>1, <2>3, ExactRule DEF OInv, Expected
<1> QED
  BY <1>1, <1>2, <1>3, PTL DEF Spec
=============================================================================
