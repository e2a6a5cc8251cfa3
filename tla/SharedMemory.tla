---------------------------- MODULE SharedMemory ----------------------------
(***************************************************************************)
(* How a program of the guide runs: tasks and std::threads whose bodies    *)
(* are sequences of Steps share variables and mutexes.  A thread runs one  *)
(* task at a time and, while that one waits for others, runs further tasks *)
(* on top of it, as the TBB scheduler does.  The programs are a parameter. *)
(***************************************************************************)
EXTENDS Steps

CONSTANTS Programs,     \* the programs
          Code,         \* Code[p][j] is the body of task j of program p
          Memory,       \* Memory[p] is the shared memory as main sets it up
          Outcomes,     \* Outcomes[p] are the values p is said to end with
          MainThread,   \* the one that runs main
          Main,         \* the task that is main
          Racy,         \* the programs known to have a data race
          Misdescribed, \* the programs known to end with other values than they say
          Detached      \* the programs whose main does not wait for every task

Tasks(p) == DOMAIN Code[p]

ASSUME ProgramsAssumption ==
  LET code == Code IN
  \A p \in Programs :
    /\ Main \in DOMAIN code[p]
    /\ \A j \in DOMAIN code[p] : /\ Len(code[p][j]) \in Nat \ {0}
                                 /\ DOMAIN code[p][j] = 1 .. Len(code[p][j])

VARIABLES program,  \* the program that runs
          mem,      \* the shared variables
          held,     \* <<task, mutex, mode>>: the scoped_locks that hold a mutex
          reg,      \* each task's local variable: what it read last
          pc,       \* the next step of each task
          ready,    \* the tasks started that no thread has taken
          stack     \* the tasks each thread is in the middle of

vars == <<program, mem, held, reg, pc, ready, stack>>

Init == /\ program \in Programs
        /\ mem = Memory[program]
        /\ held = {}
        /\ reg = [j \in Tasks(program) |-> 0]
        /\ pc = [j \in Tasks(program) |-> 1]
        /\ ready = {}
        /\ stack = [t \in Threads |-> IF t = MainThread THEN <<Main>> ELSE <<>>]

Body(j) == Code[program][j]
Done(j) == pc[j] > Len(Body(j))
Busy(t) == stack[t] # <<>>
Current(t) == stack[t][Len(stack[t])]
Here(t) == Body(Current(t))[pc[Current(t)]]
At(t, op) == Busy(t) /\ Here(t).op = op

\* Every thread has a copy of its own of an enumerable_thread_specific.
Address(t, v) == CASE v[2] = Self -> <<v[1], t>>
                   [] v[2] = Wrapped -> <<v[1], t % 2>>
                   [] OTHER -> v

\* Mutant: the thread stays with a task that is over.
AdvanceKeep(t, n) ==
  /\ pc' = [pc EXCEPT ![Current(t)] = @ + n]
  /\ UNCHANGED stack

\* Go on n steps; at the end of the body the thread returns to the task below.
Advance(t, n) ==
  LET j == Current(t) IN
  /\ pc' = [pc EXCEPT ![j] = @ + n]
  /\ stack' = IF pc[j] + n > Len(Body(j))
              THEN [stack EXCEPT ![t] = SubSeq(@, 1, Len(@) - 1)] ELSE stack
-----------------------------------------------------------------------------
(* Variables. *)

ReadVariable(t) ==
  /\ At(t, "read")
  /\ LET s == Here(t) IN
     reg' = [reg EXCEPT ![Current(t)] = Seen(s.fn, s.arg, @, mem[Address(t, s.var)])]
  /\ Advance(t, 1)
  /\ UNCHANGED <<program, mem, held, ready>>

\* The value written is made of the one the task read last.
WriteVariable(t) ==
  /\ At(t, "write")
  /\ LET s == Here(t) IN
     mem' = [mem EXCEPT ![Address(t, s.var)] = Changed(s.fn, s.arg, reg[Current(t)])]
  /\ Advance(t, 1)
  /\ UNCHANGED <<program, held, reg, ready>>

\* A container changes; whoever reads it meanwhile races with the change.
ChangeContainer(t) ==
  /\ At(t, "change")
  /\ LET s == Here(t) IN
     mem' = [mem EXCEPT ![Address(t, s.var)] = Changed(s.fn, s.arg, @)]
  /\ Advance(t, 1)
  /\ UNCHANGED <<program, held, reg, ready>>

\* An operation of an atomic or of a concurrent container.
UpdateAtomic(t) ==
  /\ At(t, "update")
  /\ LET s == Here(t)
         a == Address(t, s.var) IN
     /\ CanUpdate(s.fn, s.arg, mem[a])
     /\ mem' = [mem EXCEPT ![a] = Changed(s.fn, s.arg, @)]
     /\ reg' = [reg EXCEPT ![Current(t)] = Returned(s.fn, mem[a])]
  /\ Advance(t, 1)
  /\ UNCHANGED <<program, held, ready>>

\* A loop that reads an atomic until it has a value.
SpinUntil(t) ==
  /\ At(t, "spin")
  /\ mem[Here(t).var] = Here(t).arg
  /\ Advance(t, 1)
  /\ UNCHANGED <<program, mem, held, reg, ready>>

\* A condition, and the jump over the branch not taken.
Branch(t) ==
  /\ At(t, "skip")
  /\ Advance(t, IF reg[Current(t)] \in Here(t).in THEN 1 ELSE 1 + Here(t).count)
  /\ UNCHANGED <<program, mem, held, reg, ready>>
-----------------------------------------------------------------------------
(* Mutexes. *)

\* A mutex can be taken in a mode if nobody holds it, or all share it.
Free(m, mode) == \A h \in held : h[2] = m => mode = "r" /\ h[3] = "r"

AcquireMutex(t) ==
  /\ At(t, "acquire")
  /\ LET s == Here(t) IN
     /\ Free(s.mutex, s.mode)
     /\ held' = held \cup {<<Current(t), s.mutex, s.mode>>}
  /\ Advance(t, 1)
  /\ UNCHANGED <<program, mem, reg, ready>>

\* try_acquire returns at once.
TryAcquireMutex(t) ==
  /\ At(t, "try")
  /\ LET m == Here(t).mutex IN
     /\ held' = held \cup (IF Free(m, "w") THEN {<<Current(t), m, "w">>} ELSE {})
     /\ reg' = [reg EXCEPT ![Current(t)] = IF Free(m, "w") THEN 1 ELSE 0]
  /\ Advance(t, 1)
  /\ UNCHANGED <<program, mem, ready>>

ReleaseMutex(t) ==
  /\ At(t, "release")
  /\ held' = {h \in held : h[1] # Current(t) \/ h[2] # Here(t).mutex}
  /\ Advance(t, 1)
  /\ UNCHANGED <<program, mem, reg, ready>>
-----------------------------------------------------------------------------
(* Tasks. *)

StartTasks(t) ==
  /\ At(t, "start")
  /\ ready' = ready \cup Here(t).tasks
  /\ Advance(t, 1)
  /\ UNCHANGED <<program, mem, held, reg>>

\* Mutant: a wait for several tasks returns when one of them is done.
WaitForAny(t) ==
  /\ At(t, "wait") \/ At(t, "join")
  /\ \E j \in Here(t).tasks : Done(j)
  /\ Advance(t, 1)
  /\ UNCHANGED <<program, mem, held, reg, ready>>

\* wait and join return when the tasks are done.
WaitForTasks(t) ==
  /\ At(t, "wait") \/ At(t, "join")
  /\ \A j \in Here(t).tasks : Done(j)
  /\ Advance(t, 1)
  /\ UNCHANGED <<program, mem, held, reg, ready>>

Running == {j \in Tasks(program) : \E t \in Threads : \E i \in DOMAIN stack[t] : stack[t][i] = j}

\* Thread t can run task j: the arena or the global_control has room for one
\* more, and a std::thread is no task for a thread that waits.
Room(t, j) == \E k \in Tasks(program) : \E i \in DOMAIN Body(k) :
                LET s == Body(k)[i] IN /\ s.op = "start"
                                       /\ j \in s.tasks
                                       /\ Cardinality(s.arena \cap Running) < s.width
                                       /\ s.threads => ~Busy(t)

\* An idle thread, or one that waits, takes a task.
TakeTask(t) ==
  /\ Busy(t) => Here(t).op = "wait" /\ \E j \in Here(t).tasks : ~Done(j)
  /\ \E j \in ready : /\ Room(t, j)
                      /\ ready' = ready \ {j}
                      /\ stack' = [stack EXCEPT ![t] = Append(@, j)]
  /\ UNCHANGED <<program, mem, held, reg, pc>>
-----------------------------------------------------------------------------
Finished == ready = {} /\ \A t \in Threads : ~Busy(t)

Thread(t) == \/ ReadVariable(t) \/ WriteVariable(t) \/ ChangeContainer(t) \/ UpdateAtomic(t)
             \/ SpinUntil(t) \/ Branch(t)
             \/ AcquireMutex(t) \/ TryAcquireMutex(t) \/ ReleaseMutex(t)
             \/ StartTasks(t) \/ WaitForTasks(t) \/ TakeTask(t)

Next == (\E t \in Threads : Thread(t)) \/ (Finished /\ UNCHANGED vars)

Spec == Init /\ [][Next]_vars

\* A thread that can go on does.  Every step moves a program counter or a stack.
Fairness == \A t \in Threads : WF_<<pc, stack>>(Thread(t))
FairSpec == Spec /\ Fairness
-----------------------------------------------------------------------------
\* Type invariant.
TypeOK == /\ program \in Programs
          /\ DOMAIN mem = DOMAIN Memory[program]
          /\ \A h \in held : /\ h = <<h[1], h[2], h[3]>>
                             /\ h[1] \in Tasks(program) /\ h[3] \in {"r", "w"}
          /\ DOMAIN reg = Tasks(program)
          /\ pc \in [Tasks(program) -> Nat \ {0}]
          /\ ready \subseteq Tasks(program)
          /\ stack \in [Threads -> Seq(Tasks(program))]
          /\ \A t \in Threads : Busy(t) => ~Done(Current(t))

\* Threads t and u are about to access the same variable.
Writes == {"write", "change", "update"}
Accesses == Writes \cup {"read", "spin"}
Conflict(t, u) == /\ Busy(t) /\ Here(t).op \in Accesses
                  /\ Busy(u) /\ Here(u).op \in Accesses
                  /\ Address(t, Here(t).var) = Address(u, Here(u).var)
                  /\ {Here(t).op, Here(u).op} \cap Writes # {}
                  /\ ~(Here(t).atomic /\ Here(u).atomic)

\* No data race: two threads never stand before accesses to the same variable
\* of which one writes and one is not atomic.
RaceFree == program \notin Racy => \A t, u \in Threads : t # u => ~Conflict(t, u)

\* What main prints at the end is what the text of the program says of it, in
\* every interleaving: no update is lost, no half-made value is seen, nothing
\* comes in another order.  Where main does not wait this holds when everything
\* has stopped.
OutcomeRight ==
  program \notin Racy \cup Misdescribed /\ (IF program \in Detached THEN Finished ELSE Done(Main))
    => \E o \in Outcomes[program] : \A v \in DOMAIN o : mem[v] = o[v]

\* When main is at its end, nothing it started still runs: what it destroys on
\* the way out is used no more.
NothingLeftRunning == Done(Main) /\ program \notin Detached => Finished

\* Every program comes to an end: no deadlock and no spinning for ever.
Terminates == <>Finished
=============================================================================
