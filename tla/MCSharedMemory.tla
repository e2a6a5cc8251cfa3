--------------------------- MODULE MCSharedMemory ---------------------------
(* The programs of the catalogues, run by SharedMemory.                      *)
EXTENDS KnownOutcome, SequencesExt

CONSTANT N  \* the iterations of a loop

Locks == INSTANCE LockExamples
Containers == INSTANCE ContainerExamples
Tasking == INSTANCE TaskExamples
Queues == INSTANCE QueueExamples
Looping == INSTANCE LoopExamples

AllPrograms == Locks!LockPrograms @@ Containers!ContainerPrograms @@ Tasking!TaskPrograms
               @@ Queues!QueuePrograms @@ Looping!LoopPrograms
MCPrograms == DOMAIN AllPrograms

\* What is looked up in every step is put in a table.  TLC evaluates once what a
\* bound variable stands for, and a definition without parameters unless it is
\* that of a constant; it tabulates a function written f @@ <<>>.  The LETs keep
\* its statistics from descending into the tables wherever a constant occurs.
The(S) == CHOOSE x \in S : TRUE

AllCode == The({[p \in DOMAIN all |-> all[p].code] @@ <<>> : all \in {AllPrograms}})
AllMemory == The({[p \in DOMAIN all |-> all[p].memory] @@ <<>> : all \in {AllPrograms}})
AllOutcomes == The({[p \in DOMAIN all |-> all[p].outcomes] @@ <<>> : all \in {AllPrograms}})
MCCode == LET all == AllCode IN all
MCMemory == LET all == AllMemory IN all
MCOutcomes == LET all == AllOutcomes IN all
MCRacy == Tasking!RacyPrograms \cup Looping!RacyLoops
MCDetached == Tasking!DetachedPrograms
MCMisdescribed == Queues!MisdescribedQueues \cup Looping!MisdescribedLoops

\* Where the text is not enough: the mutex is held if try_acquire said so, the
\* arena has one thread, the tasks of a pipeline are started by the last of those
\* they wait for, and only one index has the result that is reported.
Undisciplined == {"try_lock", "sequential_mode", "scheduler_performance_1", "pipeline_basic",
                  "image_processing", "debugging"}
MCGuarded == MCPrograms \ (MCRacy \cup Undisciplined)

\* What is known at the places of a body: what is known on every way there.
Meet(S) == {x \in UNION S : \A y \in S : x \in y}
Flow(body, After(_, _)) ==
  LET before(n) == {i \in 1 .. n - 1 : n \in NextPlaces(body[i], i)}
      next(known, n) == Append(known, Meet({After(body[i], known[i]) : i \in before(n)}))
  IN  FoldLeft(next, <<{}>>, [i \in DOMAIN body |-> i + 1])

AllHolds ==
  The({[p \in DOMAIN code |-> [j \in DOMAIN code[p] |-> Flow(code[p][j], HeldAfter)] @@ <<>>] @@ <<>>
         : code \in {AllCode}})
MCHolds == LET all == AllHolds IN all

\* The tasks that each task of a program has waited for, and those they have.
Waited(bodies) ==
  LET waited[j \in DOMAIN bodies] ==
        LET atEnd == [k \in UNION {s.tasks : s \in {t \in Range(bodies[j]) : t.op \in {"wait", "join"}}}
                        |-> Last(waited[k])]
        IN  Flow(bodies[j], LAMBDA s, known : EndedAfter(s, known, atEnd))
  IN  [j \in DOMAIN bodies |-> waited[j]]

\* Besides these, what was over when the task was started is.
OverBy(bodies) ==
  LET waited == Waited(bodies)
      starts(j) == {x \in UNION {{k} \X DOMAIN bodies[k] : k \in DOMAIN bodies} :
                      LET s == bodies[x[1]][x[2]] IN s.op = "start" /\ j \in s.tasks}
      inherited[j \in DOMAIN bodies] ==
        Meet({inherited[x[1]] \cup waited[x[1]][x[2]] : x \in starts(j)})
  IN  [j \in DOMAIN bodies |-> [i \in DOMAIN waited[j] |-> inherited[j] \cup waited[j][i]] @@ <<>>] @@ <<>>
AllEnded == The({[p \in DOMAIN code |-> OverBy(code[p])] @@ <<>> : code \in {AllCode}})
MCEnded == LET all == AllEnded IN all
-----------------------------------------------------------------------------
(* What the tasks of a program add to its numbers. *)

\* The variables that only operations on numbers touch.
Touching(code, v) == {s \in UNION {Range(body) : body \in Range(code)} : s.op \in Accesses /\ s.var[1] = v[1]}
Numeric(program0) ==
  {v \in DOMAIN program0.memory :
     LET steps == Touching(program0.code, v) IN
     /\ steps # {}
     /\ \A s \in steps :
          s.op = "spin" \/ s.fn \in {"is", "same", "plus", "times", "square", "over", "swap", "insert", "get", "sum"}}

\* A run of the bodies on one thread, which runs each task as soon as it is
\* started: at[j] is what task j has given to each variable at each place.
RECURSIVE Ran(_, _, _, _)
Ran(code, s, j, i) ==
  LET here == [s EXCEPT !.at[j] = Append(@, s.given[j])] IN
  IF i > Len(code[j]) THEN here
  ELSE
    LET step == code[j][i]
        a == Address(MainThread, step.var)
        x == Changed(step.fn, step.arg, IF step.op = "write" THEN s.reg[j] ELSE s.mem[a]) IN
    CASE step.op = "read" ->
           Ran(code, [here EXCEPT !.reg[j] = Seen(step.fn, step.arg, @, s.mem[a])], j, i + 1)
      [] step.op \in Writes ->
           Ran(code, [here EXCEPT !.mem[a] = x,
                                  !.reg[j] = IF step.op = "update" THEN Returned(step.fn, s.mem[a]) ELSE @,
                                  !.given[j] = [v \in DOMAIN @ |-> IF v = a THEN @[v] + x - s.mem[a] ELSE @[v]]],
               j, i + 1)
      [] step.op = "try" -> Ran(code, [here EXCEPT !.reg[j] = 1], j, i + 1)
      [] step.op = "skip" ->
           LET n == IF s.reg[j] \in step.in THEN 0 ELSE step.count
           IN  Ran(code, [here EXCEPT !.at[j] = @ \o [k \in 1..n |-> s.given[j]]], j, i + 1 + n)
      [] step.op = "start" ->
           Ran(code, FoldLeft(LAMBDA r, k : Ran(code, r, k, 1), here, SetToSeq(step.tasks)), j, i + 1)
      [] OTHER -> Ran(code, here, j, i + 1)

Rehearsed(p) ==
  LET tasks == DOMAIN p.code
      at == Ran(p.code, [mem |-> p.memory, reg |-> [j \in tasks |-> 0],
                         given |-> [j \in tasks |-> [v \in Numeric(p) |-> 0]],
                         at |-> [j \in tasks |-> <<>>]], Main, 1).at
  IN  [v \in Numeric(p) |-> [j \in tasks |-> [i \in DOMAIN at[j] |-> at[j][i][v]] @@ <<>>] @@ <<>>] @@ <<>>

Candidates == MCGuarded \ MCDetached
AllGives == The({[p \in Candidates |-> Rehearsed(all[p])] @@ <<>> : all \in {AllPrograms}})
MCGives == LET all == AllGives IN all

\* What is known of the local variables follows from that.
Text(Code0, Memory0, Ended0, Gives0, Knows0) ==
  INSTANCE KnownOutcome WITH Code <- Code0, Memory <- Memory0, Ended <- Ended0, Gives <- Gives0,
                             Knows <- Knows0

Knowledge(code, memory, ended, gives) ==
  LET learns(p, j, i, known) == Text(code, memory, ended, gives, <<>>)!Learns(p, j, i, known)
      flow(p, j) ==
        LET body == code[p][j]
            before(n) == {i \in 1 .. n - 1 : n \in NextPlaces(body[i], i)}
            next(known, n) == Append(known, Meet({learns(p, j, i, known[i]) : i \in before(n)}))
        IN  FoldLeft(next, <<{0}>>, [i \in DOMAIN body |-> i + 1])
  IN  [p \in DOMAIN gives |-> [j \in DOMAIN code[p] |-> flow(p, j)] @@ <<>>] @@ <<>>
AllKnows == The({Knowledge(code, memory, ended, gives) :
                   code \in {AllCode}, memory \in {AllMemory}, ended \in {AllEnded}, gives \in {AllGives}})
MCKnows == LET all == AllKnows IN all

\* Where the text is not enough for the outcome: it is a container,
Collected == {"basic_mutex", "complex_protection", "config_manager", "rw_performance", "rw_cache",
              "upgrade_pattern", "upgrade_users", "predictability", "producer_consumer",
              "basic_pushback", "iterator_stability", "parallel_population", "vector_performance",
              "log_collection", "queue_basic", "multiple_producers", "task_queue",
              "queue_performance", "bounded_basic", "blocking", "priority_basic",
              "priority_concurrent", "custom_comparator", "task_scheduling", "ordered",
              "parallel_operations"}
\* or depends on what a branch of a task finds,
Branching == {"scoped_lock", "map_basic", "accessor_pattern", "insert_or_update", "cache",
              "cache_client", "concurrent_updates", "word_count"}
\* or is made of what each thread has for itself.
ByThread == {"accumulation", "ets_performance", "histogram", "buffers", "custom_init",
             "ets_combine", "text_processing", "deterministic_thread_local",
             "tuning_thread_local", "accumulator_array"}
MCExact == Candidates \ (Collected \cup Branching \cup ByThread)
=============================================================================
