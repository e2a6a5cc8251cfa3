--------------------------- MODULE EventPipeline ---------------------------
(***************************************************************************)
(* examples/12_concurrent_queue.cpp, example 6: a generator pushes events  *)
(* to an input queue, processors move them to an output queue, and main,   *)
(* having joined them all, drains the output.  A processor that finds the  *)
(* input empty stops if the generator is no longer joinable; it does not   *)
(* look at the queue again.                                                *)
(***************************************************************************)
EXTENDS Naturals, SequencesExt

CONSTANTS NumEvents,   \* NUM_EVENTS
          Processors   \* the processor threads

ASSUME EventAssumption == NumEvents \in Nat /\ IsFiniteSet(Processors)

VARIABLES input,      \* input_queue
          output,     \* output_queue
          generated,  \* how many events the generator has pushed
          joinable,   \* generator.joinable()
          pc,         \* where each processor is
          evt,        \* the event each processor holds, or 0
          looked,     \* history: how many events had been pushed when each
                      \* processor last found the input empty
          mainPc,     \* where main is
          processed   \* the events main has counted

processorVars == <<pc, evt, looked>>
vars == <<input, output, generated, joinable, processorVars, mainPc, processed>>

Events == 1..NumEvents

Init == /\ input = <<>>
        /\ output = <<>>
        /\ generated = 0
        /\ joinable = TRUE
        /\ pc = [p \in Processors |-> "pop"]
        /\ evt = [p \in Processors |-> 0]
        /\ looked = [p \in Processors |-> 0]
        /\ mainPc = "joinGenerator"
        /\ processed = {}

Goto(p, from, to) == pc[p] = from /\ pc' = [pc EXCEPT ![p] = to]
MainGoto(from, to) == mainPc = from /\ mainPc' = to
-----------------------------------------------------------------------------
\* Mutant: one event too many.
GenerateOneMore ==
  /\ generated <= NumEvents
  /\ generated' = generated + 1
  /\ input' = Append(input, generated + 1)
  /\ UNCHANGED <<output, joinable, processorVars, mainPc, processed>>

\* Stage 1: the generator's next event.
Generate ==
  /\ generated < NumEvents
  /\ generated' = generated + 1
  /\ input' = Append(input, generated + 1)
  /\ UNCHANGED <<output, joinable, processorVars, mainPc, processed>>

\* Mutant: the event is read and left in the queue.
TakeCopy(p) ==
  /\ input # <<>>
  /\ Goto(p, "pop", "push")
  /\ evt' = [evt EXCEPT ![p] = Head(input)]
  /\ UNCHANGED <<input, output, looked, generated, joinable, mainPc, processed>>

\* Stage 2: try_pop found an event.
Take(p) ==
  /\ input # <<>>
  /\ Goto(p, "pop", "push")
  /\ evt' = [evt EXCEPT ![p] = Head(input)]
  /\ input' = Tail(input)
  /\ UNCHANGED <<output, looked, generated, joinable, mainPc, processed>>

\* output_queue.push(evt).
Put(p) ==
  /\ Goto(p, "push", "pop")
  /\ output' = Append(output, evt[p])
  /\ evt' = [evt EXCEPT ![p] = 0]
  /\ UNCHANGED <<input, looked, generated, joinable, mainPc, processed>>

\* Mutant: try_pop may find nothing although there is an event.
TakeNothingBusy(p) ==
  /\ Goto(p, "pop", "check")
  /\ looked' = [looked EXCEPT ![p] = generated]
  /\ UNCHANGED <<input, output, evt, generated, joinable, mainPc, processed>>

\* try_pop found nothing.
TakeNothing(p) ==
  /\ input = <<>>
  /\ Goto(p, "pop", "check")
  /\ looked' = [looked EXCEPT ![p] = generated]
  /\ UNCHANGED <<input, output, evt, generated, joinable, mainPc, processed>>

\* The generator is joinable: yield and try again.
Again(p) ==
  /\ joinable
  /\ Goto(p, "check", "pop")
  /\ UNCHANGED <<input, output, evt, looked, generated, joinable, mainPc, processed>>

\* The generator has been joined: break.
Stop(p) ==
  /\ ~joinable
  /\ Goto(p, "check", "done")
  /\ UNCHANGED <<input, output, evt, looked, generated, joinable, mainPc, processed>>
-----------------------------------------------------------------------------
\* Mutant: the processors are not told that the generator is done.
JoinSilently ==
  /\ generated = NumEvents
  /\ MainGoto("joinGenerator", "joinProcessors")
  /\ UNCHANGED <<input, output, generated, joinable, processorVars, processed>>

\* generator.join() returns, and from then on the thread is not joinable.
JoinGenerator ==
  /\ generated = NumEvents
  /\ MainGoto("joinGenerator", "joinProcessors")
  /\ joinable' = FALSE
  /\ UNCHANGED <<input, output, generated, processorVars, processed>>

\* Mutant: main collects without waiting for the processors.
CollectEarly ==
  /\ MainGoto("joinProcessors", "collect")
  /\ UNCHANGED <<input, output, generated, joinable, processorVars, processed>>

JoinProcessors ==
  /\ \A p \in Processors : pc[p] = "done"
  /\ MainGoto("joinProcessors", "collect")
  /\ UNCHANGED <<input, output, generated, joinable, processorVars, processed>>

\* Stage 3: main's next try_pop, until the output is empty.
Collect ==
  /\ output # <<>>
  /\ MainGoto("collect", "collect")
  /\ processed' = processed \cup {Head(output)}
  /\ output' = Tail(output)
  /\ UNCHANGED <<input, generated, joinable, processorVars>>

Report ==
  /\ output = <<>>
  /\ MainGoto("collect", "reported")
  /\ UNCHANGED <<input, output, generated, joinable, processorVars, processed>>
-----------------------------------------------------------------------------
Processor(p) == Take(p) \/ Put(p) \/ TakeNothing(p) \/ Again(p) \/ Stop(p)
Main == JoinGenerator \/ JoinProcessors \/ Collect \/ Report

\* The program stops when main has reported.
Finished == mainPc = "reported" /\ UNCHANGED vars

Next == Generate \/ (\E p \in Processors : Processor(p)) \/ Main \/ Finished

Spec == Init /\ [][Next]_vars

\* Every thread that can run does run.
Fairness == /\ WF_vars(Generate)
            /\ \A p \in Processors : WF_vars(Processor(p))
            /\ WF_vars(Main)

FairSpec == Spec /\ Fairness
-----------------------------------------------------------------------------
Held == {evt[p] : p \in {q \in Processors : pc[q] = "push"}}

\* Type invariant: events are those of the generator, and every thread is at a step of its own.
TypeOK ==
  /\ input \in Seq(Events)
  /\ output \in Seq(Events)
  /\ generated \in 0..NumEvents
  /\ joinable \in BOOLEAN
  /\ pc \in [Processors -> {"pop", "push", "check", "done"}]
  /\ evt \in [Processors -> Events \cup {0}]
  /\ looked \in [Processors -> 0..NumEvents]
  /\ mainPc \in {"joinGenerator", "joinProcessors", "collect", "reported"}
  /\ processed \subseteq Events

\* An event is in one place: no stage loses or copies it.
OnePlace ==
  /\ Len(input) + Len(output) + Cardinality(processed)
       + Cardinality({p \in Processors : pc[p] = "push"}) = generated
  /\ ToSet(input) \cup Held \cup ToSet(output) \cup processed = 1..generated

\* What main reports is final: nothing is on its way to the output any more,
\* and an event it did not count is still in the input queue.
ReportIsFinal ==
  mainPc = "reported" => Events \ processed = ToSet(input)

\* An event can be left behind only in one way: it was pushed after the last
\* look of every processor at the input.  One look after the last push, by any of
\* them, and the two counts agree.
LeftBehindLate ==
  mainPc = "reported" => \A e \in Events \ processed, p \in Processors : looked[p] < e

\* The program ends.
Terminates == <>(mainPc = "reported")

\* Every event generated is processed: the two counts main prints agree.
AllProcessed == mainPc = "reported" => processed = Events
=============================================================================
