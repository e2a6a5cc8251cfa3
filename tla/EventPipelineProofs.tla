------------------------ MODULE EventPipelineProofs ------------------------
(***************************************************************************)
(* Proofs about EventPipeline, for any number of events and processors.    *)
(* That no stage copies an event is a matter of counting: there are as     *)
(* many places in use as there are events, and every event has a place, so *)
(* no event has two.                                                       *)
(***************************************************************************)
EXTENDS EventPipeline, FiniteSetTheorems, SequenceTheorems, TLAPS

Pushing == {p \in Processors : pc[p] = "push"}

\* A processor that pushes holds an event.
HoldsEvent == \A p \in Pushing : evt[p] \in Events

\* After the generator has been joined nothing more is generated; after the
\* processors have been joined none of them moves; the report comes last.
Joined == /\ ~joinable => generated = NumEvents
          /\ mainPc \in {"collect", "reported"} =>
               ~joinable /\ \A p \in Processors : pc[p] = "done"
          /\ mainPc # "joinGenerator" => ~joinable
          /\ mainPc = "reported" => output = <<>>

\* A processor that has found the input empty and not looked again has seen the
\* end of everything pushed by then.
SeenToEnd == \A p \in Processors : pc[p] \in {"check", "done"} =>
               \A e \in ToSet(input) : looked[p] < e

\* A processor stops only when the generator has been joined.
StopsLate == \A p \in Processors : pc[p] = "done" => ~joinable

\* What it has seen had been pushed.
LookedPast == \A p \in Processors : looked[p] <= generated

IInv == TypeOK /\ HoldsEvent /\ OnePlace /\ Joined /\ SeenToEnd /\ StopsLate /\ LookedPast
-----------------------------------------------------------------------------
(* Sequences and the sets of their elements. *)

\* push adds one element.
LEMMA Appended ==
  ASSUME NEW S, NEW q \in Seq(S), NEW x \in S
  PROVE  /\ Append(q, x) \in Seq(S)
         /\ Len(q) \in Nat
         /\ Len(Append(q, x)) = Len(q) + 1
         /\ ToSet(Append(q, x)) = ToSet(q) \cup {x}
<1> DEFINE r == Append(q, x)
<1>1. /\ r \in Seq(S)
      /\ Len(q) \in Nat
      /\ Len(r) = Len(q) + 1
      /\ r[Len(q) + 1] = x
      /\ \A i \in 1..Len(q) : r[i] = q[i]
      /\ DOMAIN r = 1..Len(r) /\ DOMAIN q = 1..Len(q)
  OBVIOUS
<1> HIDE DEF r
<1>2. 1..Len(r) = 1..Len(q) \cup {Len(q) + 1}
  BY <1>1
<1>3. ToSet(r) = ToSet(q) \cup {x}
  BY <1>1, <1>2 DEF ToSet
<1> QED
  BY <1>1, <1>3 DEF r

\* try_pop removes one element.
LEMMA Removed ==
  ASSUME NEW S, NEW q \in Seq(S), q # <<>>
  PROVE  /\ Head(q) \in S
         /\ Tail(q) \in Seq(S)
         /\ Len(q) \in Nat
         /\ Len(Tail(q)) = Len(q) - 1
         /\ ToSet(q) = ToSet(Tail(q)) \cup {Head(q)}
<1> DEFINE r == Tail(q)
<1>1. /\ Head(q) \in S
      /\ Head(q) = q[1]
      /\ r \in Seq(S)
      /\ Len(q) \in Nat \ {0}
      /\ Len(r) = Len(q) - 1
      /\ \A i \in 1..Len(r) : r[i] = q[i + 1]
      /\ DOMAIN r = 1..Len(r) /\ DOMAIN q = 1..Len(q)
  BY HeadTailProperties, EmptySeq
<1> HIDE DEF r
<1>2. ToSet(r) \cup {Head(q)} \subseteq ToSet(q)
  <2>1. \A i \in 1..Len(r) : i + 1 \in 1..Len(q)
    BY <1>1
  <2> QED
    BY <2>1, <1>1 DEF ToSet
<1>3. ToSet(q) \subseteq ToSet(r) \cup {Head(q)}
  <2> SUFFICES ASSUME NEW x \in ToSet(q), x # Head(q)
               PROVE  x \in ToSet(r)
    OBVIOUS
  <2>1. PICK i \in 1..Len(q) : x = q[i]
    BY <1>1 DEF ToSet
  <2>2. i - 1 \in 1..Len(r) /\ x = r[i - 1]
    BY <2>1, <1>1
  <2> QED
    BY <2>2, <1>1 DEF ToSet
<1> QED
  BY <1>1, <1>2, <1>3 DEF r

\* A sequence has no more elements than places.
LEMMA AtMostLen ==
  ASSUME NEW S, NEW q \in Seq(S)
  PROVE  /\ IsFiniteSet(ToSet(q)) /\ Len(q) \in Nat
         /\ Cardinality(ToSet(q)) \in Nat /\ Cardinality(ToSet(q)) <= Len(q)
<1>1. Len(q) \in Nat /\ DOMAIN q = 1..Len(q) /\ q \in [1..Len(q) -> ToSet(q)]
  BY LenProperties DEF ToSet
<1>2. IsFiniteSet(1..Len(q)) /\ Cardinality(1..Len(q)) = Len(q)
  BY <1>1, FS_Interval
<1>3. q \in Surjection(1..Len(q), ToSet(q))
  BY <1>1 DEF Surjection, ToSet
<1> QED
  BY <1>1, <1>2, <1>3, FS_Surjection, FS_CardinalityType

\* The processors that push hold no more events than they are.
LEMMA HeldAtMost ==
  ASSUME TypeOK
  PROVE  /\ IsFiniteSet(Held) /\ IsFiniteSet(Pushing)
         /\ Cardinality(Held) \in Nat /\ Cardinality(Pushing) \in Nat
         /\ Cardinality(Held) <= Cardinality(Pushing)
<1>1. IsFiniteSet(Pushing)
  BY EventAssumption, FS_Subset DEF Pushing
<1> DEFINE f == [p \in Pushing |-> evt[p]]
<1>2. f \in Surjection(Pushing, Held)
  BY DEF Surjection, Held, Pushing
<1> QED
  BY <1>1, <1>2, FS_Surjection, FS_CardinalityType

\* Four sets that cover 1..n and whose sizes are at most counts that add up to
\* n have no element in common, and no set is smaller than its count.
LEMMA CoverIsPartition ==
  ASSUME NEW n \in Nat, NEW A, NEW B, NEW C, NEW D,
         IsFiniteSet(A), IsFiniteSet(B), IsFiniteSet(C), IsFiniteSet(D),
         A \cup B \cup C \cup D = 1..n,
         Cardinality(A) + Cardinality(B) + Cardinality(C) + Cardinality(D) <= n
  PROVE  /\ A \cap D = {}
         /\ Cardinality(A) + Cardinality(B) + Cardinality(C) + Cardinality(D) = n
<1> DEFINE E == A \cup D
           F == B \cup C
<1>1. Cardinality(1..n) = n
  BY FS_Interval
<1>2. /\ IsFiniteSet(E) /\ IsFiniteSet(F) /\ IsFiniteSet(A \cap D) /\ IsFiniteSet(B \cap C)
      /\ Cardinality(E) = Cardinality(A) + Cardinality(D) - Cardinality(A \cap D)
      /\ Cardinality(F) = Cardinality(B) + Cardinality(C) - Cardinality(B \cap C)
  <2>1. A \cap D \in SUBSET A /\ B \cap C \in SUBSET B
    OBVIOUS
  <2>2. IsFiniteSet(A \cap D) /\ IsFiniteSet(B \cap C)
    BY <2>1, FS_Subset
  <2> QED
    BY <2>2, FS_Union
<1>3. E \cup F = 1..n
  OBVIOUS
<1>4. IsFiniteSet(E \cap F)
  <2>1. E \cap F \in SUBSET E
    OBVIOUS
  <2> QED
    BY <1>2, <2>1, FS_Subset
<1>5. Cardinality(1..n) = Cardinality(E) + Cardinality(F) - Cardinality(E \cap F)
  BY <1>2, <1>3, FS_Union
<1>6. /\ Cardinality(A) \in Nat /\ Cardinality(B) \in Nat /\ Cardinality(C) \in Nat
      /\ Cardinality(D) \in Nat /\ Cardinality(A \cap D) \in Nat
      /\ Cardinality(B \cap C) \in Nat /\ Cardinality(E \cap F) \in Nat
  BY <1>2, <1>4, FS_CardinalityType
<1> HIDE DEF E, F
<1>7. Cardinality(A \cap D) = 0
  BY <1>1, <1>2, <1>5, <1>6
<1>8. A \cap D = {}
  BY <1>2, <1>7, FS_EmptySet
<1> QED
  BY <1>1, <1>2, <1>5, <1>6, <1>8
-----------------------------------------------------------------------------
(* No event is in two places. *)

\* What main has counted has left both queues.
LEMMA CountedOnce ==
  ASSUME IInv
  PROVE  /\ ToSet(input) \cap processed = {}
         /\ ToSet(output) \cap processed = {}
         /\ IsFiniteSet(processed)
<1>1. /\ generated \in Nat /\ IsFiniteSet(1..generated)
      /\ processed \subseteq 1..generated
  BY EventAssumption, FS_Interval DEF IInv, TypeOK, OnePlace
<1>2. IsFiniteSet(processed) /\ Cardinality(processed) \in Nat
  BY <1>1, FS_Subset, FS_CardinalityType
<1>3. /\ IsFiniteSet(ToSet(input)) /\ IsFiniteSet(ToSet(output)) /\ IsFiniteSet(Held)
      /\ Cardinality(ToSet(input)) \in Nat /\ Cardinality(ToSet(output)) \in Nat
      /\ Cardinality(Held) \in Nat
      /\ Len(input) \in Nat /\ Len(output) \in Nat /\ Cardinality(Pushing) \in Nat
      /\ Cardinality(ToSet(input)) <= Len(input)
      /\ Cardinality(ToSet(output)) <= Len(output)
      /\ Cardinality(Held) <= Cardinality(Pushing)
  BY AtMostLen, HeldAtMost DEF IInv, TypeOK
<1>4. Len(input) + Len(output) + Cardinality(processed) + Cardinality(Pushing) = generated
  BY DEF IInv, OnePlace, Pushing
<1>5. /\ ToSet(input) \cup Held \cup ToSet(output) \cup processed = 1..generated
      /\ ToSet(output) \cup Held \cup ToSet(input) \cup processed = 1..generated
  BY DEF IInv, OnePlace
<1> DEFINE I == ToSet(input)
           O == ToSet(output)
           H == Held
<1> HIDE DEF I, O, H
<1>6. Cardinality(I) + Cardinality(H) + Cardinality(O) + Cardinality(processed) <= generated
  BY <1>1, <1>2, <1>3, <1>4 DEF I, O, H
<1>7. Cardinality(O) + Cardinality(H) + Cardinality(I) + Cardinality(processed) <= generated
  BY <1>2, <1>3, <1>6 DEF I, O, H
<1>8. I \cap processed = {}
  <2>1. IsFiniteSet(I) /\ IsFiniteSet(H) /\ IsFiniteSet(O) /\ I \cup H \cup O \cup processed = 1..generated
    BY <1>3, <1>5 DEF I, O, H
  <2> QED
    BY <2>1, <1>1, <1>2, <1>6, CoverIsPartition
<1>9. O \cap processed = {}
  <2>1. IsFiniteSet(I) /\ IsFiniteSet(H) /\ IsFiniteSet(O) /\ O \cup H \cup I \cup processed = 1..generated
    BY <1>3, <1>5 DEF I, O, H
  <2> QED
    BY <2>1, <1>1, <1>2, <1>7, CoverIsPartition
<1> QED
  BY <1>2, <1>8, <1>9 DEF I, O

\* The event main takes from the output is one it has not counted.
LEMMA FreshOutput ==
  ASSUME IInv, output # <<>>
  PROVE  Head(output) \notin processed
<1>1. Head(output) \in ToSet(output)
  BY Removed DEF IInv, TypeOK
<1> QED
  BY <1>1, CountedOnce
-----------------------------------------------------------------------------
\* Nothing has been generated.
LEMMA InitInv == Init => IInv
<1> SUFFICES ASSUME Init PROVE IInv
  OBVIOUS
<1>1. ToSet(<<>>) = {} /\ Len(<<>>) = 0
  BY EmptySeq DEF ToSet
<1>2. TypeOK
  <2>1. input \in Seq(Events) /\ output \in Seq(Events)
    BY EmptySeq DEF Init
  <2> QED
    BY <2>1, EventAssumption DEF Init, TypeOK
<1>3. Pushing = {} /\ Held = {}
  BY DEF Init, Pushing, Held
<1>4. OnePlace
  <2>1. Len(input) + Len(output) + Cardinality(processed) + Cardinality(Pushing) = generated
    BY <1>1, <1>3, FS_EmptySet DEF Init
  <2>2. ToSet(input) \cup Held \cup ToSet(output) \cup processed = 1..generated
    BY <1>1, <1>3 DEF Init
  <2> QED
    BY <2>1, <2>2 DEF OnePlace, Pushing
<1> QED
  BY <1>2, <1>3, <1>4 DEF Init, IInv, HoldsEvent, Joined, SeenToEnd, StopsLate, LookedPast

\* The generator's next event goes to the input.
LEMMA GenerateInv == ASSUME IInv, Generate PROVE IInv'
<1>1. /\ generated \in Nat /\ generated < NumEvents /\ generated' = generated + 1
      /\ input' = Append(input, generated + 1)
      /\ UNCHANGED <<output, joinable, pc, evt, looked, mainPc, processed>>
  BY EventAssumption DEF Generate, processorVars, IInv, TypeOK
<1>2. generated + 1 \in Events /\ generated' \in 0..NumEvents
  BY <1>1, EventAssumption DEF Events
<1>3. /\ input' \in Seq(Events) /\ Len(input) \in Nat /\ Len(input') = Len(input) + 1
      /\ ToSet(input') = ToSet(input) \cup {generated + 1}
  BY <1>1, <1>2, Appended DEF IInv, TypeOK
<1>4. TypeOK'
  BY <1>1, <1>2, <1>3 DEF IInv, TypeOK
<1>5. Held' = Held /\ Pushing' = Pushing
  BY <1>1 DEF Held, Pushing
<1>6. OnePlace'
  <2>1. Len(input') + Len(output') + Cardinality(processed') + Cardinality(Pushing') = generated'
    <3>1. /\ Len(input) + Len(output) + Cardinality(processed) + Cardinality(Pushing) = generated
          /\ Len(output) \in Nat /\ Cardinality(Pushing) \in Nat /\ Cardinality(processed) \in Nat
      BY CountedOnce, HeldAtMost, FS_CardinalityType DEF IInv, TypeOK, OnePlace, Pushing
    <3> QED
      BY <3>1, <1>1, <1>3, <1>5
  <2>2. 1..generated' = 1..generated \cup {generated + 1}
    BY <1>1
  <2>3. (ToSet(input) \cup Held \cup ToSet(output) \cup processed)' = 1..generated'
    BY <2>2, <1>1, <1>3, <1>5 DEF IInv, OnePlace
  <2> QED
    BY <2>1, <2>3 DEF OnePlace, Pushing
<1>7. HoldsEvent'
  BY <1>1, <1>5 DEF IInv, HoldsEvent
<1>8. Joined' /\ StopsLate'
  BY <1>1 DEF IInv, Joined, StopsLate
<1>9. SeenToEnd'
  <2>1. \A p \in Processors : looked[p] <= generated
    BY DEF IInv, LookedPast
  <2>2. \A p \in Processors : looked[p] \in Nat
    BY EventAssumption DEF IInv, TypeOK
  <2> QED
    BY <1>1, <1>3, <2>1, <2>2 DEF IInv, SeenToEnd
<1>10. LookedPast'
  BY <1>1, EventAssumption DEF IInv, TypeOK, LookedPast
<1> QED
  BY <1>4, <1>6, <1>7, <1>8, <1>9, <1>10 DEF IInv

\* An event goes from the input to a processor.
LEMMA TakeInv == ASSUME IInv, NEW p \in Processors, Take(p) PROVE IInv'
<1>1. /\ pc[p] = "pop" /\ pc' = [pc EXCEPT ![p] = "push"]
      /\ input # <<>> /\ input' = Tail(input) /\ evt' = [evt EXCEPT ![p] = Head(input)]
      /\ UNCHANGED <<output, looked, generated, joinable, mainPc, processed>>
  BY DEF Take, Goto
<1>2. /\ Head(input) \in Events /\ input' \in Seq(Events)
      /\ Len(input) \in Nat /\ Len(input') = Len(input) - 1
      /\ ToSet(input) = ToSet(input') \cup {Head(input)}
  BY <1>1, Removed DEF IInv, TypeOK
<1>3. TypeOK'
  BY <1>1, <1>2 DEF IInv, TypeOK
<1>4. Pushing' = Pushing \cup {p} /\ p \notin Pushing
  BY <1>1 DEF IInv, TypeOK, Pushing
<1>5. Held' = Held \cup {Head(input)}
  BY <1>1 DEF IInv, TypeOK, Held
<1>6. OnePlace'
  <2>1. Len(input') + Len(output') + Cardinality(processed') + Cardinality(Pushing') = generated'
    <3>1. /\ Len(input) + Len(output) + Cardinality(processed) + Cardinality(Pushing) = generated
          /\ Len(output) \in Nat /\ Cardinality(Pushing) \in Nat /\ Cardinality(processed) \in Nat
      BY CountedOnce, HeldAtMost, FS_CardinalityType DEF IInv, TypeOK, OnePlace, Pushing
    <3>2. Cardinality(Pushing') = Cardinality(Pushing) + 1
      BY <1>4, HeldAtMost, FS_AddElement DEF IInv
    <3> QED
      BY <3>1, <3>2, <1>1, <1>2
  <2>2. (ToSet(input) \cup Held \cup ToSet(output) \cup processed)' = 1..generated'
    BY <1>1, <1>2, <1>5 DEF IInv, OnePlace
  <2> QED
    BY <2>1, <2>2 DEF OnePlace, Pushing
<1>7. HoldsEvent'
  BY <1>1, <1>2, <1>4 DEF IInv, TypeOK, HoldsEvent
<1>8. Joined' /\ StopsLate' /\ LookedPast'
  BY <1>1 DEF IInv, TypeOK, Joined, StopsLate, LookedPast
<1>9. SeenToEnd'
  <2>1. \A q \in Processors : pc'[q] \in {"check", "done"} => pc[q] = pc'[q]
    BY <1>1 DEF IInv, TypeOK
  <2> QED
    BY <1>1, <1>2, <2>1 DEF IInv, SeenToEnd
<1> QED
  BY <1>3, <1>6, <1>7, <1>8, <1>9 DEF IInv

\* An event goes from a processor to the output.
LEMMA PutInv == ASSUME IInv, NEW p \in Processors, Put(p) PROVE IInv'
<1>1. /\ pc[p] = "push" /\ pc' = [pc EXCEPT ![p] = "pop"]
      /\ output' = Append(output, evt[p]) /\ evt' = [evt EXCEPT ![p] = 0]
      /\ UNCHANGED <<input, looked, generated, joinable, mainPc, processed>>
  BY DEF Put, Goto
<1>2. p \in Pushing /\ evt[p] \in Events
  BY <1>1 DEF IInv, HoldsEvent, Pushing
<1>3. /\ output' \in Seq(Events) /\ Len(output) \in Nat /\ Len(output') = Len(output) + 1
      /\ ToSet(output') = ToSet(output) \cup {evt[p]}
  BY <1>1, <1>2, Appended DEF IInv, TypeOK
<1>4. TypeOK'
  BY <1>1, <1>3 DEF IInv, TypeOK
<1>5. Pushing' = Pushing \ {p}
  BY <1>1 DEF IInv, TypeOK, Pushing
<1>6. Held' \cup {evt[p]} = Held
  <2>1. \A q \in Processors : q # p => pc'[q] = pc[q] /\ evt'[q] = evt[q]
    BY <1>1 DEF IInv, TypeOK
  <2>2. pc'[p] # "push"
    BY <1>1 DEF IInv, TypeOK
  <2> QED
    BY <2>1, <2>2, <1>1 DEF Held
<1>7. OnePlace'
  <2>1. Len(input') + Len(output') + Cardinality(processed') + Cardinality(Pushing') = generated'
    <3>1. /\ Len(input) + Len(output) + Cardinality(processed) + Cardinality(Pushing) = generated
          /\ Len(input) \in Nat /\ Cardinality(Pushing) \in Nat /\ Cardinality(processed) \in Nat
      BY CountedOnce, HeldAtMost, FS_CardinalityType DEF IInv, TypeOK, OnePlace, Pushing
    <3>2. Cardinality(Pushing') = Cardinality(Pushing) - 1
      BY <1>2, <1>5, HeldAtMost, FS_RemoveElement DEF IInv
    <3> QED
      BY <3>1, <3>2, <1>1, <1>3
  <2>2. (ToSet(input) \cup Held \cup ToSet(output) \cup processed)' = 1..generated'
    BY <1>1, <1>3, <1>6 DEF IInv, OnePlace
  <2> QED
    BY <2>1, <2>2 DEF OnePlace, Pushing
<1>8. HoldsEvent'
  BY <1>1, <1>5 DEF IInv, TypeOK, HoldsEvent, Pushing
<1>9. mainPc \notin {"collect", "reported"}
  BY <1>1 DEF IInv, Joined
<1> QED
  BY <1>1, <1>4, <1>7, <1>8, <1>9 DEF IInv, TypeOK, Joined, SeenToEnd, StopsLate, LookedPast

\* A processor that found nothing decides whether to look again.
LEMMA LookInv ==
  ASSUME IInv, NEW p \in Processors, TakeNothing(p) \/ Again(p) \/ Stop(p)
  PROVE  IInv'
<1>1. /\ pc[p] \in {"pop", "check"}
      /\ \/ /\ pc' = [pc EXCEPT ![p] = "check"] /\ input = <<>>
            /\ looked' = [looked EXCEPT ![p] = generated]
         \/ pc' = [pc EXCEPT ![p] = "pop"] /\ joinable /\ looked' = looked
         \/ pc[p] = "check" /\ pc' = [pc EXCEPT ![p] = "done"] /\ ~joinable /\ looked' = looked
      /\ UNCHANGED <<input, output, evt, generated, joinable, mainPc, processed>>
  BY DEF TakeNothing, Again, Stop, Goto
<1>2. TypeOK'
  BY <1>1 DEF IInv, TypeOK
<1>3. Pushing' = Pushing
  BY <1>1 DEF IInv, TypeOK, Pushing
<1>4. Held' = Held
  BY <1>1, <1>3 DEF Held, Pushing
<1>5. OnePlace' /\ HoldsEvent'
  BY <1>1, <1>3, <1>4 DEF IInv, OnePlace, HoldsEvent, Pushing
<1>6. mainPc \notin {"collect", "reported"}
  BY <1>1 DEF IInv, Joined
<1>7. Joined' /\ StopsLate'
  BY <1>1, <1>6 DEF IInv, TypeOK, Joined, StopsLate
<1>8. SeenToEnd'
  <2>1. input = <<>> => ToSet(input) = {}
    BY DEF ToSet
  <2> QED
    BY <1>1, <2>1 DEF IInv, TypeOK, SeenToEnd
<1>9. LookedPast'
  <2>1. \A q \in Processors : looked'[q] = looked[q] \/ looked'[q] = generated
    BY <1>1 DEF IInv, TypeOK
  <2>2. generated' = generated /\ generated \in Nat
    BY <1>1, EventAssumption DEF IInv, TypeOK
  <2> QED
    BY <2>1, <2>2 DEF IInv, LookedPast
<1> QED
  BY <1>2, <1>5, <1>7, <1>8, <1>9 DEF IInv

\* main joins the threads.
LEMMA JoinInv == ASSUME IInv, JoinGenerator \/ JoinProcessors PROVE IInv'
<1>1. /\ UNCHANGED <<input, output, generated, pc, evt, looked, processed>>
      /\ \/ /\ generated = NumEvents /\ joinable' = FALSE /\ mainPc' = "joinProcessors"
            /\ mainPc = "joinGenerator"
         \/ /\ \A p \in Processors : pc[p] = "done"
            /\ mainPc = "joinProcessors" /\ mainPc' = "collect" /\ joinable' = joinable
  BY DEF JoinGenerator, JoinProcessors, MainGoto, processorVars
<1>2. TypeOK'
  BY <1>1 DEF IInv, TypeOK
<1>3. Pushing' = Pushing /\ Held' = Held
  BY <1>1 DEF Held, Pushing
<1>4. OnePlace' /\ HoldsEvent'
  BY <1>1, <1>3 DEF IInv, OnePlace, HoldsEvent, Pushing
<1> QED
  BY <1>1, <1>2, <1>4 DEF IInv, Joined, SeenToEnd, StopsLate, LookedPast

\* main counts an event.
LEMMA CollectInv == ASSUME IInv, Collect PROVE IInv'
<1>1. /\ output # <<>> /\ output' = Tail(output) /\ processed' = processed \cup {Head(output)}
      /\ mainPc = "collect"
      /\ UNCHANGED <<input, generated, joinable, pc, evt, looked, mainPc>>
  BY DEF Collect, MainGoto, processorVars
<1>2. /\ Head(output) \in Events /\ output' \in Seq(Events)
      /\ Len(output) \in Nat /\ Len(output') = Len(output) - 1
      /\ ToSet(output) = ToSet(output') \cup {Head(output)}
  BY <1>1, Removed DEF IInv, TypeOK
<1>3. TypeOK'
  BY <1>1, <1>2 DEF IInv, TypeOK
<1>4. Pushing' = Pushing /\ Held' = Held
  BY <1>1 DEF Held, Pushing
<1>5. OnePlace'
  <2>1. Len(input') + Len(output') + Cardinality(processed') + Cardinality(Pushing') = generated'
    <3>1. /\ Len(input) + Len(output) + Cardinality(processed) + Cardinality(Pushing) = generated
          /\ Len(input) \in Nat /\ Cardinality(Pushing) \in Nat /\ Cardinality(processed) \in Nat
      BY CountedOnce, HeldAtMost, FS_CardinalityType DEF IInv, TypeOK, OnePlace, Pushing
    <3>2. Cardinality(processed') = Cardinality(processed) + 1
      BY <1>1, CountedOnce, FreshOutput, FS_AddElement
    <3> QED
      BY <3>1, <3>2, <1>1, <1>2, <1>4
  <2>2. (ToSet(input) \cup Held \cup ToSet(output) \cup processed)' = 1..generated'
    BY <1>1, <1>2, <1>4 DEF IInv, OnePlace
  <2> QED
    BY <2>1, <2>2 DEF OnePlace, Pushing
<1>6. HoldsEvent'
  BY <1>1, <1>4 DEF IInv, HoldsEvent
<1> QED
  BY <1>1, <1>3, <1>5, <1>6 DEF IInv, Joined, SeenToEnd, StopsLate, LookedPast

\* The invariant is inductive.
LEMMA NextInv == IInv /\ [Next]_vars => IInv'
<1> SUFFICES ASSUME IInv, [Next]_vars PROVE IInv'
  OBVIOUS
<1>1. ASSUME NEW p \in Processors, Processor(p) PROVE IInv'
  BY <1>1, TakeInv, PutInv, LookInv DEF Processor
<1>2. CASE Report
  BY <1>2 DEF Report, MainGoto, processorVars, IInv, TypeOK, HoldsEvent, Pushing, OnePlace, Held,
              Joined, SeenToEnd, StopsLate, LookedPast
<1>3. CASE UNCHANGED vars
  BY <1>3 DEF vars, processorVars, IInv, TypeOK, HoldsEvent, Pushing, OnePlace, Held, Joined,
              SeenToEnd, StopsLate, LookedPast
<1> QED
  BY <1>1, <1>2, <1>3, GenerateInv, JoinInv, CollectInv DEF Next, Main, Finished

\* When main reports, what it has not counted is in the input queue.
LEMMA ReportedRest ==
  ASSUME IInv, mainPc = "reported"
  PROVE  Events \ processed = ToSet(input)
<1>1. generated = NumEvents /\ output = <<>> /\ Held = {}
  BY DEF IInv, Joined, Held
<1>2. ToSet(output) = {}
  BY <1>1 DEF ToSet
<1> QED
  BY <1>1, <1>2, CountedOnce DEF IInv, OnePlace, Events

\* Queues, counters and threads are always in a state of the program.
THEOREM TypeCorrect == Spec => []TypeOK
<1>1. IInv => TypeOK
  BY DEF IInv
<1> QED
  BY <1>1, InitInv, NextInv, PTL DEF Spec

\* No stage loses or copies an event, however many processors share the queues.
THEOREM NothingCopied == Spec => []OnePlace
<1>1. IInv => OnePlace
  BY DEF IInv
<1> QED
  BY <1>1, InitInv, NextInv, PTL DEF Spec

\* What main reports is final: the events not processed by then are exactly
\* those left in the input queue, which nobody reads any more.
THEOREM ReportFinal == Spec => []ReportIsFinal
<1>1. IInv => ReportIsFinal
  BY ReportedRest DEF ReportIsFinal
<1> QED
  BY <1>1, InitInv, NextInv, PTL DEF Spec

\* What is left behind has come after the last look of every processor: in an
\* execution where one of them looks after the last push, nothing is.
THEOREM NothingOverlooked == Spec => []LeftBehindLate
<1>1. IInv => LeftBehindLate
  <2> SUFFICES ASSUME IInv, mainPc = "reported", NEW e \in Events \ processed, NEW p \in Processors
               PROVE  looked[p] < e
    BY DEF LeftBehindLate
  <2>1. e \in ToSet(input)
    BY ReportedRest
  <2>2. pc[p] = "done"
    BY DEF IInv, Joined
  <2> QED
    BY <2>1, <2>2 DEF IInv, SeenToEnd
<1> QED
  BY <1>1, InitInv, NextInv, PTL DEF Spec
=============================================================================
