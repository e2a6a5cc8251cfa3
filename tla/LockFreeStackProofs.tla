------------------------ MODULE LockFreeStackProofs ------------------------
(***************************************************************************)
(* Proofs about LockFreeStack, for any number of threads, addresses and    *)
(* values: the state keeps its type, and as long as at most one thread     *)
(* calls try_pop, the list stays the stack, no node is leaked, and the     *)
(* operations are those of an atomic stack.                                *)
(***************************************************************************)
EXTENDS LockFreeStack, SequenceTheorems, TLAPS

\* At most one thread pops.  Without it ListIsStack fails: the run
\* stack_two_poppers.
OnePopper == \A p, q \in Poppers : p = q

Popping(t) == pc[t] \in {"popLoad", "popNext", "popCas", "popRead", "popDelete"}

\* Only a popper is inside try_pop.
PopsByPoppers == \A t \in Threads : Popping(t) => t \in Poppers

\* A node being pushed is allocated, is not on the stack, and is linked to
\* the head its compare_and_swap expects.
PushInv == \A t \in Threads : Pushing(t) =>
             /\ node[t] \in live
             /\ node[t] \notin OnStack
             /\ pc[t] = "pushCas" => next[node[t]] = oldHead[t]

\* No two threads push the same node.
PushesApart == \A t, u \in Threads :
                 Pushing(t) /\ Pushing(u) /\ node[t] = node[u] => t = u

\* The head a popper holds is a stack node, and what it read from it is still
\* there: only a popper could unlink it.
PopInv == \A t \in Threads :
            /\ pc[t] \in {"popNext", "popCas"} => oldHead[t] \in OnStack
            /\ pc[t] = "popCas" => newHead[t] = next[oldHead[t]]

\* A node unlinked and not yet deleted belongs to its popper only.
UnlinkInv == \A t \in Threads : Unlinked(t) =>
               /\ oldHead[t] \in live
               /\ oldHead[t] \notin OnStack
               /\ \A u \in Threads : Pushing(u) => node[u] # oldHead[t]

IInv == /\ TypeOK
        /\ ListIsStack
        /\ NoLeak
        /\ PopsByPoppers
        /\ PushInv
        /\ PushesApart
        /\ PopInv
        /\ UnlinkInv
-----------------------------------------------------------------------------
(* Sequences that end in the top of a stack. *)

\* Appending puts the element on top and leaves the others where they were.
LEMMA AppendTop ==
  ASSUME NEW S, NEW s \in Seq(S), NEW e \in S
  PROVE  /\ Append(s, e) \in Seq(S)
         /\ Append(s, e) # <<>>
         /\ Len(Append(s, e)) = Len(s) + 1
         /\ Append(s, e)[Len(s) + 1] = e
         /\ \A i \in 1..Len(s) : Append(s, e)[i] = s[i]
  OBVIOUS

\* Dropping the top leaves the others where they were.
LEMMA DropTop ==
  ASSUME NEW S, NEW s \in Seq(S)
  PROVE  /\ Front(s) \in Seq(S)
         /\ s # <<>> => /\ Len(s) \in Nat \ {0}
                        /\ Len(Front(s)) = Len(s) - 1
                        /\ \A i \in 1..(Len(s) - 1) : Front(s)[i] = s[i]
<1>1. /\ Len(s) \in Nat
      /\ \A i \in 1..(Len(s) - 1) : s[i] \in S
      /\ s # <<>> => Len(s) > 0
  BY EmptySeq
<1>2. /\ Front(s) \in Seq(S)
      /\ Len(Front(s)) = IF 1 <= Len(s) - 1 THEN Len(s) - 1 - 1 + 1 ELSE 0
      /\ \A i \in 1..(Len(s) - 1 - 1 + 1) : Front(s)[i] = s[1 + i - 1]
  BY <1>1, SubSeqProperties DEF Front
<1>3. \A i \in 1..(Len(s) - 1) : Front(s)[i] = s[i]
  <2> TAKE i \in 1..(Len(s) - 1)
  <2>1. i \in 1..(Len(s) - 1 - 1 + 1) /\ 1 + i - 1 = i
    BY <1>1
  <2> QED
    BY <1>2, <2>1
<1>4. s # <<>> => Len(Front(s)) = Len(s) - 1
  <2>1. \A l \in Nat : l > 0 => (IF 1 <= l - 1 THEN l - 1 - 1 + 1 ELSE 0) = l - 1
    OBVIOUS
  <2> QED
    BY <1>1, <1>2, <2>1
<1> QED
  BY <1>1, <1>2, <1>3, <1>4

\* What a sequence holds, by position.
LEMMA Positions ==
  ASSUME NEW S, NEW s \in Seq(S)
  PROVE  /\ Len(s) \in Nat
         /\ DOMAIN s = 1..Len(s)
         /\ ToSet(s) \subseteq S
         /\ \A x : x \in ToSet(s) <=> \E i \in 1..Len(s) : s[i] = x
         /\ IsInjective(s) <=> \A i, j \in 1..Len(s) : s[i] = s[j] => i = j
BY DEF ToSet, IsInjective

\* The same of the history of the stack, before and after a step.
LEMMA StackPositions ==
  ASSUME TypeOK
  PROVE  /\ Len(contents) \in Nat
         /\ OnStack \subseteq Addr
         /\ \A a : a \in OnStack <=> \E i \in 1..Len(contents) : contents[i] = a
         /\ IsInjective(contents)
              <=> \A i, j \in 1..Len(contents) : contents[i] = contents[j] => i = j
BY Positions DEF TypeOK, OnStack

\* The same in the next state.
LEMMA StackPositionsNext ==
  ASSUME TypeOK'
  PROVE  /\ \A a : a \in OnStack' <=> \E i \in 1..Len(contents') : contents'[i] = a
         /\ IsInjective(contents')
              <=> \A i, j \in 1..Len(contents') : contents'[i] = contents'[j] => i = j
BY Positions DEF TypeOK, OnStack
-----------------------------------------------------------------------------
(* The type invariant. *)

\* The node of a push under way is a node.
HasNode == \A t \in Threads : Pushing(t) => node[t] \in Addr

\* A step keeps the shape of the state.
LEMMA TypeStep == TypeOK /\ HasNode /\ [Next]_vars => TypeOK' /\ HasNode'
<1> SUFFICES ASSUME TypeOK, HasNode, [Next]_vars PROVE TypeOK' /\ HasNode'
  OBVIOUS
<1> USE DEF TypeOK, HasNode, Pushing, Pointer, Goto
<1>1. ASSUME NEW t \in Threads, PushNew(t) PROVE TypeOK' /\ HasNode'
  BY <1>1 DEF PushNew
<1>2. ASSUME NEW t \in Threads, PopCall(t) PROVE TypeOK' /\ HasNode'
  BY <1>2 DEF PopCall
<1>3. ASSUME NEW t \in Threads, PushLoad(t) PROVE TypeOK' /\ HasNode'
  BY <1>3 DEF PushLoad
<1>4. ASSUME NEW t \in Threads, PushCas(t) PROVE TypeOK' /\ HasNode'
  BY <1>4, AppendTop DEF PushCas
<1>5. ASSUME NEW t \in Threads, PushRetry(t) PROVE TypeOK' /\ HasNode'
  BY <1>5 DEF PushRetry
<1>6. ASSUME NEW t \in Threads, PopLoad(t) PROVE TypeOK' /\ HasNode'
  BY <1>6 DEF PopLoad
<1>7. ASSUME NEW t \in Threads, PopEmpty(t) PROVE TypeOK' /\ HasNode'
  BY <1>7 DEF PopEmpty
<1>8. ASSUME NEW t \in Threads, PopNext(t) PROVE TypeOK' /\ HasNode'
  BY <1>8 DEF PopNext, Deref
<1>9. ASSUME NEW t \in Threads, PopCas(t) PROVE TypeOK' /\ HasNode'
  BY <1>9, DropTop DEF PopCas
<1>10. ASSUME NEW t \in Threads, PopRetry(t) PROVE TypeOK' /\ HasNode'
  BY <1>10 DEF PopRetry
<1>11. ASSUME NEW t \in Threads, PopRead(t) PROVE TypeOK' /\ HasNode'
  BY <1>11 DEF PopRead, Deref
<1>12. ASSUME NEW t \in Threads, PopDelete(t) PROVE TypeOK' /\ HasNode'
  BY <1>12 DEF PopDelete
<1>13. CASE UNCHANGED vars
  BY <1>13 DEF vars, locals
<1> QED
  BY <1>1, <1>2, <1>3, <1>4, <1>5, <1>6, <1>7, <1>8, <1>9, <1>10, <1>11, <1>12, <1>13
     DEF Next, Step

\* Every state of every execution has the declared shape.
THEOREM TypeCorrect == Spec => []TypeOK
<1>1. Init => TypeOK /\ HasNode
  BY StackAssumption DEF Init, TypeOK, HasNode, Pushing, Pointer
<1> QED
  BY <1>1, TypeStep, PTL DEF Spec
-----------------------------------------------------------------------------
(* The list is the stack. *)

\* A push publishes its node on top of the list.
LEMMA ListPush ==
  ASSUME TypeOK, TypeOK', ListIsStack, NEW a \in Addr, a \notin OnStack,
         next[a] = head, head' = a, contents' = Append(contents, a), next' = next
  PROVE  /\ ListIsStack'
         /\ OnStack' = OnStack \cup {a}
<1>1. /\ contents # <<>> => Len(contents) # 0
      /\ Len(contents') = Len(contents) + 1
      /\ contents' # <<>>
      /\ contents'[Len(contents) + 1] = a
      /\ \A i \in 1..Len(contents) : contents'[i] = contents[i]
  BY AppendTop, EmptySeq DEF TypeOK
<1>2. 1..Len(contents') = 1..Len(contents) \cup {Len(contents) + 1}
  BY <1>1, StackPositions
<1>3. OnStack' = OnStack \cup {a}
  BY <1>1, <1>2, StackPositions, StackPositionsNext
<1>4. head' = Last(contents')
  BY <1>1 DEF Last
<1>5. ASSUME NEW i \in 1..Len(contents')
      PROVE  next'[contents'[i]] = IF i = 1 THEN Null ELSE contents'[i - 1]
  <2>1. CASE i = Len(contents) + 1
    <3>1. i - 1 = Len(contents) /\ (i = 1 <=> Len(contents) = 0) /\ contents'[i] = a
      BY <1>1, <2>1, StackPositions
    <3>2. contents = <<>> <=> Len(contents) = 0
      BY EmptySeq DEF TypeOK
    <3>3. Len(contents) # 0 => Len(contents) \in 1..Len(contents)
      BY StackPositions
    <3> QED
      BY <1>1, <3>1, <3>2, <3>3 DEF ListIsStack, Last
  <2>2. CASE i \in 1..Len(contents)
    <3>1. i = 1 \/ i - 1 \in 1..Len(contents)
      BY <2>2, StackPositions
    <3> QED
      BY <1>1, <2>2, <3>1 DEF ListIsStack
  <2> QED
    BY <1>2, <2>1, <2>2
<1>6. IsInjective(contents')
  <2>1. \A k \in 1..Len(contents) : contents[k] # a
    BY StackPositions
  <2> QED
    BY <1>1, <1>2, <2>1, StackPositions, StackPositionsNext DEF ListIsStack
<1> QED
  BY <1>1, <1>3, <1>4, <1>5, <1>6 DEF ListIsStack

\* A pop leaves the list that started at the second node.
LEMMA ListPop ==
  ASSUME TypeOK, TypeOK', ListIsStack, contents # <<>>, head' = next[head],
         contents' = Front(contents), next' = next
  PROVE  /\ ListIsStack'
         /\ head \in OnStack
         /\ OnStack' = OnStack \ {head}
<1>1. /\ Len(contents) \in Nat \ {0}
      /\ Len(contents') = Len(contents) - 1
      /\ \A i \in 1..Len(contents') : i \in 1..Len(contents) /\ contents'[i] = contents[i]
      /\ head = contents[Len(contents)]
  BY DropTop DEF TypeOK, ListIsStack, Last
<1>2. contents' = <<>> <=> Len(contents') = 0
  BY EmptySeq DEF TypeOK
<1>3. /\ 1..Len(contents) = 1..Len(contents') \cup {Len(contents)}
      /\ \A i \in 1..Len(contents') : contents[i] # head
  BY <1>1, StackPositions DEF ListIsStack
<1>4. head \in OnStack /\ OnStack' = OnStack \ {head}
  <2>1. ASSUME NEW a, a \in OnStack' PROVE a \in OnStack /\ a # head
    <3>1. PICK i \in 1..Len(contents') : contents'[i] = a
      BY <2>1, StackPositionsNext
    <3> QED
      BY <1>1, <1>3, <3>1, StackPositions
  <2>2. ASSUME NEW a, a \in OnStack, a # head PROVE a \in OnStack'
    <3>1. PICK i \in 1..Len(contents) : contents[i] = a
      BY <2>2, StackPositions
    <3>2. i \in 1..Len(contents')
      BY <1>1, <1>3, <2>2, <3>1
    <3> QED
      BY <1>1, <3>1, <3>2, StackPositionsNext
  <2>3. head \in OnStack
    BY <1>1, StackPositions
  <2> QED
    BY <2>1, <2>2, <2>3
<1>5. head' = IF contents' = <<>> THEN Null ELSE Last(contents')
  <2>1. head' = IF Len(contents) = 1 THEN Null ELSE contents[Len(contents) - 1]
    BY <1>1 DEF ListIsStack
  <2> QED
    BY <1>1, <1>2, <2>1 DEF Last
<1>6. ASSUME NEW i \in 1..Len(contents')
      PROVE  next'[contents'[i]] = IF i = 1 THEN Null ELSE contents'[i - 1]
  <2>1. i = 1 \/ i - 1 \in 1..Len(contents')
    BY <1>1
  <2> QED
    BY <1>1, <2>1 DEF ListIsStack
<1>7. IsInjective(contents')
  BY <1>1, StackPositions, StackPositionsNext DEF ListIsStack
<1> QED
  BY <1>4, <1>5, <1>6, <1>7 DEF ListIsStack

\* A head that is not nullptr is on the stack.
LEMMA HeadOnStack ==
  ASSUME TypeOK, ListIsStack, head # Null
  PROVE  head \in OnStack
<1>1. contents # <<>> /\ Len(contents) \in Nat \ {0}
  BY EmptySeq DEF TypeOK, ListIsStack
<1> QED
  BY <1>1, StackPositions DEF ListIsStack, Last

\* The list does not notice what happens off it.
LEMMA ListKept ==
  ASSUME TypeOK, ListIsStack, UNCHANGED <<head, contents>>,
         \A a \in OnStack : next'[a] = next[a]
  PROVE  ListIsStack' /\ OnStack' = OnStack
<1>1. OnStack' = OnStack
  BY DEF OnStack
<1>2. \A i \in 1..Len(contents) : next'[contents[i]] = next[contents[i]]
  BY StackPositions
<1> QED
  BY <1>1, <1>2 DEF ListIsStack
-----------------------------------------------------------------------------
(* The invariant is inductive. *)

\* A new node is in nobody else's hands: its address was not live.
LEMMA PushNewInv ==
  ASSUME IInv, TypeOK', NEW t \in Threads, PushNew(t)
  PROVE  IInv'
<1>1. ListIsStack' /\ OnStack' = OnStack
  BY ListKept DEF IInv, NoLeak, PushNew
<1>2. NoLeak'
  BY <1>1 DEF IInv, TypeOK, NoLeak, PopsByPoppers, Goto, Pushing, Unlinked, PushNew
<1>3. PopsByPoppers'
  BY DEF IInv, PopsByPoppers, Goto, Popping, PushNew
<1>4. PushInv'
  BY <1>1 DEF IInv, TypeOK, NoLeak, PushInv, Goto, Pushing, PushNew
<1>5. PushesApart'
  BY DEF IInv, TypeOK, PushInv, PushesApart, Goto, Pushing, PushNew
<1>6. PopInv'
  BY <1>1 DEF IInv, NoLeak, PopInv, Goto, PushNew
<1>7. UnlinkInv'
  BY <1>1 DEF IInv, TypeOK, UnlinkInv, Goto, Pushing, Unlinked, PushNew
<1> QED
  BY <1>1, <1>2, <1>3, <1>4, <1>5, <1>6, <1>7 DEF IInv

\* Linking the new node touches no node of the list.
LEMMA PushLoadInv ==
  ASSUME IInv, TypeOK', NEW t \in Threads, PushLoad(t)
  PROVE  IInv'
<1>1. ListIsStack' /\ OnStack' = OnStack
  BY ListKept DEF IInv, PushInv, Goto, Pushing, PushLoad
<1>2. NoLeak'
  BY <1>1 DEF IInv, NoLeak, Goto, Pushing, Unlinked, PushLoad
<1>3. PopsByPoppers'
  BY DEF IInv, PopsByPoppers, Goto, Popping, PushLoad
<1>4. PushInv'
  BY <1>1 DEF IInv, TypeOK, PushInv, PushesApart, Goto, Pushing, PushLoad
<1>5. PushesApart'
  BY DEF IInv, PushesApart, Goto, Pushing, PushLoad
<1>6. PopInv'
  BY <1>1 DEF IInv, PushInv, PopInv, Goto, Pushing, PushLoad
<1>7. UnlinkInv'
  BY <1>1 DEF IInv, UnlinkInv, Goto, Pushing, Unlinked, PushLoad
<1> QED
  BY <1>1, <1>2, <1>3, <1>4, <1>5, <1>6, <1>7 DEF IInv

\* The node moves from its pusher to the stack; the popper's head stays on it.
LEMMA PushCasInv ==
  ASSUME IInv, TypeOK', NEW t \in Threads, PushCas(t)
  PROVE  IInv'
<1>1. ListIsStack' /\ OnStack' = OnStack \cup {node[t]}
  BY ListPush DEF IInv, TypeOK, PushInv, Goto, Pushing, PushCas
<1>2. NoLeak'
  BY <1>1 DEF IInv, TypeOK, NoLeak, PopInv, Goto, Pushing, Unlinked, PushCas
<1>3. PopsByPoppers'
  BY DEF IInv, PopsByPoppers, Goto, Popping, PushCas
<1>4. PushInv'
  BY <1>1 DEF IInv, TypeOK, PushInv, PushesApart, Goto, Pushing, PushCas
<1>5. PushesApart'
  BY DEF IInv, TypeOK, PushesApart, Goto, Pushing, PushCas
<1>6. PopInv'
  BY <1>1 DEF IInv, PopInv, Goto, PushCas
<1>7. UnlinkInv'
  BY <1>1 DEF IInv, TypeOK, UnlinkInv, Goto, Pushing, Unlinked, PushCas
<1> QED
  BY <1>1, <1>2, <1>3, <1>4, <1>5, <1>6, <1>7 DEF IInv

\* A head that is not nullptr is a stack node.
LEMMA PopLoadInv ==
  ASSUME IInv, TypeOK', NEW t \in Threads, PopLoad(t)
  PROVE  IInv'
<1>1. ListIsStack' /\ OnStack' = OnStack
  BY ListKept DEF IInv, PopLoad
<1>2. NoLeak'
  BY <1>1, HeadOnStack
     DEF IInv, TypeOK, NoLeak, Pointer, Goto, Pushing, Unlinked, PopLoad
<1>3. PopsByPoppers'
  BY DEF IInv, PopsByPoppers, Goto, Popping, PopLoad
<1>4. PushInv'
  BY <1>1 DEF IInv, PushInv, Goto, Pushing, PopLoad
<1>5. PushesApart'
  BY DEF IInv, PushesApart, Goto, Pushing, PopLoad
<1>6. PopInv'
  BY <1>1, HeadOnStack DEF IInv, TypeOK, PopInv, Goto, PopLoad
<1>7. UnlinkInv'
  BY <1>1 DEF IInv, UnlinkInv, Goto, Pushing, Unlinked, PopLoad
<1> QED
  BY <1>1, <1>2, <1>3, <1>4, <1>5, <1>6, <1>7 DEF IInv

\* The node is live, so what is read is its next field.
LEMMA PopNextInv ==
  ASSUME IInv, TypeOK', NEW t \in Threads, PopNext(t)
  PROVE  IInv'
<1>1. ListIsStack' /\ OnStack' = OnStack
  BY ListKept DEF IInv, PopNext
<1>2. NoLeak'
  BY <1>1 DEF IInv, NoLeak, Goto, Pushing, Unlinked, PopNext
<1>3. PopsByPoppers'
  BY DEF IInv, PopsByPoppers, Goto, Popping, PopNext
<1>4. PushInv'
  BY <1>1 DEF IInv, PushInv, Goto, Pushing, PopNext
<1>5. PushesApart'
  BY DEF IInv, PushesApart, Goto, Pushing, PopNext
<1>6. PopInv'
  BY <1>1 DEF IInv, TypeOK, NoLeak, PopInv, Goto, PopNext, Deref
<1>7. UnlinkInv'
  BY <1>1 DEF IInv, UnlinkInv, Goto, Pushing, Unlinked, PopNext
<1> QED
  BY <1>1, <1>2, <1>3, <1>4, <1>5, <1>6, <1>7 DEF IInv

\* Reading the value leaves the node with its popper.
LEMMA PopReadInv ==
  ASSUME IInv, TypeOK', NEW t \in Threads, PopRead(t)
  PROVE  IInv'
<1>1. ListIsStack' /\ OnStack' = OnStack
  BY ListKept DEF IInv, PopRead
<1>2. NoLeak'
  BY <1>1 DEF IInv, NoLeak, Goto, Pushing, Unlinked, PopRead
<1>3. PopsByPoppers'
  BY DEF IInv, PopsByPoppers, Goto, Popping, PopRead
<1>4. PushInv'
  BY <1>1 DEF IInv, PushInv, Goto, Pushing, PopRead
<1>5. PushesApart'
  BY DEF IInv, PushesApart, Goto, Pushing, PopRead
<1>6. PopInv'
  BY <1>1 DEF IInv, PopInv, Goto, PopRead
<1>7. UnlinkInv'
  BY <1>1 DEF IInv, UnlinkInv, Goto, Pushing, Unlinked, PopRead
<1> QED
  BY <1>1, <1>2, <1>3, <1>4, <1>5, <1>6, <1>7 DEF IInv

\* The head moves from the stack to its popper; no other popper holds it.
LEMMA PopCasInv ==
  ASSUME IInv, TypeOK', OnePopper, NEW t \in Threads, PopCas(t)
  PROVE  IInv'
<1>1. ListIsStack' /\ head \in OnStack /\ OnStack' = OnStack \ {head}
  <2>1. contents # <<>> /\ head' = next[head]
    BY StackPositions DEF IInv, PopInv, Goto, PopCas
  <2> QED
    BY <2>1, ListPop DEF IInv, PopCas
<1>2. NoLeak'
  BY <1>1 DEF IInv, TypeOK, NoLeak, Goto, Pushing, Unlinked, PopCas
<1>3. PopsByPoppers'
  BY DEF IInv, PopsByPoppers, Goto, Popping, PopCas
<1>4. PushInv'
  BY <1>1 DEF IInv, PushInv, Goto, Pushing, PopCas
<1>5. PushesApart'
  BY DEF IInv, PushesApart, Goto, Pushing, PopCas
<1>6. PopInv'
  BY DEF IInv, TypeOK, PopsByPoppers, PopInv, Goto, Popping, PopCas, OnePopper
<1>7. UnlinkInv'
  BY <1>1 DEF IInv, NoLeak, PushInv, UnlinkInv, Goto, Pushing, Unlinked, PopCas
<1> QED
  BY <1>1, <1>2, <1>3, <1>4, <1>5, <1>6, <1>7 DEF IInv

\* Only the popper that unlinked the node still refers to it.
LEMMA PopDeleteInv ==
  ASSUME IInv, TypeOK', OnePopper, NEW t \in Threads, PopDelete(t)
  PROVE  IInv'
<1>1. ListIsStack' /\ OnStack' = OnStack
  BY ListKept DEF IInv, PopDelete
<1>2. NoLeak'
  BY <1>1
     DEF IInv, TypeOK, NoLeak, PopsByPoppers, UnlinkInv, Goto, Pushing, Popping,
         Unlinked, PopDelete, OnePopper
<1>3. PopsByPoppers'
  BY DEF IInv, PopsByPoppers, Goto, Popping, PopDelete
<1>4. PushInv'
  BY <1>1 DEF IInv, PushInv, UnlinkInv, Goto, Pushing, Unlinked, PopDelete
<1>5. PushesApart'
  BY DEF IInv, PushesApart, Goto, Pushing, PopDelete
<1>6. PopInv'
  BY <1>1 DEF IInv, PopInv, Goto, PopDelete
<1>7. UnlinkInv'
  BY DEF IInv, TypeOK, PopsByPoppers, UnlinkInv, Goto, Popping, Unlinked, PopDelete,
         OnePopper
<1> QED
  BY <1>1, <1>2, <1>3, <1>4, <1>5, <1>6, <1>7 DEF IInv

\* The other steps change no node, and let no thread reach one it did not.
LEMMA LocalStepInv ==
  ASSUME IInv, TypeOK', NEW t \in Threads,
         PushRetry(t) \/ PopCall(t) \/ PopEmpty(t) \/ PopRetry(t)
  PROVE  IInv'
<1>1. ListIsStack' /\ OnStack' = OnStack
  BY ListKept DEF IInv, PushRetry, PopCall, PopEmpty, PopRetry
<1>2. CASE PushRetry(t)
  BY <1>1, <1>2
     DEF IInv, NoLeak, PopsByPoppers, PushInv, PushesApart, PopInv, UnlinkInv, Goto,
         Pushing, Popping, Unlinked, PushRetry
<1>3. CASE PopCall(t)
  BY <1>1, <1>3
     DEF IInv, NoLeak, PopsByPoppers, PushInv, PushesApart, PopInv, UnlinkInv, Goto,
         Pushing, Popping, Unlinked, PopCall
<1>4. CASE PopEmpty(t)
  BY <1>1, <1>4
     DEF IInv, NoLeak, PopsByPoppers, PushInv, PushesApart, PopInv, UnlinkInv, Goto,
         Pushing, Popping, Unlinked, PopEmpty
<1>5. CASE PopRetry(t)
  BY <1>1, <1>5
     DEF IInv, NoLeak, PopsByPoppers, PushInv, PushesApart, PopInv, UnlinkInv, Goto,
         Pushing, Popping, Unlinked, PopRetry
<1> QED
  BY <1>2, <1>3, <1>4, <1>5

\* The invariant holds at the start.
LEMMA InitIInv == Init => IInv /\ HasNode
<1> SUFFICES ASSUME Init PROVE IInv /\ HasNode
  OBVIOUS
<1>1. TypeOK /\ HasNode /\ contents = <<>>
  BY StackAssumption DEF Init, TypeOK, HasNode, Pushing, Pointer
<1>2. Len(contents) = 0
  BY <1>1, EmptySeq
<1>3. OnStack = {} /\ ListIsStack
  BY <1>1, <1>2, StackPositions DEF Init, ListIsStack
<1> QED
  BY <1>1, <1>3 DEF Init, IInv, NoLeak, PopsByPoppers, PushInv, PushesApart,
                    PopInv, UnlinkInv, HasNode, Pushing, Popping, Unlinked

\* With at most one popper, every step keeps it.
LEMMA NextIInv ==
  ASSUME OnePopper
  PROVE  IInv /\ HasNode /\ [Next]_vars => IInv' /\ HasNode'
<1> SUFFICES ASSUME IInv, HasNode, [Next]_vars PROVE IInv' /\ HasNode'
  OBVIOUS
<1>1. TypeOK' /\ HasNode'
  BY TypeStep DEF IInv
<1>2. CASE Next
  BY <1>1, <1>2, PushNewInv, PushLoadInv, PushCasInv, PopLoadInv, PopNextInv,
     PopCasInv, PopReadInv, PopDeleteInv, LocalStepInv DEF Next, Step
<1>3. CASE UNCHANGED vars
  <2>1. ListIsStack' /\ OnStack' = OnStack
    BY <1>3, ListKept DEF vars, IInv
  <2> QED
    BY <1>1, <1>3, <2>1
       DEF vars, locals, IInv, NoLeak, PopsByPoppers, PushInv, PushesApart, PopInv,
           UnlinkInv, Pushing, Popping, Unlinked
<1> QED
  BY <1>1, <1>2, <1>3

\* With at most one popper, the linked list is the abstract stack in every
\* state: no concurrent compare_and_swap loses or duplicates a node.
THEOREM StackSafe ==
  ASSUME OnePopper
  PROVE  Spec => []ListIsStack
<1>1. IInv => ListIsStack
  BY DEF IInv
<1> QED
  BY <1>1, InitIInv, NextIInv, PTL DEF Spec

\* With at most one popper, every allocated node is on the stack or in one
\* thread's hands, and the head a popper is about to read is not deleted.
THEOREM NothingLeaked ==
  ASSUME OnePopper
  PROVE  Spec => []NoLeak
<1>1. IInv => NoLeak
  BY DEF IInv
<1> QED
  BY <1>1, InitIInv, NextIInv, PTL DEF Spec
-----------------------------------------------------------------------------
(* The stack is linearizable. *)

\* What the abstract stack holds, and what the abstract calls delivered.
Elements == [i \in 1..Len(contents) |-> value[contents[i]]]
Delivered == [t \in Threads |->
                IF pc[t] = "popRead" THEN value[oldHead[t]] ELSE result[t]]

\* Appending and dropping the last, element by element.
LEMMA AppendIs ==
  ASSUME NEW S, NEW s \in Seq(S), NEW e \in S
  PROVE  Append(s, e) = [i \in 1..(Len(s) + 1) |-> IF i = Len(s) + 1 THEN e ELSE s[i]]
<1> DEFINE a == Append(s, e)
<1>1. /\ a \in Seq(S)
      /\ Len(a) = Len(s) + 1
      /\ a[Len(s) + 1] = e
      /\ \A i \in 1..Len(s) : a[i] = s[i]
  BY AppendTop
<1> HIDE DEF a
<1>2. DOMAIN a = 1..(Len(s) + 1)
  BY <1>1, Positions
<1>3. ASSUME NEW i \in 1..(Len(s) + 1)
      PROVE  a[i] = IF i = Len(s) + 1 THEN e ELSE s[i]
  BY <1>1
<1>4. a = [i \in DOMAIN a |-> a[i]]
  BY <1>1
<1>5. a = [i \in 1..(Len(s) + 1) |-> IF i = Len(s) + 1 THEN e ELSE s[i]]
  BY <1>2, <1>3, <1>4, Zenon
<1> QED
  BY <1>5 DEF a

LEMMA FrontIs ==
  ASSUME NEW S, NEW s \in Seq(S), s # <<>>
  PROVE  Front(s) = [i \in 1..(Len(s) - 1) |-> s[i]]
<1>1. /\ Front(s) \in Seq(S)
      /\ Len(Front(s)) = Len(s) - 1
      /\ \A i \in 1..(Len(s) - 1) : Front(s)[i] = s[i]
  BY DropTop
<1>2. DOMAIN Front(s) = 1..(Len(s) - 1)
  BY <1>1, Positions
<1>3. Front(s) = [i \in DOMAIN Front(s) |-> Front(s)[i]]
  BY <1>1
<1> QED
  BY <1>1, <1>2, <1>3, Zenon

\* The elements of the stack are a sequence of values, as long as the stack.
LEMMA ElementsShape ==
  ASSUME TypeOK
  PROVE  /\ Elements \in Seq(Values)
         /\ Len(Elements) = Len(contents)
         /\ \A i \in 1..Len(contents) : Elements[i] = value[contents[i]]
         /\ Elements = <<>> <=> contents = <<>>
<1>1. /\ Len(contents) \in Nat
      /\ \A i \in 1..Len(contents) : value[contents[i]] \in Values
  BY DEF TypeOK
<1>2. Elements \in [1..Len(contents) -> Values]
  BY <1>1 DEF Elements
<1>3. Elements \in Seq(Values) /\ Len(Elements) = Len(contents)
  BY <1>1, <1>2
<1> QED
  BY <1>3, EmptySeq DEF TypeOK, Elements

\* A step that leaves the nodes of the stack alone leaves the elements alone.
LEMMA ElementsKept ==
  ASSUME TypeOK, contents' = contents,
         \A a \in OnStack : value'[a] = value[a]
  PROVE  Elements' = Elements
<1>1. \A i \in 1..Len(contents) : value'[contents[i]] = value[contents[i]]
  BY StackPositions
<1> QED
  BY <1>1 DEF Elements

\* A push takes effect when it publishes its node.
LEMMA PushRefines ==
  ASSUME IInv, TypeOK', NEW t \in Threads, node[t] \in Addr, PushCas(t)
  PROVE  /\ Elements' = Append(Elements, value[node[t]])
         /\ Delivered' = Delivered
<1>1. Delivered' = Delivered
  BY DEF PushCas, Goto, IInv, TypeOK, Delivered
<1>2. /\ contents' = Append(contents, node[t])
      /\ value' = value
      /\ value[node[t]] \in Values
  BY DEF PushCas, IInv, TypeOK
<1>3. /\ Len(contents) \in Nat
      /\ Len(contents') = Len(contents) + 1
      /\ contents'[Len(contents) + 1] = node[t]
      /\ \A i \in 1..Len(contents) : contents'[i] = contents[i]
  BY <1>2, AppendTop DEF IInv, TypeOK
<1>4. Append(Elements, value[node[t]])
        = [i \in 1..(Len(contents) + 1) |->
             IF i = Len(contents) + 1 THEN value[node[t]] ELSE Elements[i]]
  BY <1>2, ElementsShape, AppendIs DEF IInv
<1>5. \A i \in 1..(Len(contents) + 1) :
        value'[contents'[i]]
          = IF i = Len(contents) + 1 THEN value[node[t]] ELSE Elements[i]
  <2> TAKE i \in 1..(Len(contents) + 1)
  <2>1. i = Len(contents) + 1 \/ i \in 1..Len(contents)
    BY <1>3
  <2>2. ~(Len(contents) + 1 \in 1..Len(contents))
    BY <1>3
  <2> QED
    BY <1>2, <1>3, <2>1, <2>2, ElementsShape DEF IInv
<1> QED
  BY <1>1, <1>3, <1>4, <1>5 DEF Elements

\* A try_pop takes effect when it unlinks the head, and delivers its value.
LEMMA PopRefines ==
  ASSUME IInv, TypeOK', NEW t \in Threads, PopCas(t)
  PROVE  /\ Elements # <<>>
         /\ Elements' = Front(Elements)
         /\ Delivered' = [Delivered EXCEPT ![t] = Last(Elements)]
<1>1. contents # <<>>
  BY StackPositions DEF IInv, PopInv, Goto, PopCas
<1>2. /\ contents' = Front(contents)
      /\ value' = value
      /\ oldHead' = oldHead
      /\ oldHead[t] = head
  BY DEF PopCas
<1>3. /\ Len(contents) \in Nat \ {0}
      /\ Len(contents') = Len(contents) - 1
      /\ \A i \in 1..(Len(contents) - 1) : contents'[i] = contents[i]
      /\ head = contents[Len(contents)]
  BY <1>1, <1>2, DropTop DEF IInv, TypeOK, ListIsStack, Last
<1>4. Elements # <<>> /\ Last(Elements) = value[head]
  BY <1>1, <1>3, ElementsShape DEF IInv, Last
<1>5. Front(Elements) = [i \in 1..(Len(contents) - 1) |-> Elements[i]]
  BY <1>4, ElementsShape, FrontIs DEF IInv
<1>6. \A i \in 1..(Len(contents) - 1) : value'[contents'[i]] = Elements[i]
  BY <1>2, <1>3, ElementsShape DEF IInv
<1>7. Elements' = Front(Elements)
  BY <1>3, <1>5, <1>6 DEF Elements
<1>8. Delivered' = [Delivered EXCEPT ![t] = value[head]]
  BY <1>2 DEF PopCas, Goto, IInv, TypeOK, Delivered
<1> QED
  BY <1>4, <1>7, <1>8

\* Every other step is invisible: a new node is nobody else's, and a popper
\* reads the value of a node that is not deleted yet.
LEMMA OthersStutter ==
  ASSUME IInv, TypeOK', NEW t \in Threads,
         \/ PushNew(t) \/ PushLoad(t) \/ PushRetry(t)
         \/ PopCall(t) \/ PopLoad(t) \/ PopNext(t) \/ PopRetry(t)
         \/ PopRead(t) \/ PopDelete(t)
  PROVE  Elements' = Elements /\ Delivered' = Delivered
<1>1. CASE PushNew(t)
  <2>1. Elements' = Elements
    BY <1>1, ElementsKept DEF IInv, TypeOK, NoLeak, PushNew
  <2>2. \A u \in Threads : pc[u] = "popRead" => value'[oldHead[u]] = value[oldHead[u]]
    BY <1>1 DEF IInv, TypeOK, UnlinkInv, Unlinked, PushNew
  <2> QED
    BY <1>1, <2>1, <2>2 DEF PushNew, Goto, IInv, TypeOK, Delivered
<1>2. CASE PopRead(t)
  <2>1. Elements' = Elements
    BY <1>2, ElementsKept DEF IInv, PopRead
  <2>2. result' = [result EXCEPT ![t] = value[oldHead[t]]]
    BY <1>2 DEF PopRead, Goto, Deref, IInv, UnlinkInv, Unlinked
  <2> QED
    BY <1>2, <2>1, <2>2 DEF PopRead, Goto, IInv, TypeOK, Delivered
<1>3. CASE \/ PushLoad(t) \/ PushRetry(t)
           \/ PopCall(t) \/ PopLoad(t) \/ PopNext(t) \/ PopRetry(t) \/ PopDelete(t)
  <2>1. Elements' = Elements
    BY <1>3, ElementsKept
       DEF IInv, PushLoad, PushRetry, PopCall, PopLoad, PopNext, PopRetry, PopDelete
  <2>2. CASE PopLoad(t) \/ PopDelete(t)
    BY <2>1, <2>2 DEF PopLoad, PopDelete, Goto, IInv, TypeOK, Delivered
  <2>3. CASE PushLoad(t)
    BY <2>1, <2>3 DEF PushLoad, Goto, IInv, TypeOK, Delivered
  <2>4. CASE PushRetry(t) \/ PopCall(t) \/ PopNext(t) \/ PopRetry(t)
    BY <2>1, <2>4 DEF PushRetry, PopCall, PopNext, PopRetry, Goto, IInv, TypeOK, Delivered
  <2> QED
    BY <1>3, <2>2, <2>3, <2>4
<1> QED
  BY <1>1, <1>2, <1>3

\* A try_pop that returns false found the abstract stack empty.
LEMMA EmptyRefines ==
  ASSUME IInv, TypeOK', NEW t \in Threads, PopEmpty(t)
  PROVE  /\ Elements = <<>>
         /\ Elements' = Elements
         /\ Delivered' = [Delivered EXCEPT ![t] = Empty]
<1>1. contents = <<>>
  <2>1. contents # <<>> => contents[Len(contents)] \in Addr
    BY EmptySeq DEF IInv, TypeOK
  <2> QED
    BY <2>1, StackAssumption DEF IInv, ListIsStack, Last, PopEmpty
<1>2. Elements = <<>>
  BY <1>1, ElementsShape DEF IInv
<1>3. Elements' = Elements
  BY ElementsKept DEF IInv, PopEmpty
<1>4. Delivered' = [Delivered EXCEPT ![t] = Empty]
  BY DEF PopEmpty, Goto, IInv, TypeOK, Delivered
<1> QED
  BY <1>2, <1>3, <1>4

\* With at most one popper, every execution of the lock-free stack is one of
\* the stack whose operations are atomic: push takes effect when its
\* compare_and_swap succeeds, and so does try_pop, although it reads the value
\* and deletes the node only later.
THEOREM StackRefines ==
  ASSUME OnePopper
  PROVE  Spec => Linearizable
<1>1. Init => Abstract!Init
  <2> SUFFICES ASSUME Init PROVE Elements = <<>> /\ Delivered = [t \in Threads |-> Empty]
    BY DEF Abstract!Init, Elements, Delivered
  <2>1. TypeOK /\ contents = <<>>
    BY InitIInv DEF Init, IInv
  <2> QED
    BY <2>1, ElementsShape DEF Init, Delivered
<1>2. IInv /\ HasNode /\ [Next]_vars => [Abstract!Next]_Abstract!vars
  <2> SUFFICES ASSUME IInv, HasNode, [Next]_vars
               PROVE  [Abstract!Next]_Abstract!vars
    OBVIOUS
  <2>1. TypeOK'
    BY TypeStep DEF IInv
  <2>2. ASSUME NEW t \in Threads, PushCas(t) PROVE Abstract!Push
    <3>1. node[t] \in Addr /\ value[node[t]] \in Values
      BY <2>2 DEF HasNode, Pushing, PushCas, Goto, IInv, TypeOK
    <3> QED
      BY <2>1, <2>2, <3>1, PushRefines DEF Abstract!Push, Elements, Delivered
  <2>3. ASSUME NEW t \in Threads, PopCas(t) PROVE Abstract!Pop(t)
    BY <2>1, <2>3, PopRefines
       DEF Abstract!Pop, Abstract!Last, Abstract!Front, Last, Front, Elements, Delivered
  <2>4. ASSUME NEW t \in Threads, PopEmpty(t) PROVE Abstract!PopEmpty(t)
    BY <2>1, <2>4, EmptyRefines DEF Abstract!PopEmpty, Elements, Delivered
  <2>5. ASSUME NEW t \in Threads,
               \/ PushNew(t) \/ PushLoad(t) \/ PushRetry(t)
               \/ PopCall(t) \/ PopLoad(t) \/ PopNext(t) \/ PopRetry(t)
               \/ PopRead(t) \/ PopDelete(t)
        PROVE  UNCHANGED Abstract!vars
    BY <2>1, <2>5, OthersStutter DEF Abstract!vars, Elements, Delivered
  <2>6. CASE UNCHANGED vars
    BY <2>6 DEF vars, locals, Abstract!vars
  <2> QED
    BY <2>2, <2>3, <2>4, <2>5, <2>6 DEF Next, Step, Abstract!Next
<1> QED
  BY <1>1, <1>2, InitIInv, NextIInv, PTL DEF Spec, Linearizable, Abstract!Spec
=============================================================================
