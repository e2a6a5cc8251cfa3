--------------------------- MODULE LockFreeStack ---------------------------
(***************************************************************************)
(* The Treiber-style stack of examples/19_atomic.cpp, one action per       *)
(* access to memory other threads can reach.  `new` takes any free         *)
(* address, so a deleted node's address comes back; a read through a       *)
(* pointer to deleted memory yields an arbitrary value.                    *)
(* Addr bounds the heap, and with it the number of nodes that exist.       *)
(***************************************************************************)
EXTENDS Naturals, SequencesExt

CONSTANTS Threads,  \* callers of the stack
          Poppers,  \* those of them that call try_pop
          Addr,     \* heap addresses
          Values,   \* the elements pushed
          Null,     \* nullptr
          Empty     \* what a try_pop that returned false delivered

ASSUME StackAssumption == /\ Poppers \subseteq Threads
                          /\ Null \notin Addr

VARIABLES head,     \* tbb::atomic<Node*> head
          next,     \* Node::next, by address
          value,    \* Node::value, by address
          live,     \* the addresses allocated and not yet deleted
          pc,       \* where each thread is
          node,     \* push's new_node
          oldHead,  \* old_head of push and of try_pop
          newHead,  \* try_pop's new_head
          result,   \* what each thread's last try_pop delivered
          contents  \* history: the nodes on the abstract stack, top last

locals == <<pc, node, oldHead, newHead>>
vars == <<head, next, value, live, locals, result, contents>>

Pointer == Addr \cup {Null}

Init == /\ head = Null
        /\ next \in [Addr -> {Null}]
        /\ value \in [Addr -> Values]
        /\ live = {}
        /\ pc = [t \in Threads |-> "idle"]
        /\ node = [t \in Threads |-> Null]
        /\ oldHead = [t \in Threads |-> Null]
        /\ newHead = [t \in Threads |-> Null]
        /\ result = [t \in Threads |-> Empty]
        /\ contents = <<>>

Goto(t, from, to) == /\ pc[t] = from
                     /\ pc' = [pc EXCEPT ![t] = to]

\* Reading a field of the node at p: what was stored, or, once p is deleted,
\* any of the values the memory may hold by then.
Deref(field, p, any) == IF p \in live THEN {field[p]} ELSE any
-----------------------------------------------------------------------------
(* push *)

\* push(value): new_node = new Node(value), whose next is nullptr.
PushNew(t) ==
  /\ Goto(t, "idle", "pushLoad")
  /\ \E a \in Addr \ live, v \in Values :
       /\ live' = live \cup {a}
       /\ node' = [node EXCEPT ![t] = a]
       /\ value' = [value EXCEPT ![a] = v]
       /\ next' = [next EXCEPT ![a] = Null]
  /\ UNCHANGED <<head, oldHead, newHead, result, contents>>

\* old_head = head; new_node->next = old_head.  No other thread can reach
\* new_node yet, so the two statements are one step.
PushLoad(t) ==
  /\ Goto(t, "pushLoad", "pushCas")
  /\ oldHead' = [oldHead EXCEPT ![t] = head]
  /\ next' = [next EXCEPT ![node[t]] = head]
  /\ UNCHANGED <<head, value, live, node, newHead, result, contents>>

\* Mutant: the store of new_node is not conditional on head being old_head.
PushBlindStore(t) ==
  /\ Goto(t, "pushCas", "idle")
  /\ head' = node[t]
  /\ contents' = Append(contents, node[t])
  /\ node' = [node EXCEPT ![t] = Null]
  /\ oldHead' = [oldHead EXCEPT ![t] = Null]
  /\ UNCHANGED <<next, value, live, newHead, result>>

\* compare_and_swap found old_head and published the node: push returns.
PushCas(t) ==
  /\ head = oldHead[t]
  /\ Goto(t, "pushCas", "idle")
  /\ head' = node[t]
  /\ contents' = Append(contents, node[t])
  /\ node' = [node EXCEPT ![t] = Null]
  /\ oldHead' = [oldHead EXCEPT ![t] = Null]
  /\ UNCHANGED <<next, value, live, newHead, result>>

\* Mutant: the retry does not load head again.
PushRetryStale(t) ==
  /\ head # oldHead[t]
  /\ Goto(t, "pushCas", "pushCas")
  /\ newHead' = [newHead EXCEPT ![t] = IF @ = Null THEN node[t] ELSE Null]
  /\ UNCHANGED <<head, next, value, live, node, oldHead, result, contents>>

\* compare_and_swap found another head: the loop starts again.
PushRetry(t) ==
  /\ head # oldHead[t]
  /\ Goto(t, "pushCas", "pushLoad")
  /\ UNCHANGED <<head, next, value, live, node, oldHead, newHead, result, contents>>
-----------------------------------------------------------------------------
(* try_pop *)

PopCall(t) ==
  /\ t \in Poppers
  /\ Goto(t, "idle", "popLoad")
  /\ UNCHANGED <<head, next, value, live, node, oldHead, newHead, result, contents>>

\* old_head = head, not nullptr.
PopLoad(t) ==
  /\ head # Null
  /\ Goto(t, "popLoad", "popNext")
  /\ oldHead' = [oldHead EXCEPT ![t] = head]
  /\ UNCHANGED <<head, next, value, live, node, newHead, result, contents>>

\* Mutant: a try_pop that finds the stack empty delivers the head it read.
PopEmptyGarbage(t) ==
  /\ head = Null
  /\ Goto(t, "popLoad", "idle")
  /\ oldHead' = [oldHead EXCEPT ![t] = Null]
  /\ result' = [result EXCEPT ![t] = head]
  /\ UNCHANGED <<head, next, value, live, node, newHead, contents>>

\* old_head = head is nullptr: try_pop returns false.
PopEmpty(t) ==
  /\ head = Null
  /\ Goto(t, "popLoad", "idle")
  /\ oldHead' = [oldHead EXCEPT ![t] = Null]
  /\ result' = [result EXCEPT ![t] = Empty]
  /\ UNCHANGED <<head, next, value, live, node, newHead, contents>>

\* new_head = old_head->next.
PopNext(t) ==
  /\ Goto(t, "popNext", "popCas")
  /\ \E p \in Deref(next, oldHead[t], Pointer) :
       newHead' = [newHead EXCEPT ![t] = p]
  /\ UNCHANGED <<head, next, value, live, node, oldHead, result, contents>>

\* Mutant: the new head is installed whatever head has become.
PopBlindStore(t) ==
  /\ Goto(t, "popCas", "popRead")
  /\ head' = newHead[t]
  /\ contents' = IF contents = <<>> THEN <<>>
                 ELSE Front(contents)
  /\ newHead' = [newHead EXCEPT ![t] = Null]
  /\ UNCHANGED <<next, value, live, node, oldHead, result>>

\* compare_and_swap found old_head and unlinked it.
PopCas(t) ==
  /\ head = oldHead[t]
  /\ Goto(t, "popCas", "popRead")
  /\ head' = newHead[t]
  /\ contents' = Front(contents)
  /\ newHead' = [newHead EXCEPT ![t] = Null]
  /\ UNCHANGED <<next, value, live, node, oldHead, result>>

\* compare_and_swap found another head: the loop starts again.
PopRetry(t) ==
  /\ head # oldHead[t]
  /\ Goto(t, "popCas", "popLoad")
  /\ UNCHANGED <<head, next, value, live, node, oldHead, newHead, result, contents>>

\* value = old_head->value.
PopRead(t) ==
  /\ Goto(t, "popRead", "popDelete")
  /\ \E v \in Deref(value, oldHead[t], Values) :
       result' = [result EXCEPT ![t] = v]
  /\ UNCHANGED <<head, next, value, live, node, oldHead, newHead, contents>>

\* Mutant: the node is not deleted.
PopForgetDelete(t) ==
  /\ Goto(t, "popDelete", "idle")
  /\ oldHead' = [oldHead EXCEPT ![t] = Null]
  /\ UNCHANGED <<head, next, value, live, node, newHead, result, contents>>

\* delete old_head; try_pop returns true.
PopDelete(t) ==
  /\ Goto(t, "popDelete", "idle")
  /\ live' = live \ {oldHead[t]}
  /\ oldHead' = [oldHead EXCEPT ![t] = Null]
  /\ UNCHANGED <<head, next, value, node, newHead, result, contents>>
-----------------------------------------------------------------------------
\* What a thread inside push or try_pop does next.
Step(t) == \/ PushLoad(t) \/ PushCas(t) \/ PushRetry(t)
           \/ PopLoad(t) \/ PopEmpty(t) \/ PopNext(t) \/ PopCas(t) \/ PopRetry(t)
           \/ PopRead(t) \/ PopDelete(t)

Next == \E t \in Threads : PushNew(t) \/ PopCall(t) \/ Step(t)

\* A thread inside an operation is scheduled; nobody has to start one.
Fairness == \A t \in Threads : WF_vars(Step(t))

Spec == Init /\ [][Next]_vars
FairSpec == Spec /\ Fairness
-----------------------------------------------------------------------------
Pushing(t) == pc[t] \in {"pushLoad", "pushCas"}
Unlinked(t) == pc[t] \in {"popRead", "popDelete"}
OnStack == ToSet(contents)

\* The state has the shape the declarations of the class give it.
TypeOK ==
  /\ head \in Pointer
  /\ next \in [Addr -> Pointer]
  /\ value \in [Addr -> Values]
  /\ live \subseteq Addr
  /\ pc \in [Threads -> {"idle", "pushLoad", "pushCas", "popLoad", "popNext",
                         "popCas", "popRead", "popDelete"}]
  /\ node \in [Threads -> Pointer]
  /\ oldHead \in [Threads -> Pointer]
  /\ newHead \in [Threads -> Pointer]
  /\ result \in [Threads -> Values \cup {Empty}]
  /\ contents \in Seq(Addr)

\* The linked list that starts at head is exactly the abstract stack: no push
\* is lost to a concurrent compare_and_swap, no node is linked twice, and the
\* list never runs into a node that has been unlinked.
ListIsStack ==
  /\ head = IF contents = <<>> THEN Null ELSE Last(contents)
  /\ \A i \in 1..Len(contents) :
       next[contents[i]] = IF i = 1 THEN Null ELSE contents[i - 1]
  /\ IsInjective(contents)

\* Every node allocated is on the stack or in the hands of exactly one thread:
\* none is leaked, and no list node is deleted under a reader.
NoLeak ==
  /\ live = OnStack \cup {node[t] : t \in {u \in Threads : Pushing(u)}}
                    \cup {oldHead[t] : t \in {u \in Threads : Unlinked(u)}}
  /\ \A t \in Threads : pc[t] = "popNext" => oldHead[t] \in live

\* Operations are atomic on an abstract stack; a try_pop delivers what was on
\* top when its compare_and_swap succeeded, although it reads it later.
Abstract ==
  INSTANCE AbstractStack WITH
    stack <- [i \in 1..Len(contents) |-> value[contents[i]]],
    result <- [t \in Threads |->
                 IF pc[t] = "popRead" THEN value[oldHead[t]] ELSE result[t]]

Linearizable == Abstract!Spec

\* Lock freedom: as long as some operation is under way, operations keep
\* completing; a compare_and_swap fails only because another one succeeded.
Completes(t) == pc[t] # "idle" /\ pc'[t] = "idle"

LockFree == \/ []<>(\A t \in Threads : pc[t] = "idle")
            \/ []<><<\E t \in Threads : Completes(t)>>_vars
=============================================================================
