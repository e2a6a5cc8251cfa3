--------------------------- MODULE AbstractStack ---------------------------
(***************************************************************************)
(* What LockFreeStack (examples/19_atomic.cpp) promises its callers: every *)
(* push and every try_pop takes effect at one instant, on one LIFO stack.  *)
(* The top of the stack is the last element of the sequence.               *)
(***************************************************************************)
EXTENDS Naturals, SequencesExt

CONSTANTS Threads,  \* callers of the stack
          Values,   \* the elements pushed
          Empty     \* what a try_pop that returned false delivered

VARIABLES stack,    \* the elements on the stack
          result    \* per thread, what its last try_pop delivered

vars == <<stack, result>>

Init == /\ stack = <<>>
        /\ result = [t \in Threads |-> Empty]

Push == /\ \E v \in Values : stack' = Append(stack, v)
        /\ UNCHANGED result

Pop(t) == /\ stack # <<>>
          /\ result' = [result EXCEPT ![t] = Last(stack)]
          /\ stack' = Front(stack)

PopEmpty(t) == /\ stack = <<>>
               /\ result' = [result EXCEPT ![t] = Empty]
               /\ UNCHANGED stack

Next == Push \/ \E t \in Threads : Pop(t) \/ PopEmpty(t)

Spec == Init /\ [][Next]_vars
=============================================================================
