------------------------------ MODULE Delivery ------------------------------
(***************************************************************************)
(* What a producer/consumer program promises: every item made is received  *)
(* by one consumer, once, and the program prints the number of items, when *)
(* all of them have been received.                                         *)
(***************************************************************************)
EXTENDS Sequences

CONSTANTS Items,
          Total,     \* the number of items, as the program states it
          Consumers

VARIABLES made,      \* the items produced so far
          received,  \* what each consumer has received so far, in this order
          printed    \* the totals the program has printed

vars == <<made, received, printed>>

Init == /\ made = {}
        /\ received = [c \in Consumers |-> <<>>]
        /\ printed = <<>>

Make == \E x \in Items \ made : /\ made' = made \cup {x}
                                /\ UNCHANGED <<received, printed>>

Received(c) == {received[c][i] : i \in DOMAIN received[c]}
Given == UNION {Received(c) : c \in Consumers}

Deliver == \E x \in made \ Given, c \in Consumers :
             /\ received' = [received EXCEPT ![c] = Append(@, x)]
             /\ UNCHANGED <<made, printed>>

Report == /\ printed = <<>>
          /\ Given = Items
          /\ printed' = <<Total>>
          /\ UNCHANGED <<made, received>>

Next == Make \/ Deliver \/ Report

Spec == Init /\ [][Next]_vars
=============================================================================
