-------------------------- MODULE MCLockFreeStack --------------------------
(* Instances of LockFreeStack: the node addresses and the values are        *)
(* interchangeable, the threads are not (only some of them pop).            *)
EXTENDS LockFreeStack, TLC

Symmetry == Permutations(Addr) \cup Permutations(Values)
=============================================================================
