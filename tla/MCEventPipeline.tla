-------------------------- MODULE MCEventPipeline --------------------------
(* Instances of EventPipeline; the processors are interchangeable.          *)
EXTENDS EventPipeline, TLC

Symmetry == Permutations(Processors)
=============================================================================
