---------------------------- MODULE MCPrefixScan ----------------------------
(* Instances of PrefixScan, on every vector over a few numbers.              *)
EXTENDS PrefixScan

SmallInputs == [1..N -> {-2, 1, 3}]
=============================================================================
