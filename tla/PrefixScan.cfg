\* Every scan and reduction on every vector of four numbers, with ints of 4 bits.
CONSTANTS
  Examples = {"sum", "max", "count", "total", "minimum", "dot", "find", "stats", "histogram"}
  Inputs <- SmallInputs
  N = 4
  Half = 8
  BINS = 3
  MaxBodies = 3
SPECIFICATION ScanSpec
INVARIANTS ScanTypeOK PartialSums OutputsFinal PacksPositives
