\* The printed counts agree?
CONSTANTS
  NumEvents = 2
  Processors = {p1, p2}
SPECIFICATION Spec
SYMMETRY Symmetry
INVARIANTS AllProcessed
