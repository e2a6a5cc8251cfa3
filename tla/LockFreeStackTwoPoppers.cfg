\* Two threads pop at the same time.
CONSTANTS
  Threads = {t1, t2}
  Poppers = {t1, t2}
  Addr = {a1, a2}
  Values = {v1, v2}
  Null = Null
  Empty = Empty
SPECIFICATION Spec
SYMMETRY Symmetry
INVARIANTS ListIsStack
