\* Three threads push, one of them also pops.
CONSTANTS
  Threads = {t1, t2, t3}
  Poppers = {t1}
  Addr = {a1, a2, a3}
  Values = {v1, v2}
  Null = Null
  Empty = Empty
SPECIFICATION FairSpec
INVARIANTS TypeOK ListIsStack NoLeak
PROPERTIES Linearizable LockFree
