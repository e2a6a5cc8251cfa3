\* simple_partitioner and auto_partitioner.  9 splits into 4 and 5, and these into
\* 2 and 2, 2 and 3: odd lengths, a range just above the grain, pieces below it.
CONSTANTS
  Threads = {t1, t2, t3}
  N = 9
  Grain = 3
  Modulus = 32
SPECIFICATION FairSpec
INVARIANTS TypeOK Partition LeafSize
PROPERTIES Completes
