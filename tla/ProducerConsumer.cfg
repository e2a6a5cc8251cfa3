CONSTANTS
  NumProducers = 2
  NumItems = 2
  Consumers = {c1, c2, c3}
SPECIFICATION FairSpec
INVARIANTS TypeOK StopsWhenDrained
PROPERTIES DeliversOnce Terminates
