CONSTANTS
  Threads = {t1, t2, t3}
  MaxEntries = 5
SPECIFICATION FairSpec
INVARIANTS TypeOK ActiveCounts MaxIsPeak
PROPERTIES MaxGrows EntryCompletes
\* The scheduler may have no more entries to make.
CHECK_DEADLOCK FALSE
