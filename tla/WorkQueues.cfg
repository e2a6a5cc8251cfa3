CONSTANTS
  NumWorkers = 3
  TotalWork = 7
SPECIFICATION FairSpec
INVARIANTS TypeOK EachOnce NothingLeftBehind
PROPERTIES Terminates
