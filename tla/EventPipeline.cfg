CONSTANTS
  NumEvents = 4
  Processors = {p1, p2, p3}
SPECIFICATION FairSpec
INVARIANTS TypeOK OnePlace ReportIsFinal LeftBehindLate
PROPERTIES Terminates
