CONSTANTS
  N = 3
  Threads = {1, 2, 3}
  MainThread = 1
  Main = 0
  Programs <- MCPrograms
  Code <- MCCode
  Memory <- MCMemory
  Outcomes <- MCOutcomes
  Racy <- MCRacy
  Misdescribed <- MCMisdescribed
  Detached <- MCDetached
  Guarded <- MCGuarded
  Holds <- MCHolds
  Ended <- MCEnded
  Exact <- MCExact
  Gives <- MCGives
  Knows <- MCKnows
SPECIFICATION FairSpec
INVARIANTS TypeOK RaceFree OutcomeRight NothingLeftRunning
PROPERTY Terminates
