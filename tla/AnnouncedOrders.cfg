\* Nothing is exempt.
CONSTANTS
  N = 3
  Threads = {1, 2, 3}
  MainThread = 1
  Main = 0
  Programs = {"announced_orders"}
  Code <- MCCode
  Memory <- MCMemory
  Outcomes <- MCOutcomes
  Racy = {}
  Misdescribed = {}
  Detached = {}
SPECIFICATION Spec
INVARIANT OneOrderKept
