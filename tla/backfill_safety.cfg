SPECIFICATION Spec
CONSTANTS
  s1 = s1
  s2 = s2
  d1 = d1
  n1 = n1
  n2 = n2
  None = None
  P2 = P2
  Slices = {s1, s2}
  Discovery = {d1}
  Documents = {n1}
  DailyBudget = 3
  Ceiling = 4
  P3Budget = 1
  ItemMax = 2
  StoppedSlices = 1
  MaxEvents = 1
  Phases = {"discovering", "retrieving"}
  SliceMax = 2
  Breaker = 2
  Passes = 2
  WorstCase = 2
  MaxTrouble = 1
  Trouble <- AllTrouble
SYMMETRY Symmetric
INVARIANTS
  NothingStranded
  OneSliceAtWork
PROPERTIES
  BudgetKept
  EventsLegal
  NoRepeatedRequest
  DownloadsIntoCleanRoot
  ImplementsAttemptLedger
CHECK_DEADLOCK FALSE
