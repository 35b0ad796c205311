SPECIFICATION Spec
CONSTANTS
  p1 = p1
  p2 = p2
  None = None
  Procs = {p1, p2}
  LastDay = 1
  Weekdays = {1}
  Sessions = {1}
  DayLength = 3
  DueTick = 1
  CloseTick = 3
  RetryBase = 1
  RetryMax = 2
  MaxAttempts = 2
  HardMaxAttempts = 3
  Confirmations = 2
  MaxCatchUp = 1
  DailyBudget = 2
  MinStart = 1
  RunCap = 1
  Others = 0
  MaxRuns = 4
  MaxManual = 1
  MaxTrouble = 1
  CrashPoints <- AnyPoint
SYMMETRY Symmetric
INVARIANTS
  
  OneDerivingRun
  ItemsCurrent
PROPERTIES
  ClosedWithoutSession
  NoCaptureWhileBlocked
