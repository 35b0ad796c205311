SPECIFICATION FairSpec
CONSTANTS
  p1 = p1
  p2 = p2
  None = None
  Procs = {p1}
  LastDay = 2
  Weekdays = {1, 2}
  Sessions = {2}
  DayLength = 3
  DueTick = 1
  CloseTick = 3
  RetryBase = 1
  RetryMax = 2
  MaxAttempts = 1
  HardMaxAttempts = 1
  Confirmations = 1
  MaxCatchUp = 1
  DailyBudget = 2
  MinStart = 1
  RunCap = 1
  Others = 0
  MaxRuns = 4
  MaxManual = 0
  MaxTrouble = 1
  CrashPoints <- OutsideMissedRecord
PROPERTIES
  ItemsClose
  ImplementsCaptureLedger
