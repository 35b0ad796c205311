SPECIFICATION Spec
CONSTANTS
  timer = timer
  shell = shell
  Procs = {timer, shell}
  Commands <- MCCommands
  None = None
  MaxRows = 2
  MaxDumps = 1
  MaxTrouble = 2
INVARIANTS NoFalseSuccess QuietMeansProtected
PROPERTY LedgerSettles
