SPECIFICATION Spec
CONSTANTS
  Procs = {timer, shell}
  Timer = timer
  None = None
  Filings <- MCFilings
  Issuers <- MCIssuers
  Documents <- MCDocuments
  Reports <- MCReports
  FirstIssuer <- MCFirstIssuer
  ValidateBatch = 2
  ReconcileBatch = 1
  Block = 1
  MaxTrouble = 2
  ManualCost = 2
INVARIANTS
  OneRunner
  AbandonedIsDead
  SucceededIsCurrent
PROPERTY
  DocumentsReconcile
