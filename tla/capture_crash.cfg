SPECIFICATION Spec
SYMMETRY Symmetric
CONSTANTS
  p1 = p1
  p2 = p2
  r1 = r1
  r2 = r2
  a1 = a1
  c1 = c1
  None = None
  Procs = {p1, p2}
  Runs = {r1, r2}
  RunKinds = {"market_capture", "metadata_sweep"}
  Absent = {a1}
  Sampled = {c1}
  AttemptLimit = 2
  MaxRequests = 3
  BreakerLimit = 3
  MaxContacts = 2
  MaxCrash = 1
  MaxLoss = 0
  MaxSpoolFault = 1
INVARIANTS
  NoRepeatedRequest
  SequenceNamesAttempt
  SucceededIsComplete
  GateHolds
PROPERTIES
  ImplementsCaptureLedger
