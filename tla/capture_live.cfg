SPECIFICATION FairSpec
CONSTANTS
  p1 = p1
  p2 = p2
  r1 = r1
  r2 = r2
  a1 = a1
  c1 = c1
  None = None
  Procs = {p1, p2}
  Runs = {r1}
  RunKinds = {"market_capture"}
  Absent = {}
  Sampled = {}
  AttemptLimit = 2
  MaxRequests = 2
  BreakerLimit = 3
  MaxContacts = 2
  MaxCrash = 0
  MaxLoss = 1
  MaxSpoolFault = 0
INVARIANTS
  OneLiveRequest
PROPERTIES
  SpoolReachesArchive
  RunningEnds
