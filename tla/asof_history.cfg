SPECIFICATION Spec
CONSTANTS
    None = None
    Absent = Absent
    Decimals = 0
    DayLength = 2
    Filings = {1, 2}
    Sources <- MCSources
    Contents <- MCContents
    Entries <- MCEntries
    Backlog <- MCBacklog
    Decided <- MCDecided
    LinkShapes <- MCLinks
    RunShapes <- MCRuns
    Issuer = "X"
    MaxTime = 3
    MaxRows = 7
INVARIANT EarlierOnlyByRole
INVARIANT SupersessionKeepsOne
INVARIANT AgreementHasInterval
 
 
CHECK_DEADLOCK FALSE
