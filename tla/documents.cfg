SPECIFICATION ChainSpec
CHECK_DEADLOCK FALSE
CONSTANTS
    None = None
    Decimals = 0
    DayLength = 1
    Documents <- MCDocuments
    Metadata <- MCMetadata
INVARIANTS MetadataOnlyWithdraws QuartersAgree AuditNeverUpgraded
