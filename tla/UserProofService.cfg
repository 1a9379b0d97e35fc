\* Nine accounts in three tiers, three kills.
SPECIFICATION FairSpec
CONSTANTS
    None = None
    Accounts <- MCAccounts
    SegmentSize = 3
    SegBuffer = 2
    Workers = 2
    RowBytes <- MCRowBytes
    MaxBytes = 5
    MaxCrashes = 3
INVARIANTS TypeOK CountIsStored InsertFits IndexOverComplete PanicOnlyOverIndex
PROPERTIES ImplementsLog EventuallyIndexed
