\* A kill after the index is built, before the witness service is done.
SPECIFICATION Spec
CONSTANTS
    None = None
    Accounts <- MCAccounts
    SegmentSize = 3
    SegBuffer = 1
    Workers = 2
    RowBytes <- MCRowBytes
    MaxBytes = 5
    MaxCrashes = 1
INVARIANTS RestartSurvives
