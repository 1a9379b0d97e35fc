\* Five batches of two tiers, inserted two at a time; the process is killed twice.
SPECIFICATION FairSpec
CONSTANTS
    w1 = w1  w2 = w2
    None = None
    Users <- MCUsers
    Ops <- MCOps
    Workers = {w1, w2}
    ChCap = 2
    DbBatch = 2
    MaxCrashes = 2
INVARIANTS TypeOK BatchesChain CompleteTotals
PROPERTIES ImplementsLog EventuallyComplete
