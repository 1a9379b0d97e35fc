\* Files to proved batches: two readers, three configured assets and a
\* reserved one, tiers of two and of four assets.
SPECIFICATION Spec
CONSTANTS
    TierCount = 2
    BoundaryBits = 4
    ValueMultiplier = 3
    AssetCounts = 4
    OpsPerBatch <- MCOpsPerBatch
    ValueBits = 5
    WorkersNum = 2
    MaxUint = 15
    CexFiles <- MCCexFiles
    DataSets <- MCDataSets
    Bad = Bad
    BadNumber = Bad
INVARIANTS
    TypeOK
    MergedInOrder
    LoadedAllValid
    OneCollateralValue
    ValuedAsConfigured
    RefusedOnlyFor
    TotalsAreTrue
    ProvedIsCovered
    CommitmentFixesTiers
