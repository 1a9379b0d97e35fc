\* Four batches, three workers of which the last has nothing to do.
SPECIFICATION FairSpec
CONSTANTS
    small = small  large = large  r = r  s = s
    None = None
    WorkersNum = 3
    Tiers = {small, large}
    Tables <- MCTables
    Configs <- MCConfigs
INVARIANTS TypeOK VerdictRight PassIsSolvent
PROPERTIES EventuallyVerdict
