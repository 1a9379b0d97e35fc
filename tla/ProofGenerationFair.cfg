\* The documented procedure, with faults: every batch gets finished.
SPECIFICATION FairSpec
CONSTANTS
    p1 = p1  p2 = p2  large = large  small = small
    None = None
    N = 2
    Provers = {p1, p2}
    Tiers = {small, large}
    TierOf <- MCTierOf
    InsertRows = 2
    PageLimit = 2
    ByHeight = FALSE
    EarlyPush = FALSE
    Mixed = FALSE
    MaxPush = 1
    MaxFaults = 1
PROPERTIES StatusMonotone EventuallyAllFinished
