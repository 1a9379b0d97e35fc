\* Tasks pushed twice, no faults: does a prover quit only when nothing is left?
SPECIFICATION Spec
CONSTANTS
    p1 = p1  p2 = p2  large = large  small = small
    None = None
    N = 3
    Provers = {p1, p2}
    Tiers = {small, large}
    TierOf <- MCTierOf
    InsertRows = 3
    PageLimit = 3
    ByHeight = FALSE
    EarlyPush = FALSE
    Mixed = FALSE
    MaxPush = 2
    MaxFaults = 0
PROPERTIES QuitOnlyWhenNonePublished
