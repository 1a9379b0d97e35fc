\* Tasks pushed twice, no faults: does the status of a row ever go back?
SPECIFICATION Spec
CONSTANTS
    p1 = p1  p2 = p2  large = large  small = small
    None = None
    N = 1
    Provers = {p1, p2}
    Tiers = {small, large}
    TierOf <- MCTierOf
    InsertRows = 1
    PageLimit = 1
    ByHeight = FALSE
    EarlyPush = FALSE
    Mixed = FALSE
    MaxPush = 2
    MaxFaults = 0
PROPERTIES StatusMonotone
