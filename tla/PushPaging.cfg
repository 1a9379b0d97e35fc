\* The pusher pages with LIMIT and OFFSET while provers take rows.
SPECIFICATION Spec
CONSTANTS
    p1 = p1  p2 = p2  large = large  small = small
    None = None
    N = 3
    Provers = {p1, p2}
    Tiers = {small, large}
    TierOf <- MCTierOf
    InsertRows = 3
    PageLimit = 1
    ByHeight = TRUE
    EarlyPush = FALSE
    Mixed = FALSE
    MaxPush = 1
    MaxFaults = 0
INVARIANTS PublishedIsQueued
