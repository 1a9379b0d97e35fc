\* Faults, a second push, -rerun provers at any time: safety.
SPECIFICATION Spec
CONSTANTS
    p1 = p1  p2 = p2  large = large  small = small
    None = None
    N = 2
    Provers = {p1, p2}
    Tiers = {small, large}
    TierOf <- MCTierOf
    InsertRows = 2
    PageLimit = 2
    ByHeight = FALSE
    EarlyPush = FALSE
    Mixed = TRUE
    MaxPush = 2
    MaxFaults = 1
SYMMETRY ProverSymmetry
INVARIANTS TypeOK FinishedHasProof ProofKeysMatch ReceivedIsHeld PublishedIsQueued
PROPERTIES ProofsPermanent ImplementsLedger
