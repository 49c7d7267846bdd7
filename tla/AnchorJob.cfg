SPECIFICATION FairAnchorSpec
CONSTANTS
    Ids <- MCIds
    Times <- MCTimes
    Bodies = {b1}
    LegalHoldDefault = FALSE
    Replicas = {r1, r2}
    None = None
INVARIANTS
    AnchorTypeOK
    OnlyLateRowsAnchoredUncovered
    AnchorsMatchRows
    RootsNeverFork
PROPERTIES
    ImplementsAnchoredLog
    EveryEventAnchored
