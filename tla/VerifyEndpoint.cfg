SPECIFICATION Spec
CONSTANTS
    Ids <- MCIds
    Times <- MCTimes
    Bodies = {b1}
    LegalHoldDefault = FALSE
    PageLimit = 1
INVARIANTS
    EndpointAcceptsIntactLog
