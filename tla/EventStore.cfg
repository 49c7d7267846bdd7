SPECIFICATION Spec
CONSTANTS
    Ids <- MCIds
    Times <- MCTimes
    Bodies = {b1}
    LegalHoldDefault = FALSE
    PageLimit = 1
INVARIANTS
    SpineInv
    LateRowsAreLeaves
    WalkIsContiguousUnlessLate
    EndpointAgreesWithWalk
PROPERTIES
    AppendOnly
    ImplementsAuditLog
