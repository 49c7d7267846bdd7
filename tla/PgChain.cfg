SPECIFICATION FairPgSpec
CONSTANTS
    Ids <- MCIds
    Times <- MCTimes
    Bodies = {b1}
    LegalHoldDefault = FALSE
    Workers = {w1,w2,w3}
    None = None
    TsPrecision = 1
INVARIANTS
    PgTypeOK
    SpineInv
PROPERTIES
    NoStaleLink
    ImplementsAuditLog
    EveryInsertReturns
