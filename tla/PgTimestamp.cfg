SPECIFICATION PgSpec
CONSTANTS
    Ids <- MCIds
    Times = {2, 3}
    Bodies = {b1}
    LegalHoldDefault = FALSE
    Workers = {w1}
    None = None
    TsPrecision = 2
INVARIANTS
    HashesSound
