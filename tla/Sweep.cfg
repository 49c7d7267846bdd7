SPECIFICATION SweepSpec
CONSTANTS
    Ids <- MCIds
    Times <- MCTimes
    Bodies = {b1}
    LegalHoldDefault = FALSE
    Replicas = {r1}
    None = None
    PageLimit = 2
    MaxDamage = 1
    MaxAnchors = 1
INVARIANTS
    WalkVisitsEveryRow
    
    AlterationIsFound
    CleanReportMissesOnlyAPrefix
