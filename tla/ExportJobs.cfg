SPECIFICATION ExportSpec
CONSTANTS
    Ids <- MCIds
    Times <- MCTimes
    Bodies = {b1}
    LegalHoldDefault = FALSE
    PageLimit = 2
    Exports = {j1}
    Runners = {r1, r2}
    Queries <- MCQueries
    NoJob = NoJob
    NoResult = NoResult
    NoAnchor = NoAnchor
    MaxRuns = 2
INVARIANTS
    ArtifactMissesNothing
    RootCoversArtifact
    RecordHasItsArtifact
    
