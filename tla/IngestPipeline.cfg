SPECIFICATION PipelineSpec
CONSTANTS
    Ids <- MCIds
    Times <- MCTimes
    Bodies = {b1}
    LegalHoldDefault = FALSE
    Workers = {w1, w2}
    None = None
    KindOf <- MCKindOf
    MaxReads = 2
    MaxFaults = 2
INVARIANTS
    PipelineTypeOK
    LossBoundedByFaults
    RowDescribesAVersion
    OrderedPartitionIsNeverLate
