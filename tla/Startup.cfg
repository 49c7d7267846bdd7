SPECIFICATION StartupSpec
CONSTANTS
    Runners = {r1, r2, tool}
    Replicas = {r1, r2}
    N = 2
    Events = {e1}
INVARIANTS
    RecordIsTrueUnlessSpoiled
    RowsOutliveRestarts
PROPERTIES
    RunnersKeepTheirPromise
    AlwaysBoots
