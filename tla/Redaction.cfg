SPECIFICATION RedactionSpec
CONSTANTS
    Services <- MCServices
    Actions <- MCActions
    Keys <- MCKeys
    Lower <- MCLower
    Documents <- MCDocuments
    Reloaders = {p, q}
    None = None
    MaxSaves = 1
INVARIANTS
    HalfWrittenRedactsLess
    
PROPERTIES
    OlderPolicyOnlyFromOverlap
