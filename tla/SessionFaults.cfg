SPECIFICATION Spec
CONSTANTS
    Units <- OneUnit
    Projection <- NoProjection
    Budget <- SmallBudget
    NestedStreams = {}
    RawPaths <- OneRawPath
    WallSeconds = {1, 3}
    AdapterResults <- FreeResults
    Retainable = {"first", "second"}
    Faults = {"refused", "unsynced", "short"}
    MaxFaults = 2
    MaxCalls = 4
INVARIANTS
    StreamHasNoGaps
    SealedIsRecorded
PROPERTIES
    EvidenceOnlyGrows
    SealedImmutable
