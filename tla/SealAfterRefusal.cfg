SPECIFICATION Spec
CONSTANTS
    Units <- OneUnit
    Projection <- SmallProjection
    Budget <- SmallBudget
    NestedStreams = {}
    RawPaths <- OneRawPath
    WallSeconds = {1}
    AdapterResults <- ExcessResults
    Retainable = {"first"}
    Faults = {}
    MaxFaults = 0
    MaxCalls = 3
INVARIANT
    SealedIsAccepted
