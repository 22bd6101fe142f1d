SPECIFICATION Spec
CONSTANTS
    Units <- OneUnit
    Projection <- SmallProjection
    Budget <- SmallBudget
    NestedStreams = {}
    RawPaths <- OneRawPath
    WallSeconds = {1}
    AdapterResults <- PlainResults
    Retainable = {"first"}
    Faults = {"refused"}
    MaxFaults = 1
    MaxCalls = 3
INVARIANT
    SealedIsAccepted
