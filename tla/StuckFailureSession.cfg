SPECIFICATION Spec
CONSTANTS
    Units <- OneUnit
    Projection <- SmallProjection
    Budget <- SmallBudget
    NestedStreams = {}
    RawPaths <- OneRawPath
    WallSeconds = {1, 3}
    AdapterResults <- PlainResults
    Retainable = {"first"}
    Faults = {}
    MaxFaults = 0
    MaxCalls = 3
INVARIANT
    FailureSessionSealable
