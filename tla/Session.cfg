SPECIFICATION Spec
CONSTANTS
    Units <- TwoUnits
    Projection <- TwoProjections
    Budget <- TwoBudgets
    NestedStreams <- NestedPath
    RawPaths <- TwoRawPaths
    WallSeconds = {1, 3}
    AdapterResults <- SomeResults
    Retainable = {"first"}
    Faults = {}
    MaxFaults = 0
    MaxCalls = 4
INVARIANTS
    SealedAcceptedButTwo
    EvidenceMatchesSession
    OverspendingStopped
    CompletedIsClean
    RecordedIsSafe
PROPERTIES
    FailureSticks
    ImplementsLedger
