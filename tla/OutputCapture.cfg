SPECIFICATION Spec
CONSTANTS
    MaxOutput = 3
    ReadMax = 2
    PipeCapacity = 2
    SecretLen = 2
    MarkLen = 3
    DiskFaults = {"error", "short"}
    MaxWritten = 4
INVARIANTS
    TypeOK
    WithinQuota
    ResultMatchesLogs
    NothingElseLost
    RefusalStopsGroup
    NoSurvivors
    OwnExitReported
PROPERTIES
    GrantsArePrefix
