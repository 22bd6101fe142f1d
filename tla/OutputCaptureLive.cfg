SPECIFICATION Spec
CONSTANTS
    MaxOutput = 1
    ReadMax = 1
    PipeCapacity = 1
    SecretLen = 0
    MarkLen = 0
    DiskFaults = {"error"}
    MaxWritten = 3
PROPERTIES
    OwnerLeaves
    ReadersEnd
