SPECIFICATION Spec
CONSTANTS
    Callers = {a, b}
    RuntimeOrder <- OneIdentity
    HasUsage = FALSE
    MaxChanges = 2
SYMMETRY CallersAreAlike
INVARIANTS
    OneOwner
    RefusedLeavesNothing
    StaleLeavesNoEvidence
    LaunchedAsBound
    SecretsReadForLiveRuns
