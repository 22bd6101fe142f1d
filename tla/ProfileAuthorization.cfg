SPECIFICATION Spec
CONSTANTS
    Pilot <- PilotProfile
    PilotPlans <- TwoByTwo
    MaxEdits = 2
INVARIANTS
    GrantedAsRecorded
    AdmittedIsMatched
    LabValidIsPaired
    RefusalExplained
