SPECIFICATION Spec
CONSTANTS
    Pilot <- PilotProfile
    PilotPlans <- TwoByTwo
    MaxEdits = 1
INVARIANT
    EachConditionOncePerTask
