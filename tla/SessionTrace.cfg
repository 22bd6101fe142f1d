SPECIFICATION Spec
CONSTANTS
    MaxSteps = 3
    Details <- TwoDetails
    RewardLists <- LostAndWon
    MaxFaults = 2
INVARIANTS
    FollowsTheRun
    OutcomeSurvives
    UndisturbedIsKept
    AllAccounted
