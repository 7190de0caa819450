\* Three agents and a skill; three requests, a crash.
SPECIFICATION Spec
CONSTANTS
    Ids = {"a1", "a2", "a3"}
    Given <- TwoGiven
    Skills = {s1}
    Edits <- TwoEdits
    Plans <- SmallPlans
    MaxRequests = 3
    MaxRestarts = 1
INVARIANTS
    TypeOK
    ValidationExact
    RoutesSound
    FileIsCurrent
CHECK_DEADLOCK FALSE
