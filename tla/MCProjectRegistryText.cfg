\* Three agents and a skill; two requests, no crash.
SPECIFICATION Spec
CONSTANTS
    Ids = {"a1", "a2", "a3"}
    Given <- TwoGiven
    Skills = {s1}
    Edits <- TwoEdits
    Plans <- SmallPlans
    MaxRequests = 2
    MaxRestarts = 0
INVARIANTS
    AssignedHasText
CHECK_DEADLOCK FALSE
