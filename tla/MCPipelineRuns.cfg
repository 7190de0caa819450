\* Two runs, one reset, one crash; the history keeps one run.
SPECIFICATION Spec
CONSTANTS
    Runs = {r1, r2}
    Kinds <- ThreeSteps
    MaxHistory = 1
    MaxResets = 1
    MaxRestarts = 1
SYMMETRY RunSymmetry
INVARIANTS
    TypeOK
    FailureStops
    HistoryTrue
    HistoryOnDisk
PROPERTIES
    AnsweredListed
CHECK_DEADLOCK FALSE
