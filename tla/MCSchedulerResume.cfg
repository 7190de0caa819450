\* A schedule paused before a restart and resumed after it.
SPECIFICATION Spec
CONSTANTS
    Scheds <- OneSched
    Requests = {r1}
    Fires = {f1}
    NewRecords <- UiBody
    Updates <- NoBody
    DiskMayFail = FALSE
    MaxRestarts = 1
INVARIANTS
    DueHasJob
CHECK_DEADLOCK FALSE
