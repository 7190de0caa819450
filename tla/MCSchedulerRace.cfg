\* One schedule, two overlapping requests of any kind, two fires, a crash.
SPECIFICATION Spec
CONSTANTS
    Scheds <- OneSched
    Requests = {r1, r2}
    Fires = {f1, f2}
    NewRecords <- AnyBody
    Updates <- AnyBody
    DiskMayFail = FALSE
    MaxRestarts = 1
INVARIANTS
    TypeOK
    DiskCurrent
    StopHolds
    LateFiresIdle
CHECK_DEADLOCK FALSE
