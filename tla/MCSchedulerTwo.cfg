\* Two schedules, requests one after the other as the UI sends them, with
\* triggers CronTrigger may reject; a crash.
SPECIFICATION Spec
CONSTANTS
    Scheds <- TwoScheds
    Requests = {r1}
    Fires = {f1}
    NewRecords <- UiBody
    Updates <- NoBody
    DiskMayFail = FALSE
    MaxRestarts = 1
INVARIANTS
    JobsAreDue
    DueKeepsJob
CHECK_DEADLOCK FALSE
