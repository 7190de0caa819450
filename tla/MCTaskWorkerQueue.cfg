\* Two tasks, one loop thread, one run_now thread, one crash.
SPECIFICATION Spec
CONSTANTS
    Tasks <- TwoTasks
    Loops = {l1}
    Manuals = {m1}
    MaxRetries <- RetryOnce
    Outcomes <- AgentOutcomes
    DiskMayFail = FALSE
    MaxAttempts <- TwoThenOne
    MaxRestarts = 1
INVARIANTS
    TypeOK
    RunningOwned
    DiskCurrent
    CurrentOwned
    HistoryWithinAttempts
PROPERTIES
    CrashRecovers
    ImplementsDurable
