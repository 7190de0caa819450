\* One task; two loop threads (stop, then start) and one run_now thread;
\* writes may fail.
SPECIFICATION Spec
CONSTANTS
    Tasks <- OneTask
    Loops = {l1, l2}
    Manuals = {m1}
    MaxRetries <- RetryOnce
    Outcomes <- RuntimeOutcomes
    DiskMayFail = TRUE
    MaxAttempts <- TwoEach
    MaxRestarts = 0
SYMMETRY ThreadSymmetry
INVARIANTS
    RunningOwned
    DiskCurrent
    CurrentOwned
