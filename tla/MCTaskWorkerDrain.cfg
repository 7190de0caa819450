\* Two tasks, one loop thread, one run_now thread, no crash; fair threads.
SPECIFICATION FairSpec
CONSTANTS
    Tasks <- TwoTasks
    Loops = {l1}
    Manuals = {m1}
    MaxRetries <- RetryOnce
    Outcomes <- AgentOutcomes
    DiskMayFail = FALSE
    MaxAttempts <- TwoEach
    MaxRestarts = 0
PROPERTIES
    QueueDrains
