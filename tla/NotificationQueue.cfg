SPECIFICATION FairSpec
CONSTANTS
    NumJobs = 2
    Workers = {w1, w2}
    BatchSize = 2
    MaxAttempts = 2
    MaxRetries = 1
    MaxFaults = 1
INVARIANTS
    DrainedOnceAtATime
    CopiesCounted
    DoneIsNotified
PROPERTY PendingIsClaimed
CHECK_DEADLOCK FALSE
