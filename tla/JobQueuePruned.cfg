\* The next deploy of a stack, a week after the previous one failed.
SPECIFICATION Spec
CONSTANTS
    Jobs = {1, 2}
    GoExecuted = {1, 2}
    Deferrable = {}
    Delayed = {}
    Exclusive = {}
    DedupeKey <- OwnKey
    LockKey <- OwnKey
    DependsOn <- Chain
    MaxAttempts <- OneAttempt
    Priority <- SamePriority
    MaxConcurrentJobs = 3
    Workers = {w1}
    Slots = {s1}
    Limit <- OnePrune
    MaxKinds = 2
    None = None
INVARIANT DependencySucceeded
