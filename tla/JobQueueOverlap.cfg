\* A restore that starts while the cancelled backup of its volume still runs.
SPECIFICATION Spec
CONSTANTS
    Jobs = {1, 2}
    GoExecuted = {1, 2}
    Deferrable = {}
    Delayed = {}
    Exclusive = {}
    DedupeKey <- OwnKey
    LockKey <- SameKey
    DependsOn <- NoneEach
    MaxAttempts <- OneAttempt
    Priority <- SamePriority
    MaxConcurrentJobs = 3
    Workers = {w1, w2}
    Slots = {s1}
    Limit <- EachOnce
    MaxKinds = 1
    None = None
INVARIANT OneExecutionPerLock
