\* A failed backup whose retry collides with a newer queued backup.
SPECIFICATION FairSpec
CONSTANTS
    Jobs = {1, 2}
    GoExecuted = {1, 2}
    Deferrable = {}
    Delayed = {}
    Exclusive = {}
    DedupeKey <- SameKey
    LockKey <- SameKey
    DependsOn <- NoneEach
    MaxAttempts <- TwoAttempts
    Priority <- SamePriority
    MaxConcurrentJobs = 3
    Workers = {w1}
    Slots = {s1}
    Limit <- Never
    MaxKinds = 2
    None = None
PROPERTY FinalizeSettles
