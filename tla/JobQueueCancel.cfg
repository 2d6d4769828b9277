\* A deploy cancelled while its prepare is about to defer it.
SPECIFICATION Spec
CONSTANTS
    Jobs = {1}
    GoExecuted = {1}
    Deferrable = {1}
    Delayed = {}
    Exclusive = {}
    DedupeKey <- SameKey
    LockKey <- SameKey
    DependsOn <- NoneEach
    MaxAttempts <- OneAttempt
    Priority <- SamePriority
    MaxConcurrentJobs = 3
    Workers = {w1}
    Slots = {s1}
    Limit <- EachOnce
    MaxKinds = 2
    None = None
PROPERTY CancelIsFinal
