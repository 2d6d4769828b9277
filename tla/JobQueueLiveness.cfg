\* An in-process retry, a deploy and an exclusive cleanup all end.
SPECIFICATION FairSpec
CONSTANTS
    Jobs = {1, 2, 3}
    GoExecuted = {2, 3}
    Deferrable = {2}
    Delayed = {1}
    Exclusive = {3}
    DedupeKey <- MixedKeys
    LockKey <- MixedLocks
    DependsOn <- NoneEach
    MaxAttempts <- MixedAttempts
    Priority <- CleanupFirst
    MaxConcurrentJobs = 1
    Workers = {w1}
    Slots = {s1}
    Limit <- EachOnce
    MaxKinds = 1
    None = None
PROPERTIES EveryJobEnds
