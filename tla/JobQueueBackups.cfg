\* Two backups of one volume with retries and an exclusive cleanup, faults included.
SPECIFICATION Spec
CONSTANTS
    Jobs = {1, 2, 3}
    GoExecuted = {1, 2, 3}
    Deferrable = {}
    Delayed = {}
    Exclusive = {3}
    DedupeKey <- BackupKeys
    LockKey <- BackupLocks
    DependsOn <- NoneEach
    MaxAttempts <- BackupAttempts
    Priority <- CleanupFirst
    MaxConcurrentJobs = 3
    Workers = {w1, w2}
    Slots = {s1}
    Limit <- EachOnce
    MaxKinds = 1
    None = None
INVARIANTS TaskOwnsRow AttemptsBounded
PROPERTIES LocksSpec
SYMMETRY WorkerSymmetry
