\* Two deploys of one service and a stack's next deploy, faults included.
SPECIFICATION Spec
CONSTANTS
    Jobs = {1, 2, 3}
    GoExecuted = {1, 2, 3}
    Deferrable = {1, 2, 3}
    Delayed = {}
    Exclusive = {}
    DedupeKey <- DeployKeys
    LockKey <- DeployKeys
    DependsOn <- DeployDeps
    MaxAttempts <- OneAttempt
    Priority <- SamePriority
    MaxConcurrentJobs = 3
    Workers = {w1, w2}
    Slots = {s1}
    Limit <- EachOnce
    MaxKinds = 2
    None = None
INVARIANTS TypeOK TaskOwnsRow RunsAfterDependency AttemptsBounded OneExecutionPerJob
PROPERTIES OutcomeRecordedOnce FinishedIsFinal LocksSpec
SYMMETRY WorkerSymmetry
