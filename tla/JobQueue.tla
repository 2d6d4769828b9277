------------------------------ MODULE JobQueue ------------------------------
(***************************************************************************)
(* The Postgres job table and the two programs that drain it: the app's    *)
(* in-process JobWorker, which claims queued jobs, prepares and finalizes  *)
(* them, and the Go workers, which lease the execute stage by heartbeat.   *)
(* Every SQL statement is one atomic step; everything between two awaits   *)
(* of the app, and between two statements of a Go worker, interleaves.     *)
(*                                                                         *)
(* Jobs are numbered in the order of their createdAt.  The columns a job   *)
(* is created with and that never change are constants; time is abstracted *)
(* to the facts the SQL compares it for: a job is due or not, a heartbeat  *)
(* is fresh or older than the lease.                                       *)
(***************************************************************************)
EXTENDS Integers, FiniteSets

CONSTANTS
    Jobs,              \* the jobs that may be enqueued, a set of numbers
    GoExecuted,        \* the jobs whose type has a module in workerJobs
    Deferrable,        \* the jobs whose prepare may throw a JobDeferredError
    Delayed,           \* the jobs enqueued with a runAt in the future
    Exclusive,         \* the jobs created with exclusive = true
    DedupeKey,         \* DedupeKey[j]: (type, dedupeKey) of j, None without one
    LockKey,           \* LockKey[j]: the lockKey of j, or None
    DependsOn,         \* DependsOn[j]: the dependsOnJobId of j, or None
    MaxAttempts,       \* MaxAttempts[j]: how often j may be tried
    Priority,          \* Priority[j]: jobs of higher priority are claimed first
    MaxConcurrentJobs, \* MAX_CONCURRENT_JOBS of the app's job worker
    Workers,           \* the ids of the Go workers
    Slots,             \* the concurrent executions of one Go worker
    Limit,             \* Limit[f]: how often the event f may happen
    MaxKinds,          \* how many kinds of these events one behaviour mixes
    None

Faults == {"appCrash", "dbError", "cancel", "defer", "prune",
           "workerStop", "expiry"}

ASSUME JobsAssumption ==
    /\ Jobs \subseteq Nat
    /\ GoExecuted \subseteq Jobs /\ Deferrable \subseteq GoExecuted
    /\ Delayed \subseteq Jobs /\ Exclusive \subseteq Jobs
    /\ DependsOn \in [Jobs -> Jobs \cup {None}]
    /\ MaxAttempts \in [Jobs -> Nat \ {0}]
    /\ Priority \in [Jobs -> Int]

ASSUME LimitsAssumption == /\ MaxConcurrentJobs \in Nat \ {0}
                           /\ Limit \in [Faults -> Nat]
                           /\ MaxKinds \in Nat

ASSUME NoneAssumption == None \notin Jobs \cup Workers

VARIABLES
    job,      \* job[j]: the row of job j
    task,     \* task[j]: what the app process is doing for j, see TaskStates
    cascade,  \* cascade[r]: the frontier of a running cancelDependents(r), or {}
    phase,    \* where the app worker's tick is
    live,     \* the ids requeueOrphaned was called with
    exec,     \* exec[w, s]: the execution in slot s of Go worker w
    spent     \* spent[f]: how often f has happened

vars == <<job, task, cascade, phase, live, exec, spent>>

Active == {"queued", "running"}
Terminal == {"succeeded", "failed", "cancelled"}
\* The row was deleted: of a job that had succeeded, or of one that had not.
Gone == {"pruned", "discarded"}
Statuses == Active \cup Terminal \cup Gone \cup {"absent"}
Stages == {"none", "execute", "finalize", "finalizing"}
Outcomes == {"none", "ok", "error"}

(***************************************************************************)
(* The columns of a row that change.  keyed: dedupeKey is still set;       *)
(* worker, fresh: the lease and whether heartbeatAt is younger than 60 s;  *)
(* outcome: executorResult or executorError.                               *)
(***************************************************************************)
Rows == [status : Statuses, stage : Stages, attempts : Nat, due : BOOLEAN,
         keyed : BOOLEAN, worker : Workers \cup {None}, fresh : BOOLEAN,
         outcome : Outcomes]

(***************************************************************************)
(* run: in runJob (prepare or in-process handler).  finalizeOk,            *)
(* finalizeErr: in finalizeJob with what the executor reported, read when  *)
(* the row was claimed.  failing: in cancelDependents after markFailed.    *)
(***************************************************************************)
TaskStates == {"idle", "run", "finalizeOk", "finalizeErr", "failing"}

Phases == {"recover", "supersede", "requeue", "finalize", "pump"}

Execs == Workers \X Slots
Idle == [job |-> None, lost |-> FALSE]

\* The ids in #inFlight: those with a promise that has not settled.
InFlight == {j \in Jobs : task[j] # "idle"}

Running == {j \in Jobs : job[j].status = "running"}

\* The event f happens: bounds of the model, not of the code.
Spend(f) == /\ spent[f] < Limit[f]
            /\ Cardinality({f} \cup {g \in Faults : spent[g] > 0}) <= MaxKinds
            /\ spent' = [spent EXCEPT ![f] = @ + 1]

Init == /\ job = [j \in Jobs |->
                    [status |-> "absent", stage |-> "none", attempts |-> 0,
                     due |-> FALSE, keyed |-> FALSE, worker |-> None,
                     fresh |-> FALSE, outcome |-> "none"]]
        /\ task = [j \in Jobs |-> "idle"]
        /\ cascade = [j \in Jobs |-> {}]
        /\ phase = "recover"
        /\ live = {}
        /\ exec = [e \in Execs |-> Idle]
        /\ spent = [f \in Faults |-> 0]

-----------------------------------------------------------------------------
(* What the statements write to one row r.                                 *)

ClearedStage(r) == [r EXCEPT !.stage = "none", !.worker = None,
                             !.fresh = FALSE, !.outcome = "none"]

Created(j, r) == [r EXCEPT !.status = "queued", !.keyed = TRUE,
                           !.due = j \notin Delayed]

Cancelled(r) == [ClearedStage(r) EXCEPT !.status = "cancelled"]

\* What cancelDependents writes: the stage and the lease stay.
CancelledWithDependency(r) == [r EXCEPT !.status = "cancelled"]

\* What the deleted row said is remembered for the properties only.
Pruned(r) == [r EXCEPT !.status = IF r.status = "succeeded" THEN "pruned"
                                                            ELSE "discarded"]

Due(r) == [r EXCEPT !.due = TRUE]

Claimed(r) == [r EXCEPT !.status = "running", !.attempts = r.attempts + 1]

Requeued(r) == [ClearedStage(r) EXCEPT !.status = "queued"]

\* The attempt is spent.
Retried(r) == [Requeued(r) EXCEPT !.due = FALSE]

\* The attempt is given back and the dedupe key dropped.
Deferred(r) == [Requeued(r) EXCEPT !.due = FALSE, !.keyed = FALSE,
                    !.attempts = IF r.attempts > 0 THEN r.attempts - 1 ELSE 0]

\* Slip: a stage name the schema does not have.
HandedOffMistyped(r) == [ClearedStage(r) EXCEPT !.stage = "executing"]

HandedOff(r) == [ClearedStage(r) EXCEPT !.stage = "execute"]

AtStage(r, stage) == [r EXCEPT !.stage = stage]

Closed(r, status) == [r EXCEPT !.status = status, !.stage = "none"]

Leased(r, w) == [r EXCEPT !.worker = w, !.fresh = TRUE]

Released(r) == [r EXCEPT !.worker = None, !.fresh = FALSE]

Executed(r, o) == [Released(r) EXCEPT !.stage = "finalize", !.outcome = o]

Refreshed(r) == [r EXCEPT !.fresh = TRUE]

Expired(r) == [r EXCEPT !.fresh = FALSE]

\* One row j is written.
Write(j, r) == job' = [job EXCEPT ![j] = r]

\* The two rows collide in the unique index on (type, dedupeKey).
Twins(j, k) == /\ j # k
               /\ DedupeKey[j] # None /\ DedupeKey[j] = DedupeKey[k]
               /\ job[j].keyed /\ job[k].keyed

QueuedTwin(j) == \E k \in Jobs : Twins(j, k) /\ job[k].status = "queued"

-----------------------------------------------------------------------------
(* Requests that reach the app: enqueue, cancel, the weekly prune.         *)

(***************************************************************************)
(* Enqueuing a job whose dedupe key is taken by a queued row changes       *)
(* nothing: the caller gets that row.  A job is enqueued after the job it  *)
(* depends on, whose id it names, in the same request: that row is not     *)
(* pruned yet.                                                             *)
(***************************************************************************)
Enqueue(j) ==
    /\ job[j].status = "absent"
    /\ \A k \in Jobs : k > j => job[k].status = "absent"
    /\ DependsOn[j] # None => job[DependsOn[j]].status \in Active \cup Terminal
    /\ \A k \in Jobs : ~( /\ DedupeKey[j] # None /\ DedupeKey[j] = DedupeKey[k]
                          /\ job[k].keyed /\ job[k].status = "queued" )
    /\ Write(j, Created(j, job[j]))
    /\ UNCHANGED <<task, cascade, phase, live, exec, spent>>

\* Slip: the UPDATE of cancel without its status condition.
CancelAnyStatus(j) ==
    /\ job[j].status # "absent"
    /\ Spend("cancel")
    /\ Write(j, Cancelled(job[j]))
    /\ cascade' = [cascade EXCEPT ![j] = @ \cup {j}]
    /\ UNCHANGED <<task, phase, live, exec>>

\* JobDTO.cancel: the job's own row here, its dependents in CancelDependents.
Cancel(j) ==
    /\ job[j].status \in Active
    /\ Spend("cancel")
    /\ Write(j, Cancelled(job[j]))
    /\ cascade' = [cascade EXCEPT ![j] = @ \cup {j}]
    /\ UNCHANGED <<task, phase, live, exec>>

\* The active jobs that depend on one of the jobs in F.
Dependents(F) == {k \in Jobs : DependsOn[k] \in F /\ job[k].status \in Active}

\* One level of cancelDependents: one UPDATE, then its ids are the frontier.
CancelDependents(r) ==
    /\ cascade[r] # {}
    /\ LET D == Dependents(cascade[r])
       IN  /\ job' = [k \in Jobs |-> IF k \in D
                        THEN CancelledWithDependency(job[k]) ELSE job[k]]
           /\ cascade' = [cascade EXCEPT ![r] = D]
           /\ task' = IF D = {} /\ task[r] = "failing"
                      THEN [task EXCEPT ![r] = "idle"] ELSE task
    /\ UNCHANGED <<phase, live, exec, spent>>

\* A week after it ended; no promise of the app lives that long.
Prune(j) ==
    /\ job[j].status \in Terminal /\ task[j] = "idle"
    /\ Spend("prune")
    /\ Write(j, Pruned(job[j]))
    /\ UNCHANGED <<task, cascade, phase, live, exec>>

BecomeDue(j) ==
    /\ job[j].status = "queued" /\ ~job[j].due
    /\ Write(j, Due(job[j]))
    /\ UNCHANGED <<task, cascade, phase, live, exec, spent>>

-----------------------------------------------------------------------------
(***************************************************************************)
(* The app worker's tick: requeueOrphaned (three statements, on the first  *)
(* tick and every 30 s), then the finalize pass, then the pump.  Ticks do  *)
(* not overlap, so the tick is a single thread of control.                 *)
(***************************************************************************)

\* Slip: requeueOrphaned called without the ids in flight.
RequeueWithoutLive ==
    /\ phase = "recover"
    /\ live' = {}
    /\ job' = [j \in Jobs |->
                 IF job[j].status = "running" /\ job[j].stage = "finalizing"
                 THEN AtStage(job[j], "finalize") ELSE job[j]]
    /\ phase' = "supersede"
    /\ UNCHANGED <<task, cascade, exec, spent>>

RequeueFinalizing ==
    /\ phase = "recover"
    /\ live' = InFlight
    /\ job' = [j \in Jobs |->
                 IF /\ job[j].status = "running"
                    /\ job[j].stage = "finalizing"
                    /\ j \notin InFlight
                 THEN AtStage(job[j], "finalize") ELSE job[j]]
    /\ phase' = "supersede"
    /\ UNCHANGED <<task, cascade, exec, spent>>

\* Running in an app stage with nothing in this process working on it.
InAppStage(j) == job[j].status = "running" /\ job[j].stage = "none"
Orphans == {j \in Jobs \ live : InAppStage(j)}

\* Its dedupe key is taken by a queued job or by a newer running one.
Superseded(j) == \E k \in Jobs : /\ Twins(j, k)
                                 /\ \/ job[k].status = "queued"
                                    \/ InAppStage(k) /\ k > j

SupersedeOrphans ==
    /\ phase = "supersede"
    /\ job' = [j \in Jobs |->
                 IF j \in Orphans /\ Superseded(j)
                 THEN Cancelled(job[j]) ELSE job[j]]
    /\ phase' = "requeue"
    /\ UNCHANGED <<task, cascade, live, exec, spent>>

\* The UPDATE would put two twins in the queue, so Postgres refuses it.
RequeueCollides == \E j \in Orphans :
                      \/ QueuedTwin(j)
                      \/ \E k \in Orphans : Twins(j, k)

RequeueOrphans ==
    /\ phase = "requeue" /\ ~RequeueCollides
    /\ job' = [j \in Jobs |-> IF j \in Orphans THEN Requeued(job[j]) ELSE job[j]]
    /\ phase' = "finalize"
    /\ live' = {}
    /\ UNCHANGED <<task, cascade, exec, spent>>

\* The tick throws and the check is made again on the next one.
RequeueRefused ==
    /\ phase = "requeue" /\ RequeueCollides
    /\ phase' = "recover"
    /\ live' = {}
    /\ UNCHANGED <<job, task, cascade, exec, spent>>

ToFinalize == {j \in Running : job[j].stage = "finalize"}

ClaimFinalize(j) ==
    /\ phase = "finalize"
    /\ j \in ToFinalize
    /\ \A k \in ToFinalize : \/ Priority[k] < Priority[j]
                             \/ Priority[k] = Priority[j] /\ j <= k
    /\ Write(j, AtStage(job[j], "finalizing"))
    /\ task' = [task EXCEPT ![j] = IF job[j].outcome = "ok" THEN "finalizeOk"
                                                            ELSE "finalizeErr"]
    /\ UNCHANGED <<cascade, phase, live, exec, spent>>

NothingToFinalize ==
    /\ phase = "finalize" /\ ToFinalize = {}
    /\ phase' = "pump"
    /\ UNCHANGED <<job, task, cascade, live, exec, spent>>

\* Slip: any ended dependency will do.
DependencyEnded(j) ==
    DependsOn[j] # None => job[DependsOn[j]].status \notin Active

\* No row says that the dependency has not succeeded: a deleted row says nothing.
DependencySatisfied(j) ==
    DependsOn[j] # None => job[DependsOn[j]].status \in {"succeeded"} \cup Gone

\* Slip: a job handed off to a Go worker no longer holds its lock.
LockFreeInApp(j) ==
    LockKey[j] # None => \A k \in Running : InAppStage(k) => LockKey[k] # LockKey[j]

LockFree(j) ==
    LockKey[j] # None => \A k \in Running : LockKey[k] # LockKey[j]

\* Slip: an exclusive job waits for exclusive jobs only.
ExclusivityOneSided(j) == \A k \in Running : k \notin Exclusive

ExclusivityRespected(j) ==
    \A k \in Running : k \notin Exclusive /\ j \notin Exclusive

\* Slip: a due exclusive job holds itself back.
BarrierForAll(j) ==
    \A k \in Exclusive : ~(job[k].status = "queued" /\ job[k].due)

NoExclusiveBarrierAhead(j) ==
    j \notin Exclusive =>
        \A k \in Exclusive : ~(job[k].status = "queued" /\ job[k].due)

Claimable(j) == /\ job[j].status = "queued"
                /\ job[j].due
                /\ DependencySatisfied(j)
                /\ LockFree(j)
                /\ ExclusivityRespected(j)
                /\ NoExclusiveBarrierAhead(j)

HasCapacity == Cardinality(InFlight) < MaxConcurrentJobs

\* Ties in priority go by runAt, which the model leaves open.
ClaimNext(j) ==
    /\ phase = "pump" /\ HasCapacity
    /\ Claimable(j)
    /\ \A k \in Jobs : Claimable(k) => Priority[k] <= Priority[j]
    /\ Write(j, Claimed(job[j]))
    /\ task' = [task EXCEPT ![j] = "run"]
    /\ UNCHANGED <<cascade, phase, live, exec, spent>>

\* The pump stops at capacity or with nothing claimable; the next tick does
\* or does not find ORPHAN_CHECK_EVERY_MS elapsed.
PumpDone(next) ==
    /\ phase = "pump"
    /\ ~HasCapacity \/ \A j \in Jobs : ~Claimable(j)
    /\ phase' = next
    /\ UNCHANGED <<job, task, cascade, live, exec, spent>>

-----------------------------------------------------------------------------
(***************************************************************************)
(* The promises the tick started.  Each ends with an UPDATE by id, with no *)
(* condition on the status the row has by then.                            *)
(***************************************************************************)

Settle(j) == task' = [task EXCEPT ![j] = "idle"]

\* prepare returned: the row becomes leasable, still running.
HandOff(j) ==
    /\ task[j] = "run" /\ j \in GoExecuted
    /\ Write(j, HandedOff(job[j]))
    /\ Settle(j)
    /\ UNCHANGED <<cascade, phase, live, exec, spent>>

\* The in-process handler, or finalize with a good outcome, returned.
MarkSucceeded(j) ==
    /\ \/ task[j] = "run" /\ j \notin GoExecuted
       \/ task[j] = "finalizeOk"
    /\ Write(j, Closed(job[j], "succeeded"))
    /\ Settle(j)
    /\ UNCHANGED <<cascade, phase, live, exec, spent>>

\* prepare threw a JobDeferredError: back in the queue without its dedupe key.
Defer(j) ==
    /\ task[j] = "run" /\ j \in Deferrable
    /\ Spend("defer")
    /\ Write(j, Deferred(job[j]))
    /\ Settle(j)
    /\ UNCHANGED <<cascade, phase, live, exec>>

\* prepare, the handler or finalize threw; finalize always does on an
\* executor error.
Throws(j) == task[j] \in {"run", "finalizeOk", "finalizeErr"}

\* Slip: off by one.
AttemptsLeftInclusive(j) == job[j].attempts <= MaxAttempts[j]

AttemptsLeft(j) == job[j].attempts < MaxAttempts[j]

ScheduleRetry(j) ==
    /\ Throws(j) /\ AttemptsLeft(j)
    /\ ~QueuedTwin(j)
    /\ Write(j, Retried(job[j]))
    /\ Settle(j)
    /\ UNCHANGED <<cascade, phase, live, exec, spent>>

\* The retry would put a second twin in the queue: the UPDATE throws, the
\* error is only logged ("Job bookkeeping failed") and the row stays.
RetryCollides(j) ==
    /\ Throws(j) /\ AttemptsLeft(j)
    /\ QueuedTwin(j)
    /\ Settle(j)
    /\ UNCHANGED <<job, cascade, phase, live, exec, spent>>

MarkFailed(j) ==
    /\ Throws(j) /\ ~AttemptsLeft(j)
    /\ Write(j, Closed(job[j], "failed"))
    /\ task' = [task EXCEPT ![j] = "failing"]
    /\ cascade' = [cascade EXCEPT ![j] = @ \cup {j}]
    /\ UNCHANGED <<phase, live, exec, spent>>

-----------------------------------------------------------------------------
(* Faults of the app.                                                      *)

\* A statement of j's own bookkeeping throws (Postgres is unreachable).
BookkeepingFails(j) ==
    /\ task[j] # "idle"
    /\ Spend("dbError")
    /\ cascade' = IF task[j] = "failing"
                  THEN [cascade EXCEPT ![j] = {}] ELSE cascade
    /\ Settle(j)
    /\ UNCHANGED <<job, phase, live, exec>>

\* A statement of the tick throws: the rest of the tick is skipped, and the
\* orphan check is due again if it had not finished.
TickFails(next) ==
    /\ next = "recover" \/ phase \in {"finalize", "pump"}
    /\ Spend("dbError")
    /\ phase' = next
    /\ live' = {}
    /\ UNCHANGED <<job, task, cascade, exec>>

\* The process dies at any point and a new one starts with its first tick.
AppCrash ==
    /\ Spend("appCrash")
    /\ task' = [j \in Jobs |-> "idle"]
    /\ cascade' = [j \in Jobs |-> {}]
    /\ phase' = "recover"
    /\ live' = {}
    /\ UNCHANGED <<job, exec>>

-----------------------------------------------------------------------------
(* The Go workers.                                                         *)

\* Slip: the claim looks at the stage and not at the lease.
LeasableLeased == {j \in Running : job[j].stage = "execute"}

Leasable == {j \in Running : /\ job[j].stage = "execute"
                             /\ job[j].worker = None \/ ~job[j].fresh}

Lease(e, j) ==
    /\ exec[e] = Idle
    /\ j \in Leasable
    /\ \A k \in Leasable : \/ Priority[k] < Priority[j]
                           \/ Priority[k] = Priority[j] /\ j <= k
    /\ Write(j, Leased(job[j], e[1]))
    /\ exec' = [exec EXCEPT ![e] = [job |-> j, lost |-> FALSE]]
    /\ UNCHANGED <<task, cascade, phase, live, spent>>

\* Slot e runs job j and has not noticed a lost lease.
Executing(e, j) == exec[e].job = j /\ ~exec[e].lost

\* Slip: an UPDATE that matches the job's id and status alone.
OursById(e, j) == job[j].status = "running" /\ exec[e].job = j

\* The WHERE of Heartbeat and Finish: the row is e's worker's to write.
Ours(e, j) == /\ job[j].status = "running"
              /\ job[j].stage = "execute"
              /\ job[j].worker = e[1]

Heartbeat(e, j) ==
    /\ Executing(e, j) /\ Ours(e, j)
    /\ Write(j, Refreshed(job[j]))
    /\ UNCHANGED <<task, cascade, phase, live, exec, spent>>

\* The heartbeat matched no row: cancel the execution, keep its slot until
\* the executor returns.
LoseLease(e, j) ==
    /\ Executing(e, j) /\ ~Ours(e, j)
    /\ exec' = [exec EXCEPT ![e] = [job |-> j, lost |-> TRUE]]
    /\ UNCHANGED <<job, task, cascade, phase, live, spent>>

DropResult(e) ==
    /\ exec[e].lost
    /\ exec' = [exec EXCEPT ![e] = Idle]
    /\ UNCHANGED <<job, task, cascade, phase, live, spent>>

\* The executor returned (o: a result, or an error, a stall or a panic).
Finish(e, j, o) ==
    /\ Executing(e, j)
    /\ Write(j, IF Ours(e, j) THEN Executed(job[j], o) ELSE job[j])
    /\ exec' = [exec EXCEPT ![e] = Idle]
    /\ UNCHANGED <<task, cascade, phase, live, spent>>

\* Recording the outcome failed: the lease is left to expire.
FinishUnrecorded(e, j) ==
    /\ Executing(e, j)
    /\ Spend("dbError")
    /\ exec' = [exec EXCEPT ![e] = Idle]
    /\ UNCHANGED <<job, task, cascade, phase, live>>

\* SIGTERM: an execution that outlives the grace is cancelled and released.
Release(e, j) ==
    /\ Executing(e, j)
    /\ Spend("workerStop")
    /\ Write(j, IF job[j].worker = e[1] THEN Released(job[j]) ELSE job[j])
    /\ exec' = [exec EXCEPT ![e] = Idle]
    /\ UNCHANGED <<task, cascade, phase, live>>

\* The process dies; one with the same id may start later.
WorkerCrash(w) ==
    /\ Spend("workerStop")
    /\ exec' = [e \in Execs |-> IF e[1] = w THEN Idle ELSE exec[e]]
    /\ UNCHANGED <<job, task, cascade, phase, live>>

Attended(j) == \E s \in Slots : Executing(<<job[j].worker, s>>, j)

\* Nobody heartbeats for a dead execution: a minute later its lease is over.
LeaseExpires(j) ==
    /\ job[j].fresh /\ ~Attended(j)
    /\ Write(j, Expired(job[j]))
    /\ UNCHANGED <<task, cascade, phase, live, exec, spent>>

\* No heartbeat for a minute while the execution goes on: Postgres was
\* unreachable, the process paused, or the watchdog ended the heartbeat loop
\* of an executor that does not return.
HeartbeatsFail(j) ==
    /\ job[j].fresh /\ Attended(j)
    /\ Spend("expiry")
    /\ Write(j, Expired(job[j]))
    /\ UNCHANGED <<task, cascade, phase, live, exec>>

-----------------------------------------------------------------------------
Request == \E j \in Jobs : Enqueue(j) \/ Cancel(j) \/ Prune(j)

Tick == \/ RequeueFinalizing \/ SupersedeOrphans
        \/ RequeueOrphans \/ RequeueRefused
        \/ (\E j \in Jobs : ClaimFinalize(j)) \/ NothingToFinalize
        \/ (\E j \in Jobs : ClaimNext(j))
        \/ PumpDone("recover") \/ PumpDone("finalize")

TaskStep(j) == \/ HandOff(j) \/ MarkSucceeded(j) \/ Defer(j)
               \/ ScheduleRetry(j) \/ RetryCollides(j) \/ MarkFailed(j)

ExecStep(e) == \E j \in Jobs : \/ Lease(e, j)
                               \/ Heartbeat(e, j)
                               \/ LoseLease(e, j)
                               \/ \E o \in {"ok", "error"} : Finish(e, j, o)

Fault == \/ AppCrash
         \/ \E j \in Jobs : BookkeepingFails(j) \/ HeartbeatsFail(j)
         \/ TickFails("recover") \/ TickFails("finalize")
         \/ \E w \in Workers : WorkerCrash(w)
         \/ \E e \in Execs, j \in Jobs : FinishUnrecorded(e, j) \/ Release(e, j)

Next == \/ Request
        \/ Tick
        \/ \E j \in Jobs : \/ TaskStep(j) \/ CancelDependents(j)
                           \/ BecomeDue(j) \/ LeaseExpires(j)
        \/ \E e \in Execs : ExecStep(e) \/ DropResult(e)
        \/ Fault

Spec == Init /\ [][Next]_vars

(***************************************************************************)
(* The fairness the programs provide: the interval of the app worker keeps *)
(* firing and 30 s keep passing, every promise it started settles, the Go  *)
(* workers keep polling, and an executor returns (the no-progress watchdog *)
(* stops one that hangs), cancelled or not.                                *)
(***************************************************************************)
Fairness ==
    /\ WF_vars(Tick)
    /\ SF_vars(PumpDone("recover"))
    /\ \A j \in Jobs : /\ WF_vars(TaskStep(j))
                       /\ WF_vars(CancelDependents(j))
                       /\ WF_vars(BecomeDue(j))
                       /\ WF_vars(LeaseExpires(j))
    /\ WF_vars(\E e \in Execs, j \in Jobs : Lease(e, j))
    /\ \A e \in Execs : WF_vars(\E j \in Jobs, o \in {"ok", "error"} : Finish(e, j, o))
    /\ \A e \in Execs : WF_vars(DropResult(e))

FairSpec == Spec /\ Fairness

-----------------------------------------------------------------------------
(* Properties.                                                             *)

\* Every variable keeps its type: what the job rows, the in-flight map, the
\* sweep and the Go execution slots may hold.
TypeOK == /\ job \in [Jobs -> Rows]
          /\ task \in [Jobs -> TaskStates]
          /\ cascade \in [Jobs -> SUBSET Jobs]
          /\ phase \in Phases
          /\ live \subseteq Jobs
          /\ exec \in [Execs -> [job : Jobs \cup {None}, lost : BOOLEAN]]
          /\ spent \in [Faults -> Nat]

(***************************************************************************)
(* While a promise of the app worker is working on a job, its row is the   *)
(* one the promise was started for: nobody requeues it, leases it to a Go  *)
(* worker or ends it, except a cancel.  This is what makes the writes by   *)
(* id of handOff, markSucceeded, markFailed and scheduleRetry safe, and    *)
(* what the orphan sweep's live set and the non-overlapping ticks are for. *)
(***************************************************************************)
TaskOwnsRow ==
    \A j \in Jobs :
        /\ task[j] = "run" =>
              \/ job[j].status = "running" /\ job[j].stage = "none"
              \/ job[j].status = "cancelled"
        /\ task[j] \in {"finalizeOk", "finalizeErr"} =>
              \/ job[j].status = "running" /\ job[j].stage = "finalizing"
              \/ job[j].status = "cancelled"

(***************************************************************************)
(* Why TaskOwnsRow holds.  The sweep's live set, read when requeueOrphaned *)
(* is called, still covers every promise when its later statements run,    *)
(* because only the finalize pass and the pump of the same tick start new  *)
(* ones; a promise in cancelDependents has marked its own job failed; and  *)
(* a job that waits in the queue carries no stage of an earlier attempt.   *)
(***************************************************************************)
LiveCoversInFlight == phase \in {"supersede", "requeue"} => InFlight \subseteq live

FailingIsFailed == \A j \in Jobs : task[j] = "failing" => job[j].status = "failed"

QueuedHasNoStage ==
    \A j \in Jobs : job[j].status \in {"absent", "queued"} => job[j].stage = "none"

Ownership == /\ TypeOK
             /\ TaskOwnsRow
             /\ LiveCoversInFlight
             /\ FailingIsFailed
             /\ QueuedHasNoStage

(***************************************************************************)
(* While a job runs, the job it depends on has succeeded and no retry,     *)
(* requeue or late write has taken that back, with one exception: a        *)
(* dependency that failed or was cancelled, and whose row was pruned since *)
(* (see DependencySucceeded for the property without the exception).       *)
(***************************************************************************)
RunsAfterDependency ==
    \A j \in Running : DependsOn[j] # None =>
        \/ job[DependsOn[j]].status \in {"succeeded", "pruned"}
        \/ job[DependsOn[j]].status = "discarded"

(***************************************************************************)
(* attempts exceeds maxAttempts by at most one for every crash of the app  *)
(* or lost database write, the only events after which the sweep runs a    *)
(* job again without asking how often it was tried: a job allowed one      *)
(* attempt is not retried otherwise.                                       *)
(***************************************************************************)
Interruptions == spent["appCrash"] + spent["dbError"]

AttemptsBounded ==
    \A j \in Jobs : job[j].attempts <= MaxAttempts[j] + Interruptions

\* Why: a job that may still be claimed, now or after the sweep, has an
\* attempt to spare.
MayBeClaimed(j) == \/ job[j].status \in {"absent", "queued"}
                   \/ InAppStage(j) /\ task[j] = "idle"

AttemptToSpare ==
    \A j \in Jobs :
        MayBeClaimed(j) => job[j].attempts < MaxAttempts[j] + Interruptions

(***************************************************************************)
(* As long as no execution's heartbeats failed for a whole lease, a job    *)
(* never executes twice at the same time, whatever worker crashes,         *)
(* shutdowns, lost outcomes, cancels and retries happen.                   *)
(***************************************************************************)
OneExecutionPerJob ==
    spent["expiry"] = 0 =>
        \A d, e \in Execs : exec[d].job # None /\ exec[d].job = exec[e].job => d = e

(***************************************************************************)
(* Why: until then an execution holds the lease of its job, which nobody   *)
(* else can take, or the job was cancelled, and with no promise of the app *)
(* working on a cancelled job it stays cancelled.                          *)
(***************************************************************************)
HoldsLease(e, j) == /\ job[j].status = "running"
                    /\ job[j].stage = "execute"
                    /\ job[j].worker = e[1] /\ job[j].fresh
                    /\ ~exec[e].lost

ExecutionsHoldLeases ==
    \A e \in Execs, j \in Jobs : exec[e].job = j =>
        /\ task[j] = "idle"
        /\ HoldsLease(e, j) \/ job[j].status \in {"cancelled", "discarded"}

LeasesHeld ==
    spent["expiry"] = 0 => ExecutionsHoldLeases /\ OneExecutionPerJob

(***************************************************************************)
(* Once an execution's outcome is recorded it is the one finalize sees: a  *)
(* late Finish of a superseded execution never replaces it.                *)
(***************************************************************************)
Reported(j) == job[j].status = "running" /\ job[j].stage \in {"finalize", "finalizing"}

OutcomeRecordedOnce ==
    [][\A j \in Jobs : Reported(j) /\ Reported(j)' => job'[j].outcome = job[j].outcome]_vars

(***************************************************************************)
(* A job that succeeded or failed never changes its status again, until    *)
(* its row is pruned: no stale promise, execution, sweep or cancel touches *)
(* a finished job.                                                         *)
(***************************************************************************)
FinishedIsFinal ==
    [][\A j \in Jobs : job[j].status \in {"succeeded", "failed"} =>
          job'[j].status \in {job[j].status, Pruned(job[j]).status}]_vars

(***************************************************************************)
(* The rows that are running implement the abstract lock service: claims,  *)
(* sweeps, retries and cancels together never let two conflicting jobs     *)
(* (same lockKey, or one exclusive) run at the same time.                  *)
(***************************************************************************)
Locks == INSTANCE RunLocks WITH held <- Running

LocksSpec == Locks!Spec

NoConflictingJobs == Locks!NoConflict

(***************************************************************************)
(* Every job that is queued is eventually done with, through any number of *)
(* retries, deferrals, crashes and expired leases the limits allow, or it *)
(* waits for a job that did not succeed.                                   *)
(***************************************************************************)
Ended(j) == job[j].status \in Terminal \cup Gone

Stranded(j) == /\ DependsOn[j] # None
               /\ job[DependsOn[j]].status \in {"failed", "cancelled"}

EveryJobEnds ==
    \A j \in Jobs : job[j].status = "queued" ~> Ended(j) \/ Stranded(j)

(***************************************************************************)
(* A finalize that throws puts the job back in the queue or fails it: its  *)
(* row does not stay running.                                              *)
(***************************************************************************)
FinalizeSettles ==
    \A j \in Jobs : task[j] = "finalizeErr" ~> job[j].status # "running"

(***************************************************************************)
(* A cancelled job is never queued again: cancelling the row is the whole  *)
(* mechanism, for every stage the job can be in.                           *)
(***************************************************************************)
CancelIsFinal ==
    [][\A j \in Jobs : job[j].status = "cancelled" => job'[j].status # "queued"]_vars

(***************************************************************************)
(* A job runs only once its dependency has succeeded; when that dependency *)
(* fails, cancelDependents cancels the job and leaves nothing behind that  *)
(* could be claimed when the failed row is gone.                           *)
(***************************************************************************)
DependencySucceeded ==
    \A j \in Running : DependsOn[j] # None =>
        job[DependsOn[j]].status \in {"succeeded", "pruned"}

(***************************************************************************)
(* Two jobs that share a lock key are never executed at the same time.     *)
(***************************************************************************)
OneExecutionPerLock ==
    \A d, e \in Execs :
        LET j == exec[d].job
            k == exec[e].job
        IN  j # None /\ k # None /\ j # k => LockKey[j] = None \/ LockKey[j] # LockKey[k]
=============================================================================
