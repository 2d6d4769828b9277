# Homerun: TLA+ models of the queue and what runs on it

Homerun is a self-hosted deployment platform: a SvelteKit app (`src/src`), a
Go worker (`src/internal`), one Postgres database and Docker hosts. Everything
that takes time (a deploy, a backup, a restore, a prune, an image scan, a user's
cron job, a notification) is a row of the `job` table. The queue around that
table is where most of the program's concurrency lives. This project models the
queue, what a deploy does before, in and after it (the gates, the rollout of the
container, the health watch and the automatic rollback), and two components with
races of their own: the Terraform state backend and scale to zero.

## Inventory

| Component | State | Operations | Hard behaviours |
|---|---|---|---|
| Job table (`job-dto.ts`) | rows: status, stage, attempts, runAt, dedupeKey, lockKey, dependsOnJobId, exclusive, lease, outcome | create, claimNext, requeueOrphaned, claimFinalize, cancel, cancelDependents, prune, handOff, markSucceeded, markFailed, scheduleRetry, defer | writes by id with no condition on the status; three statements without a transaction; a partial unique index |
| QueueService | none | enqueue (coalescing), wait | enqueue races a claim |
| JobWorker (`queue/worker.ts`, `base-scheduler.ts`) | `#inFlight`, time of the next orphan check, hold flag | tick = sweep, finalize pass, pump; one promise per claimed job | promises interleave with ticks, cancels and each other; crash at any point |
| Go worker (`internal/worker`) | slots, heartbeat loops, leases | Claim, Heartbeat, Finish, Release, watchdog, shutdown | lease expiry, lost lease, late results, crash |
| Build slots and status-check gate | `buildHostId`, `deferredFor`, `deferredSince` of jobs, the pinned commit | check the commit, reserve a server, defer, time out | rows that keep a server from an earlier attempt; pushes and settings that change during the wait |
| Deploy service | deployment rows, the service row | enqueueDeploy, prepare, finalize, cancel | three writes without a transaction; cancel racing prepare; a restart between any two |
| Deploy executor (Go) | containers of the service | blue-green or stop-first rollout, readiness gate, discard, retry | overlapping executions, failed Docker calls, containers left behind |
| Revision health | one watch in memory per live revision, `health` of its row | watch, settle, roll back, resume | a newer deploy, a stop or a restart during the window |
| Infrastructure state | lock row, version rows, objects in a bucket | lock, write, unlock, force, rollback | check then act without the lock; requests sent twice |
| Scale to zero | `desiredState`, `sleepingSince`, `#waking` | sleep, wake | sleep and wake racing a start or stop by hand |
| Schedulers, cron expressions | next run per schedule | due check, enqueue, advance | crash between enqueue and advance |
| Self-update, janitor | hold flag, trial | hold, preflight, sweep | check-then-act on stale reads |
| Agent, worker API, log shipping, uptime, notifications, workstations, previews, webhooks, DNS, auth, registry, installer, CLI, UI | mostly rows and Docker objects | I/O | outside the core |

How they interact: callers (routes, webhooks, schedulers) call
`QueueService.enqueue`. The JobWorker claims a queued row. For the types in
`workerJobs` it runs `prepare`, writes the spec and moves the row to stage
`execute` (`handOff`); a Go worker leases the row, heartbeats while it executes,
and writes the outcome with stage `finalize`; the JobWorker claims that
(`finalizing`), runs `finalize` and closes the row. Other types run in the app
from claim to close. App and Go workers share nothing but the table.

A deploy is a deployment row and a job. Its prepare passes two gates, each of
which may put the job back in the queue (`BuildGates`); the Go worker replaces the
container (`Rollout`); its finalize records the revision and arms a health watch,
which may enqueue a rollback, a deploy again (`Revisions`).

What makes it correct: a row that a promise of the app works on is touched by nobody
else except a cancel; a finished job stays finished; a job starts after its
dependency succeeded (a pruned failure aside); conflicting jobs never run together;
a job is tried no more often than allowed, crashes aside; one job has one execution,
expired leases aside, and one outcome; and every job ends. A deploy builds only what
its checks passed, within the server's slots, and is decided in time; it keeps a
container serving; one revision is live, and an unhealthy one is rolled back once,
to another image. A Terraform run keeps its lock and loses no apply.

## Modules

* `RunLocks`: the abstract promise about concurrency. One variable, the set of
  running jobs; a job may start only beside jobs it does not conflict with (same
  lock key, or either exclusive), any set of jobs may stop.
* `JobQueue`: the queue. `job` is the table, `task` what each promise of the app
  is doing (`idle` is "not in `#inFlight`"), `cascade` the frontiers of running
  `cancelDependents` loops, `phase` and `live` the tick and the argument of
  `requeueOrphaned`, `exec` the slots of the Go workers, `spent` the counters that
  bound the faults. One row operator per SQL statement (`Claimed`, `HandedOff`,
  `Deferred`, ...), one action per statement or return: every action is atomic
  because the statement is, and anything may happen between two of them.
  The properties are at the end of the module.
* `MCJobQueue` and the `JobQueue*.cfg` files: the job mixes that are checked.
* `JobQueueProofs`, `BuildGatesProofs`, `IacStateProofs`, `RolloutProofs`,
  `RevisionsProofs`: the theorems about these components.
* `BuildGates`: `gateStatusChecks` and `reserveBuildServer`. `job` has the columns
  the gates read, `task` where `runJob` is, `plan` the commit and server that were
  let through, `required` and `choice` the service's settings, `head` and `checks`
  the branch and its provider.
* `Revisions`: the deployments of one service. `dep` and `job` are their rows,
  `pc` the request or promise at work on each, `watch` the health watches,
  `svc` the service row. One action per await that reads or writes rows.
* `Rollout`: `startContainer` of the Go executor. `cont` are the containers, `run`
  the executions; one action per Docker call.
* `IacState`: the Terraform HTTP backend. `lock`, `versions` and `bucket` are
  stored, `run` the Terraform runs, `req` the handlers; one action per await.
* `ScaleToZero`: `svc` and `up` are the row and the container; `tick`, `wake`,
  `user` and `sync` the four callers.
* `MCRevisions`, `MCRollout`, `MCBuildGates`, `MCIacState`: the constants of
  their runs.

`BuildGates` and `Revisions` each keep of the queue what `JobQueue` shows of it
(a running row belongs to one promise; one running job per lock key, `LocksSpec`),
and `Revisions` takes the outcome of `Rollout` as a choice: the modules are
composed by these promises, since their product is out of TLC's reach.

The definitions marked "Slip" are wrong variants of the definition that follows
them. No specification uses them; each breaks a property when put in its place.

### Correspondence and abstractions

* Jobs are numbers in the order of `createdAt`. The columns fixed at creation
  (keys, dependency, attempts, priority, exclusive) are constants. Payload, spec,
  log, result and title are left out. Stage `prepare` is never written by the code
  and is not distinguished from no stage.
* Time is what the SQL compares it for. `due` is `runAt <= now`; `fresh` is a
  heartbeat younger than 60 s. `BecomeDue`, `LeaseExpires` and `HeartbeatsFail`
  are the clock. `claimNext` breaks ties of priority by `runAt`; the model leaves
  that choice open. A row that `skip locked` skips is claimed by a later claim.
* Ticks do not overlap (`BaseScheduler.#run`), so the tick is one thread of
  control with a program counter, `phase`. It goes on to the sweep only when 30 s
  have passed: `PumpDone("recover")` or `PumpDone("finalize")`.
* A promise's last write and its removal from `#inFlight` are one step. In the
  code the removal follows when the reply to the write is handled; until then a
  sweep sees the id as live and leaves the row alone. That a job is handed off,
  executed and claimed for finalize before that reply is handled is left out.
* A statement that reports an error was not applied. A commit whose
  acknowledgement is lost is not modelled (see the hazard at `worker.ts:116`).
* `BookkeepingFails` is an error in the catch block of a promise ("Job bookkeeping
  failed"): the row stays as it is. An error of an earlier statement of a promise
  is caught and takes the path of a failed job, which `Throws` allows at any time.
* `TickFails` and `RequeueRefused` are a tick that throws. An orphan check that
  did not finish is due again.
* `Prune` happens a week after the end of a job; no promise lives that long. It
  deletes the row; the model remembers whether the job had succeeded (`pruned`) or
  not (`discarded`). Only the properties tell the two apart: `DependencySatisfied`
  accepts both, as the query does, which looks for a row that has not succeeded. A
  job is enqueued in the request that enqueued its dependency, before that row can
  be pruned.
* `Cancel` stands for `cancel` and `cancelForDeployment`, which make the same
  update. The deployments that `closeCancelledDeploys` closes are not modelled.
* `Release` is the shutdown of one execution after the grace; an execution that
  returns within the grace is `Finish`. A stalled or panicking executor is
  `Finish` with an error.
* `hold`/`release` of the worker and the stall warnings are left out.

`BuildGates`. Time is counted in polls: `waited` is the number of polls since
`deferredSince`, and a poll may be late (`BecomeDue`). The jobs belong to distinct
services, so that only the gates hold them back. A round of the provider gives the
state of all required checks together. `admitted` jobs are counted by the server
they really build on, not by the column.

`Revisions`. Deployments are numbered by `createdAt`; images stand for what
`revisionImageKey` compares. The code looks for the target of a rollback among the
rows of `listRevisions`, the 50 newest, and follows the chain of redeploys only as
long as it stays there (`Listed`, `Chain`, `RevisionRoot`); a user's choice is
followed row by row up to `MAX_ROOT_DEPTH` (`Root`). The chain is the smallest set
closed under `rollbackOfDeploymentId`, and its end the oldest of it. The executor
records the image id after an inspection whose failure it ignores; a redeploy may
then have another key than its target (the fault `inspect` in `Execute`). What
health samples say is a choice, made only while the revision is current. `cause` is
kept by the model only. The rows' `currentStatus`, the promotion of a deployment,
the deletion of a service and the swarm path are left out. In finalize,
`recordSuccess`'s three writes are three steps; in its failure path the two writes
are one.

`Rollout`. A container is `up` when `ReadinessVerdict` calls it ready. Stopping
and removing a container is one step that may be cut short. Executions overlap
when a lease has expired; `Cancel` is the cancelled context, after which every
call fails except `removeQuietly`. Starting a container that an overlapping
execution has removed fails (Docker answers 404). `plan` is empty until the
containers are listed, so that an execution that ended before that has stopped
nothing. Image pulls and builds come before, the route
check after; neither touches containers.

`IacState`. A lock id belongs to one Terraform run. The insert of the lock row and
its answer are two steps: a restart in between leaves a lock whose run knows
nothing of it, until it is forced open. The serial a run writes is the
one it read plus one. A refused write sends the run on to its unlock, as Terraform
does. Objects are named by their request.

`ScaleToZero`. The idle clock, dependencies and deploys are left out, and a start
is Docker's call followed by the row. `stopped` remembers that the last request
of the user was a stop, and that it succeeded.

## Runs

| Run | Jobs | What it checks |
|---|---|---|
| `deploys` | two deploys of one service, a third depending on the first; two Go workers; every fault once, two kinds mixed | `TypeOK`, `TaskOwnsRow`, `RunsAfterDependency`, `AttemptsBounded`, `OneExecutionPerJob`, `OutcomeRecordedOnce`, `FinishedIsFinal`, `LocksSpec`; 1.2 million states |
| `backups` | two backups of one volume with two attempts, an exclusive cleanup of higher priority; one kind of fault | `TaskOwnsRow`, `AttemptsBounded`, `LocksSpec`; 0.7 million states |
| `liveness` | a delayed in-process job with two attempts, a deploy, an exclusive cleanup; one app slot, one Go worker, one kind of fault | `EveryJobEnds` under `FairSpec`; 0.17 million states |
| `build_gates` | two deploys on one server with one slot, one behind checks; two commits, a timeout of two polls; one cancel, restart or change of settings | `TypeOK`, `AdmittedWithinLimit`, `ChecksPassBeforeBuild`, `EveryDeployIsDecided`; 0.26 million states |
| `revisions` | a running deployment, two by users, one rollback; two revisions listed; each fault once, two kinds mixed | `TypeOK`, `OneLiveRevision`, `RolledBackOnce`, `RollbacksChangeTheImage`, `NoForgottenWatch`; 1.6 million states |
| `rollout` | one old container, two executions, three kinds of settings; one failed call, one overlap, any cancels | `TypeOK`, `KeepsServing`, `SuccessLeavesOne`; 1.1 million states |
| `iac_state` | three Terraform runs; three kinds of disturbance | `TypeOK`, `VersionsAreReadable`, `HolderKeepsLock`, `SerialsFollow`; 0.51 million states |
| `scale_to_zero` | one service | violates `StoppedByHandStaysStopped` |
| `retry_twin` | two backups of one volume, no fault | violates `FinalizeSettles` |
| `cancel` | one deploy | violates `CancelIsFinal` |
| `pruned_dependency` | a chain of two deploys, one prune | violates `DependencySucceeded` |
| `overlap` | a backup and a restore of one volume | violates `OneExecutionPerLock` |

Bounds. `Limit[f]` bounds how often the event `f` happens and `MaxKinds` how many
kinds one behaviour mixes. Both bound the environment only: a fault that is not
taken is always possible in the code too. Three jobs give a pair of twins and an
outsider (a dependent or an exclusive job); two workers give a takeover; mixing two
kinds gives cases such as a cancel during a defer, or a crash after an expired
lease. The proofs below need no bound. Go workers are interchangeable, so the safety
runs use symmetry. No queue run can deadlock: the tick never ends. The other modules
stop when every deploy, execution or Terraform run has ended, so deadlock is not
checked there.

Two jobs and one slot give a full server; two polls give a job that times out after
one that does not, and `GracePolls` of one a check that is missing before and after
the grace. Four deployments give a revision, its successor, a third that overtakes
the watch, and a rollback; two images tell a rollback from a redeploy. `ListLimit`
is 50 in the code and 2 in the runs, so that an original and its redeploy fall on
both sides of the window; `MaxRootDepth` is 10 and 1, so that a user's choice stops
short of the original. The theorems hold for every value. Two executions give a
leftover and its cleaning, or an overlap. Three Terraform runs give a holder, one
that is refused and one that comes after. The events (`MaxEvents`, `Faults`,
`MaxErrors`, `MaxOverlaps`, `Disturbances`, `MaxKinds`) bound only what the
environment does.

Fairness (`Fairness`). The interval keeps firing (`Tick`); 30 s keep passing, so
the sweep is not skipped forever (strong fairness of `PumpDone("recover")`); every
promise settles; a started cascade goes on; time passes (`BecomeDue`,
`LeaseExpires`); some Go worker polls; an executor returns, because the watchdog
cancels one without progress. Nothing is assumed of heartbeats, enqueues, cancels
or faults. `BuildGates` assumes only that the app goes on with each job (its tick,
its clock and its promises); builds may never end and checks never report.

### What the violations show

* `retry_twin`: a failed backup is retried by `scheduleRetry`, which keeps its
  `dedupeKey`. If a newer backup of the volume is queued, the unique index refuses
  the update; the row stays `running`, is swept back to `finalize` and fails again
  for ever, and its lock keeps the newer backup from starting. `defer` drops the
  key for this reason, `scheduleRetry` does not. `EveryJobEnds` is therefore
  checked on jobs without a twin that is retried.
* `cancel`: `defer` and `scheduleRetry` write by id, so they revive a job that was
  cancelled while its promise ran.
* `pruned_dependency`: a dependent enqueued after its dependency has failed is
  cancelled by nobody and stays queued. A week later it runs, although its
  dependency failed: `dependencySatisfied` looks for a row of the dependency that
  has not succeeded, and finds none once `prune` has deleted it. The notes say that
  a job is claimable only once its dependency has succeeded, and that none is left
  queued behind a failed one. `RunsAfterDependency` excepts this case.
* `overlap`: a cancel frees the lock key at once; the execution ends with its next
  heartbeat.
* `scale_to_zero`: a wake reads that the service sleeps and starts the container
  later; a stop by hand that succeeds in between is undone. The same property
  fails when a sleep in progress marks the service asleep after the stop by hand.

### Known windows

States the models reach, so that the properties except them. No document rules them
out, with the exception of the first.

* `Revisions`: with more revisions than `listRevisions` returns an automatic rollback
  may name a redeploy. The comment of `#rollbackTarget` rules that out, but the
  original is not among the rows that `revisionRoot` searches. The image is the same;
  the rollback does not fold into the original's entry of the list.
* `Revisions`: a restart between `rolled_back` and the rollback loses the rollback; a
  deploy asked for after the verdict is overtaken by it; a cancel during the gates is
  overwritten by `pulling`; after a failed inspection one image has two keys, so that
  a rollback may bring the image back that was found unhealthy.
* `BuildGates`: a cancelled build runs on beside its successor until the next
  heartbeat, and a job waiting for a slot skips checks that become required.
* `IacState`: a rollback or a repeated request can hide an apply, and a repeated
  unlock can take the next run's lock.
* `ScaleToZero`: a crash between stop and mark leaves a service that no request wakes.

## Proofs

`JobQueueProofs` proves, for every set of jobs, workers and slots, every
assignment of the columns, and every number of faults, from `JobsAssumption`,
`LimitsAssumption` and `NoneAssumption`:

* `TypeCorrect`: `TypeOK`.
* `OwnershipInvariant`, hence `PromisesOwnTheirRows`: `TaskOwnsRow` is not
  inductive by itself. `Ownership` adds that the sweep's `live` set still covers
  the promises in flight while its later statements run (only the pump and the
  finalize pass start promises, and they are not concurrent with the sweep), that a
  promise in `cancelDependents` has failed its job, and that queued rows carry no
  stage (a claimed row is then in an app stage).
* `RowStep`: from `Ownership`, what one step does to one row. It gives
  `FinishedJobsStay` (`FinishedIsFinal`), `FirstOutcomeStands`
  (`OutcomeRecordedOnce`) and `DependenciesComeFirst` (`RunsAfterDependency`: the
  dependency of a running job has succeeded, or had not and was pruned since).
* `ImplementsRunLocks`: `Spec => LocksSpec`, with the running rows for `held`.
  Only `claimNext` adds a running row, and its condition is `RunLocks`' guard; every
  other step is a stop or a stutter. `ConflictingJobsNeverRun` follows.
* `AttemptsAreBounded`: strengthened by `AttemptToSpare`, that a job which may
  still be claimed, now or after the sweep, has an attempt left or lost one to an
  interruption.
* `JobsExecuteOnce`: strengthened by `LeasesHeld`: until a lease expires under a
  live execution, an execution holds the lease of its job, or the job was cancelled
  and no promise works on it, so that it cannot come back.

The row lemmas (`ClaimedFacts`, ...) state what each SQL statement does to the
columns the proofs need; each `...Step` lemma has one step per action.

`BuildGatesProofs` proves, for every finite set of deploys, every set of build
servers, limits and commits and any number of polls, cancels and restarts, from the
assumptions of `BuildGates`: `GateTypes` (`TypeOK`), `SlotsAreNotOversold`
(`AdmittedWithinLimit`) and `OnlyCheckedCommitsBuild` (`ChecksPassBeforeBuild`). The
two safety properties are not inductive: what `reserveBuildHost` counts is the
server in the rows, and what is built is the plan. `GateInv` adds that the two agree
for an admitted deploy (`SlotRecorded`), that no queued row has a stage or a promise
at work on it (`StageFits`), and that from the passed checks on, through the
deferrals for a slot and the sweep, a deploy of `Checked` keeps the commit that
passed (`CommitFits`). `Advances` says what every step of one deploy keeps;
`LimitStep` turns "only a free slot is taken" into the limit, by cardinalities.

`IacStateProofs` proves, for every set of Terraform runs, every choice of
disturbances and any number of versions, from `RunsAssumption`,
`DisturbancesAssumption` and `BoundsAssumption`: `StateTypes` (`TypeOK`),
`VersionsStayReadable` (`VersionsAreReadable`), `HoldersKeepTheLock`
(`HolderKeepsLock`) and `NoApplyIsLost` (`SerialsFollow`). `LockInv` is the
inductive invariant: as long as nothing disturbed the protocol (`Calm`), a run has
no handler but the one it waits for, at a step its phase allows (`RequestsFit`);
from the granted lock to the unlock's delete the lock names the run (`HoldersHold`,
and `GrantedHold` while the answer is on its way); and the serial its holder has
read is the newest, so that the one it writes is the next (`SerialsFit`).
`BodiesFirst` orders upload and insert, with and without disturbances.

`RolloutProofs` proves, for every set of executions, old containers and settings
and any number of failed calls and overlaps, from `SettingsAssumption`,
`BoundsAssumption` and `OldAssumption`: `RolloutTypes` (`TypeOK`),
`DeploysKeepServing` (`KeepsServing`) and `SuccessLeavesOwnContainer`
(`SuccessLeavesOne`). That some container was ready and still exists is not
inductive: it may be one that an execution is about to remove for a new container
which another execution is about to remove in turn. `ServingInv` has `Survives`, a
container that was ready and that no handover takes away, nor the handover to come
of an execution whose own container is being taken away. It survives because the
executions that have listed and not yet handed over are ordered by their lists
(`ListsOrdered`): of two of them at most one has listed the other's container, and
that one has listed all that the other has. `ContainersFit` ties the lists to the
containers that were created, `Shape` the plan to the step. `CleaningInv` is about
one execution without overlaps: what exists beside its container is what it has
still to remove. The proof showed a step that was missing from the model, the start
of a container that an overlapping execution has removed.

`RevisionsProofs` proves, for every set of deployments (finite or not), images and
any number of faults, and any limits of the list and of the chain, from
`DepsAssumption`, `FaultsAssumption`, `LimitsAssumption` and `NoneAssumption`:
`RevisionTypes` (`TypeOK`), `OneRevisionIsLive` (`OneLiveRevision`),
`RevisionsRollBackOnce` (`RolledBackOnce`), `RollbacksDoNotLoop`
(`RollbacksChangeTheImage`) and `WatchesAreNotForgotten` (`NoForgottenWatch`).
`RevisionsInv` is the inductive invariant. `Flow` and `Fresh` relate the promise at
work to the job; `Imaged` says that a row with an image is past its execution, so
that the image a verdict compared is the one a rollback runs (`RunsTarget`,
`Targets`); `CausedOnce` that a rollback is newer than its cause, so that a watch
armed again finds a newer deployment and never decides twice; `LiveApart` that of
two live revisions one has not finalized. The target of `previousRevision` is the
newest older revision, which exists by `MaximumExists` for any set of deployments.
`ChainFacts` says that what holds of a deployment and passes from every redeploy to
its target holds of the whole chain: its root is a revision, and has the same image
key unless an inspection failed. That the root is an original deploy needs the list
to be complete: `ListedTargetsAreOriginal` proves `TargetIsOriginal` from
`AllListed` (no more deployments than `ListLimit`), with `OriginalsInv` for the
targets already chosen.

TLC finds each inductive invariant true on the instance of its run as well. Only
model-checked: the liveness properties `EveryJobEnds` and `EveryDeployIsDecided`
(fairness is out of the prover's reach) and the five violations. Every other
property of the passing runs is a theorem.

## Plan

1. Done: the queue with its proofs, the gates, the deployments of a service, the
   rollout and the state backend, each with its proofs, and scale to zero.
2. `DueScheduler` and the cron expression as a pure algorithm against a reference
   definition; property: no due time fires twice, none is lost across a restart.
3. `SelfUpdate` (hold, preflight, trial) and the janitor.
4. In `JobQueue`: commits whose acknowledgement is lost, and enqueue split into its
   three statements.

### Not modelled

Swarm deployments (Docker's own rolling update), image builds and pulls, backups'
uploads and the other executors: calls to Docker, a registry or a bucket whose
outcome the queue models. Log shipping, uptime, notifications, workstations,
previews, webhooks: mostly rows and requests. The user interface, provider APIs,
DNS, authentication, installer and CLI: sequential I/O or data handling. The
repository has about 200,000 lines, most of them interface, templates and tests;
the modules cover the part that runs concurrently with itself.
