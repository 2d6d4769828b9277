------------------------------ MODULE Revisions ------------------------------
(***************************************************************************)
(* The deployments of one service: their rows, the deploy jobs that carry  *)
(* them, the health watch that follows each revision that went live, and   *)
(* the automatic rollback of one that turns out unhealthy.  Every await of *)
(* the app that reads or writes shared rows ends a step, so requests,      *)
(* promises of the job worker and watches interleave between them; the app *)
(* may restart anywhere.                                                   *)
(*                                                                         *)
(* Deployments are numbered in the order of createdAt.  The queue is the   *)
(* one of module JobQueue, reduced to what it promises for jobs that share *)
(* the lock key of one service.                                            *)
(***************************************************************************)
EXTENDS Integers, FiniteSets

CONSTANTS
    Deps,         \* the deployments that may be created, a set of numbers
    Existing,     \* the deployment the service runs at the start, or None
    UserDeps,     \* the deployments users may ask for; the others are rollbacks
    Images,       \* what revisionImageKey tells apart
    ListLimit,    \* how many revisions listRevisions returns, 50 in the code
    MaxRootDepth, \* MAX_ROOT_DEPTH of the revision service
    Faults,       \* Faults[f]: how often the fault f may happen
    MaxKinds,     \* how many kinds of faults one behaviour mixes
    None

FaultKinds == {"restart", "error", "cancel", "stop", "inspect"}

ASSUME DepsAssumption == /\ Deps \subseteq Nat
                         /\ Existing \in Deps \cup {None}
                         /\ \A d \in Deps : Existing # None => Existing <= d
                         /\ UserDeps \subseteq Deps
                         /\ Images # {}

ASSUME LimitsAssumption == ListLimit \in Nat /\ MaxRootDepth \in Nat

ASSUME FaultsAssumption == /\ Faults \in [FaultKinds -> Nat]
                           /\ MaxKinds \in Nat

ASSUME NoneAssumption == None \notin Deps \cup Images

VARIABLES
    dep,         \* dep[d]: the row of deployment d
    job,         \* job[d]: the deploy job with d in its payload
    out,         \* out[d]: what the Go worker reported for that job
    pc,          \* pc[d]: the enqueuing request or the job worker's promise of d
    cancelling,  \* deployments whose cancel has closed the row, not yet the job
    svc,         \* the service row: whose workload it names, the desired state
    watch,       \* watch[d]: the health watch of d
    spent        \* spent[f]: how often the fault f has happened

vars == <<dep, job, out, pc, cancelling, svc, watch, spent>>

InFlightStatuses == {"pending", "pulling"}
LiveHealth == {"watching", "healthy"}
BadHealth == {"unhealthy", "rolled_back"}

\* of: rollbackOfDeploymentId.  cause: whose watch asked for it (no column).
Rows == [status : {"absent", "running", "stopped", "failed"} \cup InFlightStatuses,
         health : {"none"} \cup LiveHealth \cup BadHealth,
         image : Images \cup {None},
         of : Deps \cup {None},
         cause : Deps \cup {None}]

JobStates == {"none", "queued", "run", "execute", "executed", "finalizing",
              "ended", "cancelled"}
RunningJob == {"run", "execute", "executed", "finalizing"}
ActiveJob == RunningJob \cup {"queued"}

Outcomes == [kind : {"none", "ok", "failed", "routeFailed"},
             image : Images \cup {None}]

(***************************************************************************)
(* created, coalesced: in enqueueDeploy.  gates, started: in               *)
(* prepareWorkerDeploy, before and after it marks the row pulling.         *)
(* finalize, service, row, cleared: in finalizeWorkerDeploy after that     *)
(* many of its writes.  failed: the failure is recorded, the job not yet.  *)
(***************************************************************************)
Points == {"idle", "created", "coalesced", "gates", "started",
           "finalize", "service", "row", "cleared", "failed"}

(***************************************************************************)
(* start: not begun.  poll: in the loop.  stale, healthy, unhealthy: the   *)
(* loop has ended with that verdict.  settle: the target is chosen.        *)
(* rollback: rolled_back is written, the rollback not yet enqueued.        *)
(***************************************************************************)
WatchPoints == {"off", "start", "poll", "stale", "healthy", "unhealthy",
                "settle", "rollback"}

Off == [at |-> "off", workload |-> None, target |-> None]

Spend(f) == /\ spent[f] < Faults[f]
            /\ Cardinality({f} \cup {g \in FaultKinds : spent[g] > 0}) <= MaxKinds
            /\ spent' = [spent EXCEPT ![f] = @ + 1]

Absent == [status |-> "absent", health |-> "none", image |-> None,
           of |-> None, cause |-> None]

Init == /\ dep = [d \in Deps |->
                    IF d = Existing
                    THEN [Absent EXCEPT !.status = "running", !.health = "healthy",
                                        !.image = CHOOSE i \in Images : TRUE]
                    ELSE Absent]
        /\ job = [d \in Deps |-> IF d = Existing THEN "ended" ELSE "none"]
        /\ out = [d \in Deps |-> [kind |-> "none", image |-> None]]
        /\ pc = [d \in Deps |-> "idle"]
        /\ cancelling = {}
        /\ svc = [workload |-> Existing, desired |-> "running"]
        /\ watch = [d \in Deps |-> Off]
        /\ spent = [f \in FaultKinds |-> 0]

-----------------------------------------------------------------------------
(* Revisions.                                                              *)

Created == {d \in Deps : dep[d].status # "absent"}

\* The newest deployment, whatever became of it.
Latest(d) == /\ d \in Created
             /\ \A e \in Created : e <= d

IsRevision(d) == /\ dep[d].image # None
                 /\ dep[d].status \in {"running", "stopped"}

IsRollback(d) == dep[d].of # None

\* What listRevisions returns: the newest revisions, up to the limit.
Listed == {d \in Deps : /\ IsRevision(d)
                        /\ Cardinality({e \in Deps : IsRevision(e) /\ e > d}) < ListLimit}

\* Slip: a redeploy of the same image counts as another revision.
CandidatesOfAnyImage(d) == {e \in Listed : /\ e < d
                                           /\ dep[e].health \notin BadHealth}

\* Older revisions with another image that were not found unhealthy.
Candidates(d) == {e \in Listed : /\ e < d
                                 /\ dep[e].image # dep[d].image
                                 /\ dep[e].health \notin BadHealth}

PreviousRevision(d) ==
    IF d \in Listed /\ Candidates(d) # {}
    THEN CHOOSE e \in Candidates(d) : \A f \in Candidates(d) : f <= e
    ELSE None

\* e, the deployment it redeploys, and so on, while they are among rows.
Chain(rows, e) ==
    {x \in Deps : \A S \in SUBSET Deps :
        (e \in S /\ \A y \in S : dep[y].of \in rows => dep[y].of \in S) => x \in S}

\* A rollback is newer than what it redeploys: the end of a chain is its oldest.
Oldest(S) == CHOOSE x \in S : \A y \in S : x <= y

\* revisionRoot: a rollback whose target is not among rows is its own root.
RevisionRoot(rows, e) == Oldest(Chain(rows, e))

\* #root reads row after row, up to a depth.
Root(e) == LET chain == Chain(Deps, e)
           IN  Oldest({x \in chain :
                        Cardinality({y \in chain : y > x}) <= MaxRootDepth})

RollbackTarget(d) ==
    IF IsRollback(d) \/ PreviousRevision(d) = None
    THEN None ELSE RevisionRoot(Listed, PreviousRevision(d))

-----------------------------------------------------------------------------
(* enqueueDeploy: the row, then the job.                                   *)

Kind(d) == IF IsRollback(d) THEN "rollback" ELSE "deploy"

\* The row that DeploymentDTO.create inserts.
Create(d, of, cause) ==
    /\ \A e \in Deps : (e < d) <=> (e \in Created)
    /\ dep' = [dep EXCEPT ![d] = [@ EXCEPT !.status = "pending", !.of = of,
                                           !.cause = cause]]
    /\ pc' = [pc EXCEPT ![d] = "created"]

\* A user, a push or a schedule deploys the service.
Deploy(d) == /\ d \in UserDeps
             /\ Create(d, None, None)
             /\ UNCHANGED <<job, out, cancelling, svc, watch, spent>>

\* A user names a deployment, or asks for the previous revision (which list shows
\* with the roots it has loaded): resolveTarget hands over the revision at its root.
DeployRevision(d) ==
    /\ d \in UserDeps
    /\ \E e \in Created : Create(d, Root(e), None) /\ IsRevision(Root(e))
    /\ UNCHANGED <<job, out, cancelling, svc, watch, spent>>

\* QueueService.enqueue: one queued job per kind, the second caller joins it.
EnqueueJob(d) ==
    /\ pc[d] = "created"
    /\ LET queued == {e \in Deps : job[e] = "queued" /\ Kind(e) = Kind(d)}
       IN  IF queued = {}
           THEN /\ job' = [job EXCEPT ![d] = "queued"]
                /\ pc' = [pc EXCEPT ![d] = "idle"]
           ELSE /\ pc' = [pc EXCEPT ![d] = "coalesced"]
                /\ UNCHANGED job
    /\ UNCHANGED <<dep, out, cancelling, svc, watch, spent>>

\* Slip: a status that deployments do not have.
CloseCoalescedMistyped(d) ==
    /\ pc[d] = "coalesced"
    /\ dep' = [dep EXCEPT ![d].status = "superseded"]
    /\ pc' = [pc EXCEPT ![d] = "idle"]
    /\ UNCHANGED <<job, out, cancelling, svc, watch, spent>>

CloseCoalesced(d) ==
    /\ pc[d] = "coalesced"
    /\ dep' = [dep EXCEPT ![d].status = "stopped"]
    /\ pc' = [pc EXCEPT ![d] = "idle"]
    /\ UNCHANGED <<job, out, cancelling, svc, watch, spent>>

-----------------------------------------------------------------------------
(* The deploy job.                                                         *)

\* One job per lock key: JobQueue's LocksSpec.
Claim(d) ==
    /\ job[d] = "queued"
    /\ \A e \in Deps : job[e] \notin RunningJob
    /\ job' = [job EXCEPT ![d] = "run"]
    /\ pc' = [pc EXCEPT ![d] = "gates"]
    /\ UNCHANGED <<dep, out, cancelling, svc, watch, spent>>

\* The gates passed.  The row is written whatever its status is by now.
Start(d) ==
    /\ pc[d] = "gates"
    /\ dep' = [dep EXCEPT ![d].status = "pulling"]
    /\ pc' = [pc EXCEPT ![d] = "started"]
    /\ UNCHANGED <<job, out, cancelling, svc, watch, spent>>

\* handOff sets the stage; a cancelled row stays cancelled.
HandOff(d) ==
    /\ pc[d] = "started"
    /\ job' = [job EXCEPT ![d] = IF @ = "run" THEN "execute" ELSE @]
    /\ pc' = [pc EXCEPT ![d] = "idle"]
    /\ UNCHANGED <<dep, out, cancelling, svc, watch, spent>>

\* Anything in prepare throws: #recordFailure closes the row.
PrepareFails(d) ==
    /\ pc[d] \in {"gates", "started"}
    /\ dep' = [dep EXCEPT ![d].status = "failed"]
    /\ pc' = [pc EXCEPT ![d] = "failed"]
    /\ UNCHANGED <<job, out, cancelling, svc, watch, spent>>

(***************************************************************************)
(* A rollback starts the image of the revision it names, and reports the   *)
(* same key for it unless the inspection that gives an image its id failed *)
(* for one of the two.                                                     *)
(***************************************************************************)
Execute(d) ==
    /\ job[d] = "execute"
    /\ \E kind \in {"ok", "failed", "routeFailed"}, image \in Images :
           /\ IF IsRollback(d) /\ image # dep[dep[d].of].image
              THEN Spend("inspect") ELSE UNCHANGED spent
           /\ out' = [out EXCEPT ![d] = [kind |-> kind, image |-> image]]
    /\ job' = [job EXCEPT ![d] = "executed"]
    /\ UNCHANGED <<dep, pc, cancelling, svc, watch>>

ClaimFinalize(d) ==
    /\ job[d] = "executed" /\ pc[d] = "idle"
    /\ job' = [job EXCEPT ![d] = "finalizing"]
    /\ pc' = [pc EXCEPT ![d] = "finalize"]
    /\ UNCHANGED <<dep, out, cancelling, svc, watch, spent>>

\* The executor failed; after a failed route check the new workload stays up.
FinalizeFailure(d) ==
    /\ pc[d] = "finalize" /\ out[d].kind # "ok"
    /\ svc' = IF out[d].kind = "routeFailed"
              THEN [workload |-> d, desired |-> "running"] ELSE svc
    /\ dep' = [dep EXCEPT ![d].status = "failed"]
    /\ pc' = [pc EXCEPT ![d] = "failed"]
    /\ UNCHANGED <<job, out, cancelling, watch, spent>>

\* #recordSuccess, first write.
RecordService(d) ==
    /\ pc[d] = "finalize" /\ out[d].kind = "ok"
    /\ svc' = [workload |-> d, desired |-> "running"]
    /\ pc' = [pc EXCEPT ![d] = "service"]
    /\ UNCHANGED <<dep, job, out, cancelling, watch, spent>>

RecordRow(d) ==
    /\ pc[d] = "service"
    /\ dep' = [dep EXCEPT ![d] = [@ EXCEPT !.status = "running", !.health = "watching",
                                           !.image = out[d].image]]
    /\ pc' = [pc EXCEPT ![d] = "row"]
    /\ UNCHANGED <<job, out, cancelling, svc, watch, spent>>

ClearSupersededHealth(d) ==
    /\ pc[d] = "row"
    /\ dep' = [e \in Deps |->
                 IF e # d /\ dep[e].health \in LiveHealth
                 THEN [dep[e] EXCEPT !.health = "none"] ELSE dep[e]]
    /\ pc' = [pc EXCEPT ![d] = "cleared"]
    /\ UNCHANGED <<job, out, cancelling, svc, watch, spent>>

\* watchHealth and markSucceeded; a deployment already watched is not watched twice.
FinalizeSuccess(d) ==
    /\ pc[d] = "cleared"
    /\ watch' = IF watch[d].at = "off"
                THEN [watch EXCEPT ![d] = [Off EXCEPT !.at = "start"]] ELSE watch
    /\ job' = [job EXCEPT ![d] = "ended"]
    /\ pc' = [pc EXCEPT ![d] = "idle"]
    /\ UNCHANGED <<dep, out, cancelling, svc, spent>>

\* A deploy job has one attempt: markFailed.
JobFails(d) ==
    /\ pc[d] = "failed"
    /\ job' = [job EXCEPT ![d] = "ended"]
    /\ pc' = [pc EXCEPT ![d] = "idle"]
    /\ UNCHANGED <<dep, out, cancelling, svc, watch, spent>>

\* A write of finalize is refused: the job fails, the rows stay as they are.
FinalizeThrows(d) ==
    /\ pc[d] \in {"finalize", "service", "row"}
    /\ Spend("error")
    /\ pc' = [pc EXCEPT ![d] = "failed"]
    /\ UNCHANGED <<dep, job, out, cancelling, svc, watch>>

-----------------------------------------------------------------------------
(* The health watch of d.                                                  *)

At(d, point) == watch' = [watch EXCEPT ![d].at = point]
Ends(d) == watch' = [watch EXCEPT ![d] = Off]

\* #run reads the service: the workload it names now is the one watched.
Begin(d) ==
    /\ watch[d].at = "start"
    /\ watch' = [watch EXCEPT ![d] = [@ EXCEPT !.at = "poll", !.workload = svc.workload]]
    /\ UNCHANGED <<dep, job, out, pc, cancelling, svc, spent>>

\* Slip: the same workload is taken for the same deployment.
SameWorkload(d) == svc.workload = watch[d].workload /\ svc.desired # "stopped"

StillCurrent(d) == /\ Latest(d)
                   /\ svc.workload = watch[d].workload
                   /\ svc.desired # "stopped"

\* One turn of the loop; what the samples say is up to the workload.
Poll(d) ==
    /\ watch[d].at = "poll"
    /\ IF StillCurrent(d)
       THEN \E verdict \in {"poll", "healthy", "unhealthy"} : At(d, verdict)
       ELSE At(d, "stale")
    /\ UNCHANGED <<dep, job, out, pc, cancelling, svc, spent>>

\* Slip: settleHealth without its condition on the health it replaces.
SettleAlways(d, health) == dep' = [dep EXCEPT ![d].health = health]

\* Writes only while the row is still watching.
SettleHealth(d, health) ==
    dep' = IF dep[d].health = "watching"
           THEN [dep EXCEPT ![d].health = health] ELSE dep

SettleStale(d) ==
    /\ watch[d].at = "stale"
    /\ SettleHealth(d, "none")
    /\ Ends(d)
    /\ UNCHANGED <<job, out, pc, cancelling, svc, spent>>

SettleHealthy(d) ==
    /\ watch[d].at = "healthy"
    /\ SettleHealth(d, "healthy")
    /\ Ends(d)
    /\ UNCHANGED <<job, out, pc, cancelling, svc, spent>>

\* #rollbackTarget; autoRollback is a setting of the service.
ChooseTarget(d) ==
    /\ watch[d].at = "unhealthy"
    /\ \E autoRollback \in BOOLEAN :
           watch' = [watch EXCEPT ![d] =
                        [@ EXCEPT !.at = "settle",
                                  !.target = IF autoRollback THEN RollbackTarget(d)
                                                             ELSE None]]
    /\ UNCHANGED <<dep, job, out, pc, cancelling, svc, spent>>

SettleUnhealthy(d) ==
    /\ watch[d].at = "settle"
    /\ SettleHealth(d, IF watch[d].target = None THEN "unhealthy" ELSE "rolled_back")
    /\ IF dep[d].health = "watching" /\ watch[d].target # None
       THEN At(d, "rollback") ELSE Ends(d)
    /\ UNCHANGED <<job, out, pc, cancelling, svc, spent>>

\* enqueueRollback: the row of the rollback, its job follows in EnqueueJob.
RollBack(d) ==
    /\ watch[d].at = "rollback"
    /\ \E e \in Deps : Create(e, watch[d].target, d)
    /\ Ends(d)
    /\ UNCHANGED <<job, out, cancelling, svc, spent>>

\* A query of the watch fails: logged, the row stays as it is.
WatchFails(d) ==
    /\ watch[d].at # "off"
    /\ Spend("error")
    /\ Ends(d)
    /\ UNCHANGED <<dep, job, out, pc, cancelling, svc>>

-----------------------------------------------------------------------------
(* Requests on the service, and restarts.                                  *)

\* The dashboard's cancel closes the newest deployment's row, then its job.
CancelRow(d) ==
    /\ Latest(d) /\ dep[d].status \in InFlightStatuses
    /\ d \notin cancelling
    /\ Spend("cancel")
    /\ dep' = [dep EXCEPT ![d].status = "failed"]
    /\ cancelling' = cancelling \cup {d}
    /\ UNCHANGED <<job, out, pc, svc, watch>>

CancelJob(d) ==
    /\ d \in cancelling
    /\ job' = [job EXCEPT ![d] = IF @ \in ActiveJob THEN "cancelled" ELSE @]
    /\ cancelling' = cancelling \ {d}
    /\ UNCHANGED <<dep, out, pc, svc, watch, spent>>

\* stopService and startService write the desired state.
SetDesired(state) ==
    /\ svc.workload # None /\ svc.desired # state
    /\ Spend("stop")
    /\ svc' = [svc EXCEPT !.desired = state]
    /\ UNCHANGED <<dep, job, out, pc, cancelling, watch>>

Watched == {d \in Deps : dep[d].health = "watching"}

\* Slip: the watches are not armed again after a restart.
NothingToResume == {}

\* The deployments listWatching returns on boot.
Resumed == Watched

(***************************************************************************)
(* The app restarts: promises, requests and watches are gone, the jobs in  *)
(* an app stage are swept back, and the rows still watching are watched    *)
(* again, unless reading them fails.                                       *)
(***************************************************************************)
Restart(listed) ==
    /\ Spend(IF listed THEN "restart" ELSE "error")
    /\ pc' = [d \in Deps |-> "idle"]
    /\ cancelling' = {}
    /\ job' = [d \in Deps |-> CASE job[d] = "run" -> "queued"
                                [] job[d] = "finalizing" -> "executed"
                                [] OTHER -> job[d]]
    /\ watch' = [d \in Deps |-> IF listed /\ d \in Resumed
                                THEN [Off EXCEPT !.at = "start"] ELSE Off]
    /\ UNCHANGED <<dep, out, svc>>

Request(d) == \/ Deploy(d) \/ DeployRevision(d)
              \/ EnqueueJob(d) \/ CloseCoalesced(d)
              \/ CancelRow(d) \/ CancelJob(d)

Promise(d) == \/ Claim(d) \/ Start(d) \/ HandOff(d) \/ PrepareFails(d)
              \/ ClaimFinalize(d) \/ FinalizeFailure(d) \/ RecordService(d)
              \/ RecordRow(d) \/ ClearSupersededHealth(d) \/ FinalizeSuccess(d)
              \/ JobFails(d) \/ FinalizeThrows(d)

WatchStep(d) == \/ Begin(d) \/ Poll(d) \/ SettleStale(d) \/ SettleHealthy(d)
                \/ ChooseTarget(d) \/ SettleUnhealthy(d) \/ RollBack(d)

Next == \/ \E d \in Deps : \/ Request(d) \/ Promise(d) \/ Execute(d)
                           \/ WatchStep(d) \/ WatchFails(d)
        \/ \E state \in {"running", "stopped"} : SetDesired(state)
        \/ \E listed \in BOOLEAN : Restart(listed)

Spec == Init /\ [][Next]_vars

-----------------------------------------------------------------------------
(* Properties.                                                             *)

(***************************************************************************)
(* The types of the deployment row, its job, the worker's outcome, the     *)
(* service row and the watch.                                              *)
(***************************************************************************)
TypeOK == /\ dep \in [Deps -> Rows]
          /\ job \in [Deps -> JobStates]
          /\ out \in [Deps -> Outcomes]
          /\ pc \in [Deps -> Points]
          /\ cancelling \subseteq Deps
          /\ svc \in [workload : Deps \cup {None}, desired : {"running", "stopped"}]
          /\ watch \in [Deps -> [at : WatchPoints, workload : Deps \cup {None},
                                target : Deps \cup {None}]]
          /\ spent \in [FaultKinds -> Nat]

(***************************************************************************)
(* Once every finalize has come to its end (clearSupersededHealth is its   *)
(* third write), at most one deployment is healthy or watching: a watch of *)
(* a superseded revision never writes a live health back.  A finalize that *)
(* was cut short by a refused write or by a cancel is excepted.            *)
(***************************************************************************)
OneLiveRevision ==
    \A d, e \in Deps :
        (d # e /\ dep[d].health \in LiveHealth /\ dep[e].health \in LiveHealth)
            => \/ \E f \in {d, e} : \/ job[f] \in {"executed", "finalizing", "cancelled"}
                                    \/ pc[f] = "row"
               \/ spent["error"] > 0

(***************************************************************************)
(* One unhealthy revision is rolled back once, even when a restart arms    *)
(* its watch again and its finalize, run again, makes it watching again.   *)
(***************************************************************************)
RolledBackOnce ==
    \A d \in Deps : Cardinality({e \in Deps : dep[e].cause = d}) <= 1

(***************************************************************************)
(* A rollback redeploys an older revision.  An automatic one never follows *)
(* another rollback, so that rollbacks cannot loop, and names a revision   *)
(* with another image than the one just found unhealthy, also when the     *)
(* chain of redeploys it follows leaves the listed rows.  A redeploy that  *)
(* was recorded under another key, after a failed inspection, voids this.  *)
(***************************************************************************)
RollbacksChangeTheImage ==
    \A e \in Deps : dep[e].of # None =>
        /\ dep[e].of < e /\ IsRevision(dep[e].of)
        /\ dep[e].cause # None =>
              /\ ~IsRollback(dep[e].cause)
              /\ spent["inspect"] = 0 =>
                    dep[dep[e].of].image # dep[dep[e].cause].image

(***************************************************************************)
(* A row that says watching is being watched, or will be by a finalize yet *)
(* to end, restarts included.  Excepted: a failed query, a cancelled job,  *)
(* and a revision whose rollback is already on its way.                    *)
(***************************************************************************)
NoForgottenWatch ==
    \A d \in Deps : dep[d].health = "watching" =>
        \/ watch[d].at # "off"
        \/ job[d] \in {"executed", "finalizing", "cancelled"}
        \/ pc[d] \in {"row", "cleared"}
        \/ \E e \in Deps : dep[e].cause = d
        \/ spent["error"] > 0

(***************************************************************************)
(* The target of an automatic rollback is the original deploy of its       *)
(* revision, never one of its redeploys.  So says #rollbackTarget; it is   *)
(* true as long as listRevisions leaves nothing out (AllListed).           *)
(***************************************************************************)
TargetIsOriginal ==
    \A e \in Deps : dep[e].cause # None => ~IsRollback(dep[e].of)

-----------------------------------------------------------------------------
(* The inductive invariant behind them (module RevisionsProofs).           *)

\* Which job a request or a promise of d goes with.
Flow(d) ==
    /\ pc[d] \in {"created", "coalesced"} => job[d] = "none"
    /\ pc[d] \in {"gates", "started"} => job[d] \in {"run", "cancelled"}
    /\ pc[d] \in {"finalize", "service", "row", "cleared"}
          => job[d] \in {"finalizing", "cancelled"}
    /\ pc[d] = "failed" => job[d] \in {"run", "finalizing", "cancelled"}
    /\ pc[d] \in {"service", "row", "cleared"} => out[d].kind = "ok"
    /\ pc[d] \in {"row", "cleared"} => dep[d].image # None
    /\ out[d].kind # "none" => out[d].image \in Images

\* Before the row is inserted there is nothing.
Fresh(d) == dep[d].status = "absent" =>
                /\ pc[d] = "idle" /\ job[d] = "none" /\ out[d].kind = "none"
                /\ dep[d].image = None /\ dep[d].of = None

\* A row with an image is past its execution, and keeps the image it ran with.
Imaged(d) ==
    /\ dep[d].health # "none" => dep[d].image # None
    /\ dep[d].image # None =>
          /\ dep[d].status = "running" /\ pc[d] \notin {"gates", "started"}
          /\ \/ d = Existing /\ job[d] = "ended" /\ dep[d].of = None
             \/ /\ job[d] \in {"executed", "finalizing", "cancelled", "ended"}
                /\ out[d].kind = "ok" /\ out[d].image = dep[d].image

\* A rollback runs the image of the revision it names.
RunsTarget(d) ==
    dep[d].of # None /\ out[d].kind # "none" /\ spent["inspect"] = 0
        => out[d].image = dep[dep[d].of].image

\* The target a watch has chosen.
Targets(d) ==
    /\ watch[d].at # "off" => dep[d].image # None
    /\ watch[d].at = "rollback" => watch[d].target # None
    /\ watch[d].at \in {"settle", "rollback"} /\ watch[d].target # None =>
          /\ IsRevision(watch[d].target) /\ ~IsRollback(d)
          /\ spent["inspect"] = 0 => dep[watch[d].target].image # dep[d].image

\* A rollback that a watch asked for is newer, so that no later watch decides.
CausedOnce(e) ==
    LET d == dep[e].cause
    IN  d # None => /\ d < e /\ dep[d].image # None /\ dep[e].status # "absent"
                    /\ watch[d].at \in {"off", "start", "poll", "stale"}
                    /\ \A f \in Deps : dep[f].cause = d => f = e

Live(d) == dep[d].health \in LiveHealth
Unsettled(d) == job[d] \in {"executed", "finalizing", "cancelled"}

\* Of two live revisions one has not finalized, and cleared nobody yet.
LiveApart(d, e) ==
    Live(d) /\ Live(e) => /\ Unsettled(d) \/ Unsettled(e)
                          /\ pc[d] = "cleared" => Unsettled(e) /\ pc[e] # "cleared"

RevisionsInv ==
    /\ TypeOK
    /\ \A d \in Deps : /\ Flow(d) /\ Fresh(d) /\ Imaged(d) /\ RunsTarget(d)
                       /\ Targets(d) /\ CausedOnce(d)
    /\ RollbacksChangeTheImage
    /\ spent["error"] = 0 =>
          \A d \in Deps : /\ pc[d] = "failed" => ~Live(d)
                          /\ \A e \in Deps \ {d} : LiveApart(d, e)
    /\ NoForgottenWatch

\* listRevisions leaves nothing out.
AllListed == IsFiniteSet(Deps) /\ Cardinality(Deps) <= ListLimit

\* The targets chosen and the targets rolled back to are no rollbacks.
OriginalsInv ==
    /\ \A d \in Deps : watch[d].at \in {"settle", "rollback"} /\ watch[d].target # None
          => ~IsRollback(watch[d].target)
    /\ \A e \in Deps : dep[e].cause # None => dep[e].of # None /\ ~IsRollback(dep[e].of)

=============================================================================
