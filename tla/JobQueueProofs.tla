--------------------------- MODULE JobQueueProofs ---------------------------
(***************************************************************************)
(* Proofs about JobQueue for every set of jobs, workers and slots, every   *)
(* assignment of keys, dependencies, attempts and priorities, and every    *)
(* number of faults.                                                       *)
(***************************************************************************)
EXTENDS JobQueue, TLAPS

-----------------------------------------------------------------------------
(* What the statements of JobDTO and PGStore do to the columns of a row.   *)

(***************************************************************************)
(* Clearing the stage columns drops the stage and the lease and touches    *)
(* nothing else; requeueing, retrying, handing off and cancelling all      *)
(* start from it.                                                          *)
(***************************************************************************)
LEMMA ClearedFacts ==
    ASSUME NEW r \in Rows
    PROVE  /\ ClearedStage(r) \in Rows
           /\ ClearedStage(r).status = r.status
           /\ ClearedStage(r).attempts = r.attempts
           /\ ClearedStage(r).stage = "none"
  BY DEF Rows, ClearedStage, Stages, Outcomes

\* Creating a row queues it and leaves its counter of attempts alone.
LEMMA CreatedFacts ==
    ASSUME NEW r \in Rows, NEW j
    PROVE  /\ Created(j, r) \in Rows
           /\ Created(j, r).status = "queued"
           /\ Created(j, r).attempts = r.attempts
           /\ Created(j, r).stage = r.stage
  BY DEF Rows, Created, Statuses, Active

\* The three ways a row ends without a result keep its counter of attempts.
LEMMA CancelledFacts ==
    ASSUME NEW r \in Rows
    PROVE  /\ Cancelled(r) \in Rows
           /\ Cancelled(r).status = "cancelled"
           /\ Cancelled(r).attempts = r.attempts
  BY ClearedFacts DEF Rows, Cancelled, Statuses, Terminal

\* cancelDependents changes the status alone.
LEMMA CancelledWithDependencyFacts ==
    ASSUME NEW r \in Rows
    PROVE  /\ CancelledWithDependency(r) \in Rows
           /\ CancelledWithDependency(r).status = "cancelled"
           /\ CancelledWithDependency(r).attempts = r.attempts
  BY DEF Rows, CancelledWithDependency, Statuses, Terminal

\* A pruned row keeps its counter, which nobody reads again.
LEMMA PrunedFacts ==
    ASSUME NEW r \in Rows
    PROVE  /\ Pruned(r) \in Rows
           /\ Pruned(r).status = IF r.status = "succeeded" THEN "pruned" ELSE "discarded"
           /\ Pruned(r).attempts = r.attempts
  BY DEF Rows, Pruned, Statuses, Gone

\* The passing of runAt changes none of the columns the app decides by.
LEMMA DueFacts ==
    ASSUME NEW r \in Rows
    PROVE  /\ Due(r) \in Rows
           /\ Due(r).status = r.status
           /\ Due(r).attempts = r.attempts
           /\ Due(r).stage = r.stage
           /\ Due(r).outcome = r.outcome
  BY DEF Rows, Due

\* claimNext starts the job and counts the attempt.
LEMMA ClaimedFacts ==
    ASSUME NEW r \in Rows
    PROVE  /\ Claimed(r) \in Rows
           /\ Claimed(r).status = "running"
           /\ Claimed(r).attempts = r.attempts + 1
           /\ Claimed(r).stage = r.stage
  <1>1. r.attempts + 1 \in Nat
    BY DEF Rows
  <1> QED
    BY <1>1, Zenon DEF Rows, Claimed, Statuses, Active

\* requeueOrphaned and scheduleRetry keep the counter of attempts.
LEMMA RequeuedFacts ==
    ASSUME NEW r \in Rows
    PROVE  /\ Requeued(r) \in Rows
           /\ Requeued(r).status = "queued"
           /\ Requeued(r).attempts = r.attempts
           /\ Requeued(r).stage = "none"
  BY ClearedFacts DEF Rows, Requeued, Statuses, Active

\* scheduleRetry queues the row without giving the attempt back.
LEMMA RetriedFacts ==
    ASSUME NEW r \in Rows
    PROVE  /\ Retried(r) \in Rows
           /\ Retried(r).status = "queued"
           /\ Retried(r).attempts = r.attempts
           /\ Retried(r).stage = "none"
  BY RequeuedFacts DEF Rows, Retried

\* defer gives the attempt back, down to zero.
LEMMA DeferredFacts ==
    ASSUME NEW r \in Rows
    PROVE  /\ Deferred(r) \in Rows
           /\ Deferred(r).status = "queued"
           /\ Deferred(r).attempts = IF r.attempts > 0 THEN r.attempts - 1 ELSE 0
           /\ Deferred(r).stage = "none"
  <1> DEFINE n == IF r.attempts > 0 THEN r.attempts - 1 ELSE 0
  <1>1. n \in Nat
    BY DEF Rows
  <1>2. Deferred(r) = [Requeued(r) EXCEPT !.due = FALSE, !.keyed = FALSE, !.attempts = n]
    BY DEF Deferred
  <1> HIDE DEF n
  <1>3. /\ Deferred(r) \in Rows
        /\ Deferred(r).status = "queued"
        /\ Deferred(r).attempts = n
        /\ Deferred(r).stage = "none"
    BY <1>1, <1>2, RequeuedFacts, Zenon DEF Rows
  <1> QED
    BY <1>3 DEF n

\* handOff puts the row in the execute stage, whatever its status.
LEMMA HandedOffFacts ==
    ASSUME NEW r \in Rows
    PROVE  /\ HandedOff(r) \in Rows
           /\ HandedOff(r).status = r.status
           /\ HandedOff(r).attempts = r.attempts
           /\ HandedOff(r).stage = "execute"
  BY ClearedFacts DEF Rows, HandedOff, Stages

\* The finalize claims and the sweep of finalizing rows move the stage alone.
LEMMA AtStageFacts ==
    ASSUME NEW r \in Rows, NEW s \in Stages
    PROVE  /\ AtStage(r, s) \in Rows
           /\ AtStage(r, s).status = r.status
           /\ AtStage(r, s).attempts = r.attempts
           /\ AtStage(r, s).stage = s
           /\ AtStage(r, s).outcome = r.outcome
  BY DEF Rows, AtStage

\* markSucceeded and markFailed set the status and keep the counter.
LEMMA ClosedFacts ==
    ASSUME NEW r \in Rows, NEW s \in Terminal
    PROVE  /\ Closed(r, s) \in Rows
           /\ Closed(r, s).status = s
           /\ Closed(r, s).attempts = r.attempts
  BY DEF Rows, Closed, Statuses, Stages

\* Leases and heartbeats touch neither status, stage, attempts nor outcome.
LEMMA LeasedFacts ==
    ASSUME NEW r \in Rows, NEW w \in Workers
    PROVE  /\ Leased(r, w) \in Rows
           /\ Leased(r, w).status = r.status
           /\ Leased(r, w).attempts = r.attempts
           /\ Leased(r, w).stage = r.stage
           /\ Leased(r, w).outcome = r.outcome
  BY DEF Rows, Leased

\* Releasing a lease touches the lease alone.
LEMMA ReleasedFacts ==
    ASSUME NEW r \in Rows
    PROVE  /\ Released(r) \in Rows
           /\ Released(r).status = r.status
           /\ Released(r).attempts = r.attempts
           /\ Released(r).stage = r.stage
           /\ Released(r).outcome = r.outcome
  BY DEF Rows, Released

\* A heartbeat, or its absence, touches heartbeatAt alone.
LEMMA BeatFacts ==
    ASSUME NEW r \in Rows, NEW q, q \in {Refreshed(r), Expired(r)}
    PROVE  /\ q \in Rows
           /\ q.status = r.status
           /\ q.attempts = r.attempts
           /\ q.stage = r.stage
           /\ q.outcome = r.outcome
  BY DEF Rows, Refreshed, Expired

\* Finish puts the row in the finalize stage, still running.
LEMMA ExecutedFacts ==
    ASSUME NEW r \in Rows, NEW o \in Outcomes
    PROVE  /\ Executed(r, o) \in Rows
           /\ Executed(r, o).status = r.status
           /\ Executed(r, o).attempts = r.attempts
           /\ Executed(r, o).stage = "finalize"
  BY ReleasedFacts DEF Rows, Executed, Stages

\* A counted event only counts up.
LEMMA SpendFacts ==
    ASSUME NEW f \in Faults, spent \in [Faults -> Nat], Spend(f)
    PROVE  /\ spent' \in [Faults -> Nat]
           /\ \A g \in Faults : spent[g] <= spent'[g]
           /\ spent'[f] = spent[f] + 1
  BY DEF Spend

-----------------------------------------------------------------------------
(***************************************************************************)
(* Type correctness is preserved by every step: each statement writes rows *)
(* of the table's type.                                                    *)
(***************************************************************************)
LEMMA TypeStep ==
    ASSUME TypeOK, [Next]_vars
    PROVE  TypeOK'
  <1> USE JobsAssumption, LimitsAssumption
  <1>1. ASSUME NEW j \in Jobs, Enqueue(j) PROVE TypeOK'
    BY <1>1, CreatedFacts DEF TypeOK, Enqueue, Write
  <1>2. ASSUME NEW j \in Jobs, Cancel(j) PROVE TypeOK'
    BY <1>2, CancelledFacts, SpendFacts DEF TypeOK, Cancel, Write, Faults
  <1>3. ASSUME NEW j \in Jobs, Prune(j) PROVE TypeOK'
    BY <1>3, PrunedFacts, SpendFacts DEF TypeOK, Prune, Write, Faults
  <1>4. ASSUME RequeueFinalizing PROVE TypeOK'
    BY <1>4, AtStageFacts DEF TypeOK, RequeueFinalizing, InFlight, Phases,
       Stages
  <1>5. ASSUME SupersedeOrphans PROVE TypeOK'
    BY <1>5, CancelledFacts DEF TypeOK, SupersedeOrphans, Phases
  <1>6. ASSUME RequeueOrphans PROVE TypeOK'
    BY <1>6, RequeuedFacts DEF TypeOK, RequeueOrphans, Phases
  <1>7. ASSUME RequeueRefused PROVE TypeOK'
    BY <1>7 DEF TypeOK, RequeueRefused, Phases
  <1>8. ASSUME NEW j \in Jobs, ClaimFinalize(j) PROVE TypeOK'
    BY <1>8, AtStageFacts DEF TypeOK, ClaimFinalize, Write, TaskStates,
       Stages
  <1>9. ASSUME NothingToFinalize PROVE TypeOK'
    BY <1>9 DEF TypeOK, NothingToFinalize, Phases
  <1>10. ASSUME NEW j \in Jobs, ClaimNext(j) PROVE TypeOK'
    BY <1>10, ClaimedFacts DEF TypeOK, ClaimNext, Write, TaskStates
  <1>11. ASSUME NEW p \in {"recover", "finalize"}, PumpDone(p) PROVE TypeOK'
    BY <1>11 DEF TypeOK, PumpDone, Phases
  <1>12. ASSUME NEW j \in Jobs, HandOff(j) PROVE TypeOK'
    BY <1>12, HandedOffFacts DEF TypeOK, HandOff, Write, Settle, TaskStates
  <1>13. ASSUME NEW j \in Jobs, MarkSucceeded(j) PROVE TypeOK'
    BY <1>13, ClosedFacts DEF TypeOK, MarkSucceeded, Write, Settle,
       TaskStates, Terminal
  <1>14. ASSUME NEW j \in Jobs, Defer(j) PROVE TypeOK'
    BY <1>14, DeferredFacts, SpendFacts DEF TypeOK, Defer, Write, Settle,
       TaskStates, Faults
  <1>15. ASSUME NEW j \in Jobs, ScheduleRetry(j) PROVE TypeOK'
    BY <1>15, RetriedFacts DEF TypeOK, ScheduleRetry, Write, Settle,
       TaskStates
  <1>16. ASSUME NEW j \in Jobs, RetryCollides(j) PROVE TypeOK'
    BY <1>16 DEF TypeOK, RetryCollides, Settle, TaskStates
  <1>17. ASSUME NEW j \in Jobs, MarkFailed(j) PROVE TypeOK'
    BY <1>17, ClosedFacts DEF TypeOK, MarkFailed, Write, TaskStates, Terminal
  <1>18. ASSUME NEW j \in Jobs, CancelDependents(j) PROVE TypeOK'
    BY <1>18, CancelledWithDependencyFacts DEF TypeOK, CancelDependents,
       Dependents, TaskStates
  <1>19. ASSUME NEW j \in Jobs, BecomeDue(j) PROVE TypeOK'
    BY <1>19, DueFacts DEF TypeOK, BecomeDue, Write
  <1>20. ASSUME NEW j \in Jobs, LeaseExpires(j) PROVE TypeOK'
    BY <1>20, BeatFacts DEF TypeOK, LeaseExpires, Write
  <1>21. ASSUME NEW e \in Execs, NEW j \in Jobs, Lease(e, j) PROVE TypeOK'
    BY <1>21, LeasedFacts DEF TypeOK, Lease, Write, Execs
  <1>22. ASSUME NEW e \in Execs, NEW j \in Jobs, Heartbeat(e, j) PROVE TypeOK'
    BY <1>22, BeatFacts DEF TypeOK, Heartbeat, Write
  <1>23. ASSUME NEW e \in Execs, NEW j \in Jobs, LoseLease(e, j) PROVE TypeOK'
    BY <1>23 DEF TypeOK, LoseLease
  <1>24. ASSUME NEW e \in Execs, NEW j \in Jobs, NEW o \in {"ok", "error"},
               Finish(e, j, o)
        PROVE  TypeOK'
    BY <1>24, ExecutedFacts DEF TypeOK, Finish, Write, Idle, Outcomes
  <1>25. ASSUME NEW e \in Execs, DropResult(e) PROVE TypeOK'
    BY <1>25 DEF TypeOK, DropResult, Idle
  <1>26. ASSUME AppCrash PROVE TypeOK'
    BY <1>26, SpendFacts DEF TypeOK, AppCrash, Faults, TaskStates, Phases
  <1>27. ASSUME NEW p \in {"recover", "finalize"}, TickFails(p) PROVE TypeOK'
    BY <1>27, SpendFacts DEF TypeOK, TickFails, Faults, Phases
  <1>28. ASSUME NEW j \in Jobs, BookkeepingFails(j) PROVE TypeOK'
    BY <1>28, SpendFacts DEF TypeOK, BookkeepingFails, Settle, Faults,
       TaskStates
  <1>29. ASSUME NEW j \in Jobs, HeartbeatsFail(j) PROVE TypeOK'
    BY <1>29, BeatFacts, SpendFacts DEF TypeOK, HeartbeatsFail, Write, Faults
  <1>30. ASSUME NEW e \in Execs, NEW j \in Jobs, Release(e, j) PROVE TypeOK'
    BY <1>30, ReleasedFacts, SpendFacts DEF TypeOK, Release, Write, Idle,
       Faults
  <1>31. ASSUME NEW w \in Workers, WorkerCrash(w) PROVE TypeOK'
    BY <1>31, SpendFacts DEF TypeOK, WorkerCrash, Idle, Faults
  <1>32. ASSUME NEW e \in Execs, NEW j \in Jobs,
               FinishUnrecorded(e, j)
        PROVE  TypeOK'
    BY <1>32, SpendFacts DEF TypeOK, FinishUnrecorded, Idle, Faults
  <1>33. CASE UNCHANGED vars
    BY <1>33 DEF TypeOK, vars
  <1> QED
    BY <1>1, <1>2, <1>3, <1>4, <1>5, <1>6, <1>7, <1>8, <1>9, <1>10, <1>11,
       <1>12, <1>13, <1>14, <1>15, <1>16, <1>17, <1>18, <1>19, <1>20, <1>21,
       <1>22, <1>23, <1>24, <1>25, <1>26, <1>27, <1>28, <1>29, <1>30, <1>31,
       <1>32, <1>33 DEF Next, Request, Tick, TaskStep, ExecStep, Fault

(***************************************************************************)
(* Rows, in-flight map, sweep, slots and counters keep their types.        *)
(***************************************************************************)
THEOREM TypeCorrect == Spec => []TypeOK
  <1>1. Init => TypeOK
    BY DEF Init, TypeOK, Rows, Statuses, Stages, Outcomes, Active, TaskStates,
           Phases, Idle
  <1>2. TypeOK /\ [Next]_vars => TypeOK'
    BY TypeStep
  <1> QED
    BY <1>1, <1>2, PTL DEF Spec

-----------------------------------------------------------------------------
(***************************************************************************)
(* What leases, heartbeats, timers and stopped workers leave alone: every  *)
(* column the app decides by.                                              *)
(***************************************************************************)
Kept == /\ \A k \in Jobs : /\ job'[k].status = job[k].status
                           /\ job'[k].stage = job[k].stage
                           /\ job'[k].attempts = job[k].attempts
                           /\ job'[k].outcome = job[k].outcome
        /\ UNCHANGED <<task, phase, live>>

\* The steps of the Go workers, but for Finish, and of the clock keep them.
LEMMA LeaseStepsKeep ==
    ASSUME TypeOK
    PROVE  /\ \A j \in Jobs : \/ BecomeDue(j)
                             \/ LeaseExpires(j)
                             \/ HeartbeatsFail(j) => Kept
           /\ \A e \in Execs, j \in Jobs : \/ Lease(e, j)
                                         \/ Heartbeat(e, j)
                                         \/ LoseLease(e, j)
                                         \/ FinishUnrecorded(e, j)
                                         \/ Release(e, j) => Kept
           /\ \A e \in Execs : DropResult(e) => Kept
           /\ \A w \in Workers : WorkerCrash(w) => Kept
  <1>1. ASSUME NEW j \in Jobs, BecomeDue(j) PROVE Kept
    BY <1>1, DueFacts DEF TypeOK, Kept, BecomeDue, Write
  <1>2. ASSUME NEW j \in Jobs, LeaseExpires(j) PROVE Kept
    BY <1>2, BeatFacts DEF TypeOK, Kept, LeaseExpires, Write
  <1>3. ASSUME NEW e \in Execs, NEW j \in Jobs, Lease(e, j) PROVE Kept
    BY <1>3, LeasedFacts DEF TypeOK, Kept, Lease, Write, Execs
  <1>4. ASSUME NEW e \in Execs, NEW j \in Jobs, Heartbeat(e, j) PROVE Kept
    BY <1>4, BeatFacts DEF TypeOK, Kept, Heartbeat, Write
  <1>5. ASSUME NEW e \in Execs, NEW j \in Jobs, LoseLease(e, j) PROVE Kept
    BY <1>5 DEF TypeOK, Kept, LoseLease
  <1>6. ASSUME NEW e \in Execs, DropResult(e) PROVE Kept
    BY <1>6 DEF TypeOK, Kept, DropResult, Idle
  <1>7. ASSUME NEW j \in Jobs, HeartbeatsFail(j) PROVE Kept
    BY <1>7, BeatFacts DEF TypeOK, Kept, HeartbeatsFail, Write
  <1>8. ASSUME NEW e \in Execs, NEW j \in Jobs, Release(e, j) PROVE Kept
    BY <1>8, ReleasedFacts DEF TypeOK, Kept, Release, Write
  <1>9. ASSUME NEW w \in Workers, WorkerCrash(w) PROVE Kept
    BY <1>9 DEF TypeOK, Kept, WorkerCrash, Idle
  <1>10. ASSUME NEW e \in Execs, NEW j \in Jobs,
               FinishUnrecorded(e, j)
        PROVE  Kept
    BY <1>10 DEF TypeOK, Kept, FinishUnrecorded, Idle
  <1> QED
    BY <1>1, <1>2, <1>3, <1>4, <1>5, <1>6, <1>7, <1>8, <1>9, <1>10

\* A step that keeps them keeps the ownership of the promises.
LEMMA KeptOwnership ==
    ASSUME Ownership, Kept
    PROVE  (TaskOwnsRow /\ LiveCoversInFlight /\ FailingIsFailed /\ QueuedHasNoStage)'
  BY DEF Ownership, TaskOwnsRow, LiveCoversInFlight, FailingIsFailed,
         QueuedHasNoStage, InFlight, Kept

(***************************************************************************)
(* Every step keeps the ownership of the promises over their rows.         *)
(***************************************************************************)
LEMMA OwnershipStep ==
    ASSUME Ownership, [Next]_vars
    PROVE  Ownership'
  <1> DEFINE Owned == TaskOwnsRow /\ LiveCoversInFlight /\ FailingIsFailed /\ QueuedHasNoStage
  <1> USE JobsAssumption
  <1>0. TypeOK /\ TypeOK'
    BY TypeStep DEF Ownership
  <1>1. ASSUME NEW j \in Jobs, Enqueue(j) PROVE Owned'
    BY <1>0, <1>1, CreatedFacts DEF Ownership, TypeOK, TaskOwnsRow,
       LiveCoversInFlight, FailingIsFailed, QueuedHasNoStage, InFlight,
       Enqueue, Write
  <1>2. ASSUME NEW j \in Jobs, Cancel(j) PROVE Owned'
    BY <1>0, <1>2, CancelledFacts DEF Ownership, TypeOK, TaskOwnsRow,
       LiveCoversInFlight, FailingIsFailed, QueuedHasNoStage, InFlight,
       Cancel, Write, Active
  <1>3. ASSUME NEW j \in Jobs, Prune(j) PROVE Owned'
    BY <1>0, <1>3, PrunedFacts DEF Ownership, TypeOK, TaskOwnsRow,
       LiveCoversInFlight, FailingIsFailed, QueuedHasNoStage, InFlight,
       Prune, Write, Terminal
  <1>4. ASSUME RequeueFinalizing PROVE Owned'
    BY <1>0, <1>4, AtStageFacts DEF Ownership, TypeOK, TaskOwnsRow,
       LiveCoversInFlight, FailingIsFailed, QueuedHasNoStage, InFlight,
       RequeueFinalizing, Stages
  <1>5. ASSUME SupersedeOrphans PROVE Owned'
    BY <1>0, <1>5, CancelledFacts DEF Ownership, TypeOK, TaskOwnsRow,
       LiveCoversInFlight, FailingIsFailed, QueuedHasNoStage, InFlight,
       SupersedeOrphans, Orphans, InAppStage
  <1>6. ASSUME RequeueOrphans PROVE Owned'
    BY <1>0, <1>6, RequeuedFacts DEF Ownership, TypeOK, TaskOwnsRow,
       LiveCoversInFlight, FailingIsFailed, QueuedHasNoStage, InFlight,
       RequeueOrphans, Orphans, InAppStage
  <1>7. ASSUME RequeueRefused PROVE Owned'
    BY <1>0, <1>7 DEF Ownership, TypeOK, TaskOwnsRow, LiveCoversInFlight,
       FailingIsFailed, QueuedHasNoStage, InFlight, RequeueRefused
  <1>8. ASSUME NEW j \in Jobs, ClaimFinalize(j) PROVE Owned'
    BY <1>0, <1>8, AtStageFacts DEF Ownership, TypeOK, TaskOwnsRow,
       LiveCoversInFlight, FailingIsFailed, QueuedHasNoStage, InFlight,
       ClaimFinalize, Write, Stages, ToFinalize, Running
  <1>9. ASSUME NothingToFinalize PROVE Owned'
    BY <1>0, <1>9 DEF Ownership, TypeOK, TaskOwnsRow, LiveCoversInFlight,
       FailingIsFailed, QueuedHasNoStage, InFlight, NothingToFinalize
  <1>10. ASSUME NEW j \in Jobs, ClaimNext(j) PROVE Owned'
    BY <1>0, <1>10, ClaimedFacts DEF Ownership, TypeOK, TaskOwnsRow,
       LiveCoversInFlight, FailingIsFailed, QueuedHasNoStage, InFlight,
       ClaimNext, Write, Claimable
  <1>11. ASSUME NEW p \in {"recover", "finalize"}, PumpDone(p) PROVE Owned'
    BY <1>0, <1>11 DEF Ownership, TypeOK, TaskOwnsRow, LiveCoversInFlight,
       FailingIsFailed, QueuedHasNoStage, InFlight, PumpDone
  <1>12. ASSUME NEW j \in Jobs, HandOff(j) PROVE Owned'
    BY <1>0, <1>12, HandedOffFacts DEF Ownership, TypeOK, TaskOwnsRow,
       LiveCoversInFlight, FailingIsFailed, QueuedHasNoStage, InFlight,
       HandOff, Write, Settle
  <1>13. ASSUME NEW j \in Jobs, MarkSucceeded(j) PROVE Owned'
    BY <1>0, <1>13, ClosedFacts DEF Ownership, TypeOK, TaskOwnsRow,
       LiveCoversInFlight, FailingIsFailed, QueuedHasNoStage, InFlight,
       MarkSucceeded, Write, Settle, Terminal
  <1>14. ASSUME NEW j \in Jobs, Defer(j) PROVE Owned'
    BY <1>0, <1>14, DeferredFacts DEF Ownership, TypeOK, TaskOwnsRow,
       LiveCoversInFlight, FailingIsFailed, QueuedHasNoStage, InFlight,
       Defer, Write, Settle
  <1>15. ASSUME NEW j \in Jobs, ScheduleRetry(j) PROVE Owned'
    BY <1>0, <1>15, RetriedFacts DEF Ownership, TypeOK, TaskOwnsRow,
       LiveCoversInFlight, FailingIsFailed, QueuedHasNoStage, InFlight,
       ScheduleRetry, Write, Settle, Throws
  <1>16. ASSUME NEW j \in Jobs, RetryCollides(j) PROVE Owned'
    BY <1>0, <1>16 DEF Ownership, TypeOK, TaskOwnsRow, LiveCoversInFlight,
       FailingIsFailed, QueuedHasNoStage, InFlight, RetryCollides, Settle,
       Throws
  <1>17. ASSUME NEW j \in Jobs, MarkFailed(j) PROVE Owned'
    BY <1>0, <1>17, ClosedFacts DEF Ownership, TypeOK, TaskOwnsRow,
       LiveCoversInFlight, FailingIsFailed, QueuedHasNoStage, InFlight,
       MarkFailed, Write, Throws, Terminal
  <1>18. ASSUME NEW j \in Jobs, CancelDependents(j) PROVE Owned'
    BY <1>0, <1>18, CancelledWithDependencyFacts DEF Ownership, TypeOK,
       TaskOwnsRow, LiveCoversInFlight, FailingIsFailed, QueuedHasNoStage,
       InFlight, CancelDependents, Dependents, Active
  <1>19. ASSUME NEW j \in Jobs, BecomeDue(j) PROVE Owned'
    BY <1>0, <1>19, LeaseStepsKeep, KeptOwnership
  <1>20. ASSUME NEW j \in Jobs, LeaseExpires(j) PROVE Owned'
    BY <1>0, <1>20, LeaseStepsKeep, KeptOwnership
  <1>21. ASSUME NEW e \in Execs, NEW j \in Jobs, Lease(e, j) PROVE Owned'
    BY <1>0, <1>21, LeaseStepsKeep, KeptOwnership
  <1>22. ASSUME NEW e \in Execs, NEW j \in Jobs, Heartbeat(e, j) PROVE Owned'
    BY <1>0, <1>22, LeaseStepsKeep, KeptOwnership
  <1>23. ASSUME NEW e \in Execs, NEW j \in Jobs, LoseLease(e, j) PROVE Owned'
    BY <1>0, <1>23, LeaseStepsKeep, KeptOwnership
  <1>24. ASSUME NEW e \in Execs, NEW j \in Jobs, NEW o \in {"ok", "error"},
               Finish(e, j, o)
        PROVE  Owned'
    BY <1>0, <1>24, ExecutedFacts DEF Ownership, TypeOK, TaskOwnsRow,
       LiveCoversInFlight, FailingIsFailed, QueuedHasNoStage, InFlight,
       Finish, Write, Ours, Outcomes
  <1>25. ASSUME NEW e \in Execs, DropResult(e) PROVE Owned'
    BY <1>0, <1>25, LeaseStepsKeep, KeptOwnership
  <1>26. ASSUME AppCrash PROVE Owned'
    BY <1>0, <1>26 DEF Ownership, TypeOK, TaskOwnsRow, LiveCoversInFlight,
       FailingIsFailed, QueuedHasNoStage, InFlight, AppCrash
  <1>27. ASSUME NEW p \in {"recover", "finalize"}, TickFails(p) PROVE Owned'
    BY <1>0, <1>27 DEF Ownership, TypeOK, TaskOwnsRow, LiveCoversInFlight,
       FailingIsFailed, QueuedHasNoStage, InFlight, TickFails
  <1>28. ASSUME NEW j \in Jobs, BookkeepingFails(j) PROVE Owned'
    BY <1>0, <1>28 DEF Ownership, TypeOK, TaskOwnsRow, LiveCoversInFlight,
       FailingIsFailed, QueuedHasNoStage, InFlight, BookkeepingFails, Settle
  <1>29. ASSUME NEW j \in Jobs, HeartbeatsFail(j) PROVE Owned'
    BY <1>0, <1>29, LeaseStepsKeep, KeptOwnership
  <1>30. ASSUME NEW e \in Execs, NEW j \in Jobs, Release(e, j) PROVE Owned'
    BY <1>0, <1>30, LeaseStepsKeep, KeptOwnership
  <1>31. ASSUME NEW w \in Workers, WorkerCrash(w) PROVE Owned'
    BY <1>0, <1>31, LeaseStepsKeep, KeptOwnership
  <1>32. ASSUME NEW e \in Execs, NEW j \in Jobs,
               FinishUnrecorded(e, j)
        PROVE  Owned'
    BY <1>0, <1>32, LeaseStepsKeep, KeptOwnership
  <1>33. ASSUME UNCHANGED vars PROVE Owned'
    BY <1>33, KeptOwnership DEF Kept, vars
  <1> QED
    BY <1>0, <1>1, <1>2, <1>3, <1>4, <1>5, <1>6, <1>7, <1>8, <1>9, <1>10,
       <1>11, <1>12, <1>13, <1>14, <1>15, <1>16, <1>17, <1>18, <1>19, <1>20,
       <1>21, <1>22, <1>23, <1>24, <1>25, <1>26, <1>27, <1>28, <1>29, <1>30,
       <1>31, <1>32, <1>33 DEF Next, Request, Tick, TaskStep, ExecStep,
       Fault, Ownership

(***************************************************************************)
(* In every reachable state a promise of the app worker owns the row it    *)
(* works on, for every set of jobs, workers and faults.                    *)
(***************************************************************************)
THEOREM OwnershipInvariant == Spec => []Ownership
  <1>1. Init => Ownership
    <2>1. Init => TypeOK
      BY JobsAssumption, LimitsAssumption
         DEF Init, TypeOK, Rows, Statuses, Stages, Outcomes, Active, TaskStates,
             Phases, Idle
    <2> QED
      BY <2>1 DEF Init, Ownership, TaskOwnsRow, LiveCoversInFlight,
         FailingIsFailed, QueuedHasNoStage, InFlight
  <1>2. Ownership /\ [Next]_vars => Ownership'
    BY OwnershipStep
  <1> QED
    BY <1>1, <1>2, PTL DEF Spec

(***************************************************************************)
(* The writes by id of handOff, markSucceeded, markFailed and scheduleRetry *)
(* only ever hit the row they were started for, or a cancelled one.        *)
(***************************************************************************)
THEOREM PromisesOwnTheirRows == Spec => []TaskOwnsRow
  <1>1. Ownership => TaskOwnsRow
    BY DEF Ownership
  <1> QED
    BY <1>1, OwnershipInvariant, PTL

-----------------------------------------------------------------------------

(***************************************************************************)
(* What one step does to one row: a finished job stays finished until it   *)
(* is pruned, a pruned one is gone, only claimNext starts a job, and the   *)
(* outcome an executor reported is not replaced.                           *)
(***************************************************************************)
LEMMA RowStep ==
    ASSUME Ownership, [Next]_vars, NEW j \in Jobs
    PROVE  /\ job[j].status = "succeeded" => job'[j].status \in {"succeeded", "pruned"}
           /\ job[j].status = "failed" => job'[j].status \in {"failed", "discarded"}
           /\ job[j].status \in Gone => job'[j].status = job[j].status
           /\ job'[j].status = "running" =>
                 job[j].status = "running" \/ ClaimNext(j)
           /\ Reported(j) /\ Reported(j)' => job'[j].outcome = job[j].outcome
  <1> DEFINE G == /\ job[j].status = "succeeded" =>
                       job'[j].status \in {"succeeded", "pruned"}
                  /\ job[j].status = "failed" =>
                       job'[j].status \in {"failed", "discarded"}
                  /\ job[j].status \in Gone => job'[j].status = job[j].status
                  /\ job'[j].status = "running" =>
                       job[j].status = "running" \/ ClaimNext(j)
                  /\ Reported(j) /\ Reported(j)' =>
                       job'[j].outcome = job[j].outcome
  <1> USE JobsAssumption, LimitsAssumption DEF Gone
  <1>0. TypeOK /\ TypeOK'
    BY TypeStep DEF Ownership
  <1>1. ASSUME NEW k \in Jobs, Enqueue(k) PROVE G
    BY <1>0, <1>1, CreatedFacts DEF Ownership, TypeOK, Reported, Enqueue,
       Write
  <1>2. ASSUME NEW k \in Jobs, Cancel(k) PROVE G
    BY <1>0, <1>2, CancelledFacts DEF Ownership, TypeOK, Reported, Cancel,
       Write, Active, InFlight
  <1>3. ASSUME NEW k \in Jobs, Prune(k) PROVE G
    BY <1>0, <1>3, PrunedFacts DEF Ownership, TypeOK, Reported, Prune, Write,
       Terminal
  <1>4. ASSUME RequeueFinalizing PROVE G
    BY <1>0, <1>4, AtStageFacts DEF Ownership, TypeOK, Reported,
       RequeueFinalizing, Stages
  <1>5. ASSUME SupersedeOrphans PROVE G
    BY <1>0, <1>5, CancelledFacts DEF Ownership, TypeOK, Reported,
       SupersedeOrphans, Orphans, InAppStage
  <1>6. ASSUME RequeueOrphans PROVE G
    BY <1>0, <1>6, RequeuedFacts DEF Ownership, TypeOK, Reported,
       RequeueOrphans, Orphans, InAppStage
  <1>7. ASSUME RequeueRefused PROVE G
    BY <1>0, <1>7 DEF Ownership, TypeOK, Reported, RequeueRefused
  <1>8. ASSUME NEW k \in Jobs, ClaimFinalize(k) PROVE G
    BY <1>0, <1>8, AtStageFacts DEF Ownership, TypeOK, Reported,
       ClaimFinalize, Write, Stages, ToFinalize, Running
  <1>9. ASSUME NothingToFinalize PROVE G
    BY <1>0, <1>9 DEF Ownership, TypeOK, Reported, NothingToFinalize
  <1>10. ASSUME NEW k \in Jobs, ClaimNext(k) PROVE G
    BY <1>0, <1>10, ClaimedFacts DEF Ownership, TypeOK, Reported, ClaimNext,
       Write, Claimable
  <1>11. ASSUME NEW p \in {"recover", "finalize"}, PumpDone(p) PROVE G
    BY <1>0, <1>11 DEF Ownership, TypeOK, Reported, PumpDone
  <1>12. ASSUME NEW k \in Jobs, HandOff(k) PROVE G
    BY <1>0, <1>12, HandedOffFacts DEF Ownership, TypeOK, Reported, HandOff,
       Write, Settle, TaskOwnsRow
  <1>13. ASSUME NEW k \in Jobs, MarkSucceeded(k) PROVE G
    BY <1>0, <1>13, ClosedFacts DEF Ownership, TypeOK, Reported,
       MarkSucceeded, Write, Settle, Terminal, TaskOwnsRow
  <1>14. ASSUME NEW k \in Jobs, Defer(k) PROVE G
    BY <1>0, <1>14, DeferredFacts DEF Ownership, TypeOK, Reported, Defer,
       Write, Settle, TaskOwnsRow
  <1>15. ASSUME NEW k \in Jobs, ScheduleRetry(k) PROVE G
    BY <1>0, <1>15, RetriedFacts DEF Ownership, TypeOK, Reported,
       ScheduleRetry, Write, Settle, TaskOwnsRow, Throws
  <1>16. ASSUME NEW k \in Jobs, RetryCollides(k) PROVE G
    BY <1>0, <1>16 DEF Ownership, TypeOK, Reported, RetryCollides, Settle,
       Throws
  <1>17. ASSUME NEW k \in Jobs, MarkFailed(k) PROVE G
    BY <1>0, <1>17, ClosedFacts DEF Ownership, TypeOK, Reported, MarkFailed,
       Write, Throws, Terminal, TaskOwnsRow
  <1>18. ASSUME NEW k \in Jobs, CancelDependents(k) PROVE G
    BY <1>0, <1>18, CancelledWithDependencyFacts DEF Ownership, TypeOK,
       Reported, CancelDependents, Dependents, Active
  <1>19. ASSUME NEW k \in Jobs, BecomeDue(k) PROVE G
    BY <1>0, <1>19, LeaseStepsKeep DEF Reported, Kept
  <1>20. ASSUME NEW k \in Jobs, LeaseExpires(k) PROVE G
    BY <1>0, <1>20, LeaseStepsKeep DEF Reported, Kept
  <1>21. ASSUME NEW e \in Execs, NEW k \in Jobs, Lease(e, k) PROVE G
    BY <1>0, <1>21, LeaseStepsKeep DEF Reported, Kept
  <1>22. ASSUME NEW e \in Execs, NEW k \in Jobs, Heartbeat(e, k) PROVE G
    BY <1>0, <1>22, LeaseStepsKeep DEF Reported, Kept
  <1>23. ASSUME NEW e \in Execs, NEW k \in Jobs, LoseLease(e, k) PROVE G
    BY <1>0, <1>23, LeaseStepsKeep DEF Reported, Kept
  <1>24. ASSUME NEW e \in Execs, NEW k \in Jobs, NEW o \in {"ok", "error"},
               Finish(e, k, o)
        PROVE  G
    BY <1>0, <1>24, ExecutedFacts DEF Ownership, TypeOK, Reported, Finish,
       Write, Ours, Outcomes
  <1>25. ASSUME NEW e \in Execs, DropResult(e) PROVE G
    BY <1>0, <1>25, LeaseStepsKeep DEF Reported, Kept
  <1>26. ASSUME AppCrash PROVE G
    BY <1>0, <1>26 DEF Ownership, TypeOK, Reported, AppCrash
  <1>27. ASSUME NEW p \in {"recover", "finalize"}, TickFails(p) PROVE G
    BY <1>0, <1>27 DEF Ownership, TypeOK, Reported, TickFails
  <1>28. ASSUME NEW k \in Jobs, BookkeepingFails(k) PROVE G
    BY <1>0, <1>28 DEF Ownership, TypeOK, Reported, BookkeepingFails, Settle
  <1>29. ASSUME NEW k \in Jobs, HeartbeatsFail(k) PROVE G
    BY <1>0, <1>29, LeaseStepsKeep DEF Reported, Kept
  <1>30. ASSUME NEW e \in Execs, NEW k \in Jobs, Release(e, k) PROVE G
    BY <1>0, <1>30, LeaseStepsKeep DEF Reported, Kept
  <1>31. ASSUME NEW w \in Workers, WorkerCrash(w) PROVE G
    BY <1>0, <1>31, LeaseStepsKeep DEF Reported, Kept
  <1>32. ASSUME NEW e \in Execs, NEW k \in Jobs,
               FinishUnrecorded(e, k)
        PROVE  G
    BY <1>0, <1>32, LeaseStepsKeep DEF Reported, Kept
  <1>33. ASSUME UNCHANGED vars PROVE G
    BY <1>33 DEF Reported, vars
  <1> QED
    BY <1>0, <1>1, <1>2, <1>3, <1>4, <1>5, <1>6, <1>7, <1>8, <1>9, <1>10,
       <1>11, <1>12, <1>13, <1>14, <1>15, <1>16, <1>17, <1>18, <1>19, <1>20,
       <1>21, <1>22, <1>23, <1>24, <1>25, <1>26, <1>27, <1>28, <1>29, <1>30,
       <1>31, <1>32, <1>33 DEF Next, Request, Tick, TaskStep, ExecStep, Fault

(***************************************************************************)
(* A succeeded or failed job never changes its status again until pruned.  *)
(***************************************************************************)
THEOREM FinishedJobsStay == Spec => FinishedIsFinal
  <1>1. Ownership /\ [Next]_vars =>
          [\A j \in Jobs : job[j].status \in {"succeeded", "failed"} =>
              job'[j].status \in {job[j].status, Pruned(job[j]).status}]_vars
    <2>1. Ownership => \A j \in Jobs : job[j] \in Rows
      BY DEF Ownership, TypeOK
    <2> QED
      BY <2>1, RowStep, PrunedFacts
  <1> QED
    BY <1>1, OwnershipInvariant, PTL DEF Spec, FinishedIsFinal

(***************************************************************************)
(* The outcome finalize acts on is the first one an executor reported.     *)
(***************************************************************************)
THEOREM FirstOutcomeStands == Spec => OutcomeRecordedOnce
  <1>1. Ownership /\ [Next]_vars =>
          [\A j \in Jobs : Reported(j) /\ Reported(j)' =>
              job'[j].outcome = job[j].outcome]_vars
    BY RowStep
  <1> QED
    BY <1>1, OwnershipInvariant, PTL DEF Spec, OutcomeRecordedOnce

(***************************************************************************)
(* While a job runs its dependency has succeeded, and stays so; a          *)
(* dependency that did not succeed is run past only once its row is gone.  *)
(***************************************************************************)
THEOREM DependenciesComeFirst == Spec => []RunsAfterDependency
  <1>1. Init => RunsAfterDependency
    BY DEF Init, RunsAfterDependency, Running
  <1>2. Ownership /\ RunsAfterDependency /\ [Next]_vars => RunsAfterDependency'
    <2> SUFFICES ASSUME Ownership, RunsAfterDependency, [Next]_vars,
                        NEW j \in Jobs, job'[j].status = "running",
                        DependsOn[j] # None
                 PROVE  job'[DependsOn[j]].status \in {"succeeded"} \cup Gone
      BY DEF RunsAfterDependency, Running, Gone
    <2>1. DependsOn[j] \in Jobs
      BY JobsAssumption
    <2>2. job[j].status = "running" \/ ClaimNext(j)
      BY RowStep
    <2>3. job[DependsOn[j]].status \in {"succeeded"} \cup Gone
      BY <2>2 DEF RunsAfterDependency, Running, DependencySatisfied, ClaimNext,
         Claimable, Gone
    <2> QED
      BY <2>1, <2>3, RowStep DEF Gone
  <1> QED
    BY <1>1, <1>2, OwnershipInvariant, PTL DEF Spec

-----------------------------------------------------------------------------
(***************************************************************************)
(* Every step of the queue is a step of the lock service, or none of it:   *)
(* claimNext starts a job beside running jobs it does not conflict with,   *)
(* and every other step only stops jobs.                                   *)
(***************************************************************************)
LEMMA LockStep ==
    ASSUME Ownership, [Next]_vars
    PROVE  [Locks!Next]_Running
  <1>1. ASSUME NEW j \in Jobs, ClaimNext(j) PROVE Locks!Start(j)
    <2>1. TypeOK
      BY DEF Ownership
    <2>2. Running' = Running \cup {j}
      BY <1>1, <2>1, ClaimedFacts DEF ClaimNext, Write, TypeOK, Running
    <2>3. j \notin Running
      BY <1>1 DEF ClaimNext, Claimable, Running
    <2>4. \A k \in Running : ~Locks!Conflict(j, k)
      BY <1>1 DEF ClaimNext, Claimable, LockFree, ExclusivityRespected,
         Locks!Conflict, Locks!SameLock
    <2> QED
      BY <2>2, <2>3, <2>4 DEF Locks!Start
  <1>2. ASSUME \A j \in Jobs : ~ClaimNext(j) PROVE Locks!Next
    <2>1. Running' \subseteq Running
      BY <1>2, RowStep DEF Running
    <2>2. Running' = Running \ (Running \ Running')
      BY <2>1
    <2>3. Running \ Running' \in SUBSET Jobs
      BY DEF Running
    <2> QED
      BY <2>2, <2>3 DEF Locks!Next, Locks!Stop
  <1> QED
    BY <1>1, <1>2 DEF Locks!Next

(***************************************************************************)
(* The job table implements the abstract lock service.                     *)
(***************************************************************************)
THEOREM ImplementsRunLocks == Spec => LocksSpec
  <1>1. Init => Locks!Init
    BY DEF Init, Locks!Init, Running
  <1>2. Ownership /\ [Next]_vars => [Locks!Next]_Running
    BY LockStep
  <1> QED
    BY <1>1, <1>2, OwnershipInvariant, PTL DEF Spec, LocksSpec, Locks!Spec

(***************************************************************************)
(* Jobs that share a lock key, and exclusive jobs, never run together.     *)
(***************************************************************************)
THEOREM ConflictingJobsNeverRun == Spec => []NoConflictingJobs
  <1>1. Init => NoConflictingJobs
    BY DEF Init, NoConflictingJobs, Locks!NoConflict, Running
  <1>2. Ownership /\ NoConflictingJobs /\ [Next]_vars => NoConflictingJobs'
    <2> SUFFICES ASSUME Ownership, NoConflictingJobs, [Next]_vars
                 PROVE  NoConflictingJobs'
      OBVIOUS
    <2>1. ASSUME NEW j \in Jobs, Locks!Start(j) PROVE NoConflictingJobs'
      BY <2>1 DEF NoConflictingJobs, Locks!NoConflict, Locks!Start,
         Locks!Conflict, Locks!SameLock
    <2>2. ASSUME NEW S \in SUBSET Jobs, Locks!Stop(S) PROVE NoConflictingJobs'
      BY <2>2 DEF NoConflictingJobs, Locks!NoConflict, Locks!Stop,
         Locks!Conflict, Locks!SameLock
    <2>3. CASE Running' = Running
      BY <2>3 DEF NoConflictingJobs, Locks!NoConflict, Locks!Conflict,
         Locks!SameLock
    <2> QED
      BY <2>1, <2>2, <2>3, LockStep DEF Locks!Next
  <1> QED
    BY <1>1, <1>2, OwnershipInvariant, PTL DEF Spec

-----------------------------------------------------------------------------
\* Interruptions count up, by one at every crash and every lost write.
LEMMA InterruptionFacts ==
    ASSUME TypeOK
    PROVE  /\ Interruptions \in Nat
           /\ UNCHANGED spent => Interruptions' = Interruptions
           /\ \A f \in Faults : Spend(f) =>
                 Interruptions' \in Nat /\ Interruptions <= Interruptions'
           /\ \A f \in {"appCrash", "dbError"} : Spend(f) =>
                 Interruptions' = Interruptions + 1
  BY DEF TypeOK, Interruptions, Spend, Faults

(***************************************************************************)
(* Every step keeps the bound on attempts: the jobs that may be claimed    *)
(* again have an attempt to spare, or lost one to an interruption.         *)
(***************************************************************************)
LEMMA AttemptStep ==
    ASSUME Ownership, AttemptsBounded, AttemptToSpare, [Next]_vars
    PROVE  (AttemptsBounded /\ AttemptToSpare)'
  <1> DEFINE G == (AttemptsBounded /\ AttemptToSpare)'
  <1> TypeOK
    BY DEF Ownership
  <1>0. \A j \in Jobs : job[j] \in Rows /\ job[j].attempts \in Nat /\ MaxAttempts[j] \in Nat \ {0}
    BY JobsAssumption DEF TypeOK, Rows
  <1>1. ASSUME NEW k \in Jobs, Enqueue(k) PROVE G
    BY <1>0, <1>1, InterruptionFacts, CreatedFacts DEF TypeOK,
       AttemptsBounded, AttemptToSpare, MayBeClaimed, InAppStage, Write,
       Enqueue
  <1>2. ASSUME NEW k \in Jobs, Cancel(k) PROVE G
    BY <1>0, <1>2, InterruptionFacts, CancelledFacts DEF TypeOK,
       AttemptsBounded, AttemptToSpare, MayBeClaimed, InAppStage, Write,
       Cancel, Faults
  <1>3. ASSUME NEW k \in Jobs, Prune(k) PROVE G
    BY <1>0, <1>3, InterruptionFacts, PrunedFacts DEF TypeOK,
       AttemptsBounded, AttemptToSpare, MayBeClaimed, InAppStage, Write,
       Prune, Faults
  <1>4. ASSUME RequeueFinalizing PROVE G
    BY <1>0, <1>4, InterruptionFacts, AtStageFacts DEF TypeOK,
       AttemptsBounded, AttemptToSpare, MayBeClaimed, InAppStage, Stages,
       RequeueFinalizing
  <1>5. ASSUME SupersedeOrphans PROVE G
    BY <1>0, <1>5, InterruptionFacts, CancelledFacts DEF TypeOK,
       AttemptsBounded, AttemptToSpare, MayBeClaimed, InAppStage,
       SupersedeOrphans
  <1>6. ASSUME RequeueOrphans PROVE G
    BY <1>0, <1>6, InterruptionFacts, RequeuedFacts DEF TypeOK,
       AttemptsBounded, AttemptToSpare, MayBeClaimed, InAppStage, Ownership,
       Orphans, LiveCoversInFlight, InFlight, RequeueOrphans
  <1>7. ASSUME RequeueRefused PROVE G
    BY <1>0, <1>7, InterruptionFacts DEF TypeOK, AttemptsBounded,
       AttemptToSpare, MayBeClaimed, InAppStage, RequeueRefused
  <1>8. ASSUME NEW k \in Jobs, ClaimFinalize(k) PROVE G
    BY <1>0, <1>8, InterruptionFacts, AtStageFacts DEF TypeOK,
       AttemptsBounded, AttemptToSpare, MayBeClaimed, InAppStage, Write,
       Stages, ClaimFinalize
  <1>9. ASSUME NothingToFinalize PROVE G
    BY <1>0, <1>9, InterruptionFacts DEF TypeOK, AttemptsBounded,
       AttemptToSpare, MayBeClaimed, InAppStage, NothingToFinalize
  <1>10. ASSUME NEW k \in Jobs, ClaimNext(k) PROVE G
    BY <1>0, <1>10, InterruptionFacts, ClaimedFacts DEF TypeOK,
       AttemptsBounded, AttemptToSpare, MayBeClaimed, InAppStage, Write,
       Claimable, ClaimNext
  <1>11. ASSUME NEW p \in {"recover", "finalize"}, PumpDone(p) PROVE G
    BY <1>0, <1>11, InterruptionFacts DEF TypeOK, AttemptsBounded,
       AttemptToSpare, MayBeClaimed, InAppStage, PumpDone
  <1>12. ASSUME NEW k \in Jobs, HandOff(k) PROVE G
    BY <1>0, <1>12, InterruptionFacts, HandedOffFacts DEF TypeOK,
       AttemptsBounded, AttemptToSpare, MayBeClaimed, InAppStage, Write,
       Settle, HandOff
  <1>13. ASSUME NEW k \in Jobs, MarkSucceeded(k) PROVE G
    BY <1>0, <1>13, InterruptionFacts, ClosedFacts DEF TypeOK,
       AttemptsBounded, AttemptToSpare, MayBeClaimed, InAppStage, Write,
       Settle, Terminal, MarkSucceeded
  <1>14. ASSUME NEW k \in Jobs, Defer(k) PROVE G
    <2>1. Interruptions \in Nat /\ Interruptions' \in Nat /\ Interruptions <= Interruptions'
      BY <1>14, InterruptionFacts DEF Defer, Faults
    <2>2. \A j \in Jobs : j # k => job'[j] = job[j] /\ task'[j] = task[j]
      BY <1>14 DEF Defer, Write, Settle, TypeOK
    <2>3. job'[k] = Deferred(job[k])
      BY <1>14 DEF Defer, Write, TypeOK
    <2>4. job'[k].attempts < MaxAttempts[k] + Interruptions'
      <3>1. job[k].attempts <= MaxAttempts[k] + Interruptions
        BY DEF AttemptsBounded
      <3>2. job'[k].attempts = IF job[k].attempts > 0 THEN job[k].attempts - 1 ELSE 0
        BY <1>0, <2>3, DeferredFacts
      <3> QED
        BY <1>0, <2>1, <3>1, <3>2
    <2>5. \A j \in Jobs : job'[j].attempts \in Nat
      BY <1>0, <2>2, <2>3, DeferredFacts DEF Rows
    <2> QED
      BY <1>0, <2>1, <2>2, <2>4, <2>5 DEF AttemptsBounded, AttemptToSpare,
         MayBeClaimed, InAppStage
  <1>15. ASSUME NEW k \in Jobs, ScheduleRetry(k) PROVE G
    BY <1>0, <1>15, InterruptionFacts, RetriedFacts DEF TypeOK,
       AttemptsBounded, AttemptToSpare, MayBeClaimed, InAppStage, Write,
       Settle, AttemptsLeft, ScheduleRetry
  <1>16. ASSUME NEW k \in Jobs, RetryCollides(k) PROVE G
    BY <1>0, <1>16, InterruptionFacts DEF TypeOK, AttemptsBounded,
       AttemptToSpare, MayBeClaimed, InAppStage, Settle, AttemptsLeft,
       RetryCollides
  <1>17. ASSUME NEW k \in Jobs, MarkFailed(k) PROVE G
    BY <1>0, <1>17, InterruptionFacts, ClosedFacts DEF TypeOK,
       AttemptsBounded, AttemptToSpare, MayBeClaimed, InAppStage, Write,
       Terminal, MarkFailed
  <1>18. ASSUME NEW k \in Jobs, CancelDependents(k) PROVE G
    BY <1>0, <1>18, InterruptionFacts, CancelledWithDependencyFacts DEF
       TypeOK, AttemptsBounded, AttemptToSpare, MayBeClaimed, InAppStage,
       Ownership, FailingIsFailed, CancelDependents
  <1>19. ASSUME NEW k \in Jobs, BecomeDue(k) PROVE G
    BY <1>0, <1>19, LeaseStepsKeep, InterruptionFacts DEF AttemptsBounded,
       AttemptToSpare, MayBeClaimed, InAppStage, Kept, BecomeDue
  <1>20. ASSUME NEW k \in Jobs, LeaseExpires(k) PROVE G
    BY <1>0, <1>20, LeaseStepsKeep, InterruptionFacts DEF AttemptsBounded,
       AttemptToSpare, MayBeClaimed, InAppStage, Kept, LeaseExpires
  <1>21. ASSUME NEW e \in Execs, NEW k \in Jobs, Lease(e, k) PROVE G
    BY <1>0, <1>21, LeaseStepsKeep, InterruptionFacts DEF AttemptsBounded,
       AttemptToSpare, MayBeClaimed, InAppStage, Kept, Lease
  <1>22. ASSUME NEW e \in Execs, NEW k \in Jobs, Heartbeat(e, k) PROVE G
    BY <1>0, <1>22, LeaseStepsKeep, InterruptionFacts DEF AttemptsBounded,
       AttemptToSpare, MayBeClaimed, InAppStage, Kept, Heartbeat
  <1>23. ASSUME NEW e \in Execs, NEW k \in Jobs, LoseLease(e, k) PROVE G
    BY <1>0, <1>23, LeaseStepsKeep, InterruptionFacts DEF AttemptsBounded,
       AttemptToSpare, MayBeClaimed, InAppStage, Kept, LoseLease
  <1>24. ASSUME NEW e \in Execs, NEW k \in Jobs, NEW o \in {"ok", "error"},
               Finish(e, k, o)
        PROVE  G
    BY <1>0, <1>24, InterruptionFacts, ExecutedFacts DEF TypeOK,
       AttemptsBounded, AttemptToSpare, MayBeClaimed, InAppStage, Write,
       Outcomes, Finish
  <1>25. ASSUME NEW e \in Execs, DropResult(e) PROVE G
    BY <1>0, <1>25, LeaseStepsKeep, InterruptionFacts DEF AttemptsBounded,
       AttemptToSpare, MayBeClaimed, InAppStage, Kept, DropResult
  <1>26. ASSUME AppCrash PROVE G
    BY <1>0, <1>26, InterruptionFacts DEF TypeOK, AttemptsBounded,
       AttemptToSpare, MayBeClaimed, InAppStage, AppCrash, Faults
  <1>27. ASSUME NEW p \in {"recover", "finalize"}, TickFails(p) PROVE G
    BY <1>0, <1>27, InterruptionFacts DEF TypeOK, AttemptsBounded,
       AttemptToSpare, MayBeClaimed, InAppStage, TickFails
  <1>28. ASSUME NEW k \in Jobs, BookkeepingFails(k) PROVE G
    BY <1>0, <1>28, InterruptionFacts DEF TypeOK, AttemptsBounded,
       AttemptToSpare, MayBeClaimed, InAppStage, Settle, BookkeepingFails,
       Faults
  <1>29. ASSUME NEW k \in Jobs, HeartbeatsFail(k) PROVE G
    BY <1>0, <1>29, LeaseStepsKeep, InterruptionFacts DEF AttemptsBounded,
       AttemptToSpare, MayBeClaimed, InAppStage, Kept, HeartbeatsFail, Faults
  <1>30. ASSUME NEW e \in Execs, NEW k \in Jobs, Release(e, k) PROVE G
    <2>1. Kept
      BY <1>30, LeaseStepsKeep
    <2>2. Interruptions \in Nat /\ Interruptions' \in Nat /\ Interruptions <= Interruptions'
      BY <1>30, InterruptionFacts DEF Release, Faults
    <2> QED
      BY <1>0, <2>1, <2>2 DEF AttemptsBounded, AttemptToSpare, MayBeClaimed,
         InAppStage, Kept
  <1>31. ASSUME NEW w \in Workers, WorkerCrash(w) PROVE G
    BY <1>0, <1>31, LeaseStepsKeep, InterruptionFacts DEF AttemptsBounded,
       AttemptToSpare, MayBeClaimed, InAppStage, Kept, WorkerCrash, Faults
  <1>32. ASSUME NEW e \in Execs, NEW k \in Jobs,
               FinishUnrecorded(e, k)
        PROVE  G
    BY <1>0, <1>32, LeaseStepsKeep, InterruptionFacts DEF AttemptsBounded,
       AttemptToSpare, MayBeClaimed, InAppStage, Kept, FinishUnrecorded,
       Faults
  <1>33. ASSUME UNCHANGED vars PROVE G
    BY <1>33, InterruptionFacts DEF AttemptsBounded, AttemptToSpare,
       MayBeClaimed, InAppStage, vars
  <1> QED
    BY <1>1, <1>2, <1>3, <1>4, <1>5, <1>6, <1>7, <1>8, <1>9, <1>10, <1>11,
       <1>12, <1>13, <1>14, <1>15, <1>16, <1>17, <1>18, <1>19, <1>20, <1>21,
       <1>22, <1>23, <1>24, <1>25, <1>26, <1>27, <1>28, <1>29, <1>30, <1>31,
       <1>32, <1>33 DEF Next, Request, Tick, TaskStep, ExecStep, Fault

(***************************************************************************)
(* A job is claimed at most maxAttempts times, plus once for every crash   *)
(* of the app or lost bookkeeping write.                                   *)
(***************************************************************************)
THEOREM AttemptsAreBounded == Spec => []AttemptsBounded
  <1>1. Init => AttemptsBounded /\ AttemptToSpare
    BY JobsAssumption DEF Init, AttemptsBounded, AttemptToSpare, MayBeClaimed,
       InAppStage, Interruptions, Faults
  <1>2. Ownership /\ AttemptsBounded /\ AttemptToSpare /\ [Next]_vars
          => (AttemptsBounded /\ AttemptToSpare)'
    BY AttemptStep
  <1> QED
    BY <1>1, <1>2, OwnershipInvariant, PTL DEF Spec

-----------------------------------------------------------------------------
\* A step counts at most one event, and none without its guard.
LEMMA CountedStep ==
    ASSUME [Next]_vars
    PROVE  UNCHANGED spent \/ \E f \in Faults : Spend(f)
  <1>1. ASSUME Request PROVE UNCHANGED spent \/ \E f \in Faults : Spend(f)
    BY <1>1 DEF Request, Enqueue, Cancel, Prune, Faults
  <1>2. ASSUME Tick PROVE UNCHANGED spent
    BY <1>2 DEF Tick, RequeueFinalizing, SupersedeOrphans, RequeueOrphans,
       RequeueRefused, ClaimFinalize, NothingToFinalize, ClaimNext, PumpDone
  <1>3. ASSUME NEW j \in Jobs, TaskStep(j)
        PROVE  UNCHANGED spent \/ \E f \in Faults : Spend(f)
    BY <1>3 DEF TaskStep, HandOff, MarkSucceeded, Defer, ScheduleRetry,
       RetryCollides, MarkFailed, Faults
  <1>4. ASSUME NEW j \in Jobs,
               CancelDependents(j) \/ BecomeDue(j) \/ LeaseExpires(j)
        PROVE  UNCHANGED spent
    BY <1>4 DEF CancelDependents, BecomeDue, LeaseExpires
  <1>5. ASSUME NEW e \in Execs, ExecStep(e) \/ DropResult(e)
        PROVE  UNCHANGED spent
    BY <1>5 DEF ExecStep, Lease, Heartbeat, LoseLease, Finish, DropResult
  <1>6. ASSUME Fault PROVE \E f \in Faults : Spend(f)
    BY <1>6 DEF Fault, AppCrash, BookkeepingFails, HeartbeatsFail, TickFails,
       Release, WorkerCrash, FinishUnrecorded, Faults
  <1>7. ASSUME UNCHANGED vars PROVE UNCHANGED spent
    BY <1>7 DEF vars
  <1> QED
    BY <1>1, <1>2, <1>3, <1>4, <1>5, <1>6, <1>7 DEF Next

\* What the lease columns are after a lease and after a heartbeat.
LEMMA LeaseColumns ==
    ASSUME NEW r \in Rows
    PROVE  /\ \A w \in Workers : Leased(r, w).worker = w /\ Leased(r, w).fresh
           /\ Refreshed(r).worker = r.worker /\ Refreshed(r).fresh
  BY DEF Rows, Leased, Refreshed

(***************************************************************************)
(* As long as no lease expires under a live execution, every step keeps    *)
(* executions and leases one to one.                                       *)
(***************************************************************************)
LEMMA LeaseStep ==
    ASSUME Ownership, LeasesHeld, [Next]_vars
    PROVE  LeasesHeld'
  <1> DEFINE One == \A d, e \in Execs :
                 exec[d].job # None /\ exec[d].job = exec[e].job => d = e
             G == (ExecutionsHoldLeases /\ One)'
  <1> SUFFICES ASSUME spent'["expiry"] = 0 PROVE G
    BY DEF LeasesHeld, OneExecutionPerJob
  <1>a. TypeOK /\ TypeOK'
    BY TypeStep DEF Ownership
  <1>b. spent["expiry"] = 0
    BY <1>a, CountedStep, SpendFacts DEF TypeOK, Faults
  <1>0. ExecutionsHoldLeases /\ One
    BY <1>b DEF LeasesHeld, OneExecutionPerJob
  <1>c. \A e \in Execs : e[1] \in Workers /\ e[1] # None
    BY NoneAssumption DEF Execs
  <1> USE NoneAssumption
  <1>1. ASSUME NEW k \in Jobs, Enqueue(k) PROVE G
    BY <1>a, <1>0, <1>c, <1>1, CreatedFacts DEF TypeOK, ExecutionsHoldLeases,
       HoldsLease, Enqueue, Write
  <1>2. ASSUME NEW k \in Jobs, Cancel(k) PROVE G
    BY <1>a, <1>0, <1>c, <1>2, CancelledFacts DEF TypeOK,
       ExecutionsHoldLeases, HoldsLease, Cancel, Write, Active
  <1>3. ASSUME NEW k \in Jobs, Prune(k) PROVE G
    BY <1>a, <1>0, <1>c, <1>3, PrunedFacts DEF TypeOK, ExecutionsHoldLeases,
       HoldsLease, Prune, Write, Terminal
  <1>4. ASSUME RequeueFinalizing PROVE G
    BY <1>a, <1>0, <1>c, <1>4, AtStageFacts DEF TypeOK, ExecutionsHoldLeases,
       HoldsLease, RequeueFinalizing, Stages
  <1>5. ASSUME SupersedeOrphans PROVE G
    BY <1>a, <1>0, <1>c, <1>5, CancelledFacts DEF TypeOK,
       ExecutionsHoldLeases, HoldsLease, SupersedeOrphans, Orphans,
       InAppStage
  <1>6. ASSUME RequeueOrphans PROVE G
    BY <1>a, <1>0, <1>c, <1>6, RequeuedFacts DEF TypeOK,
       ExecutionsHoldLeases, HoldsLease, RequeueOrphans, Orphans, InAppStage
  <1>7. ASSUME RequeueRefused PROVE G
    BY <1>a, <1>0, <1>c, <1>7 DEF TypeOK, ExecutionsHoldLeases, HoldsLease,
       RequeueRefused
  <1>8. ASSUME NEW k \in Jobs, ClaimFinalize(k) PROVE G
    BY <1>a, <1>0, <1>c, <1>8, AtStageFacts DEF TypeOK, ExecutionsHoldLeases,
       HoldsLease, ClaimFinalize, Write, Stages, ToFinalize, Running
  <1>9. ASSUME NothingToFinalize PROVE G
    BY <1>a, <1>0, <1>c, <1>9 DEF TypeOK, ExecutionsHoldLeases, HoldsLease,
       NothingToFinalize
  <1>10. ASSUME NEW k \in Jobs, ClaimNext(k) PROVE G
    BY <1>a, <1>0, <1>c, <1>10, ClaimedFacts DEF TypeOK,
       ExecutionsHoldLeases, HoldsLease, ClaimNext, Write, Claimable
  <1>11. ASSUME NEW p \in {"recover", "finalize"}, PumpDone(p) PROVE G
    BY <1>a, <1>0, <1>c, <1>11 DEF TypeOK, ExecutionsHoldLeases, HoldsLease,
       PumpDone
  <1>12. ASSUME NEW k \in Jobs, HandOff(k) PROVE G
    BY <1>a, <1>0, <1>c, <1>12, HandedOffFacts DEF TypeOK,
       ExecutionsHoldLeases, HoldsLease, HandOff, Write, Settle
  <1>13. ASSUME NEW k \in Jobs, MarkSucceeded(k) PROVE G
    BY <1>a, <1>0, <1>c, <1>13, ClosedFacts DEF TypeOK, ExecutionsHoldLeases,
       HoldsLease, MarkSucceeded, Write, Settle, Terminal
  <1>14. ASSUME NEW k \in Jobs, Defer(k) PROVE G
    BY <1>a, <1>0, <1>c, <1>14, DeferredFacts DEF TypeOK,
       ExecutionsHoldLeases, HoldsLease, Defer, Write, Settle
  <1>15. ASSUME NEW k \in Jobs, ScheduleRetry(k) PROVE G
    BY <1>a, <1>0, <1>c, <1>15, RetriedFacts DEF TypeOK,
       ExecutionsHoldLeases, HoldsLease, ScheduleRetry, Write, Settle, Throws
  <1>16. ASSUME NEW k \in Jobs, RetryCollides(k) PROVE G
    BY <1>a, <1>0, <1>c, <1>16 DEF TypeOK, ExecutionsHoldLeases, HoldsLease,
       RetryCollides, Settle, Throws
  <1>17. ASSUME NEW k \in Jobs, MarkFailed(k) PROVE G
    BY <1>a, <1>0, <1>c, <1>17, ClosedFacts DEF TypeOK, ExecutionsHoldLeases,
       HoldsLease, MarkFailed, Write, Throws, Terminal
  <1>18. ASSUME NEW k \in Jobs, CancelDependents(k) PROVE G
    BY <1>a, <1>0, <1>c, <1>18, CancelledWithDependencyFacts DEF TypeOK,
       ExecutionsHoldLeases, HoldsLease, CancelDependents, Dependents, Active
  <1>19. ASSUME NEW k \in Jobs, BecomeDue(k) PROVE G
    BY <1>a, <1>0, <1>c, <1>19, DueFacts DEF TypeOK, ExecutionsHoldLeases,
       HoldsLease, BecomeDue, Write
  <1>20. ASSUME NEW k \in Jobs, LeaseExpires(k) PROVE G
    BY <1>a, <1>0, <1>c, <1>20, BeatFacts DEF TypeOK, ExecutionsHoldLeases,
       HoldsLease, LeaseExpires, Write, Attended, Executing, Execs
  <1>21. ASSUME NEW e \in Execs, NEW k \in Jobs, Lease(e, k) PROVE G
    <2>1. k \in Jobs /\ job[k].status = "running" /\ job[k].stage = "execute"
          /\ (job[k].worker = None \/ ~job[k].fresh)
      BY <1>21 DEF Lease, Leasable, Running
    <2>2. \A d \in Execs : exec[d].job # k
      BY <1>0, <1>c, <2>1 DEF ExecutionsHoldLeases, HoldsLease
    <2>3. task[k] = "idle"
      BY <1>a, <2>1 DEF Ownership, TypeOK, TaskOwnsRow, FailingIsFailed, TaskStates
    <2>4. /\ job'[k] = Leased(job[k], e[1])
          /\ \A j \in Jobs : j # k => job'[j] = job[j]
          /\ exec'[e] = [job |-> k, lost |-> FALSE]
          /\ \A d \in Execs : d # e => exec'[d] = exec[d]
          /\ task' = task
      BY <1>a, <1>21 DEF Lease, Write, TypeOK
    <2>5. /\ job'[k].status = "running" /\ job'[k].stage = "execute"
          /\ job'[k].worker = e[1] /\ job'[k].fresh
      BY <1>a, <1>c, <2>1, <2>4, LeasedFacts, LeaseColumns DEF TypeOK
    <2> QED
      BY <1>0, <2>2, <2>3, <2>4, <2>5 DEF ExecutionsHoldLeases, HoldsLease
  <1>22. ASSUME NEW e \in Execs, NEW k \in Jobs, Heartbeat(e, k) PROVE G
    BY <1>a, <1>0, <1>c, <1>22, BeatFacts, LeaseColumns DEF TypeOK,
       ExecutionsHoldLeases, HoldsLease, Heartbeat, Write, Executing, Ours
  <1>23. ASSUME NEW e \in Execs, NEW k \in Jobs, LoseLease(e, k) PROVE G
    BY <1>a, <1>0, <1>c, <1>23 DEF TypeOK, ExecutionsHoldLeases, HoldsLease,
       LoseLease, Executing, Ours
  <1>24. ASSUME NEW e \in Execs, NEW k \in Jobs, NEW o \in {"ok", "error"},
               Finish(e, k, o)
        PROVE  G
    BY <1>a, <1>0, <1>c, <1>24, ExecutedFacts DEF TypeOK,
       ExecutionsHoldLeases, HoldsLease, Finish, Write, Executing, Ours, Idle
  <1>25. ASSUME NEW e \in Execs, DropResult(e) PROVE G
    BY <1>a, <1>0, <1>c, <1>25 DEF TypeOK, ExecutionsHoldLeases, HoldsLease,
       DropResult, Idle
  <1>26. ASSUME AppCrash PROVE G
    BY <1>a, <1>0, <1>c, <1>26 DEF TypeOK, ExecutionsHoldLeases, HoldsLease,
       AppCrash
  <1>27. ASSUME NEW p \in {"recover", "finalize"}, TickFails(p) PROVE G
    BY <1>a, <1>0, <1>c, <1>27 DEF TypeOK, ExecutionsHoldLeases, HoldsLease,
       TickFails
  <1>28. ASSUME NEW k \in Jobs, BookkeepingFails(k) PROVE G
    BY <1>a, <1>0, <1>c, <1>28 DEF TypeOK, ExecutionsHoldLeases, HoldsLease,
       BookkeepingFails, Settle
  <1>29. ASSUME NEW k \in Jobs, HeartbeatsFail(k) PROVE G
    BY <1>a, <1>0, <1>c, <1>29, SpendFacts DEF TypeOK, ExecutionsHoldLeases,
       HoldsLease, HeartbeatsFail, Write, Faults
  <1>30. ASSUME NEW e \in Execs, NEW k \in Jobs, Release(e, k) PROVE G
    BY <1>a, <1>0, <1>c, <1>30, ReleasedFacts DEF TypeOK,
       ExecutionsHoldLeases, HoldsLease, Release, Write, Executing, Idle
  <1>31. ASSUME NEW w \in Workers, WorkerCrash(w) PROVE G
    BY <1>a, <1>0, <1>c, <1>31 DEF TypeOK, ExecutionsHoldLeases, HoldsLease,
       WorkerCrash, Idle
  <1>32. ASSUME NEW e \in Execs, NEW k \in Jobs,
               FinishUnrecorded(e, k)
        PROVE  G
    BY <1>a, <1>0, <1>c, <1>32 DEF TypeOK, ExecutionsHoldLeases, HoldsLease,
       FinishUnrecorded, Executing, Idle
  <1>33. ASSUME UNCHANGED vars PROVE G
    BY <1>0, <1>33 DEF ExecutionsHoldLeases, HoldsLease, vars
  <1> QED
    BY <1>1, <1>2, <1>3, <1>4, <1>5, <1>6, <1>7, <1>8, <1>9, <1>10, <1>11,
       <1>12, <1>13, <1>14, <1>15, <1>16, <1>17, <1>18, <1>19, <1>20, <1>21,
       <1>22, <1>23, <1>24, <1>25, <1>26, <1>27, <1>28, <1>29, <1>30, <1>31,
       <1>32, <1>33 DEF Next, Request, Tick, TaskStep, ExecStep, Fault

(***************************************************************************)
(* A job never executes twice at the same time as long as no execution's   *)
(* heartbeats failed for a whole lease, whatever else crashes or stops.    *)
(***************************************************************************)
THEOREM JobsExecuteOnce == Spec => []OneExecutionPerJob
  <1>1. Init => LeasesHeld
    BY NoneAssumption DEF Init, LeasesHeld, ExecutionsHoldLeases,
       OneExecutionPerJob, Idle
  <1>2. Ownership /\ LeasesHeld /\ [Next]_vars => LeasesHeld'
    BY LeaseStep
  <1>3. LeasesHeld => OneExecutionPerJob
    BY DEF LeasesHeld, OneExecutionPerJob
  <1> QED
    BY <1>1, <1>2, <1>3, OwnershipInvariant, PTL DEF Spec
=============================================================================
