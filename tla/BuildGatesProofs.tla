-------------------------- MODULE BuildGatesProofs --------------------------
(***************************************************************************)
(* Proofs about BuildGates for every finite set of deploys, every set of   *)
(* build servers and limits, every set of commits and any number of polls, *)
(* cancels, restarts and changes of settings.                              *)
(***************************************************************************)
EXTENDS BuildGates, FiniteSetTheorems, TLAPS

\* What a step of one deploy keeps: the other deploys, the invariant's claims
\* on its own row, and that only a free slot is taken.
Advances(j) ==
    /\ checks' = checks
    /\ \A k \in Jobs \ {j} : /\ job'[k] = job[k] /\ task'[k] = task[k]
                             /\ plan'[k] = plan[k]
    /\ StageFits(j)' /\ SlotRecorded(j)'
    /\ j \in Checked => CommitFits(j)'
    /\ Admitted(j)' /\ plan'[j].host \in Hosts =>
          \/ Admitted(j) /\ plan[j].host = plan'[j].host
          \/ LET h == plan'[j].host IN Limit[h] = 0 \/ ActiveOn(j, h) < Limit[h]

-----------------------------------------------------------------------------
(* The row operators.                                                      *)

\* A deferral queues the row again without a stage or a build server.
LEMMA DeferredFacts ==
    ASSUME NEW r \in Rows, NEW gate \in {"none", "status-checks", "build-slot"}
    PROVE  /\ Deferred(r, gate) \in Rows
           /\ Deferred(r, gate).status = "queued" /\ Deferred(r, gate).stage = "none"
           /\ Deferred(r, gate).gate = gate /\ Deferred(r, gate).commit = r.commit
  <1> DEFINE waited == IF r.gate = gate THEN r.waited ELSE 0
  <1>1. waited \in 0..TimeoutPolls
    BY PollsAssumption DEF Rows
  <1>2. Deferred(r, gate) =
           [r EXCEPT !.status = "queued", !.stage = "none", !.due = FALSE, !.host = None,
                     !.gate = gate, !.waited = waited]
    BY Zenon DEF Deferred
  <1> HIDE DEF waited
  <1> QED
    BY <1>1, <1>2, Zenon DEF Rows

\* A row that ends loses its stage and keeps its gate and its commit.
LEMMA ClosedFacts ==
    ASSUME NEW r \in Rows, NEW status \in Ended
    PROVE  /\ Closed(r, status) \in Rows
           /\ Closed(r, status).status = status /\ Closed(r, status).stage = "none"
           /\ Closed(r, status).gate = r.gate /\ Closed(r, status).commit = r.commit
  BY DEF Closed, Rows

\* A change of status keeps the other columns.
LEMMA StatusFacts ==
    ASSUME NEW r \in Rows, NEW status \in {"queued", "running"}
    PROVE  LET new == [r EXCEPT !.status = status]
           IN  /\ new \in Rows /\ new.status = status /\ new.stage = r.stage
               /\ new.gate = r.gate /\ new.commit = r.commit /\ new.host = r.host
  BY Zenon DEF Rows

\* A change of stage keeps the other columns.
LEMMA StageFacts ==
    ASSUME NEW r \in Rows, NEW stage \in {"execute", "finalize"}
    PROVE  LET new == [r EXCEPT !.stage = stage]
           IN  /\ new \in Rows /\ new.status = r.status /\ new.stage = stage
               /\ new.gate = r.gate /\ new.commit = r.commit /\ new.host = r.host
  BY Zenon DEF Rows

\* A change of the build server keeps the other columns.
LEMMA HostFacts ==
    ASSUME NEW r \in Rows, NEW h \in Hosts
    PROVE  LET new == [r EXCEPT !.host = h]
           IN  /\ new \in Rows /\ new.status = r.status /\ new.stage = r.stage
               /\ new.gate = r.gate /\ new.commit = r.commit /\ new.host = h
  BY Zenon DEF Rows

\* A change of the deployment's commit keeps the other columns.
LEMMA CommitFacts ==
    ASSUME NEW r \in Rows, NEW c \in Commits
    PROVE  LET new == [r EXCEPT !.commit = c]
           IN  /\ new \in Rows /\ new.status = r.status /\ new.stage = r.stage
               /\ new.gate = r.gate /\ new.commit = c /\ new.host = r.host
  BY Zenon DEF Rows

\* The commit of a plan is set without its server.
LEMMA PlanCommitFacts ==
    ASSUME NEW p \in Plans, NEW c \in Commits \cup {0}
    PROVE  LET new == [p EXCEPT !.commit = c]
           IN  new \in Plans /\ new.commit = c /\ new.host = p.host
  BY Zenon DEF Plans

\* The server of a plan is set without its commit.
LEMMA PlanHostFacts ==
    ASSUME NEW p \in Plans, NEW h \in Hosts \cup {None}
    PROVE  LET new == [p EXCEPT !.host = h]
           IN  new \in Plans /\ new.host = h /\ new.commit = p.commit
  BY Zenon DEF Plans

\* The servers a deploy may build on are registered ones.
LEMMA CandidatesAreHosts ==
    ASSUME TypeOK, NEW j \in Jobs
    PROVE  BuildServerCandidates(j) \subseteq Hosts
  BY Zenon DEF BuildServerCandidates

\* The server picked has a free slot.
LEMMA PickedIsFree ==
    ASSUME TypeOK, NEW j \in Jobs,
           NEW h \in PickBuildServer(j, BuildServerCandidates(j))
    PROVE  h \in Hosts /\ (Limit[h] = 0 \/ ActiveOn(j, h) < Limit[h])
  BY CandidatesAreHosts, Zenon DEF PickBuildServer

\* A round of the gate passes only when the checks of the commit succeeded.
LEMMA PassMeansSuccess ==
    ASSUME NEW j \in Jobs, "pass" \in CheckRound(j)
    PROVE  checks[job[j].commit] = "success"
  BY DEF CheckRound, EvaluateChecks

-----------------------------------------------------------------------------
(* The limit of a build server.                                            *)

\* A step that takes only free slots keeps every server within its limit.
LEMMA LimitStep ==
    ASSUME GateInv, NEW j \in Jobs, Advances(j)
    PROVE  AdmittedWithinLimit'
  <1> SUFFICES ASSUME NEW h \in Hosts, Limit[h] > 0
               PROVE  Cardinality({k \in Jobs : Admitted(k)' /\ plan'[k].host = h})
                         <= Limit[h]
    BY DEF AdmittedWithinLimit
  <1> DEFINE New == {k \in Jobs : Admitted(k)' /\ plan'[k].host = h}
             Old == {k \in Jobs : Admitted(k) /\ plan[k].host = h}
             Counted == {k \in Jobs \ {j} : job[k].status = "running" /\ job[k].host = h}
  <1>0. Limit[h] \in Nat
    BY HostsAssumption
  <1>1. Cardinality(Old) <= Limit[h]
    BY DEF GateInv, AdmittedWithinLimit
  <1>2. IsFiniteSet(Old) /\ IsFiniteSet(Counted)
    <2>1. Old \in SUBSET Jobs /\ Counted \in SUBSET Jobs
      OBVIOUS
    <2> QED
      BY <2>1, JobsAssumption, FS_Subset
  <1>3. Cardinality(Old) \in Nat /\ Cardinality(Counted) \in Nat
    BY <1>2, FS_CardinalityType
  <1>4. \A k \in New \ {j} : k \in Old
    BY DEF Advances, Admitted
  <1>5. CASE j \notin New \/ j \in Old
    <2>1. New \in SUBSET Old
      BY <1>4, <1>5
    <2>2. Cardinality(New) <= Cardinality(Old) /\ IsFiniteSet(New)
      BY <2>1, <1>2, FS_Subset
    <2>3. Cardinality(New) \in Nat
      BY <2>2, FS_CardinalityType
    <2> QED
      BY <1>0, <1>1, <1>3, <2>2, <2>3
  <1>6. CASE j \in New /\ j \notin Old
    <2>1. ActiveOn(j, h) < Limit[h]
      BY <1>0, <1>6 DEF Advances
    <2>2. \A k \in New \ {j} : k \in Counted
      <3> SUFFICES ASSUME NEW k \in New, k # j
                   PROVE  job[k].status = "running" /\ job[k].host = h
        OBVIOUS
      <3>1. Admitted(k) /\ plan[k].host = h
        BY <1>4
      <3>2. h # None
        BY HostsAssumption
      <3> QED
        BY <3>1, <3>2 DEF GateInv, SlotRecorded, Admitted
    <2>3. New \in SUBSET (Counted \cup {j})
      BY <2>2
    <2>4. /\ IsFiniteSet(Counted \cup {j})
          /\ Cardinality(Counted \cup {j}) = Cardinality(Counted) + 1
      <3>1. j \notin Counted
        OBVIOUS
      <3> QED
        BY <1>2, <3>1, FS_AddElement
    <2>5. Cardinality(New) <= Cardinality(Counted \cup {j}) /\ IsFiniteSet(New)
      BY <2>3, <2>4, FS_Subset
    <2>6. Cardinality(New) \in Nat
      BY <2>5, FS_CardinalityType
    <2>7. Cardinality(Counted) < Limit[h]
      BY <2>1 DEF ActiveOn
    <2>8. Cardinality(New) <= Limit[h]
      <3> HIDE DEF New, Counted
      <3> QED
        BY <1>0, <1>3, <2>4, <2>5, <2>6, <2>7
    <2> QED
      BY <2>8
  <1> QED
    BY <1>5, <1>6

\* A step that admits nobody keeps every server within its limit.
LEMMA LimitShrinks ==
    ASSUME GateInv, \A k \in Jobs : Admitted(k)' => Admitted(k), plan' = plan
    PROVE  AdmittedWithinLimit'
  <1> SUFFICES ASSUME NEW h \in Hosts, Limit[h] > 0
               PROVE  Cardinality({k \in Jobs : Admitted(k)' /\ plan'[k].host = h})
                         <= Limit[h]
    BY DEF AdmittedWithinLimit
  <1> DEFINE New == {k \in Jobs : Admitted(k)' /\ plan'[k].host = h}
             Old == {k \in Jobs : Admitted(k) /\ plan[k].host = h}
  <1>1. Cardinality(Old) <= Limit[h] /\ Limit[h] \in Nat
    BY HostsAssumption DEF GateInv, AdmittedWithinLimit
  <1>2. Old \in SUBSET Jobs /\ New \in SUBSET Old
    OBVIOUS
  <1>3. IsFiniteSet(Old)
    BY <1>2, JobsAssumption, FS_Subset
  <1>4. Cardinality(New) <= Cardinality(Old) /\ IsFiniteSet(New)
    BY <1>2, <1>3, FS_Subset
  <1>5. Cardinality(New) \in Nat /\ Cardinality(Old) \in Nat
    BY <1>3, <1>4, FS_CardinalityType
  <1> QED
    BY <1>1, <1>4, <1>5

\* What Advances says of one deploy gives the invariant for all of them.
LEMMA AdvanceStep ==
    ASSUME GateInv, NEW j \in Jobs, Advances(j), TypeOK', Checked \subseteq required'
    PROVE  GateInv'
  <1>1. ASSUME NEW k \in Jobs
        PROVE  StageFits(k)' /\ SlotRecorded(k)'
    <2>1. CASE k = j
      BY <2>1 DEF Advances
    <2>2. CASE k # j
      BY <2>2 DEF Advances, GateInv, StageFits, SlotRecorded, Admitted
    <2> QED
      BY <2>1, <2>2
  <1>2. ASSUME NEW k \in Checked
        PROVE  CommitFits(k)'
    <2>1. CASE k = j
      BY <2>1 DEF Advances
    <2>2. CASE k # j
      BY <2>2, JobsAssumption DEF Advances, GateInv, CommitFits, Passed, Admitted
    <2> QED
      BY <2>1, <2>2
  <1> QED
    BY <1>1, <1>2, LimitStep DEF GateInv

-----------------------------------------------------------------------------
(* The queue around the gates.                                             *)

\* The next poll: the row is due and nothing else of it changes.
LEMMA BecomeDueStep ==
    ASSUME GateInv, NEW j \in Jobs, BecomeDue(j)
    PROVE  GateInv'
  <1> USE DEF GateInv
  <1>1. PICK waited \in 0..TimeoutPolls :
           job' = [job EXCEPT ![j] = [@ EXCEPT !.due = TRUE, !.waited = waited]]
    BY DEF BecomeDue
  <1> DEFINE r == [job[j] EXCEPT !.due = TRUE, !.waited = waited]
  <1>2. job[j] \in Rows
    BY DEF TypeOK
  <1>3. /\ r \in Rows /\ r.status = job[j].status /\ r.stage = job[j].stage
        /\ r.gate = job[j].gate /\ r.commit = job[j].commit /\ r.host = job[j].host
    BY <1>2, Zenon DEF Rows
  <1>4. job' = [job EXCEPT ![j] = r]
    BY <1>1
  <1> HIDE DEF r
  <1>5. TypeOK'
    BY <1>3, <1>4 DEF BecomeDue, TypeOK
  <1>6. job'[j] = r
    BY <1>4 DEF TypeOK
  <1>7. Advances(j)
    BY <1>3, <1>4, <1>6 DEF BecomeDue, TypeOK, Advances, StageFits, SlotRecorded,
                            CommitFits, Passed, Admitted
  <1> QED
    BY <1>5, <1>7, AdvanceStep DEF BecomeDue

\* The claim of a queued row, whose stage is none.
LEMMA ClaimNextStep ==
    ASSUME GateInv, NEW j \in Jobs, ClaimNext(j)
    PROVE  GateInv'
  <1> USE DEF GateInv
  <1> DEFINE r == [job[j] EXCEPT !.status = "running"]
  <1>0. /\ job[j].status = "queued" /\ task[j] = "idle" /\ Goes(j, "checks")
        /\ job' = [job EXCEPT ![j] = r]
        /\ UNCHANGED <<plan, building, required, choice, head, checks, events>>
    BY Zenon DEF ClaimNext
  <1>1. job[j] \in Rows
    BY DEF TypeOK
  <1>2. /\ r \in Rows /\ r.status = "running" /\ r.stage = job[j].stage
        /\ r.gate = job[j].gate /\ r.commit = job[j].commit /\ r.host = job[j].host
    BY <1>1, StatusFacts
  <1> HIDE DEF r
  <1>3. job' \in [Jobs -> Rows] /\ job'[j] = r /\ \A k \in Jobs \ {j} : job'[k] = job[k]
    BY <1>0, <1>2 DEF TypeOK
  <1>4. /\ TypeOK' /\ task'[j] = "checks"
        /\ \A k \in Jobs \ {j} : task'[k] = task[k]
    BY <1>0, <1>3 DEF TypeOK, Tasks, Goes
  <1>5. Advances(j)
    BY <1>0, <1>2, <1>3, <1>4
       DEF Advances, StageFits, SlotRecorded, CommitFits, Passed, Admitted
  <1> QED
    BY <1>0, <1>4, <1>5, AdvanceStep

\* A deferred deploy has no stage; deferred for a slot, its commit has passed.
LEMMA RunDeferredStep ==
    ASSUME GateInv, NEW j \in Jobs, RunDeferred(j)
    PROVE  GateInv'
  <1> USE DEF GateInv, Defer, Goes
  <1>1. PICK gate \in {"status-checks", "build-slot"} :
           /\ Defer(j, gate)
           /\ gate = "build-slot" => task[j] = "await slot"
    BY DEF RunDeferred
  <1> DEFINE r == Deferred(job[j], gate)
  <1>2. /\ r \in Rows /\ r.status = "queued" /\ r.stage = "none" /\ r.gate = gate
        /\ r.commit = job[j].commit
    BY DeferredFacts DEF TypeOK
  <1> HIDE DEF r
  <1>3. job' = [job EXCEPT ![j] = r]
    BY <1>1 DEF r
  <1>4. TypeOK'
    BY <1>1, <1>2, <1>3 DEF TypeOK, Tasks
  <1>5. job'[j] = r /\ task'[j] = "idle"
    BY <1>1, <1>3 DEF TypeOK
  <1>6. Advances(j)
    BY <1>1, <1>2, <1>3, <1>5 DEF TypeOK, Advances, StageFits, SlotRecorded, CommitFits,
                                  Passed, Admitted
  <1> QED
    BY <1>1, <1>4, <1>6, AdvanceStep

\* A row that ends, with its task or without it.
LEMMA ClosedStep ==
    ASSUME GateInv, NEW j \in Jobs, NEW status \in Ended,
           job' = [job EXCEPT ![j] = Closed(@, status)],
           task' = task \/ Goes(j, "idle"), events' \in 0..MaxEvents,
           UNCHANGED <<plan, building, required, choice, head, checks>>
    PROVE  GateInv'
  <1> USE DEF GateInv, Goes
  <1> DEFINE r == Closed(job[j], status)
  <1>1. /\ r \in Rows /\ r.status \notin {"queued", "running"} /\ r.stage = "none"
        /\ r.gate = job[j].gate /\ r.commit = job[j].commit
    BY ClosedFacts DEF TypeOK, Ended
  <1> HIDE DEF r
  <1>2. job' = [job EXCEPT ![j] = r]
    BY DEF r
  <1>3. TypeOK'
    BY <1>1, <1>2 DEF TypeOK, Tasks
  <1>4. /\ job'[j] = r /\ task'[j] \in {task[j], "idle"}
        /\ \A k \in Jobs \ {j} : job'[k] = job[k] /\ task'[k] = task[k]
    BY <1>2 DEF TypeOK
  <1>5. Advances(j)
    BY <1>1, <1>4 DEF Advances, StageFits, SlotRecorded, CommitFits, Passed, Admitted
  <1> QED
    BY <1>3, <1>5, AdvanceStep

\* A failed prepare, a cancel and finalize end a row.
LEMMA EndStep ==
    ASSUME GateInv, NEW j \in Jobs, RecordFailure(j) \/ Cancel(j) \/ FinalizeJob(j)
    PROVE  GateInv'
  <1>0. events \in 0..MaxEvents
    BY DEF GateInv, TypeOK
  <1>1. CASE RecordFailure(j)
    BY <1>0, <1>1, ClosedStep DEF RecordFailure, Ended
  <1>2. CASE Cancel(j)
    <2>1. events' \in 0..MaxEvents
      BY <1>0, <1>2, BoundsAssumption DEF Cancel
    <2> QED
      BY <1>2, <2>1, ClosedStep DEF Cancel, Ended
  <1>3. CASE FinalizeJob(j)
    <2>1. PICK status \in {"succeeded", "failed"} :
             job' = [job EXCEPT ![j] = Closed(@, status)]
      BY <1>3 DEF FinalizeJob
    <2> QED
      BY <1>0, <1>3, <2>1, ClosedStep DEF FinalizeJob, Ended
  <1> QED
    BY <1>1, <1>2, <1>3

\* A restart forgets the app's tasks and admits nobody.
LEMMA CrashStep ==
    ASSUME GateInv, Crash
    PROVE  GateInv'
  <1> USE DEF GateInv, Crash
  <1>0. events' \in 0..MaxEvents
    BY BoundsAssumption DEF TypeOK
  <1>1. TypeOK'
    BY <1>0 DEF TypeOK, Tasks
  <1>2. \A k \in Jobs : task'[k] = "idle"
    OBVIOUS
  <1>3. \A k \in Jobs : Admitted(k)' => Admitted(k)
    BY <1>2 DEF Admitted
  <1>4. AdmittedWithinLimit'
    BY <1>3, LimitShrinks
  <1>5. \A k \in Jobs : StageFits(k)' /\ SlotRecorded(k)'
    BY <1>2, <1>3 DEF StageFits, SlotRecorded
  <1>6. \A k \in Checked : CommitFits(k)'
    BY <1>2, <1>3, JobsAssumption DEF CommitFits, Passed
  <1> QED
    BY <1>1, <1>4, <1>5, <1>6

\* The sweep requeues a row without a stage.
LEMMA RequeueOrphanedStep ==
    ASSUME GateInv, NEW j \in Jobs, RequeueOrphaned(j)
    PROVE  GateInv'
  <1> USE DEF GateInv
  <1> DEFINE r == [job[j] EXCEPT !.status = "queued"]
  <1>0. /\ job[j].stage = "none" /\ task[j] = "idle" /\ job' = [job EXCEPT ![j] = r]
        /\ UNCHANGED <<task, plan, building, required, choice, head, checks, events>>
    BY Zenon DEF RequeueOrphaned
  <1>1. job[j] \in Rows
    BY DEF TypeOK
  <1>2. /\ r \in Rows /\ r.status = "queued" /\ r.stage = job[j].stage
        /\ r.gate = job[j].gate /\ r.commit = job[j].commit /\ r.host = job[j].host
    BY <1>1, StatusFacts
  <1> HIDE DEF r
  <1>3. job' \in [Jobs -> Rows] /\ job'[j] = r /\ \A k \in Jobs \ {j} : job'[k] = job[k]
    BY <1>0, <1>2 DEF TypeOK
  <1>4. TypeOK'
    BY <1>0, <1>3 DEF TypeOK
  <1>5. Advances(j)
    BY <1>0, <1>2, <1>3
       DEF Advances, StageFits, SlotRecorded, CommitFits, Passed, Admitted
  <1> QED
    BY <1>0, <1>4, <1>5, AdvanceStep

-----------------------------------------------------------------------------
(* The status checks.                                                      *)

\* Past the checks without a round: the plan takes the commit that passed.
LEMMA SkipChecksStep ==
    ASSUME GateInv, NEW j \in Jobs, SkipChecks(j)
    PROVE  GateInv'
  <1> USE DEF GateInv
  <1> DEFINE c == IF j \in required THEN job[j].commit ELSE 0
             p == [plan[j] EXCEPT !.commit = c]
  <1>0. /\ task[j] = "checks" /\ (j \notin required \/ job[j].gate = "build-slot")
        /\ plan' = [plan EXCEPT ![j] = p] /\ Goes(j, "slot")
        /\ UNCHANGED <<job, building, required, choice, head, checks, events>>
    BY Zenon DEF SkipChecks
  <1>1. job[j] \in Rows /\ plan[j] \in Plans
    BY DEF TypeOK
  <1>2. c \in Commits \cup {0}
    BY <1>1 DEF Rows
  <1>3. p \in Plans /\ p.commit = c /\ p.host = plan[j].host
    <2> HIDE DEF c
    <2> QED
      BY <1>1, <1>2, PlanCommitFacts, Zenon
  <1> HIDE DEF p
  <1>4. /\ plan' \in [Jobs -> Plans] /\ plan'[j] = p /\ task'[j] = "slot"
        /\ \A k \in Jobs \ {j} : plan'[k] = plan[k] /\ task'[k] = task[k]
    BY <1>0, <1>3 DEF TypeOK, Goes
  <1>5. TypeOK'
    BY <1>0, <1>4 DEF TypeOK, Tasks, Goes
  <1>6. Advances(j)
    BY <1>0, <1>3, <1>4
       DEF Advances, StageFits, SlotRecorded, CommitFits, Passed, Admitted
  <1> QED
    BY <1>0, <1>5, <1>6, AdvanceStep

\* The first round pins a commit of the branch.
LEMMA PinStep ==
    ASSUME GateInv, NEW j \in Jobs, Pin(j)
    PROVE  GateInv'
  <1> USE DEF GateInv
  <1> DEFINE c == IF job[j].gate = "status-checks" /\ job[j].commit # 0
                  THEN job[j].commit ELSE head
             r == [job[j] EXCEPT !.commit = c]
  <1>0. /\ task[j] = "checks" /\ job[j].gate # "build-slot"
        /\ job' = [job EXCEPT ![j] = r] /\ Goes(j, "round")
        /\ UNCHANGED <<plan, building, required, choice, head, checks, events>>
    BY Zenon DEF Pin
  <1>1. job[j] \in Rows /\ head \in Commits
    BY DEF TypeOK
  <1>2. c \in Commits /\ c # 0
    BY <1>1, CommitsAssumption DEF Rows
  <1>3. /\ r \in Rows /\ r.status = job[j].status /\ r.stage = job[j].stage
        /\ r.gate = job[j].gate /\ r.commit = c /\ r.host = job[j].host
    <2> HIDE DEF c
    <2> QED
      BY <1>1, <1>2, CommitFacts, Zenon
  <1> HIDE DEF r, c
  <1>4. /\ job' \in [Jobs -> Rows] /\ job'[j] = r /\ task'[j] = "round"
        /\ \A k \in Jobs \ {j} : job'[k] = job[k] /\ task'[k] = task[k]
    BY <1>0, <1>3 DEF TypeOK, Goes
  <1>5. TypeOK'
    BY <1>0, <1>4 DEF TypeOK, Tasks, Goes
  <1>6. Advances(j)
    BY <1>0, <1>2, <1>3, <1>4
       DEF Advances, StageFits, SlotRecorded, CommitFits, Passed, Admitted
  <1> QED
    BY <1>0, <1>5, <1>6, AdvanceStep

\* A round that passes sends the pinned commit on, any other sends nothing.
LEMMA SettleStep ==
    ASSUME GateInv, NEW j \in Jobs, Settle(j)
    PROVE  GateInv'
  <1> USE DEF GateInv
  <1>1. PICK outcome \in CheckRound(j) :
           /\ Goes(j, CASE outcome = "pass" -> "slot"
                        [] outcome = "pending" -> "await checks"
                        [] OTHER -> "failing")
           /\ plan' = [plan EXCEPT ![j].commit =
                         IF outcome = "pass" THEN job[j].commit ELSE @]
    BY DEF Settle
  <1> DEFINE c == IF outcome = "pass" THEN job[j].commit ELSE plan[j].commit
             p == [plan[j] EXCEPT !.commit = c]
  <1>2. PICK t \in {"slot", "await checks", "failing"} :
           Goes(j, t) /\ (t = "slot" => outcome = "pass")
    BY <1>1, Zenon
  <1>3. job[j] \in Rows /\ plan[j] \in Plans
    BY DEF TypeOK
  <1>4. plan' = [plan EXCEPT ![j] = p]
    BY <1>1, Zenon
  <1>5. c \in Commits \cup {0}
    BY <1>3 DEF Rows, Plans
  <1>6. p \in Plans /\ p.commit = c /\ p.host = plan[j].host
    <2> HIDE DEF c
    <2> QED
      BY <1>3, <1>5, PlanCommitFacts, Zenon
  <1>7. outcome = "pass" => checks[job[j].commit] = "success"
    BY <1>1, PassMeansSuccess
  <1> HIDE DEF p
  <1>8. /\ plan' \in [Jobs -> Plans] /\ plan'[j] = p /\ task'[j] = t
        /\ \A k \in Jobs \ {j} : plan'[k] = plan[k] /\ task'[k] = task[k]
    BY <1>2, <1>4, <1>6 DEF TypeOK, Goes
  <1>9. UNCHANGED <<job, building, required, choice, head, checks, events>>
    BY DEF Settle
  <1>10. TypeOK'
    BY <1>2, <1>8, <1>9 DEF TypeOK, Tasks, Goes
  <1>11. j \in Checked => job[j].commit # 0 /\ job[j].commit \in Commits \cup {0}
    BY <1>3 DEF Settle, CommitFits, Rows
  <1>12. job[j].stage = "none" /\ job[j].status # "queued"
    BY DEF Settle, StageFits
  <1>13. Advances(j)
    BY <1>2, <1>6, <1>7, <1>8, <1>9, <1>11, <1>12
       DEF Advances, StageFits, SlotRecorded, CommitFits, Passed, Admitted
  <1> QED
    BY <1>9, <1>10, <1>13, AdvanceStep

-----------------------------------------------------------------------------
(* The build slots.                                                        *)

\* A build of this machine needs no slot.
LEMMA BuildHereStep ==
    ASSUME GateInv, NEW j \in Jobs, BuildHere(j)
    PROVE  GateInv'
  <1> USE DEF GateInv
  <1> DEFINE p == [plan[j] EXCEPT !.host = None]
  <1>0. /\ task[j] = "slot" /\ Goes(j, "prepare") /\ plan' = [plan EXCEPT ![j] = p]
        /\ UNCHANGED <<job, building, required, choice, head, checks, events>>
    BY Zenon DEF BuildHere
  <1>1. plan[j] \in Plans /\ None \in Hosts \cup {None}
    BY DEF TypeOK
  <1>2. p \in Plans /\ p.commit = plan[j].commit /\ p.host = None
    BY <1>1, PlanHostFacts, Zenon
  <1> HIDE DEF p
  <1>3. /\ plan' \in [Jobs -> Plans] /\ plan'[j] = p /\ task'[j] = "prepare"
        /\ \A k \in Jobs \ {j} : plan'[k] = plan[k] /\ task'[k] = task[k]
    BY <1>0, <1>2 DEF TypeOK, Goes
  <1>4. TypeOK'
    BY <1>0, <1>3 DEF TypeOK, Tasks, Goes
  <1>5. Advances(j)
    BY <1>0, <1>2, <1>3, HostsAssumption
       DEF Advances, StageFits, SlotRecorded, CommitFits, Passed, Admitted
  <1> QED
    BY <1>0, <1>4, <1>5, AdvanceStep

\* The reservation takes a free slot and records it in the row.
LEMMA ReserveBuildHostStep ==
    ASSUME GateInv, NEW j \in Jobs, ReserveBuildHost(j)
    PROVE  GateInv'
  <1> USE DEF GateInv
  <1>1. PICK h \in PickBuildServer(j, BuildServerCandidates(j)) :
           /\ job' = [job EXCEPT ![j].host = h]
           /\ plan' = [plan EXCEPT ![j].host = h]
    BY DEF ReserveBuildHost
  <1>2. h \in Hosts /\ (Limit[h] = 0 \/ ActiveOn(j, h) < Limit[h])
    BY <1>1, PickedIsFree
  <1> DEFINE r == [job[j] EXCEPT !.host = h]
             p == [plan[j] EXCEPT !.host = h]
  <1>3. job[j] \in Rows /\ plan[j] \in Plans /\ h \in Hosts /\ h \in Hosts \cup {None}
    BY <1>2 DEF TypeOK
  <1>4. job' = [job EXCEPT ![j] = r] /\ plan' = [plan EXCEPT ![j] = p]
    BY <1>1, Zenon
  <1>5. /\ r \in Rows /\ r.status = job[j].status /\ r.stage = job[j].stage
        /\ r.gate = job[j].gate /\ r.commit = job[j].commit /\ r.host = h
    BY <1>3, HostFacts, Zenon
  <1>6. p \in Plans /\ p.commit = plan[j].commit /\ p.host = h
    BY <1>3, PlanHostFacts, Zenon
  <1> HIDE DEF r, p
  <1>7. /\ task[j] = "slot" /\ Goes(j, "prepare")
        /\ UNCHANGED <<building, required, choice, head, checks, events>>
    BY DEF ReserveBuildHost
  <1>8. /\ job' \in [Jobs -> Rows] /\ job'[j] = r
        /\ plan' \in [Jobs -> Plans] /\ plan'[j] = p
        /\ task' \in [Jobs -> Tasks] /\ task'[j] = "prepare"
        /\ \A k \in Jobs \ {j} : /\ job'[k] = job[k] /\ plan'[k] = plan[k]
                                 /\ task'[k] = task[k]
    BY <1>4, <1>5, <1>6, <1>7 DEF TypeOK, Goes, Tasks
  <1>9. TypeOK'
    BY <1>7, <1>8 DEF TypeOK
  <1>10. Advances(j)
    BY <1>2, <1>5, <1>6, <1>7, <1>8
       DEF Advances, StageFits, SlotRecorded, CommitFits, Passed, Admitted
  <1> QED
    BY <1>7, <1>9, <1>10, AdvanceStep

\* A full server, or a prepare that fails, admits nobody.
LEMMA TurnedAwayStep ==
    ASSUME GateInv, NEW j \in Jobs, ServersFull(j) \/ PrepareFails(j)
    PROVE  GateInv'
  <1> USE DEF GateInv
  <1>1. /\ task[j] \in {"slot", "prepare"}
        /\ UNCHANGED <<job, plan, building, required, choice, head, checks, events>>
    BY DEF ServersFull, PrepareFails
  <1>2. PICK t \in {"failing", "await slot"} :
           Goes(j, t) /\ (t = "await slot" => task[j] = "slot")
    BY DEF ServersFull, PrepareFails
  <1>3. /\ TypeOK' /\ task'[j] = t
        /\ \A k \in Jobs \ {j} : task'[k] = task[k]
    BY <1>1, <1>2 DEF TypeOK, Goes, Tasks
  <1>4. Advances(j)
    BY <1>1, <1>2, <1>3
       DEF Advances, StageFits, SlotRecorded, CommitFits, Passed, Admitted
  <1> QED
    BY <1>1, <1>3, <1>4, AdvanceStep

-----------------------------------------------------------------------------
(* After the gates.                                                        *)

\* An admitted deploy stays admitted while it is handed off.
LEMMA HandOffStep ==
    ASSUME GateInv, NEW j \in Jobs, HandOff(j)
    PROVE  GateInv'
  <1> USE DEF GateInv
  <1> DEFINE r == [job[j] EXCEPT !.stage = "execute"]
  <1>0. /\ task[j] = "prepare" /\ Goes(j, "idle") /\ job' = [job EXCEPT ![j] = r]
        /\ UNCHANGED <<plan, building, required, choice, head, checks, events>>
    BY Zenon DEF HandOff
  <1>1. job[j] \in Rows
    BY DEF TypeOK
  <1>2. /\ r \in Rows /\ r.status = job[j].status /\ r.stage = "execute"
        /\ r.gate = job[j].gate /\ r.commit = job[j].commit /\ r.host = job[j].host
    BY <1>1, StageFacts
  <1> HIDE DEF r
  <1>3. /\ job' \in [Jobs -> Rows] /\ job'[j] = r /\ task'[j] = "idle"
        /\ \A k \in Jobs \ {j} : job'[k] = job[k] /\ task'[k] = task[k]
    BY <1>0, <1>2 DEF TypeOK, Goes
  <1>4. TypeOK'
    BY <1>0, <1>3 DEF TypeOK, Tasks, Goes
  <1>5. job[j].status # "queued"
    BY <1>0 DEF StageFits
  <1>6. Advances(j)
    BY <1>0, <1>2, <1>3, <1>5
       DEF Advances, StageFits, SlotRecorded, CommitFits, Passed, Admitted
  <1> QED
    BY <1>0, <1>4, <1>6, AdvanceStep

\* A build that starts changes no row.
LEMMA BuildStartsStep ==
    ASSUME GateInv, NEW j \in Jobs, BuildStarts(j)
    PROVE  GateInv'
  <1> USE DEF GateInv, BuildStarts
  <1>1. TypeOK'
    BY DEF TypeOK
  <1>2. Advances(j)
    BY DEF Advances, StageFits, SlotRecorded, CommitFits, Passed, Admitted
  <1> QED
    BY <1>1, <1>2, AdvanceStep

\* An outcome keeps the deploy admitted until it is finalized.
LEMMA BuildEndsStep ==
    ASSUME GateInv, NEW j \in Jobs, BuildEnds(j)
    PROVE  GateInv'
  <1> USE DEF GateInv
  <1> DEFINE r == [job[j] EXCEPT !.stage = "finalize"]
  <1>0. /\ \/ job' = job
           \/ /\ job[j].status = "running" /\ job[j].stage = "execute"
              /\ job' = [job EXCEPT ![j] = r]
        /\ building' = building \ {j}
        /\ UNCHANGED <<task, plan, required, choice, head, checks, events>>
    BY Zenon DEF BuildEnds
  <1>1. job[j] \in Rows
    BY DEF TypeOK
  <1>2. /\ r \in Rows /\ r.status = job[j].status /\ r.stage = "finalize"
        /\ r.gate = job[j].gate /\ r.commit = job[j].commit /\ r.host = job[j].host
    BY <1>1, StageFacts
  <1> HIDE DEF r
  <1>3. /\ job' \in [Jobs -> Rows] /\ \A k \in Jobs \ {j} : job'[k] = job[k]
        /\ \/ job'[j] = job[j]
           \/ job[j].status = "running" /\ job[j].stage = "execute" /\ job'[j] = r
    BY <1>0, <1>2 DEF TypeOK
  <1>4. TypeOK'
    BY <1>0, <1>3 DEF TypeOK
  <1> USE DEF Advances, StageFits, SlotRecorded, CommitFits, Passed, Admitted
  <1>5. CASE job'[j] = job[j]
    <2>1. Advances(j)
      BY <1>0, <1>3, <1>5
    <2> QED
      BY <1>0, <1>4, <2>1, AdvanceStep
  <1>6. CASE job[j].status = "running" /\ job[j].stage = "execute" /\ job'[j] = r
    <2>1. Admitted(j) /\ task[j] = "idle"
      BY <1>6
    <2>2. Advances(j)
      BY <1>0, <1>2, <1>3, <1>6, <2>1
    <2> QED
      BY <1>0, <1>4, <2>2, AdvanceStep
  <1> QED
    BY <1>3, <1>5, <1>6

-----------------------------------------------------------------------------
(* The outside.                                                            *)

\* Nothing the rows, the tasks and the plans depend on changes, but checks
\* may report.
LEMMA OutsideStep ==
    ASSUME GateInv, UNCHANGED <<job, task, plan>>, TypeOK', Checked \subseteq required',
           \A c \in Commits : checks[c] = "success" => checks'[c] = "success"
    PROVE  GateInv'
  <1> USE DEF GateInv
  <1>1. \A k \in Jobs : StageFits(k)' /\ SlotRecorded(k)'
    BY DEF StageFits, SlotRecorded, Admitted
  <1>2. \A k \in Checked : CommitFits(k)'
    BY DEF CommitFits, Passed, Admitted
  <1>3. \A k \in Jobs : Admitted(k)' => Admitted(k)
    BY DEF Admitted
  <1>4. AdmittedWithinLimit'
    BY <1>3, LimitShrinks
  <1> QED
    BY <1>1, <1>2, <1>4

\* A push moves the branch only.
LEMMA PushStep ==
    ASSUME GateInv, Push
    PROVE  GateInv'
  BY OutsideStep DEF Push, GateInv, TypeOK

\* Checks that succeeded stay so.
LEMMA CheckReportsStep ==
    ASSUME GateInv, NEW c \in Commits, CheckReports(c)
    PROVE  GateInv'
  <1> USE DEF GateInv
  <1>1. PICK state \in {"success", "failure"} : checks' = [checks EXCEPT ![c] = state]
    BY DEF CheckReports
  <1>2. TypeOK'
    BY <1>1 DEF CheckReports, TypeOK, CheckStates
  <1>3. \A d \in Commits : checks[d] = "success" => checks'[d] = "success"
    BY <1>1 DEF CheckReports, TypeOK
  <1> QED
    BY <1>2, <1>3, OutsideStep DEF CheckReports

\* The settings change for the attempts to come.
LEMMA SettingsStep ==
    ASSUME GateInv, NEW j \in Jobs, RequireChecks(j) \/ ChooseBuildServer(j)
    PROVE  GateInv'
  <1> USE DEF GateInv
  <1>1. ChangeSettings
    BY DEF RequireChecks, ChooseBuildServer
  <1>2. events' \in 0..MaxEvents
    BY <1>1, BoundsAssumption DEF ChangeSettings, TypeOK
  <1>3. /\ required \subseteq required' /\ required' \subseteq Jobs
        /\ choice' \in [Jobs -> Hosts \cup {Here, Any}]
    BY DEF RequireChecks, ChooseBuildServer, TypeOK
  <1>4. TypeOK'
    BY <1>1, <1>2, <1>3 DEF ChangeSettings, TypeOK
  <1> QED
    BY <1>1, <1>3, <1>4, OutsideStep DEF ChangeSettings

-----------------------------------------------------------------------------
(* The theorems.                                                           *)

\* Nothing is admitted at first.
LEMMA InitGates ==
    ASSUME Init
    PROVE  GateInv
  <1> USE DEF Init
  <1>0. \A j \in Jobs : /\ job[j].status = "queued" /\ job[j].stage = "none"
                       /\ job[j].gate = "none" /\ task[j] = "idle"
    OBVIOUS
  <1>1. TypeOK
    <2>1. job \in [Jobs -> Rows]
      BY PollsAssumption DEF Rows
    <2>2. /\ plan \in [Jobs -> Plans] /\ task \in [Jobs -> Tasks]
          /\ checks \in [Commits -> CheckStates]
      BY DEF Plans, Tasks, CheckStates
    <2>3. events \in 0..MaxEvents
      BY BoundsAssumption
    <2> QED
      BY <2>1, <2>2, <2>3, HostsAssumption, JobsAssumption, CommitsAssumption DEF TypeOK
  <1>2. \A j \in Jobs : ~Admitted(j)
    BY <1>0 DEF Admitted
  <1>3. \A j \in Jobs : StageFits(j) /\ SlotRecorded(j) /\ CommitFits(j)
    BY <1>0, <1>2 DEF StageFits, SlotRecorded, CommitFits
  <1>4. AdmittedWithinLimit
    <2> SUFFICES ASSUME NEW h \in Hosts, Limit[h] > 0
                 PROVE  Cardinality({j \in Jobs : Admitted(j) /\ plan[j].host = h})
                           <= Limit[h]
      BY DEF AdmittedWithinLimit
    <2>1. {j \in Jobs : Admitted(j) /\ plan[j].host = h} = {}
      BY <1>2
    <2>2. Cardinality({}) = 0 /\ Limit[h] \in Nat
      BY FS_EmptySet, HostsAssumption
    <2> HIDE DEF Init
    <2> QED
      BY <2>1, <2>2
  <1> QED
    BY <1>1, <1>3, <1>4, JobsAssumption DEF GateInv

\* Every step of the specification keeps the invariant.
LEMMA NextGates ==
    ASSUME GateInv, [Next]_vars
    PROVE  GateInv'
  <1>1. ASSUME NEW j \in Jobs, Gates(j)
        PROVE  GateInv'
    BY <1>1, BecomeDueStep, ClaimNextStep, RunDeferredStep, EndStep, RequeueOrphanedStep,
       SkipChecksStep, PinStep, SettleStep, BuildHereStep, ReserveBuildHostStep,
       TurnedAwayStep, HandOffStep DEF Gates
  <1>2. ASSUME NEW j \in Jobs,
               \/ Cancel(j) \/ RequireChecks(j) \/ ChooseBuildServer(j)
               \/ BuildStarts(j) \/ BuildEnds(j) \/ FinalizeJob(j)
        PROVE  GateInv'
    BY <1>2, EndStep, SettingsStep, BuildStartsStep, BuildEndsStep
  <1>3. CASE Crash \/ Push \/ \E c \in Commits : CheckReports(c)
    BY <1>3, CrashStep, PushStep, CheckReportsStep
  <1>4. CASE UNCHANGED vars
    BY <1>4, OutsideStep DEF vars, GateInv, TypeOK
  <1> QED
    BY <1>1, <1>2, <1>3, <1>4 DEF Next

(***************************************************************************)
(* The gates' invariant: an admitted deploy's server is the one its row is *)
(* counted for, and from the passed checks on, through every deferral and  *)
(* sweep, a required commit is the checked one.                            *)
(***************************************************************************)
THEOREM GateInvariant == Spec => []GateInv
  <1>1. Init => GateInv
    BY InitGates
  <1>2. GateInv /\ [Next]_vars => GateInv'
    BY NextGates
  <1> QED
    BY <1>1, <1>2, PTL DEF Spec

(***************************************************************************)
(* The rows, tasks and plans of the gates keep their types.                *)
(***************************************************************************)
THEOREM GateTypes == Spec => []TypeOK
  <1>1. GateInv => TypeOK
    BY DEF GateInv
  <1> QED
    BY <1>1, GateInvariant, PTL

(***************************************************************************)
(* reserveBuildHost never gives a build server more admitted deploys than  *)
(* its limit, for every number of deploys and servers.                     *)
(***************************************************************************)
THEOREM SlotsAreNotOversold == Spec => []AdmittedWithinLimit
  <1>1. GateInv => AdmittedWithinLimit
    BY DEF GateInv
  <1> QED
    BY <1>1, GateInvariant, PTL

(***************************************************************************)
(* A deploy whose service requires status checks builds only a commit      *)
(* whose checks passed.                                                    *)
(***************************************************************************)
THEOREM OnlyCheckedCommitsBuild == Spec => []ChecksPassBeforeBuild
  <1>1. GateInv => ChecksPassBeforeBuild
    BY JobsAssumption, CommitsAssumption
       DEF GateInv, CommitFits, Passed, ChecksPassBeforeBuild
  <1> QED
    BY <1>1, GateInvariant, PTL

=============================================================================
