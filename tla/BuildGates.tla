----------------------------- MODULE BuildGates -----------------------------
(***************************************************************************)
(* The gates a git build passes in prepareWorkerDeploy before its deploy   *)
(* changes anything: the required status checks of its commit, then a free *)
(* slot of a build server.  A closed gate puts the job back in the queue   *)
(* until its next poll; too many polls fail it.                            *)
(*                                                                         *)
(* JobQueue models the queue itself; here a job keeps the columns the      *)
(* gates read, and its services are distinct, so that the gates alone hold *)
(* a job back.  Time is counted in polls.                                  *)
(***************************************************************************)
EXTENDS Naturals, FiniteSets

CONSTANTS
    Jobs,            \* the deploy jobs, each of a git service of its own
    Hosts,           \* the registered build servers
    Limit,           \* Limit[h]: its concurrent builds, 0 for no limit
    BuildServer,     \* BuildServer[j]: its service's choice at first: Here,
                     \* Any or one of Hosts
    BuildOnHost,     \* the instance setting buildOnHost
    Checked,         \* the jobs whose service requires status checks all along
    Commits,         \* the commits of the branch, a set of numbers
    GracePolls,      \* the polls of STATUS_CHECK_GRACE_MS
    TimeoutPolls,    \* the polls of either gate's timeout
    MaxEvents,       \* how many cancels, restarts and changes of settings
    Here, Any, None

ASSUME HostsAssumption == /\ Limit \in [Hosts -> Nat]
                          /\ BuildServer \in [Jobs -> Hosts \cup {Here, Any}]
                          /\ {Here, Any, None} \cap Hosts = {} /\ Here # Any
                          /\ BuildOnHost \in BOOLEAN

ASSUME JobsAssumption == IsFiniteSet(Jobs) /\ Checked \subseteq Jobs

ASSUME CommitsAssumption == 1 \in Commits /\ Commits \subseteq Nat \ {0}

ASSUME PollsAssumption == GracePolls \in Nat /\ TimeoutPolls \in Nat \ {0}

ASSUME BoundsAssumption == MaxEvents \in Nat

VARIABLES
    job,       \* job[j]: the row of j and of its deployment
    task,      \* task[j]: where the app process is in runJob(j)
    plan,      \* plan[j]: the commit and server the gates let through
    building,  \* the jobs a Go worker is building
    required,  \* the jobs whose service requires status checks now
    choice,    \* choice[j]: the build server its service names now
    head,      \* the commit of the branch
    checks,    \* checks[c]: what the provider reports on c
    events     \* how many cancels, restarts and changes there were

vars == <<job, task, plan, building, required, choice, head, checks, events>>

Ended == {"succeeded", "failed", "cancelled"}

\* gate, waited: deferredFor and the polls since deferredSince.
Rows == [status : {"queued", "running"} \cup Ended,
         stage : {"none", "execute", "finalize"},
         due : BOOLEAN, gate : {"none", "status-checks", "build-slot"},
         waited : 0..TimeoutPolls, host : Hosts \cup {None},
         commit : Commits \cup {0}]

Tasks == {"idle", "checks", "round", "slot", "prepare", "failing",
          "await checks", "await slot"}

Plans == [commit : Commits \cup {0}, host : Hosts \cup {None}]

CheckStates == {"running", "missing", "success", "failure"}

Init == /\ job = [j \in Jobs |->
                    [status |-> "queued", stage |-> "none", due |-> TRUE,
                     gate |-> "none", waited |-> 0, host |-> None, commit |-> 0]]
        /\ task = [j \in Jobs |-> "idle"]
        /\ plan = [j \in Jobs |-> [commit |-> 0, host |-> None]]
        /\ building = {}
        /\ required = Checked
        /\ choice = BuildServer
        /\ head = 1
        /\ checks \in [Commits -> {"running", "missing"}]
        /\ events = 0

Goes(j, t) == task' = [task EXCEPT ![j] = t]

TimedOut(j) == job[j].waited >= TimeoutPolls

-----------------------------------------------------------------------------
(* The queue around the gates.                                             *)

BecomeDue(j) ==
    /\ job[j].status = "queued" /\ ~job[j].due
    /\ \E waited \in 0..TimeoutPolls :
          /\ waited > job[j].waited \/ waited = TimeoutPolls
          /\ job' = [job EXCEPT ![j] = [@ EXCEPT !.due = TRUE, !.waited = waited]]
    /\ UNCHANGED <<task, plan, building, required, choice, head, checks, events>>

ClaimNext(j) ==
    /\ job[j].status = "queued" /\ job[j].due /\ task[j] = "idle"
    /\ job' = [job EXCEPT ![j].status = "running"]
    /\ Goes(j, "checks")
    /\ UNCHANGED <<plan, building, required, choice, head, checks, events>>

\* Slip: a job deferred again starts its wait over.
DeferredFromNow(r, gate) ==
    [r EXCEPT !.status = "queued", !.stage = "none", !.due = FALSE, !.host = None,
              !.gate = gate, !.waited = 0]

\* Back in the queue; deferredSince is kept while the gate stays the same.
Deferred(r, gate) ==
    [r EXCEPT !.status = "queued", !.stage = "none", !.due = FALSE, !.host = None,
              !.gate = gate, !.waited = IF r.gate = gate THEN @ ELSE 0]

\* The row is written whatever its status has become.
Defer(j, gate) ==
    /\ job' = [job EXCEPT ![j] = Deferred(@, gate)]
    /\ Goes(j, "idle")
    /\ UNCHANGED <<plan, building, required, choice, head, checks, events>>

RunDeferred(j) == \/ task[j] = "await checks" /\ Defer(j, "status-checks")
                  \/ task[j] = "await slot" /\ Defer(j, "build-slot")

\* A row that ends, by failing, a cancel or its finalize.
Closed(r, status) == [r EXCEPT !.status = status, !.stage = "none"]

\* Deploy jobs have one attempt.
RecordFailure(j) ==
    /\ task[j] = "failing"
    /\ job' = [job EXCEPT ![j] = Closed(@, "failed")]
    /\ Goes(j, "idle")
    /\ UNCHANGED <<plan, building, required, choice, head, checks, events>>

Cancel(j) ==
    /\ job[j].status \in {"queued", "running"}
    /\ events < MaxEvents
    /\ events' = events + 1
    /\ job' = [job EXCEPT ![j] = Closed(@, "cancelled")]
    /\ UNCHANGED <<task, plan, building, required, choice, head, checks>>

Crash ==
    /\ events < MaxEvents
    /\ events' = events + 1
    /\ task' = [j \in Jobs |-> "idle"]
    /\ UNCHANGED <<job, plan, building, required, choice, head, checks>>

\* The sweep keeps the deferral and the build server of the lost attempt.
RequeueOrphaned(j) ==
    /\ job[j].status = "running" /\ job[j].stage = "none" /\ task[j] = "idle"
    /\ job' = [job EXCEPT ![j].status = "queued"]
    /\ UNCHANGED <<task, plan, building, required, choice, head, checks, events>>

-----------------------------------------------------------------------------
(* The status checks.                                                      *)

\* Slip: a job that waited for its slot takes the branch as it is now.
SkipChecksAtHead(j) ==
    /\ task[j] = "checks"
    /\ j \notin required \/ job[j].gate = "build-slot"
    /\ plan' = [plan EXCEPT ![j].commit = IF j \in required THEN head ELSE 0]
    /\ Goes(j, "slot")
    /\ UNCHANGED <<job, building, required, choice, head, checks, events>>

\* Without the requirement the commit is resolved by the build.
SkipChecks(j) ==
    /\ task[j] = "checks"
    /\ j \notin required \/ job[j].gate = "build-slot"
    /\ plan' = [plan EXCEPT ![j].commit = IF j \in required THEN job[j].commit ELSE 0]
    /\ Goes(j, "slot")
    /\ UNCHANGED <<job, building, required, choice, head, checks, events>>

\* The first round resolves the branch, the later ones keep its commit.
Pin(j) ==
    /\ task[j] = "checks" /\ j \in required /\ job[j].gate # "build-slot"
    /\ job' = [job EXCEPT ![j].commit = IF job[j].gate = "status-checks" /\ @ # 0
                                        THEN @ ELSE head]
    /\ Goes(j, "round")
    /\ UNCHANGED <<plan, building, required, choice, head, checks, events>>

EvaluateChecks(state, graceExpired) ==
    CASE state = "success" -> "pass"
      [] state = "failure" -> "fail"
      [] state = "running" -> "pending"
      [] OTHER -> IF graceExpired THEN "fail" ELSE "pending"

\* The outcomes of a round; the provider may also fail to answer, for now
\* or for good.  Waiting again covers pending and retry.
CheckRound(j) ==
    LET waited == IF job[j].gate = "status-checks" THEN job[j].waited ELSE 0
        timedOut == waited >= TimeoutPolls
        outcome == EvaluateChecks(checks[job[j].commit], waited >= GracePolls)
    IN  {IF outcome = "pending" /\ timedOut THEN "fail" ELSE outcome,
         IF timedOut THEN "fail" ELSE "pending", "fail"}

\* settle: what the gate does with the outcome of the round.
Settle(j) ==
    /\ task[j] = "round"
    /\ \E outcome \in CheckRound(j) :
          /\ Goes(j, CASE outcome = "pass" -> "slot"
                       [] outcome = "pending" -> "await checks"
                       [] OTHER -> "failing")
          /\ plan' = [plan EXCEPT ![j].commit =
                        IF outcome = "pass" THEN job[j].commit ELSE @]
    /\ UNCHANGED <<job, building, required, choice, head, checks, events>>

-----------------------------------------------------------------------------
(* The build slots.                                                        *)

BuildServerCandidates(j) == CASE choice[j] \in Hosts -> {choice[j]}
                              [] choice[j] = Any \/ ~BuildOnHost -> Hosts
                              [] OTHER -> {}

\* The running jobs other than j whose row names h.
ActiveOn(j, h) == Cardinality({k \in Jobs \ {j} : /\ job[k].status = "running"
                                                  /\ job[k].host = h})

\* Slip: the last slot is given away twice.
PickOneTooMany(j, candidates) ==
    LET free == {h \in candidates : Limit[h] = 0 \/ ActiveOn(j, h) <= Limit[h]}
    IN  {h \in free : \A g \in free : ActiveOn(j, h) <= ActiveOn(j, g)}

\* The least busy servers with a free slot; one of them at random.
PickBuildServer(j, candidates) ==
    LET free == {h \in candidates : Limit[h] = 0 \/ ActiveOn(j, h) < Limit[h]}
    IN  {h \in free : \A g \in free : ActiveOn(j, h) <= ActiveOn(j, g)}

BuildHere(j) ==
    /\ task[j] = "slot" /\ BuildServerCandidates(j) = {}
    /\ plan' = [plan EXCEPT ![j].host = None]
    /\ Goes(j, "prepare")
    /\ UNCHANGED <<job, building, required, choice, head, checks, events>>

\* The transaction of reserveBuildHost, under its advisory lock.
ReserveBuildHost(j) ==
    /\ task[j] = "slot"
    /\ \E h \in PickBuildServer(j, BuildServerCandidates(j)) :
          /\ job' = [job EXCEPT ![j].host = h]
          /\ plan' = [plan EXCEPT ![j].host = h]
    /\ Goes(j, "prepare")
    /\ UNCHANGED <<building, required, choice, head, checks, events>>

\* Slip: a host name instead of the task.
ServersFullMistyped(j) ==
    /\ task[j] = "slot"
    /\ BuildServerCandidates(j) # {} /\ PickBuildServer(j, BuildServerCandidates(j)) = {}
    /\ Goes(j, choice[j])
    /\ UNCHANGED <<job, plan, building, required, choice, head, checks, events>>

ServersFull(j) ==
    /\ task[j] = "slot"
    /\ BuildServerCandidates(j) # {} /\ PickBuildServer(j, BuildServerCandidates(j)) = {}
    /\ Goes(j, IF job[j].gate = "build-slot" /\ TimedOut(j) THEN "failing"
                                                            ELSE "await slot")
    /\ UNCHANGED <<job, plan, building, required, choice, head, checks, events>>

-----------------------------------------------------------------------------
(* After the gates.                                                        *)

PrepareFails(j) ==
    /\ task[j] = "prepare"
    /\ Goes(j, "failing")
    /\ UNCHANGED <<job, plan, building, required, choice, head, checks, events>>

HandOff(j) ==
    /\ task[j] = "prepare"
    /\ job' = [job EXCEPT ![j].stage = "execute"]
    /\ Goes(j, "idle")
    /\ UNCHANGED <<plan, building, required, choice, head, checks, events>>

BuildStarts(j) ==
    /\ job[j].status = "running" /\ job[j].stage = "execute" /\ j \notin building
    /\ building' = building \cup {j}
    /\ UNCHANGED <<job, task, plan, required, choice, head, checks, events>>

\* Reports the outcome, unless the job was cancelled meanwhile.
BuildEnds(j) ==
    /\ j \in building
    /\ building' = building \ {j}
    /\ job' = IF job[j].status = "running" /\ job[j].stage = "execute"
              THEN [job EXCEPT ![j].stage = "finalize"] ELSE job
    /\ UNCHANGED <<task, plan, required, choice, head, checks, events>>

\* finalizeJob, swept and run again after a restart.
FinalizeJob(j) ==
    /\ job[j].status = "running" /\ job[j].stage = "finalize"
    /\ \E status \in {"succeeded", "failed"} :
          job' = [job EXCEPT ![j] = Closed(@, status)]
    /\ UNCHANGED <<task, plan, building, required, choice, head, checks, events>>

-----------------------------------------------------------------------------
(* The outside: the branch, its checks and the service's settings.         *)

Push == /\ head + 1 \in Commits
        /\ head' = head + 1
        /\ UNCHANGED <<job, task, plan, building, required, choice, checks, events>>

CheckReports(c) ==
    /\ checks[c] \in {"running", "missing"}
    /\ \E state \in {"success", "failure"} : checks' = [checks EXCEPT ![c] = state]
    /\ UNCHANGED <<job, task, plan, building, required, choice, head, events>>

ChangeSettings == /\ events < MaxEvents
                  /\ events' = events + 1
                  /\ UNCHANGED <<job, task, plan, building, head, checks>>

RequireChecks(j) == /\ j \notin required
                    /\ required' = required \cup {j}
                    /\ ChangeSettings
                    /\ UNCHANGED choice

ChooseBuildServer(j) == /\ \E c \in (Hosts \cup {Here, Any}) \ {choice[j]} :
                              choice' = [choice EXCEPT ![j] = c]
                        /\ ChangeSettings
                        /\ UNCHANGED required

-----------------------------------------------------------------------------

Gates(j) == \/ BecomeDue(j) \/ ClaimNext(j) \/ RunDeferred(j) \/ RecordFailure(j)
            \/ RequeueOrphaned(j) \/ SkipChecks(j) \/ Pin(j) \/ Settle(j)
            \/ BuildHere(j) \/ ReserveBuildHost(j) \/ ServersFull(j)
            \/ PrepareFails(j) \/ HandOff(j)

Next == \/ \E j \in Jobs : \/ Gates(j) \/ Cancel(j)
                           \/ RequireChecks(j) \/ ChooseBuildServer(j)
                           \/ BuildStarts(j) \/ BuildEnds(j) \/ FinalizeJob(j)
        \/ Crash \/ Push \/ \E c \in Commits : CheckReports(c)

\* The app process goes on; nothing is assumed of builds or of the provider.
Fairness == \A j \in Jobs : WF_vars(Gates(j))

Spec == Init /\ [][Next]_vars /\ Fairness

-----------------------------------------------------------------------------
(* Properties.                                                             *)

(***************************************************************************)
(* The columns the gates read and the states of a job in the app.          *)
(***************************************************************************)
TypeOK == /\ job \in [Jobs -> Rows]
          /\ task \in [Jobs -> Tasks]
          /\ plan \in [Jobs -> Plans]
          /\ building \subseteq Jobs
          /\ required \subseteq Jobs
          /\ choice \in [Jobs -> Hosts \cup {Here, Any}]
          /\ head \in Commits
          /\ checks \in [Commits -> CheckStates]
          /\ events \in 0..MaxEvents

\* The jobs past the gates, until they end.
Admitted(j) == /\ job[j].status = "running"
               /\ task[j] = "prepare" \/ job[j].stage # "none"

(***************************************************************************)
(* No build server has more admitted deploys than its limit, counted by    *)
(* the server each one really builds on, whatever build server rows keep   *)
(* from an attempt that a restart, a retry or a deferral ended.            *)
(***************************************************************************)
AdmittedWithinLimit ==
    \A h \in Hosts : Limit[h] > 0 =>
        Cardinality({j \in Jobs : Admitted(j) /\ plan[j].host = h}) <= Limit[h]

(***************************************************************************)
(* A service that requires status checks has only commits built whose      *)
(* checks passed, however often its job was deferred, swept or overtaken   *)
(* by a push in between.                                                   *)
(***************************************************************************)
ChecksPassBeforeBuild ==
    \A j \in Checked : Admitted(j) => /\ plan[j].commit # 0
                                      /\ checks[plan[j].commit] = "success"

(***************************************************************************)
(* The deploy's gate is decided even if no build ever ends and no check    *)
(* ever reports: it is handed off or ends, after its timeout at the latest *)
(* (deferredSince stays while the gate does).                              *)
(***************************************************************************)
EveryDeployIsDecided ==
    \A j \in Jobs : job[j].status = "queued" ~>
                       (job[j].stage # "none" \/ job[j].status \in Ended)

-----------------------------------------------------------------------------
(* The inductive invariant behind the safety properties (module            *)
(* BuildGatesProofs).                                                      *)

\* The commit of the deployment is one whose checks passed.
Passed(j) == job[j].commit \in Commits /\ checks[job[j].commit] = "success"

\* Stages are set by the hand-off alone, and the app works on no queued row.
StageFits(j) == /\ job[j].status = "queued" \/ task[j] # "idle" => job[j].stage = "none"
                /\ task[j] # "idle" => job[j].status # "queued"

\* The server an admitted job builds on is the one its row is counted for.
SlotRecorded(j) == Admitted(j) /\ plan[j].host # None => job[j].host = plan[j].host

\* From the passed gate on, through every deferral, the commit is the checked one.
CommitFits(j) ==
    /\ task[j] = "round" => job[j].commit # 0
    /\ job[j].gate = "build-slot" => Passed(j)
    /\ (task[j] \in {"slot", "prepare", "await slot"} \/ Admitted(j))
          => Passed(j) /\ plan[j].commit = job[j].commit

GateInv == /\ TypeOK
           /\ Checked \subseteq required
           /\ \A j \in Jobs : StageFits(j) /\ SlotRecorded(j)
           /\ \A j \in Checked : CommitFits(j)
           /\ AdmittedWithinLimit

=============================================================================
