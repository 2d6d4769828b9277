------------------------------- MODULE Rollout -------------------------------
(***************************************************************************)
(* How the Go worker replaces the container of a service (startContainer): *)
(* next to the running one, which goes once the new one is ready, or with  *)
(* the old one removed first.  Executions of the deploy job normally       *)
(* follow each other; one whose lease has expired overlaps the next until  *)
(* its context is cancelled.  Docker calls are the steps.                  *)
(*                                                                         *)
(* Containers live their own life: they come up, turn unhealthy, exit.     *)
(***************************************************************************)
EXTENDS Naturals, FiniteSets

CONSTANTS
    Old,             \* the containers the service has at the start
    Runs,            \* the executions of deploy jobs of this service
    Settings,        \* what a spec may say: host networking, published ports,
                     \* routed by Traefik, a writable volume
    MaxErrors,       \* how many Docker calls may fail on their own
    MaxOverlaps      \* how many executions may start beside a live one

ASSUME SettingsAssumption ==
    Settings \subseteq [hostNetwork : BOOLEAN, publishesPorts : BOOLEAN,
                        routed : BOOLEAN, writable : BOOLEAN]

ASSUME BoundsAssumption == MaxErrors \in Nat /\ MaxOverlaps \in Nat

\* A run creates one container next to the old ones and one in its retry.
Containers == Old \cup (Runs \X {"first", "retry"})

ASSUME OldAssumption == Old # {} /\ Old \cap (Runs \X {"first", "retry"}) = {}

VARIABLES
    cont,     \* cont[c]: the state of container c
    wasUp,    \* the containers that have been up, ready by the verdict
    run,      \* run[r]: the execution r
    errors,   \* how many calls have failed
    overlaps  \* how many executions started beside another

vars == <<cont, wasUp, run, errors, overlaps>>

(***************************************************************************)
(* starting: running, not ready.  up: running and healthy, or without a    *)
(* healthcheck for five seconds.  exited: also restarting.                 *)
(***************************************************************************)
States == {"none", "created", "starting", "up", "unhealthy", "exited", "gone"}

Points == {"idle", "list", "clear", "create", "start", "await", "handover", "ended"}

\* prev: the containers removePrevious has still to go through.
RunRecords == [at : Points, spec : Settings, prev : SUBSET Containers, recreate : BOOLEAN,
               plan : {"none", "blueGreen", "stopFirst"}, cancelled : BOOLEAN,
               result : {"none", "ok", "error", "rollout-failed"}]

Exists(c) == cont[c] \notin {"none", "gone"}
Running(c) == cont[c] \in {"starting", "up", "unhealthy"}

Init == /\ cont = [c \in Containers |-> IF c \in Old THEN "up" ELSE "none"]
        /\ wasUp = Old
        /\ run \in [Runs -> {[at |-> "idle", spec |-> spec, prev |-> {},
                              recreate |-> FALSE, plan |-> "none",
                              cancelled |-> FALSE, result |-> "none"]
                                : spec \in Settings}]
        /\ errors = 0
        /\ overlaps = 0

-----------------------------------------------------------------------------
(* The containers.                                                         *)

ComesUp(c) == /\ cont[c] \in {"starting", "unhealthy"}
              /\ cont' = [cont EXCEPT ![c] = "up"]
              /\ wasUp' = wasUp \cup {c}
              /\ UNCHANGED <<run, errors, overlaps>>

Breaks(c, state) == /\ Running(c) /\ cont[c] # state
                    /\ cont' = [cont EXCEPT ![c] = state]
                    /\ UNCHANGED <<wasUp, run, errors, overlaps>>

-----------------------------------------------------------------------------
(* The strategy.                                                           *)

RolloutStrategy(hasRunningPrevious, spec) ==
    /\ hasRunningPrevious
    /\ ~spec.hostNetwork
    /\ ~spec.publishesPorts
    /\ spec.routed \/ ~spec.writable

RetryStopFirst(spec) == spec.routed /\ spec.writable

\* pending may go on until maxWait, when the verdict is failed.
ReadinessVerdict(c) ==
    CASE cont[c] = "up" -> {"ready"}
      [] cont[c] = "starting" -> {"pending", "failed"}
      [] OTHER -> {"failed"}

-----------------------------------------------------------------------------
(* One execution.                                                          *)

\* A Docker call of r succeeds, or fails; all fail once r is cancelled.
Works(r) == ~run[r].cancelled /\ UNCHANGED <<errors, overlaps>>
Fails(r) == /\ errors' = IF run[r].cancelled THEN errors ELSE errors + 1
            /\ errors' <= MaxErrors
            /\ UNCHANGED overlaps

Goes(r, point) == run' = [run EXCEPT ![r].at = point]
Ends(r, result) == run' = [run EXCEPT ![r] = [@ EXCEPT !.at = "ended", !.prev = {},
                                                       !.result = result]]

New(r) == <<r, IF run[r].recreate THEN "retry" ELSE "first">>

Alive(r) == run[r].at \notin {"idle", "ended"}

Begin(r) == /\ run[r].at = "idle"
            /\ overlaps' = IF \E s \in Runs : Alive(s) THEN overlaps + 1 ELSE overlaps
            /\ overlaps' <= MaxOverlaps
            /\ Goes(r, "list")
            /\ UNCHANGED <<cont, wasUp, errors>>

\* The job is cancelled, its lease is lost or the worker shuts down.
Cancel(r) == /\ Alive(r) /\ ~run[r].cancelled
             /\ run' = [run EXCEPT ![r].cancelled = TRUE]
             /\ UNCHANGED <<cont, wasUp, errors, overlaps>>

Lists(r, previous, plan) ==
    run' = [run EXCEPT ![r] = [@ EXCEPT !.at = IF plan = "blueGreen" THEN "create"
                                                                     ELSE "clear",
                                        !.prev = previous, !.plan = plan]]

\* Slip: the containers listed are the running ones only.
ListRunning(r) ==
    /\ run[r].at = "list"
    /\ Works(r)
    /\ LET previous == {c \in Containers : Running(c)}
           blueGreen == ~run[r].recreate /\ RolloutStrategy(previous # {}, run[r].spec)
       IN  Lists(r, previous, IF blueGreen THEN "blueGreen" ELSE "stopFirst")
    /\ UNCHANGED <<cont, wasUp>>

List(r) ==
    /\ run[r].at = "list"
    /\ Works(r)
    /\ LET previous == {c \in Containers : Exists(c)}
           blueGreen == /\ ~run[r].recreate
                        /\ RolloutStrategy(\E c \in previous : Running(c), run[r].spec)
       IN  Lists(r, previous, IF blueGreen THEN "blueGreen" ELSE "stopFirst")
    /\ UNCHANGED <<cont, wasUp>>

\* removePrevious, one container of several in parallel; a failure is ignored.
RemovePrevious(r, c) ==
    /\ run[r].at \in {"clear", "handover"} /\ c \in run[r].prev
    /\ \/ Works(r) /\ cont' = [cont EXCEPT ![c] = "gone"]
       \/ Fails(r) /\ cont' \in {cont, [cont EXCEPT ![c] = IF Running(c) THEN "exited"
                                                                        ELSE @]}
    /\ run' = [run EXCEPT ![r].prev = @ \ {c}]
    /\ UNCHANGED wasUp

Cleared(r) == /\ run[r].at = "clear" /\ run[r].prev = {}
              /\ Goes(r, "create")
              /\ UNCHANGED <<cont, wasUp, errors, overlaps>>

Create(r) == /\ run[r].at = "create"
             /\ Works(r)
             /\ cont' = [cont EXCEPT ![New(r)] = "created"]
             /\ Goes(r, "start")
             /\ UNCHANGED wasUp

\* Without blue-green nothing waits for the new container.
Start(r) == /\ run[r].at = "start"
            /\ Works(r) /\ Exists(New(r))
            /\ cont' = [cont EXCEPT ![New(r)] = "starting"]
            /\ IF run[r].plan = "blueGreen" THEN Goes(r, "await") ELSE Ends(r, "ok")
            /\ UNCHANGED wasUp

\* removeQuietly is not cancelled with r; its own failure is ignored.
RemovedQuietly(c) == cont' \in {cont, [cont EXCEPT ![c] = "gone"]}

\* Also when an overlapping execution has removed the new container.
StartFails(r) == /\ run[r].at = "start"
                 /\ \/ Fails(r)
                    \/ ~Exists(New(r)) /\ UNCHANGED <<errors, overlaps>>
                 /\ IF run[r].plan = "blueGreen" THEN RemovedQuietly(New(r)) ELSE UNCHANGED cont
                 /\ Ends(r, "error")
                 /\ UNCHANGED wasUp

\* Listing or creating fails.
CallFails(r) == /\ run[r].at \in {"list", "create"}
                /\ Fails(r)
                /\ Ends(r, "error")
                /\ UNCHANGED <<cont, wasUp>>

\* Slip: the new container is taken for ready as soon as it runs.
BecomesReadyEarly(r) ==
    /\ run[r].at = "await"
    /\ Works(r)
    /\ Running(New(r))
    /\ Goes(r, "handover")
    /\ UNCHANGED <<cont, wasUp>>

BecomesReady(r) == /\ run[r].at = "await"
                   /\ Works(r)
                   /\ "ready" \in ReadinessVerdict(New(r))
                   /\ Goes(r, "handover")
                   /\ UNCHANGED <<cont, wasUp>>

\* What startContainer does with an error of awaitReadyOrDiscard.
Retries(r) == run' = [run EXCEPT ![r] = [@ EXCEPT !.at = "list", !.prev = {},
                                                  !.recreate = TRUE]]

Discard(r) ==
    /\ run[r].at = "await"
    /\ Works(r)
    /\ "failed" \in ReadinessVerdict(New(r))
    /\ RemovedQuietly(New(r))
    /\ IF RetryStopFirst(run[r].spec) THEN Retries(r) ELSE Ends(r, "rollout-failed")
    /\ UNCHANGED wasUp

\* The context is done or an inspect fails: the new container is left.
AwaitFails(r) ==
    /\ run[r].at = "await"
    /\ Fails(r)
    /\ IF RetryStopFirst(run[r].spec) THEN Retries(r) ELSE Ends(r, "error")
    /\ UNCHANGED <<cont, wasUp>>

\* Slip: an execution that hands over keeps no result.
HandedOverSilently(r) == /\ run[r].at = "handover" /\ run[r].prev = {}
                         /\ Ends(r, "done")
                         /\ UNCHANGED <<cont, wasUp, errors, overlaps>>

HandedOver(r) == /\ run[r].at = "handover" /\ run[r].prev = {}
                 /\ Ends(r, "ok")
                 /\ UNCHANGED <<cont, wasUp, errors, overlaps>>

Step(r) == \/ Begin(r) \/ Cancel(r) \/ List(r) \/ Cleared(r) \/ Create(r)
           \/ Start(r) \/ StartFails(r) \/ CallFails(r)
           \/ BecomesReady(r) \/ Discard(r) \/ AwaitFails(r) \/ HandedOver(r)
           \/ \E c \in Containers : RemovePrevious(r, c)

Next == \/ \E r \in Runs : Step(r)
        \/ \E c \in Containers : \/ ComesUp(c)
                                 \/ \E state \in {"unhealthy", "exited"} : Breaks(c, state)

Spec == Init /\ [][Next]_vars

-----------------------------------------------------------------------------
(* Properties.                                                             *)

(***************************************************************************)
(* The types of the containers and of the executions.                      *)
(***************************************************************************)
TypeOK == /\ cont \in [Containers -> States]
          /\ wasUp \subseteq Containers
          /\ run \in [Runs -> RunRecords]
          /\ errors \in 0..MaxErrors
          /\ overlaps \in 0..MaxOverlaps

\* Containers that were ready once and that no deploy has taken away.
Serving == {c \in wasUp : Exists(c)}

\* An execution that stops first, by its settings or in its retry.
StopsFirst(r) == run[r].plan = "stopFirst"

(***************************************************************************)
(* While every execution may run the new container next to the old one,    *)
(* no deploy takes the last container that was ready away: not a failed    *)
(* or cancelled one, and not two that overlap and list each other's new    *)
(* containers as previous.  Only an execution that must stop first, by its *)
(* settings or in its retry, opens a gap.                                  *)
(***************************************************************************)
KeepsServing == Serving # {} \/ \E r \in Runs : StopsFirst(r)

(***************************************************************************)
(* A deploy that succeeds leaves its own container and no other, whatever  *)
(* earlier executions that failed or were cancelled have left behind       *)
(* (removePrevious goes through every container of the service).           *)
(***************************************************************************)
SuccessLeavesOne ==
    [][\A r \in Runs :
          ( /\ run[r].result # "ok" /\ run'[r].result = "ok"
            /\ ~run[r].cancelled /\ errors' = 0 /\ overlaps' = 0 )
          => \A c \in Containers : Exists(c)' => c = New(r)]_vars

-----------------------------------------------------------------------------
(* The inductive invariants behind them (module RolloutProofs).            *)

\* Where an execution may be with which plan.
Shape(r) ==
    /\ run[r].at \in {"idle", "list"} /\ ~run[r].recreate => run[r].plan = "none"
    /\ run[r].at \in {"create", "start"} => run[r].plan # "none"
    /\ run[r].at \in {"await", "handover"} => run[r].plan = "blueGreen"
    /\ run[r].at = "clear" => run[r].plan = "stopFirst"
    /\ run[r].at = "idle" => ~run[r].recreate
    /\ run[r].recreate /\ run[r].plan = "blueGreen" => run[r].at \in {"list", "ended"}

BeforeCreate == {"idle", "list", "clear", "create"}

First(r) == <<r, "first">>

\* Created once and listed only when created.
ContainersFit ==
    /\ \A c \in Containers : cont[c] = "up" => c \in wasUp
    /\ \A r \in Runs : /\ run[r].at \in BeforeCreate /\ ~run[r].recreate
                           => cont[First(r)] = "none"
                       /\ run[r].at \in {"start", "await"} => cont[New(r)] # "none"
                       /\ \A c \in run[r].prev : cont[c] # "none"

\* Executions with the containers they listed, all of them still to remove.
Waiting == {r \in Runs : run[r].at \in {"create", "start", "await"}}
Handing == {r \in Runs : run[r].at = "handover"}

(***************************************************************************)
(* Waiting executions are ordered by their lists: if p has listed what r   *)
(* has not, or the container of r, then p has listed after r, so that r    *)
(* has not listed the container of p and p has listed what r has.          *)
(***************************************************************************)
ListsOrdered ==
    \A p, r \in Waiting :
        /\ First(r) \in run[p].prev => First(p) \notin run[r].prev
        /\ \A c \in Containers : Exists(c) =>
              /\ c \in run[p].prev /\ c \notin run[r].prev => First(p) \notin run[r].prev
              /\ First(r) \in run[p].prev /\ c \in run[r].prev => c \in run[p].prev

(***************************************************************************)
(* A container that was ready and that nobody is about to take away: it is *)
(* not the new container of an execution that may still discard it, no     *)
(* handover removes it, and an execution that will remove it has a new     *)
(* container that no handover removes.                                     *)
(***************************************************************************)
Survives(c) ==
    /\ c \in Serving
    /\ \A r \in Waiting : c # First(r)
    /\ \A s \in Handing : /\ c \notin run[s].prev
                          /\ \A r \in Waiting : c \in run[r].prev
                                                 => First(r) \notin run[s].prev

ServingInv == /\ TypeOK
              /\ \A r \in Runs : Shape(r)
              /\ ContainersFit
              /\ \/ \E r \in Runs : StopsFirst(r)
                 \/ ListsOrdered /\ \E c \in Containers : Survives(c)

\* What exists beside the new container is still to be removed.
Cleans(r) ==
    /\ \A c \in Containers : Exists(c) =>
          \/ c \in run[r].prev
          \/ run[r].at \in {"start", "await", "handover"} /\ c = New(r)
    /\ run[r].at \in {"create", "start"} /\ run[r].plan = "stopFirst"
          => run[r].prev = {}

\* Without overlaps one execution is alive, and cleans up unless its calls fail.
CleaningInv ==
    overlaps = 0 =>
        \A r \in Runs :
            /\ \A s \in Runs : Alive(r) /\ Alive(s) => r = s
            /\ Alive(r) /\ run[r].at # "list" /\ ~run[r].cancelled /\ errors = 0
                  => Cleans(r)

=============================================================================
