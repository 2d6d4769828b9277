---------------------------- MODULE ScaleToZero ----------------------------
(***************************************************************************)
(* Scale to zero for one service: the sampler's minute stops it when it is *)
(* idle and marks it asleep, a request that finds it asleep starts it      *)
(* again.  Meanwhile the user starts, stops or kills it and the status     *)
(* sync records what Docker says.  Every await ends a step; each of the    *)
(* four runs one call at a time.                                           *)
(*                                                                         *)
(* The idle clock is abstracted to a choice, a service with an active job  *)
(* is left out (sleepIdle skips it), and so are the services it depends    *)
(* on.                                                                     *)
(***************************************************************************)
VARIABLES
    svc,      \* the service row: desiredState, currentStatus, sleepingSince set
    up,       \* the container (or the swarm tasks) is running
    tick,     \* where sleepIdle is, and the row it listed
    wake,     \* where the wake in #waking is, "none" without one
    user,     \* where the user's request is
    sync,     \* what syncServiceStatus has inspected and not written yet
    stopped   \* the last thing the user asked for, and got, is a stop

vars == <<svc, up, tick, wake, user, sync, stopped>>

Init == /\ svc = [desired |-> "running", status |-> "running", asleep |-> FALSE]
        /\ up = TRUE
        /\ tick = [at |-> "none", row |-> svc]
        /\ wake = "none"
        /\ user = "none"
        /\ sync = "none"
        /\ stopped = FALSE

Started(row) == [row EXCEPT !.desired = "running", !.asleep = FALSE]
Stopped(row) == [row EXCEPT !.desired = "stopped", !.asleep = FALSE]

Status == IF up THEN "running" ELSE "stopped"

-----------------------------------------------------------------------------
(* sleepIdle.                                                              *)

Ticks(at) == tick' = [tick EXCEPT !.at = at]

ListScaleToZero == /\ tick.at = "none" /\ wake = "none"
                   /\ tick' = [at |-> "listed", row |-> svc]
                   /\ UNCHANGED <<svc, up, wake, user, sync, stopped>>

\* A sleeping service that was found running; its idle clock starts over.
ReviveStarted == /\ tick.at = "listed" /\ tick.row.asleep /\ tick.row.status = "running"
                 /\ svc' = Started(svc)
                 /\ Ticks("none")
                 /\ UNCHANGED <<up, wake, user, sync, stopped>>

Idle == ~tick.row.asleep /\ tick.row.desired = "running" /\ tick.row.status = "running"

\* stopService writes its intent before it calls Docker.
SleepIntends == /\ tick.at = "listed" /\ Idle
                /\ svc' = Stopped(svc)
                /\ Ticks("stop")
                /\ UNCHANGED <<up, wake, user, sync, stopped>>

NothingToSleep == /\ tick.at = "listed"
                  /\ Ticks("none")
                  /\ UNCHANGED <<svc, up, wake, user, sync, stopped>>

SleepStops == /\ tick.at = "stop"
              /\ up' = FALSE
              /\ Ticks("mark")
              /\ UNCHANGED <<svc, wake, user, sync, stopped>>

\* The intent to stop stays in the row.
SleepFails == /\ tick.at = "stop"
              /\ Ticks("none")
              /\ UNCHANGED <<svc, up, wake, user, sync, stopped>>

MarkAsleep == /\ tick.at = "mark"
              /\ svc' = [svc EXCEPT !.status = "stopped", !.asleep = TRUE]
              /\ Ticks("none")
              /\ UNCHANGED <<up, wake, user, sync, stopped>>

-----------------------------------------------------------------------------
(* wake.                                                                   *)

\* The catch-all router got a request, or scale to zero was turned off.
Request == /\ wake = "none" /\ svc.asleep
           /\ wake' = "read"
           /\ UNCHANGED <<svc, up, tick, user, sync, stopped>>

\* A wake that finds the service awake only waits for it.
WakeReads == /\ wake = "read"
             /\ wake' = IF svc.asleep THEN "clear" ELSE "wait"
             /\ UNCHANGED <<svc, up, tick, user, sync, stopped>>

WakeClears == /\ wake = "clear"
              /\ svc' = [svc EXCEPT !.asleep = FALSE]
              /\ wake' = "start"
              /\ UNCHANGED <<up, tick, user, sync, stopped>>

WakeStarts == /\ wake = "start"
              /\ up' = TRUE
              /\ wake' = "record"
              /\ UNCHANGED <<svc, tick, user, sync, stopped>>

WakeFails == /\ wake = "start"
             /\ svc' = [svc EXCEPT !.asleep = TRUE]
             /\ wake' = "none"
             /\ UNCHANGED <<up, tick, user, sync, stopped>>

WakeRecords == /\ wake = "record"
               /\ svc' = Started(svc)
               /\ wake' = "wait"
               /\ UNCHANGED <<up, tick, user, sync, stopped>>

\* Ready, or the wake timeout.
WakeEnds == /\ wake = "wait"
            /\ \/ up /\ svc' = [svc EXCEPT !.status = "running"]
               \/ UNCHANGED svc
            /\ wake' = "none"
            /\ UNCHANGED <<up, tick, user, sync, stopped>>

-----------------------------------------------------------------------------
(* The user's start, stop and kill.                                        *)

UserStarts == /\ user = "none"
              /\ user' = "start"
              /\ stopped' = FALSE
              /\ UNCHANGED <<svc, up, tick, wake, sync>>

StartService == /\ user = "start"
                /\ up' = TRUE
                /\ user' = "record start"
                /\ UNCHANGED <<svc, tick, wake, sync, stopped>>

StartRecords == /\ user = "record start"
                /\ svc' = Started(svc)
                /\ user' = "none"
                /\ UNCHANGED <<up, tick, wake, sync, stopped>>

StopService == /\ user = "none"
               /\ svc' = Stopped(svc)
               /\ user' = "stop"
               /\ UNCHANGED <<up, tick, wake, sync, stopped>>

\* A restart leaves the row as it is.
RestartService == /\ user = "none"
                  /\ up' = TRUE
                  /\ stopped' = FALSE
                  /\ UNCHANGED <<svc, tick, wake, user, sync>>

\* A kill does not clear the sleep.
KillService == /\ user = "none"
               /\ svc' = [svc EXCEPT !.desired = "stopped"]
               /\ user' = "kill"
               /\ UNCHANGED <<up, tick, wake, sync, stopped>>

ContainerStops == /\ user \in {"stop", "kill"}
                  /\ up' = FALSE
                  /\ user' = "none"
                  /\ stopped' = (user = "stop")
                  /\ UNCHANGED <<svc, tick, wake, sync>>

\* Docker refuses, and the user is told.
UserFails == /\ user \in {"start", "stop", "kill"}
             /\ user' = "none"
             /\ UNCHANGED <<svc, up, tick, wake, sync, stopped>>

-----------------------------------------------------------------------------
(* The status sync, the container and the app process.                     *)

Inspect == /\ sync = "none"
           /\ sync' = Status
           /\ UNCHANGED <<svc, up, tick, wake, user, stopped>>

SyncServiceStatus == /\ sync # "none"
                     /\ svc' = [svc EXCEPT !.status = sync]
                     /\ sync' = "none"
                     /\ UNCHANGED <<up, tick, wake, user, stopped>>

ContainerExits == /\ up
                  /\ up' = FALSE
                  /\ UNCHANGED <<svc, tick, wake, user, sync, stopped>>

Crash == /\ Ticks("none")
         /\ wake' = "none" /\ user' = "none" /\ sync' = "none"
         /\ UNCHANGED <<svc, up, stopped>>

SleepIdle == \/ ListScaleToZero \/ ReviveStarted \/ SleepIntends \/ NothingToSleep
             \/ SleepStops \/ SleepFails \/ MarkAsleep

Wake == \/ Request \/ WakeReads \/ WakeClears \/ WakeStarts
        \/ WakeFails \/ WakeRecords \/ WakeEnds

User == \/ UserStarts \/ StartService \/ StartRecords
        \/ StopService \/ RestartService \/ KillService \/ ContainerStops \/ UserFails

Next == SleepIdle \/ Wake \/ User \/ Inspect \/ SyncServiceStatus
        \/ ContainerExits \/ Crash

Spec == Init /\ [][Next]_vars

-----------------------------------------------------------------------------
(* Properties.                                                             *)

(***************************************************************************)
(* docs/runtime-and-compute.md: a service stopped by hand stays stopped    *)
(* until you start it.  Violated: a wake that has read the row goes on to  *)
(* start the container, and a sleep that was stopping the container marks  *)
(* the service asleep after the user's stop has cleared the mark.          *)
(***************************************************************************)
StoppedByHandStaysStopped == [][stopped /\ ~up => ~up' \/ ~stopped']_vars

=============================================================================
