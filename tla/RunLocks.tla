------------------------------ MODULE RunLocks ------------------------------
(***************************************************************************)
(* What the job table promises about concurrency: at any time the set of   *)
(* running jobs is free of conflicts.  Two jobs conflict when they share a *)
(* lock key, or when either of them is exclusive.  A job may start only    *)
(* beside jobs it does not conflict with; any set of running jobs may stop *)
(* together (one UPDATE statement ends several of them).                   *)
(*                                                                         *)
(* The detailed specification is JobQueue, which implements this one with  *)
(* the set of rows whose status is "running" for held.                     *)
(***************************************************************************)

CONSTANTS Jobs,       \* every job that may ever be enqueued
          LockKey,    \* LockKey[j]: the lock key of job j, or None
          Exclusive,  \* the jobs that must run alone
          None

VARIABLE held         \* the jobs running now

SameLock(j, k) == LockKey[j] # None /\ LockKey[j] = LockKey[k]

Conflict(j, k) == SameLock(j, k) \/ j \in Exclusive \/ k \in Exclusive

Init == held = {}

Start(j) == /\ j \notin held
            /\ \A k \in held : ~Conflict(j, k)
            /\ held' = held \cup {j}

Stop(S) == held' = held \ S

Next == \/ \E j \in Jobs : Start(j)
        \/ \E S \in SUBSET Jobs : Stop(S)

Spec == Init /\ [][Next]_held

-----------------------------------------------------------------------------
(***************************************************************************)
(* No two jobs that run at the same time conflict: lockKey serialises and  *)
(* an exclusive job runs alone.                                            *)
(***************************************************************************)
NoConflict == \A j, k \in held : j # k => ~Conflict(j, k)

TypeOK == held \subseteq Jobs
=============================================================================
