----------------------------- MODULE MCJobQueue -----------------------------
(***************************************************************************)
(* The job mixes the runs check JobQueue on: a few jobs each, with the     *)
(* columns the enqueue functions of the app give them.                     *)
(***************************************************************************)
EXTENDS JobQueue, TLC

\* Symmetry of the Go workers, for the runs without liveness.
WorkerSymmetry == Permutations(Workers)

\* Every job the same value of a column.
OneAttempt == [j \in Jobs |-> 1]
TwoAttempts == [j \in Jobs |-> 2]
SamePriority == [j \in Jobs |-> 0]
NoneEach == [j \in Jobs |-> None]

\* Every event may happen once, or none may.
EachOnce == [f \in Faults |-> 1]
Never == [f \in Faults |-> 0]
OnePrune == [f \in Faults |-> IF f = "prune" THEN 1 ELSE 0]

\* The job mixes of the counterexamples.
SameKey == [j \in Jobs |-> "k"]
OwnKey == [j \in Jobs |-> j]
Chain == [j \in Jobs |-> IF j = 1 THEN None ELSE j - 1]

(***************************************************************************)
(* A stack deploy: 1 and 2 are deploys of one service (same dedupe and     *)
(* lock key, one attempt), 3 deploys another service after job 1.          *)
(***************************************************************************)
DeployKeys == (1 :> "service a") @@ (2 :> "service a") @@ (3 :> "service b")
DeployDeps == (1 :> None) @@ (2 :> None) @@ (3 :> 1)

(***************************************************************************)
(* Backups and a prune: 1 and 2 back up one volume with two attempts each, *)
(* 3 is an exclusive Docker cleanup with one attempt, claimed first.       *)
(***************************************************************************)
BackupKeys == (1 :> "volume v") @@ (2 :> "volume v") @@ (3 :> "cleanup")
BackupLocks == (1 :> "volume v") @@ (2 :> "volume v") @@ (3 :> None)
BackupAttempts == (1 :> 2) @@ (2 :> 2) @@ (3 :> 1)
CleanupFirst == (1 :> 0) @@ (2 :> 0) @@ (3 :> 10)

(***************************************************************************)
(* Mixed: 1 redelivers a notification in-process (two attempts, delayed),  *)
(* 2 is a deploy, 3 the exclusive cleanup.                                 *)
(***************************************************************************)
MixedKeys == (1 :> None) @@ (2 :> "service a") @@ (3 :> "cleanup")
MixedLocks == (1 :> None) @@ (2 :> "service a") @@ (3 :> None)
MixedAttempts == (1 :> 2) @@ (2 :> 1) @@ (3 :> 1)
=============================================================================
