------------------------------ MODULE IacState ------------------------------
(***************************************************************************)
(* The Terraform state of one project: its lock row in Postgres, its       *)
(* version rows, and the version bodies in a bucket.  Requests are handled *)
(* concurrently; every await of a handler ends a step.                     *)
(*                                                                         *)
(* The callers are Terraform runs, each with a lock id of its own, which   *)
(* lock, read, write and unlock, and operators who roll the state back or  *)
(* force the lock open.  A caller whose request takes too long sends it    *)
(* again; the first handler goes on.                                       *)
(***************************************************************************)
EXTENDS Naturals, Sequences, FiniteSets

CONSTANTS
    Runs,          \* the Terraform runs, and their lock ids
    Disturbances,  \* which of AllDisturbances may happen, once each
    MaxKinds,      \* how many of them one behaviour mixes
    None

AllDisturbances == {"crash", "refused", "resend", "rollback", "force"}

ASSUME DisturbancesAssumption == Disturbances \subseteq AllDisturbances

ASSUME BoundsAssumption == MaxKinds \in Nat

Operators == {"rollback", "force"}

ASSUME RunsAssumption == None \notin Runs /\ Runs \cap Operators = {}

VARIABLES
    lock,       \* the lock id of the project's lock row, or None
    versions,   \* the version rows by createdAt: their serial and their object
    bucket,     \* the objects in the bucket
    run,        \* run[c]: where Terraform run c is, and the serial it read
    req,        \* req[q]: the handler of request q
    disturbed   \* the disturbances that have happened

vars == <<lock, versions, bucket, run, req, disturbed>>

\* The first and the repeated request of a run, and those of the operators.
Requests == (Runs \X {1, 2}) \cup (Operators \X {1})

Phases == {"start", "locking", "locked", "read", "writing", "written",
           "unlocking", "ended"}

\* The statement a handler is at, and the serial its write carries.
Steps == {"none", "lock insert", "granted", "lock select", "write select", "put",
          "insert", "unlock select", "delete", "rollback select", "rollback read"}

NoRequest == [at |-> "none", serial |-> 0]

Init == /\ lock = None
        /\ versions = <<>>
        /\ bucket = {}
        /\ run = [c \in Runs |-> [phase |-> "start", serial |-> 0, via |-> 0]]
        /\ req = [q \in Requests |-> NoRequest]
        /\ disturbed = {}

Serial(vs) == IF vs = <<>> THEN 0 ELSE vs[Len(vs)].serial

\* A bound of the model, not of the code.
Disturb(d) == /\ d \in Disturbances \ disturbed
              /\ Cardinality(disturbed) < MaxKinds
              /\ disturbed' = disturbed \cup {d}

-----------------------------------------------------------------------------
(* The Terraform runs.  via is the request a run waits for, 0 for none.    *)

Sends(c, q, phase, at, serial) ==
    /\ req[q].at = "none"
    /\ req' = [req EXCEPT ![q] = [at |-> at, serial |-> serial]]
    /\ run' = [run EXCEPT ![c] = [phase |-> phase, serial |-> serial, via |-> q[2]]]
    /\ UNCHANGED <<lock, versions, bucket>>

Sent(c, n) == /\ run[c].via = 0
              /\ n = IF req[<<c, 1>>].at = "none" THEN 1 ELSE 2
              /\ UNCHANGED disturbed

SendLock(c) == \E n \in {1, 2} :
    /\ run[c].phase = "start" /\ Sent(c, n)
    /\ Sends(c, <<c, n>>, "locking", "lock insert", 0)

\* read: the latest version and its body.
ReadState(c) ==
    /\ run[c].phase = "locked"
    /\ run' = [run EXCEPT ![c] = [phase |-> "read", serial |-> Serial(versions),
                                  via |-> @.via]]
    /\ UNCHANGED <<lock, versions, bucket, req, disturbed>>

SendState(c) == \E n \in {1, 2} :
    /\ run[c].phase = "read" /\ Sent(c, n)
    /\ Sends(c, <<c, n>>, "writing", "write select", run[c].serial + 1)

SendUnlock(c) == \E n \in {1, 2} :
    /\ run[c].phase = "written" /\ Sent(c, n)
    /\ Sends(c, <<c, n>>, "unlocking", "unlock select", run[c].serial)

FirstStep == [locking |-> "lock insert", writing |-> "write select",
              unlocking |-> "unlock select"]

Resend(c) ==
    /\ run[c].via # 0
    /\ Disturb("resend")
    /\ Sends(c, <<c, 3 - run[c].via>>, run[c].phase, FirstStep[run[c].phase],
             run[c].serial)

-----------------------------------------------------------------------------
(* The operators.                                                          *)

Operates(d, at) == /\ Disturb(d)
                   /\ req' = [req EXCEPT ![<<d, 1>>] = [at |-> at, serial |-> 0]]
                   /\ UNCHANGED <<lock, versions, bucket, run>>

ForceUnlock == Operates("force", "unlock select")

\* Of a version shown on the page.
Rollback == versions # <<>> /\ Operates("rollback", "rollback select")

-----------------------------------------------------------------------------
(* The handlers.                                                           *)

GoesOn(q, at) == /\ req' = [req EXCEPT ![q] = [at |-> at, serial |-> @.serial]]
                 /\ UNCHANGED run

\* Ends the handler; a caller that still waits for it goes to phase.
Answers(q, phase) ==
    /\ req' = [req EXCEPT ![q] = NoRequest]
    /\ run' = IF q[1] \in Runs /\ run[q[1]].via = q[2]
              THEN [run EXCEPT ![q[1]] = [phase |-> phase, serial |-> @.serial, via |-> 0]]
              ELSE run

\* Slip: the insert replaces the row of another run.
LockUpsert(q) ==
    /\ req[q].at = "lock insert"
    /\ lock' = q[1] /\ GoesOn(q, "granted")
    /\ UNCHANGED <<versions, bucket, disturbed>>

\* INSERT ... ON CONFLICT DO NOTHING.
LockInsert(q) ==
    /\ req[q].at = "lock insert"
    /\ IF lock = None THEN lock' = q[1] /\ GoesOn(q, "granted")
                      ELSE UNCHANGED lock /\ GoesOn(q, "lock select")
    /\ UNCHANGED <<versions, bucket, disturbed>>

\* The row is there before its run knows: a restart in between keeps it.
LockGranted(q) ==
    /\ req[q].at = "granted"
    /\ Answers(q, "locked")
    /\ UNCHANGED <<lock, versions, bucket, disturbed>>

\* Slip: a conflict is taken for the run's own lock.
LockSelectOwn(q) ==
    /\ req[q].at = "lock select"
    /\ Answers(q, "locked")
    /\ UNCHANGED <<lock, versions, bucket, disturbed>>

\* A run that is refused, or meets no lock any more, tries again.
LockSelect(q) ==
    /\ req[q].at = "lock select"
    /\ Answers(q, IF lock = q[1] THEN "locked" ELSE "start")
    /\ UNCHANGED <<lock, versions, bucket, disturbed>>

\* The lock id a write comes with: rollback passes null.
LockId(q) == IF q[1] \in Runs THEN q[1] ELSE None

WriteSelect(q) ==
    /\ req[q].at = "write select"
    /\ IF lock \notin {None, LockId(q)} THEN Answers(q, "written") ELSE GoesOn(q, "put")
    /\ UNCHANGED <<lock, versions, bucket, disturbed>>

\* Slip: the version is recorded whether or not the bucket took its body.
PutObjectUnchecked(q) ==
    /\ req[q].at = "put"
    /\ bucket' \in {bucket, bucket \cup {q}}
    /\ GoesOn(q, "insert")
    /\ UNCHANGED <<lock, versions, disturbed>>

PutObject(q) ==
    /\ req[q].at = "put"
    /\ bucket' = bucket \cup {q}
    /\ GoesOn(q, "insert")
    /\ UNCHANGED <<lock, versions, disturbed>>

\* The run is told and goes on to unlock.
PutRefused(q) ==
    /\ req[q].at = "put"
    /\ Disturb("refused")
    /\ Answers(q, "written")
    /\ UNCHANGED <<lock, versions, bucket>>

InsertVersion(q) ==
    /\ req[q].at = "insert"
    /\ versions' = Append(versions, [serial |-> req[q].serial, object |-> q])
    /\ Answers(q, "written")
    /\ UNCHANGED <<lock, bucket, disturbed>>

UnlockSelect(q) ==
    /\ req[q].at = "unlock select"
    /\ IF lock = None \/ (q[1] # "force" /\ lock # q[1])
       THEN Answers(q, "ended") ELSE GoesOn(q, "delete")
    /\ UNCHANGED <<lock, versions, bucket, disturbed>>

\* Slip: the lock row is emptied instead of deleted.
UnlockEmpties(q) ==
    /\ req[q].at = "delete"
    /\ lock' = ""
    /\ Answers(q, "ended")
    /\ UNCHANGED <<versions, bucket, disturbed>>

\* Whoever holds the lock by now.
UnlockDelete(q) ==
    /\ req[q].at = "delete"
    /\ lock' = None
    /\ Answers(q, "ended")
    /\ UNCHANGED <<versions, bucket, disturbed>>

RollbackSelect(q) ==
    /\ req[q].at = "rollback select"
    /\ IF lock # None THEN Answers(q, "ended") ELSE GoesOn(q, "rollback read")
    /\ UNCHANGED <<lock, versions, bucket, disturbed>>

RollbackRead(q) ==
    /\ req[q].at = "rollback read"
    /\ req' = [req EXCEPT ![q] = [at |-> "write select",
                                  serial |-> Serial(versions) + 1]]
    /\ UNCHANGED <<lock, versions, bucket, run, disturbed>>

\* A restart of the app ends every handler; its callers see an error.
AfterError == [locking |-> "start", writing |-> "written", unlocking |-> "ended"]

Crash ==
    /\ Disturb("crash")
    /\ req' = [q \in Requests |-> NoRequest]
    /\ run' = [c \in Runs |-> IF run[c].via = 0 THEN run[c]
                 ELSE [phase |-> AfterError[run[c].phase], serial |-> run[c].serial,
                       via |-> 0]]
    /\ UNCHANGED <<lock, versions, bucket>>

Handle(q) == \/ LockInsert(q) \/ LockGranted(q) \/ LockSelect(q) \/ WriteSelect(q)
             \/ PutObject(q) \/ PutRefused(q) \/ InsertVersion(q) \/ UnlockSelect(q)
             \/ UnlockDelete(q) \/ RollbackSelect(q) \/ RollbackRead(q)

Next == \/ \E c \in Runs : \/ SendLock(c) \/ ReadState(c) \/ SendState(c)
                           \/ SendUnlock(c) \/ Resend(c)
        \/ \E q \in Requests : Handle(q)
        \/ ForceUnlock \/ Rollback \/ Crash

Spec == Init /\ [][Next]_vars

-----------------------------------------------------------------------------
(* Properties.                                                             *)

(***************************************************************************)
(* The types of the rows, the runs and the handlers.                       *)
(***************************************************************************)
TypeOK == /\ lock \in Runs \cup {None}
          /\ versions \in Seq([serial : Nat, object : Requests])
          /\ bucket \subseteq Requests
          /\ run \in [Runs -> [phase : Phases, serial : Nat, via : 0..2]]
          /\ req \in [Requests -> [at : Steps, serial : Nat]]
          /\ disturbed \subseteq Disturbances

(***************************************************************************)
(* Every recorded version can be read back: its body was in the bucket     *)
(* before its row, also when the app restarts or the bucket refuses it.    *)
(***************************************************************************)
VersionsAreReadable == \A i \in DOMAIN versions : versions[i].object \in bucket

(***************************************************************************)
(* From the answer to its lock request to its unlock a run holds the lock, *)
(* although unlocking deletes whatever row there is: only a forced unlock  *)
(* or a request sent twice can take it away.                               *)
(***************************************************************************)
HolderKeepsLock ==
    disturbed \cap {"force", "resend"} = {} =>
        \A c \in Runs : run[c].phase \in {"locked", "read", "writing", "written"}
                           => lock = c

(***************************************************************************)
(* Two applies do not race: every version follows the one before it, so    *)
(* that no apply is lost, also across restarts and refused writes.  Forced *)
(* unlocks, requests sent twice and rollbacks void this.                   *)
(***************************************************************************)
SerialsFollow ==
    disturbed \cap {"force", "resend", "rollback"} = {} =>
        \A i \in DOMAIN versions : versions[i].serial = i

-----------------------------------------------------------------------------
(* The inductive invariant behind the properties (module IacStateProofs).  *)

Calm == disturbed \cap {"force", "resend"} = {}

\* A run that waits for an answer is in one of three phases.
WaitsForAnswer ==
    \A c \in Runs : run[c].via # 0 =>
                        run[c].phase \in {"locking", "writing", "unlocking"}

StepFits(phase, at) ==
    \/ phase = "locking" /\ at \in {"lock insert", "granted", "lock select"}
    \/ phase = "writing" /\ at \in {"write select", "put", "insert"}
    \/ phase = "unlocking" /\ at \in {"unlock select", "delete"}

\* The one handler of a run is the one it waits for, and at a step of its phase.
RequestsFit ==
    Calm => \A q \in Requests :
        (q[1] \in Runs /\ req[q].at # "none") =>
            /\ run[q[1]].via = q[2]
            /\ req[q].serial = run[q[1]].serial
            /\ StepFits(run[q[1]].phase, req[q].at)

OperatorStepFits(d, at) ==
    \/ d = "rollback" /\ at \in {"rollback select", "rollback read",
                                 "write select", "put", "insert"}
    \/ d = "force" /\ at \in {"unlock select", "delete"}

\* An operator's handler is there only once the operator has acted.
OperatorsFit ==
    \A q \in Requests : (q[1] \in Operators /\ req[q].at # "none") =>
        /\ q[1] \in disturbed
        /\ OperatorStepFits(q[1], req[q].at)

\* A body is in the bucket from its upload on.
BodiesFirst == \A q \in Requests : req[q].at = "insert" => q \in bucket

Holding == {"locked", "read", "writing", "written", "unlocking"}

\* The lock is kept through the unlock request too.
HoldersHold == Calm => \A c \in Runs : run[c].phase \in Holding => lock = c

\* A run whose row was inserted holds the lock before it is told so.
GrantedHold == Calm => \A q \in Requests : req[q].at = "granted" => lock = q[1]

\* What the holder has read is the newest version, what it writes comes next.
SerialsFit ==
    (Calm /\ "rollback" \notin disturbed) =>
        /\ \A i \in DOMAIN versions : versions[i].serial = i
        /\ \A c \in Runs :
              /\ run[c].phase = "read" => run[c].serial = Len(versions)
              /\ run[c].phase = "writing" => run[c].serial = Len(versions) + 1

LockInv == /\ TypeOK
           /\ WaitsForAnswer
           /\ RequestsFit
           /\ OperatorsFit
           /\ BodiesFirst
           /\ VersionsAreReadable
           /\ HoldersHold
           /\ GrantedHold
           /\ SerialsFit

=============================================================================
