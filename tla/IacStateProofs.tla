--------------------------- MODULE IacStateProofs ---------------------------
(***************************************************************************)
(* Proofs about IacState for every set of Terraform runs, every choice of  *)
(* disturbances and any number of versions.                                *)
(***************************************************************************)
EXTENDS IacState, TLAPS

-----------------------------------------------------------------------------
(* Requests.                                                               *)

\* A request belongs to a run or to an operator.
LEMMA RequestFacts ==
    ASSUME NEW q \in Requests
    PROVE  /\ \/ q[1] \in Runs /\ q[1] \notin Operators /\ q[2] \in {1, 2}
              \/ q[1] \in Operators /\ q[1] \notin Runs /\ q[2] = 1
           /\ q = <<q[1], q[2]>>
  BY RunsAssumption DEF Requests

\* A request is known by its caller and its number.
LEMMA SameRequest ==
    ASSUME NEW p \in Requests, NEW q \in Requests, p[1] = q[1], p[2] = q[2]
    PROVE  p = q
  BY RequestFacts

\* The requests of a run.
LEMMA RunRequest ==
    ASSUME NEW c \in Runs, NEW n \in {1, 2}
    PROVE  <<c, n>> \in Requests
  BY DEF Requests

\* The requests of the operators.
LEMMA OperatorRequest ==
    ASSUME NEW d \in Operators
    PROVE  <<d, 1>> \in Requests
  BY DEF Requests

\* The newest serial is a number, and the length of a list of successors.
LEMMA SerialFacts ==
    ASSUME versions \in Seq([serial : Nat, object : Requests])
    PROVE  /\ Serial(versions) \in Nat
           /\ (\A i \in DOMAIN versions : versions[i].serial = i)
                => Serial(versions) = Len(versions)
  <1>1. CASE versions = <<>>
    BY <1>1 DEF Serial
  <1>2. CASE versions # <<>>
    <2>1. Len(versions) \in DOMAIN versions
      BY <1>2
    <2> DEFINE S == [serial : Nat, object : Requests]
    <2>2. versions \in Seq(S)
      OBVIOUS
    <2>3. versions[Len(versions)] \in S
      <3> HIDE DEF S
      <3> QED
        BY <2>1, <2>2
    <2> QED
      BY <1>2, <2>1, <2>3 DEF Serial
  <1> QED
    BY <1>1, <1>2

-----------------------------------------------------------------------------
(* The runs and the operators.                                             *)

\* A run that waits for nothing sends a request.
LEMMA SendsStep ==
    ASSUME LockInv, NEW c \in Runs, NEW q \in Requests, q[1] = c, run[c].via = 0,
           NEW phase \in {"locking", "writing", "unlocking"},
           NEW at, StepFits(phase, at), at \notin {"insert", "granted"},
           NEW serial \in Nat,
           Sends(c, q, phase, at, serial), UNCHANGED disturbed,
           phase # "locking" => run[c].phase \in Holding,
           phase = "writing" => run[c].phase = "read" /\ serial = run[c].serial + 1
    PROVE  LockInv'
  <1> USE DEF LockInv, Sends
  <1>0. q[2] \in {1, 2} /\ c \notin Operators
    BY RequestFacts
  <1>1. TypeOK'
    <2>1. at \in Steps /\ phase \in Phases
      BY DEF Steps, Phases, StepFits
    <2>2. [at |-> at, serial |-> serial] \in [at : Steps, serial : Nat]
      BY <2>1
    <2>3. [phase |-> phase, serial |-> serial, via |-> q[2]]
             \in [phase : Phases, serial : Nat, via : 0..2]
      BY <2>1, <1>0
    <2> QED
      BY <2>2, <2>3 DEF TypeOK
  <1>2. WaitsForAnswer'
    BY <1>0 DEF WaitsForAnswer, TypeOK
  <1>3. RequestsFit'
    <2> SUFFICES ASSUME Calm', NEW p \in Requests, p[1] \in Runs, req'[p].at # "none"
                 PROVE  /\ run'[p[1]].via = p[2]
                        /\ req'[p].serial = run'[p[1]].serial
                        /\ StepFits(run'[p[1]].phase, req'[p].at)
      BY DEF RequestsFit
    <2>0. Calm
      BY DEF Calm
    <2>1. CASE p = q
      BY <2>1, <1>0 DEF TypeOK
    <2>2. CASE p # q
      <3>1. req'[p] = req[p]
        BY <2>2 DEF TypeOK
      <3>2. p[1] # c
        BY <2>0, <3>1, RequestFacts DEF RequestsFit
      <3> QED
        BY <2>0, <3>1, <3>2 DEF RequestsFit, TypeOK
    <2> QED
      BY <2>1, <2>2
  <1>4. OperatorsFit'
    BY <1>0 DEF OperatorsFit, TypeOK
  <1>5. BodiesFirst' /\ VersionsAreReadable'
    BY DEF BodiesFirst, VersionsAreReadable, TypeOK
  <1>6. HoldersHold' /\ GrantedHold'
    BY DEF HoldersHold, GrantedHold, Holding, Calm, TypeOK
  <1>7. SerialsFit'
    BY DEF SerialsFit, Calm, TypeOK
  <1> QED
    BY <1>1, <1>2, <1>3, <1>4, <1>5, <1>6, <1>7

\* Terraform asks for the lock.
LEMMA SendLockStep ==
    ASSUME LockInv, NEW c \in Runs, SendLock(c)
    PROVE  LockInv'
  <1> PICK n \in {1, 2} : /\ run[c].phase = "start" /\ Sent(c, n)
                          /\ Sends(c, <<c, n>>, "locking", "lock insert", 0)
    BY DEF SendLock
  <1>1. <<c, n>> \in Requests /\ <<c, n>>[1] = c /\ 0 \in Nat
    BY RunRequest
  <1> QED
    BY <1>1, SendsStep DEF Sent, StepFits

\* The holder of the lock writes the successor of what it has read.
LEMMA SendStateStep ==
    ASSUME LockInv, NEW c \in Runs, SendState(c)
    PROVE  LockInv'
  <1>0. run[c] \in [phase : Phases, serial : Nat, via : 0..2]
    BY DEF LockInv, TypeOK
  <1>1. run[c].serial \in Nat
    BY <1>0
  <1>2. run[c].serial + 1 \in Nat
    BY <1>1
  <1> PICK n \in {1, 2} : /\ run[c].phase = "read" /\ Sent(c, n)
                          /\ Sends(c, <<c, n>>, "writing", "write select",
                                   run[c].serial + 1)
    BY DEF SendState
  <1> QED
    BY <1>1, <1>2, SendsStep, RunRequest DEF Sent, StepFits, Holding

\* The holder of the lock gives it back.
LEMMA SendUnlockStep ==
    ASSUME LockInv, NEW c \in Runs, SendUnlock(c)
    PROVE  LockInv'
  <1> PICK n \in {1, 2} : /\ run[c].phase = "written" /\ Sent(c, n)
                          /\ Sends(c, <<c, n>>, "unlocking", "unlock select",
                                   run[c].serial)
    BY DEF SendUnlock
  <1>1. run[c].serial \in Nat
    BY DEF LockInv, TypeOK
  <1> QED
    BY <1>1, SendsStep, RunRequest DEF Sent, StepFits, Holding

\* The holder of the lock reads the newest version.
LEMMA ReadStateStep ==
    ASSUME LockInv, NEW c \in Runs, ReadState(c)
    PROVE  LockInv'
  <1> USE DEF LockInv, ReadState
  <1>1. TypeOK'
    BY SerialFacts DEF TypeOK, Phases
  <1>2. WaitsForAnswer'
    BY DEF WaitsForAnswer, TypeOK
  <1>3. RequestsFit'
    <2> SUFFICES ASSUME Calm', NEW p \in Requests, p[1] \in Runs, req'[p].at # "none"
                 PROVE  /\ run'[p[1]].via = p[2]
                        /\ req'[p].serial = run'[p[1]].serial
                        /\ StepFits(run'[p[1]].phase, req'[p].at)
      BY DEF RequestsFit
    <2>1. Calm
      BY DEF Calm
    <2>2. p[1] # c
      BY <2>1 DEF RequestsFit, StepFits
    <2> QED
      BY <2>1, <2>2 DEF RequestsFit, TypeOK
  <1>4. OperatorsFit' /\ BodiesFirst' /\ VersionsAreReadable'
    BY DEF OperatorsFit, BodiesFirst, VersionsAreReadable
  <1>5. HoldersHold' /\ GrantedHold'
    BY DEF HoldersHold, GrantedHold, Holding, Calm, TypeOK
  <1>6. SerialsFit'
    BY SerialFacts DEF SerialsFit, Calm, TypeOK
  <1> QED
    BY <1>1, <1>2, <1>3, <1>4, <1>5, <1>6

\* A request sent again ends what the invariant says of handlers.
LEMMA ResendStep ==
    ASSUME LockInv, NEW c \in Runs, Resend(c)
    PROVE  LockInv'
  <1> USE DEF LockInv
  <1>0. /\ run[c].via \in {1, 2}
        /\ run[c].phase \in {"locking", "writing", "unlocking"}
        /\ 3 - run[c].via \in {1, 2}
    BY DEF Resend, WaitsForAnswer, TypeOK
  <1> DEFINE q == <<c, 3 - run[c].via>>
             at == FirstStep[run[c].phase]
  <1>1. q \in Requests /\ c \notin Operators
    BY <1>0, RunRequest, RunsAssumption
  <1>2. at \in {"lock insert", "write select", "unlock select"}
    <2>1. CASE run[c].phase = "locking"
      BY <2>1 DEF FirstStep
    <2>2. CASE run[c].phase = "writing"
      BY <2>2 DEF FirstStep
    <2>3. CASE run[c].phase = "unlocking"
      BY <2>3 DEF FirstStep
    <2> QED
      BY <1>0, <2>1, <2>2, <2>3
  <1>3. /\ disturbed' = disturbed \cup {"resend"} /\ "resend" \in Disturbances
        /\ req' = [req EXCEPT ![q] = [at |-> at, serial |-> run[c].serial]]
        /\ run' = [run EXCEPT ![c] = [phase |-> run[c].phase,
                                      serial |-> run[c].serial, via |-> q[2]]]
        /\ UNCHANGED <<lock, versions, bucket>>
    BY DEF Resend, Sends, Disturb
  <1> HIDE DEF q, at
  <1>4. q[1] = c /\ q[2] \in {1, 2}
    BY <1>0 DEF q
  <1>5. TypeOK'
    <2>1. run[c] \in [phase : Phases, serial : Nat, via : 0..2]
      BY DEF TypeOK
    <2>2. [at |-> at, serial |-> run[c].serial] \in [at : Steps, serial : Nat]
      BY <2>1, <1>2 DEF Steps
    <2>3. [phase |-> run[c].phase, serial |-> run[c].serial, via |-> q[2]]
             \in [phase : Phases, serial : Nat, via : 0..2]
      BY <2>1, <1>4
    <2> QED
      BY <1>3, <2>2, <2>3 DEF TypeOK
  <1>6. WaitsForAnswer'
    BY <1>0, <1>3 DEF WaitsForAnswer, TypeOK
  <1>7. ~Calm'
    BY <1>3 DEF Calm
  <1>8. OperatorsFit'
    BY <1>1, <1>3, <1>4 DEF OperatorsFit, TypeOK
  <1>9. BodiesFirst' /\ VersionsAreReadable'
    BY <1>1, <1>2, <1>3 DEF BodiesFirst, VersionsAreReadable, TypeOK
  <1> QED
    BY <1>5, <1>6, <1>7, <1>8, <1>9 DEF RequestsFit, HoldersHold, GrantedHold, SerialsFit

\* An operator's request changes nothing the runs rely on yet.
LEMMA OperatesStep ==
    ASSUME LockInv, NEW d \in Operators, NEW at \in Steps, Operates(d, at),
           OperatorStepFits(d, at), at # "insert"
    PROVE  LockInv'
  <1> USE DEF LockInv
  <1> DEFINE q == <<d, 1>>
  <1>0. q \in Requests /\ q[1] = d /\ d \notin Runs
    BY OperatorRequest, RunsAssumption
  <1>9. /\ d \in Disturbances /\ disturbed' = disturbed \cup {d}
        /\ req' = [req EXCEPT ![q] = [at |-> at, serial |-> 0]]
        /\ UNCHANGED <<lock, versions, bucket, run>>
    BY DEF Operates, Disturb
  <1> HIDE DEF q
  <1>1. TypeOK'
    BY <1>0, <1>9 DEF TypeOK
  <1>2. WaitsForAnswer'
    BY <1>9 DEF WaitsForAnswer
  <1>3. Calm' => Calm
    BY <1>9 DEF Calm
  <1>4. RequestsFit'
    BY <1>0, <1>3, <1>9 DEF RequestsFit, TypeOK
  <1>5. OperatorsFit'
    BY <1>0, <1>9 DEF OperatorsFit, TypeOK
  <1>6. BodiesFirst' /\ VersionsAreReadable'
    BY <1>0, <1>9 DEF BodiesFirst, VersionsAreReadable, TypeOK
  <1>7. HoldersHold' /\ SerialsFit'
    BY <1>3, <1>9 DEF HoldersHold, SerialsFit
  <1>8. GrantedHold'
    BY <1>0, <1>3, <1>9 DEF GrantedHold, OperatorStepFits, TypeOK
  <1> QED
    BY <1>1, <1>2, <1>4, <1>5, <1>6, <1>7, <1>8

-----------------------------------------------------------------------------
(* The handlers.                                                           *)

(***************************************************************************)
(* A handler that goes on to its next statement, with the versions and the *)
(* runs as they were, and the lock too unless nobody had it.               *)
(***************************************************************************)
LEMMA GoesOnStep ==
    ASSUME LockInv, NEW q \in Requests, NEW at \in Steps, NEW serial \in Nat,
           req[q].at # "none",
           req' = [req EXCEPT ![q] = [at |-> at, serial |-> serial]],
           UNCHANGED <<versions, run, disturbed>>,
           \/ UNCHANGED lock /\ (Calm /\ at = "granted" => lock = q[1])
           \/ lock = None /\ lock' = q[1] /\ q[1] \in Runs,
           bucket' \in {bucket, bucket \cup {q}}, at = "insert" => q \in bucket',
           q[1] \in Runs /\ Calm => StepFits(run[q[1]].phase, at) /\ serial = req[q].serial,
           q[1] \in Operators => OperatorStepFits(q[1], at)
    PROVE  LockInv'
  <1> USE DEF LockInv
  <1>0. None \notin Runs
    BY RunsAssumption
  <1>1. TypeOK'
    BY DEF TypeOK
  <1>2. WaitsForAnswer' /\ (Calm' <=> Calm)
    BY DEF WaitsForAnswer, Calm
  <1>3. RequestsFit'
    BY <1>2 DEF RequestsFit, TypeOK
  <1>4. OperatorsFit'
    BY DEF OperatorsFit, TypeOK
  <1>5. BodiesFirst' /\ VersionsAreReadable'
    BY DEF BodiesFirst, VersionsAreReadable, TypeOK
  <1>6. HoldersHold' /\ SerialsFit'
    BY <1>0, <1>2 DEF HoldersHold, SerialsFit
  <1>7. GrantedHold'
    <2> SUFFICES ASSUME Calm, NEW p \in Requests, req'[p].at = "granted"
                 PROVE  lock' = p[1]
      BY <1>2 DEF GrantedHold
    <2>1. CASE p = q
      BY <2>1 DEF TypeOK
    <2>2. CASE p # q
      <3>1. req[p].at = "granted" /\ lock = p[1]
        BY <2>2 DEF GrantedHold, TypeOK
      <3>2. p[1] \in Runs
        BY <3>1, RequestFacts DEF OperatorsFit, OperatorStepFits
      <3> QED
        BY <1>0, <3>1, <3>2
    <2> QED
      BY <2>1, <2>2
  <1> QED
    BY <1>1, <1>2, <1>3, <1>4, <1>5, <1>6, <1>7

(***************************************************************************)
(* A handler that answers.  Its run holds the lock after the answer only   *)
(* if the answer says so; other runs keep what they have.                  *)
(***************************************************************************)
LEMMA AnswersStep ==
    ASSUME LockInv, NEW q \in Requests, req[q].at # "none",
           NEW phase \in Phases \ {"locking", "read", "writing", "unlocking"},
           Answers(q, phase),
           lock' \in Runs \cup {None}, UNCHANGED bucket,
           \/ UNCHANGED versions
           \/ /\ versions' \in Seq([serial : Nat, object : Requests])
              /\ VersionsAreReadable' /\ SerialsFit',
           disturbed \subseteq disturbed', disturbed' \subseteq Disturbances,
           Calm => \A c \in Runs \ {q[1]} : run[c].phase \in Holding => lock' = c,
           Calm => \A p \in Requests \ {q} : req[p].at = "granted" => lock' = p[1],
           q[1] \in Runs /\ Calm /\ phase \in Holding => lock' = q[1]
    PROVE  LockInv'
  <1> USE DEF LockInv
  <1>0. Calm' => Calm
    BY DEF Calm
  <1>1. /\ req' = [req EXCEPT ![q] = NoRequest]
        /\ req'[q].at = "none"
        /\ \A p \in Requests : p # q => req'[p] = req[p]
    BY DEF Answers, NoRequest, TypeOK
  <1>2. \A c \in Runs : \/ run'[c] = run[c] /\ (c # q[1] \/ run[c].via # q[2])
                        \/ /\ c = q[1] /\ run[c].via = q[2]
                           /\ run'[c].phase = phase /\ run'[c].via = 0
    BY DEF Answers, TypeOK
  <1>3. TypeOK'
    <2>1. NoRequest \in [at : Steps, serial : Nat]
      BY DEF NoRequest, Steps
    <2>2. \A c \in Runs : [phase |-> phase, serial |-> run[c].serial, via |-> 0]
                             \in [phase : Phases, serial : Nat, via : 0..2]
      <3> TAKE c \in Runs
      <3>1. run[c] \in [phase : Phases, serial : Nat, via : 0..2]
        BY DEF TypeOK
      <3> QED
        BY <3>1
    <2>3. req' \in [Requests -> [at : Steps, serial : Nat]]
      BY <1>1, <2>1 DEF TypeOK
    <2>4. run' \in [Runs -> [phase : Phases, serial : Nat, via : 0..2]]
      BY <2>2 DEF TypeOK, Answers
    <2> QED
      BY <2>3, <2>4 DEF TypeOK
  <1>4. WaitsForAnswer'
    BY <1>2 DEF WaitsForAnswer
  <1>5. RequestsFit'
    <2> SUFFICES ASSUME Calm', NEW p \in Requests, p[1] \in Runs, req'[p].at # "none"
                 PROVE  /\ run'[p[1]].via = p[2]
                        /\ req'[p].serial = run'[p[1]].serial
                        /\ StepFits(run'[p[1]].phase, req'[p].at)
      BY DEF RequestsFit
    <2>1. p # q /\ req'[p] = req[p]
      BY <1>1
    <2>2. ~(p[1] = q[1] /\ run[p[1]].via = q[2])
      BY <1>0, <2>1, SameRequest DEF RequestsFit
    <2> QED
      BY <1>0, <1>2, <2>1, <2>2 DEF RequestsFit
  <1>6. OperatorsFit' /\ BodiesFirst' /\ VersionsAreReadable'
    BY <1>1 DEF OperatorsFit, BodiesFirst, VersionsAreReadable
  <1>7. q[1] \in Runs /\ Calm => run[q[1]].via = q[2]
    BY DEF RequestsFit
  <1>8. HoldersHold'
    BY <1>0, <1>2, <1>7 DEF HoldersHold
  <1>9. SerialsFit'
    BY <1>0, <1>2 DEF SerialsFit
  <1>10. GrantedHold'
    BY <1>0, <1>1 DEF GrantedHold
  <1> QED
    BY <1>3, <1>4, <1>5, <1>6, <1>8, <1>9, <1>10

(***************************************************************************)
(* Whose handler is at which step, and what it says of the caller's phase. *)
(***************************************************************************)
LEMMA HandlerFacts ==
    ASSUME LockInv, NEW q \in Requests, req[q].at # "none"
    PROVE  /\ req[q].serial \in Nat /\ req[q].at \in Steps
           /\ q[1] \notin Runs => OperatorStepFits(q[1], req[q].at) /\ q[1] \in disturbed
           /\ q[1] \in Runs /\ Calm =>
                 /\ StepFits(run[q[1]].phase, req[q].at)
                 /\ req[q].serial = run[q[1]].serial
                 /\ run[q[1]].phase \in Holding => lock = q[1]
           /\ Calm => \A c \in Runs : run[c].phase \in Holding => lock = c
           /\ Calm => \A p \in Requests : req[p].at = "granted" => lock = p[1]
           /\ lock \in Runs \cup {None} /\ disturbed \subseteq Disturbances
  <1> USE DEF LockInv
  <1>1. req[q] \in [at : Steps, serial : Nat]
    BY DEF TypeOK
  <1>2. lock \in Runs \cup {None} /\ disturbed \subseteq Disturbances
    BY DEF TypeOK
  <1> QED
    BY <1>1, <1>2, RequestFacts DEF OperatorsFit, RequestsFit, HoldersHold, GrantedHold

\* The insert gives the lock to nobody while a run holds it.
LEMMA LockInsertStep ==
    ASSUME LockInv, NEW q \in Requests, LockInsert(q)
    PROVE  LockInv'
  <1>0. q[1] \in Runs /\ (Calm => run[q[1]].phase = "locking")
    BY HandlerFacts DEF LockInsert, OperatorStepFits, StepFits
  <1>1. CASE lock = None
    BY <1>0, <1>1, HandlerFacts, GoesOnStep, RunsAssumption
       DEF LockInsert, GoesOn, StepFits, Steps
  <1>2. CASE lock # None
    BY <1>0, <1>2, HandlerFacts, GoesOnStep, RunsAssumption
       DEF LockInsert, GoesOn, StepFits, Steps
  <1> QED
    BY <1>1, <1>2

\* The run whose row was inserted is told.
LEMMA LockGrantedStep ==
    ASSUME LockInv, NEW q \in Requests, LockGranted(q)
    PROVE  LockInv'
  BY HandlerFacts, AnswersStep DEF LockGranted, Phases

\* A refused run is told whether the lock is its own.
LEMMA LockSelectStep ==
    ASSUME LockInv, NEW q \in Requests, LockSelect(q)
    PROVE  LockInv'
  <1>1. CASE lock = q[1]
    BY <1>1, HandlerFacts, AnswersStep DEF LockSelect, Phases
  <1>2. CASE lock # q[1]
    BY <1>2, HandlerFacts, AnswersStep DEF LockSelect, Phases, Holding
  <1> QED
    BY <1>1, <1>2

\* A write is refused or goes on to its upload.
LEMMA WriteSelectStep ==
    ASSUME LockInv, NEW q \in Requests, WriteSelect(q)
    PROVE  LockInv'
  <1>0. /\ q[1] \notin Runs => q[1] = "rollback"
        /\ q[1] \in Runs /\ Calm => run[q[1]].phase = "writing" /\ lock = q[1]
    BY HandlerFacts DEF WriteSelect, OperatorStepFits, StepFits, Holding
  <1>1. CASE lock \notin {None, LockId(q)}
    BY <1>0, <1>1, HandlerFacts, AnswersStep DEF WriteSelect, Phases
  <1>2. CASE lock \in {None, LockId(q)}
    BY <1>0, <1>2, HandlerFacts, GoesOnStep, RequestFacts
       DEF WriteSelect, GoesOn, StepFits, OperatorStepFits, Steps
  <1> QED
    BY <1>1, <1>2

\* The upload.
LEMMA PutObjectStep ==
    ASSUME LockInv, NEW q \in Requests, PutObject(q)
    PROVE  LockInv'
  <1>0. /\ q[1] \notin Runs => q[1] = "rollback"
        /\ q[1] \in Runs /\ Calm => run[q[1]].phase = "writing"
    BY HandlerFacts DEF PutObject, OperatorStepFits, StepFits
  <1> QED
    BY <1>0, HandlerFacts, GoesOnStep, RequestFacts
       DEF PutObject, GoesOn, StepFits, OperatorStepFits, Steps

\* A refused upload is answered, and leaves its run the lock.
LEMMA PutRefusedStep ==
    ASSUME LockInv, NEW q \in Requests, PutRefused(q)
    PROVE  LockInv'
  <1>0. q[1] \in Runs /\ Calm => lock = q[1]
    BY HandlerFacts DEF PutRefused, StepFits, Holding
  <1>1. disturbed \subseteq disturbed' /\ disturbed' \subseteq Disturbances
    BY HandlerFacts DEF PutRefused, Disturb
  <1> QED
    BY <1>0, <1>1, HandlerFacts, AnswersStep DEF PutRefused, Phases

\* The row of a version, written by the holder of the lock or by a rollback.
LEMMA InsertVersionStep ==
    ASSUME LockInv, NEW q \in Requests, InsertVersion(q)
    PROVE  LockInv'
  <1> DEFINE S == [serial : Nat, object : Requests]
             v == [serial |-> req[q].serial, object |-> q]
  <1>0. q[1] \in Runs /\ Calm => lock = q[1] /\ run[q[1]].phase = "writing"
    BY HandlerFacts DEF InsertVersion, StepFits, Holding
  <1>1. versions \in Seq(S) /\ v \in S /\ versions' = Append(versions, v)
    BY HandlerFacts DEF LockInv, TypeOK, InsertVersion
  <1>2. /\ Len(versions') = Len(versions) + 1 /\ Len(versions) \in Nat
        /\ DOMAIN versions = 1 .. Len(versions)
        /\ DOMAIN versions' = 1 .. Len(versions) + 1
        /\ \A i \in DOMAIN versions : versions'[i] = versions[i]
        /\ versions'[Len(versions) + 1] = v
        /\ versions' \in Seq(S)
    <2> HIDE DEF S, v
    <2> QED
      BY <1>1
  <1>3. VersionsAreReadable'
    <2> SUFFICES ASSUME NEW i \in DOMAIN versions'
                 PROVE  versions'[i].object \in bucket
      BY DEF VersionsAreReadable, InsertVersion
    <2>1. CASE i \in DOMAIN versions
      BY <1>2, <2>1 DEF LockInv, VersionsAreReadable
    <2>2. CASE i = Len(versions) + 1
      BY <1>2, <2>2 DEF LockInv, BodiesFirst, InsertVersion
    <2> QED
      BY <1>2, <2>1, <2>2
  <1>4. SerialsFit'
    <2> SUFFICES ASSUME Calm', "rollback" \notin disturbed'
                 PROVE  /\ \A i \in DOMAIN versions' : versions'[i].serial = i
                        /\ \A c \in Runs :
                              /\ run'[c].phase # "read" /\ run'[c].phase # "writing"
      BY DEF SerialsFit
    <2>1. Calm /\ "rollback" \notin disturbed
      BY DEF Calm, InsertVersion
    <2>2. q[1] \in Runs
      BY <2>1, HandlerFacts DEF InsertVersion, OperatorStepFits
    <2>3. req[q].serial = Len(versions) + 1
      BY <1>0, <2>1, <2>2, HandlerFacts DEF LockInv, SerialsFit, InsertVersion
    <2>4. \A i \in DOMAIN versions' : versions'[i].serial = i
      <3> TAKE i \in DOMAIN versions'
      <3>1. CASE i \in DOMAIN versions
        BY <1>2, <2>1, <3>1 DEF LockInv, SerialsFit
      <3>2. CASE i = Len(versions) + 1
        BY <1>2, <2>3, <3>2
      <3> QED
        BY <1>2, <3>1, <3>2
    <2>5. \A c \in Runs : c # q[1] => run[c].phase \notin Holding /\ run'[c] = run[c]
      BY <1>0, <2>1, <2>2, HandlerFacts DEF InsertVersion, Answers, LockInv, TypeOK
    <2>6. run[q[1]].via = q[2]
      BY <2>1, <2>2 DEF LockInv, RequestsFit, InsertVersion
    <2>7. run'[q[1]].phase = "written"
      BY <2>2, <2>6 DEF InsertVersion, Answers, LockInv, TypeOK
    <2> QED
      BY <2>4, <2>5, <2>7 DEF Holding
  <1> HIDE DEF v
  <1> QED
    BY <1>0, <1>2, <1>3, <1>4, HandlerFacts, AnswersStep DEF InsertVersion, Phases

\* An unlock that finds its lock goes on to delete it.
LEMMA UnlockSelectStep ==
    ASSUME LockInv, NEW q \in Requests, UnlockSelect(q)
    PROVE  LockInv'
  <1>0. /\ q[1] \notin Runs => q[1] = "force"
        /\ q[1] \in Runs /\ Calm => run[q[1]].phase = "unlocking"
    BY HandlerFacts DEF UnlockSelect, OperatorStepFits, StepFits
  <1>1. CASE lock = None \/ (q[1] # "force" /\ lock # q[1])
    BY <1>0, <1>1, HandlerFacts, AnswersStep DEF UnlockSelect, Phases, Holding
  <1>2. CASE ~(lock = None \/ (q[1] # "force" /\ lock # q[1]))
    BY <1>0, <1>2, HandlerFacts, GoesOnStep, RequestFacts
       DEF UnlockSelect, GoesOn, StepFits, OperatorStepFits, Steps
  <1> QED
    BY <1>1, <1>2

\* While all is calm the row that is deleted is the run's own.
LEMMA UnlockDeleteStep ==
    ASSUME LockInv, NEW q \in Requests, UnlockDelete(q)
    PROVE  LockInv'
  <1>0. /\ Calm => q[1] \in Runs
        /\ q[1] \in Runs /\ Calm => lock = q[1]
    BY HandlerFacts DEF UnlockDelete, OperatorStepFits, StepFits, Calm, Holding
  <1>1. Calm => \A p \in Requests : req[p].at # "granted"
    <2> SUFFICES ASSUME Calm, NEW p \in Requests, req[p].at = "granted" PROVE FALSE
      OBVIOUS
    <2>1. p[1] = q[1] /\ run[p[1]].phase = "locking"
      BY <1>0, HandlerFacts DEF StepFits
    <2>2. run[q[1]].phase = "unlocking"
      BY <1>0, HandlerFacts DEF StepFits, UnlockDelete
    <2> QED
      BY <2>1, <2>2
  <1> QED
    BY <1>0, <1>1, HandlerFacts, AnswersStep DEF UnlockDelete, Phases, Holding

\* A rollback is refused, or goes on to read the version.
LEMMA RollbackSelectStep ==
    ASSUME LockInv, NEW q \in Requests, RollbackSelect(q)
    PROVE  LockInv'
  <1>0. /\ q[1] \notin Runs => q[1] = "rollback"
        /\ q[1] \in Runs => ~Calm
    BY HandlerFacts DEF RollbackSelect, OperatorStepFits, StepFits
  <1>1. CASE lock # None
    BY <1>0, <1>1, HandlerFacts, AnswersStep DEF RollbackSelect, Phases
  <1>2. CASE lock = None
    BY <1>0, <1>2, HandlerFacts, GoesOnStep, RequestFacts
       DEF RollbackSelect, GoesOn, OperatorStepFits, Steps
  <1> QED
    BY <1>1, <1>2

\* A rollback takes the serial after the newest.
LEMMA RollbackReadStep ==
    ASSUME LockInv, NEW q \in Requests, RollbackRead(q)
    PROVE  LockInv'
  <1>0. /\ q[1] \notin Runs => q[1] = "rollback"
        /\ q[1] \in Runs => ~Calm
    BY HandlerFacts DEF RollbackRead, OperatorStepFits, StepFits
  <1>1. Serial(versions) \in Nat
    BY SerialFacts DEF LockInv, TypeOK
  <1>2. Serial(versions) + 1 \in Nat
    BY <1>1
  <1> QED
    BY <1>0, <1>2, HandlerFacts, GoesOnStep, RequestFacts
       DEF RollbackRead, OperatorStepFits, Steps

\* A restart ends every handler; a run that held the lock still holds it.
LEMMA CrashStep ==
    ASSUME LockInv, Crash
    PROVE  LockInv'
  <1> USE DEF LockInv, Crash, Disturb
  <1>1. \A q \in Requests : req'[q].at = "none"
    BY DEF NoRequest
  <1>2. \A c \in Runs :
           \/ run'[c] = run[c] /\ run[c].via = 0
           \/ /\ run'[c].via = 0 /\ run'[c].serial = run[c].serial
              /\ \/ run[c].phase = "locking" /\ run'[c].phase = "start"
                 \/ run[c].phase = "writing" /\ run'[c].phase = "written"
                 \/ run[c].phase = "unlocking" /\ run'[c].phase = "ended"
    <2> TAKE c \in Runs
    <2>1. run[c].via # 0 => run[c].phase \in {"locking", "writing", "unlocking"}
      BY DEF WaitsForAnswer
    <2>2. /\ AfterError["locking"] = "start"
          /\ AfterError["writing"] = "written"
          /\ AfterError["unlocking"] = "ended"
      BY DEF AfterError
    <2> QED
      BY <2>1, <2>2
  <1>3. TypeOK'
    <2>1. req' \in [Requests -> [at : Steps, serial : Nat]]
      BY DEF NoRequest, Steps
    <2>2. \A c \in Runs : run'[c] \in [phase : Phases, serial : Nat, via : 0..2]
      <3> TAKE c \in Runs
      <3>1. run[c] \in [phase : Phases, serial : Nat, via : 0..2]
        BY DEF TypeOK
      <3>2. run[c].via # 0 => AfterError[run[c].phase] \in Phases
        BY DEF WaitsForAnswer, AfterError, Phases
      <3> QED
        BY <3>1, <3>2
    <2>3. run' \in [Runs -> [phase : Phases, serial : Nat, via : 0..2]]
      BY <2>2
    <2> QED
      BY <2>1, <2>3 DEF TypeOK
  <1>4. WaitsForAnswer' /\ RequestsFit' /\ OperatorsFit' /\ BodiesFirst'
    BY <1>1, <1>2 DEF WaitsForAnswer, RequestsFit, OperatorsFit, BodiesFirst
  <1>5. Calm' => Calm
    BY DEF Calm
  <1>6. VersionsAreReadable' /\ HoldersHold' /\ GrantedHold'
    BY <1>1, <1>2, <1>5 DEF VersionsAreReadable, HoldersHold, GrantedHold, Holding
  <1>7. SerialsFit'
    BY <1>2, <1>5 DEF SerialsFit
  <1> QED
    BY <1>3, <1>4, <1>6, <1>7

-----------------------------------------------------------------------------
(* The theorems.                                                           *)

(***************************************************************************)
(* LockInv holds in every reachable state: each run has the one handler it *)
(* waits for, and the run whose phase says so holds the lock.              *)
(***************************************************************************)
THEOREM LockInvariant == Spec => []LockInv
  <1>1. Init => LockInv
    <2> SUFFICES ASSUME Init PROVE LockInv
      OBVIOUS
    <2>1. TypeOK
      <3>1. /\ [phase |-> "start", serial |-> 0, via |-> 0]
                  \in [phase : Phases, serial : Nat, via : 0..2]
            /\ NoRequest \in [at : Steps, serial : Nat]
        BY DEF Phases, NoRequest, Steps
      <3> QED
        BY <3>1 DEF Init, TypeOK
    <2> QED
      BY <2>1 DEF Init, LockInv, WaitsForAnswer, RequestsFit, OperatorsFit, BodiesFirst,
                  VersionsAreReadable, HoldersHold, GrantedHold, Holding, SerialsFit,
                  NoRequest
  <1>2. LockInv /\ [Next]_vars => LockInv'
    <2> SUFFICES ASSUME LockInv, [Next]_vars PROVE LockInv'
      OBVIOUS
    <2>1. ASSUME NEW c \in Runs, SendLock(c) \/ ReadState(c) \/ SendState(c)
                                   \/ SendUnlock(c) \/ Resend(c)
          PROVE  LockInv'
      BY <2>1, SendLockStep, ReadStateStep, SendStateStep, SendUnlockStep, ResendStep
    <2>2. ASSUME NEW q \in Requests, Handle(q)
          PROVE  LockInv'
      BY <2>2, LockInsertStep, LockGrantedStep, LockSelectStep, WriteSelectStep,
         PutObjectStep, PutRefusedStep, InsertVersionStep, UnlockSelectStep, UnlockDeleteStep,
         RollbackSelectStep, RollbackReadStep DEF Handle
    <2>3. CASE ForceUnlock
      BY <2>3, OperatesStep DEF ForceUnlock, Operators, OperatorStepFits, Steps
    <2>4. CASE Rollback
      BY <2>4, OperatesStep DEF Rollback, Operators, OperatorStepFits, Steps
    <2>5. CASE Crash
      BY <2>5, CrashStep
    <2>6. CASE UNCHANGED vars
      BY <2>6 DEF vars, LockInv, TypeOK, WaitsForAnswer, RequestsFit, OperatorsFit,
                  BodiesFirst, VersionsAreReadable, HoldersHold, GrantedHold,
                  SerialsFit, Calm
    <2> QED
      BY <2>1, <2>2, <2>3, <2>4, <2>5, <2>6 DEF Next
  <1> QED
    BY <1>1, <1>2, PTL DEF Spec

\* The rows, runs and handlers keep their types.
THEOREM StateTypes == Spec => []TypeOK
  <1>1. LockInv => TypeOK
    BY DEF LockInv
  <1> QED
    BY <1>1, LockInvariant, PTL

\* No version row is written before its body, so every version can be read back.
THEOREM VersionsStayReadable == Spec => []VersionsAreReadable
  <1>1. LockInv => VersionsAreReadable
    BY DEF LockInv
  <1> QED
    BY <1>1, LockInvariant, PTL

(***************************************************************************)
(* A run that was granted the lock holds it until its unlock, for any      *)
(* number of runs, unless the lock is forced open or a request is sent     *)
(* twice.                                                                  *)
(***************************************************************************)
THEOREM HoldersKeepTheLock == Spec => []HolderKeepsLock
  <1>1. LockInv => HolderKeepsLock
    BY DEF LockInv, HoldersHold, HolderKeepsLock, Calm, Holding
  <1> QED
    BY <1>1, LockInvariant, PTL

(***************************************************************************)
(* Every version continues the one before it: no apply overwrites another, *)
(* for any number of runs, restarts and refused uploads.                   *)
(***************************************************************************)
THEOREM NoApplyIsLost == Spec => []SerialsFollow
  <1>1. LockInv => SerialsFollow
    BY DEF LockInv, SerialsFit, SerialsFollow, Calm
  <1> QED
    BY <1>1, LockInvariant, PTL

=============================================================================
