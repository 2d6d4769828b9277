---------------------------- MODULE RolloutProofs ----------------------------
(***************************************************************************)
(* Proofs about Rollout for every set of executions and of old containers, *)
(* all settings, and any number of failed calls and overlaps.              *)
(***************************************************************************)
EXTENDS Rollout, TLAPS

\* What a step makes of the execution r; the others stay as they are.
Turns(r, at, prev, recreate, plan) ==
    /\ run' \in [Runs -> RunRecords]
    /\ \A s \in Runs \ {r} : run'[s] = run[s]
    /\ run'[r].at = at /\ run'[r].prev = prev
    /\ run'[r].recreate = recreate /\ run'[r].plan = plan

\* What a step leaves of the fields the plan does not use.
Keeps(r) == run'[r].cancelled = run[r].cancelled /\ run'[r].result = run[r].result

-----------------------------------------------------------------------------
(* The records of the executions.                                          *)

\* A record in the place of that of r.
LEMMA Replaced ==
    ASSUME TypeOK, NEW r \in Runs, NEW y \in RunRecords, run' = [run EXCEPT ![r] = y]
    PROVE  /\ run' \in [Runs -> RunRecords] /\ run'[r] = y
           /\ \A s \in Runs \ {r} : run'[s] = run[s]
  BY DEF TypeOK

\* An execution goes on with the same plan.
LEMMA GoesFacts ==
    ASSUME TypeOK, NEW r \in Runs, NEW point \in Points, Goes(r, point)
    PROVE  /\ Turns(r, point, run[r].prev, run[r].recreate, run[r].plan)
           /\ Keeps(r)
  <1> DEFINE y == [run[r] EXCEPT !.at = point]
  <1>1. run[r] \in RunRecords
    BY DEF TypeOK
  <1>2. /\ y \in RunRecords /\ y.at = point /\ y.prev = run[r].prev
        /\ y.recreate = run[r].recreate /\ y.plan = run[r].plan
        /\ y.cancelled = run[r].cancelled /\ y.result = run[r].result
    BY <1>1, Zenon DEF RunRecords
  <1>3. run' = [run EXCEPT ![r] = y]
    BY Zenon DEF Goes
  <1> HIDE DEF y
  <1> QED
    BY <1>2, <1>3, Replaced DEF Turns, Keeps

\* An execution ends with nothing left to remove.
LEMMA EndsFacts ==
    ASSUME TypeOK, NEW r \in Runs, NEW result \in {"ok", "error", "rollout-failed"},
           Ends(r, result)
    PROVE  /\ Turns(r, "ended", {}, run[r].recreate, run[r].plan)
           /\ run'[r].cancelled = run[r].cancelled /\ run'[r].result = result
  <1> DEFINE y == [run[r] EXCEPT !.at = "ended", !.prev = {}, !.result = result]
  <1>1. run[r] \in RunRecords /\ {} \in SUBSET Containers /\ "ended" \in Points
    BY DEF TypeOK, Points
  <1>2. /\ y \in RunRecords /\ y.at = "ended" /\ y.prev = {}
        /\ y.recreate = run[r].recreate /\ y.plan = run[r].plan
        /\ y.cancelled = run[r].cancelled /\ y.result = result
    BY <1>1, Zenon DEF RunRecords
  <1>3. run' = [run EXCEPT ![r] = y]
    BY Zenon DEF Ends
  <1> HIDE DEF y
  <1> QED
    BY <1>2, <1>3, Replaced DEF Turns

\* The list and the plan of an execution.
LEMMA ListsFacts ==
    ASSUME TypeOK, NEW r \in Runs, NEW previous \in SUBSET Containers,
           NEW plan \in {"blueGreen", "stopFirst"}, Lists(r, previous, plan)
    PROVE  /\ Turns(r, IF plan = "blueGreen" THEN "create" ELSE "clear", previous,
                    run[r].recreate, plan)
           /\ Keeps(r)
  <1> DEFINE at == IF plan = "blueGreen" THEN "create" ELSE "clear"
             y == [run[r] EXCEPT !.at = at, !.prev = previous, !.plan = plan]
  <1>1. run[r] \in RunRecords /\ at \in Points
    BY DEF TypeOK, Points
  <1>2. run' = [run EXCEPT ![r] = y]
    BY Zenon DEF Lists
  <1> HIDE DEF at
  <1>3. /\ y \in RunRecords /\ y.at = at /\ y.prev = previous
        /\ y.recreate = run[r].recreate /\ y.plan = plan
        /\ y.cancelled = run[r].cancelled /\ y.result = run[r].result
    BY <1>1, Zenon DEF RunRecords
  <1> HIDE DEF y
  <1>4. Turns(r, at, previous, run[r].recreate, plan) /\ Keeps(r)
    BY <1>2, <1>3, Replaced DEF Turns, Keeps
  <1> QED
    BY <1>4 DEF at

\* The retry starts over and lists again.
LEMMA RetriesFacts ==
    ASSUME TypeOK, NEW r \in Runs, Retries(r)
    PROVE  Turns(r, "list", {}, TRUE, run[r].plan) /\ Keeps(r)
  <1> DEFINE y == [run[r] EXCEPT !.at = "list", !.prev = {}, !.recreate = TRUE]
  <1>1. run[r] \in RunRecords /\ {} \in SUBSET Containers /\ "list" \in Points
    BY DEF TypeOK, Points
  <1>2. /\ y \in RunRecords /\ y.at = "list" /\ y.prev = {}
        /\ y.recreate = TRUE /\ y.plan = run[r].plan
        /\ y.cancelled = run[r].cancelled /\ y.result = run[r].result
    BY <1>1, Zenon DEF RunRecords
  <1>3. run' = [run EXCEPT ![r] = y]
    BY Zenon DEF Retries
  <1> HIDE DEF y
  <1> QED
    BY <1>2, <1>3, Replaced DEF Turns, Keeps

\* A cancel changes nothing else.
LEMMA CancelFacts ==
    ASSUME TypeOK, NEW r \in Runs, Cancel(r)
    PROVE  /\ Turns(r, run[r].at, run[r].prev, run[r].recreate, run[r].plan)
           /\ run'[r].cancelled = TRUE /\ run'[r].result = run[r].result
  <1> DEFINE y == [run[r] EXCEPT !.cancelled = TRUE]
  <1>1. run[r] \in RunRecords
    BY DEF TypeOK
  <1>2. /\ y \in RunRecords /\ y.at = run[r].at /\ y.prev = run[r].prev
        /\ y.recreate = run[r].recreate /\ y.plan = run[r].plan
        /\ y.cancelled = TRUE /\ y.result = run[r].result
    BY <1>1, Zenon DEF RunRecords
  <1>3. run' = [run EXCEPT ![r] = y]
    BY Zenon DEF Cancel
  <1> HIDE DEF y
  <1> QED
    BY <1>2, <1>3, Replaced DEF Turns

\* One container less to remove.
LEMMA RemovesFacts ==
    ASSUME TypeOK, NEW r \in Runs, NEW c \in Containers, RemovePrevious(r, c)
    PROVE  /\ Turns(r, run[r].at, run[r].prev \ {c}, run[r].recreate, run[r].plan)
           /\ Keeps(r)
  <1> DEFINE q == run[r].prev \ {c}
             y == [run[r] EXCEPT !.prev = q]
  <1>1. run[r] \in RunRecords
    BY DEF TypeOK
  <1>2. q \in SUBSET Containers
    BY <1>1 DEF RunRecords
  <1>3. run' = [run EXCEPT ![r] = y]
    BY Zenon DEF RemovePrevious
  <1> HIDE DEF q
  <1>4. /\ y \in RunRecords /\ y.at = run[r].at /\ y.prev = q
        /\ y.recreate = run[r].recreate /\ y.plan = run[r].plan
        /\ y.cancelled = run[r].cancelled /\ y.result = run[r].result
    BY <1>1, <1>2, Zenon DEF RunRecords
  <1> HIDE DEF y
  <1>5. Turns(r, run[r].at, q, run[r].recreate, run[r].plan) /\ Keeps(r)
    BY <1>3, <1>4, Replaced DEF Turns, Keeps
  <1> QED
    BY <1>5 DEF q

\* New containers are containers, and no two executions share one.
LEMMA NewFacts ==
    ASSUME NEW r \in Runs, NEW s \in Runs
    PROVE  /\ New(r) \in Containers /\ First(r) \in Containers /\ First(r) \notin Old
           /\ ~run[r].recreate => New(r) = First(r)
           /\ r # s => New(r) # New(s) /\ First(r) # First(s)
  BY OldAssumption DEF New, First, Containers

LEMMA PlanFacts ==
    ASSUME TypeOK, NEW r \in Runs
    PROVE  run[r].plan \in {"none", "blueGreen", "stopFirst"}
  BY DEF TypeOK, RunRecords

\* The counters stay within their bounds.
LEMMA CountersStep ==
    ASSUME TypeOK, NEW r \in Runs, Works(r) \/ Fails(r)
    PROVE  errors' \in 0..MaxErrors /\ overlaps' \in 0..MaxOverlaps
  BY BoundsAssumption DEF TypeOK, Works, Fails

-----------------------------------------------------------------------------
(* What every step keeps.                                                  *)

\* The containers a step leaves in place keep their order and their survivor.
LEMMA SurvivorStays ==
    ASSUME ListsOrdered, NEW c \in Containers, Survives(c), wasUp \subseteq wasUp',
           \A x \in Containers : Exists(x)' => Exists(x), Exists(c)',
           \A r \in Waiting' : r \in Waiting /\ run'[r].prev = run[r].prev,
           \A s \in Handing' : s \in Handing /\ run'[s].prev \subseteq run[s].prev
    PROVE  ListsOrdered' /\ Survives(c)'
  <1>1. ListsOrdered'
    <2> SUFFICES ASSUME NEW p \in Waiting', NEW r \in Waiting'
                 PROVE  /\ First(r) \in run'[p].prev => First(p) \notin run'[r].prev
                        /\ \A x \in Containers : Exists(x)' =>
                              /\ x \in run'[p].prev /\ x \notin run'[r].prev
                                    => First(p) \notin run'[r].prev
                              /\ First(r) \in run'[p].prev /\ x \in run'[r].prev
                                    => x \in run'[p].prev
      BY DEF ListsOrdered, First
    <2>1. p \in Waiting /\ r \in Waiting
      OBVIOUS
    <2>2. run'[p].prev = run[p].prev /\ run'[r].prev = run[r].prev
      OBVIOUS
    <2> HIDE DEF Waiting, First, Exists
    <2> QED
      BY <2>1, <2>2 DEF ListsOrdered
  <1>2. Survives(c)'
    BY DEF Survives, Serving, First
  <1> QED
    BY <1>1, <1>2

\* A step of r that lists nothing, creates nothing and hands nothing over.
LEMMA QuietStep ==
    ASSUME ServingInv, TypeOK', NEW r \in Runs, NEW at, NEW prev, NEW recreate,
           NEW plan, Turns(r, at, prev, recreate, plan),
           Shape(r)', StopsFirst(r) => StopsFirst(r)', prev \subseteq run[r].prev,
           \A x \in Containers : /\ cont[x] # "none" => cont'[x] # "none"
                                 /\ cont[x] = "none" => cont'[x] = "none"
                                 /\ Exists(x)' => Exists(x)
                                 /\ cont'[x] = "up" => x \in wasUp',
           wasUp \subseteq wasUp',
           (\A s \in Runs : ~StopsFirst(s)') =>
               \A c \in Containers : Survives(c) => Exists(c)',
           r \in Waiting' => r \in Waiting /\ prev = run[r].prev,
           at = "handover" => run[r].at = "handover",
           at \in {"start", "await"}
               => run[r].at \in {"start", "await"} /\ recreate = run[r].recreate,
           at \in BeforeCreate /\ ~recreate
               => run[r].at \in BeforeCreate /\ ~run[r].recreate
    PROVE  ServingInv'
  <1>1. \A s \in Runs : Shape(s)'
    BY DEF ServingInv, Shape, Turns
  <1>2. ContainersFit'
    <2>1. \A s \in Runs : run'[s].prev \subseteq run[s].prev
      BY DEF Turns
    <2>2. ASSUME NEW s \in Runs, run'[s].at \in BeforeCreate, ~run'[s].recreate
          PROVE  cont'[First(s)] = "none"
      <3>1. run[s].at \in BeforeCreate /\ ~run[s].recreate
        BY <2>2 DEF Turns
      <3> QED
        BY <3>1, NewFacts DEF ServingInv, ContainersFit
    <2>3. ASSUME NEW s \in Runs, NEW c \in run'[s].prev
          PROVE  cont'[c] # "none"
      <3>1. c \in run[s].prev /\ c \in Containers
        BY <2>1 DEF ServingInv, TypeOK, RunRecords
      <3> QED
        BY <3>1 DEF ServingInv, ContainersFit
    <2>4. ASSUME NEW s \in Runs, run'[s].at \in {"start", "await"}
          PROVE  cont'[New(s)'] # "none"
      <3>1. run[s].at \in {"start", "await"} /\ New(s)' = New(s)
        BY <2>4 DEF Turns, New
      <3> QED
        BY <3>1, NewFacts DEF ServingInv, ContainersFit
    <2> QED
      BY <2>2, <2>3, <2>4 DEF ContainersFit, First
  <1>3. (\E s \in Runs : StopsFirst(s)') \/ (ListsOrdered' /\ \E c \in Containers : Survives(c)')
    <2> SUFFICES ASSUME \A s \in Runs : ~StopsFirst(s)'
                 PROVE  ListsOrdered' /\ \E c \in Containers : Survives(c)'
      OBVIOUS
    <2>1. \A s \in Runs : ~StopsFirst(s)
      BY DEF Turns, StopsFirst
    <2>2. PICK c \in Containers : Survives(c)
      BY <2>1 DEF ServingInv
    <2>3. ListsOrdered /\ Exists(c)'
      BY <2>1, <2>2 DEF ServingInv
    <2>4. \A s \in Waiting' : s \in Waiting /\ run'[s].prev = run[s].prev
      BY DEF Turns, Waiting
    <2>5. \A s \in Handing' : s \in Handing /\ run'[s].prev \subseteq run[s].prev
      BY DEF Turns, Handing
    <2> QED
      BY <2>2, <2>3, <2>4, <2>5, SurvivorStays
  <1> QED
    BY <1>1, <1>2, <1>3 DEF ServingInv

\* The containers change on their own; the executions do not.
LEMMA ContainerStep ==
    ASSUME ServingInv, NEW c \in Containers,
           ComesUp(c) \/ \E state \in {"unhealthy", "exited"} : Breaks(c, state)
    PROVE  ServingInv'
  <1> USE DEF ServingInv
  <1>1. /\ UNCHANGED <<run, errors, overlaps>> /\ wasUp \subseteq wasUp'
        /\ cont' \in [Containers -> States] /\ wasUp' \subseteq Containers
        /\ \A x \in Containers : /\ Exists(x)' = Exists(x)
                                 /\ (cont'[x] = "none") = (cont[x] = "none")
                                 /\ cont'[x] = "up" => x \in wasUp'
    BY DEF ComesUp, Breaks, Running, Exists, TypeOK, States, ContainersFit
  <1>2. TypeOK'
    BY <1>1 DEF TypeOK
  <1>3. \A s \in Runs : Shape(s)'
    BY <1>1 DEF Shape
  <1>4. ContainersFit'
    <2>1. \A s \in Runs : /\ run[s].prev \subseteq Containers
                          /\ First(s) \in Containers /\ New(s) \in Containers
      BY NewFacts DEF TypeOK, RunRecords
    <2>2. \A s \in Runs : New(s)' = New(s)
      BY <1>1 DEF New
    <2> QED
      BY <1>1, <2>1, <2>2 DEF ContainersFit, First
  <1>5. ASSUME \A s \in Runs : ~StopsFirst(s)'
        PROVE  ListsOrdered' /\ \E x \in Containers : Survives(x)'
    <2>1. \A s \in Runs : ~StopsFirst(s)
      BY <1>1, <1>5 DEF StopsFirst
    <2>2. PICK x \in Containers : Survives(x)
      BY <2>1
    <2>3. Exists(x)'
      BY <1>1, <2>2 DEF Survives, Serving
    <2>4. Waiting' = Waiting /\ Handing' = Handing
      BY <1>1 DEF Waiting, Handing
    <2> QED
      BY <1>1, <2>1, <2>2, <2>3, <2>4, SurvivorStays
  <1> QED
    BY <1>2, <1>3, <1>4, <1>5

-----------------------------------------------------------------------------
(* The steps of an execution keep ServingInv.                              *)

\* An execution begins, or is cancelled.
LEMMA BeginCancelStep ==
    ASSUME ServingInv, NEW r \in Runs, Begin(r) \/ Cancel(r)
    PROVE  ServingInv'
  <1> USE DEF ServingInv
  <1>1. PICK at \in {run[r].at, "list"} :
           /\ Turns(r, at, run[r].prev, run[r].recreate, run[r].plan)
           /\ at # run[r].at => run[r].at = "idle"
    BY GoesFacts, CancelFacts DEF Begin, Cancel, Points
  <1>2. /\ UNCHANGED <<cont, wasUp, errors>> /\ overlaps' \in 0..MaxOverlaps
    BY BoundsAssumption DEF Begin, Cancel, TypeOK
  <1>3. TypeOK'
    BY <1>1, <1>2 DEF TypeOK, Turns
  <1>4. Shape(r)' /\ (StopsFirst(r) => StopsFirst(r)')
    BY <1>1 DEF Shape, StopsFirst, Turns
  <1>5. \A x \in Containers : /\ Exists(x)' => Exists(x)
                              /\ Survives(x) => Exists(x)'
                              /\ cont'[x] = "up" => x \in wasUp'
    BY <1>2 DEF Exists, Survives, Serving, ContainersFit
  <1>6. r \in Waiting' => r \in Waiting
    BY <1>1 DEF Waiting, Turns
  <1>7. at \in BeforeCreate => run[r].at \in BeforeCreate
    BY <1>1 DEF BeforeCreate
  <1> QED
    BY <1>1, <1>2, <1>3, <1>4, <1>5, <1>6, <1>7, QuietStep

\* The list of the executions that may still be waited for.
LEMMA ListStep ==
    ASSUME ServingInv, NEW r \in Runs, List(r)
    PROVE  ServingInv'
  <1> USE DEF ServingInv
  <1> DEFINE previous == {c \in Containers : Exists(c)}
             blueGreen == /\ ~run[r].recreate
                          /\ RolloutStrategy(\E c \in previous : Running(c), run[r].spec)
             plan == IF blueGreen THEN "blueGreen" ELSE "stopFirst"
             at == IF plan = "blueGreen" THEN "create" ELSE "clear"
  <1>1. /\ Lists(r, previous, plan) /\ run[r].at = "list" /\ Works(r)
        /\ UNCHANGED <<cont, wasUp>>
    BY Zenon DEF List
  <1>2. plan \in {"blueGreen", "stopFirst"} /\ previous \in SUBSET Containers
    OBVIOUS
  <1>3. plan = "blueGreen" => ~run[r].recreate
    OBVIOUS
  <1> HIDE DEF blueGreen, plan
  <1>4. Turns(r, at, previous, run[r].recreate, plan)
    BY <1>1, <1>2, ListsFacts
  <1>5. TypeOK'
    BY <1>1, <1>4, CountersStep DEF TypeOK, Turns
  <1>6. \A s \in Runs : Shape(s)'
    BY <1>1, <1>2, <1>3, <1>4 DEF Shape, Turns
  <1>7. ContainersFit'
    <2>1. ASSUME NEW s \in Runs, run'[s].at \in BeforeCreate, ~run'[s].recreate
          PROVE  cont'[First(s)] = "none"
      <3>1. run[s].at \in BeforeCreate /\ ~run[s].recreate
        BY <1>1, <1>4, <2>1 DEF Turns, BeforeCreate
      <3> QED
        BY <1>1, <3>1 DEF ContainersFit
    <2>2. ASSUME NEW s \in Runs, NEW c \in run'[s].prev
          PROVE  cont'[c] # "none"
      BY <1>1, <1>4, <2>2 DEF ContainersFit, Turns, Exists
    <2>3. ASSUME NEW s \in Runs, run'[s].at \in {"start", "await"}
          PROVE  cont'[New(s)'] # "none"
      <3>1. s # r /\ New(s)' = New(s) /\ run[s].at \in {"start", "await"}
        BY <1>4, <2>3 DEF Turns, New
      <3> QED
        BY <1>1, <3>1 DEF ContainersFit
    <2> QED
      BY <1>1, <2>1, <2>2, <2>3 DEF ContainersFit, First
  <1>8. ASSUME \A s \in Runs : ~StopsFirst(s)'
        PROVE  ListsOrdered' /\ \E c \in Containers : Survives(c)'
    <2>1. plan = "blueGreen" /\ ~run[r].recreate /\ \A s \in Runs : ~StopsFirst(s)
      BY <1>1, <1>2, <1>3, <1>4, <1>8 DEF StopsFirst, Turns, Shape
    <2>2. ListsOrdered /\ \E c \in Containers : Survives(c)
      BY <2>1
    <2>3. /\ cont[First(r)] = "none" /\ First(r) \in Containers
          /\ \A s \in Runs : First(r) \notin run'[s].prev
      BY <1>1, <1>4, <2>1, NewFacts DEF ContainersFit, Turns, Exists, BeforeCreate
    <2>4. /\ Waiting' = Waiting \cup {r} /\ r \notin Waiting /\ Handing' = Handing
          /\ r \notin Handing /\ run'[r].prev = previous
          /\ \A s \in Runs \ {r} : run'[s].prev = run[s].prev
      BY <1>1, <1>4, <2>1 DEF Waiting, Handing, Turns
    <2>5. \A x \in Containers : Exists(x)' = Exists(x)
      BY <1>1 DEF Exists
    <2>6. \A s \in Waiting \cup Handing : s \in Runs
      BY DEF Waiting, Handing
    <2>7. ListsOrdered'
      <3> SUFFICES ASSUME NEW p \in Waiting', NEW q \in Waiting'
                   PROVE  /\ First(q) \in run'[p].prev => First(p) \notin run'[q].prev
                          /\ \A x \in Containers : Exists(x)' =>
                                /\ x \in run'[p].prev /\ x \notin run'[q].prev
                                      => First(p) \notin run'[q].prev
                                /\ First(q) \in run'[p].prev /\ x \in run'[q].prev
                                      => x \in run'[p].prev
        BY DEF ListsOrdered, First
      <3>1. CASE p = r
        <4>1. First(p) \notin run'[q].prev
          BY <2>3, <2>4, <2>6, <3>1
        <4>2. \A x \in Containers : Exists(x)' => x \in run'[p].prev
          BY <2>4, <2>5, <3>1
        <4> QED
          BY <4>1, <4>2
      <3>2. CASE q = r
        <4>1. First(q) \notin run'[p].prev
          BY <2>3, <2>4, <2>6, <3>2
        <4>2. \A x \in Containers : Exists(x)' => x \in run'[q].prev
          BY <2>4, <2>5, <3>2
        <4> QED
          BY <4>1, <4>2
      <3>3. CASE p # r /\ q # r
        <4>1. p \in Waiting /\ q \in Waiting
          BY <2>4, <3>3
        <4>2. run'[p].prev = run[p].prev /\ run'[q].prev = run[q].prev
          BY <2>4, <2>6, <3>3, <4>1
        <4> HIDE DEF First, Exists
        <4> QED
          BY <2>2, <2>5, <4>1, <4>2 DEF ListsOrdered
      <3> QED
        BY <3>1, <3>2, <3>3
    <2>8. PICK c \in Containers : Survives(c)
      BY <2>2
    <2>9. c # First(r)
      BY <2>3, <2>8 DEF Survives, Serving, Exists
    <2>10. Survives(c)'
      BY <1>1, <2>3, <2>4, <2>5, <2>6, <2>8, <2>9 DEF Survives, Serving, First
    <2> QED
      BY <2>7, <2>10
  <1> QED
    BY <1>5, <1>6, <1>7, <1>8

\* A handover takes only containers that do not survive.
LEMMA RemovePreviousStep ==
    ASSUME ServingInv, NEW r \in Runs, NEW c \in Containers, RemovePrevious(r, c)
    PROVE  ServingInv'
  <1> USE DEF ServingInv
  <1>1. Turns(r, run[r].at, run[r].prev \ {c}, run[r].recreate, run[r].plan)
    BY RemovesFacts
  <1>2. /\ run[r].at \in {"clear", "handover"} /\ c \in run[r].prev /\ wasUp' = wasUp
        /\ Works(r) \/ Fails(r)
        /\ \/ cont' = [cont EXCEPT ![c] = "gone"] \/ cont' = cont
           \/ Running(c) /\ cont' = [cont EXCEPT ![c] = "exited"]
    BY DEF RemovePrevious, TypeOK
  <1>3. TypeOK'
    BY <1>1, <1>2, CountersStep DEF TypeOK, States, Turns
  <1>4. Shape(r)' /\ (StopsFirst(r) => StopsFirst(r)')
    BY <1>1 DEF Shape, StopsFirst, Turns
  <1>5. cont[c] # "none"
    BY <1>2 DEF ContainersFit
  <1>6. \A x \in Containers : /\ cont[x] # "none" => cont'[x] # "none"
                              /\ cont[x] = "none" => cont'[x] = "none"
                              /\ Exists(x)' => Exists(x)
                              /\ x # c /\ Exists(x) => Exists(x)'
                              /\ cont'[x] = "up" => x \in wasUp'
    BY <1>2, <1>5 DEF Exists, Running, ContainersFit, TypeOK
  <1>7. (\A s \in Runs : ~StopsFirst(s)') => \A x \in Containers : Survives(x) => Exists(x)'
    <2> SUFFICES ASSUME ~StopsFirst(r)', NEW x \in Containers, Survives(x)
                 PROVE  Exists(x)'
      OBVIOUS
    <2>1. run[r].at = "handover"
      BY <1>1, <1>2 DEF StopsFirst, Shape, Turns
    <2>2. x # c /\ Exists(x)
      BY <1>2, <2>1 DEF Survives, Serving, Handing
    <2> QED
      BY <1>6, <2>2
  <1>8. r \notin Waiting'
    BY <1>1, <1>2 DEF Waiting, Turns
  <1> QED
    BY <1>1, <1>2, <1>3, <1>4, <1>6, <1>7, <1>8, QuietStep

\* The old containers are gone: only an execution that stops first is here.
LEMMA ClearedStep ==
    ASSUME ServingInv, NEW r \in Runs, Cleared(r)
    PROVE  ServingInv'
  <1> USE DEF ServingInv
  <1>1. /\ Turns(r, "create", run[r].prev, run[r].recreate, run[r].plan)
        /\ run[r].at = "clear" /\ UNCHANGED <<cont, wasUp, errors, overlaps>>
    BY GoesFacts DEF Cleared, Points
  <1>2. TypeOK'
    BY <1>1 DEF TypeOK, Turns
  <1>3. \A s \in Runs : Shape(s)'
    BY <1>1 DEF Shape, Turns
  <1>4. StopsFirst(r)'
    BY <1>1 DEF Shape, StopsFirst, Turns
  <1>5. ContainersFit'
    <2>1. \A s \in Runs : /\ run'[s].prev = run[s].prev
                          /\ run'[s].recreate = run[s].recreate
                          /\ run'[s].at \in BeforeCreate => run[s].at \in BeforeCreate
                          /\ run'[s].at \in {"start", "await"} => run'[s] = run[s]
      BY <1>1 DEF Turns, BeforeCreate
    <2>2. \A s \in Runs : New(s)' = New(s)
      BY <2>1 DEF New
    <2> QED
      BY <1>1, <2>1, <2>2 DEF ContainersFit, First
  <1> QED
    BY <1>2, <1>3, <1>4, <1>5

\* The new container is created.
LEMMA CreateStep ==
    ASSUME ServingInv, NEW r \in Runs, Create(r)
    PROVE  ServingInv'
  <1> USE DEF ServingInv
  <1>1. /\ Turns(r, "start", run[r].prev, run[r].recreate, run[r].plan)
        /\ run[r].at = "create" /\ Works(r) /\ wasUp' = wasUp
        /\ cont' = [cont EXCEPT ![New(r)] = "created"]
    BY GoesFacts DEF Create, Points
  <1>2. TypeOK'
    BY <1>1, CountersStep DEF TypeOK, States, Turns
  <1>3. \A s \in Runs : Shape(s)'
    BY <1>1 DEF Shape, Turns
  <1>4. ContainersFit'
    <2>1. ASSUME NEW s \in Runs, run'[s].at \in BeforeCreate, ~run'[s].recreate
          PROVE  cont'[First(s)] = "none"
      <3>1. s # r /\ run'[s] = run[s]
        BY <1>1, <2>1 DEF Turns, BeforeCreate
      <3>2. cont[First(s)] = "none" /\ New(s) = First(s) /\ New(r) # New(s)
        BY <2>1, <3>1, NewFacts DEF ContainersFit
      <3> QED
        BY <1>1, <3>2, NewFacts DEF TypeOK
    <2>2. ASSUME NEW s \in Runs, NEW c \in run'[s].prev
          PROVE  cont'[c] # "none"
      <3>1. c \in run[s].prev /\ c \in Containers
        BY <1>1, <2>2 DEF Turns, TypeOK, RunRecords
      <3> QED
        BY <1>1, <3>1 DEF ContainersFit, TypeOK
    <2>3. \A c \in Containers : cont'[c] = "up" => c \in wasUp'
      BY <1>1 DEF ContainersFit, TypeOK
    <2>4. ASSUME NEW s \in Runs, run'[s].at \in {"start", "await"}
          PROVE  cont'[New(s)'] # "none"
      <3>1. New(s)' = New(s) /\ New(s) \in Containers /\ New(r) \in Containers
        BY <1>1, NewFacts DEF Turns, New
      <3>2. s # r => cont[New(s)] # "none"
        BY <1>1, <2>4 DEF Turns, ContainersFit
      <3> QED
        BY <1>1, <3>1, <3>2 DEF TypeOK
    <2> QED
      BY <2>1, <2>2, <2>3, <2>4 DEF ContainersFit, First
  <1>5. ASSUME \A s \in Runs : ~StopsFirst(s)'
        PROVE  ListsOrdered' /\ \E c \in Containers : Survives(c)'
    <2>1. ~run[r].recreate /\ \A s \in Runs : ~StopsFirst(s)
      BY <1>1, <1>5, PlanFacts DEF StopsFirst, Turns, Shape
    <2>2. ListsOrdered /\ \E c \in Containers : Survives(c)
      BY <2>1
    <2>3. /\ New(r) = First(r) /\ cont[First(r)] = "none" /\ First(r) \in Containers
          /\ \A s \in Runs : First(r) \notin run'[s].prev
      BY <1>1, <2>1, NewFacts DEF ContainersFit, Turns, BeforeCreate
    <2>4. /\ Waiting' = Waiting /\ Handing' = Handing
          /\ \A s \in Runs : run'[s].prev = run[s].prev
      BY <1>1 DEF Waiting, Handing, Turns
    <2>5. \A x \in Containers : x # First(r) => Exists(x)' = Exists(x)
      BY <1>1, <2>3 DEF Exists, TypeOK
    <2>6. \A s \in Waiting \cup Handing : s \in Runs
      BY DEF Waiting, Handing
    <2>7. ListsOrdered'
      <3> SUFFICES ASSUME NEW p \in Waiting', NEW q \in Waiting'
                   PROVE  /\ First(q) \in run'[p].prev => First(p) \notin run'[q].prev
                          /\ \A x \in Containers : Exists(x)' =>
                                /\ x \in run'[p].prev /\ x \notin run'[q].prev
                                      => First(p) \notin run'[q].prev
                                /\ First(q) \in run'[p].prev /\ x \in run'[q].prev
                                      => x \in run'[p].prev
        BY DEF ListsOrdered, First
      <3>1. /\ p \in Waiting /\ q \in Waiting
            /\ run'[p].prev = run[p].prev /\ run'[q].prev = run[q].prev
        BY <2>4, <2>6
      <3>2. First(r) \notin run[p].prev /\ First(r) \notin run[q].prev
        BY <2>3, <2>6, <3>1
      <3> HIDE DEF First, Exists
      <3> QED
        BY <2>2, <2>5, <3>1, <3>2 DEF ListsOrdered
    <2>8. PICK c \in Containers : Survives(c)
      BY <2>2
    <2>9. c # First(r)
      BY <2>3, <2>8 DEF Survives, Serving, Exists
    <2>10. Survives(c)'
      BY <1>1, <2>4, <2>5, <2>6, <2>8, <2>9 DEF Survives, Serving, First
    <2> QED
      BY <2>7, <2>10
  <1> QED
    BY <1>2, <1>3, <1>4, <1>5

\* The new container is started, or removed again; it is no survivor.
LEMMA NewContainerStep ==
    ASSUME ServingInv, NEW r \in Runs, run[r].at \in {"start", "await"},
           NEW at \in {"await", "ended", "list"}, NEW prev \in {{}, run[r].prev},
           NEW recreate, Turns(r, at, prev, recreate, run[r].plan),
           at = "await" => run[r].plan = "blueGreen" /\ prev = run[r].prev,
           IF at = "list" THEN recreate = TRUE /\ run[r].at = "await"
                          ELSE recreate = run[r].recreate,
           \/ cont' = cont
           \/ /\ Exists(New(r)) /\ cont' = [cont EXCEPT ![New(r)] = "starting"]
           \/ /\ cont[New(r)] # "none" /\ cont' = [cont EXCEPT ![New(r)] = "gone"],
           wasUp' = wasUp, errors' \in 0..MaxErrors, overlaps' \in 0..MaxOverlaps
    PROVE  ServingInv'
  <1> USE DEF ServingInv
  <1>0. New(r) \in Containers
    BY NewFacts
  <1>1. TypeOK'
    BY <1>0 DEF TypeOK, States, Turns
  <1>2. Shape(r)' /\ (StopsFirst(r) => StopsFirst(r)')
    BY DEF Shape, StopsFirst, Turns
  <1>3. \A x \in Containers : /\ cont[x] # "none" => cont'[x] # "none"
                              /\ cont[x] = "none" => cont'[x] = "none"
                              /\ Exists(x)' => Exists(x)
                              /\ x # New(r) /\ Exists(x) => Exists(x)'
                              /\ cont'[x] = "up" => x \in wasUp'
    BY <1>0 DEF Exists, ContainersFit, TypeOK
  <1>4. (\A s \in Runs : ~StopsFirst(s)') => \A x \in Containers : Survives(x) => Exists(x)'
    <2> SUFFICES ASSUME ~StopsFirst(r)', NEW x \in Containers, Survives(x)
                 PROVE  Exists(x)'
      OBVIOUS
    <2>1. New(r) = First(r)
      BY <1>2, NewFacts, PlanFacts DEF StopsFirst, Shape, Turns
    <2>2. x # New(r) /\ Exists(x)
      BY <2>1 DEF Survives, Serving, Waiting
    <2> QED
      BY <1>3, <2>2
  <1>5. r \in Waiting' => r \in Waiting /\ prev = run[r].prev
    BY DEF Waiting, Turns
  <1>6. prev \subseteq run[r].prev
    OBVIOUS
  <1>7. at \in BeforeCreate /\ ~recreate => run[r].at \in BeforeCreate /\ ~run[r].recreate
    BY DEF BeforeCreate
  <1> QED
    BY <1>1, <1>2, <1>3, <1>4, <1>5, <1>6, <1>7, QuietStep

\* Starting the new container.
LEMMA StartStep ==
    ASSUME ServingInv, NEW r \in Runs, Start(r)
    PROVE  ServingInv'
  <1>0. TypeOK
    BY DEF ServingInv
  <1>1. /\ run[r].at = "start" /\ Works(r) /\ Exists(New(r)) /\ wasUp' = wasUp
        /\ cont' = [cont EXCEPT ![New(r)] = "starting"]
    BY DEF Start
  <1>2. CASE run[r].plan = "blueGreen"
    <2>1. Turns(r, "await", run[r].prev, run[r].recreate, run[r].plan)
      BY <1>0, <1>2, GoesFacts DEF Start, Points
    <2> QED
      BY <1>0, <1>1, <1>2, <2>1, CountersStep, NewContainerStep
  <1>3. CASE run[r].plan # "blueGreen"
    <2>1. Turns(r, "ended", {}, run[r].recreate, run[r].plan)
      BY <1>0, <1>3, EndsFacts DEF Start
    <2> QED
      BY <1>0, <1>1, <2>1, CountersStep, NewContainerStep
  <1> QED
    BY <1>2, <1>3

\* Starting fails; a container next to the old ones is removed quietly.
LEMMA StartFailsStep ==
    ASSUME ServingInv, NEW r \in Runs, StartFails(r)
    PROVE  ServingInv'
  <1>0. TypeOK
    BY DEF ServingInv
  <1>1. /\ run[r].at = "start" /\ wasUp' = wasUp
        /\ cont' = cont \/ cont' = [cont EXCEPT ![New(r)] = "gone"]
        /\ Turns(r, "ended", {}, run[r].recreate, run[r].plan)
    BY <1>0, EndsFacts DEF StartFails, RemovedQuietly
  <1>2. errors' \in 0..MaxErrors /\ overlaps' \in 0..MaxOverlaps
    BY <1>0, CountersStep DEF StartFails, TypeOK
  <1>3. cont[New(r)] # "none"
    BY <1>1 DEF ServingInv, ContainersFit
  <1> QED
    BY <1>1, <1>2, <1>3, NewContainerStep

\* The verdict is failed, or an inspect fails: the execution ends or retries.
LEMMA AwaitEndsStep ==
    ASSUME ServingInv, NEW r \in Runs, Discard(r) \/ AwaitFails(r)
    PROVE  ServingInv'
  <1>0. TypeOK
    BY DEF ServingInv
  <1>1. /\ run[r].at = "await" /\ wasUp' = wasUp
        /\ Works(r) \/ Fails(r)
        /\ cont' = cont \/ cont' = [cont EXCEPT ![New(r)] = "gone"]
    BY DEF Discard, AwaitFails, RemovedQuietly
  <1>2. errors' \in 0..MaxErrors /\ overlaps' \in 0..MaxOverlaps
    BY <1>0, <1>1, CountersStep
  <1>3. cont[New(r)] # "none"
    BY <1>1 DEF ServingInv, ContainersFit
  <1>4. CASE Retries(r)
    <2>1. Turns(r, "list", {}, TRUE, run[r].plan)
      BY <1>0, <1>4, RetriesFacts
    <2> QED
      BY <1>1, <1>2, <1>3, <2>1, NewContainerStep
  <1>5. CASE Ends(r, "error") \/ Ends(r, "rollout-failed")
    <2>1. Turns(r, "ended", {}, run[r].recreate, run[r].plan)
      BY <1>0, <1>5, EndsFacts
    <2> QED
      BY <1>1, <1>2, <1>3, <2>1, NewContainerStep
  <1> QED
    BY <1>4, <1>5 DEF Discard, AwaitFails

\* A handover that is done, a list or a create that fails: the execution ends.
LEMMA EndStep ==
    ASSUME ServingInv, NEW r \in Runs, HandedOver(r) \/ CallFails(r)
    PROVE  ServingInv'
  <1> USE DEF ServingInv
  <1>1. /\ Turns(r, "ended", {}, run[r].recreate, run[r].plan)
        /\ UNCHANGED <<cont, wasUp>> /\ run[r].at \in {"handover", "list", "create"}
    BY EndsFacts DEF HandedOver, CallFails
  <1>2. errors' \in 0..MaxErrors /\ overlaps' \in 0..MaxOverlaps
    BY CountersStep DEF HandedOver, CallFails, TypeOK
  <1>3. TypeOK'
    BY <1>1, <1>2 DEF TypeOK, Turns
  <1>4. Shape(r)' /\ (StopsFirst(r) => StopsFirst(r)')
    BY <1>1 DEF Shape, StopsFirst, Turns
  <1>5. \A x \in Containers : /\ Exists(x)' => Exists(x)
                              /\ Survives(x) => Exists(x)'
                              /\ cont'[x] = "up" => x \in wasUp'
    BY <1>1 DEF Exists, Survives, Serving, ContainersFit
  <1>6. r \notin Waiting'
    BY <1>1 DEF Waiting, Turns
  <1>7. "ended" \notin BeforeCreate
    BY DEF BeforeCreate
  <1> QED
    BY <1>1, <1>3, <1>4, <1>5, <1>6, <1>7, QuietStep

\* A container whose verdict is ready is up.
LEMMA ReadyIsUp ==
    ASSUME NEW c, "ready" \in ReadinessVerdict(c)
    PROVE  cont[c] = "up"
  <1> SUFFICES ASSUME cont[c] # "up"
               PROVE  FALSE
    OBVIOUS
  <1>1. CASE cont[c] = "starting"
    <2>1. ReadinessVerdict(c) = {"pending", "failed"}
      BY <1>1 DEF ReadinessVerdict
    <2> QED
      BY <2>1
  <1>2. CASE cont[c] # "starting"
    <2>1. ReadinessVerdict(c) = {"failed"}
      BY <1>2 DEF ReadinessVerdict
    <2> QED
      BY <2>1
  <1> QED
    BY <1>1, <1>2

\* The handover begins: what was about to be removed now is, and the new
\* container survives in its place.
LEMMA BecomesReadyStep ==
    ASSUME ServingInv, NEW r \in Runs, BecomesReady(r)
    PROVE  ServingInv'
  <1> USE DEF ServingInv
  <1>1. /\ Turns(r, "handover", run[r].prev, run[r].recreate, run[r].plan)
        /\ run[r].at = "await" /\ Works(r) /\ UNCHANGED <<cont, wasUp>>
    BY GoesFacts DEF BecomesReady, Points
  <1>2. TypeOK'
    BY <1>1, CountersStep DEF TypeOK, Turns
  <1>3. \A s \in Runs : Shape(s)'
    BY <1>1 DEF Shape, Turns
  <1>4. ContainersFit'
    <2>1. \A s \in Runs : /\ run'[s].prev = run[s].prev
                          /\ run'[s].recreate = run[s].recreate
                          /\ run'[s].at \in BeforeCreate => run'[s] = run[s]
                          /\ run'[s].at \in {"start", "await"} => run'[s] = run[s]
      BY <1>1 DEF Turns, BeforeCreate
    <2>2. \A s \in Runs : New(s)' = New(s)
      BY <2>1 DEF New
    <2> QED
      BY <1>1, <2>1, <2>2 DEF ContainersFit, First
  <1>5. ASSUME \A s \in Runs : ~StopsFirst(s)'
        PROVE  ListsOrdered' /\ \E c \in Containers : Survives(c)'
    <2>1. \A s \in Runs : ~StopsFirst(s)
      BY <1>1, <1>5 DEF StopsFirst, Turns
    <2>2. ListsOrdered /\ \E c \in Containers : Survives(c)
      BY <2>1
    <2>3. /\ Waiting' = Waiting \ {r} /\ r \in Waiting /\ Handing' = Handing \cup {r}
          /\ \A s \in Runs : run'[s].prev = run[s].prev
      BY <1>1 DEF Waiting, Handing, Turns
    <2>4. \A s \in Waiting \cup Handing : s \in Runs
      BY DEF Waiting, Handing
    <2>5. \A x \in Containers : Exists(x)' = Exists(x)
      BY <1>1 DEF Exists
    <2>6. ListsOrdered'
      <3> SUFFICES ASSUME NEW p \in Waiting', NEW q \in Waiting'
                   PROVE  /\ First(q) \in run'[p].prev => First(p) \notin run'[q].prev
                          /\ \A x \in Containers : Exists(x)' =>
                                /\ x \in run'[p].prev /\ x \notin run'[q].prev
                                      => First(p) \notin run'[q].prev
                                /\ First(q) \in run'[p].prev /\ x \in run'[q].prev
                                      => x \in run'[p].prev
        BY DEF ListsOrdered, First
      <3>1. /\ p \in Waiting /\ q \in Waiting
            /\ run'[p].prev = run[p].prev /\ run'[q].prev = run[q].prev
        BY <2>3, <2>4
      <3> HIDE DEF First, Exists
      <3> QED
        BY <2>2, <2>5, <3>1 DEF ListsOrdered
    <2>7. PICK c \in Containers : Survives(c)
      BY <2>2
    <2>8. CASE c \notin run[r].prev
      <3>1. \A p \in Waiting : c \in run[p].prev => First(p) \notin run[r].prev
        BY <2>2, <2>3, <2>7, <2>8 DEF ListsOrdered, Survives, Serving
      <3>2. Survives(c)'
        BY <1>1, <2>3, <2>4, <2>5, <2>7, <2>8, <3>1 DEF Survives, Serving, First
      <3> QED
        BY <2>6, <3>2
    <2>9. CASE c \in run[r].prev
      <3>1. New(r) = First(r) /\ First(r) \in Containers
        BY <1>1, <2>1, NewFacts DEF Shape
      <3>2. cont[First(r)] = "up"
        BY <3>1, ReadyIsUp DEF BecomesReady
      <3>3. First(r) \in Serving'
        BY <1>1, <3>1, <3>2 DEF Serving, ContainersFit, Exists
      <3>4. \A p \in Waiting' : First(r) # First(p)
        BY <2>3, <2>4, NewFacts
      <3>5. First(r) \notin run[r].prev
        BY <2>2, <2>3 DEF ListsOrdered
      <3>6. \A p \in Waiting : First(r) \in run[p].prev
                                => c \in run[p].prev /\ First(p) \notin run[r].prev
        BY <2>2, <2>3, <2>7, <2>9 DEF ListsOrdered, Survives, Serving
      <3>7. \A s \in Handing : /\ First(r) \notin run[s].prev
                               /\ \A p \in Waiting : c \in run[p].prev
                                                      => First(p) \notin run[s].prev
        BY <2>3, <2>7, <2>9 DEF Survives
      <3>8. Survives(First(r))'
        <4>1. ASSUME NEW s \in Handing'
              PROVE  /\ First(r) \notin run'[s].prev
                     /\ \A p \in Waiting' : First(r) \in run'[p].prev
                                             => First(p) \notin run'[s].prev
          <5>1. run'[s].prev = run[s].prev /\ \A p \in Waiting' : run'[p].prev = run[p].prev
            BY <2>3, <2>4
          <5>2. \A p \in Waiting' : p \in Waiting
            BY <2>3
          <5> QED
            BY <2>3, <3>5, <3>6, <3>7, <5>1, <5>2
        <4> QED
          BY <3>3, <3>4, <4>1 DEF Survives, First
      <3> QED
        BY <2>6, <3>1, <3>8
    <2> QED
      BY <2>8, <2>9
  <1> QED
    BY <1>2, <1>3, <1>4, <1>5

-----------------------------------------------------------------------------
(* No deploy takes the last container that was ready away.                 *)

LEMMA InitServing ==
    Init => ServingInv
  <1> SUFFICES ASSUME Init
               PROVE  ServingInv
    OBVIOUS
  <1>1. /\ cont = [c \in Containers |-> IF c \in Old THEN "up" ELSE "none"]
        /\ wasUp = Old /\ errors = 0 /\ overlaps = 0
    BY DEF Init
  <1>2. \A r \in Runs : /\ run[r].at = "idle" /\ run[r].prev = {}
                        /\ run[r].recreate = FALSE /\ run[r].plan = "none"
    BY DEF Init
  <1>3. run \in [Runs -> RunRecords]
    <2>1. ASSUME NEW spec \in Settings
          PROVE  [at |-> "idle", spec |-> spec, prev |-> {}, recreate |-> FALSE,
                  plan |-> "none", cancelled |-> FALSE, result |-> "none"]
                     \in RunRecords
      BY DEF RunRecords, Points
    <2> QED
      BY <2>1 DEF Init
  <1>4. TypeOK
    BY <1>1, <1>3, BoundsAssumption DEF TypeOK, States, Containers
  <1>5. \A r \in Runs : Shape(r)
    BY <1>2 DEF Shape
  <1>6. ContainersFit
    BY <1>1, <1>2, NewFacts DEF ContainersFit
  <1>7. Waiting = {} /\ Handing = {}
    BY <1>2 DEF Waiting, Handing
  <1>8. \A c \in Old : Survives(c) /\ c \in Containers
    BY <1>1, <1>7 DEF Survives, Serving, Exists, Containers
  <1>9. ListsOrdered
    BY <1>7 DEF ListsOrdered
  <1> QED
    BY <1>4, <1>5, <1>6, <1>8, <1>9, OldAssumption DEF ServingInv

LEMMA StutterServing ==
    ServingInv /\ UNCHANGED vars => ServingInv'
  <1> SUFFICES ASSUME ServingInv, UNCHANGED vars
               PROVE  ServingInv'
    OBVIOUS
  <1>1. UNCHANGED <<cont, wasUp, run, errors, overlaps>>
    BY DEF vars
  <1>2. TypeOK' /\ ContainersFit' /\ \A r \in Runs : Shape(r)' /\ (StopsFirst(r) <=> StopsFirst(r)')
    BY <1>1 DEF ServingInv, TypeOK, ContainersFit, Shape, StopsFirst, Exists, New, First
  <1>3. (ListsOrdered <=> ListsOrdered') /\ \A c \in Containers : Survives(c) <=> Survives(c)'
    BY <1>1 DEF ListsOrdered, Survives, Serving, Waiting, Handing, Exists, First
  <1> QED
    BY <1>2, <1>3 DEF ServingInv

LEMMA NextServing ==
    ServingInv /\ [Next]_vars => ServingInv'
  <1> SUFFICES ASSUME ServingInv, Next
               PROVE  ServingInv'
    BY StutterServing
  <1>1. ASSUME NEW r \in Runs, Step(r)
        PROVE  ServingInv'
    BY <1>1, BeginCancelStep, ListStep, ClearedStep, CreateStep, StartStep, StartFailsStep,
       EndStep, BecomesReadyStep, AwaitEndsStep, RemovePreviousStep DEF Step
  <1> QED
    BY <1>1, ContainerStep DEF Next

\* The executions that overlap stay ordered by what they have listed, and some
\* container that was ready survives them, unless one of them stops first.
THEOREM ServingInvariant == Spec => []ServingInv
  BY InitServing, NextServing, PTL DEF Spec

\* Types of the containers and of the executions.
THEOREM RolloutTypes == Spec => []TypeOK
  <1>1. ServingInv => TypeOK
    BY DEF ServingInv
  <1> QED
    BY <1>1, ServingInvariant, PTL

\* startContainer with the blue-green strategy leaves no gap, however many
\* executions overlap, fail or are cancelled.
THEOREM DeploysKeepServing == Spec => []KeepsServing
  <1>1. ServingInv => KeepsServing
    BY DEF ServingInv, KeepsServing, Survives
  <1> QED
    BY <1>1, ServingInvariant, PTL

-----------------------------------------------------------------------------
(* What a deploy leaves behind when it succeeds.                           *)

\* The counters only grow, and no call fails for an execution not cancelled.
LEMMA CountersGrow ==
    ASSUME TypeOK, NEW r \in Runs, Works(r) \/ Fails(r)
    PROVE  /\ overlaps' = overlaps
           /\ errors' = 0 => errors = 0
           /\ errors' = 0 /\ ~run[r].cancelled => Works(r)
  <1>1. errors \in Nat
    BY BoundsAssumption DEF TypeOK
  <1>2. errors + 1 # 0
    BY <1>1
  <1> QED
    BY <1>1, <1>2 DEF Works, Fails

\* A step of the one execution alive, or of one that begins alone.
LEMMA OwnStep ==
    ASSUME CleaningInv, NEW r \in Runs, \A s \in Runs \ {r} : run'[s] = run[s],
           overlaps' = 0 => overlaps = 0,
           overlaps' = 0 => Alive(r) \/ \A s \in Runs : ~Alive(s),
           overlaps' = 0 /\ errors' = 0 /\ Alive(r)' /\ run'[r].at # "list"
               /\ ~run'[r].cancelled => Cleans(r)'
    PROVE  CleaningInv'
  <1> SUFFICES ASSUME overlaps' = 0
               PROVE  \A p \in Runs :
                         /\ \A s \in Runs : Alive(p)' /\ Alive(s)' => p = s
                         /\ Alive(p)' /\ run'[p].at # "list" /\ ~run'[p].cancelled
                               /\ errors' = 0 => Cleans(p)'
    BY DEF CleaningInv
  <1>1. \A s \in Runs : Alive(s)' => s = r
    BY DEF CleaningInv, Alive
  <1> QED
    BY <1>1

\* Executions begin, are cancelled, end or list again.
LEMMA PlainStepCleans ==
    ASSUME ServingInv, CleaningInv, NEW r \in Runs,
           \/ Begin(r) \/ Cancel(r) \/ StartFails(r) \/ CallFails(r) \/ Discard(r)
           \/ AwaitFails(r) \/ HandedOver(r)
    PROVE  CleaningInv'
  <1>0. TypeOK
    BY DEF ServingInv
  <1>1. CASE Begin(r)
    <2>1. Turns(r, "list", run[r].prev, run[r].recreate, run[r].plan)
      BY <1>0, <1>1, GoesFacts DEF Begin, Points
    <2>2. overlaps \in Nat
      BY <1>0, BoundsAssumption DEF TypeOK
    <2>3. overlaps' = 0 => overlaps = 0 /\ \A s \in Runs : ~Alive(s)
      BY <1>1, <2>2 DEF Begin
    <2> QED
      BY <2>1, <2>3, OwnStep DEF Turns
  <1>2. CASE Cancel(r)
    <2>1. overlaps' = overlaps /\ Alive(r)
      BY <1>2 DEF Cancel
    <2> QED
      BY <1>0, <1>2, <2>1, CancelFacts, OwnStep DEF Turns
  <1>3. CASE ~Begin(r) /\ ~Cancel(r)
    <2>1. /\ \A s \in Runs \ {r} : run'[s] = run[s]
          /\ run'[r].at \in {"list", "ended"}
      <3>1. Retries(r) \/ \E result \in {"ok", "error", "rollout-failed"} : Ends(r, result)
        BY <1>3 DEF StartFails, CallFails, Discard, AwaitFails, HandedOver
      <3> QED
        BY <1>0, <3>1, EndsFacts, RetriesFacts DEF Turns
    <2>2. overlaps' = overlaps
      BY <1>3 DEF StartFails, CallFails, Discard, AwaitFails, HandedOver, Works, Fails
    <2>3. Alive(r)
      BY <1>3 DEF StartFails, CallFails, Discard, AwaitFails, HandedOver, Alive
    <2> QED
      BY <2>1, <2>2, <2>3, OwnStep DEF Alive
  <1> QED
    BY <1>1, <1>2, <1>3

\* What is listed covers every container there is.
LEMMA ListCleans ==
    ASSUME ServingInv, CleaningInv, NEW r \in Runs, List(r)
    PROVE  CleaningInv'
  <1> DEFINE previous == {c \in Containers : Exists(c)}
             blueGreen == /\ ~run[r].recreate
                          /\ RolloutStrategy(\E c \in previous : Running(c), run[r].spec)
             plan == IF blueGreen THEN "blueGreen" ELSE "stopFirst"
             at == IF plan = "blueGreen" THEN "create" ELSE "clear"
  <1>0. TypeOK
    BY DEF ServingInv
  <1>1. /\ Lists(r, previous, plan) /\ run[r].at = "list" /\ Works(r)
        /\ UNCHANGED <<cont, wasUp>>
    BY Zenon DEF List
  <1>2. plan \in {"blueGreen", "stopFirst"} /\ previous \in SUBSET Containers
    OBVIOUS
  <1> HIDE DEF blueGreen, plan
  <1>3. Turns(r, at, previous, run[r].recreate, plan)
    BY <1>0, <1>1, <1>2, ListsFacts
  <1>4. Cleans(r)'
    <2>1. \A c \in Containers : Exists(c)' => c \in run'[r].prev
      BY <1>1, <1>3 DEF Turns, Exists
    <2>2. run'[r].at \in {"create", "start"} => run'[r].plan = "blueGreen"
      BY <1>3 DEF Turns
    <2> QED
      BY <2>1, <2>2 DEF Cleans
  <1> QED
    BY <1>1, <1>3, <1>4, OwnStep DEF Turns, Works, Alive

\* One container less, and one less to remove, unless the call fails.
LEMMA RemoveCleans ==
    ASSUME ServingInv, CleaningInv, NEW r \in Runs, NEW c \in Containers,
           RemovePrevious(r, c)
    PROVE  CleaningInv'
  <1>0. TypeOK
    BY DEF ServingInv
  <1>1. Turns(r, run[r].at, run[r].prev \ {c}, run[r].recreate, run[r].plan) /\ Keeps(r)
    BY <1>0, RemovesFacts
  <1>2. /\ run[r].at \in {"clear", "handover"}
        /\ Works(r) \/ Fails(r)
        /\ Works(r) /\ ~Fails(r) => cont' = [cont EXCEPT ![c] = "gone"]
    BY DEF RemovePrevious
  <1>3. ASSUME overlaps' = 0, errors' = 0, ~run'[r].cancelled
        PROVE  Cleans(r)'
    <2>1. Works(r) /\ ~Fails(r) /\ errors = 0 /\ overlaps = 0 /\ ~run[r].cancelled
      <3>1. errors \in Nat
        BY <1>0, BoundsAssumption DEF TypeOK
      <3>2. Works(r) /\ errors = 0 /\ overlaps = 0 /\ ~run[r].cancelled
        BY <1>0, <1>1, <1>2, <1>3, CountersGrow DEF Keeps
      <3>3. ~Fails(r)
        BY <1>3, <3>1, <3>2 DEF Fails
      <3> QED
        BY <3>2, <3>3
    <2>2. cont' = [cont EXCEPT ![c] = "gone"] /\ Cleans(r)
      BY <1>2, <2>1 DEF CleaningInv, Alive
    <2>3. New(r)' = New(r)
      BY <1>1 DEF New, Turns
    <2>4. \A x \in Containers : Exists(x)' => Exists(x) /\ x # c
      BY <1>0, <2>2 DEF Exists, TypeOK
    <2> QED
      BY <1>1, <1>2, <2>2, <2>3, <2>4 DEF Cleans, Turns
  <1> QED
    BY <1>0, <1>1, <1>2, <1>3, CountersGrow, OwnStep DEF Turns, Alive

\* The plan goes on, and what it covers stays covered.
LEMMA GoesOn ==
    ASSUME CleaningInv, NEW r \in Runs, NEW at,
           Turns(r, at, run[r].prev, run[r].recreate, run[r].plan), Keeps(r),
           UNCHANGED <<errors, overlaps>>, Alive(r), run[r].at # "list",
           Cleans(r) => Cleans(r)'
    PROVE  CleaningInv'
  <1>1. overlaps = 0 /\ errors = 0 /\ ~run[r].cancelled => Cleans(r)
    BY DEF CleaningInv
  <1>2. run'[r].cancelled = run[r].cancelled
    BY DEF Keeps
  <1>3. \A s \in Runs \ {r} : run'[s] = run[s]
    BY DEF Turns
  <1> QED
    BY <1>1, <1>2, <1>3, OwnStep

\* Cleared, created, started, ready.
LEMMA ProgressCleans ==
    ASSUME ServingInv, CleaningInv, NEW r \in Runs,
           Cleared(r) \/ Create(r) \/ Start(r) \/ BecomesReady(r)
    PROVE  CleaningInv'
  <1>0. TypeOK /\ Shape(r) /\ New(r) \in Containers
    BY NewFacts DEF ServingInv
  <1>1. CASE Cleared(r)
    <2>1. /\ Turns(r, "create", run[r].prev, run[r].recreate, run[r].plan) /\ Keeps(r)
          /\ run[r].at = "clear" /\ run[r].prev = {} /\ UNCHANGED <<cont, errors, overlaps>>
      BY <1>0, <1>1, GoesFacts DEF Cleared, Points
    <2>2. Cleans(r) => Cleans(r)'
      BY <2>1 DEF Cleans, Exists, Turns
    <2> QED
      BY <2>1, <2>2, GoesOn DEF Alive
  <1>2. CASE Create(r)
    <2>1. /\ Turns(r, "start", run[r].prev, run[r].recreate, run[r].plan) /\ Keeps(r)
          /\ run[r].at = "create" /\ Works(r)
          /\ cont' = [cont EXCEPT ![New(r)] = "created"]
      BY <1>0, <1>2, GoesFacts DEF Create, Points
    <2>2. New(r)' = New(r) /\ \A x \in Containers : x # New(r) => Exists(x)' = Exists(x)
      BY <1>0, <2>1 DEF Exists, TypeOK, New, Turns
    <2>3. Cleans(r) => Cleans(r)'
      BY <2>1, <2>2 DEF Cleans, Turns
    <2> QED
      BY <2>1, <2>3, GoesOn DEF Alive, Works
  <1>3. CASE Start(r) /\ run[r].plan = "blueGreen"
    <2>1. /\ Turns(r, "await", run[r].prev, run[r].recreate, run[r].plan) /\ Keeps(r)
          /\ run[r].at = "start" /\ Works(r)
          /\ cont' = [cont EXCEPT ![New(r)] = "starting"]
      BY <1>0, <1>3, GoesFacts DEF Start, Points
    <2>2. New(r)' = New(r) /\ \A x \in Containers : x # New(r) => Exists(x)' = Exists(x)
      BY <1>0, <2>1 DEF Exists, TypeOK, New, Turns
    <2>3. Cleans(r) => Cleans(r)'
      BY <2>1, <2>2 DEF Cleans, Turns
    <2> QED
      BY <2>1, <2>3, GoesOn DEF Alive, Works
  <1>4. CASE Start(r) /\ run[r].plan # "blueGreen"
    <2>1. /\ Turns(r, "ended", {}, run[r].recreate, run[r].plan)
          /\ run[r].at = "start" /\ Works(r)
      BY <1>0, <1>4, EndsFacts DEF Start
    <2> QED
      BY <2>1, OwnStep DEF Alive, Works, Turns
  <1>5. CASE BecomesReady(r)
    <2>1. /\ Turns(r, "handover", run[r].prev, run[r].recreate, run[r].plan) /\ Keeps(r)
          /\ run[r].at = "await" /\ Works(r) /\ cont' = cont
      BY <1>0, <1>5, GoesFacts DEF BecomesReady, Points
    <2>2. New(r)' = New(r)
      BY <2>1 DEF New, Turns
    <2>3. Cleans(r) => Cleans(r)'
      BY <2>1, <2>2 DEF Cleans, Exists, Turns
    <2> QED
      BY <2>1, <2>3, GoesOn DEF Alive, Works
  <1> QED
    BY <1>1, <1>2, <1>3, <1>4, <1>5

\* Containers do not appear or vanish on their own.
LEMMA ContainerCleans ==
    ASSUME ServingInv, CleaningInv, NEW c \in Containers,
           ComesUp(c) \/ \E state \in {"unhealthy", "exited"} : Breaks(c, state)
    PROVE  CleaningInv'
  <1>1. UNCHANGED <<run, errors, overlaps>>
    BY DEF ComesUp, Breaks
  <1>2. \A x \in Containers : Exists(x)' = Exists(x)
    BY DEF ComesUp, Breaks, Running, Exists, ServingInv, TypeOK
  <1>3. \A r \in Runs : Cleans(r) => Cleans(r)'
    BY <1>1, <1>2 DEF Cleans, New
  <1> QED
    BY <1>1, <1>3 DEF CleaningInv, Alive

LEMMA InitCleaning ==
    Init => CleaningInv
  <1> SUFFICES ASSUME Init
               PROVE  CleaningInv
    OBVIOUS
  <1>1. \A r \in Runs : run[r].at = "idle"
    BY DEF Init
  <1> QED
    BY <1>1 DEF CleaningInv, Alive

LEMMA NextCleaning ==
    ServingInv /\ CleaningInv /\ [Next]_vars => CleaningInv'
  <1>1. ASSUME CleaningInv, UNCHANGED vars
        PROVE  CleaningInv'
    BY <1>1 DEF vars, CleaningInv, Alive, Cleans, Exists, New
  <1>2. ASSUME ServingInv, CleaningInv, NEW r \in Runs, Step(r)
        PROVE  CleaningInv'
    BY <1>2, PlainStepCleans, ListCleans, ProgressCleans, RemoveCleans DEF Step
  <1>3. ASSUME ServingInv, CleaningInv, Next
        PROVE  CleaningInv'
    BY <1>2, <1>3, ContainerCleans DEF Next
  <1> QED
    BY <1>1, <1>3

\* Without overlaps, the one execution alive has still to remove every container
\* but its own, unless it is cancelled or a call has failed.
THEOREM CleaningInvariant == Spec => []CleaningInv
  BY InitServing, NextServing, InitCleaning, NextCleaning, PTL DEF Spec

\* A step with which an execution succeeds leaves only its container.
LEMMA SuccessStep ==
    ASSUME ServingInv, CleaningInv, NEW r \in Runs, NEW s \in Runs, Step(s),
           run[r].result # "ok", run'[r].result = "ok", ~run[r].cancelled,
           errors' = 0, overlaps' = 0, NEW c \in Containers, Exists(c)'
    PROVE  c = New(r)
  <1>0. TypeOK /\ Shape(s) /\ New(s) \in Containers
    BY NewFacts DEF ServingInv
  <1>1. CASE Start(s) /\ run[s].plan # "blueGreen"
    <2>1. /\ Turns(s, "ended", {}, run[s].recreate, run[s].plan)
          /\ run[s].at = "start" /\ Works(s)
          /\ cont' = [cont EXCEPT ![New(s)] = "starting"]
      BY <1>0, <1>1, EndsFacts DEF Start
    <2>2. r = s
      BY <2>1 DEF Turns
    <2>3. Cleans(s) /\ run[s].prev = {}
      BY <1>0, <1>1, <2>1, <2>2, PlanFacts DEF CleaningInv, Alive, Works, Cleans, Shape
    <2>4. c # New(s) => Exists(c)
      BY <1>0, <2>1 DEF Exists, TypeOK
    <2> QED
      BY <2>2, <2>3, <2>4 DEF Cleans
  <1>2. CASE HandedOver(s)
    <2>1. /\ Turns(s, "ended", {}, run[s].recreate, run[s].plan)
          /\ run[s].at = "handover" /\ run[s].prev = {} /\ UNCHANGED <<cont, errors, overlaps>>
      BY <1>0, <1>2, EndsFacts DEF HandedOver
    <2>2. r = s
      BY <2>1 DEF Turns
    <2>3. Cleans(s) /\ Exists(c)
      BY <2>1, <2>2 DEF CleaningInv, Alive, Exists
    <2> QED
      BY <2>1, <2>2, <2>3 DEF Cleans
  <1>3. CASE ~HandedOver(s) /\ (Start(s) => run[s].plan = "blueGreen")
    <2>1. \/ \E point \in Points : Goes(s, point)
          \/ Cancel(s) \/ Retries(s) \/ Ends(s, "error") \/ Ends(s, "rollout-failed")
          \/ List(s) \/ \E x \in Containers : RemovePrevious(s, x)
      BY <1>3 DEF Step, Begin, Cleared, Create, Start, StartFails, CallFails, BecomesReady,
                  Discard, AwaitFails, Points
    <2>2. List(s) => Keeps(s) /\ \A p \in Runs \ {s} : run'[p] = run[p]
      <3> SUFFICES ASSUME List(s)
                   PROVE  Keeps(s) /\ \A p \in Runs \ {s} : run'[p] = run[p]
        OBVIOUS
      <3>1. PICK previous \in SUBSET Containers, plan \in {"blueGreen", "stopFirst"} :
               Lists(s, previous, plan)
        BY DEF List
      <3> QED
        BY <1>0, <3>1, ListsFacts DEF Turns
    <2>3. \A p \in Runs \ {s} : run'[p] = run[p]
      BY <1>0, <2>1, <2>2, GoesFacts, CancelFacts, RetriesFacts, EndsFacts, RemovesFacts
         DEF Turns
    <2>4. run'[s].result \in {run[s].result, "error", "rollout-failed"}
      BY <1>0, <2>1, <2>2, GoesFacts, CancelFacts, RetriesFacts, EndsFacts, RemovesFacts
         DEF Keeps
    <2> QED
      BY <2>3, <2>4
  <1> QED
    BY <1>1, <1>2, <1>3

\* startContainer returns without an error only when the containers it listed
\* are gone, so that its own is the only one of the service.
THEOREM SuccessLeavesOwnContainer == Spec => SuccessLeavesOne
  <1> DEFINE Leaves ==
        \A r \in Runs :
            ( /\ run[r].result # "ok" /\ run'[r].result = "ok"
              /\ ~run[r].cancelled /\ errors' = 0 /\ overlaps' = 0 )
            => \A c \in Containers : Exists(c)' => c = New(r)
  <1>1. ASSUME ServingInv, CleaningInv, [Next]_vars
        PROVE  [Leaves]_vars
    <2> SUFFICES ASSUME Next
                 PROVE  Leaves
      BY <1>1
    <2>1. CASE \E s \in Runs : Step(s)
      BY <1>1, <2>1, SuccessStep
    <2>2. CASE run' = run
      BY <2>2
    <2> QED
      BY <2>1, <2>2 DEF Next, ComesUp, Breaks
  <1>2. Spec => [][Leaves]_vars
    BY <1>1, ServingInvariant, CleaningInvariant, PTL DEF Spec
  <1> QED
    BY <1>2 DEF SuccessLeavesOne

=============================================================================
