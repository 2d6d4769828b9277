--------------------------- MODULE RevisionsProofs ---------------------------
(***************************************************************************)
(* Proofs about Revisions for every set of deployments and of images, and  *)
(* for any limits and any number of restarts, refused writes, cancels,      *)
(* stops and failed inspections.                                           *)
(***************************************************************************)
EXTENDS Revisions, FiniteSetTheorems, TLAPS

-----------------------------------------------------------------------------
(* Sets of numbers, and the counting of faults.                            *)

\* A bounded set of numbers that is not empty has a maximum.
LEMMA MaximumExists ==
    ASSUME NEW C, C \subseteq Nat, C # {}, NEW n \in Nat, \A c \in C : c <= n
    PROVE  \E c \in C : \A f \in C : f <= c
  <1> DEFINE Less == OpToRel(<, Nat)
             Upper == {u \in Nat : \A c \in C : c <= u}
  <1>1. \A x, y \in Nat : <<x, y>> \in Less <=> x < y
    BY DEF OpToRel
  <1>2. IsWellFoundedOn(Less, Nat)
    BY NatLessThanWellFounded, Zenon
  <1> HIDE DEF Less
  <1>3. Upper \subseteq Nat /\ Upper # {}
    OBVIOUS
  <1>4. PICK u \in Upper : \A v \in Upper : ~(<<v, u>> \in Less)
    <2> HIDE DEF Upper
    <2> QED
      BY <1>2, <1>3, WFMin
  <1>5. \A v \in Upper : ~(v < u)
    BY <1>1, <1>3, <1>4
  <1>6. u \in C
    <2> SUFFICES ASSUME u \notin C
                 PROVE  FALSE
      OBVIOUS
    <2>1. PICK c \in C : TRUE
      OBVIOUS
    <2>2. u - 1 \in Nat
      BY <2>1
    <2>3. \A f \in C : f <= u - 1
      OBVIOUS
    <2> QED
      BY <1>5, <2>2, <2>3
  <1> QED
    BY <1>6

\* A set of deployments that is not empty has an oldest.
LEMMA OldestFacts ==
    ASSUME NEW C, C \subseteq Deps, C # {}
    PROVE  Oldest(C) \in C /\ \A y \in C : Oldest(C) <= y
  <1> DEFINE Less == OpToRel(<, Nat)
  <1>1. \A x, y \in Nat : <<x, y>> \in Less <=> x < y
    BY DEF OpToRel
  <1>2. IsWellFoundedOn(Less, Nat)
    BY NatLessThanWellFounded, Zenon
  <1> HIDE DEF Less
  <1>3. C \subseteq Nat
    BY DepsAssumption
  <1>4. PICK c \in C : \A y \in C : ~(<<y, c>> \in Less)
    BY <1>2, <1>3, WFMin
  <1>5. \A y \in C : c <= y
    <2> TAKE y \in C
    <2>1. y \in Nat /\ c \in Nat /\ ~(y < c)
      BY <1>1, <1>3, <1>4
    <2> QED
      BY <2>1
  <1> QED
    BY <1>5 DEF Oldest

\* Spending counts one fault, and no other.
LEMMA SpendFacts ==
    ASSUME TypeOK, NEW f \in FaultKinds, Spend(f)
    PROVE  /\ spent' \in [FaultKinds -> Nat]
           /\ \A g \in FaultKinds : spent'[g] = IF g = f THEN spent[g] + 1 ELSE spent[g]
  BY DEF TypeOK, Spend

\* Only an execution counts a failed inspection.
LEMMA InspectKept ==
    ASSUME TypeOK, NEW f \in FaultKinds \ {"inspect"}, Spend(f)
    PROVE  spent'["inspect"] = spent["inspect"]
  BY SpendFacts DEF FaultKinds

-----------------------------------------------------------------------------
(* The rows.                                                               *)

\* What a step makes of the row of d; the others stay as they are.
Row(d, status, health, image, of, cause) ==
    /\ dep' \in [Deps -> Rows]
    /\ \A e \in Deps \ {d} : dep'[e] = dep[e]
    /\ dep'[d].status = status /\ dep'[d].health = health /\ dep'[d].image = image
    /\ dep'[d].of = of /\ dep'[d].cause = cause

LEMMA Replaced ==
    ASSUME TypeOK, NEW d \in Deps, NEW y \in Rows, dep' = [dep EXCEPT ![d] = y]
    PROVE  /\ dep' \in [Deps -> Rows] /\ dep'[d] = y
           /\ \A e \in Deps \ {d} : dep'[e] = dep[e]
  BY DEF TypeOK

\* A new status.
LEMMA StatusFacts ==
    ASSUME TypeOK, NEW d \in Deps,
           NEW status \in {"running", "stopped", "failed", "pending", "pulling"},
           dep' = [dep EXCEPT ![d].status = status]
    PROVE  Row(d, status, dep[d].health, dep[d].image, dep[d].of, dep[d].cause)
  <1> DEFINE y == [dep[d] EXCEPT !.status = status]
  <1>1. dep[d] \in Rows /\ status \in {"absent", "running", "stopped", "failed"}
                                        \cup InFlightStatuses
    BY DEF TypeOK, InFlightStatuses
  <1>2. /\ y \in Rows /\ y.status = status /\ y.health = dep[d].health
        /\ y.image = dep[d].image /\ y.of = dep[d].of /\ y.cause = dep[d].cause
    BY <1>1, Zenon DEF Rows
  <1>3. dep' = [dep EXCEPT ![d] = y]
    BY Zenon
  <1> HIDE DEF y
  <1> QED
    BY <1>2, <1>3, Replaced DEF Row

\* A new health.
LEMMA HealthFacts ==
    ASSUME TypeOK, NEW d \in Deps, NEW health \in {"none", "healthy", "unhealthy", "rolled_back"},
           SettleHealth(d, health)
    PROVE  Row(d, dep[d].status, IF dep[d].health = "watching" THEN health ELSE dep[d].health,
               dep[d].image, dep[d].of, dep[d].cause)
  <1> DEFINE y == [dep[d] EXCEPT !.health = health]
  <1>1. dep[d] \in Rows /\ health \in {"none"} \cup LiveHealth \cup BadHealth
    BY DEF TypeOK, LiveHealth, BadHealth
  <1>2. /\ y \in Rows /\ y.status = dep[d].status /\ y.health = health
        /\ y.image = dep[d].image /\ y.of = dep[d].of /\ y.cause = dep[d].cause
    BY <1>1, Zenon DEF Rows
  <1>3. dep[d].health = "watching" => dep' = [dep EXCEPT ![d] = y]
    BY Zenon DEF SettleHealth
  <1>4. dep[d].health # "watching" => dep' = dep
    BY Zenon DEF SettleHealth
  <1> HIDE DEF y
  <1>5. CASE dep[d].health = "watching"
    BY <1>2, <1>3, <1>5, Replaced DEF Row
  <1>6. CASE dep[d].health # "watching"
    BY <1>4, <1>6 DEF Row, TypeOK
  <1> QED
    BY <1>5, <1>6

\* The row of a new deployment.
LEMMA CreateFacts ==
    ASSUME TypeOK, NEW d \in Deps, NEW of \in Deps \cup {None}, NEW cause \in Deps \cup {None},
           Create(d, of, cause)
    PROVE  /\ Row(d, "pending", dep[d].health, dep[d].image, of, cause)
           /\ d \notin Created /\ \A e \in Created : e < d
           /\ pc' \in [Deps -> Points] /\ pc'[d] = "created"
           /\ \A e \in Deps \ {d} : pc'[e] = pc[e]
  <1> DEFINE y == [dep[d] EXCEPT !.status = "pending", !.of = of, !.cause = cause]
  <1>1. dep[d] \in Rows /\ "pending" \in {"absent", "running", "stopped", "failed"}
                                            \cup InFlightStatuses
    BY DEF TypeOK, InFlightStatuses
  <1>2. /\ y \in Rows /\ y.status = "pending" /\ y.health = dep[d].health
        /\ y.image = dep[d].image /\ y.of = of /\ y.cause = cause
    BY <1>1, Zenon DEF Rows
  <1>3. /\ dep' = [dep EXCEPT ![d] = y] /\ pc' = [pc EXCEPT ![d] = "created"]
        /\ \A e \in Deps : (e < d) <=> (e \in Created)
    BY Zenon DEF Create
  <1> HIDE DEF y
  <1>4. Row(d, "pending", dep[d].health, dep[d].image, of, cause)
    BY <1>2, <1>3, Replaced DEF Row
  <1>5. d \notin Created /\ \A e \in Created : e < d
    BY <1>3, DepsAssumption DEF Created
  <1> QED
    BY <1>3, <1>4, <1>5 DEF TypeOK, Points

\* The row of a deployment that goes live.
LEMMA RecordFacts ==
    ASSUME TypeOK, NEW d \in Deps, RecordRow(d)
    PROVE  Row(d, "running", "watching", out[d].image, dep[d].of, dep[d].cause)
  <1> DEFINE i == out[d].image
             y == [dep[d] EXCEPT !.status = "running", !.health = "watching", !.image = i]
  <1>1. /\ dep[d] \in Rows /\ i \in Images \cup {None}
        /\ "watching" \in {"none"} \cup LiveHealth \cup BadHealth
        /\ "running" \in {"absent", "running", "stopped", "failed"} \cup InFlightStatuses
    BY DEF TypeOK, Outcomes, LiveHealth
  <1>2. dep' = [dep EXCEPT ![d] = y]
    BY Zenon DEF RecordRow
  <1> HIDE DEF i
  <1>3. /\ y \in Rows /\ y.status = "running" /\ y.health = "watching"
        /\ y.image = i /\ y.of = dep[d].of /\ y.cause = dep[d].cause
    BY <1>1, Zenon DEF Rows
  <1> HIDE DEF y
  <1>4. Row(d, "running", "watching", i, dep[d].of, dep[d].cause)
    BY <1>2, <1>3, Replaced DEF Row
  <1> QED
    BY <1>4 DEF i

\* The health of the other rows, when it was live.
LEMMA ClearFacts ==
    ASSUME TypeOK, NEW d \in Deps, ClearSupersededHealth(d)
    PROVE  /\ dep' \in [Deps -> Rows]
           /\ \A e \in Deps :
                 /\ dep'[e].status = dep[e].status /\ dep'[e].image = dep[e].image
                 /\ dep'[e].of = dep[e].of /\ dep'[e].cause = dep[e].cause
                 /\ dep'[e].health = IF e # d /\ dep[e].health \in LiveHealth
                                     THEN "none" ELSE dep[e].health
  <1> DEFINE y(e) == [dep[e] EXCEPT !.health = "none"]
  <1>1. ASSUME NEW e \in Deps
        PROVE  /\ y(e) \in Rows /\ y(e).status = dep[e].status /\ y(e).health = "none"
               /\ y(e).image = dep[e].image /\ y(e).of = dep[e].of
               /\ y(e).cause = dep[e].cause
    <2>1. dep[e] \in Rows /\ "none" \in {"none"} \cup LiveHealth \cup BadHealth
      BY DEF TypeOK
    <2> QED
      BY <2>1, Zenon DEF Rows
  <1>2. dep' = [e \in Deps |-> IF e # d /\ dep[e].health \in LiveHealth
                              THEN y(e) ELSE dep[e]]
    BY Zenon DEF ClearSupersededHealth
  <1> HIDE DEF y
  <1> QED
    BY <1>1, <1>2 DEF TypeOK

-----------------------------------------------------------------------------
(* The watches.                                                            *)

WatchRecords == [at : WatchPoints, workload : Deps \cup {None}, target : Deps \cup {None}]

\* What a step makes of the watch of d; the others stay as they are.
Watch(d, at, target) ==
    /\ watch' \in [Deps -> WatchRecords]
    /\ \A e \in Deps \ {d} : watch'[e] = watch[e]
    /\ watch'[d].at = at /\ watch'[d].target = target

LEMMA WatchReplaced ==
    ASSUME TypeOK, NEW d \in Deps, NEW y \in WatchRecords, watch' = [watch EXCEPT ![d] = y]
    PROVE  Watch(d, y.at, y.target)
  BY DEF TypeOK, Watch, WatchRecords

LEMMA AtFacts ==
    ASSUME TypeOK, NEW d \in Deps, NEW point \in WatchPoints, At(d, point)
    PROVE  Watch(d, point, watch[d].target)
  <1> DEFINE y == [watch[d] EXCEPT !.at = point]
  <1>1. watch[d] \in WatchRecords
    BY DEF TypeOK, WatchRecords
  <1>2. y \in WatchRecords /\ y.at = point /\ y.target = watch[d].target
    BY <1>1, Zenon DEF WatchRecords
  <1>3. watch' = [watch EXCEPT ![d] = y]
    BY Zenon DEF At
  <1> HIDE DEF y
  <1> QED
    BY <1>2, <1>3, WatchReplaced

LEMMA EndsFacts ==
    ASSUME TypeOK, NEW d \in Deps, Ends(d)
    PROVE  Watch(d, "off", None)
  <1>1. Off \in WatchRecords /\ Off.at = "off" /\ Off.target = None
    BY DEF Off, WatchRecords, WatchPoints
  <1> HIDE DEF Off
  <1> QED
    BY <1>1, WatchReplaced DEF Ends

LEMMA BeginFacts ==
    ASSUME TypeOK, NEW d \in Deps, Begin(d)
    PROVE  Watch(d, "poll", watch[d].target)
  <1> DEFINE w == svc.workload
             y == [watch[d] EXCEPT !.at = "poll", !.workload = w]
  <1>1. /\ watch[d] \in WatchRecords /\ "poll" \in WatchPoints /\ w \in Deps \cup {None}
    BY DEF TypeOK, WatchRecords, WatchPoints
  <1>2. watch' = [watch EXCEPT ![d] = y]
    BY Zenon DEF Begin
  <1> HIDE DEF w
  <1>3. y \in WatchRecords /\ y.at = "poll" /\ y.target = watch[d].target
    BY <1>1, Zenon DEF WatchRecords
  <1> HIDE DEF y
  <1> QED
    BY <1>2, <1>3, WatchReplaced

\* A watch starts.
LEMMA StartsFacts ==
    ASSUME TypeOK, NEW d \in Deps, watch' = [watch EXCEPT ![d] = [Off EXCEPT !.at = "start"]]
    PROVE  Watch(d, "start", None)
  <1> DEFINE y == [Off EXCEPT !.at = "start"]
  <1>1. y \in WatchRecords /\ y.at = "start" /\ y.target = None
    BY DEF Off, WatchRecords, WatchPoints
  <1> HIDE DEF y
  <1> QED
    BY <1>1, WatchReplaced DEF y

-----------------------------------------------------------------------------
(* The target of a rollback.                                               *)

\* Fields of a row.
LEMMA RowTypes ==
    ASSUME TypeOK, NEW d \in Deps
    PROVE  /\ dep[d].of \in Deps \cup {None} /\ dep[d].cause \in Deps \cup {None}
           /\ dep[d].image \in Images \cup {None} /\ watch[d].target \in Deps \cup {None}
           /\ dep[d].health \in {"none", "watching", "healthy", "unhealthy", "rolled_back"}
           /\ watch[d].at \in WatchPoints
  BY DEF TypeOK, Rows, LiveHealth, BadHealth

\* A chain starts at its deployment and is part of every set closed under redeploys.
LEMMA ChainFacts ==
    ASSUME NEW rows, NEW e \in Deps, NEW S \in SUBSET Deps, e \in S,
           \A y \in S : dep[y].of \in rows => dep[y].of \in S
    PROVE  e \in Chain(rows, e) /\ Chain(rows, e) \subseteq S
  BY DEF Chain

\* A redeploy of a revision is newer and, unless an inspection failed, has its image.
LEMMA LinkFacts ==
    ASSUME RevisionsInv, NEW y \in Deps, dep[y].of # None
    PROVE  /\ dep[y].of \in Deps /\ dep[y].of < y /\ IsRevision(dep[y].of)
           /\ IsRevision(y) /\ spent["inspect"] = 0
                 => dep[dep[y].of].image = dep[y].image
  <1>0. TypeOK /\ RollbacksChangeTheImage /\ Imaged(y) /\ RunsTarget(y)
    BY DEF RevisionsInv
  <1>1. dep[y].of \in Deps /\ dep[y].of < y /\ IsRevision(dep[y].of)
    BY <1>0, RowTypes DEF RollbacksChangeTheImage
  <1>2. IsRevision(y) => out[y].kind = "ok" /\ out[y].image = dep[y].image
    BY <1>0 DEF Imaged, IsRevision
  <1> QED
    BY <1>0, <1>1, <1>2 DEF RunsTarget

\* The root of a revision is one and, unless an inspection failed, has its image.
LEMMA RootFacts ==
    ASSUME RevisionsInv, NEW rows \in SUBSET Deps, NEW e \in Deps, IsRevision(e)
    PROVE  /\ RevisionRoot(rows, e) \in Chain(rows, e) /\ RevisionRoot(rows, e) \in Deps
           /\ \A y \in Chain(rows, e) : RevisionRoot(rows, e) <= y
           /\ IsRevision(RevisionRoot(rows, e))
           /\ spent["inspect"] = 0 => dep[RevisionRoot(rows, e)].image = dep[e].image
  <1> DEFINE S == {x \in Deps : /\ IsRevision(x)
                                /\ spent["inspect"] = 0 => dep[x].image = dep[e].image}
  <1>1. ASSUME NEW y \in S, dep[y].of \in rows
        PROVE  dep[y].of \in S
    <2>1. dep[y].of # None
      BY <1>1, NoneAssumption
    <2> QED
      BY <2>1, LinkFacts
  <1>2. e \in Chain(rows, e) /\ Chain(rows, e) \subseteq S
    <2>1. S \in SUBSET Deps /\ e \in S
      OBVIOUS
    <2> HIDE DEF S
    <2> QED
      BY <1>1, <2>1, ChainFacts
  <1>3. /\ Oldest(Chain(rows, e)) \in Chain(rows, e)
        /\ \A y \in Chain(rows, e) : Oldest(Chain(rows, e)) <= y
    <2>1. Chain(rows, e) \subseteq Deps
      BY <1>2
    <2> HIDE DEF S
    <2> QED
      BY <1>2, <2>1, OldestFacts
  <1> QED
    BY <1>2, <1>3 DEF RevisionRoot

\* The root a user's choice leads to is a deployment.
LEMMA UserRootFacts ==
    ASSUME RevisionsInv, NEW e \in Deps
    PROVE  Root(e) \in Deps
  <1> DEFINE S == {x \in Deps : x <= e}
             C == Chain(Deps, e)
             T == {x \in C : Cardinality({y \in C : y > x}) <= MaxRootDepth}
  <1>1. \A y \in S : dep[y].of \in Deps => dep[y].of \in S
    <2> SUFFICES ASSUME NEW y \in S, dep[y].of \in Deps
                 PROVE  dep[y].of <= e
      OBVIOUS
    <2>1. dep[y].of < y
      BY NoneAssumption, LinkFacts
    <2>2. dep[y].of \in Nat /\ y \in Nat /\ e \in Nat /\ y <= e
      BY DepsAssumption
    <2> QED
      BY <2>1, <2>2
  <1>2. S \in SUBSET Deps /\ e \in S
    BY DepsAssumption
  <1>3. e \in C /\ C \subseteq S
    <2> HIDE DEF S
    <2> QED
      BY <1>1, <1>2, ChainFacts
  <1> HIDE DEF C
  <1>4. {y \in C : y > e} = {}
    <2>1. e \in Nat /\ \A y \in C : y \in Nat /\ y <= e
      BY <1>3, DepsAssumption
    <2> QED
      BY <2>1
  <1>5. e \in T /\ T \subseteq Deps
    BY <1>3, <1>4, FS_EmptySet, LimitsAssumption
  <1>6. Root(e) = Oldest(T)
    BY DEF Root, C
  <1> HIDE DEF T
  <1> QED
    BY <1>5, <1>6, OldestFacts

\* The previous revision is one, with another image.
LEMMA PreviousFacts ==
    ASSUME TypeOK, NEW d \in Deps, PreviousRevision(d) # None
    PROVE  /\ PreviousRevision(d) \in Deps /\ IsRevision(PreviousRevision(d))
           /\ PreviousRevision(d) \in Listed
           /\ dep[PreviousRevision(d)].image # dep[d].image
  <1>1. Candidates(d) # {}
    BY DEF PreviousRevision
  <1>2. PreviousRevision(d) = CHOOSE e \in Candidates(d) : \A f \in Candidates(d) : f <= e
    BY <1>1 DEF PreviousRevision
  <1>3. /\ Candidates(d) \subseteq Nat /\ d \in Nat
        /\ \A e \in Candidates(d) : e <= d
    <2>1. \A e \in Candidates(d) : e \in Deps /\ e < d
      BY Zenon DEF Candidates, Listed
    <2>2. d \in Nat /\ \A e \in Candidates(d) : e \in Nat /\ e < d
      BY <2>1, DepsAssumption
    <2> HIDE DEF Candidates
    <2> QED
      BY <2>2
  <1>4. \E e \in Candidates(d) : \A f \in Candidates(d) : f <= e
    BY <1>1, <1>3, MaximumExists
  <1>5. PreviousRevision(d) \in Candidates(d)
    BY <1>2, <1>4
  <1> QED
    BY <1>1, <1>5 DEF Candidates, Listed

\* The target is a revision with another image, d no rollback.
LEMMA TargetFacts ==
    ASSUME RevisionsInv, NEW d \in Deps
    PROVE  /\ RollbackTarget(d) \in Deps \cup {None}
           /\ RollbackTarget(d) # None =>
                 /\ IsRevision(RollbackTarget(d)) /\ ~IsRollback(d)
                 /\ spent["inspect"] = 0 => dep[RollbackTarget(d)].image # dep[d].image
  <1>0. TypeOK
    BY DEF RevisionsInv
  <1>1. CASE IsRollback(d) \/ PreviousRevision(d) = None
    BY <1>1 DEF RollbackTarget
  <1>2. CASE ~IsRollback(d) /\ PreviousRevision(d) # None
    <2>1. RollbackTarget(d) = RevisionRoot(Listed, PreviousRevision(d))
      BY <1>2 DEF RollbackTarget
    <2>2. Listed \in SUBSET Deps
      BY DEF Listed
    <2> QED
      BY <1>0, <1>2, <2>1, <2>2, PreviousFacts, RootFacts
  <1> QED
    BY <1>1, <1>2

LEMMA ChooseFacts ==
    ASSUME RevisionsInv, NEW d \in Deps, ChooseTarget(d)
    PROVE  \E target \in {None, RollbackTarget(d)} : Watch(d, "settle", target)
  <1>0. TypeOK /\ RollbackTarget(d) \in Deps \cup {None}
    BY TargetFacts DEF RevisionsInv
  <1>1. PICK autoRollback \in BOOLEAN :
           watch' = [watch EXCEPT ![d] =
                        [@ EXCEPT !.at = "settle",
                                  !.target = IF autoRollback THEN RollbackTarget(d)
                                                             ELSE None]]
    BY Zenon DEF ChooseTarget
  <1> DEFINE t == IF autoRollback THEN RollbackTarget(d) ELSE None
             y == [watch[d] EXCEPT !.at = "settle", !.target = t]
  <1>2. /\ watch[d] \in WatchRecords /\ "settle" \in WatchPoints
        /\ t \in Deps \cup {None} /\ t \in {None, RollbackTarget(d)}
    BY <1>0 DEF TypeOK, WatchRecords, WatchPoints
  <1>3. watch' = [watch EXCEPT ![d] = y]
    BY <1>1, Zenon
  <1> HIDE DEF t
  <1>4. y \in WatchRecords /\ y.at = "settle" /\ y.target = t
    BY <1>2, Zenon DEF WatchRecords
  <1> HIDE DEF y
  <1>5. Watch(d, "settle", t)
    BY <1>0, <1>3, <1>4, WatchReplaced
  <1> QED
    BY <1>2, <1>5

-----------------------------------------------------------------------------
(* What every step keeps.                                                  *)

\* A row keeps whose rollback it is and, once it has one, its image.
Stays(x) ==
    /\ dep'[x].of = dep[x].of /\ dep'[x].cause = dep[x].cause
    /\ dep[x].image # None => dep'[x].image = dep[x].image /\ dep'[x].status = "running"
    /\ dep[x].status # "absent" => dep'[x].status # "absent"

LEMMA RollbacksKept ==
    ASSUME RevisionsInv, \A x \in Deps : Stays(x),
           spent'["inspect"] = 0 => spent["inspect"] = 0
    PROVE  RollbacksChangeTheImage'
  <1> SUFFICES ASSUME NEW e \in Deps, dep'[e].of # None
               PROVE  /\ dep'[e].of < e /\ dep'[dep'[e].of].image # None
                      /\ dep'[dep'[e].of].status \in {"running", "stopped"}
                      /\ dep'[e].cause # None =>
                            /\ dep'[dep'[e].cause].of = None
                            /\ spent'["inspect"] = 0 =>
                                 dep'[dep'[e].of].image # dep'[dep'[e].cause].image
    BY DEF RollbacksChangeTheImage, IsRevision, IsRollback
  <1> DEFINE t == dep[e].of
             c == dep[e].cause
  <1>1. dep'[e].of = t /\ dep'[e].cause = c
    BY DEF Stays
  <1>2. t \in Deps /\ c \in Deps \cup {None}
    BY <1>1, RowTypes DEF RevisionsInv
  <1>3. /\ t < e /\ IsRevision(t)
        /\ c # None => /\ dep[c].of = None
                       /\ spent["inspect"] = 0 => dep[t].image # dep[c].image
    BY <1>1 DEF RevisionsInv, RollbacksChangeTheImage, IsRollback
  <1>4. c # None => dep[c].image # None
    BY DEF RevisionsInv, CausedOnce
  <1> HIDE DEF t, c
  <1> QED
    BY <1>1, <1>2, <1>3, <1>4 DEF Stays, IsRevision, IsRollback

LEMMA TargetsKept ==
    ASSUME RevisionsInv, NEW d \in Deps, \A x \in Deps : Stays(x), watch'[d] = watch[d],
           spent'["inspect"] = 0 => spent["inspect"] = 0
    PROVE  Targets(d)'
  <1>1. Targets(d) /\ watch[d].target \in Deps \cup {None}
    BY RowTypes DEF RevisionsInv
  <1> QED
    BY <1>1 DEF Targets, Stays, IsRevision, IsRollback

LEMMA RunsTargetKept ==
    ASSUME RevisionsInv, NEW d \in Deps, \A x \in Deps : Stays(x), out'[d] = out[d],
           spent'["inspect"] = 0 => spent["inspect"] = 0
    PROVE  RunsTarget(d)'
  <1>1. RunsTarget(d) /\ dep[d].of \in Deps \cup {None}
    BY RowTypes DEF RevisionsInv
  <1>2. dep[d].of # None => dep[dep[d].of].image # None
    BY DEF RevisionsInv, RollbacksChangeTheImage, IsRevision
  <1> QED
    BY <1>1, <1>2 DEF RunsTarget, Stays

Undecided == {"off", "start", "poll", "stale"}

LEMMA CausedKept ==
    ASSUME RevisionsInv, \A x \in Deps : Stays(x),
           \A d \in Deps : (\E e \in Deps : dep[e].cause = d) => watch'[d].at \in Undecided
    PROVE  \A e \in Deps : CausedOnce(e)'
  <1> SUFFICES ASSUME NEW e \in Deps, dep'[e].cause # None
               PROVE  CausedOnce(e)'
    BY DEF CausedOnce
  <1> DEFINE d == dep[e].cause
  <1>1. dep'[e].cause = d
    BY DEF Stays
  <1>2. d \in Deps
    BY <1>1, RowTypes DEF RevisionsInv
  <1>3. /\ d < e /\ dep[d].image # None /\ dep[e].status # "absent"
        /\ \A f \in Deps : dep[f].cause = d => f = e
    BY <1>1 DEF RevisionsInv, CausedOnce
  <1>4. \A f \in Deps : dep'[f].cause = d => f = e
    BY <1>3 DEF Stays
  <1>5. dep'[d].image # None /\ dep'[e].status # "absent"
    BY <1>2, <1>3 DEF Stays
  <1>6. watch'[d].at \in Undecided
    BY <1>2
  <1> HIDE DEF d
  <1> QED
    BY <1>1, <1>3, <1>4, <1>5, <1>6 DEF CausedOnce, Undecided

\* A watch at a decision has caused nothing yet.
LEMMA NotCausedYet ==
    ASSUME RevisionsInv, NEW d \in Deps, watch[d].at \notin Undecided
    PROVE  \A e \in Deps : dep[e].cause # d
  BY NoneAssumption DEF RevisionsInv, CausedOnce, Undecided

\* The step of d leaves everything of the other deployments.
Others(d) == \A x \in Deps \ {d} : /\ dep'[x] = dep[x] /\ pc'[x] = pc[x]
                                   /\ job'[x] = job[x] /\ out'[x] = out[x]
                                   /\ watch'[x] = watch[x]

\* d does not become live, and stays apart from the live ones as it was.
LEMMA ApartKept ==
    ASSUME NEW d \in Deps, Others(d), Live(d)' => Live(d),
           Live(d)' /\ Unsettled(d) => Unsettled(d)',
           pc'[d] = "cleared" => pc[d] = "cleared",
           NEW e \in Deps \ {d}, LiveApart(d, e), LiveApart(e, d)
    PROVE  LiveApart(d, e)' /\ LiveApart(e, d)'
  <1>1. Live(e)' = Live(e) /\ Unsettled(e)' = Unsettled(e) /\ pc'[e] = pc[e]
    BY DEF Others, Live, Unsettled
  <1> HIDE DEF Live, Unsettled
  <1> QED
    BY <1>1 DEF LiveApart

\* One deployment takes a step.
LEMMA OneStep ==
    ASSUME RevisionsInv, TypeOK', NEW d \in Deps, Others(d), Stays(d),
           spent'["inspect"] = 0 => spent["inspect"] = 0,
           Flow(d)', Fresh(d)', Imaged(d)', RunsTarget(d)', Targets(d)',
           (\E e \in Deps : dep[e].cause = d) => watch'[d].at \in Undecided,
           spent'["error"] = 0 =>
               /\ spent["error"] = 0
               /\ pc'[d] = "failed" => ~Live(d)'
               /\ \A e \in Deps \ {d} : LiveApart(d, e)' /\ LiveApart(e, d)'
               /\ dep'[d].health = "watching"
                     => \/ watch'[d].at # "off" \/ Unsettled(d)'
                        \/ \E e \in Deps : dep[e].cause = d
    PROVE  RevisionsInv'
  <1>1. \A x \in Deps : Stays(x)
    <2>1. ASSUME NEW x \in Deps \ {d}
          PROVE  Stays(x)
      BY DEF Others, Stays, RevisionsInv, Imaged
    <2> QED
      BY <2>1
  <1>2. ASSUME NEW x \in Deps
        PROVE  /\ Flow(x)' /\ Fresh(x)' /\ Imaged(x)' /\ RunsTarget(x)' /\ Targets(x)'
    <2>1. CASE x = d
      BY <2>1
    <2>2. CASE x # d
      <3>1. /\ dep'[x] = dep[x] /\ pc'[x] = pc[x] /\ job'[x] = job[x]
            /\ out'[x] = out[x] /\ watch'[x] = watch[x]
        BY <2>2 DEF Others
      <3>2. Flow(x)' /\ Fresh(x)' /\ Imaged(x)'
        BY <3>1 DEF RevisionsInv, Flow, Fresh, Imaged
      <3> QED
        BY <1>1, <3>1, <3>2, RunsTargetKept, TargetsKept
    <2> QED
      BY <2>1, <2>2
  <1>3. \A e \in Deps : CausedOnce(e)'
    <2>1. ASSUME NEW x \in Deps, \E e \in Deps : dep[e].cause = x
          PROVE  watch'[x].at \in Undecided
      <3>1. watch[x].at \in Undecided
        BY <2>1, NotCausedYet
      <3> QED
        BY <2>1, <3>1 DEF Others
    <2> QED
      BY <1>1, <2>1, CausedKept
  <1>4. RollbacksChangeTheImage'
    BY <1>1, RollbacksKept
  <1>5. ASSUME spent'["error"] = 0, NEW x \in Deps
        PROVE  /\ pc'[x] = "failed" => ~Live(x)'
               /\ \A e \in Deps \ {x} : LiveApart(x, e)'
    <2>1. spent["error"] = 0
      BY <1>5
    <2>2. CASE x = d
      BY <1>5, <2>2
    <2>3. CASE x # d
      <3>1. pc'[x] = pc[x] /\ (Live(x)' <=> Live(x))
        BY <2>3 DEF Others, Live
      <3>2. pc'[x] = "failed" => ~Live(x)'
        BY <2>1, <3>1 DEF RevisionsInv
      <3>3. ASSUME NEW e \in Deps \ {x}
            PROVE  LiveApart(x, e)'
        <4>1. CASE e = d
          BY <1>5, <2>3, <4>1
        <4>2. CASE e # d
          BY <2>1, <2>3, <4>2 DEF RevisionsInv, LiveApart, Others, Live, Unsettled
        <4> QED
          BY <4>1, <4>2
      <3> QED
        BY <3>2, <3>3
    <2> QED
      BY <2>2, <2>3
  <1>6. NoForgottenWatch'
    <2>1. spent'["error"] \in Nat /\ spent["error"] \in Nat
      BY DEF RevisionsInv, TypeOK, FaultKinds
    <2> SUFFICES ASSUME NEW x \in Deps, dep'[x].health = "watching", spent'["error"] = 0
                 PROVE  \/ watch'[x].at # "off" \/ Unsettled(x)'
                        \/ \E e \in Deps : dep'[e].cause = x
      BY <2>1 DEF NoForgottenWatch, Unsettled
    <2>2. \A e \in Deps : dep'[e].cause = dep[e].cause
      BY <1>1 DEF Stays
    <2>3. CASE x = d
      BY <2>2, <2>3
    <2>4. CASE x # d
      <3>1. /\ dep[x].health = "watching" /\ watch'[x] = watch[x] /\ pc'[x] = pc[x]
            /\ job'[x] = job[x]
        BY <2>4 DEF Others
      <3>2. spent["error"] = 0
        OBVIOUS
      <3>3. pc[x] \in {"row", "cleared"} => job[x] \in {"finalizing", "cancelled"}
        BY DEF RevisionsInv, Flow
      <3> QED
        BY <2>1, <2>2, <3>1, <3>2, <3>3 DEF RevisionsInv, NoForgottenWatch, Unsettled
    <2> QED
      BY <2>3, <2>4
  <1> QED
    BY <1>2, <1>3, <1>4, <1>5, <1>6 DEF RevisionsInv

-----------------------------------------------------------------------------
(* Requests, promises and the worker.                                      *)

\* A step that goes on with the job of d; health, image and watch stay.
LEMMA JobStep ==
    ASSUME RevisionsInv, NEW d \in Deps, NEW status, NEW point \in Points, NEW j \in JobStates,
           Row(d, status, dep[d].health, dep[d].image, dep[d].of, dep[d].cause),
           pc' = [pc EXCEPT ![d] = point], job' = [job EXCEPT ![d] = j],
           out' \in [Deps -> Outcomes], \A x \in Deps \ {d} : out'[x] = out[x],
           watch' = watch, cancelling' \subseteq Deps,
           svc' \in [workload : Deps \cup {None}, desired : {"running", "stopped"}],
           spent' \in [FaultKinds -> Nat], spent'["error"] = 0 => spent["error"] = 0,
           spent'["inspect"] = 0 => spent["inspect"] = 0,
           dep[d].status # "absent", status # "absent",
           dep[d].image # None => status = "running",
           Flow(d)', Imaged(d)', RunsTarget(d)', point = "cleared" => pc[d] = "cleared",
           spent'["error"] = 0 /\ Live(d) =>
               /\ point # "failed"
               /\ job[d] \in {"executed", "finalizing", "cancelled"}
                     => j \in {"executed", "finalizing", "cancelled"}
    PROVE  RevisionsInv'
  <1>0. TypeOK
    BY DEF RevisionsInv
  <1>1. TypeOK'
    BY <1>0 DEF TypeOK, Row
  <1>2. Others(d) /\ pc'[d] = point /\ job'[d] = j /\ watch'[d] = watch[d]
    BY <1>0 DEF Others, Row, TypeOK
  <1>3. Stays(d) /\ Fresh(d)' /\ (Live(d)' <=> Live(d))
    BY DEF Stays, Fresh, Row, Live
  <1>4. Targets(d)'
    <2>1. \A x \in Deps \ {d} : Stays(x)
      BY <1>2 DEF Others, Stays, RevisionsInv, Imaged
    <2> QED
      BY <1>2, <1>3, <2>1, TargetsKept
  <1>5. (\E e \in Deps : dep[e].cause = d) => watch'[d].at \in Undecided
    BY <1>2, NotCausedYet
  <1>6. ASSUME spent'["error"] = 0
        PROVE  /\ spent["error"] = 0
               /\ pc'[d] = "failed" => ~Live(d)'
               /\ \A e \in Deps \ {d} : LiveApart(d, e)' /\ LiveApart(e, d)'
               /\ dep'[d].health = "watching"
                     => \/ watch'[d].at # "off" \/ Unsettled(d)'
                        \/ \E e \in Deps : dep[e].cause = d
    <2>1. spent["error"] = 0
      BY <1>6
    <2>2. pc'[d] = "failed" => ~Live(d)'
      BY <1>2, <1>3, <1>6
    <2>3. Live(d)' /\ Unsettled(d) => Unsettled(d)'
      BY <1>2, <1>3, <1>6 DEF Unsettled
    <2>4. ASSUME NEW e \in Deps \ {d}
          PROVE  LiveApart(d, e)' /\ LiveApart(e, d)'
      <3>1. LiveApart(d, e) /\ LiveApart(e, d)
        BY <2>1 DEF RevisionsInv
      <3> QED
        BY <1>2, <1>3, <2>3, <3>1, ApartKept
    <2>5. ASSUME dep'[d].health = "watching"
          PROVE  \/ watch'[d].at # "off" \/ Unsettled(d)'
                 \/ \E e \in Deps : dep[e].cause = d
      <3>1. dep[d].health = "watching" /\ Live(d)'
        BY <1>3, <2>5 DEF Row, Live, LiveHealth
      <3>2. pc[d] \in {"row", "cleared"} => Unsettled(d)
        BY DEF RevisionsInv, Flow, Unsettled
      <3> QED
        BY <1>2, <2>1, <2>3, <3>1, <3>2 DEF RevisionsInv, NoForgottenWatch, Unsettled
    <2> QED
      BY <2>1, <2>2, <2>4, <2>5
  <1> QED
    BY <1>1, <1>2, <1>3, <1>4, <1>5, <1>6, OneStep

\* The facts that the steps below use of d.
LEMMA Own ==
    ASSUME RevisionsInv, NEW d \in Deps
    PROVE  /\ TypeOK /\ Flow(d) /\ Fresh(d) /\ Imaged(d) /\ RunsTarget(d)
           /\ pc \in [Deps -> Points] /\ job \in [Deps -> JobStates]
           /\ pc[d] \in Points /\ job[d] \in JobStates
           /\ cancelling \subseteq Deps /\ spent \in [FaultKinds -> Nat]
           /\ svc \in [workload : Deps \cup {None}, desired : {"running", "stopped"}]
  BY DEF RevisionsInv, TypeOK

LEMMA SameRow ==
    ASSUME TypeOK, NEW d \in Deps, dep' = dep
    PROVE  Row(d, dep[d].status, dep[d].health, dep[d].image, dep[d].of, dep[d].cause)
  BY DEF Row, TypeOK

\* Neither health nor outcome changes: what is left to show of d.
LEMMA PlainStep ==
    ASSUME RevisionsInv, NEW d \in Deps, NEW status, NEW point \in Points, NEW j \in JobStates,
           Row(d, status, dep[d].health, dep[d].image, dep[d].of, dep[d].cause),
           pc' = [pc EXCEPT ![d] = point], job' = [job EXCEPT ![d] = j],
           out' = out, watch' = watch, cancelling' \subseteq Deps,
           svc' \in [workload : Deps \cup {None}, desired : {"running", "stopped"}],
           spent' \in [FaultKinds -> Nat], spent'["error"] = 0 => spent["error"] = 0,
           spent'["inspect"] = 0 => spent["inspect"] = 0,
           dep[d].status # "absent", status # "absent",
           dep[d].image # None => status = "running",
           Flow(d)', Imaged(d)', point = "cleared" => pc[d] = "cleared",
           spent'["error"] = 0 /\ Live(d) =>
               /\ point # "failed"
               /\ job[d] \in {"executed", "finalizing", "cancelled"}
                     => j \in {"executed", "finalizing", "cancelled"}
    PROVE  RevisionsInv'
  <1>1. \A x \in Deps : Stays(x)
    BY DEF Stays, Row, RevisionsInv, Imaged
  <1>2. RunsTarget(d)'
    BY <1>1, RunsTargetKept
  <1>3. out \in [Deps -> Outcomes]
    BY DEF RevisionsInv, TypeOK
  <1> QED
    BY <1>2, <1>3, JobStep

\* The job is enqueued, or joins another.
LEMMA EnqueueStep ==
    ASSUME RevisionsInv, NEW d \in Deps, EnqueueJob(d)
    PROVE  RevisionsInv'
  <1>0. /\ TypeOK /\ Flow(d) /\ Fresh(d) /\ Imaged(d) /\ job \in [Deps -> JobStates]
        /\ pc \in [Deps -> Points]
    BY Own
  <1>1. /\ UNCHANGED <<dep, out, cancelling, svc, watch, spent>> /\ pc[d] = "created"
    BY DEF EnqueueJob
  <1>2. PICK point \in {"idle", "coalesced"}, j \in {"queued", "none"} :
           /\ pc' = [pc EXCEPT ![d] = point] /\ job' = [job EXCEPT ![d] = j]
           /\ point = "coalesced" => j = "none"
    BY <1>0, <1>1 DEF EnqueueJob, Flow
  <1>3. pc'[d] = point /\ job'[d] = j /\ point \in Points /\ j \in JobStates
    BY <1>0, <1>2 DEF Points, JobStates
  <1>4. dep[d].image = None /\ dep[d].status # "absent"
    BY <1>0, <1>1 DEF Flow, Imaged, Fresh
  <1>5. Flow(d)' /\ Imaged(d)' /\ ~Live(d)
    BY <1>0, <1>1, <1>2, <1>3, <1>4 DEF Flow, Imaged, Live, LiveHealth
  <1> QED
    BY <1>0, <1>1, <1>2, <1>3, <1>4, <1>5, Own, SameRow, PlainStep

\* A request that has joined another closes its row.
LEMMA CloseCoalescedStep ==
    ASSUME RevisionsInv, NEW d \in Deps, CloseCoalesced(d)
    PROVE  RevisionsInv'
  <1>0. /\ TypeOK /\ Flow(d) /\ Fresh(d) /\ Imaged(d) /\ job \in [Deps -> JobStates]
        /\ pc \in [Deps -> Points] /\ job[d] \in JobStates
    BY Own
  <1>1. /\ UNCHANGED <<job, out, cancelling, svc, watch, spent>> /\ pc[d] = "coalesced"
        /\ pc' = [pc EXCEPT ![d] = "idle"]
        /\ dep' = [dep EXCEPT ![d].status = "stopped"]
    BY Zenon DEF CloseCoalesced
  <1>2. Row(d, "stopped", dep[d].health, dep[d].image, dep[d].of, dep[d].cause)
    BY <1>0, <1>1, StatusFacts
  <1>3. pc'[d] = "idle" /\ job' = [job EXCEPT ![d] = job[d]] /\ "idle" \in Points
    BY <1>0, <1>1 DEF Points
  <1>4. dep[d].image = None /\ dep[d].status # "absent"
    BY <1>0, <1>1 DEF Flow, Imaged, Fresh
  <1>5. Flow(d)' /\ Imaged(d)' /\ ~Live(d)
    BY <1>0, <1>1, <1>2, <1>3, <1>4 DEF Flow, Imaged, Live, LiveHealth, Row
  <1> QED
    BY <1>0, <1>1, <1>2, <1>3, <1>4, <1>5, Own, PlainStep

\* The job worker claims a queued job, or an executed one.
LEMMA ClaimStep ==
    ASSUME RevisionsInv, NEW d \in Deps, Claim(d) \/ ClaimFinalize(d)
    PROVE  RevisionsInv'
  <1>0. /\ TypeOK /\ Flow(d) /\ Fresh(d) /\ Imaged(d) /\ job \in [Deps -> JobStates]
        /\ pc \in [Deps -> Points]
    BY Own
  <1>1. /\ UNCHANGED <<dep, out, cancelling, svc, watch, spent>>
        /\ \/ /\ job[d] = "queued" /\ job' = [job EXCEPT ![d] = "run"]
              /\ pc' = [pc EXCEPT ![d] = "gates"]
           \/ /\ job[d] = "executed" /\ pc[d] = "idle"
              /\ job' = [job EXCEPT ![d] = "finalizing"]
              /\ pc' = [pc EXCEPT ![d] = "finalize"]
    BY DEF Claim, ClaimFinalize
  <1>2. PICK point \in {"gates", "finalize"}, j \in {"run", "finalizing"} :
           /\ pc' = [pc EXCEPT ![d] = point] /\ job' = [job EXCEPT ![d] = j]
           /\ \/ point = "gates" /\ j = "run" /\ job[d] = "queued"
              \/ point = "finalize" /\ j = "finalizing" /\ job[d] = "executed"
    BY <1>1
  <1>3. pc'[d] = point /\ job'[d] = j /\ point \in Points /\ j \in JobStates
    BY <1>0, <1>2 DEF Points, JobStates
  <1>4. /\ dep[d].status # "absent" /\ (dep[d].image # None => dep[d].status = "running")
        /\ job[d] = "queued" => dep[d].image = None
    BY <1>0, <1>2 DEF Imaged, Fresh
  <1>5. Flow(d)' /\ Imaged(d)' /\ (Live(d) => dep[d].image # None)
    BY <1>0, <1>1, <1>2, <1>3, <1>4 DEF Flow, Imaged, Live, LiveHealth
  <1> QED
    BY <1>0, <1>1, <1>2, <1>3, <1>4, <1>5, Own, SameRow, PlainStep

\* prepareWorkerDeploy: the row is marked pulling, or failed.
LEMMA PrepareStep ==
    ASSUME RevisionsInv, NEW d \in Deps, Start(d) \/ PrepareFails(d)
    PROVE  RevisionsInv'
  <1>0. /\ TypeOK /\ Flow(d) /\ Fresh(d) /\ Imaged(d) /\ job \in [Deps -> JobStates]
        /\ pc \in [Deps -> Points] /\ job[d] \in JobStates
    BY Own
  <1>1. PICK status \in {"pulling", "failed"}, point \in {"started", "failed"} :
           /\ UNCHANGED <<job, out, cancelling, svc, watch, spent>>
           /\ pc[d] \in {"gates", "started"} /\ pc' = [pc EXCEPT ![d] = point]
           /\ dep' = [dep EXCEPT ![d].status = status]
    BY Zenon DEF Start, PrepareFails
  <1>2. Row(d, status, dep[d].health, dep[d].image, dep[d].of, dep[d].cause)
    BY <1>0, <1>1, StatusFacts
  <1>3. pc'[d] = point /\ job' = [job EXCEPT ![d] = job[d]] /\ point \in Points
    BY <1>0, <1>1 DEF Points
  <1>4. dep[d].image = None /\ dep[d].status # "absent"
    BY <1>0, <1>1 DEF Imaged, Fresh
  <1>5. Flow(d)' /\ Imaged(d)' /\ ~Live(d)
    BY <1>0, <1>1, <1>2, <1>3, <1>4 DEF Flow, Imaged, Live, LiveHealth, Row
  <1> QED
    BY <1>0, <1>1, <1>2, <1>3, <1>4, <1>5, Own, PlainStep

\* The job is handed to the worker.
LEMMA HandOffStep ==
    ASSUME RevisionsInv, NEW d \in Deps, HandOff(d)
    PROVE  RevisionsInv'
  <1>0. /\ TypeOK /\ Flow(d) /\ Fresh(d) /\ Imaged(d) /\ job \in [Deps -> JobStates]
        /\ pc \in [Deps -> Points]
    BY Own
  <1>1. /\ UNCHANGED <<dep, out, cancelling, svc, watch, spent>> /\ pc[d] = "started"
        /\ pc' = [pc EXCEPT ![d] = "idle"]
        /\ job' = [job EXCEPT ![d] = IF job[d] = "run" THEN "execute" ELSE job[d]]
    BY DEF HandOff
  <1>2. PICK j \in {"execute", "cancelled"} : job' = [job EXCEPT ![d] = j]
    BY <1>0, <1>1 DEF Flow
  <1>3. pc'[d] = "idle" /\ job'[d] = j /\ "idle" \in Points /\ j \in JobStates
    BY <1>0, <1>1, <1>2 DEF Points, JobStates
  <1>4. dep[d].image = None /\ dep[d].status # "absent"
    BY <1>0, <1>1 DEF Imaged, Fresh
  <1>5. Flow(d)' /\ Imaged(d)' /\ ~Live(d)
    BY <1>0, <1>1, <1>2, <1>3, <1>4 DEF Flow, Imaged, Live, LiveHealth
  <1> QED
    BY <1>0, <1>1, <1>2, <1>3, <1>4, <1>5, Own, SameRow, PlainStep

\* The worker reports; a rollback has started the image of its revision.
LEMMA ExecuteStep ==
    ASSUME RevisionsInv, NEW d \in Deps, Execute(d)
    PROVE  RevisionsInv'
  <1>0. /\ TypeOK /\ Flow(d) /\ Fresh(d) /\ Imaged(d) /\ job \in [Deps -> JobStates]
        /\ pc \in [Deps -> Points] /\ pc[d] \in Points /\ out \in [Deps -> Outcomes]
    BY Own DEF TypeOK
  <1>1. /\ UNCHANGED <<dep, pc, cancelling, svc, watch>> /\ job[d] = "execute"
        /\ job' = [job EXCEPT ![d] = "executed"]
    BY DEF Execute
  <1>2. PICK kind \in {"ok", "failed", "routeFailed"}, image \in Images :
           /\ IF IsRollback(d) /\ image # dep[dep[d].of].image
              THEN Spend("inspect") ELSE UNCHANGED spent
           /\ out' = [out EXCEPT ![d] = [kind |-> kind, image |-> image]]
    BY DEF Execute
  <1>a. /\ spent' \in [FaultKinds -> Nat] /\ spent'["error"] = spent["error"]
        /\ spent'["inspect"] = 0 =>
              /\ spent["inspect"] = 0
              /\ IsRollback(d) => image = dep[dep[d].of].image
    BY <1>0, <1>2, SpendFacts DEF FaultKinds, TypeOK
  <1> DEFINE y == [kind |-> kind, image |-> image]
  <1>3. y \in Outcomes /\ y.kind = kind /\ y.image = image
    BY DEF Outcomes
  <1>4. out' = [out EXCEPT ![d] = y]
    BY <1>2
  <1> HIDE DEF y
  <1>5. /\ out' \in [Deps -> Outcomes] /\ \A x \in Deps \ {d} : out'[x] = out[x]
        /\ out'[d].kind = kind /\ out'[d].image = image
    BY <1>0, <1>3, <1>4
  <1>6. /\ pc' = [pc EXCEPT ![d] = pc[d]] /\ job'[d] = "executed" /\ "executed" \in JobStates
    BY <1>0, <1>1 DEF JobStates
  <1>7. /\ dep[d].image = None /\ dep[d].status # "absent" /\ pc[d] = "idle"
    BY <1>0, <1>1 DEF Imaged, Fresh, Flow, Points
  <1>8. Flow(d)' /\ Imaged(d)' /\ ~Live(d)
    BY <1>0, <1>1, <1>5, <1>6, <1>7 DEF Flow, Imaged, Live, LiveHealth
  <1>9. RunsTarget(d)'
    BY <1>1, <1>5, <1>a DEF RunsTarget, IsRollback
  <1> QED
    BY <1>0, <1>a, <1>1, <1>5, <1>6, <1>7, <1>8, <1>9, Own, SameRow, JobStep

\* The executor has failed: the row is closed, its job not yet.
LEMMA FinalizeFailureStep ==
    ASSUME RevisionsInv, NEW d \in Deps, FinalizeFailure(d)
    PROVE  RevisionsInv'
  <1>0. /\ TypeOK /\ Flow(d) /\ Fresh(d) /\ Imaged(d) /\ job \in [Deps -> JobStates]
        /\ pc \in [Deps -> Points] /\ job[d] \in JobStates
        /\ svc \in [workload : Deps \cup {None}, desired : {"running", "stopped"}]
    BY Own
  <1>1. /\ UNCHANGED <<job, out, cancelling, watch, spent>>
        /\ pc[d] = "finalize" /\ out[d].kind # "ok" /\ pc' = [pc EXCEPT ![d] = "failed"]
        /\ dep' = [dep EXCEPT ![d].status = "failed"]
        /\ svc' = svc \/ svc' = [workload |-> d, desired |-> "running"]
    BY Zenon DEF FinalizeFailure
  <1>2. Row(d, "failed", dep[d].health, dep[d].image, dep[d].of, dep[d].cause)
    BY <1>0, <1>1, StatusFacts
  <1>3. /\ pc'[d] = "failed" /\ job' = [job EXCEPT ![d] = job[d]] /\ "failed" \in Points
        /\ svc' \in [workload : Deps \cup {None}, desired : {"running", "stopped"}]
    BY <1>0, <1>1 DEF Points
  <1>4. dep[d].image = None /\ dep[d].status # "absent"
    BY <1>0, <1>1 DEF Flow, Imaged, Fresh
  <1>5. Flow(d)' /\ Imaged(d)' /\ ~Live(d)
    BY <1>0, <1>1, <1>2, <1>3, <1>4 DEF Flow, Imaged, Live, LiveHealth, Row
  <1> QED
    BY <1>0, <1>1, <1>2, <1>3, <1>4, <1>5, Own, PlainStep

\* The service row names the workload of d.
LEMMA RecordServiceStep ==
    ASSUME RevisionsInv, NEW d \in Deps, RecordService(d)
    PROVE  RevisionsInv'
  <1>0. /\ TypeOK /\ Flow(d) /\ Fresh(d) /\ Imaged(d) /\ job \in [Deps -> JobStates]
        /\ pc \in [Deps -> Points] /\ job[d] \in JobStates
    BY Own
  <1>1. /\ UNCHANGED <<dep, job, out, cancelling, watch, spent>>
        /\ pc[d] = "finalize" /\ out[d].kind = "ok" /\ pc' = [pc EXCEPT ![d] = "service"]
        /\ svc' = [workload |-> d, desired |-> "running"]
    BY DEF RecordService
  <1>2. /\ pc'[d] = "service" /\ job' = [job EXCEPT ![d] = job[d]] /\ "service" \in Points
        /\ svc' \in [workload : Deps \cup {None}, desired : {"running", "stopped"}]
    BY <1>0, <1>1 DEF Points
  <1>3. dep[d].status # "absent" /\ (dep[d].image # None => dep[d].status = "running")
    BY <1>0, <1>1 DEF Imaged, Fresh
  <1>4. Flow(d)' /\ Imaged(d)'
    BY <1>0, <1>1, <1>2 DEF Flow, Imaged
  <1> QED
    BY <1>0, <1>1, <1>2, <1>3, <1>4, Own, SameRow, PlainStep

\* The job of a failure that is recorded ends; a live revision has none.
LEMMA JobFailsStep ==
    ASSUME RevisionsInv, NEW d \in Deps, JobFails(d)
    PROVE  RevisionsInv'
  <1>0. /\ TypeOK /\ Flow(d) /\ Fresh(d) /\ Imaged(d) /\ job \in [Deps -> JobStates]
        /\ pc \in [Deps -> Points]
    BY Own
  <1>1. /\ UNCHANGED <<dep, out, cancelling, svc, watch, spent>>
        /\ pc[d] = "failed" /\ pc' = [pc EXCEPT ![d] = "idle"]
        /\ job' = [job EXCEPT ![d] = "ended"]
    BY DEF JobFails
  <1>2. pc'[d] = "idle" /\ job'[d] = "ended" /\ "idle" \in Points /\ "ended" \in JobStates
    BY <1>0, <1>1 DEF Points, JobStates
  <1>3. dep[d].status # "absent" /\ (dep[d].image # None => dep[d].status = "running")
    BY <1>0, <1>1 DEF Imaged, Fresh
  <1>4. Flow(d)' /\ Imaged(d)'
    BY <1>0, <1>1, <1>2 DEF Flow, Imaged
  <1>5. spent["error"] = 0 => ~Live(d)
    BY <1>1 DEF RevisionsInv
  <1> QED
    BY <1>0, <1>1, <1>2, <1>3, <1>4, <1>5, Own, SameRow, PlainStep

\* A refused write of finalize.
LEMMA FinalizeThrowsStep ==
    ASSUME RevisionsInv, NEW d \in Deps, FinalizeThrows(d)
    PROVE  RevisionsInv'
  <1>0. /\ TypeOK /\ Flow(d) /\ Fresh(d) /\ Imaged(d) /\ job \in [Deps -> JobStates]
        /\ pc \in [Deps -> Points] /\ job[d] \in JobStates /\ spent \in [FaultKinds -> Nat]
    BY Own
  <1>1. /\ UNCHANGED <<dep, job, out, cancelling, svc, watch>> /\ Spend("error")
        /\ pc[d] \in {"finalize", "service", "row"} /\ pc' = [pc EXCEPT ![d] = "failed"]
    BY DEF FinalizeThrows
  <1>2. /\ pc'[d] = "failed" /\ job' = [job EXCEPT ![d] = job[d]] /\ "failed" \in Points
    BY <1>0, <1>1 DEF Points
  <1>3. spent' \in [FaultKinds -> Nat] /\ spent'["error"] # 0
    <2>1. "error" \in FaultKinds
      BY DEF FaultKinds
    <2>2. spent' \in [FaultKinds -> Nat] /\ spent'["error"] = spent["error"] + 1
      BY <1>0, <1>1, <2>1, SpendFacts
    <2> QED
      BY <1>0, <2>1, <2>2
  <1>4. dep[d].status # "absent" /\ (dep[d].image # None => dep[d].status = "running")
    BY <1>0, <1>1 DEF Imaged, Fresh
  <1>5. Flow(d)' /\ Imaged(d)'
    BY <1>0, <1>1, <1>2 DEF Flow, Imaged
  <1>i. spent'["inspect"] = spent["inspect"]
    BY <1>0, <1>1, InspectKept DEF FaultKinds
  <1> QED
    BY <1>0, <1>1, <1>2, <1>3, <1>4, <1>5, <1>i, Own, SameRow, PlainStep

\* A fault other than a refused write leaves the count of those.
LEMMA OtherFault ==
    ASSUME TypeOK, NEW f \in FaultKinds \ {"error"}, Spend(f)
    PROVE  spent' \in [FaultKinds -> Nat] /\ spent'["error"] = spent["error"]
  <1>1. "error" \in FaultKinds
    BY DEF FaultKinds
  <1> QED
    BY <1>1, SpendFacts

\* A cancel closes a row in flight, which has no image.
LEMMA CancelRowStep ==
    ASSUME RevisionsInv, NEW d \in Deps, CancelRow(d)
    PROVE  RevisionsInv'
  <1>0. /\ TypeOK /\ Flow(d) /\ Fresh(d) /\ Imaged(d) /\ job \in [Deps -> JobStates]
        /\ pc \in [Deps -> Points] /\ job[d] \in JobStates /\ pc[d] \in Points
        /\ cancelling \subseteq Deps
    BY Own
  <1>1. /\ UNCHANGED <<job, out, pc, svc, watch>> /\ Spend("cancel")
        /\ dep[d].status \in InFlightStatuses /\ cancelling' = cancelling \cup {d}
        /\ dep' = [dep EXCEPT ![d].status = "failed"]
    BY Zenon DEF CancelRow
  <1>2. Row(d, "failed", dep[d].health, dep[d].image, dep[d].of, dep[d].cause)
    BY <1>0, <1>1, StatusFacts
  <1>3. /\ pc' = [pc EXCEPT ![d] = pc[d]] /\ job' = [job EXCEPT ![d] = job[d]]
        /\ cancelling' \subseteq Deps
    BY <1>0, <1>1
  <1>4. dep[d].image = None /\ dep[d].status # "absent"
    BY <1>0, <1>1 DEF Imaged, InFlightStatuses
  <1>5. spent' \in [FaultKinds -> Nat] /\ spent'["error"] = spent["error"]
    BY <1>0, <1>1, OtherFault DEF FaultKinds
  <1>6. Flow(d)' /\ Imaged(d)' /\ ~Live(d)
    BY <1>0, <1>1, <1>2, <1>4 DEF Flow, Imaged, Live, LiveHealth, Row
  <1>i. spent'["inspect"] = spent["inspect"]
    BY <1>0, <1>1, InspectKept DEF FaultKinds
  <1> QED
    BY <1>0, <1>1, <1>2, <1>3, <1>4, <1>5, <1>6, <1>i, Own, PlainStep

\* The cancel reaches the job; what has not finalized stays so.
LEMMA CancelJobStep ==
    ASSUME RevisionsInv, NEW d \in Deps, CancelJob(d)
    PROVE  RevisionsInv'
  <1>0. /\ TypeOK /\ Flow(d) /\ Fresh(d) /\ Imaged(d) /\ job \in [Deps -> JobStates]
        /\ pc \in [Deps -> Points] /\ job[d] \in JobStates /\ pc[d] \in Points
        /\ cancelling \subseteq Deps
    BY Own
  <1>1. /\ UNCHANGED <<dep, out, pc, svc, watch, spent>> /\ cancelling' = cancelling \ {d}
        /\ job' = [job EXCEPT ![d] = IF job[d] \in ActiveJob THEN "cancelled" ELSE job[d]]
    BY DEF CancelJob
  <1>2. CASE job[d] \in ActiveJob
    <2>1. /\ pc' = [pc EXCEPT ![d] = pc[d]] /\ job' = [job EXCEPT ![d] = "cancelled"]
          /\ job'[d] = "cancelled" /\ cancelling' \subseteq Deps /\ "cancelled" \in JobStates
      BY <1>0, <1>1, <1>2 DEF JobStates
    <2>2. dep[d].status # "absent" /\ (dep[d].image # None => dep[d].status = "running")
      BY <1>0, <1>2 DEF Imaged, Fresh, ActiveJob, RunningJob
    <2>3. Flow(d)' /\ Imaged(d)'
      BY <1>0, <1>1, <1>2, <2>1 DEF Flow, Imaged, ActiveJob, RunningJob
    <2>4. spent["error"] = 0 /\ Live(d) => pc[d] # "failed"
      BY DEF RevisionsInv
    <2>5. Row(d, dep[d].status, dep[d].health, dep[d].image, dep[d].of, dep[d].cause)
      BY <1>0, <1>1, SameRow
    <2>6. /\ svc' \in [workload : Deps \cup {None}, desired : {"running", "stopped"}]
          /\ spent' \in [FaultKinds -> Nat]
      BY <1>1, Own
    <2>7. out' = out /\ watch' = watch /\ spent' = spent
      BY <1>1
    <2> QED
      BY <1>0, <2>1, <2>2, <2>3, <2>4, <2>5, <2>6, <2>7, PlainStep
  <1>3. CASE job[d] \notin ActiveJob
    <2>1. UNCHANGED <<dep, job, out, pc, svc, watch, spent>> /\ cancelling' \subseteq Deps
      BY <1>0, <1>1, <1>3
    <2> QED
      BY <2>1 DEF RevisionsInv, TypeOK, Flow, Fresh, Imaged, RunsTarget, Targets, CausedOnce,
                  RollbacksChangeTheImage, LiveApart, Live, Unsettled, NoForgottenWatch,
                  IsRevision, IsRollback
  <1> QED
    BY <1>2, <1>3

\* The desired state of the service.
LEMMA SetDesiredStep ==
    ASSUME RevisionsInv, NEW state \in {"running", "stopped"}, SetDesired(state)
    PROVE  RevisionsInv'
  <1>1. UNCHANGED <<dep, job, out, pc, cancelling, watch>> /\ Spend("stop") /\ TypeOK
    BY DEF SetDesired, RevisionsInv
  <1>2. svc' \in [workload : Deps \cup {None}, desired : {"running", "stopped"}]
    BY <1>1 DEF SetDesired, TypeOK
  <1>3. spent' \in [FaultKinds -> Nat] /\ spent'["error"] = spent["error"]
    BY <1>1, OtherFault DEF FaultKinds
  <1>i. spent'["inspect"] = spent["inspect"]
    BY <1>1, InspectKept DEF FaultKinds
  <1> QED
    BY <1>1, <1>2, <1>3, <1>i
       DEF RevisionsInv, TypeOK, Flow, Fresh, Imaged, RunsTarget, Targets, CausedOnce,
           RollbacksChangeTheImage, LiveApart, Live, Unsettled, NoForgottenWatch,
           IsRevision, IsRollback

-----------------------------------------------------------------------------
(* A finalize that succeeds.                                               *)

\* The row goes live; the others are cleared in the next step.
LEMMA RecordRowStep ==
    ASSUME RevisionsInv, NEW d \in Deps, RecordRow(d)
    PROVE  RevisionsInv'
  <1>0. /\ TypeOK /\ Flow(d) /\ Fresh(d) /\ Imaged(d) /\ pc \in [Deps -> Points]
    BY Own
  <1>1. /\ UNCHANGED <<job, out, cancelling, svc, watch, spent>>
        /\ pc[d] = "service" /\ pc' = [pc EXCEPT ![d] = "row"]
    BY Zenon DEF RecordRow
  <1>2. Row(d, "running", "watching", out[d].image, dep[d].of, dep[d].cause)
    BY <1>0, RecordFacts
  <1>3. out[d].kind = "ok" /\ out[d].image # None /\ Unsettled(d) /\ pc'[d] = "row"
    BY <1>0, <1>1, NoneAssumption DEF Flow, Unsettled
  <1>4. TypeOK'
    BY <1>0, <1>1, <1>2 DEF TypeOK, Row, Points
  <1>5. Others(d) /\ Unsettled(d)'
    BY <1>0, <1>1, <1>2, <1>3 DEF Others, Row, Unsettled
  <1>6. Stays(d) /\ Flow(d)' /\ Fresh(d)' /\ Imaged(d)'
    BY <1>0, <1>1, <1>2, <1>3 DEF Stays, Row, Flow, Fresh, Imaged, Unsettled
  <1>7. RunsTarget(d)' /\ Targets(d)'
    <2>1. \A x \in Deps : Stays(x)
      BY <1>5, <1>6 DEF Others, Stays, RevisionsInv, Imaged
    <2> QED
      BY <1>1, <2>1, RunsTargetKept, TargetsKept
  <1>8. (\E e \in Deps : dep[e].cause = d) => watch'[d].at \in Undecided
    BY <1>1, NotCausedYet
  <1>9. \A e \in Deps \ {d} : LiveApart(d, e)' /\ LiveApart(e, d)'
    BY <1>3, <1>5 DEF LiveApart
  <1> QED
    BY <1>1, <1>3, <1>4, <1>5, <1>6, <1>7, <1>8, <1>9, OneStep

\* clearSupersededHealth leaves d as the only live revision.
LEMMA ClearStep ==
    ASSUME RevisionsInv, NEW d \in Deps, ClearSupersededHealth(d)
    PROVE  RevisionsInv'
  <1>0. TypeOK /\ pc \in [Deps -> Points] /\ Flow(d)
    BY Own
  <1>1. /\ UNCHANGED <<job, out, cancelling, svc, watch, spent>>
        /\ pc[d] = "row" /\ pc' = [pc EXCEPT ![d] = "cleared"]
    BY Zenon DEF ClearSupersededHealth
  <1>2. /\ dep' \in [Deps -> Rows]
        /\ \A e \in Deps :
              /\ dep'[e].status = dep[e].status /\ dep'[e].image = dep[e].image
              /\ dep'[e].of = dep[e].of /\ dep'[e].cause = dep[e].cause
              /\ dep'[e].health = IF e # d /\ dep[e].health \in LiveHealth
                                  THEN "none" ELSE dep[e].health
    BY <1>0, ClearFacts
  <1>3. /\ pc'[d] = "cleared" /\ \A e \in Deps \ {d} : pc'[e] = pc[e]
    BY <1>0, <1>1
  <1>4. TypeOK'
    BY <1>0, <1>1, <1>2 DEF TypeOK, Points
  <1>5. \A x \in Deps : Stays(x)
    BY <1>2 DEF Stays, RevisionsInv, Imaged
  <1>6. ASSUME NEW x \in Deps
        PROVE  Flow(x)' /\ Fresh(x)' /\ Imaged(x)' /\ RunsTarget(x)' /\ Targets(x)'
    <2>1. Flow(x)'
      BY <1>0, <1>1, <1>2, <1>3 DEF RevisionsInv, Flow
    <2>2. Fresh(x)' /\ Imaged(x)'
      BY <1>1, <1>2, <1>3 DEF RevisionsInv, Fresh, Imaged
    <2> QED
      BY <1>1, <1>5, <2>1, <2>2, RunsTargetKept, TargetsKept
  <1>7. \A e \in Deps : CausedOnce(e)'
    BY <1>1, <1>5, NotCausedYet, CausedKept
  <1>8. RollbacksChangeTheImage'
    BY <1>1, <1>5, RollbacksKept
  <1>9. ASSUME spent'["error"] = 0, NEW x \in Deps
        PROVE  /\ pc'[x] = "failed" => ~Live(x)'
               /\ \A e \in Deps \ {x} : LiveApart(x, e)'
    <2>1. \A e \in Deps \ {d} : ~Live(e)'
      BY <1>2 DEF Live, LiveHealth
    <2>2. \A e \in Deps \ {x} : LiveApart(x, e)'
      BY <2>1 DEF LiveApart
    <2>3. pc'[x] = "failed" => ~Live(x)'
      BY <1>3, <2>1
    <2> QED
      BY <2>2, <2>3
  <1>10. NoForgottenWatch'
    <2> SUFFICES ASSUME NEW x \in Deps, dep'[x].health = "watching"
                 PROVE  \/ watch'[x].at # "off"
                        \/ job'[x] \in {"executed", "finalizing", "cancelled"}
                        \/ pc'[x] \in {"row", "cleared"}
                        \/ \E e \in Deps : dep'[e].cause = x
                        \/ spent'["error"] > 0
      BY DEF NoForgottenWatch
    <2>1. dep[x].health = "watching"
      BY <1>2
    <2>2. pc[x] \in {"row", "cleared"} => pc'[x] \in {"row", "cleared"}
      BY <1>3
    <2> QED
      BY <1>1, <1>2, <2>1, <2>2 DEF RevisionsInv, NoForgottenWatch
  <1> QED
    BY <1>4, <1>6, <1>7, <1>8, <1>9, <1>10 DEF RevisionsInv

\* The watch starts and the job ends, with every other live one unsettled.
LEMMA FinalizeSuccessStep ==
    ASSUME RevisionsInv, NEW d \in Deps, FinalizeSuccess(d)
    PROVE  RevisionsInv'
  <1>0. /\ TypeOK /\ Flow(d) /\ Fresh(d) /\ Imaged(d) /\ pc \in [Deps -> Points]
        /\ job \in [Deps -> JobStates]
    BY Own
  <1>1. /\ UNCHANGED <<dep, out, cancelling, svc, spent>>
        /\ pc[d] = "cleared" /\ pc' = [pc EXCEPT ![d] = "idle"]
        /\ job' = [job EXCEPT ![d] = "ended"]
    BY Zenon DEF FinalizeSuccess
  <1>2. \/ watch[d].at # "off" /\ watch' = watch
        \/ watch[d].at = "off" /\ Watch(d, "start", None)
    <2>1. CASE watch[d].at = "off"
      <3>1. watch' = [watch EXCEPT ![d] = [Off EXCEPT !.at = "start"]]
        BY <2>1, Zenon DEF FinalizeSuccess
      <3> QED
        BY <1>0, <2>1, <3>1, StartsFacts
    <2>2. CASE watch[d].at # "off"
      BY <2>2, Zenon DEF FinalizeSuccess
    <2> QED
      BY <2>1, <2>2
  <1>3. pc'[d] = "idle" /\ job'[d] = "ended" /\ dep[d].image # None /\ out[d].kind = "ok"
    BY <1>0, <1>1 DEF Flow
  <1>4. TypeOK'
    BY <1>0, <1>1, <1>2 DEF TypeOK, Points, JobStates, Watch, WatchRecords
  <1>5. Others(d)
    BY <1>0, <1>1, <1>2 DEF Others, Watch
  <1>6. \A x \in Deps : Stays(x)
    BY <1>1 DEF Stays, RevisionsInv, Imaged
  <1>7. Flow(d)' /\ Fresh(d)' /\ Imaged(d)' /\ RunsTarget(d)'
    <2>1. Flow(d)' /\ Fresh(d)'
      BY <1>0, <1>1, <1>3 DEF Flow, Fresh, Imaged
    <2>2. Imaged(d)'
      BY <1>0, <1>1, <1>3 DEF Flow, Imaged
    <2> QED
      BY <1>1, <1>6, <2>1, <2>2, RunsTargetKept
  <1>8. Targets(d)'
    <2>1. CASE watch' = watch
      BY <1>1, <1>6, <2>1, TargetsKept
    <2>2. CASE Watch(d, "start", None)
      BY <1>1, <1>3, <2>2 DEF Targets, Watch
    <2> QED
      BY <1>2, <2>1, <2>2
  <1>9. (\E e \in Deps : dep[e].cause = d) => watch'[d].at \in Undecided
    BY <1>2, NotCausedYet DEF Watch, Undecided
  <1>10. watch'[d].at # "off"
    BY <1>2 DEF Watch
  <1>11. ASSUME spent'["error"] = 0, NEW e \in Deps \ {d}
         PROVE  LiveApart(d, e)' /\ LiveApart(e, d)'
    <2>1. LiveApart(d, e) /\ LiveApart(e, d)
      BY <1>1, <1>11 DEF RevisionsInv
    <2>2. Live(d)' = Live(d) /\ Live(e)' = Live(e) /\ Unsettled(e)' = Unsettled(e)
      BY <1>1, <1>5 DEF Live, Unsettled, Others
    <2>3. pc'[e] = pc[e]
      BY <1>5 DEF Others
    <2> QED
      BY <1>1, <1>3, <2>1, <2>2, <2>3 DEF LiveApart
  <1> QED
    BY <1>1, <1>3, <1>4, <1>5, <1>6, <1>7, <1>8, <1>9, <1>10, <1>11, OneStep

-----------------------------------------------------------------------------
(* The watch.                                                              *)

\* A watch goes on; the health changes only where it was watching.
LEMMA WatchStepKeeps ==
    ASSUME RevisionsInv, NEW d \in Deps, NEW health, NEW at, NEW target,
           Row(d, dep[d].status, health, dep[d].image, dep[d].of, dep[d].cause),
           health # dep[d].health => dep[d].health = "watching",
           Watch(d, at, target), watch[d].at # "off",
           UNCHANGED <<job, out, pc, cancelling, svc>>,
           spent' \in [FaultKinds -> Nat], spent'["error"] = 0 => spent["error"] = 0,
           spent'["inspect"] = 0 => spent["inspect"] = 0,
           Targets(d)', (\E e \in Deps : dep[e].cause = d) => at \in Undecided,
           spent'["error"] = 0 /\ health = "watching" => at # "off"
    PROVE  RevisionsInv'
  <1>0. TypeOK /\ Flow(d) /\ Fresh(d) /\ Imaged(d) /\ dep[d].image # None
    BY Own DEF RevisionsInv, Targets
  <1>1. TypeOK'
    BY <1>0 DEF TypeOK, Row, Watch, WatchRecords
  <1>2. Others(d)
    BY DEF Others, Row, Watch
  <1>3. Stays(d) /\ Flow(d)' /\ Fresh(d)' /\ Imaged(d)'
    BY <1>0 DEF Stays, Row, Flow, Fresh, Imaged
  <1>4. RunsTarget(d)'
    <2>1. \A x \in Deps : Stays(x)
      BY <1>2, <1>3 DEF Others, Stays, RevisionsInv, Imaged
    <2> QED
      BY <2>1, RunsTargetKept
  <1>5. watch'[d].at = at /\ dep'[d].health = health
    BY DEF Watch, Row
  <1>6. Live(d)' => Live(d)
    BY <1>5 DEF Live, LiveHealth
  <1>7. ASSUME spent'["error"] = 0
        PROVE  /\ spent["error"] = 0
               /\ pc'[d] = "failed" => ~Live(d)'
               /\ \A e \in Deps \ {d} : LiveApart(d, e)' /\ LiveApart(e, d)'
               /\ dep'[d].health = "watching"
                     => \/ watch'[d].at # "off" \/ Unsettled(d)'
                        \/ \E e \in Deps : dep[e].cause = d
    <2>1. spent["error"] = 0
      BY <1>7
    <2>2. pc'[d] = "failed" => ~Live(d)'
      BY <1>6, <2>1 DEF RevisionsInv
    <2>3. Unsettled(d)' = Unsettled(d)
      BY DEF Unsettled
    <2>4. ASSUME NEW e \in Deps \ {d}
          PROVE  LiveApart(d, e)' /\ LiveApart(e, d)'
      <3>1. LiveApart(d, e) /\ LiveApart(e, d)
        BY <2>1 DEF RevisionsInv
      <3> QED
        BY <1>2, <1>6, <2>3, <3>1, ApartKept
    <2> QED
      BY <1>5, <1>7, <2>1, <2>2, <2>4
  <1> QED
    BY <1>1, <1>2, <1>3, <1>4, <1>5, <1>7, OneStep

\* The watch begins, or takes one more look at the service: only the newest
\* deployment is judged, and one that was rolled back is not the newest.
LEMMA PollStep ==
    ASSUME RevisionsInv, NEW d \in Deps, Begin(d) \/ Poll(d)
    PROVE  RevisionsInv'
  <1>0. TypeOK /\ spent \in [FaultKinds -> Nat] /\ Targets(d)
    BY Own DEF RevisionsInv
  <1>1. /\ UNCHANGED <<dep, job, out, pc, cancelling, svc, spent>>
        /\ watch[d].at \in {"start", "poll"}
    BY DEF Begin, Poll
  <1>2. PICK at \in {"poll", "healthy", "unhealthy", "stale"} :
           /\ Watch(d, at, watch[d].target)
           /\ at \in {"healthy", "unhealthy"} => Latest(d)
    <2>1. CASE Begin(d)
      BY <1>0, <2>1, BeginFacts
    <2>2. CASE Poll(d)
      <3>1. PICK at \in {"poll", "healthy", "unhealthy", "stale"} :
               At(d, at) /\ (at \in {"healthy", "unhealthy"} => Latest(d))
        BY <2>2 DEF Poll, StillCurrent
      <3> QED
        BY <1>0, <3>1, AtFacts DEF WatchPoints
    <2> QED
      BY <2>1, <2>2
  <1>3. Latest(d) => \A e \in Deps : dep[e].cause # d
    <2> SUFFICES ASSUME Latest(d), NEW e \in Deps, dep[e].cause = d
                 PROVE  FALSE
      OBVIOUS
    <2>1. d < e /\ dep[e].status # "absent"
      BY NoneAssumption DEF RevisionsInv, CausedOnce
    <2>2. e <= d
      BY <2>1 DEF Latest, Created
    <2> QED
      BY <2>1, <2>2, DepsAssumption
  <1>4. Targets(d)'
    BY <1>0, <1>1, <1>2 DEF Targets, Watch
  <1>5. (\E e \in Deps : dep[e].cause = d) => at \in Undecided
    BY <1>2, <1>3 DEF Undecided
  <1> QED
    BY <1>0, <1>1, <1>2, <1>4, <1>5, SameRow, WatchStepKeeps

\* The verdict is written, if the row is still watching, and the watch ends.
LEMMA SettleStep ==
    ASSUME RevisionsInv, NEW d \in Deps, SettleStale(d) \/ SettleHealthy(d)
    PROVE  RevisionsInv'
  <1>0. TypeOK /\ spent \in [FaultKinds -> Nat]
    BY Own
  <1>1. PICK health \in {"none", "healthy"} :
           /\ SettleHealth(d, health) /\ Ends(d) /\ watch[d].at # "off"
           /\ UNCHANGED <<job, out, pc, cancelling, svc, spent>>
    BY Zenon DEF SettleStale, SettleHealthy
  <1> DEFINE h == IF dep[d].health = "watching" THEN health ELSE dep[d].health
  <1>2. Row(d, dep[d].status, h, dep[d].image, dep[d].of, dep[d].cause)
    BY <1>0, <1>1, HealthFacts
  <1>3. Watch(d, "off", None)
    BY <1>0, <1>1, EndsFacts
  <1>4. Targets(d)' /\ "off" \in Undecided
    BY <1>3 DEF Targets, Watch, Undecided
  <1>5. h # "watching" /\ (h # dep[d].health => dep[d].health = "watching")
    OBVIOUS
  <1> HIDE DEF h
  <1> QED
    BY <1>0, <1>1, <1>2, <1>3, <1>4, <1>5, WatchStepKeeps

\* The target of the rollback is chosen.
LEMMA ChooseTargetStep ==
    ASSUME RevisionsInv, NEW d \in Deps, ChooseTarget(d)
    PROVE  RevisionsInv'
  <1>0. TypeOK /\ spent \in [FaultKinds -> Nat] /\ Targets(d)
    BY Own DEF RevisionsInv
  <1>1. /\ UNCHANGED <<dep, job, out, pc, cancelling, svc, spent>>
        /\ watch[d].at = "unhealthy"
    BY Zenon DEF ChooseTarget
  <1>2. PICK at \in {"settle"}, target \in {None, RollbackTarget(d)} : Watch(d, at, target)
    BY ChooseFacts
  <1>3. Targets(d)'
    BY <1>0, <1>1, <1>2, TargetFacts DEF Targets, Watch, IsRevision, IsRollback
  <1>4. \A e \in Deps : dep[e].cause # d
    BY <1>1, NotCausedYet DEF Undecided
  <1>5. at # "off" /\ watch[d].at # "off"
    BY <1>1
  <1>6. Row(d, dep[d].status, dep[d].health, dep[d].image, dep[d].of, dep[d].cause)
    BY <1>0, <1>1, SameRow
  <1> QED
    BY <1>0, <1>1, <1>2, <1>3, <1>4, <1>5, <1>6, WatchStepKeeps

\* unhealthy or rolled_back is written; with it the rollback is due.
LEMMA SettleUnhealthyStep ==
    ASSUME RevisionsInv, NEW d \in Deps, SettleUnhealthy(d)
    PROVE  RevisionsInv'
  <1>0. TypeOK /\ spent \in [FaultKinds -> Nat] /\ Targets(d)
    BY Own DEF RevisionsInv
  <1>1. /\ UNCHANGED <<job, out, pc, cancelling, svc, spent>> /\ watch[d].at = "settle"
    BY Zenon DEF SettleUnhealthy
  <1>2. PICK health \in {"unhealthy", "rolled_back"} : SettleHealth(d, health)
    BY Zenon DEF SettleUnhealthy
  <1>3. PICK at \in {"rollback", "off"}, target \in {watch[d].target, None} :
           /\ Watch(d, at, target) /\ (at = "rollback" => target # None)
    <2>1. CASE dep[d].health = "watching" /\ watch[d].target # None
      <3>1. At(d, "rollback")
        BY <2>1, Zenon DEF SettleUnhealthy
      <3> QED
        BY <1>0, <2>1, <3>1, AtFacts DEF WatchPoints
    <2>2. CASE ~(dep[d].health = "watching" /\ watch[d].target # None)
      <3>1. Ends(d)
        BY <2>2, Zenon DEF SettleUnhealthy
      <3> QED
        BY <1>0, <3>1, EndsFacts
    <2> QED
      BY <2>1, <2>2
  <1> DEFINE h == IF dep[d].health = "watching" THEN health ELSE dep[d].health
  <1>4. Row(d, dep[d].status, h, dep[d].image, dep[d].of, dep[d].cause)
    BY <1>0, <1>2, HealthFacts
  <1>5. Targets(d)'
    <2>1. \A x \in Deps : /\ dep'[x].image = dep[x].image /\ dep'[x].of = dep[x].of
                          /\ dep'[x].status = dep[x].status
      BY <1>4 DEF Row
    <2>2. watch[d].target \in Deps \cup {None}
      BY <1>0, RowTypes
    <2> QED
      BY <1>0, <1>1, <1>3, <2>1, <2>2 DEF Targets, Watch, IsRevision, IsRollback
  <1>6. \A e \in Deps : dep[e].cause # d
    BY <1>1, NotCausedYet DEF Undecided
  <1>7. h # "watching" /\ (h # dep[d].health => dep[d].health = "watching")
    OBVIOUS
  <1> HIDE DEF h
  <1> QED
    BY <1>0, <1>1, <1>3, <1>4, <1>5, <1>6, <1>7, WatchStepKeeps

\* A query of the watch fails.
LEMMA WatchFailsStep ==
    ASSUME RevisionsInv, NEW d \in Deps, WatchFails(d)
    PROVE  RevisionsInv'
  <1>0. TypeOK /\ spent \in [FaultKinds -> Nat]
    BY Own
  <1>1. /\ UNCHANGED <<dep, job, out, pc, cancelling, svc>> /\ watch[d].at # "off"
        /\ Spend("error") /\ Ends(d)
    BY DEF WatchFails
  <1>2. Watch(d, "off", None)
    BY <1>0, <1>1, EndsFacts
  <1>3. Targets(d)' /\ "off" \in Undecided
    BY <1>2 DEF Targets, Watch, Undecided
  <1>4. spent' \in [FaultKinds -> Nat] /\ spent'["error"] # 0
    <2>1. "error" \in FaultKinds
      BY DEF FaultKinds
    <2>2. spent' \in [FaultKinds -> Nat] /\ spent'["error"] = spent["error"] + 1
      BY <1>0, <1>1, <2>1, SpendFacts
    <2> QED
      BY <1>0, <2>1, <2>2
  <1>5. Row(d, dep[d].status, dep[d].health, dep[d].image, dep[d].of, dep[d].cause)
    BY <1>0, <1>1, SameRow
  <1>i. spent'["inspect"] = spent["inspect"]
    BY <1>0, <1>1, InspectKept DEF FaultKinds
  <1> QED
    BY <1>1, <1>2, <1>3, <1>4, <1>5, <1>i, WatchStepKeeps

-----------------------------------------------------------------------------
(* New deployments.                                                        *)

\* A new row, for a user or for the watch that found its cause unhealthy.
LEMMA CreateKeeps ==
    ASSUME RevisionsInv, NEW e \in Deps, NEW of \in Deps \cup {None},
           NEW cause \in Deps \cup {None}, Create(e, of, cause),
           UNCHANGED <<job, out, cancelling, svc, spent>>,
           of # None => IsRevision(of),
           IF cause = None
           THEN watch' = watch
           ELSE /\ Watch(cause, "off", None) /\ watch[cause].at \notin Undecided
                /\ dep[cause].image # None /\ ~IsRollback(cause)
                /\ of # None
                /\ spent["inspect"] = 0 => dep[of].image # dep[cause].image
    PROVE  RevisionsInv'
  <1>0. TypeOK
    BY DEF RevisionsInv
  <1>1. /\ Row(e, "pending", dep[e].health, dep[e].image, of, cause)
        /\ e \notin Created /\ \A x \in Created : x < e
        /\ pc' \in [Deps -> Points] /\ pc'[e] = "created"
        /\ \A x \in Deps \ {e} : pc'[x] = pc[x]
    BY <1>0, CreateFacts
  <1>2. /\ dep[e].image = None /\ dep[e].of = None /\ dep[e].health = "none"
        /\ job[e] = "none" /\ out[e].kind = "none" /\ watch[e].at = "off"
    BY <1>1 DEF RevisionsInv, Fresh, Imaged, Targets, Created
  <1>3. \A x \in Deps : dep[x].image # None => x # e /\ x < e
    BY <1>1, <1>2 DEF RevisionsInv, Fresh, Created
  <1>4. cause # e /\ of # e
    BY <1>2, NoneAssumption DEF IsRevision
  <1>5. /\ \A x \in Deps \ {e} : dep'[x] = dep[x]
        /\ dep'[e].status = "pending" /\ dep'[e].health = "none" /\ dep'[e].image = None
        /\ dep'[e].of = of /\ dep'[e].cause = cause
    BY <1>1, <1>2 DEF Row
  <1>6. \A x \in Deps : watch'[x] = watch[x] \/ (x = cause /\ watch'[x].at = "off")
    BY DEF Watch
  <1>7. TypeOK'
    BY <1>0, <1>1 DEF TypeOK, Row, Watch, WatchRecords
  <1>8. ASSUME NEW x \in Deps
        PROVE  Flow(x)' /\ Fresh(x)' /\ Imaged(x)' /\ RunsTarget(x)' /\ Targets(x)'
    <2>1. CASE x = e
      <3>1. watch'[e].at = "off"
        BY <1>2, <1>6
      <3> QED
        BY <1>1, <1>2, <1>5, <2>1, <3>1 DEF Flow, Fresh, Imaged, RunsTarget, Targets
    <2>2. CASE x # e
      <3>1. dep'[x] = dep[x] /\ pc'[x] = pc[x] /\ job'[x] = job[x] /\ out'[x] = out[x]
        BY <1>1, <1>5, <2>2
      <3>2. Flow(x)' /\ Fresh(x)' /\ Imaged(x)'
        BY <3>1 DEF RevisionsInv, Flow, Fresh, Imaged
      <3>3. RunsTarget(x)'
        <4>1. dep[x].of # None => dep[x].of \in Deps /\ dep[dep[x].of].image # None
          BY <1>0, RowTypes DEF RevisionsInv, RollbacksChangeTheImage, IsRevision
        <4>2. dep[x].of # None => dep'[dep[x].of] = dep[dep[x].of]
          BY <1>3, <1>5, <4>1
        <4> QED
          BY <3>1, <4>2 DEF RevisionsInv, RunsTarget
      <3>4. Targets(x)'
        <4>1. CASE watch'[x].at = "off"
          BY <4>1 DEF Targets
        <4>2. CASE watch'[x] = watch[x]
          <5>1. watch[x].target \in Deps \cup {None}
            BY <1>0, RowTypes
          <5>2. watch[x].at \in {"settle", "rollback"} /\ watch[x].target # None
                   => dep'[watch[x].target] = dep[watch[x].target]
            BY <1>3, <1>5, <5>1 DEF RevisionsInv, Targets, IsRevision
          <5> QED
            BY <3>1, <4>2, <5>1, <5>2 DEF RevisionsInv, Targets, IsRevision, IsRollback
        <4> QED
          BY <1>6, <4>1, <4>2
      <3> QED
        BY <3>2, <3>3, <3>4
    <2> QED
      BY <2>1, <2>2
  <1>9. ASSUME NEW x \in Deps, dep'[x].cause # None
        PROVE  CausedOnce(x)'
    <2>1. CASE x = e
      <3>1. dep'[x].cause = cause /\ cause \in Deps
        BY <1>5, <1>9, <2>1
      <3>2. cause < e /\ dep'[cause].image # None
        BY <1>3, <1>4, <1>5, <3>1, <1>9, <2>1
      <3>3. watch'[cause].at = "off"
        BY <1>9, <2>1, <3>1 DEF Watch
      <3>4. \A f \in Deps : dep'[f].cause = cause => f = e
        BY <1>5, <1>9, <2>1, <3>1, NotCausedYet
      <3> QED
        BY <1>5, <2>1, <3>1, <3>2, <3>3, <3>4 DEF CausedOnce
    <2>2. CASE x # e
      <3> DEFINE c == dep[x].cause
      <3>1. dep'[x].cause = c /\ dep'[x].status = dep[x].status
        BY <1>5, <2>2
      <3>2. c \in Deps
        BY <1>0, <1>9, <3>1, RowTypes
      <3>3. /\ c < x /\ dep[c].image # None /\ dep[x].status # "absent"
            /\ \A f \in Deps : dep[f].cause = c => f = x
        BY <1>9, <3>1 DEF RevisionsInv, CausedOnce
      <3>4. watch[c].at \in Undecided
        BY <3>2, NotCausedYet
      <3>5. c # cause
        BY <1>9, <3>1, <3>4
      <3>6. \A f \in Deps : dep'[f].cause = c => f = x
        BY <1>5, <3>3, <3>5
      <3>7. dep'[c].image # None /\ watch'[c].at \in Undecided
        BY <1>3, <1>5, <1>6, <3>2, <3>3, <3>4, <3>5
      <3> HIDE DEF c
      <3> QED
        BY <3>1, <3>3, <3>6, <3>7 DEF CausedOnce, Undecided
    <2> QED
      BY <2>1, <2>2
  <1>10. RollbacksChangeTheImage'
    <2> SUFFICES ASSUME NEW x \in Deps, dep'[x].of # None
                 PROVE  /\ dep'[x].of < x /\ dep'[dep'[x].of].image # None
                        /\ dep'[dep'[x].of].status \in {"running", "stopped"}
                        /\ dep'[x].cause # None =>
                              /\ dep'[dep'[x].cause].of = None
                              /\ spent["inspect"] = 0 =>
                                   dep'[dep'[x].of].image # dep'[dep'[x].cause].image
      BY DEF RollbacksChangeTheImage, IsRevision, IsRollback
    <2>1. CASE x = e
      <3>1. dep'[x].of = of /\ of \in Deps /\ dep'[x].cause = cause
        BY <1>5, <2>1
      <3>2. IsRevision(of) /\ dep'[of] = dep[of] /\ of < e
        BY <1>3, <1>4, <1>5, <2>1, <3>1 DEF IsRevision
      <3>3. cause # None =>
               /\ dep'[cause] = dep[cause] /\ dep[cause].of = None
               /\ spent["inspect"] = 0 => dep[of].image # dep[cause].image
        BY <1>4, <1>5 DEF IsRollback
      <3> QED
        BY <2>1, <3>1, <3>2, <3>3 DEF IsRevision
    <2>2. CASE x # e
      <3> DEFINE t == dep[x].of
                 c == dep[x].cause
      <3>1. dep'[x].of = t /\ dep'[x].cause = c
        BY <1>5, <2>2
      <3>2. t \in Deps /\ c \in Deps \cup {None}
        BY <1>0, <3>1, RowTypes
      <3>3. /\ t < x /\ IsRevision(t)
            /\ c # None => /\ dep[c].of = None
                           /\ spent["inspect"] = 0 => dep[t].image # dep[c].image
        BY <3>1 DEF RevisionsInv, RollbacksChangeTheImage, IsRollback
      <3>4. c # None => dep[c].image # None
        BY DEF RevisionsInv, CausedOnce
      <3>5. dep'[t] = dep[t] /\ (c # None => dep'[c] = dep[c])
        BY <1>3, <1>5, <3>2, <3>3, <3>4 DEF IsRevision
      <3> HIDE DEF t, c
      <3> QED
        BY <3>1, <3>3, <3>5 DEF IsRevision
    <2> QED
      BY <2>1, <2>2
  <1>11. ASSUME spent'["error"] = 0, NEW x \in Deps
         PROVE  /\ pc'[x] = "failed" => ~Live(x)'
                /\ \A y \in Deps \ {x} : LiveApart(x, y)'
    <2>1. ~Live(e)'
      BY <1>5 DEF Live, LiveHealth
    <2>2. \A y \in Deps \ {e} : /\ Live(y)' = Live(y) /\ pc'[y] = pc[y]
                                /\ Unsettled(y)' = Unsettled(y)
      BY <1>1, <1>5 DEF Live, Unsettled
    <2> HIDE DEF Live, Unsettled
    <2> QED
      BY <1>1, <1>11, <2>1, <2>2 DEF RevisionsInv, LiveApart
  <1>12. NoForgottenWatch'
    <2> SUFFICES ASSUME NEW x \in Deps, dep'[x].health = "watching"
                 PROVE  \/ watch'[x].at # "off"
                        \/ job'[x] \in {"executed", "finalizing", "cancelled"}
                        \/ pc'[x] \in {"row", "cleared"}
                        \/ \E f \in Deps : dep'[f].cause = x
                        \/ spent'["error"] > 0
      BY DEF NoForgottenWatch
    <2>1. x # e /\ dep[x].health = "watching" /\ pc'[x] = pc[x]
      BY <1>1, <1>5
    <2>2. \A f \in Deps : dep[f].cause = x => dep'[f].cause = x
      BY <1>1, <1>5, NoneAssumption DEF RevisionsInv, CausedOnce, Created
    <2>3. CASE x = cause
      BY <1>5, <2>3
    <2>4. CASE x # cause
      BY <1>6, <2>1, <2>2, <2>4 DEF RevisionsInv, NoForgottenWatch
    <2> QED
      BY <2>3, <2>4
  <1>13. \A x \in Deps : CausedOnce(x)'
    BY <1>9 DEF CausedOnce
  <1> QED
    BY <1>7, <1>8, <1>10, <1>11, <1>12, <1>13 DEF RevisionsInv

\* A user deploys, or deploys an earlier revision.
LEMMA DeployStep ==
    ASSUME RevisionsInv, NEW d \in Deps, Deploy(d) \/ DeployRevision(d)
    PROVE  RevisionsInv'
  <1>1. PICK of \in Deps \cup {None} :
           /\ Create(d, of, None) /\ UNCHANGED <<job, out, cancelling, svc, watch, spent>>
           /\ of # None => IsRevision(of)
    <2>1. CASE Deploy(d)
      BY <2>1, Zenon DEF Deploy
    <2>2. CASE DeployRevision(d)
      <3>1. PICK e \in Deps : IsRevision(Root(e)) /\ Create(d, Root(e), None)
        BY <2>2, Zenon DEF DeployRevision, Created
      <3>2. UNCHANGED <<job, out, cancelling, svc, watch, spent>>
        BY <2>2, Zenon DEF DeployRevision
      <3> QED
        BY <3>1, <3>2, UserRootFacts
    <2> QED
      BY <2>1, <2>2
  <1> QED
    BY <1>1, CreateKeeps

\* The watch asks for the rollback.
LEMMA RollBackStep ==
    ASSUME RevisionsInv, NEW d \in Deps, RollBack(d)
    PROVE  RevisionsInv'
  <1>1. PICK e \in Deps : Create(e, watch[d].target, d)
    BY Zenon DEF RollBack
  <1>2. /\ watch[d].at = "rollback" /\ Ends(d) /\ UNCHANGED <<job, out, cancelling, svc, spent>>
    BY Zenon DEF RollBack
  <1>3. /\ watch[d].target \in Deps /\ IsRevision(watch[d].target)
        /\ ~IsRollback(d) /\ dep[d].image # None
        /\ spent["inspect"] = 0 => dep[watch[d].target].image # dep[d].image
    BY <1>2, RowTypes DEF RevisionsInv, Targets
  <1>4. Watch(d, "off", None) /\ watch[d].at \notin Undecided
    BY <1>2, EndsFacts DEF RevisionsInv, Undecided
  <1> QED
    BY <1>1, <1>2, <1>3, <1>4, NoneAssumption, CreateKeeps

-----------------------------------------------------------------------------
(* Restarts.                                                               *)

\* The sweep takes a job of an app stage one step back, and no other.
LEMMA SweepFacts ==
    ASSUME RevisionsInv, NEW listed \in BOOLEAN, Restart(listed), NEW d \in Deps
    PROVE  /\ job[d] = "run" => job'[d] = "queued"
           /\ job[d] = "finalizing" => job'[d] = "executed"
           /\ job[d] \notin {"run", "finalizing"} => job'[d] = job[d]
  <1>1. job' = [x \in Deps |-> CASE job[x] = "run" -> "queued"
                                 [] job[x] = "finalizing" -> "executed"
                                 [] OTHER -> job[x]]
    BY Zenon DEF Restart
  <1>2. job'[d] = CASE job[d] = "run" -> "queued"
                    [] job[d] = "finalizing" -> "executed"
                    [] OTHER -> job[d]
    BY <1>1, Zenon
  <1>3. CASE job[d] = "run"
    BY <1>2, <1>3
  <1>4. CASE job[d] = "finalizing"
    BY <1>2, <1>4
  <1>5. CASE job[d] \notin {"run", "finalizing"}
    BY <1>2, <1>5
  <1> QED
    BY <1>3, <1>4, <1>5

\* The rows that are watching are watched again.
LEMMA ResumeFacts ==
    ASSUME RevisionsInv, NEW listed \in BOOLEAN, Restart(listed)
    PROVE  /\ watch' \in [Deps -> WatchRecords]
           /\ \A d \in Deps : watch'[d].at = IF listed /\ dep[d].health = "watching"
                                             THEN "start" ELSE "off"
  <1> DEFINE y == [Off EXCEPT !.at = "start"]
  <1>1. y \in WatchRecords /\ y.at = "start" /\ Off \in WatchRecords /\ Off.at = "off"
    BY DEF Off, WatchRecords, WatchPoints
  <1>2. watch' = [d \in Deps |-> IF listed /\ d \in Resumed THEN y ELSE Off]
    BY Zenon DEF Restart
  <1>3. \A d \in Deps : d \in Resumed <=> dep[d].health = "watching"
    BY DEF Resumed, Watched
  <1> HIDE DEF y, Off, Resumed
  <1> QED
    BY <1>1, <1>2, <1>3

LEMMA RestartStep ==
    ASSUME RevisionsInv, NEW listed \in BOOLEAN, Restart(listed)
    PROVE  RevisionsInv'
  <1>0. TypeOK /\ spent \in [FaultKinds -> Nat] /\ spent["error"] \in Nat
    BY DEF RevisionsInv, TypeOK, FaultKinds
  <1>1. /\ UNCHANGED <<dep, out, svc>> /\ pc' = [d \in Deps |-> "idle"] /\ cancelling' = {}
        /\ Spend(IF listed THEN "restart" ELSE "error")
    BY Zenon DEF Restart
  <1>2. /\ spent' \in [FaultKinds -> Nat]
        /\ spent'["error"] = 0 => spent["error"] = 0 /\ listed
    <2>1. "error" \in FaultKinds /\ "restart" \in FaultKinds \ {"error"}
      BY DEF FaultKinds
    <2>2. CASE listed
      BY <1>0, <1>1, <2>1, <2>2, OtherFault
    <2>3. CASE ~listed
      <3>1. spent' \in [FaultKinds -> Nat] /\ spent'["error"] = spent["error"] + 1
        BY <1>0, <1>1, <2>1, <2>3, SpendFacts
      <3> QED
        BY <1>0, <3>1
    <2> QED
      BY <2>2, <2>3
  <1>i. spent'["inspect"] = spent["inspect"]
    BY <1>0, <1>1, InspectKept DEF FaultKinds
  <1>3. \A d \in Deps : /\ pc'[d] = "idle" /\ (Unsettled(d) => Unsettled(d)')
                        /\ watch'[d].at = IF listed /\ dep[d].health = "watching"
                                          THEN "start" ELSE "off"
    BY <1>1, SweepFacts, ResumeFacts DEF Unsettled
  <1>4. TypeOK'
    <2>1. job' \in [Deps -> JobStates]
      <3>1. job' = [d \in Deps |-> job'[d]]
        BY Zenon DEF Restart
      <3>2. \A d \in Deps : job'[d] \in JobStates
        BY <1>0, SweepFacts DEF TypeOK, JobStates
      <3> QED
        BY <3>1, <3>2
    <2>2. watch' \in [Deps -> WatchRecords]
      BY ResumeFacts
    <2> QED
      BY <1>0, <1>1, <1>2, <2>1, <2>2 DEF TypeOK, Points, WatchRecords
  <1>5. \A x \in Deps : Stays(x)
    BY <1>1 DEF Stays, RevisionsInv, Imaged
  <1>6. ASSUME NEW x \in Deps
        PROVE  Flow(x)' /\ Fresh(x)' /\ Imaged(x)' /\ RunsTarget(x)' /\ Targets(x)'
    <2>1. Flow(x) /\ Fresh(x) /\ Imaged(x) /\ pc'[x] = "idle"
      BY <1>3 DEF RevisionsInv
    <2>2. Flow(x)' /\ Fresh(x)'
      BY <1>1, <2>1, SweepFacts DEF Flow, Fresh
    <2>3. Imaged(x)'
      BY <1>1, <2>1, SweepFacts DEF Imaged
    <2>4. RunsTarget(x)'
      BY <1>1, <1>5, <1>i, RunsTargetKept
    <2>5. Targets(x)'
      BY <1>1, <1>3, <2>1 DEF Targets, Imaged
    <2> QED
      BY <2>2, <2>3, <2>4, <2>5
  <1>7. \A x \in Deps : CausedOnce(x)'
    BY <1>3, <1>5, CausedKept DEF Undecided
  <1>8. RollbacksChangeTheImage'
    BY <1>5, <1>i, RollbacksKept
  <1>9. ASSUME spent'["error"] = 0, NEW x \in Deps
        PROVE  /\ pc'[x] = "failed" => ~Live(x)'
               /\ \A y \in Deps \ {x} : LiveApart(x, y)'
    <2>1. \A y \in Deps : Live(y)' = Live(y)
      BY <1>1 DEF Live
    <2>2. \A y \in Deps \ {x} : LiveApart(x, y)
      BY <1>2, <1>9 DEF RevisionsInv
    <2> HIDE DEF Live, Unsettled
    <2> QED
      BY <1>3, <2>1, <2>2 DEF LiveApart
  <1>10. NoForgottenWatch'
    <2> SUFFICES ASSUME NEW x \in Deps, dep'[x].health = "watching", watch'[x].at = "off"
                 PROVE  spent'["error"] > 0
      BY DEF NoForgottenWatch
    <2>1. ~listed
      BY <1>1, <1>3
    <2>2. spent'["error"] # 0 /\ spent'["error"] \in Nat
      BY <1>2, <2>1 DEF FaultKinds
    <2> QED
      BY <2>2
  <1> QED
    BY <1>4, <1>6, <1>7, <1>8, <1>9, <1>10 DEF RevisionsInv

-----------------------------------------------------------------------------
(* The theorems.                                                           *)

LEMMA InitRevisions ==
    Init => RevisionsInv
  <1> SUFFICES ASSUME Init
               PROVE  RevisionsInv
    OBVIOUS
  <1> DEFINE image == CHOOSE i \in Images : TRUE
             first == [Absent EXCEPT !.status = "running", !.health = "healthy",
                                     !.image = image]
             none == [kind |-> "none", image |-> None]
  <1>1. image \in Images
    BY DepsAssumption
  <1>2. /\ job = [d \in Deps |-> IF d = Existing THEN "ended" ELSE "none"]
        /\ dep = [d \in Deps |-> IF d = Existing THEN first ELSE Absent]
        /\ out = [d \in Deps |-> none]
        /\ pc = [d \in Deps |-> "idle"] /\ cancelling = {} /\ watch = [d \in Deps |-> Off]
        /\ svc = [workload |-> Existing, desired |-> "running"]
        /\ spent = [f \in FaultKinds |-> 0]
    BY Zenon DEF Init
  <1> HIDE DEF image
  <1>3. /\ Absent \in Rows /\ Absent.status = "absent" /\ Absent.health = "none"
        /\ Absent.image = None /\ Absent.of = None /\ Absent.cause = None
    BY DEF Absent, Rows
  <1>4. /\ first \in Rows /\ first.status = "running" /\ first.health = "healthy"
        /\ first.image = image /\ first.of = None /\ first.cause = None
    <2>1. "healthy" \in {"none"} \cup LiveHealth \cup BadHealth /\ image \in Images \cup {None}
      BY <1>1 DEF LiveHealth
    <2> QED
      BY <2>1, <1>1 DEF Absent, Rows
  <1>5. /\ Off \in WatchRecords /\ Off.at = "off" /\ none \in Outcomes /\ none.kind = "none"
    BY DEF Off, WatchRecords, WatchPoints, Outcomes
  <1> HIDE DEF first, none, Off, Absent
  <1>6. TypeOK
    BY <1>2, <1>3, <1>4, <1>5, DepsAssumption
       DEF TypeOK, WatchRecords, Points, JobStates, FaultKinds
  <1>7. ASSUME NEW d \in Deps
        PROVE  /\ pc[d] = "idle" /\ watch[d].at = "off" /\ out[d].kind = "none"
               /\ dep[d].of = None /\ dep[d].cause = None
               /\ d = Existing => /\ dep[d].status = "running" /\ dep[d].health = "healthy"
                                  /\ job[d] = "ended"
               /\ d # Existing => /\ dep[d].status = "absent" /\ dep[d].health = "none"
                                  /\ job[d] = "none" /\ dep[d].image = None
               /\ dep[d].health # "none" => dep[d].image # None
    BY <1>1, <1>2, <1>3, <1>4, <1>5, NoneAssumption
  <1>8. \A d \in Deps : /\ Flow(d) /\ Fresh(d) /\ Imaged(d) /\ RunsTarget(d)
                        /\ Targets(d) /\ CausedOnce(d)
    BY <1>7 DEF Flow, Fresh, Imaged, RunsTarget, Targets, CausedOnce
  <1>9. RollbacksChangeTheImage /\ NoForgottenWatch
    BY <1>7 DEF RollbacksChangeTheImage, NoForgottenWatch
  <1>10. \A d \in Deps : /\ pc[d] = "failed" => ~Live(d)
                         /\ \A e \in Deps \ {d} : LiveApart(d, e)
    BY <1>7 DEF LiveApart, Live, LiveHealth
  <1> QED
    BY <1>6, <1>8, <1>9, <1>10 DEF RevisionsInv

LEMMA NextRevisions ==
    RevisionsInv /\ [Next]_vars => RevisionsInv'
  <1>1. ASSUME RevisionsInv, UNCHANGED vars
        PROVE  RevisionsInv'
    BY <1>1 DEF vars, RevisionsInv, TypeOK, Flow, Fresh, Imaged, RunsTarget, Targets,
                CausedOnce, RollbacksChangeTheImage, LiveApart, Live, Unsettled,
                NoForgottenWatch, IsRevision, IsRollback
  <1>2. ASSUME RevisionsInv, NEW d \in Deps, Request(d)
        PROVE  RevisionsInv'
    BY <1>2, DeployStep, EnqueueStep, CloseCoalescedStep, CancelRowStep, CancelJobStep
       DEF Request
  <1>3. ASSUME RevisionsInv, NEW d \in Deps, Promise(d)
        PROVE  RevisionsInv'
    BY <1>3, ClaimStep, PrepareStep, HandOffStep, FinalizeFailureStep, RecordServiceStep,
       RecordRowStep, ClearStep, FinalizeSuccessStep, JobFailsStep, FinalizeThrowsStep
       DEF Promise
  <1>4. ASSUME RevisionsInv, NEW d \in Deps, WatchStep(d)
        PROVE  RevisionsInv'
    BY <1>4, PollStep, SettleStep, ChooseTargetStep, SettleUnhealthyStep, RollBackStep
       DEF WatchStep
  <1>5. ASSUME RevisionsInv, Next
        PROVE  RevisionsInv'
    BY <1>2, <1>3, <1>4, <1>5, ExecuteStep, WatchFailsStep, SetDesiredStep, RestartStep
       DEF Next
  <1> QED
    BY <1>1, <1>5

\* The rows, jobs, promises and watches fit each other at every await of the app.
THEOREM RevisionsInvariant == Spec => []RevisionsInv
  BY InitRevisions, NextRevisions, PTL DEF Spec

\* Types of the rows, the jobs, the outcomes and the watches.
THEOREM RevisionTypes == Spec => []TypeOK
  <1>1. RevisionsInv => TypeOK
    BY DEF RevisionsInv
  <1> QED
    BY <1>1, RevisionsInvariant, PTL

\* Whatever the limit of listRevisions: a rollback names an older revision, an
\* automatic one follows no rollback, so that they cannot loop, and names another
\* image key than the one found unhealthy unless an inspection failed.
THEOREM RollbacksDoNotLoop == Spec => []RollbacksChangeTheImage
  <1>1. RevisionsInv => RollbacksChangeTheImage
    BY DEF RevisionsInv
  <1> QED
    BY <1>1, RevisionsInvariant, PTL

\* Restarts, replayed finalizes and overlapping cancels forget no watch.
THEOREM WatchesAreNotForgotten == Spec => []NoForgottenWatch
  <1>1. RevisionsInv => NoForgottenWatch
    BY DEF RevisionsInv
  <1> QED
    BY <1>1, RevisionsInvariant, PTL

\* clearSupersededHealth leaves one live revision once its finalize is done.
THEOREM OneRevisionIsLive == Spec => []OneLiveRevision
  <1>1. ASSUME RevisionsInv
        PROVE  OneLiveRevision
    <2>1. spent["error"] \in Nat
      BY <1>1 DEF RevisionsInv, TypeOK, FaultKinds
    <2> SUFFICES ASSUME NEW d \in Deps, NEW e \in Deps, d # e, Live(d), Live(e),
                        spent["error"] = 0
                 PROVE  \E f \in {d, e} : Unsettled(f)
      BY <2>1 DEF OneLiveRevision, Live, Unsettled
    <2>2. LiveApart(d, e)
      BY <1>1 DEF RevisionsInv
    <2> QED
      BY <2>2 DEF LiveApart
  <1> QED
    BY <1>1, RevisionsInvariant, PTL

\* A watch armed again after its rollback finds a newer deployment and stops.
THEOREM RevisionsRollBackOnce == Spec => []RolledBackOnce
  <1>1. ASSUME RevisionsInv
        PROVE  RolledBackOnce
    <2> SUFFICES ASSUME NEW d \in Deps
                 PROVE  Cardinality({e \in Deps : dep[e].cause = d}) <= 1
      BY DEF RolledBackOnce
    <2> DEFINE S == {e \in Deps : dep[e].cause = d}
    <2>1. S = {} \/ \E e : S = {e}
      <3> SUFFICES ASSUME NEW e \in S
                   PROVE  S = {e}
        OBVIOUS
      <3>1. \A f \in S : f = e
        BY <1>1, NoneAssumption DEF RevisionsInv, CausedOnce
      <3> QED
        BY <3>1
    <2> HIDE DEF S
    <2>2. Cardinality(S) \in {0, 1}
      BY <2>1, FS_EmptySet, FS_Singleton
    <2>3. Cardinality(S) <= 1
      BY <2>2
    <2> QED
      BY <2>3 DEF S
  <1> QED
    BY <1>1, RevisionsInvariant, PTL

-----------------------------------------------------------------------------
(* As long as listRevisions leaves no revision out.                        *)

\* Every revision is listed.
LEMMA ListedFacts ==
    ASSUME AllListed, NEW d \in Deps, IsRevision(d)
    PROVE  d \in Listed
  <1> DEFINE S == {e \in Deps : IsRevision(e) /\ e > d}
             T == Deps \ {d}
  <1>1. IsFiniteSet(Deps) /\ Cardinality(Deps) \in Nat /\ Cardinality(Deps) <= ListLimit
    BY FS_CardinalityType DEF AllListed
  <1>2. IsFiniteSet(T) /\ Cardinality(T) = Cardinality(Deps) - 1
    BY <1>1, FS_RemoveElement
  <1>3. S \subseteq T
    BY DepsAssumption
  <1>4. Cardinality(S) <= Cardinality(T) /\ Cardinality(S) \in Nat
    <2> HIDE DEF S, T
    <2> QED
      BY <1>2, <1>3, FS_Subset, FS_CardinalityType
  <1>5. Cardinality(S) < ListLimit
    <2> HIDE DEF S, T
    <2> QED
      BY <1>1, <1>2, <1>4, LimitsAssumption
  <1> QED
    BY <1>5 DEF Listed

\* A chain goes on as long as the row is listed, so that it ends at an original.
LEMMA OriginalTarget ==
    ASSUME RevisionsInv, AllListed, NEW d \in Deps, RollbackTarget(d) # None
    PROVE  RollbackTarget(d) \in Deps /\ ~IsRollback(RollbackTarget(d))
  <1> DEFINE p == PreviousRevision(d)
             r == RevisionRoot(Listed, p)
  <1>1. RollbackTarget(d) = r /\ p # None
    BY DEF RollbackTarget
  <1>2. p \in Deps /\ IsRevision(p) /\ Listed \in SUBSET Deps
    BY <1>1, PreviousFacts DEF RevisionsInv, Listed
  <1> HIDE DEF p
  <1>3. r \in Chain(Listed, p) /\ r \in Deps /\ \A y \in Chain(Listed, p) : r <= y
    BY <1>2, RootFacts
  <1> HIDE DEF r
  <1>4. ASSUME dep[r].of # None
        PROVE  FALSE
    <2>1. dep[r].of \in Deps /\ dep[r].of < r /\ dep[r].of \in Listed
      BY <1>3, <1>4, LinkFacts, ListedFacts
    <2>2. dep[r].of \in Chain(Listed, p)
      BY <1>3, <2>1 DEF Chain
    <2>3. r <= dep[r].of /\ r \in Nat /\ dep[r].of \in Nat
      BY <1>3, <2>1, <2>2, DepsAssumption
    <2> QED
      BY <2>1, <2>3
  <1> QED
    BY <1>1, <1>3, <1>4 DEF IsRollback

\* A step that creates no row and chooses no target.
Quiet == \A x \in Deps :
            /\ dep'[x].of = dep[x].of /\ dep'[x].cause = dep[x].cause
            /\ watch'[x].at \in {"settle", "rollback"} =>
                  watch[x].at \in {"settle", "rollback"} /\ watch'[x].target = watch[x].target

LEMMA QuietKeeps ==
    ASSUME RevisionsInv, OriginalsInv, Quiet
    PROVE  OriginalsInv'
  <1>1. \A x \in Deps : /\ dep[x].of \in Deps \cup {None}
                        /\ watch[x].target \in Deps \cup {None}
    BY RowTypes DEF RevisionsInv
  <1> QED
    BY <1>1 DEF OriginalsInv, Quiet, IsRollback

LEMMA QuietSteps ==
    ASSUME RevisionsInv, NEW d \in Deps,
           \/ EnqueueJob(d) \/ CloseCoalesced(d) \/ CancelRow(d) \/ CancelJob(d)
           \/ Promise(d) \/ Execute(d) \/ WatchFails(d)
           \/ Begin(d) \/ Poll(d) \/ SettleStale(d) \/ SettleHealthy(d) \/ SettleUnhealthy(d)
    PROVE  Quiet
  <1>0. TypeOK
    BY DEF RevisionsInv
  <1>1. CASE \/ EnqueueJob(d) \/ CancelJob(d) \/ Claim(d) \/ HandOff(d) \/ Execute(d)
             \/ ClaimFinalize(d) \/ RecordService(d) \/ JobFails(d) \/ FinalizeThrows(d)
    <2>1. dep' = dep /\ watch' = watch
      BY <1>1, Zenon DEF EnqueueJob, CancelJob, Claim, HandOff, Execute, ClaimFinalize,
                         RecordService, JobFails, FinalizeThrows
    <2> QED
      BY <2>1 DEF Quiet
  <1>2. CASE \/ CloseCoalesced(d) \/ CancelRow(d) \/ Start(d) \/ PrepareFails(d)
             \/ FinalizeFailure(d)
    <2>1. /\ watch' = watch
          /\ \E status \in {"stopped", "failed", "pulling"} :
                 dep' = [dep EXCEPT ![d].status = status]
      BY <1>2, Zenon DEF CloseCoalesced, CancelRow, Start, PrepareFails, FinalizeFailure
    <2>2. PICK status \in {"stopped", "failed", "pulling"} :
             Row(d, status, dep[d].health, dep[d].image, dep[d].of, dep[d].cause)
      BY <1>0, <2>1, StatusFacts
    <2> QED
      BY <2>1, <2>2 DEF Quiet, Row
  <1>3. CASE RecordRow(d)
    <2>1. watch' = watch
      BY <1>3, Zenon DEF RecordRow
    <2> QED
      BY <1>0, <1>3, <2>1, RecordFacts DEF Quiet, Row
  <1>4. CASE ClearSupersededHealth(d)
    <2>1. watch' = watch
      BY <1>4, Zenon DEF ClearSupersededHealth
    <2> QED
      BY <1>0, <1>4, <2>1, ClearFacts DEF Quiet
  <1>5. CASE FinalizeSuccess(d)
    <2>1. dep' = dep
      BY <1>5, Zenon DEF FinalizeSuccess
    <2>2. watch' = watch \/ watch' = [watch EXCEPT ![d] = [Off EXCEPT !.at = "start"]]
      BY <1>5, Zenon DEF FinalizeSuccess
    <2> QED
      BY <1>0, <2>1, <2>2, StartsFacts DEF Quiet, Watch
  <1>6. CASE WatchFails(d) \/ SettleStale(d) \/ SettleHealthy(d)
    <2>1. Ends(d) /\ (dep' = dep \/ SettleHealth(d, "none") \/ SettleHealth(d, "healthy"))
      BY <1>6, Zenon DEF WatchFails, SettleStale, SettleHealthy
    <2> QED
      BY <1>0, <2>1, EndsFacts, HealthFacts DEF Quiet, Watch, Row
  <1>7. CASE Begin(d)
    <2>1. dep' = dep
      BY <1>7, Zenon DEF Begin
    <2> QED
      BY <1>0, <1>7, <2>1, BeginFacts DEF Quiet, Watch
  <1>8. CASE Poll(d)
    <2>1. /\ dep' = dep
          /\ \E point \in {"poll", "healthy", "unhealthy", "stale"} : At(d, point)
      BY <1>8, Zenon DEF Poll
    <2> QED
      BY <1>0, <2>1, AtFacts DEF Quiet, Watch, WatchPoints
  <1>9. CASE SettleUnhealthy(d)
    <2>1. /\ watch[d].at = "settle" /\ (At(d, "rollback") \/ Ends(d))
          /\ \E health \in {"unhealthy", "rolled_back"} : SettleHealth(d, health)
      BY <1>9, Zenon DEF SettleUnhealthy
    <2>2. \A x \in Deps : dep'[x].of = dep[x].of /\ dep'[x].cause = dep[x].cause
      BY <1>0, <2>1, HealthFacts DEF Row
    <2> QED
      BY <1>0, <2>1, <2>2, AtFacts, EndsFacts DEF Quiet, Watch, WatchPoints
  <1> QED
    BY <1>1, <1>2, <1>3, <1>4, <1>5, <1>6, <1>7, <1>8, <1>9 DEF Promise

\* The row of a new deployment points to no rollback if a watch asked for it.
LEMMA CreateOriginal ==
    ASSUME RevisionsInv, OriginalsInv, NEW e \in Deps, NEW of \in Deps \cup {None},
           NEW cause \in Deps \cup {None}, Create(e, of, cause),
           \A x \in Deps : watch'[x] = watch[x] \/ watch'[x].at = "off",
           cause # None => of # None /\ of # e /\ ~IsRollback(of)
    PROVE  OriginalsInv'
  <1>1. /\ \A x \in Deps \ {e} : dep'[x] = dep[x]
        /\ dep'[e].of = of /\ dep'[e].cause = cause /\ e \notin Created
    BY CreateFacts DEF RevisionsInv, Row
  <1>2. dep[e].image = None
    BY <1>1 DEF RevisionsInv, Fresh, Created
  <1>3. ASSUME NEW d \in Deps, watch'[d].at \in {"settle", "rollback"},
               watch'[d].target # None
        PROVE  dep'[watch'[d].target].of = None
    <2>1. watch'[d] = watch[d] /\ watch[d].target \in Deps
      BY <1>3, RowTypes DEF RevisionsInv
    <2>2. watch[d].target # e
      BY <1>2, <1>3, <2>1 DEF RevisionsInv, Targets, IsRevision
    <2> QED
      BY <1>1, <1>3, <2>1, <2>2 DEF OriginalsInv, IsRollback
  <1>4. ASSUME NEW x \in Deps, dep'[x].cause # None
        PROVE  dep'[x].of # None /\ dep'[dep'[x].of].of = None
    <2>1. CASE x = e
      BY <1>1, <1>4, <2>1 DEF IsRollback
    <2>2. CASE x # e
      <3>1. dep'[x] = dep[x] /\ dep[x].of # None /\ dep[dep[x].of].of = None
        BY <1>1, <1>4, <2>2 DEF OriginalsInv, IsRollback
      <3>2. dep[x].of \in Deps /\ dep[x].of # e
        BY <1>2, <3>1, LinkFacts DEF IsRevision
      <3> QED
        BY <1>1, <3>1, <3>2
    <2> QED
      BY <2>1, <2>2
  <1> QED
    BY <1>3, <1>4 DEF OriginalsInv, IsRollback

LEMMA OriginalsStep ==
    ASSUME RevisionsInv, OriginalsInv, AllListed, [Next]_vars
    PROVE  OriginalsInv'
  <1>0. TypeOK
    BY DEF RevisionsInv
  <1>1. CASE UNCHANGED vars
    <2>1. Quiet
      BY <1>1 DEF vars, Quiet
    <2> QED
      BY <2>1, QuietKeeps
  <1>2. ASSUME NEW state \in {"running", "stopped"}, SetDesired(state)
        PROVE  OriginalsInv'
    <2>1. Quiet
      BY <1>2 DEF SetDesired, Quiet
    <2> QED
      BY <2>1, QuietKeeps
  <1>3. ASSUME NEW listed \in BOOLEAN, Restart(listed)
        PROVE  OriginalsInv'
    <2>1. dep' = dep
      BY <1>3, Zenon DEF Restart
    <2>2. Quiet
      BY <1>3, <2>1, ResumeFacts DEF Quiet
    <2> QED
      BY <2>2, QuietKeeps
  <1>4. ASSUME NEW d \in Deps, Deploy(d)
        PROVE  OriginalsInv'
    <2>1. Create(d, None, None) /\ watch' = watch
      BY <1>4, Zenon DEF Deploy
    <2> QED
      BY <2>1, CreateOriginal
  <1>5. ASSUME NEW d \in Deps, DeployRevision(d)
        PROVE  OriginalsInv'
    <2>1. PICK e \in Deps : Create(d, Root(e), None)
      BY <1>5, Zenon DEF DeployRevision, Created
    <2>2. watch' = watch
      BY <1>5, Zenon DEF DeployRevision
    <2> QED
      BY <2>1, <2>2, UserRootFacts, CreateOriginal
  <1>6. ASSUME NEW d \in Deps, RollBack(d)
        PROVE  OriginalsInv'
    <2>1. PICK e \in Deps : Create(e, watch[d].target, d)
      BY <1>6, Zenon DEF RollBack
    <2>2. watch[d].at = "rollback" /\ Ends(d)
      BY <1>6, Zenon DEF RollBack
    <2>3. /\ watch[d].target \in Deps /\ dep[watch[d].target].image # None
          /\ ~IsRollback(watch[d].target)
      BY <2>2, RowTypes DEF RevisionsInv, Targets, OriginalsInv, IsRevision
    <2>4. watch[d].target # e
      BY <1>0, <2>1, <2>3, CreateFacts DEF RevisionsInv, Fresh, Created
    <2>5. \A x \in Deps : watch'[x] = watch[x] \/ watch'[x].at = "off"
      BY <1>0, <2>2, EndsFacts DEF Watch
    <2> QED
      BY <2>1, <2>3, <2>4, <2>5, NoneAssumption, CreateOriginal
  <1>7. ASSUME NEW d \in Deps, ChooseTarget(d)
        PROVE  OriginalsInv'
    <2>1. PICK target \in {None, RollbackTarget(d)} : Watch(d, "settle", target)
      BY <1>7, ChooseFacts
    <2>2. dep' = dep
      BY <1>7, Zenon DEF ChooseTarget
    <2>3. target # None => ~IsRollback(target)
      BY OriginalTarget
    <2> QED
      BY <2>1, <2>2, <2>3 DEF OriginalsInv, IsRollback, Watch
  <1>8. ASSUME NEW d \in Deps,
               \/ EnqueueJob(d) \/ CloseCoalesced(d) \/ CancelRow(d) \/ CancelJob(d)
               \/ Promise(d) \/ Execute(d) \/ WatchFails(d)
               \/ Begin(d) \/ Poll(d) \/ SettleStale(d) \/ SettleHealthy(d)
               \/ SettleUnhealthy(d)
        PROVE  OriginalsInv'
    BY <1>8, QuietSteps, QuietKeeps
  <1>9. ASSUME NEW d \in Deps, Request(d) \/ WatchStep(d) \/ Promise(d) \/ Execute(d)
                                  \/ WatchFails(d)
        PROVE  OriginalsInv'
    BY <1>4, <1>5, <1>6, <1>7, <1>8, <1>9 DEF Request, WatchStep
  <1> QED
    BY <1>1, <1>2, <1>3, <1>9 DEF Next

(***************************************************************************)
(* As long as a service has no more deployments than listRevisions returns *)
(* an automatic rollback names an original deploy, never a redeploy.       *)
(***************************************************************************)
THEOREM ListedTargetsAreOriginal ==
    ASSUME AllListed
    PROVE  Spec => []TargetIsOriginal
  <1>1. ASSUME Init
        PROVE  OriginalsInv
    <2>1. dep = [d \in Deps |->
                   IF d = Existing
                   THEN [Absent EXCEPT !.status = "running", !.health = "healthy",
                                       !.image = CHOOSE i \in Images : TRUE]
                   ELSE Absent]
      BY <1>1, Zenon DEF Init
    <2>2. \A i : [Absent EXCEPT !.status = "running", !.health = "healthy",
                                !.image = i].cause = None
      BY DEF Absent
    <2>3. Absent.cause = None
      BY DEF Absent
    <2>4. \A d \in Deps : dep[d].cause = None
      BY <2>1, <2>2, <2>3, Zenon
    <2>5. \A d \in Deps : watch[d].at = "off"
      BY <1>1 DEF Init, Off
    <2> QED
      BY <2>4, <2>5 DEF OriginalsInv
  <1>2. RevisionsInv /\ OriginalsInv /\ [Next]_vars => OriginalsInv'
    BY OriginalsStep
  <1>3. OriginalsInv => TargetIsOriginal
    BY DEF OriginalsInv, TargetIsOriginal
  <1> QED
    BY <1>1, <1>2, <1>3, RevisionsInvariant, PTL DEF Spec

=============================================================================
