----------------------------- MODULE MCRevisions -----------------------------
(* Instances of Revisions for TLC. *)
EXTENDS Revisions

OneEach == [f \in FaultKinds |-> 1]
=============================================================================
