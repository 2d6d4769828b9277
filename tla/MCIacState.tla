----------------------------- MODULE MCIacState -----------------------------
(* Instances of IacState for TLC. *)
EXTENDS IacState, TLC

Symmetry == Permutations(Runs)
=============================================================================
