------------------------------ MODULE MCRollout ------------------------------
(* Instances of Rollout for TLC. *)
EXTENDS Rollout

Plain == [hostNetwork |-> FALSE, publishesPorts |-> FALSE,
          routed |-> TRUE, writable |-> FALSE]

\* Next to the old one; next to it with a retry; always stopping first.
MCSettings == {Plain, [Plain EXCEPT !.writable = TRUE],
               [Plain EXCEPT !.publishesPorts = TRUE]}
=============================================================================
