---------------------------- MODULE MCBuildGates ----------------------------
(* Instances of BuildGates for TLC. *)
EXTENDS BuildGates

CONSTANT h1

\* Both services are pinned to one server that builds one at a time.
MCBuildServer == [j \in Jobs |-> h1]
MCLimit == [h \in Hosts |-> IF h = h1 THEN 1 ELSE 0]
=============================================================================
