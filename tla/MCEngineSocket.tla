---------------------------- MODULE MCEngineSocket ----------------------------
(* Three engine processes: one that leaves, two that come. *)
EXTENDS EngineSocket, TLC

CONSTANTS e1, e2, e3
MCEngines == {e1, e2, e3}
Alike == Permutations(MCEngines)
=============================================================================
