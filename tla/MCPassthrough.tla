----------------------------- MODULE MCPassthrough -----------------------------
(* Two plain keys and a trigger. *)
EXTENDS Passthrough

CONSTANTS A, B, T
MCKeys == {A, B, T}
MCTriggers == {T}
=============================================================================
