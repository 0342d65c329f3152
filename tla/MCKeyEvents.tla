----------------------------- MODULE MCKeyEvents -----------------------------
(***************************************************************************)
(* The engine's clients with one device of each kind.                       *)
(***************************************************************************)
EXTENDS EngineClients

CONSTANTS kbd, mouse

EffectNames == {kbd}
CapturedNames == {mouse}
=============================================================================
