--------------------------- MODULE MCAdvancedRuntime ---------------------------
(* A static preset on two keyboards and an animated one on the first. *)
EXTENDS AdvancedRuntime, TLC

CONSTANTS k1, k2, static, wave, w1, r1, r2

MCSerials == {k1, k2}
MCPresets == {static, wave}
MCPrograms == [p \in MCPresets |-> IF p = static THEN MCSerials ELSE {k1}]
MCAnimated == {wave}
MCWorkers == {w1}
MCRenderers == {r1, r2}
Alike == Permutations(MCRenderers)
=============================================================================
