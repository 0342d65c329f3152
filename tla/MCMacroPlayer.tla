----------------------------- MODULE MCMacroPlayer -----------------------------
(* A toggle macro that holds a key over a tap of another, an N-times macro  *)
(* and a single one that leaves its key down.                               *)
EXTENDS MacroPlayer

CONSTANTS hold, burst, once, A, B, t1, t2

MCTriggers == {hold, burst, once}
MCCodes == {A, B}
MCThreads == {t1, t2}
Do(kind, code) == [kind |-> kind, code |-> code]
MCMacro ==
  [k \in MCTriggers |->
     CASE k = hold  -> [mode |-> "toggle", count |-> 1,
                        steps |-> <<Do("press", A), [kind |-> "delay"], Do("tap", B), Do("release", A)>>]
       [] k = burst -> [mode |-> "times", count |-> 2,
                        steps |-> <<Do("tap", A), [kind |-> "wheel"]>>]
       [] k = once  -> [mode |-> "once", count |-> 1,
                        steps |-> <<Do("press", B), Do("press", A), Do("release", B)>>]]
=============================================================================
