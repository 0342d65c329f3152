----------------------------- MODULE MacroPlayback -----------------------------
(* What playing macros on one device promises: one macro at a time, no new   *)
(* step of it once it was told to stop but the one already decided on, and   *)
(* no key of it down when it is over.                                        *)
CONSTANTS
  Triggers,   \* key codes that trigger a macro
  Codes,      \* key codes the macros press
  NoTrigger   \* none of the triggers

VARIABLES
  run,       \* trigger of the macro that plays, or NoTrigger
  stopping,  \* it was told to stop
  armed,     \* it looked for that and found it may play one more step
  down       \* keys it holds down on the output

vars == <<run, stopping, armed, down>>

TypeOK ==
  /\ run \in Triggers \cup {NoTrigger}
  /\ stopping \in BOOLEAN
  /\ armed \in BOOLEAN
  /\ down \subseteq Codes

Init ==
  /\ run = NoTrigger
  /\ stopping = FALSE
  /\ armed = FALSE
  /\ down = {}

Start(k) ==
  /\ run = NoTrigger
  /\ run' = k
  /\ UNCHANGED <<stopping, armed, down>>

Stop ==
  /\ run # NoTrigger
  /\ stopping' = TRUE
  /\ UNCHANGED <<run, armed, down>>

Arm ==
  /\ run # NoTrigger
  /\ ~stopping
  /\ armed' = TRUE
  /\ UNCHANGED <<run, stopping, down>>

PlayStep ==
  /\ armed
  /\ armed' = FALSE
  /\ \/ \E c \in Codes : down' = down \cup {c}
     \/ \E c \in Codes : down' = down \ {c}
     \/ UNCHANGED down
  /\ UNCHANGED <<run, stopping>>

\* The end of a tap, the releases at the end of a run, and an output that goes
\* away with the keys down on it.
LetGo ==
  /\ down' \in SUBSET down
  /\ UNCHANGED <<run, stopping, armed>>

Finish ==
  /\ run # NoTrigger
  /\ ~armed
  /\ down = {}
  /\ run' = NoTrigger
  /\ stopping' = FALSE
  /\ UNCHANGED <<armed, down>>

Next ==
  \/ \E k \in Triggers : Start(k)
  \/ Stop
  \/ Arm
  \/ PlayStep
  \/ LetGo
  \/ Finish

Spec == Init /\ [][Next]_vars
=============================================================================
