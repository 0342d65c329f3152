------------------------ MODULE AdvancedRuntimeChoices ------------------------
(***************************************************************************)
(* The per-key lighting runtime with the user's choices remembered: which  *)
(* devices were given other lighting after the last preset was activated   *)
(* for them.  Hueberry keeps no such record; its stand-in is claimed_away.  *)
(***************************************************************************)
EXTENDS AdvancedRuntime

VARIABLE given  \* serials whose lighting the user chose after any preset

\* An effect is written to the device the user chose it for.
Given == UNION {call[w].serials \ gone : w \in {v \in Workers : at[v] = "apply" /\ at'[v] = "done"}}

\* Activate is clicked for a preset with programs for these devices.
Reclaimed == UNION {Programs[call'[w].key] :
                      w \in {v \in Workers : at[v] = "idle" /\ at'[v] = "install"}}

ChoicesInit == Init /\ given = {}
ChoicesNext == Next /\ given' = (given \cup Given) \ Reclaimed
ChoicesSpec == ChoicesInit /\ [][ChoicesNext]_<<vars, given>>

\* restore_last() promises "a reload never takes back a device the user gave
\* other lighting": the targets a reload installs are none of these.
ReloadRespectsLighting ==
  [][at[Gui] = "install" /\ at'[Gui] # "install" => targets' \cap given = {}]_<<vars, given>>
=============================================================================
