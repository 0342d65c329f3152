---------------------------- MODULE EffectsEditing ----------------------------
(***************************************************************************)
(* The page that creates per-key effects (ui/effects_page.py) with its     *)
(* groups panel (ui/effects_groups.py) and the file the presets are saved  *)
(* to (backend/advanced_preset_store.py).  Saving, deleting, activating    *)
(* and stopping are jobs of pool threads that run and report at any later  *)
(* moment, in any order, while the user edits on.                          *)
(***************************************************************************)
EXTENDS Naturals, Sequences, FiniteSets, SequencesExt

CONSTANTS
  Devices,      \* serials of per-key keyboards, numbered as they are listed
  Cells,        \* keys of a device
  Effects,      \* effects of a group
  Saved,        \* presets the file may hold at start
  MaxInputs,    \* inputs of the user in one run (bound)
  MaxJobs       \* jobs under way at a time (bound)

VARIABLES
  file,         \* advanced_presets.json
  presets,      \* _presets
  current, dirty,
  listed,       \* _devices
  device,       \* current_serial(), 0 for None
  chosen,       \* row of the chosen group, 0 for none
  selection,    \* keys selected on each device's selector
  panelKeys,    \* the selection the groups panel was told of
  active,       \* the preset the runtime shows, or NoPreset
  setting,      \* last_advanced_preset, NoKey for the empty one
  jobs,
  inputs,
  \* history
  crossed,      \* an edit or another job came while a job was under way
  reused        \* New took the key of an active preset that was never saved

vars == <<file, presets, current, dirty, listed, device, chosen, selection, panelKeys, active,
          setting, jobs, inputs, crossed, reused>>
pageVars == <<presets, current, dirty, listed, device, chosen, selection, panelKeys>>
listVars == <<listed, device>>

NoKey == <<<<"", 0>>, 0>>

-----------------------------------------------------------------------------
(* Presets.  A label is a word and the number of its " (copy)" suffixes; a  *)
(* key is a label's slug and a number.                                     *)

Group(name, cells, effect) == [name |-> name, cells |-> cells, effect |-> effect]
Preset(key, label, programs) == [key |-> key, label |-> label, programs |-> programs]
NoPrograms == [d \in Devices |-> <<>>]
NoPreset == Preset(NoKey, <<"", 0>>, NoPrograms)

KeysOf(list) == {list[i].key : i \in DOMAIN list}
LabelsOf(list) == {list[i].label : i \in DOMAIN list}

\* AdvancedPreset.validate: a key of a device belongs to one group.
Exclusive(groups) ==
  \A i, j \in DOMAIN groups : i # j => groups[i].cells \cap groups[j].cells = {}
Valid(p) == \A d \in Devices : Exclusive(p.programs[d])

\* _check_unique.
UniqueKeys(list) == \A i, k \in DOMAIN list : list[i].key = list[k].key => i = k

\* What the file may hold: an invalid one is refused when it is loaded (_parse).
IsList(s) == s \in Seq({s[i] : i \in DOMAIN s})
AreGroups(groups) == IsList(groups) /\ \A i \in DOMAIN groups : "cells" \in DOMAIN groups[i]
IsPreset(p) ==
  /\ p = Preset(p.key, p.label, p.programs)
  /\ p.programs = [d \in Devices |-> p.programs[d]]
  /\ \A d \in Devices : AreGroups(p.programs[d])
IsStored(list) ==
  /\ IsList(list)
  /\ UniqueKeys(list)
  /\ \A i \in DOMAIN list : IsPreset(list[i]) /\ Valid(list[i])
PresetsAssumption == Devices \subseteq Nat \ {0} /\ \A list \in Saved : IsStored(list)

\* unique_key: the slug, or the slug with the first free suffix.
UniqueKey(label, taken) ==
  <<label, CHOOSE n \in 1 .. Cardinality(taken) + 1 :
             <<label, n>> \notin taken /\ \A k \in 1 .. n - 1 : <<label, k>> \in taken>>

NewPreset(taken) == Preset(UniqueKey(<<"New", 0>>, taken), <<"New", 0>>, NoPrograms)

-----------------------------------------------------------------------------
(* Groups (pure functions of effects_groups.py) *)

\* _without.
Without(groups, cells) == [i \in DOMAIN groups |-> [groups[i] EXCEPT !.cells = @ \ cells]]

\* next_group_name.
NextGroupName(groups) ==
  LET taken == {groups[i].name : i \in DOMAIN groups}
  IN CHOOSE n \in 1 .. Len(groups) + 1 : n \notin taken /\ \A k \in 1 .. n - 1 : k \in taken

AddedGroup(groups, cells) ==
  Append(Without(groups, cells), Group(NextGroupName(groups), cells, CHOOSE e \in Effects : TRUE))
Assigned(groups, row, cells) == [Without(groups, cells) EXCEPT ![row].cells = cells]

-----------------------------------------------------------------------------
(* What the page shows *)

Groups == IF device = 0 THEN <<>> ELSE current.programs[device]

\* _show_device: the device's groups from the first, and the selection of its
\* selector.
ShowDevice ==
  /\ chosen' = IF device' # 0 /\ current'.programs[device'] # <<>> THEN 1 ELSE 0
  /\ panelKeys' = IF device' # 0 THEN selection'[device'] ELSE panelKeys

Counted ==
  /\ inputs < MaxInputs
  /\ inputs' = inputs + 1
  /\ crossed' = (crossed \/ jobs # {})
Input == Counted /\ UNCHANGED reused

\* (mutant) The runtime is left with what it shows.
UpdateNothing(p) == UNCHANGED active

\* AdvancedRuntime.update, of the preset that is active.
UpdateRunning(p) ==
  active' = IF active # NoPreset /\ active.key = p.key /\ Valid(p) THEN p ELSE active

\* _changed.
Changed(p) ==
  /\ current' = p
  /\ dirty' = TRUE
  /\ UpdateRunning(p)

\* _on_program_changed after the panel's _commit.
Commit(groups, row) ==
  /\ Changed([current EXCEPT !.programs[device] = groups])
  /\ chosen' = row
  /\ UNCHANGED <<file, presets, listVars, selection, panelKeys, setting, jobs>>
  /\ Input

Add == device # 0 /\ panelKeys # {} /\ Commit(AddedGroup(Groups, panelKeys), Len(Groups) + 1)
Assign == chosen # 0 /\ Commit(Assigned(Groups, chosen, panelKeys), chosen)
\* (mutant) The row stays although the last one is gone.
RemoveGroupStays == chosen # 0 /\ Commit(RemoveAt(Groups, chosen), chosen)

RemoveGroup ==
  /\ chosen # 0
  /\ Commit(RemoveAt(Groups, chosen), IF chosen < Len(Groups) THEN chosen ELSE Len(Groups) - 1)
Rename(n) == chosen # 0 /\ Commit([Groups EXCEPT ![chosen].name = n], chosen)
SetEffect(e) ==
  chosen # 0 /\ e # Groups[chosen].effect /\ Commit([Groups EXCEPT ![chosen].effect = e], chosen)

\* A row of the groups list: its keys are selected (_select_keys), but for those
\* of the file that the device does not have.
ChooseGroup(row) ==
  /\ row \in DOMAIN Groups
  /\ row # chosen
  /\ chosen' = row
  /\ panelKeys' = Groups[row].cells \cap Cells
  /\ selection' = [selection EXCEPT ![device] = panelKeys']
  /\ UNCHANGED <<file, presets, current, dirty, listVars, active, setting, jobs>>
  /\ Input

\* The key selector (module KeySelector) reports a new selection.
SelectKeys(cells) ==
  /\ device # 0
  /\ cells # selection[device]
  /\ selection' = [selection EXCEPT ![device] = cells]
  /\ panelKeys' = cells
  /\ UNCHANGED <<file, presets, current, dirty, listVars, chosen, active, setting, jobs>>
  /\ Input

SelectDevice(d) ==
  /\ d \in listed
  /\ d # device
  /\ device' = d
  /\ UNCHANGED <<file, presets, current, dirty, listed, selection, active, setting, jobs>>
  /\ ShowDevice
  /\ Input

\* set_devices: the selection of a device that is gone goes with its selector.
SetDevices(devs) ==
  /\ devs # listed
  /\ listed' = devs
  /\ device' = IF device \in devs THEN device
               ELSE IF devs = {} THEN 0 ELSE CHOOSE d \in devs : \A e \in devs : d <= e
  /\ selection' = [d \in Devices |-> IF d \in devs THEN selection[d] ELSE {}]
  /\ UNCHANGED <<file, presets, current, dirty, active, setting, jobs>>
  /\ ShowDevice
  /\ Input

EditLabel(word) ==
  /\ current.label # <<word, 0>>
  /\ Changed([current EXCEPT !.label = <<word, 0>>])
  /\ UNCHANGED <<file, presets, listVars, chosen, selection, panelKeys, setting, jobs>>
  /\ Input

-----------------------------------------------------------------------------
(* The toolbar *)

Show(p, changed) ==
  /\ current' = p
  /\ dirty' = changed
  /\ ShowDevice

\* new_preset; _on_preset_chosen, which drops unsaved edits.
New ==
  /\ UNCHANGED <<file, presets, listVars, selection, active, setting, jobs>>
  /\ Show(NewPreset(KeysOf(presets)), TRUE)
  /\ Counted
  /\ reused' = (reused \/ current'.key = active.key)

Choose(i) ==
  /\ presets[i].key # current.key
  /\ UNCHANGED <<file, presets, listVars, selection, active, setting, jobs>>
  /\ Show(presets[i], FALSE)
  /\ Input

Submit(kind, list, p) ==
  /\ Cardinality(jobs) < MaxJobs
  /\ jobs' = jobs \cup {[kind |-> kind, list |-> list, preset |-> p, at |-> "queued"]}

\* _save: the list is made when the job is submitted.
SaveJob(p) ==
  /\ Valid(p)
  /\ Submit("save", IF p.key \in KeysOf(presets)
                    THEN [i \in DOMAIN presets |-> IF presets[i].key = p.key THEN p ELSE presets[i]]
                    ELSE Append(presets, p), p)
  /\ UNCHANGED <<file, pageVars, active, setting>>
  /\ Input

Save == SaveJob(current)

\* save_as: a label that is taken gets " (copy)".
SaveAs ==
  LET label == IF current.label \in LabelsOf(presets) THEN <<current.label[1], current.label[2] + 1>>
               ELSE current.label
  IN SaveJob(Preset(UniqueKey(label, KeysOf(presets) \cup {current.key}), label, current.programs))

\* _after_delete; a preset that was active is stopped.
AfterDelete(list, p, done) ==
  /\ presets' = list
  /\ UNCHANGED <<file, listVars, selection, active, setting>>
  /\ Show(IF list = <<>> THEN NewPreset({}) ELSE Head(list), FALSE)
  /\ jobs' = (jobs \ done)
               \cup (IF active # NoPreset /\ active.key = p.key
                     THEN {[kind |-> "stop", list |-> <<>>, preset |-> NoPreset, at |-> "queued"]} ELSE {})

\* Keys do not repeat (EditsStayValid).
Delete ==
  /\ \/ /\ current.key \notin KeysOf(presets)
        /\ AfterDelete(presets, current, {})
     \/ \E i \in DOMAIN presets :
          /\ presets[i].key = current.key
          /\ Submit("delete", RemoveAt(presets, i), current)
          /\ UNCHANGED <<file, pageVars, active, setting>>
  /\ Input

Activate ==
  /\ Valid(current)
  /\ \E d \in listed : current.programs[d] # <<>>
  /\ Submit("activate", <<>>, current)
  /\ UNCHANGED <<file, pageVars, active, setting>>
  /\ Input

Stop ==
  /\ Submit("stop", <<>>, NoPreset)
  /\ UNCHANGED <<file, pageVars, active, setting>>
  /\ Input

-----------------------------------------------------------------------------
(* The jobs *)

Moved(j, at) == (jobs \ {j}) \cup {[j EXCEPT !.at = at]}

\* store.save replaces the file or leaves it; the runtime activates or stops.
RunJob(j) ==
  /\ j.at = "queued"
  /\ \/ /\ j.kind \in {"save", "delete"}
        /\ file' = j.list
        /\ jobs' = Moved(j, "saved")
        /\ UNCHANGED active
     \/ /\ j.kind \in {"save", "delete"}       \* OSError: _report
        /\ jobs' = jobs \ {j}
        /\ UNCHANGED <<file, active>>
     \/ /\ j.kind \in {"activate", "stop"}
        /\ active' = j.preset
        /\ jobs' = Moved(j, "saved")
        /\ UNCHANGED file
  /\ UNCHANGED <<pageVars, setting, inputs, crossed, reused>>

\* _on_saved.
OnSaved(j) ==
  /\ j.at = "saved" /\ j.kind = "save"
  /\ jobs' = jobs \ {j}
  /\ presets' = j.list
  /\ UNCHANGED <<file, listVars, selection, setting, inputs, crossed, reused>>
  /\ Show(j.preset, FALSE)
  /\ UpdateRunning(j.preset)

OnDeleted(j) ==
  /\ j.at = "saved" /\ j.kind = "delete"
  /\ AfterDelete(j.list, j.preset, {j})
  /\ UNCHANGED <<inputs, crossed, reused>>

\* _on_activated, _on_stopped: the setting of the next start.
OnActivated(j) ==
  /\ j.at = "saved" /\ j.kind \in {"activate", "stop"}
  /\ jobs' = jobs \ {j}
  /\ setting' = j.preset.key
  /\ UNCHANGED <<file, pageVars, active, inputs, crossed, reused>>

-----------------------------------------------------------------------------
\* The page as it is built: the first saved preset, or a new one; no device.
Init ==
  /\ file \in Saved
  /\ presets = file
  /\ current = IF file = <<>> THEN NewPreset({}) ELSE Head(file)
  /\ dirty = FALSE
  /\ listed = {}
  /\ device = 0
  /\ chosen = 0
  /\ selection = [d \in Devices |-> {}]
  /\ panelKeys = {}
  /\ active = NoPreset
  /\ setting = NoKey
  /\ jobs = {}
  /\ inputs = 0
  /\ crossed = FALSE
  /\ reused = FALSE

Next ==
  \/ Add \/ Assign \/ RemoveGroup
  \/ \E n \in 1 .. 2 : Rename(n)
  \/ \E e \in Effects : SetEffect(e)
  \/ \E row \in 1 .. MaxInputs : ChooseGroup(row)
  \/ \E cells \in SUBSET Cells : SelectKeys(cells)
  \/ \E d \in Devices : SelectDevice(d)
  \/ \E devs \in SUBSET Devices : SetDevices(devs)
  \/ EditLabel("Own")
  \/ New
  \/ \E i \in DOMAIN presets : Choose(i)
  \/ Save \/ SaveAs \/ Delete \/ Activate \/ Stop
  \/ \E j \in jobs : RunJob(j) \/ OnSaved(j) \/ OnDeleted(j) \/ OnActivated(j)

Spec == Init /\ [][Next]_vars

-----------------------------------------------------------------------------
(* Properties *)

TypeOK ==
  /\ listed \subseteq Devices
  /\ device \in listed \/ (device = 0 /\ listed = {})
  /\ chosen \in DOMAIN Groups \cup {0}
  /\ selection \in [Devices -> SUBSET Cells]
  /\ dirty \in BOOLEAN /\ crossed \in BOOLEAN /\ reused \in BOOLEAN
  /\ \A j \in jobs : j.kind \in {"save", "delete", "activate", "stop"} /\ j.at \in {"queued", "saved"}

\* However groups are added, assigned, renamed and removed, a key has one group
\* and a key of the file one preset: no edit makes a preset that cannot be
\* saved or shown (validate, _check_unique).
EditsStayValid ==
  /\ Valid(current)
  /\ \A list \in {file, presets} \cup {j.list : j \in jobs} :
       /\ UniqueKeys(list)
       /\ \A i \in DOMAIN list : Valid(list[i])

\* When no job is under way and none was crossed by an edit or another job, the
\* page's list is the file, and a preset without edits is in it.
PageIsFile ==
  jobs = {} /\ ~crossed =>
    /\ presets = file
    /\ ~dirty => \A i \in DOMAIN file : file[i].key = current.key => file[i] = current

\* Edits show at once: a preset with edits that is active is shown as edited.
\* Excused are edits that cross its activation, and a new preset that was given
\* the key of the active one (new_preset looks at the saved keys only).
LiveIsCurrent == active # NoPreset /\ active.key = current.key /\ dirty /\ ~crossed /\ ~reused => active = current

\* Add and Assign work with the keys that are selected on the shown device.
PanelSeesSelection == device # 0 => panelKeys = selection[device]

EffectsArePreserved == EditsStayValid /\ PageIsFile /\ LiveIsCurrent /\ PanelSeesSelection
=============================================================================
