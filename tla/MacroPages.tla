------------------------------ MODULE MacroPages ------------------------------
(***************************************************************************)
(* The Macros page (ui/macros_page.py) with the file it saves to           *)
(* (macros/store.py, macros/model.py) and the engine that loads the file.  *)
(* The page works on its own copy of the configuration; requests to the    *)
(* engine are jobs, whose answers reach the page at any later moment, also *)
(* while the editor is open.  Devices are numbered in the order the page   *)
(* lists them; an identity is canonical (the node part is dropped).        *)
(***************************************************************************)
EXTENDS Naturals, Sequences, FiniteSets, SequencesExt, Lists

CONSTANTS
  NumDevices,
  Triggers,    \* trigger keys
  OldFiles,    \* macros.json as the program may find it, records of File
  MaxJobs,     \* requests under way at a time (bound)
  MaxInputs    \* editors, deletions, toggles, plugs and engine failures in one run (bound)

Devices == 1 .. NumDevices

VARIABLES
  file,        \* macros.json, a record of File
  backup,      \* macros.json.bak exists
  connected,   \* devices plugged in
  engine,      \* "down", "booting" (has not read the file yet) or "up"
  loaded,      \* the configuration the engine read last
  service,     \* MacroEngineService.state
  \* the page
  config, dirty, loadError,
  known,       \* _devices
  selected,    \* selected_identity(), 0 for None
  row,         \* current row of the macro list, 0 for none
  editor,      \* the open editor, or NoEditor
  jobs,        \* requests of the pool threads and their answers
  inputs,      \* editors, deletions, toggles, plugs and engine failures so far
  \* history
  kept,        \* ids of the macros accepted and not deleted since
  dropped,     \* those of them accepted while no device was selected
  late         \* the file was saved after a starting engine had read it

vars == <<file, backup, connected, engine, loaded, service, config, dirty, loadError, known,
          selected, row, editor, jobs, inputs, kept, dropped, late>>
engineVars == <<engine, loaded, service>>
fileVars == <<file, backup>>
pageVars == <<config, dirty, loadError, known, selected, row>>

\* is: "missing", "unreadable" (it is there, reading fails), "corrupt" or "ok".
File(is, entries) == [is |-> is, entries |-> entries]
Missing == File("missing", <<>>)
\* A macro: whether it is valid by itself, ok, stands for its other fields.
Macros == [id : Nat, trigger : Triggers, ok : BOOLEAN]
Entries == [device : Devices, macros : Seq(Macros)]
PagesAssumption ==
  /\ NumDevices \in Nat
  /\ OldFiles \subseteq [is : {"missing", "unreadable", "corrupt", "ok"}, entries : Seq(Entries)]
NoEditor == [device |-> 0, row |-> 0, id |-> 0, taken |-> {}, moved |-> FALSE]

-----------------------------------------------------------------------------
(* The configuration *)

Has(conf, d) == \E i \in DOMAIN conf : conf[i].device = d

\* for_device: the first entry of the device.
EntryOf(conf, d) ==
  CHOOSE i \in DOMAIN conf : conf[i].device = d /\ \A k \in DOMAIN conf : conf[k].device = d => i <= k
MacrosOf(conf, d) == IF Has(conf, d) THEN conf[EntryOf(conf, d)].macros ELSE <<>>
IdsOf(macros) == {macros[i].id : i \in DOMAIN macros}
TriggersOf(macros) == {macros[i].trigger : i \in DOMAIN macros}
AllIds(conf) == UNION {IdsOf(conf[i].macros) : i \in DOMAIN conf}

\* Macro.problems, DeviceMacros.problems and MacroConfig.problems: a macro may
\* have a problem of its own (ok); triggers, ids and devices may not repeat.
NoDuplicates(s) == \A i, j \in DOMAIN s : s[i] = s[j] => i = j
Valid(conf) ==
  /\ NoDuplicates([i \in DOMAIN conf |-> conf[i].device])
  /\ \A i \in DOMAIN conf :
       LET ms == conf[i].macros
       IN /\ NoDuplicates([k \in DOMAIN ms |-> ms[k].trigger])
          /\ NoDuplicates([k \in DOMAIN ms |-> ms[k].id])
          /\ \A k \in DOMAIN ms : ms[k].ok

\* _merge_into: macros whose trigger or id the first entry holds are skipped.
Merge(a, b) ==
  a \o Those(b, {m \in ToSet(b) : m.trigger \notin TriggersOf(a) /\ m.id \notin IdsOf(a)})

MergeInto(conf, e) ==
  IF Has(conf, e.device)
  THEN [i \in DOMAIN conf |-> IF conf[i].device # e.device THEN conf[i]
                             ELSE [conf[i] EXCEPT !.macros = Merge(@, e.macros)]]
  ELSE Append(conf, e)

\* MacroConfig.from_dict: entries of the same device are merged in order.
FromEntries(entries) ==
  LET upto[n \in 0 .. Len(entries)] == IF n = 0 THEN <<>> ELSE MergeInto(upto[n - 1], entries[n])
  IN upto[Len(entries)]

\* store.load: what it returns, the empty configuration with an error for a
\* file that cannot be read or parsed.
Loads(f) ==
  LET conf == FromEntries(f.entries)
      bad == f.is \in {"unreadable", "corrupt"} \/ ~Valid(conf)
  IN [conf |-> IF bad THEN <<>> ELSE conf, bad |-> bad]

\* _quarantine: what was read and is invalid is moved aside; when that fails
\* it stays, as a file that could not be read does.
MovedAside(f) == Loads(f).bad /\ f.is # "unreadable"
LoadFile ==
  \/ MovedAside(file) /\ file' = Missing /\ backup' = TRUE
  \/ UNCHANGED fileVars

-----------------------------------------------------------------------------
(* The lists *)

Rows(conf, devs) == devs \cup {d \in Devices : Has(conf, d)}

\* (mutant) The selection is not kept.
ReselectFirst(conf, devs) ==
  IF Rows(conf, devs) = {} THEN 0 ELSE CHOOSE d \in Rows(conf, devs) : \A e \in Rows(conf, devs) : d <= e

\* _show_devices: the selected device stays selected while it is listed.
Reselect(conf, devs) ==
  IF selected \in Rows(conf, devs) THEN selected
  ELSE IF Rows(conf, devs) = {} THEN 0
  ELSE CHOOSE d \in Rows(conf, devs) : \A e \in Rows(conf, devs) : d <= e

\* _show_devices and _show_macros of a new configuration or device list.
ShowDevices(conf, devs) ==
  /\ selected' = Reselect(conf, devs)
  /\ row' = 0
  /\ editor' = IF editor = NoEditor \/ editor.device \in Rows(conf, devs) THEN editor
               ELSE [editor EXCEPT !.moved = TRUE]

-----------------------------------------------------------------------------
(* The engine and the devices *)

Input == inputs < MaxInputs /\ inputs' = inputs + 1

Plug(d) ==
  /\ Input
  /\ connected' = IF d \in connected THEN connected \ {d} ELSE connected \cup {d}
  /\ UNCHANGED <<fileVars, engineVars, pageVars, editor, jobs, kept, dropped, late>>

\* The engine's own load, before it answers.
EngineLoads ==
  /\ engine = "booting"
  /\ engine' = "up"
  /\ loaded' = Loads(file).conf
  /\ LoadFile
  /\ late' = FALSE
  /\ UNCHANGED <<connected, service, pageVars, editor, jobs, inputs, kept, dropped>>

EngineCrashes ==
  /\ Input
  /\ engine = "up"
  /\ service = "running"
  /\ engine' = "down"
  /\ UNCHANGED <<connected, fileVars, loaded, service, pageVars, editor, jobs, kept, dropped, late>>

\* start_engine.
StartEngine ==
  /\ service = "stopped"
  /\ engine = "down"
  /\ service' = "starting"
  /\ engine' = "booting"
  /\ UNCHANGED <<connected, fileVars, loaded, pageVars, editor, jobs, inputs, kept, dropped, late>>

\* A request is handled; a reload reads the file again.
Serve(j) ==
  /\ j \in jobs
  /\ j.at = "sent"
  /\ IF engine # "up"
     THEN /\ jobs' = (jobs \ {j}) \cup {[j EXCEPT !.at = "failed"]}
          /\ UNCHANGED <<fileVars, loaded>>
     ELSE /\ IF j.kind = "reload"
             THEN LoadFile /\ loaded' = Loads(file).conf
             ELSE UNCHANGED <<fileVars, loaded>>
          /\ jobs' = (jobs \ {j}) \cup
               {[j EXCEPT !.at = "done",
                          !.devices = connected \cup {d \in Devices : Has(loaded, d)}]}
  /\ UNCHANGED <<connected, engine, service, pageVars, editor, inputs, kept, dropped, late>>

-----------------------------------------------------------------------------
(* The page *)

Fetch == [kind |-> "fetch", at |-> "sent", devices |-> {}]
Reload == [kind |-> "reload", at |-> "sent", devices |-> {}]

\* (mutant) The page's edits do not count.
ReloadAlways ==
  /\ config' = Loads(file).conf
  /\ loadError' = Loads(file).bad
  /\ LoadFile

\* refresh, first part: the file is read again unless there are edits.
ReloadUnlessDirty ==
  IF dirty THEN UNCHANGED <<config, loadError, fileVars>>
  ELSE /\ config' = Loads(file).conf
       /\ loadError' = Loads(file).bad
       /\ LoadFile

\* refresh, second part, with poll(): without an engine the known devices go.
Refresh(done, s) ==
  /\ ReloadUnlessDirty
  /\ service' = s
  /\ IF s = "running"
     THEN /\ jobs' = (jobs \ done) \cup {Fetch}
          /\ Cardinality(jobs') <= MaxJobs
          /\ UNCHANGED <<known, selected, row, editor>>
     ELSE /\ jobs' = jobs \ done
          /\ known' = {}
          /\ ShowDevices(config', {})
  /\ UNCHANGED <<connected, engine, loaded, dirty, inputs, kept, dropped, late>>

\* MacroEngineService.poll, on the GUI thread.
Polled == IF service = "running" /\ engine = "down" THEN "stopped" ELSE service

\* The Reload button, the window's refresh, and _poll_engine, whose timer
\* reloads when it sees another state than the last time.
UserReload == Refresh({}, Polled)

\* _on_started, after wait_ready.
OnStarted == service = "starting" /\ engine = "up" /\ Refresh({}, "running")

\* _on_start_failed: the engine died, or was stopped when the wait ran out.
OnStartFailed ==
  /\ Input
  /\ service = "starting"
  /\ service' = "stopped"
  /\ engine' = "down"
  /\ known' = {}
  /\ ShowDevices(config, {})
  /\ UNCHANGED <<connected, fileVars, loaded, config, dirty, loadError, jobs, kept, dropped, late>>

\* _on_reloaded.
OnReloaded(j) == j \in jobs /\ j.kind = "reload" /\ j.at = "done" /\ Refresh({j}, Polled)

\* _apply_engine_data with an answer, _on_fetch_failed without one.
OnFetched(j) ==
  /\ j \in jobs
  /\ j.at = "failed" \/ (j.kind = "fetch" /\ j.at = "done")
  /\ known' = j.devices
  /\ ShowDevices(config, j.devices)
  /\ jobs' = jobs \ {j}
  /\ UNCHANGED <<connected, fileVars, engineVars, config, dirty, loadError, inputs, kept, dropped, late>>

\* save: an engine that runs is told to read the file again.  An invalid
\* configuration and a failing write leave the file alone.
Save ==
  /\ editor = NoEditor
  /\ dirty
  /\ Valid(config)
  /\ file' = File("ok", config)
  /\ dirty' = FALSE
  /\ loadError' = FALSE
  /\ service' = Polled
  /\ jobs' = IF Polled = "running" THEN jobs \cup {Reload} ELSE jobs
  /\ Cardinality(jobs') <= MaxJobs
  /\ late' = (late \/ (Polled # "running" /\ engine = "up"))
  /\ UNCHANGED <<backup, connected, engine, loaded, config, known, selected, row, editor, inputs, kept,
                 dropped>>

Select(d, r) ==
  /\ editor = NoEditor
  /\ d \in Rows(config, known)
  /\ r \in 0 .. Len(MacrosOf(config, d))
  /\ <<d, r>> # <<selected, row>>
  /\ selected' = d
  /\ row' = r
  /\ UNCHANGED <<connected, fileVars, engineVars, config, dirty, loadError, known, editor,
                 jobs, inputs, kept, dropped, late>>

-----------------------------------------------------------------------------
(* Editing *)

\* _device_macros(create=True), then the macros of device d become ms.
WithMacros(d, ms) ==
  IF Has(config, d)
  THEN [i \in DOMAIN config |-> IF config[i].device = d THEN [config[i] EXCEPT !.macros = ms] ELSE config[i]]
  ELSE Append(config, [device |-> d, macros |-> ms])


Edited(conf) ==
  /\ config' = conf
  /\ dirty' = TRUE
  /\ UNCHANGED <<connected, fileVars, engineVars, loadError, known, selected, jobs, dropped,
                 late>>

\* _open_editor: the triggers of the device's other macros are taken.
OpenEditor(r, id) ==
  /\ Input
  /\ editor = NoEditor
  /\ selected # 0
  /\ LET ms == MacrosOf(config, selected)
     IN editor' = [device |-> selected, row |-> r, id |-> id, moved |-> FALSE,
                   taken |-> {ms[i].trigger : i \in (DOMAIN ms) \ {r}}]
  /\ UNCHANGED <<connected, fileVars, engineVars, pageVars, jobs, kept, dropped, late>>

AddMacro == OpenEditor(0, 100 + inputs)

EditMacro ==
  /\ row \in DOMAIN MacrosOf(config, selected)
  /\ OpenEditor(row, MacrosOf(config, selected)[row].id)

\* _editor_done: the macro goes to the row it was opened for, of the device
\* that is selected now; without one it is dropped.  (The row is there, see
\* EditedRowStays.)
EditorDone(trigger) ==
  /\ editor # NoEditor
  /\ trigger \notin editor.taken
  /\ editor' = NoEditor
  /\ kept' = kept \cup {editor.id}
  /\ LET ms == MacrosOf(config, selected)
         m == [id |-> editor.id, trigger |-> trigger, ok |-> TRUE]
     IN \/ /\ selected # 0
           /\ editor.row = 0
           /\ Edited(WithMacros(selected, Append(ms, m)))
           /\ row' = Len(ms) + 1
        \/ /\ selected # 0
           /\ editor.row \in DOMAIN ms
           /\ Edited(WithMacros(selected, [ms EXCEPT ![editor.row] = m]))
           /\ row' = editor.row
        \/ /\ selected = 0
           /\ dropped' = dropped \cup {editor.id}
           /\ UNCHANGED <<connected, fileVars, engineVars, pageVars, jobs, late>>
  /\ UNCHANGED inputs

EditorCancelled ==
  /\ editor # NoEditor
  /\ editor' = NoEditor
  /\ UNCHANGED <<connected, fileVars, engineVars, pageVars, jobs, inputs, kept, dropped, late>>

\* _on_macro_toggled; which macros are enabled is left out.
ToggleMacro ==
  /\ Input
  /\ editor = NoEditor
  /\ MacrosOf(config, selected) # <<>>
  /\ Edited(config)
  /\ UNCHANGED <<row, editor, kept>>

DeleteMacro ==
  /\ Input
  /\ editor = NoEditor
  /\ LET ms == MacrosOf(config, selected)
     IN /\ row \in DOMAIN ms
        /\ Edited(WithMacros(selected, RemoveAt(ms, row)))
        /\ row' = IF row < Len(ms) THEN row ELSE Len(ms) - 1
        /\ kept' = kept \ {ms[row].id}
  /\ UNCHANGED editor

-----------------------------------------------------------------------------
\* The page as it is built: the file is read, no device is known yet.
Init ==
  /\ \E old \in OldFiles :
       /\ config = Loads(old).conf
       /\ loadError = Loads(old).bad
       /\ \/ file = old /\ backup = FALSE
          \/ MovedAside(old) /\ file = Missing /\ backup = TRUE
  /\ connected \in SUBSET Devices
  /\ engine = "down"
  /\ loaded = <<>>
  /\ service = "stopped"
  /\ dirty = FALSE
  /\ known = {}
  /\ selected = 0
  /\ row = 0
  /\ editor = NoEditor
  /\ jobs = {}
  /\ inputs = 0
  /\ kept = {}
  /\ dropped = {}
  /\ late = FALSE

Next ==
  \/ \E d \in Devices : Plug(d)
  \/ EngineLoads
  \/ EngineCrashes
  \/ StartEngine
  \/ \E j \in jobs : Serve(j) \/ OnReloaded(j) \/ OnFetched(j)
  \/ UserReload
  \/ OnStarted
  \/ OnStartFailed
  \/ Save
  \/ \E d \in Devices, r \in 0 .. 3 : Select(d, r)
  \/ AddMacro
  \/ EditMacro
  \/ \E t \in Triggers : EditorDone(t)
  \/ EditorCancelled
  \/ ToggleMacro
  \/ DeleteMacro

Spec == Init /\ [][Next]_vars

-----------------------------------------------------------------------------
(* Properties *)

\* The types of the page, the engine and the requests.
TypeOK ==
  /\ connected \cup known \subseteq Devices
  /\ engine \in {"down", "booting", "up"}
  /\ service \in {"stopped", "starting", "running"}
  /\ {backup, dirty, loadError, late} \subseteq BOOLEAN
  /\ selected \in Devices \cup {0}
  /\ \A i \in DOMAIN config : config[i].device \in Devices
  /\ \A j \in jobs : j.kind \in {"fetch", "reload"} /\ j.at \in {"sent", "done", "failed"}

\* A macro the user accepted in the editor stays in the page's configuration
\* until the user deletes it, whatever reloads, failed requests and engine
\* restarts come in between (refresh reads the file only without edits).  The
\* one way to lose one is to accept it while no device is selected (dropped);
\* EditLands says when that may be.
AcceptedMacrosStay == kept \ dropped \subseteq AllIds(config)

\* The row an editor was opened for still holds that macro, and its device is
\* still selected, whatever was reloaded under the editor: else accepting it
\* would overwrite another macro, or raise in the slot.
EditedRowStays ==
  editor # NoEditor /\ editor.row # 0 =>
    LET ms == MacrosOf(config, editor.device)
    IN /\ selected = editor.device
       /\ editor.row \in DOMAIN ms
       /\ ms[editor.row].id = editor.id

\* As long as the disk holds a file that could not be loaded (and that the
\* next save replaces), the page says so (config_files.py, "the user's data is
\* never silently lost").
LossIsTold == Loads(file).bad => loadError

\* Without edits the page shows what the file holds.  Of the entries of an old
\* file, several of which may name one device, every macro is shown unless an
\* earlier one claimed its trigger or its id (_merge_into).
PageShowsFile ==
  ~dirty =>
    /\ config = Loads(file).conf
    /\ ~Loads(file).bad =>
         \A i \in DOMAIN file.entries : \A m \in ToSet(file.entries[i].macros) :
           \E n \in ToSet(MacrosOf(config, file.entries[i].device)) :
             n = m \/ n.trigger = m.trigger \/ n.id = m.id

\* Entries that are valid one by one never make the file corrupt together
\* (from_dict: "one conflicting old entry cannot invalidate the whole file").
MergingSpoilsNothing ==
  \A f \in OldFiles :
    Loads(f).bad =>
    f.is \in {"unreadable", "corrupt"} \/ \E i \in DOMAIN f.entries : ~Valid(<<f.entries[i]>>)

\* Once no request is under way, a running engine has loaded what was saved
\* last.  Excused is a save while the engine starts, after it read the file
\* and before it was found ready: it is not told (save, "they apply once the
\* macro engine runs").
EngineHasSaved ==
  /\ service = "running"
  /\ engine = "up"
  /\ jobs = {}
  /\ ~late
  => loaded = Loads(file).conf

\* What they say together.
EditsArePreserved ==
  /\ AcceptedMacrosStay /\ EditedRowStays
  /\ PageShowsFile /\ LossIsTold /\ MergingSpoilsNothing
  /\ EngineHasSaved

\* The macro of an accepted editor goes to the device the editor was opened
\* for, unless that device was listed no more while the editor was open: then
\* the selection, and with it the macro, moved to another one, or there was
\* none and the macro is gone.
EditLands ==
  editor # NoEditor /\ editor' = NoEditor /\ ~editor.moved
    => dropped' = dropped /\ (config' # config => selected = editor.device)
=============================================================================
