-------------------------------- MODULE Gui --------------------------------
(***************************************************************************)
(* The parts of the GUI as one specification.  They do not act on each      *)
(* other: a behaviour is one of one part, and the variables of the others   *)
(* are idle in it.  Variables of the same name are shared, since only one   *)
(* part uses them in a behaviour.  Every property is about its part alone.  *)
(***************************************************************************)
EXTENDS Naturals, Sequences

CONSTANTS
  NumDevices, MacroTriggers, MacroFiles,          \* MacroPages
  MaxSteps, MinGap, MaxDelay, MaxCount, OpenedMacros, Times,  \* MacroEditor
  Keyboards, Cells, CellEffects, SavedPresets,    \* EffectsEditing
  GridRows, GridCols, GridKeys,                   \* KeySelector
  Types, MaxSpeed, MaxAngle, Colours, MaxPalette, ShownEffects, MaxEdits, \* EffectForm
  Serials, Retries, MaxActions, MaxChanges, MaxVisits,        \* DaemonWindow
  Lamps, Zones, ZoneEffects, MaxBrightness,       \* LightingPanel
  Mice, MaxDpi, Choices, Rates, MinDpi,           \* MousePanel
  Disks, Full, MaxWork, MaxTicks, MaxFaults,      \* Collector
  Detected, MonitorFiles, MaxRows,                \* OverlaySettings
  Presets,                                        \* Preferences
  InputsOf,    \* [part -> inputs of the user in a behaviour of it] (bound)
  MaxJobs, MaxFailures

VARIABLES part,
          backup, connected, engine, loaded, service, loadError, known,
          selected, editor, kept, dropped, late,
          original, steps, trigger, mode, spin, keptCount, okEnabled, dialog,
          result, countEdited,
          presets, listed, device, panelKeys, active, setting, crossed, reused,
          cursor, anchor, press, band, dragBase, keyed, told,
          groups, base, form, loading, todo, edited, edits,
          daemon, plugged, manager, made, tries, panelBusy, panelRuns,
          externalBusy, offered, entries, page, before, last, checked, actions,
          changes, visits,
          target, combo, down, queued, stage, brightness, record, preset,
          relay, label, excused,
          mouse, lock, rate, dpi, pollRate,
          counter, total, clock, lastDisks, lastCpu, lastTime, load, cpuLoad,
          moved, spent, span, cpuSpan, interval, faults,
          style, rows, wanted, applied, userStyle, unsaved,
          running, trayCopy, pageCopy, entry, closeBox, startBox, meddled,
          theirs,
          file, config, dirty, row, jobs, inputs, current, chosen, phase,
          selection, job, busy, bar, shown, slider, writing, failures, x, y

pagesOwn == <<backup, connected, engine, loaded, service, loadError, known,
              selected, editor, kept, dropped, late>>
editorOwn == <<original, steps, trigger, mode, spin, keptCount, okEnabled,
               dialog, result, countEdited>>
groupingOwn == <<presets, listed, device, panelKeys, active, setting, crossed,
                 reused>>
keysOwn == <<cursor, anchor, press, band, dragBase, keyed, told>>
formOwn == <<groups, base, form, loading, todo, edited, edits>>
windowOwn == <<daemon, plugged, manager, made, tries, panelBusy, panelRuns,
               externalBusy, offered, entries, page, before, last, checked,
               actions, changes, visits>>
lightsOwn == <<target, combo, down, queued, stage, brightness, record, preset,
               relay, label, excused>>
mouseOwn == <<mouse, lock, rate, dpi, pollRate>>
loadsOwn == <<counter, total, clock, lastDisks, lastCpu, lastTime, load,
              cpuLoad, moved, spent, span, cpuSpan, interval, faults>>
monitorOwn == <<style, rows, wanted, applied, userStyle, unsaved>>
prefsOwn == <<running, trayCopy, pageCopy, entry, closeBox, startBox, meddled,
              theirs>>
sharedVars == <<file, config, dirty, row, jobs, inputs, current, chosen, phase,
                selection, job, busy, bar, shown, slider, writing, failures, x,
                y>>
allVars == <<part, sharedVars, pagesOwn, editorOwn, groupingOwn, keysOwn, formOwn, windowOwn,
             lightsOwn, mouseOwn, loadsOwn, monitorOwn, prefsOwn>>

Pages == INSTANCE MacroPages WITH
           Triggers <- MacroTriggers, OldFiles <- MacroFiles,
           MaxInputs <- InputsOf["pages"]
Editor == INSTANCE MacroEditor WITH Macros <- OpenedMacros, MaxInputs <- InputsOf["editor"]
Grouping == INSTANCE EffectsEditing WITH
              Devices <- Keyboards, Effects <- CellEffects, Saved <- SavedPresets,
              MaxInputs <- InputsOf["grouping"]
Keys == INSTANCE KeySelector WITH
          Rows <- GridRows, Cols <- GridCols, Valid <- GridKeys,
          MaxInputs <- InputsOf["keys"]
Form == INSTANCE EffectForm WITH Shown <- ShownEffects
Window == INSTANCE DaemonWindow
Lights == INSTANCE LightingPanel WITH
            Devices <- Lamps, Effects <- ZoneEffects, MaxInputs <- InputsOf["lights"]
Mouse == INSTANCE MousePanel WITH MaxInputs <- InputsOf["mouse"]
Loads == INSTANCE Collector
Monitor == INSTANCE OverlaySettings WITH
             OldFiles <- MonitorFiles, MaxInputs <- InputsOf["monitor"]
Prefs == INSTANCE Preferences WITH MaxInputs <- InputsOf["prefs"]

ASSUME GuiAssumption == /\ Pages!PagesAssumption /\ Editor!EditorAssumption
                        /\ Grouping!PresetsAssumption
                        /\ Keys!SelectorAssumption /\ Form!FormAssumption /\ Window!WindowAssumption
                        /\ Lights!PanelAssumption /\ Mouse!MouseAssumption
                        /\ Loads!CollectorAssumption /\ Monitor!SettingsAssumption

-----------------------------------------------------------------------------
(* One part at work, the others idle. *)

Idle(v) == v = "off"

PagesOff == /\ Idle(backup) /\ Idle(connected) /\ Idle(engine) /\ Idle(loaded)
            /\ Idle(service) /\ Idle(loadError) /\ Idle(known) /\ Idle(selected)
            /\ Idle(editor) /\ Idle(kept) /\ Idle(dropped) /\ Idle(late)
EditorOff == /\ Idle(original) /\ Idle(steps) /\ Idle(trigger) /\ Idle(mode)
             /\ Idle(spin) /\ Idle(keptCount) /\ Idle(okEnabled) /\ Idle(dialog)
             /\ Idle(result) /\ Idle(countEdited)
GroupingOff == /\ Idle(presets) /\ Idle(listed) /\ Idle(device)
               /\ Idle(panelKeys) /\ Idle(active) /\ Idle(setting)
               /\ Idle(crossed) /\ Idle(reused)
KeysOff == /\ Idle(cursor) /\ Idle(anchor) /\ Idle(press) /\ Idle(band)
           /\ Idle(dragBase) /\ Idle(keyed) /\ Idle(told)
FormOff == /\ Idle(groups) /\ Idle(base) /\ Idle(form) /\ Idle(loading)
           /\ Idle(todo) /\ Idle(edited) /\ Idle(edits)
WindowOff == /\ Idle(daemon) /\ Idle(plugged) /\ Idle(manager) /\ Idle(made)
             /\ Idle(tries) /\ Idle(panelBusy) /\ Idle(panelRuns)
             /\ Idle(externalBusy) /\ Idle(offered) /\ Idle(entries)
             /\ Idle(page) /\ Idle(before) /\ Idle(last) /\ Idle(checked)
             /\ Idle(actions) /\ Idle(changes) /\ Idle(visits)
LightsOff == /\ Idle(target) /\ Idle(combo) /\ Idle(down) /\ Idle(queued)
             /\ Idle(stage) /\ Idle(brightness) /\ Idle(record) /\ Idle(preset)
             /\ Idle(relay) /\ Idle(label) /\ Idle(excused)
MouseOff == /\ Idle(mouse) /\ Idle(lock) /\ Idle(rate) /\ Idle(dpi)
            /\ Idle(pollRate)
LoadsOff == /\ Idle(counter) /\ Idle(total) /\ Idle(clock) /\ Idle(lastDisks)
            /\ Idle(lastCpu) /\ Idle(lastTime) /\ Idle(load) /\ Idle(cpuLoad)
            /\ Idle(moved) /\ Idle(spent) /\ Idle(span) /\ Idle(cpuSpan)
            /\ Idle(interval) /\ Idle(faults)
MonitorOff == /\ Idle(style) /\ Idle(rows) /\ Idle(wanted) /\ Idle(applied) /\ Idle(userStyle)
              /\ Idle(unsaved)
PrefsOff == /\ Idle(running) /\ Idle(trayCopy) /\ Idle(pageCopy) /\ Idle(entry)
            /\ Idle(closeBox) /\ Idle(startBox) /\ Idle(meddled) /\ Idle(theirs)

(* Each part starts with the others idle... *)
PagesInit ==
  /\ part = "pages" /\ Pages!Init
  /\ EditorOff /\ GroupingOff /\ KeysOff /\ FormOff /\ WindowOff /\ LightsOff
  /\ MouseOff /\ LoadsOff /\ MonitorOff /\ PrefsOff
  /\ Idle(current) /\ Idle(chosen) /\ Idle(phase) /\ Idle(selection)
  /\ Idle(job) /\ Idle(busy) /\ Idle(bar) /\ Idle(shown) /\ Idle(slider)
  /\ Idle(writing) /\ Idle(failures) /\ Idle(x) /\ Idle(y)

EditorInit ==
  /\ part = "editor" /\ Editor!Init
  /\ PagesOff /\ GroupingOff /\ KeysOff /\ FormOff /\ WindowOff /\ LightsOff
  /\ MouseOff /\ LoadsOff /\ MonitorOff /\ PrefsOff
  /\ Idle(file) /\ Idle(config) /\ Idle(dirty) /\ Idle(row) /\ Idle(jobs)
  /\ Idle(selection) /\ Idle(job) /\ Idle(busy) /\ Idle(bar) /\ Idle(shown)
  /\ Idle(slider) /\ Idle(writing) /\ Idle(failures) /\ Idle(x) /\ Idle(y)

GroupingInit ==
  /\ part = "grouping" /\ Grouping!Init
  /\ PagesOff /\ EditorOff /\ KeysOff /\ FormOff /\ WindowOff /\ LightsOff
  /\ MouseOff /\ LoadsOff /\ MonitorOff /\ PrefsOff
  /\ Idle(config) /\ Idle(row) /\ Idle(phase) /\ Idle(job) /\ Idle(busy)
  /\ Idle(bar) /\ Idle(shown) /\ Idle(slider) /\ Idle(writing) /\ Idle(failures)
  /\ Idle(x) /\ Idle(y)

KeysInit ==
  /\ part = "keys" /\ Keys!Init
  /\ PagesOff /\ EditorOff /\ GroupingOff /\ FormOff /\ WindowOff /\ LightsOff
  /\ MouseOff /\ LoadsOff /\ MonitorOff /\ PrefsOff
  /\ Idle(file) /\ Idle(config) /\ Idle(dirty) /\ Idle(row) /\ Idle(jobs)
  /\ Idle(current) /\ Idle(chosen) /\ Idle(phase) /\ Idle(job) /\ Idle(busy)
  /\ Idle(bar) /\ Idle(shown) /\ Idle(slider) /\ Idle(writing) /\ Idle(failures)
  /\ Idle(x) /\ Idle(y)

FormInit ==
  /\ part = "form" /\ Form!Init
  /\ PagesOff /\ EditorOff /\ GroupingOff /\ KeysOff /\ WindowOff /\ LightsOff
  /\ MouseOff /\ LoadsOff /\ MonitorOff /\ PrefsOff
  /\ Idle(file) /\ Idle(config) /\ Idle(dirty) /\ Idle(jobs) /\ Idle(inputs)
  /\ Idle(current) /\ Idle(chosen) /\ Idle(phase) /\ Idle(selection)
  /\ Idle(job) /\ Idle(busy) /\ Idle(bar) /\ Idle(shown) /\ Idle(slider)
  /\ Idle(writing) /\ Idle(failures) /\ Idle(x) /\ Idle(y)

WindowInit ==
  /\ part = "window" /\ Window!Init
  /\ PagesOff /\ EditorOff /\ GroupingOff /\ KeysOff /\ FormOff /\ LightsOff
  /\ MouseOff /\ LoadsOff /\ MonitorOff /\ PrefsOff
  /\ Idle(file) /\ Idle(config) /\ Idle(dirty) /\ Idle(row) /\ Idle(jobs)
  /\ Idle(inputs) /\ Idle(chosen) /\ Idle(phase) /\ Idle(selection)
  /\ Idle(slider) /\ Idle(writing) /\ Idle(failures) /\ Idle(x) /\ Idle(y)

LightsInit ==
  /\ part = "lights" /\ Lights!Init
  /\ PagesOff /\ EditorOff /\ GroupingOff /\ KeysOff /\ FormOff /\ WindowOff
  /\ MouseOff /\ LoadsOff /\ MonitorOff /\ PrefsOff
  /\ Idle(file) /\ Idle(config) /\ Idle(dirty) /\ Idle(row) /\ Idle(jobs)
  /\ Idle(current) /\ Idle(chosen) /\ Idle(phase) /\ Idle(selection)
  /\ Idle(busy) /\ Idle(bar) /\ Idle(shown) /\ Idle(x) /\ Idle(y)

MouseInit ==
  /\ part = "mouse" /\ Mouse!Init
  /\ PagesOff /\ EditorOff /\ GroupingOff /\ KeysOff /\ FormOff /\ WindowOff
  /\ LightsOff /\ LoadsOff /\ MonitorOff /\ PrefsOff
  /\ Idle(file) /\ Idle(config) /\ Idle(dirty) /\ Idle(row) /\ Idle(jobs)
  /\ Idle(current) /\ Idle(chosen) /\ Idle(phase) /\ Idle(selection)
  /\ Idle(busy) /\ Idle(bar) /\ Idle(shown)

LoadsInit ==
  /\ part = "loads" /\ Loads!Init
  /\ PagesOff /\ EditorOff /\ GroupingOff /\ KeysOff /\ FormOff /\ WindowOff
  /\ LightsOff /\ MouseOff /\ MonitorOff /\ PrefsOff
  /\ Idle(file) /\ Idle(config) /\ Idle(dirty) /\ Idle(row) /\ Idle(jobs)
  /\ Idle(inputs) /\ Idle(current) /\ Idle(chosen) /\ Idle(phase)
  /\ Idle(selection) /\ Idle(job) /\ Idle(bar) /\ Idle(shown) /\ Idle(slider)
  /\ Idle(writing) /\ Idle(failures) /\ Idle(x) /\ Idle(y)

MonitorInit ==
  /\ part = "monitor" /\ Monitor!Init
  /\ PagesOff /\ EditorOff /\ GroupingOff /\ KeysOff /\ FormOff /\ WindowOff
  /\ LightsOff /\ MouseOff /\ LoadsOff /\ PrefsOff
  /\ Idle(dirty) /\ Idle(row) /\ Idle(jobs) /\ Idle(current) /\ Idle(chosen)
  /\ Idle(selection) /\ Idle(job) /\ Idle(busy) /\ Idle(slider) /\ Idle(writing)

PrefsInit ==
  /\ part = "prefs" /\ Prefs!Init
  /\ PagesOff /\ EditorOff /\ GroupingOff /\ KeysOff /\ FormOff /\ WindowOff
  /\ LightsOff /\ MouseOff /\ LoadsOff /\ MonitorOff
  /\ Idle(config) /\ Idle(dirty) /\ Idle(row) /\ Idle(jobs) /\ Idle(current)
  /\ Idle(phase) /\ Idle(selection) /\ Idle(job) /\ Idle(busy) /\ Idle(bar)
  /\ Idle(shown) /\ Idle(slider) /\ Idle(writing) /\ Idle(x) /\ Idle(y)

(* ... and goes on alone. *)
PagesStep ==
  /\ part = "pages" /\ Pages!Next
  /\ UNCHANGED <<part, editorOwn, groupingOwn, keysOwn, formOwn, windowOwn,
                 lightsOwn, mouseOwn, loadsOwn, monitorOwn, prefsOwn, current,
                 chosen, phase, selection, job, busy, bar, shown, slider,
                 writing, failures, x, y>>

EditorStep ==
  /\ part = "editor" /\ Editor!Next
  /\ UNCHANGED <<part, pagesOwn, groupingOwn, keysOwn, formOwn, windowOwn, lightsOwn,
                 mouseOwn, loadsOwn, monitorOwn, prefsOwn, file, config, dirty,
                 row, jobs, selection, job, busy, bar, shown, slider, writing,
                 failures, x, y>>

GroupingStep ==
  /\ part = "grouping" /\ Grouping!Next
  /\ UNCHANGED <<part, pagesOwn, editorOwn, keysOwn, formOwn, windowOwn, lightsOwn,
                 mouseOwn, loadsOwn, monitorOwn, prefsOwn, config, row, phase,
                 job, busy, bar, shown, slider, writing, failures, x, y>>

KeysStep ==
  /\ part = "keys" /\ Keys!Next
  /\ UNCHANGED <<part, pagesOwn, editorOwn, groupingOwn, formOwn, windowOwn,
                 lightsOwn, mouseOwn, loadsOwn, monitorOwn, prefsOwn, file,
                 config, dirty, row, jobs, current, chosen, phase, job, busy,
                 bar, shown, slider, writing, failures, x, y>>

FormStep ==
  /\ part = "form" /\ Form!Next
  /\ UNCHANGED <<part, pagesOwn, editorOwn, groupingOwn, keysOwn, windowOwn,
                 lightsOwn, mouseOwn, loadsOwn, monitorOwn, prefsOwn, file,
                 config, dirty, jobs, inputs, current, chosen, phase,
                 selection, job, busy, bar, shown, slider, writing, failures,
                 x, y>>

WindowStep ==
  /\ part = "window" /\ Window!Next
  /\ UNCHANGED <<part, pagesOwn, editorOwn, groupingOwn, keysOwn, formOwn, lightsOwn,
                 mouseOwn, loadsOwn, monitorOwn, prefsOwn, file, config, dirty,
                 row, jobs, inputs, chosen, phase, selection, slider, writing,
                 failures, x, y>>

LightsStep ==
  /\ part = "lights" /\ Lights!Next
  /\ UNCHANGED <<part, pagesOwn, editorOwn, groupingOwn, keysOwn, formOwn, windowOwn,
                 mouseOwn, loadsOwn, monitorOwn, prefsOwn, file, config, dirty,
                 row, jobs, current, chosen, phase, selection, busy, bar,
                 shown, x, y>>

MouseStep ==
  /\ part = "mouse" /\ Mouse!Next
  /\ UNCHANGED <<part, pagesOwn, editorOwn, groupingOwn, keysOwn, formOwn, windowOwn,
                 lightsOwn, loadsOwn, monitorOwn, prefsOwn, file, config,
                 dirty, row, jobs, current, chosen, phase, selection, busy,
                 bar, shown>>

LoadsStep ==
  /\ part = "loads" /\ Loads!Next
  /\ UNCHANGED <<part, pagesOwn, editorOwn, groupingOwn, keysOwn, formOwn, windowOwn,
                 lightsOwn, mouseOwn, monitorOwn, prefsOwn, file, config,
                 dirty, row, jobs, inputs, current, chosen, phase, selection,
                 job, bar, shown, slider, writing, failures, x, y>>

MonitorStep ==
  /\ part = "monitor" /\ Monitor!Next
  /\ UNCHANGED <<part, pagesOwn, editorOwn, groupingOwn, keysOwn, formOwn, windowOwn,
                 lightsOwn, mouseOwn, loadsOwn, prefsOwn, dirty, row, jobs,
                 current, chosen, selection, job, busy, slider, writing>>

PrefsStep ==
  /\ part = "prefs" /\ Prefs!Next
  /\ UNCHANGED <<part, pagesOwn, editorOwn, groupingOwn, keysOwn, formOwn, windowOwn,
                 lightsOwn, mouseOwn, loadsOwn, monitorOwn, config, dirty, row,
                 jobs, current, phase, selection, job, busy, bar, shown,
                 slider, writing, x, y>>

GuiInit == PagesInit \/ EditorInit \/ GroupingInit \/ KeysInit \/ FormInit
           \/ WindowInit \/ LightsInit \/ MouseInit \/ LoadsInit
           \/ MonitorInit \/ PrefsInit

GuiNext == PagesStep \/ EditorStep \/ GroupingStep \/ KeysStep \/ FormStep
           \/ WindowStep \/ LightsStep \/ MouseStep \/ LoadsStep
           \/ MonitorStep \/ PrefsStep

GuiSpec == GuiInit /\ [][GuiNext]_allVars

-----------------------------------------------------------------------------
(* The types of all eleven parts.                                              *)
GuiTypeOK ==
  /\ part = "pages" => Pages!TypeOK
  /\ part = "editor" => Editor!TypeOK
  /\ part = "grouping" => Grouping!TypeOK
  /\ part = "keys" => Keys!TypeOK
  /\ part = "form" => Form!TypeOK
  /\ part = "window" => Window!TypeOK
  /\ part = "lights" => Lights!TypeOK
  /\ part = "mouse" => Mouse!TypeOK
  /\ part = "loads" => Loads!TypeOK
  /\ part = "monitor" => Monitor!TypeOK
  /\ part = "prefs" => Prefs!TypeOK

(* The macros page: macros accepted with a device selected stay, without edits *)
(* the page shows the file, what could not be loaded is told, and a running    *)
(* engine has what was saved last (see MacroPages).                            *)
MacroEditsArePreserved == part = "pages" => Pages!EditsArePreserved

(* A macro goes to the device its editor was opened for, unless that device    *)
(* left the list meanwhile (see MacroPages).                                   *)
EditLandsOnItsDevice == [][part = "pages" => Pages!EditLands]_allVars

(* The macro editor accepts valid macros only, keeps what was not edited and   *)
(* offers recordings whole (see MacroEditor).                                  *)
EditorIsFaithful == part = "editor" => Editor!EditorIsFaithful

(* The effects page: every edit stays valid, is shown live, and is the file's  *)
(* once it is saved; the form of a group changes nothing it only shows, and    *)
(* the key grid tells its listener of exactly the keys that are selected (see  *)
(* EffectsEditing, EffectForm, KeySelector).                                   *)
EffectsArePreserved ==
  /\ part = "grouping" => Grouping!EffectsArePreserved
  /\ part = "form" => Form!EffectFormIsFaithful
  /\ part = "keys" => Keys!SelectionIsTold /\ Keys!BandIsExact /\ Keys!ArrowsComeBack

(* One service action at a time, pages that show the devices there are, and    *)
(* the selected device (see DaemonWindow).                                     *)
WindowIsTrue ==
  part = "window" => /\ Window!OneServiceAction /\ Window!PagesShowTheManager
                     /\ Window!SelectionIsShown

(* The last brightness reaches the device, the running label is right, and     *)
(* mice get legal values only (see LightingPanel, MousePanel).                 *)
ControlsAreTrue ==
  /\ part = "lights" => Lights!LastBrightnessArrives /\ Lights!LabelIsTrue
  /\ part = "mouse" => Mouse!MouseIsLegal

(* The overlay's settings survive their file, its loads are those of the last  *)
(* interval, and the autostart box is right (see OverlaySettings, Collector,   *)
(* Preferences).                                                               *)
SettingsAreTrue ==
  /\ part = "monitor" => Monitor!OverlaySettingsAreKept
  /\ part = "loads" => Loads!LoadsAreRecent
  /\ part = "prefs" => Prefs!AutostartIsTrue
=============================================================================
