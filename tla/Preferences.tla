----------------------------- MODULE Preferences -----------------------------
(* settings.json and the autostart entry. Every holder of a Settings object    *)
(* reads the file once and writes all of it with every change (settings.py):   *)
(* the tray from the start (app.py), the effects page from its first use       *)
(* (ui/effects_page.py), and the runtime's listeners anew each time            *)
(* (ui/effects_wiring.py). The desktop entry may be somebody else's            *)
(* (autostart.py).                                                             *)
EXTENDS Naturals

CONSTANTS Presets,   \* keys of the stored presets
          MaxInputs, MaxFailures

NoPreset == "none"
NoSettings == [closeToTray |-> TRUE, last |-> NoPreset]   \* DEFAULTS

VARIABLES running,
          file,      \* settings.json; a missing or unreadable one is the defaults
          trayCopy,  \* the tray's Settings
          pageCopy,  \* the page's Settings, a set of at most one
          entry,     \* the desktop entry: "none", "ours" or "foreign"
          closeBox, startBox, \* the check boxes of the menu
          chosen,    \* history: what the user chose last, as far as it was saved
          meddled,   \* history: the entry was changed from outside since the start
          theirs,    \* history: somebody else wrote the entry that is there
          inputs, failures
boxes == <<closeBox, startBox>>
copies == <<trayCopy, pageCopy>>
vars == <<running, file, copies, entry, boxes, chosen, meddled, theirs, inputs, failures>>

Settings == [closeToTray : BOOLEAN, last : Presets \cup {NoPreset}]

TypeOK == /\ {file, trayCopy, chosen} \subseteq Settings
          /\ pageCopy \in {{}} \cup {{c} : c \in Settings}
          /\ entry \in {"none", "ours", "foreign"}
          /\ {running, closeBox, startBox, meddled, theirs} \subseteq BOOLEAN

Init == /\ running = FALSE
        /\ file = NoSettings /\ trayCopy = NoSettings /\ pageCopy = {}
        /\ entry \in {"none", "ours", "foreign"}
        /\ closeBox = TRUE /\ startBox = FALSE
        /\ chosen = NoSettings /\ meddled = FALSE /\ theirs = (entry = "foreign")
        /\ inputs = 0 /\ failures = 0

Input == running /\ inputs < MaxInputs /\ inputs' = inputs + 1
Fault == failures < MaxFailures /\ failures' = failures + 1
Works == UNCHANGED failures

(* main() and TrayController(): the menu shows what there is.                  *)
Start == /\ ~running /\ running' = TRUE
         /\ trayCopy' = file /\ pageCopy' = {}
         /\ closeBox' = file.closeToTray /\ startBox' = (entry # "none")
         /\ meddled' = FALSE
         /\ UNCHANGED <<file, entry, chosen, theirs, inputs, failures>>

Quit == /\ Input /\ running' = FALSE
        /\ UNCHANGED <<file, copies, entry, boxes, chosen, meddled, theirs, failures>>

(* _on_close_to_tray(): set() changes the copy, save() the file when it can.   *)
ToggleCloseToTray ==
    /\ Input
    /\ closeBox' = ~closeBox
    /\ trayCopy' = [trayCopy EXCEPT !.closeToTray = ~closeBox]
    /\ \/ /\ file' = trayCopy' /\ Works
          /\ chosen' = [chosen EXCEPT !.closeToTray = ~closeBox]
       \/ UNCHANGED <<file, chosen>> /\ Fault
    /\ UNCHANGED <<running, pageCopy, entry, startBox, meddled, theirs>>

(* _remember() of the effects page, after a preset was activated or stopped.   *)
Remember(key) ==
    /\ Input
    /\ \E copy \in IF pageCopy = {} THEN {file} ELSE pageCopy :
          /\ pageCopy' = {[copy EXCEPT !.last = key]}
          /\ \/ /\ file' = [copy EXCEPT !.last = key] /\ Works
                /\ chosen' = [chosen EXCEPT !.last = key]
             \/ UNCHANGED <<file, chosen>> /\ Fault
    /\ UNCHANGED <<running, trayCopy, entry, boxes, meddled, theirs>>

(* PresetForgetter._forget(), and restore_last() for a preset that is gone:    *)
(* both read the file anew.                                                    *)
Forget(key) ==
    /\ Input
    /\ file.last = key /\ file' = [file EXCEPT !.last = NoPreset]
    /\ chosen' = [chosen EXCEPT !.last = NoPreset]
    /\ UNCHANGED <<running, copies, entry, boxes, meddled, theirs, failures>>

(* _is_ours(): the marker.                                                     *)
Ours == entry = "ours"

(* set_autostart(): another's entry is neither overwritten nor removed; a      *)
(* refused or failed change puts the box back.                                 *)
SetAutostart(on) ==
    \/ /\ IF on THEN entry \in {"none", "ours"} ELSE entry # "foreign"
       /\ entry' = (IF on THEN "ours" ELSE "none") /\ startBox' = on /\ Works
    \/ /\ entry = "foreign" /\ UNCHANGED <<entry, startBox>> /\ Works
    \/ /\ entry # "foreign" /\ (on \/ Ours) /\ UNCHANGED <<entry, startBox>> /\ Fault

(* _on_autostart()                                                             *)
ToggleAutostart == /\ Input /\ SetAutostart(~startBox)
                   /\ UNCHANGED <<running, file, copies, closeBox, chosen, meddled, theirs>>

(* Somebody else writes or removes the entry.                                  *)
Meddle(e) == /\ inputs < MaxInputs /\ inputs' = inputs + 1
             /\ e # entry /\ e # "ours" /\ entry' = e
             /\ meddled' = TRUE /\ theirs' = (e = "foreign")
             /\ UNCHANGED <<running, file, copies, boxes, chosen, failures>>

Next == \/ Start \/ Quit \/ ToggleCloseToTray \/ ToggleAutostart
        \/ \E key \in Presets \cup {NoPreset} : Remember(key)
        \/ \E key \in Presets : Forget(key)
        \/ \E e \in {"none", "foreign"} : Meddle(e)

Spec == Init /\ [][Next]_vars

-----------------------------------------------------------------------------
(* The box of the menu says whether there is an entry, unless somebody else    *)
(* changed it meanwhile.                                                       *)
BoxIsTrue == running /\ ~meddled => (startBox <=> entry # "none")

(* An entry that somebody else wrote stays.                                    *)
AutostartIsTrue == BoxIsTrue /\ (theirs => entry = "foreign")

(* "set saves immediately" (settings.py): what the user chose and the program  *)
(* saved is what the file has.                                                 *)
ChoicesAreKept == file = chosen
=============================================================================
