--------------------------- MODULE OverlaySettings ---------------------------
(* What the overlay is configured to show: the form of the Sysmon page         *)
(* (ui/sysmon_page.py, ui/sysmon_sections.py), the configuration the           *)
(* controller holds, the file with it (sysmon/config.py) and the files for     *)
(* Waybar (sysmon/waybar.py). Labels, sizes, margins and the GPU card are left *)
(* out; the process of the overlay, its ending by itself included, is in       *)
(* module Overlay.                                                             *)
EXTENDS Integers, Sequences, FiniteSets

CONSTANTS Detected,   \* the disks of this machine, in order
          OldFiles,   \* what the file may hold before the first start
          MaxRows, MaxInputs, MaxFailures

AlignsX == {"left", "center", "right"}
AlignsY == {"top", "center", "bottom"}
NoEdge == "none"
NotANumber == -1
Blank == -2
DefaultMax == 2
Numbers == {0, 1, DefaultMax}  \* 0 is no positive number

VARIABLES phase,   \* "off" or "on"
          file,    \* sysmon.json
          config,  \* the controller's configuration
          style,   \* style.css: "none", "legacy", "bundled" or "edited"
          bar,     \* where Waybar's configuration puts the overlay
          rows, x, y, \* the form
          shown,   \* the overlay runs
          wanted,  \* history: what the user chose last, Show or Hide
          applied, \* history: the form is as it was applied
          userStyle, \* history: the style is the user's own
          unsaved, \* history: a save failed since the last one that did not
          inputs, failures
formVars == <<rows, x, y>>
vars == <<phase, file, config, style, bar, formVars, shown, wanted, applied, userStyle,
          unsaved, inputs, failures>>

Disk(device, max) == [device |-> device, max |-> max]
Config(on, disks, ax, ay, n) ==
    [enabled |-> on, disks |-> disks, x |-> ax, y |-> ay, interval |-> n]
Default == Config(FALSE, <<>>, "right", "top", 1)
(* is: "missing", "unreadable" (it is there, reading fails), "bad" (no JSON of *)
(* this version) or "ok"; edge is the key of an earlier version.               *)
File(is, c, edge) == [is |-> is, config |-> c, edge |-> edge]
Missing == File("missing", Default, NoEdge)

(* problems()                                                                  *)
ValidDisks(disks) ==
    /\ \A i \in DOMAIN disks : disks[i].device # "" /\ disks[i].max \in Numbers \ {0}
    /\ \A i, j \in DOMAIN disks : disks[i].device = disks[j].device => i = j
Valid(c) ==
    /\ c.x \in AlignsX /\ c.y \in AlignsY /\ ~(c.x = "center" /\ c.y = "center")
    /\ ValidDisks(c.disks)

(* _migrate_edge()                                                             *)
Migrate(c, edge) ==
    IF edge \in {"top", "bottom"} THEN [c EXCEPT !.y = edge]
    ELSE IF edge \in {"left", "right"} THEN [c EXCEPT !.x = edge, !.y = "center"] ELSE c

(* load(): the configuration, the defaults when the file cannot be used. What  *)
(* was read and is bad is moved aside; when that fails it stays, as a file     *)
(* that could not be read does.                                                *)
Stored(f) == Migrate(f.config, f.edge)
Loads(f) == f.is = "ok" /\ Valid(Stored(f))
Loaded(f) == IF Loads(f) THEN Stored(f) ELSE Default
MovedAside(f) == ~Loads(f) /\ f.is \notin {"missing", "unreadable"}
LoadFile == \/ MovedAside(file) /\ file' = Missing
            \/ UNCHANGED file

(* What an earlier version wrote was right by its own rules: one of the four   *)
(* edges, and all the rest as it is now.                                       *)
Complete(c) ==
    c = Config(c.enabled, c.disks, c.x, c.y, c.interval) /\ c.enabled \in BOOLEAN
SettingsAssumption ==
    \A f \in OldFiles :
      /\ f.is \in {"missing", "unreadable", "bad", "ok"}
      /\ f.is = "ok" =>
        /\ Complete(f.config)
        /\ f.edge # NoEdge => /\ f.edge \in {"top", "bottom", "left", "right"}
                             /\ f.config.x \in AlignsX /\ f.config.y \in AlignsY
                             /\ ValidDisks(f.config.disks)

-----------------------------------------------------------------------------
(* bar_position()                                                              *)
BarPosition(c) == IF c.y \in {"top", "bottom"} THEN [edge |-> c.y, module |-> c.x]
                  ELSE [edge |-> c.x, module |-> "center"]

(* _install_style()                                                            *)
InstallStyle == style' = IF style \in {"none", "legacy"} THEN "bundled" ELSE style

(* write_files(): the configuration for Waybar, then the style; a failure      *)
(* leaves both or the second as it was.                                        *)
WriteFiles(c, written) ==
    IF written THEN bar' = BarPosition(c) /\ InstallStyle
    ELSE bar' \in {bar, BarPosition(c)} /\ UNCHANGED style

(* _launch(): without waybar nothing is written, and with the files written it *)
(* may still not start.                                                        *)
Launch(c, launched) == WriteFiles(c, launched) \/ (~launched /\ WriteFiles(c, TRUE))

Input == inputs < MaxInputs /\ inputs' = inputs + 1
(* How many of the two things a handler does to the disk or a process fail.    *)
Faults(one, other) ==
    /\ failures' = failures + (IF one THEN 0 ELSE 1) + (IF other THEN 0 ELSE 1)
    /\ failures' <= MaxFailures

(* _store(): a failure is only noted.                                          *)
Store(c, stored) == /\ file' = IF stored THEN File("ok", c, NoEdge) ELSE file
                    /\ unsaved' = ~stored

(* _persist_enabled()                                                          *)
Persist(on, stored) == IF config.enabled = on THEN stored /\ UNCHANGED <<file, config, unsaved>>
                       ELSE config' = [config EXCEPT !.enabled = on] /\ Store(config', stored)

-----------------------------------------------------------------------------
(* set_disk_rows(), read_disk_rows(): a row that is blank is skipped, one      *)
(* whose number is none is a problem.                                          *)
Row(device, max) == [device |-> device, max |-> max]
RowsOf(disks) == [i \in DOMAIN disks |-> Row(disks[i].device, disks[i].max)]
Filled(rs) == SelectSeq(rs, LAMBDA r : ~(r.device = "" /\ r.max = Blank))
Unreadable(rs) == \E i \in DOMAIN rs : rs[i].max \in {NotANumber, Blank}
DisksOf(rs) == [i \in DOMAIN rs |-> Disk(rs[i].device, rs[i].max)]

(* refresh(): every detected disk is listed when none is configured.           *)
Refresh(c) == /\ rows' = RowsOf(IF c.disks = <<>> THEN Detected ELSE c.disks)
              /\ x' = c.x /\ y' = c.y

(* _collect()                                                                  *)
Collect == [config EXCEPT !.disks = DisksOf(Filled(rows)), !.x = x, !.y = y]

-----------------------------------------------------------------------------
Init == /\ phase = "off" /\ file \in OldFiles /\ config = Default
        /\ style \in {"none", "legacy", "bundled", "edited"} /\ userStyle = (style = "edited")
        /\ bar = BarPosition(Default)
        /\ rows = <<>> /\ x = "right" /\ y = "top"
        /\ shown = FALSE /\ wanted = Loaded(file).enabled
        /\ applied = FALSE /\ unsaved = FALSE
        /\ inputs = 0 /\ failures = 0

(* The controller reads the file, the page is filled, and restore() starts the *)
(* overlay that was left on; when it does not start the flag stays. What could *)
(* not be saved in the last session is forgotten.                              *)
Start == /\ phase = "off" /\ phase' = "on"
         /\ config' = Loaded(file) /\ LoadFile
         /\ Refresh(config')
         /\ \E launched \in BOOLEAN :
              /\ Faults(TRUE, launched)
              /\ shown' = (config'.enabled /\ launched)
              /\ IF config'.enabled THEN Launch(config', launched)
                 ELSE launched /\ UNCHANGED <<bar, style>>
         /\ wanted' = IF unsaved THEN config'.enabled ELSE wanted
         /\ applied' = FALSE /\ unsaved' = FALSE
         /\ UNCHANGED <<userStyle, inputs>>

(* shutdown() leaves the flag.                                                 *)
Quit == /\ phase = "on" /\ phase' = "off" /\ Input
        /\ shown' = FALSE
        /\ UNCHANGED <<file, config, style, bar, formVars, wanted, applied, userStyle, unsaved,
                       failures>>

(* start(): nothing is stored when the overlay does not start.                 *)
ShowOverlay ==
    /\ phase = "on" /\ ~shown /\ Input
    /\ \E launched, stored \in BOOLEAN :
         /\ Faults(stored, launched)
         /\ Launch(config, launched)
         /\ shown' = launched
         /\ wanted' = (wanted \/ launched)
         /\ IF launched THEN Persist(TRUE, stored) ELSE stored /\ UNCHANGED <<file, config, unsaved>>
    /\ UNCHANGED <<phase, formVars, applied, userStyle>>

(* stop()                                                                      *)
HideOverlay ==
    /\ phase = "on" /\ shown /\ Input
    /\ shown' = FALSE /\ wanted' = FALSE
    /\ \E stored \in BOOLEAN : Faults(stored, TRUE) /\ Persist(FALSE, stored)
    /\ UNCHANGED <<phase, style, bar, formVars, applied, userStyle>>

(* show_page()                                                                 *)
ShowPage == /\ phase = "on" /\ Input /\ Refresh(config)
            /\ applied' = FALSE
            /\ UNCHANGED <<phase, file, config, style, bar, shown, wanted, userStyle, unsaved,
                      failures>>

(* The user's hands in the form.                                               *)
Fill(rs, ax, ay) ==
    /\ phase = "on" /\ Input
    /\ rows' = rs /\ x' = ax /\ y' = ay /\ applied' = FALSE
    /\ UNCHANGED <<phase, file, config, style, bar, shown, wanted, userStyle, unsaved,
                      failures>>
AddDisk == Len(rows) < MaxRows /\ Fill(Append(rows, Row("", DefaultMax)), x, y)
RemoveDisk(i) == i \in DOMAIN rows /\ Fill(SubSeq(rows, 1, i - 1) \o SubSeq(rows, i + 1, Len(rows)), x, y)
EditDisk(i, device, max) == i \in DOMAIN rows /\ Fill([rows EXCEPT ![i] = Row(device, max)], x, y)
Align(ax, ay) == Fill(rows, ax, ay)

(* _apply_clicked() and apply(): with any problem nothing changes; otherwise   *)
(* the configuration is kept even when it cannot be saved, and a running       *)
(* overlay is restarted, which may be its end.                                 *)
Apply ==
    /\ phase = "on" /\ Input
    /\ IF Unreadable(Filled(rows)) \/ ~Valid(Collect)
       THEN UNCHANGED <<file, config, style, bar, shown, applied, unsaved, failures>>
       ELSE /\ config' = Collect /\ applied' = TRUE
            /\ \E stored, written \in BOOLEAN :
                 /\ Faults(stored, written)
                 /\ Store(config', stored)
                 /\ IF shown THEN Launch(config', written) ELSE WriteFiles(config', written)
                 /\ shown' = (shown /\ written)
    /\ UNCHANGED <<phase, formVars, wanted, userStyle>>

(* The user's editor.                                                          *)
EditStyle == /\ Input /\ style' = "edited" /\ userStyle' = TRUE
             /\ UNCHANGED <<phase, file, config, bar, formVars, shown, wanted, applied,
                            unsaved, failures>>

Devices == {Detected[i].device : i \in DOMAIN Detected} \cup {""}
Next == \/ Start \/ Quit \/ ShowOverlay \/ HideOverlay \/ ShowPage
        \/ AddDisk \/ \E i \in 1..MaxRows : \/ RemoveDisk(i)
                                            \/ \E d \in Devices, m \in {NotANumber, Blank, 0, 1} :
                                                   EditDisk(i, d, m)
        \/ \E ax \in AlignsX, ay \in AlignsY : Align(ax, ay)
        \/ Apply \/ EditStyle

Spec == Init /\ [][Next]_vars

-----------------------------------------------------------------------------
(* The types: configurations and what is stored of them have all their fields, *)
(* and Waybar is given an edge it knows.                                       *)
Edges == {"top", "bottom", "left", "right"}
TypeOK ==
    /\ phase \in {"off", "on"}
    /\ file.is \in {"missing", "unreadable", "bad", "ok"}
    /\ Complete(config) /\ (file.is = "ok" => Complete(file.config))
    /\ style \in {"none", "legacy", "bundled", "edited"}
    /\ bar.edge \in Edges /\ bar.module \in AlignsX
    /\ x \in AlignsX /\ y \in AlignsY
    /\ {shown, wanted, applied, userStyle, unsaved} \subseteq BOOLEAN

(* What the program stored it can always read back, so the last Show or Hide   *)
(* that did something survives quits and failing starts, and unless a save     *)
(* failed the next start finds what the controller has. A file that could not  *)
(* be loaded counts as the defaults.                                           *)
FileIsConfig ==
    /\ ~unsaved => Loaded(file).enabled = wanted
    /\ phase = "on" => /\ Valid(config) /\ config.enabled = wanted
                       /\ ~unsaved => Loaded(file) = config

(* The overlay that is shown is where the configuration puts it, and comes     *)
(* back at the next start: one whose files could not be written, or which      *)
(* could not be started again, is not left running with the old ones.          *)
OverlayIsPlaced == shown => bar = BarPosition(config) /\ config.enabled

(* What was applied is what the page shows the next time, except that a list   *)
(* without disks comes back as every disk (an empty list means automatic).     *)
AppliedIsShown ==
    applied => /\ config.x = x /\ config.y = y
               /\ Filled(rows) # <<>> => RowsOf(config.disks) = RowsOf(Filled(rows))

(* A style sheet of the user's is never replaced, and a configuration of an    *)
(* earlier version is never thrown away for the key it had.                    *)
UserFilesStay == /\ userStyle => style = "edited"
                 /\ file.is = "ok" /\ file.edge \in AlignsX \cup AlignsY => Loads(file)

OverlaySettingsAreKept == FileIsConfig /\ OverlayIsPlaced /\ AppliedIsShown /\ UserFilesStay
=============================================================================
