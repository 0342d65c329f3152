--------------------------- MODULE LightingPanel ---------------------------
(* The lighting panel of the device page (ui/lighting_panel.py): zone, effect  *)
(* and brightness, one write at a time in a background task                    *)
(* (ui/lighting_jobs.py, backend/lighting.py), the record of what was applied  *)
(* (backend/device_effects_store.py) and the label that says what runs         *)
(* (ui/lighting_restore.py).                                                   *)
(*                                                                             *)
(* A target is a zone of a device; brightness and records are per target, a    *)
(* per-key preset is per device. What the panel reads when a zone is chosen it *)
(* reads on the GUI thread, while a write may be on its way.                   *)
EXTENDS Naturals, FiniteSets

CONSTANTS Devices, Zones, Effects,
          MaxBrightness, \* the slider's upper end
          MaxInputs,     \* what the user does
          MaxFailures    \* writes, reads and records that fail
PanelAssumption == /\ MaxBrightness \in Nat /\ MaxInputs \in Nat /\ MaxFailures \in Nat
                   /\ Devices # {} /\ Zones # {} /\ Effects # {}

None == "none"
PerKey == "perKey"
Targets == Devices \X Zones
NoTarget == <<None, None>>
NoJob == [kind |-> None, at |-> NoTarget, value |-> 0, effect |-> None]
Levels == 0..MaxBrightness

VARIABLES target,     \* the device and zone that are shown
          combo,      \* the effect chosen in the panel, None without effects
          slider, down, \* the brightness slider, and whether it is held
          writing, queued, \* _writing, _brightness_queued
          job, stage, \* the task in flight, and how far it is
          brightness, \* [Targets -> the brightness on the device]
          record,     \* [Targets -> the effect recorded on disk, or None]
          preset,     \* devices a per-key preset is shown on
          relay,      \* a change of the runtime waits for the GUI thread
          label,      \* what the running label says
          excused,    \* history: targets whose slider need not be what the device has
          inputs, failures
panelVars == <<target, combo, slider, down, writing, queued, label>>
vars == <<panelVars, job, stage, brightness, record, preset, relay, excused,
          inputs, failures>>

TypeOK == /\ target \in Targets \cup {NoTarget}
          /\ combo \in Effects \cup {None}
          /\ slider \in Levels /\ {down, writing, queued, relay} \subseteq BOOLEAN
          /\ job \in [kind : {None, "effect", "brightness"}, at : Targets \cup {NoTarget},
                      value : Levels, effect : Effects \cup {None}]
          /\ stage \in {"idle", "claim", "write", "record", "done", "failed"}
          /\ brightness \in [Targets -> Levels]
          /\ record \in [Targets -> Effects \cup {None}]
          /\ preset \subseteq Devices
          /\ label \in Effects \cup {PerKey, None}
          /\ excused \subseteq Targets
          /\ inputs \in 0..MaxInputs /\ failures \in 0..MaxFailures

(* running_text(): a per-key preset first, then the record of the zone.        *)
RunningText(t, rec, pre) == IF t = NoTarget THEN None
                            ELSE IF t[1] \in pre THEN PerKey
                            ELSE rec[t]

Init == /\ target = NoTarget /\ combo = None /\ slider = 0
        /\ down = FALSE /\ writing = FALSE /\ queued = FALSE
        /\ job = NoJob /\ stage = "idle"
        /\ brightness = [t \in Targets |-> 0]
        /\ record = [t \in Targets |-> None]
        /\ preset = {} /\ relay = FALSE /\ label = None /\ excused = {}
        /\ inputs = 0 /\ failures = 0

Input == inputs < MaxInputs /\ inputs' = inputs + 1
Fault == failures < MaxFailures /\ failures' = failures + 1
Elsewhere == UNCHANGED <<job, stage, brightness, record, preset, relay>>

-----------------------------------------------------------------------------
(* _on_zone_changed(): the recorded effect is chosen, the brightness read from *)
(* the device, the label refreshed. A change that waited for a write is for    *)
(* another target then.                                                        *)
ShowTarget(t) ==
    /\ target' = t
    /\ combo' = IF t = NoTarget THEN None
                ELSE IF record[t] # None THEN record[t] ELSE CHOOSE e \in Effects : TRUE
    /\ \/ t = NoTarget /\ UNCHANGED <<slider, failures>>
       \/ t # NoTarget /\ slider' = brightness[t] /\ UNCHANGED failures
       \/ t # NoTarget /\ Fault /\ UNCHANGED slider
    /\ excused' = IF writing THEN excused \cup ({t, target, job.at} \cap Targets)
                  ELSE IF failures' # failures THEN excused \cup {t}
                  ELSE excused \ {t}
    /\ label' = RunningText(t, record, preset)

(* set_device(): a reload may come at any time, with the same device too.      *)
SetDevice(d) ==
    /\ Input
    /\ queued' = FALSE
    /\ IF d = None THEN ShowTarget(NoTarget)
       ELSE \E z \in Zones : z = (CHOOSE x \in Zones : TRUE) /\ ShowTarget(<<d, z>>)
    /\ UNCHANGED <<down, writing>> /\ Elsewhere

ChooseZone(z) ==
    /\ Input /\ target # NoTarget /\ target[2] # z
    /\ ShowTarget(<<target[1], z>>)
    /\ UNCHANGED <<down, writing, queued>> /\ Elsewhere

ChooseEffect(e) ==
    /\ Input /\ target # NoTarget /\ combo # e
    /\ combo' = e
    /\ UNCHANGED <<target, slider, down, writing, queued, label, excused, failures>> /\ Elsewhere

-----------------------------------------------------------------------------
Submit(j) == writing' = TRUE /\ job' = j
             /\ stage' = IF j.kind = "effect" THEN "claim" ELSE "write"

(* _on_apply(): the effect that is chosen now, for the target that is shown.   *)
Apply ==
    /\ Input /\ target # NoTarget /\ combo # None /\ ~writing
    /\ Submit([kind |-> "effect", at |-> target, value |-> 0, effect |-> combo])
    /\ UNCHANGED <<target, combo, slider, down, queued, label, excused, failures,
                   brightness, record, preset, relay>>

(* _apply_brightness(): at once, or when the write in flight is over.          *)
ApplyBrightness(level) ==
    IF target = NoTarget THEN UNCHANGED <<writing, queued, job, stage>>
    ELSE IF writing THEN queued' = TRUE /\ UNCHANGED <<writing, job, stage>>
    ELSE /\ Submit([kind |-> "brightness", at |-> target, value |-> level, effect |-> None])
         /\ UNCHANGED queued

(* A key or a click in the groove changes the brightness at once; a drag does  *)
(* when the slider is let go.                                                  *)
StepSlider(v) ==
    /\ Input /\ target # NoTarget /\ ~down /\ v # slider
    /\ slider' = v
    /\ ApplyBrightness(v)
    /\ UNCHANGED <<target, combo, down, label, brightness, record, preset, relay,
                   excused, failures>>

DragSlider(v) ==
    /\ Input /\ target # NoTarget /\ v # slider
    /\ down' = TRUE /\ slider' = v
    /\ UNCHANGED <<target, combo, writing, queued, label, excused, failures>> /\ Elsewhere

ReleaseSlider ==
    /\ down /\ down' = FALSE
    /\ ApplyBrightness(slider)
    /\ UNCHANGED <<target, combo, slider, label, brightness, record, preset, relay,
                   excused, inputs, failures>>

-----------------------------------------------------------------------------
(* claim_then_apply(): the claim makes a preset let go of the device, and tells *)
(* the panel; the write follows, and its record only when it was accepted.     *)
Claim ==
    /\ stage = "claim"
    /\ preset' = preset \ {job.at[1]}
    /\ relay' = TRUE
    /\ stage' = "write"
    /\ UNCHANGED <<panelVars, job, brightness, record, excused, inputs, failures>>

Write ==
    /\ stage = "write"
    /\ \/ /\ job.kind = "effect"
          /\ stage' = "record"
          /\ UNCHANGED <<brightness, excused, failures>>
       \/ /\ job.kind = "brightness"
          /\ brightness' = [brightness EXCEPT ![job.at] = job.value]
          /\ stage' = "done"
          /\ UNCHANGED <<excused, failures>>
       \/ /\ Fault /\ stage' = "failed"
          /\ excused' = IF job.kind = "brightness" THEN excused \cup {job.at} ELSE excused
          /\ UNCHANGED brightness
    /\ UNCHANGED <<panelVars, job, record, preset, relay, inputs>>

(* save_record() reads the file and writes all of it under a lock; a record    *)
(* that cannot be written changes nothing else.                                *)
Record ==
    /\ stage = "record"
    /\ stage' = "done"
    /\ \/ record' = [record EXCEPT ![job.at] = job.effect] /\ UNCHANGED failures
       \/ Fault /\ UNCHANGED record
    /\ UNCHANGED <<panelVars, job, brightness, preset, relay, excused, inputs>>

(* (mutant) The change made meanwhile is dropped with the flag.                *)
FinishWriteDrops ==
    /\ job' = NoJob /\ writing' = FALSE /\ stage' = "idle" /\ queued' = FALSE

(* _finish_write(): a brightness change made meanwhile follows.                *)
FinishWrite ==
    /\ job' = IF queued /\ target # NoTarget
              THEN [kind |-> "brightness", at |-> target, value |-> slider, effect |-> None]
              ELSE NoJob
    /\ writing' = (job' # NoJob)
    /\ stage' = IF job' # NoJob THEN "write" ELSE "idle"
    /\ queued' = FALSE

(* _on_apply_done(), _on_brightness_done(), _on_error(): only an effect that   *)
(* was applied refreshes the label.                                            *)
WriteDone ==
    /\ stage \in {"done", "failed"}
    /\ label' = IF stage = "done" /\ job.kind = "effect"
                THEN RunningText(target, record, preset) ELSE label
    /\ FinishWrite
    /\ UNCHANGED <<target, combo, slider, down, brightness, record, preset, relay,
                   excused, inputs, failures>>

-----------------------------------------------------------------------------
(* A per-key preset is shown or taken off elsewhere; RunningRelay hands the    *)
(* news from any thread to the GUI thread.                                     *)
PresetChanges(d) ==
    /\ Input
    /\ preset' = IF d \in preset THEN preset \ {d} ELSE preset \cup {d}
    /\ relay' = TRUE
    /\ UNCHANGED <<panelVars, job, stage, brightness, record, excused, failures>>

RelayArrives ==
    /\ relay /\ relay' = FALSE
    /\ label' = RunningText(target, record, preset)
    /\ UNCHANGED <<target, combo, slider, down, writing, queued, job, stage, brightness, record, preset, excused, inputs, failures>>

Next == \/ \E d \in Devices \cup {None} : SetDevice(d)
        \/ \E z \in Zones : ChooseZone(z)
        \/ \E e \in Effects : ChooseEffect(e)
        \/ \E v \in Levels : StepSlider(v) \/ DragSlider(v)
        \/ ReleaseSlider \/ Apply
        \/ Claim \/ Write \/ Record \/ WriteDone
        \/ \E d \in Devices : PresetChanges(d)
        \/ RelayArrives

Spec == Init /\ [][Next]_vars

-----------------------------------------------------------------------------
(* When no write is pending, the device has the brightness the slider shows:   *)
(* the last change reaches it though it was made while another write was on    *)
(* its way. Not so for a write that failed, and not when device or zone were   *)
(* changed under a pending write.                                              *)
LastBrightnessArrives ==
    ~writing /\ ~down /\ target # NoTarget /\ target \notin excused
        => slider = brightness[target]

(* The running label says what is recorded, or that a preset is shown, once    *)
(* the news of the runtime have arrived.                                       *)
LabelIsTrue == ~writing /\ ~relay => label = RunningText(target, record, preset)
=============================================================================
