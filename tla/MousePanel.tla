---------------------------- MODULE MousePanel ----------------------------
(* The mouse panel (ui/mouse_panel.py): DPI and polling rate of one mouse, and *)
(* what a device makes of the values it is given (backend/mouse.py). A device  *)
(* with a fixed list of DPI values takes an X from the list and 0 for Y; it    *)
(* reads back what it was given.                                               *)
EXTENDS Integers, FiniteSets

CONSTANTS Mice,        \* devices
          MaxDpi,      \* [Mice -> the sensor's maximum]
          Choices,     \* [Mice -> its fixed DPI values, or {}]
          Rates,       \* [Mice -> supported polling rates, or {} without any]
          MinDpi, MaxInputs, MaxFailures
(* No fixed value is beyond what the device says its sensor takes.             *)
MouseAssumption == /\ MinDpi \in Nat \ {0} /\ MaxInputs \in Nat /\ MaxFailures \in Nat
                   /\ \A d \in Mice : /\ MaxDpi[d] \in Nat /\ MaxDpi[d] >= MinDpi
                                      /\ Choices[d] \subseteq MinDpi..MaxDpi[d]

None == "none"
Dpi == {MinDpi} \cup UNION {MinDpi..MaxDpi[d] : d \in Mice}
AnyRate == {0} \cup UNION {Rates[d] : d \in Mice}

VARIABLES mouse,    \* the device the panel is for, None when it is hidden
          x, slider, y, lock, rate, \* the panel's values
          writing, job, \* a write is pending; what it writes, and where
          dpi, pollRate, \* on the devices
          inputs, failures
panel == <<mouse, x, slider, y, lock, rate>>
vars == <<panel, writing, job, dpi, pollRate, inputs, failures>>

NoJob == [at |-> None, x |-> 0, y |-> 0, rate |-> 0, stage |-> "idle"]
Clamp(v, d) == IF v < MinDpi THEN MinDpi ELSE IF v > MaxDpi[d] THEN MaxDpi[d] ELSE v
Apart(a, b) == IF a < b THEN b - a ELSE a - b

(* _fit_dpi(): the nearest value of a fixed list, the smaller of two.          *)
Fit(v, d) ==
    LET c == Clamp(v, d) IN
    IF Choices[d] = {} THEN c
    ELSE CHOOSE n \in Choices[d] : \A o \in Choices[d] :
             Apart(n, c) < Apart(o, c) \/ (Apart(n, c) = Apart(o, c) /\ n <= o)

TypeOK == /\ mouse \in Mice \cup {None}
          /\ {x, slider, y} \subseteq Dpi /\ lock \in BOOLEAN
          /\ rate \in AnyRate
          /\ writing \in BOOLEAN
          /\ job \in [at : Mice \cup {None}, x : Dpi \cup {0}, y : Dpi \cup {0}, rate : AnyRate,
                      stage : {"idle", "dpi", "rate", "done"}]
          /\ dpi \in [Mice -> [x : Dpi, y : Dpi \cup {0}]]
          /\ pollRate \in [Mice -> AnyRate]
          /\ inputs \in 0..MaxInputs /\ failures \in 0..MaxFailures

Init == /\ mouse = None /\ x = MinDpi /\ slider = MinDpi /\ y = MinDpi
        /\ lock = TRUE /\ rate = 0
        /\ writing = FALSE /\ job = NoJob
        /\ dpi \in [Mice -> [x : Dpi, y : Dpi \cup {0}]]
        /\ \A d \in Mice : /\ dpi[d].x = Fit(dpi[d].x, d)
                           /\ (Choices[d] # {}) <=> dpi[d].y = 0
                           /\ dpi[d].y <= MaxDpi[d]
        /\ pollRate \in [Mice -> AnyRate]
        /\ \A d \in Mice : IF Rates[d] = {} THEN pollRate[d] = 0 ELSE pollRate[d] \in Rates[d]
        /\ inputs = 0 /\ failures = 0

Input == inputs < MaxInputs /\ inputs' = inputs + 1
Fault == failures < MaxFailures /\ failures' = failures + 1

(* set_device() and _load(): equal or missing Y means locked. A device that    *)
(* cannot be read hides the panel.                                             *)
Load(d) ==
    /\ x' = Clamp(dpi[d].x, d) /\ slider' = Clamp(dpi[d].x, d)
    /\ lock' = (dpi[d].y \in {dpi[d].x, 0})
    /\ y' = Clamp(IF lock' THEN dpi[d].x ELSE dpi[d].y, d)
    /\ rate' = pollRate[d]
    /\ mouse' = d

SetDevice(d) ==
    /\ Input
    /\ \/ d = None /\ mouse' = None /\ UNCHANGED <<x, slider, y, lock, rate, failures>>
       \/ d # None /\ Load(d) /\ UNCHANGED failures
       \/ d # None /\ Fault /\ mouse' = None /\ UNCHANGED <<x, slider, y, lock, rate>>
    /\ UNCHANGED <<writing, job, dpi, pollRate>>

(* _on_x_changed(), from the spin box or the slider.                           *)
SetX(v) ==
    /\ Input /\ mouse # None /\ v # x /\ v <= MaxDpi[mouse]
    /\ x' = v /\ slider' = v
    /\ y' = IF lock THEN v ELSE y
    /\ UNCHANGED <<mouse, lock, rate, writing, job, dpi, pollRate, failures>>

SetY(v) ==
    /\ Input /\ mouse # None /\ ~lock /\ v # y /\ v <= MaxDpi[mouse]
    /\ y' = v
    /\ UNCHANGED <<mouse, x, slider, lock, rate, writing, job, dpi, pollRate, failures>>

SetRate(r) ==
    /\ Input /\ mouse # None /\ r \in Rates[mouse] /\ r # rate
    /\ rate' = r
    /\ UNCHANGED <<mouse, x, slider, y, lock, writing, job, dpi, pollRate, failures>>

(* _on_lock_toggled().                                                         *)
ToggleLock ==
    /\ Input /\ mouse # None
    /\ lock' = ~lock
    /\ y' = IF lock THEN y ELSE x
    /\ UNCHANGED <<mouse, x, slider, rate, writing, job, dpi, pollRate, failures>>

(* _on_apply(): the values and the device of this moment.                      *)
Apply ==
    /\ Input /\ mouse # None /\ ~writing
    /\ writing' = TRUE
    /\ job' = [at |-> mouse, x |-> x, y |-> IF lock THEN x ELSE y, rate |-> rate, stage |-> "dpi"]
    /\ UNCHANGED <<panel, dpi, pollRate, failures>>

(* set_dpi(), then set_poll_rate() when there is one: the first can succeed    *)
(* and the second fail.                                                        *)
WriteDpi ==
    /\ job.stage = "dpi"
    /\ \/ /\ dpi' = [dpi EXCEPT ![job.at] =
                         [x |-> Fit(job.x, job.at),
                          y |-> IF Choices[job.at] # {} THEN 0 ELSE Fit(job.y, job.at)]]
          /\ job' = [job EXCEPT !.stage = IF Rates[job.at] # {} THEN "rate" ELSE "done"]
          /\ UNCHANGED failures
       \/ Fault /\ job' = [job EXCEPT !.stage = "done"] /\ UNCHANGED dpi
    /\ UNCHANGED <<panel, writing, pollRate, inputs>>

WriteRate ==
    /\ job.stage = "rate"
    /\ \/ pollRate' = [pollRate EXCEPT ![job.at] = job.rate] /\ UNCHANGED failures
       \/ Fault /\ UNCHANGED pollRate
    /\ job' = [job EXCEPT !.stage = "done"]
    /\ UNCHANGED <<panel, writing, dpi, inputs>>

(* _on_applied(), _on_error(): the panel keeps its values.                     *)
Applied ==
    /\ job.stage = "done"
    /\ job' = NoJob /\ writing' = FALSE
    /\ UNCHANGED <<panel, dpi, pollRate, inputs, failures>>

Next == \/ \E d \in Mice \cup {None} : SetDevice(d)
        \/ \E v \in Dpi : SetX(v) \/ SetY(v)
        \/ \E d \in Mice : \E r \in Rates[d] : SetRate(r)
        \/ ToggleLock \/ Apply \/ WriteDpi \/ WriteRate \/ Applied

Spec == Init /\ [][Next]_vars

-----------------------------------------------------------------------------
(* The panel's values agree with each other and fit the device it is for, and  *)
(* every device only ever has values its sensor takes, whichever devices were  *)
(* chosen while a write was on its way.                                        *)
MouseIsLegal ==
    /\ lock => y = x
    /\ slider = x
    /\ mouse # None => x <= MaxDpi[mouse] /\ y <= MaxDpi[mouse]
    /\ \A d \in Mice :
          /\ dpi[d].x <= MaxDpi[d] /\ dpi[d].y <= MaxDpi[d]
          /\ Choices[d] # {} => dpi[d].x \in Choices[d] /\ dpi[d].y = 0
          /\ Rates[d] # {} => pollRate[d] \in Rates[d]
=============================================================================
