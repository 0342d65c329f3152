------------------------------ MODULE MacroEditor ------------------------------
(***************************************************************************)
(* The macro editor (ui/macro_editor.py) with its step dialog, the repeat  *)
(* group (ui/macro_repeat.py), the review of a recording                   *)
(* (ui/macro_review.py), and what becomes of a recording on the way: the   *)
(* engine's Recorder (macro_engine/recorder.py) and the conversion of its  *)
(* events to steps (macros/keycodes.py).  Every dialog is modal to the one *)
(* below it.  Times are whole milliseconds.                                *)
(***************************************************************************)
EXTENDS Integers, Sequences, FiniteSets, SequencesExt, Lists

CONSTANTS
  MaxSteps,      \* MAX_STEPS
  MinGap,        \* DEFAULT_MIN_GAP_MS
  MaxDelay,      \* MAX_DELAY_MS
  MaxCount,      \* MAX_REPEAT_COUNT; the least is 1
  Macros,        \* macros the editor is opened for
  Times,         \* timestamps of recorded events
  MaxInputs      \* inputs of the user in one run (bound)

VARIABLES
  original,      \* the macro the editor was opened for
  steps, trigger,
  current,       \* current row of the list, 0 for none
  chosen,        \* selected rows
  mode, spin,    \* the repeat group: checked radio, value of the spin box
  keptCount,     \* _kept_count, NoCount for None
  okEnabled,     \* the OK button, set by _validate
  dialog,        \* the dialog on top of the editor, or NoDialog
  result,        \* the macro handed to the page, or the original before that
  phase,         \* "open", "accepted" or "rejected"
  inputs,
  \* history
  countEdited    \* the user edited the count

vars == <<original, steps, trigger, current, chosen, mode, spin, keptCount, okEnabled, dialog,
          result, phase, inputs, countEdited>>
listVars == <<steps, current, chosen>>
repeatVars == <<mode, spin, keptCount, countEdited>>

MouseButtons == {"BTN_LEFT", "BTN_SIDE"}
ValidCodes == {"KEY_A", "KEY_PAUSE"} \cup MouseButtons
Unknown == "KEY_NONE"                      \* is_valid_code is False
Actions == {"tap", "press", "release"}
TakenTriggers == {"KEY_A"}                 \* _taken
Triggers == TakenTriggers \cup {"BTN_SIDE", Unknown}
Modes == {"once", "times", "toggle"}
AppActions == {"toggle_sysmon"}
NoCount == -1
NoDialog == [type |-> "none"]

-----------------------------------------------------------------------------
(* Steps and macros *)

Step(type, code, action, ms) == [type |-> type, code |-> code, action |-> action, ms |-> ms]
Key(code, action) == Step("key", code, action, 0)
Wheel(direction) == Step("wheel", direction, "", 0)
Delay(ms) == Step("delay", "", "", ms)
App(action) == Step("app", action, "", 0)
Steps ==
  {Key(c, a) : c \in ValidCodes \cup {Unknown}, a \in Actions}
    \cup {Wheel(d) : d \in {"up", "down"}} \cup {Delay(n) : n \in 0 .. MaxDelay}
    \cup {App(a) : a \in AppActions}

\* What the page opens: a new macro, or one of a configuration that was valid.
\* No count of a file is None.
EditorAssumption ==
  /\ {MaxSteps, MinGap} \subseteq Nat /\ {MaxDelay, MaxCount} \subseteq Nat \ {0} /\ MinGap <= MaxDelay
  /\ Times \subseteq Int
  /\ Macros \subseteq [steps : Seq(Steps), trigger : Triggers, mode : Modes, count : Int \ {NoCount}]
  /\ \A m \in Macros : Len(m.steps) <= MaxSteps /\ (m.mode = "times" => m.count \in 1 .. MaxCount)

StepIsValid(s) ==
  CASE s.type = "key" -> s.code \in ValidCodes /\ s.action \in Actions
    [] s.type = "delay" -> s.ms \in 0 .. MaxDelay
    [] s.type = "app" -> s.code \in AppActions
    [] s.type = "wheel" -> s.code \in {"up", "down"}

\* Macro.problems and what the editor adds: at least one step, a free trigger.
IsValid(m) ==
  /\ m.trigger \in ValidCodes \ TakenTriggers
  /\ Len(m.steps) \in 1 .. MaxSteps
  /\ m.mode \in Modes
  /\ m.mode = "times" => m.count \in 1 .. MaxCount
  /\ m.mode = "toggle" => \A i \in DOMAIN m.steps : m.steps[i].type # "app"
  /\ \A i \in DOMAIN m.steps : StepIsValid(m.steps[i])

Clamp(n) == IF n < 1 THEN 1 ELSE IF n > MaxCount THEN MaxCount ELSE n

\* RepeatModeGroup.count of a mode, a spin value and a kept count.
Count(m, s, k) == IF k = NoCount \/ m = "times" THEN s ELSE k

\* MacroEditorDialog.macro.
Edited(st, t, m, s, k) ==
  [steps |-> st, trigger |-> t, mode |-> m, count |-> Count(m, s, k)]
Macro == Edited(steps, trigger, mode, spin, keptCount)

-----------------------------------------------------------------------------
(* The step dialog: one editor per kind, prefilled where the step fits. *)

StepKind(s) == IF s.type = "key" /\ s.code \in MouseButtons THEN "mouse" ELSE s.type

Fields(s) ==
  [kind |-> StepKind(s),
   code |-> IF s.type = "key" THEN s.code ELSE "KEY_A",
   action |-> IF s.type = "key" THEN s.action ELSE "tap",
   mouse |-> IF StepKind(s) = "mouse" THEN s.code ELSE "BTN_LEFT",
   wheel |-> IF s.type = "wheel" THEN s.code ELSE "up",
   ms |-> IF s.type = "delay" THEN s.ms ELSE 1,
   app |-> IF s.type = "app" THEN s.code ELSE "toggle_sysmon"]

\* StepDialog.step.
StepOf(f) ==
  CASE f.kind = "mouse" -> Key(f.mouse, f.action)
    [] f.kind = "wheel" -> Wheel(f.wheel)
    [] f.kind = "delay" -> Delay(f.ms)
    [] f.kind = "app" -> App(f.app)
    [] f.kind = "key" -> Key(f.code, f.action)

\* What one input in the dialog changes: the kind, or the editor of that kind.
FieldInputs(f) ==
  {[f EXCEPT !.kind = k] : k \in {"key", "mouse", "wheel", "delay", "app"}}
    \cup (IF f.kind = "key" THEN {[f EXCEPT !.code = c] : c \in {"KEY_A", "BTN_LEFT", Unknown}} ELSE {})
    \cup (IF f.kind \in {"key", "mouse"} THEN {[f EXCEPT !.action = a] : a \in Actions} ELSE {})
    \cup (IF f.kind = "mouse" THEN {[f EXCEPT !.mouse = b] : b \in MouseButtons} ELSE {})
    \cup (IF f.kind = "wheel" THEN {[f EXCEPT !.wheel = w] : w \in {"up", "down"}} ELSE {})
    \cup (IF f.kind = "delay" THEN {[f EXCEPT !.ms = n] : n \in {0, MaxDelay}} ELSE {})

-----------------------------------------------------------------------------
(* Recording.  An event is a code, a value and a time. *)

Event(code, value, t) == [code |-> code, value |-> value, t |-> t]
Events ==
  {Event(c, v, t) : c \in {"KEY_A", "KEY_PAUSE", "BTN_LEFT", Unknown}, v \in 0 .. 2, t \in Times}
    \cup {Event("REL_WHEEL", v, t) : v \in {-1, 1, 2}, t \in Times}

MaxRecorded == MaxSteps \div 2     \* MAX_RECORDED_EVENTS

\* Recorder._name_of: repeats, other wheel values and codes without a name are
\* not recorded.
Recordable(e) ==
  \/ e.code = "REL_WHEEL" /\ e.value \in {1, -1}
  \/ e.code # "REL_WHEEL" /\ e.value # 2 /\ e.code # Unknown

\* (mutant) As many events as steps.
KeepAll(tape, e) == IF Recordable(e) /\ Len(tape) < MaxSteps THEN Append(tape, e) ELSE tape

\* Recorder.handle: the tape after an event.
Handle(tape, e) == IF Recordable(e) /\ Len(tape) < MaxRecorded THEN Append(tape, e) ELSE tape

\* strip_stop_key.
StripStopKey(tape) ==
  LET others == {i \in DOMAIN tape : tape[i].code # "KEY_PAUSE"}
  IN SubSeq(tape, 1, IF others = {} THEN 0 ELSE CHOOSE i \in others : \A k \in others : k <= i)

Usable(e) == \/ e.code = "REL_WHEEL" /\ e.value \in {1, -1}
             \/ e.code \in ValidCodes /\ e.value \in {0, 1}
ToStep(e) ==
  IF e.code = "REL_WHEEL" THEN Wheel(IF e.value = 1 THEN "up" ELSE "down")
  ELSE Key(e.code, IF e.value = 1 THEN "press" ELSE "release")

\* _gap_step: the delay before an event, none for a gap that is too short.
Gap(before, t) ==
  IF t - before < MinGap THEN <<>> ELSE <<Delay(IF t - before > MaxDelay THEN MaxDelay ELSE t - before)>>

\* events_to_steps.
EventsToSteps(tape) ==
  LET used == Those(tape, {e \in ToSet(tape) : Usable(e)})
      all == FlattenSeq([i \in DOMAIN used |->
                   IF i = 1 THEN <<ToStep(used[i])>>
                   ELSE Append(Gap(used[i - 1].t, used[i].t), ToStep(used[i]))])
  IN IF Len(all) > MaxSteps THEN SubSeq(all, 1, MaxSteps) ELSE all

\* ReviewDialog.steps, of the checked rows.
Checked(rec, ticks) ==
  LET rows == Those([i \in DOMAIN rec |-> i], ticks)
  IN [k \in DOMAIN rows |-> rec[rows[k]]]
IsMouseStep(s) == s.type = "wheel" \/ (s.type = "key" /\ s.code \in MouseButtons)
IsKeyboardStep(s) == s.type = "key" /\ s.code \notin MouseButtons

-----------------------------------------------------------------------------
(* The step list *)

Input == phase = "open" /\ inputs < MaxInputs /\ inputs' = inputs + 1 /\ UNCHANGED <<original, result, phase>>
Idle == dialog = NoDialog

\* _validate: OK is enabled for a macro without problems.
Validate == okEnabled' = IsValid(Edited(steps', trigger', mode', spin', keptCount'))

\* _refresh_steps: the list is filled anew, and one row selected if there is one.
Refresh(st, row) ==
  /\ steps' = st
  /\ current' = IF row \in DOMAIN st THEN row ELSE 0
  /\ chosen' = IF row \in DOMAIN st THEN {row} ELSE {}
  /\ UNCHANGED <<trigger, repeatVars>>
  /\ Validate

\* _insert: after the current row, as many as there is room for.
Insert(new) ==
  LET at == IF current = 0 THEN Len(steps) ELSE current
      room == MaxSteps - Len(steps)
      fit == IF Len(new) > room THEN SubSeq(new, 1, room) ELSE new
  IN Refresh(SubSeq(steps, 1, at) \o fit \o SubSeq(steps, at + 1, Len(steps)), at + Len(fit))

\* The mouse and the keyboard select any rows; the list that gets the focus
\* makes its first row current without selecting it.
Select(c, rows) ==
  /\ Idle
  /\ <<c, rows>> # <<current, chosen>>
  /\ Input
  /\ current' = c
  /\ chosen' = rows
  /\ UNCHANGED <<steps, trigger, repeatVars, okEnabled, dialog>>

\* The buttons follow the selection (_update_buttons).
Single == chosen = {current}

Move(offset) ==
  /\ Idle
  /\ Single
  /\ current + offset \in DOMAIN steps
  /\ Input
  /\ Refresh([steps EXCEPT ![current] = steps[current + offset], ![current + offset] = steps[current]],
             current + offset)
  /\ UNCHANGED dialog

\* _delete_current, after the question for several rows.
Delete ==
  /\ Idle
  /\ chosen # {}
  /\ Input
  /\ LET kept == Checked(steps, DOMAIN steps \ chosen)
         first == CHOOSE i \in chosen : \A k \in chosen : i <= k
     IN Refresh(kept, IF first <= Len(kept) THEN first ELSE Len(kept))
  /\ UNCHANGED dialog

\* Add key and Add delay (row 0), or _edit_current.
OpenStep(row, s) ==
  /\ Idle
  /\ Input
  /\ dialog' = [type |-> "step", row |-> row, fields |-> Fields(s)]
  /\ UNCHANGED <<listVars, trigger, repeatVars, okEnabled>>

AddStep == Len(steps) < MaxSteps /\ \E s \in {Key("KEY_A", "tap"), Delay(1)} : OpenStep(0, s)
EditStep == current # 0 /\ OpenStep(current, steps[current])

ChangeField ==
  /\ dialog.type = "step"
  /\ Input
  /\ \E f \in FieldInputs(dialog.fields) : f # dialog.fields /\ dialog' = [dialog EXCEPT !.fields = f]
  /\ UNCHANGED <<listVars, trigger, repeatVars, okEnabled>>

\* _step_done.
StepDone ==
  /\ dialog.type = "step"
  /\ dialog' = NoDialog
  /\ IF dialog.row = 0 THEN Insert(<<StepOf(dialog.fields)>>)
     ELSE Refresh([steps EXCEPT ![dialog.row] = StepOf(dialog.fields)], dialog.row)
  /\ UNCHANGED <<original, result, phase, inputs>>

-----------------------------------------------------------------------------
(* Recording and review *)

\* Record, with a running engine (_open_recorder): the engine has the tape.
OpenRecorder ==
  /\ Idle
  /\ Input
  /\ dialog' = [type |-> "recorder", tape |-> <<>>]
  /\ UNCHANGED <<listVars, trigger, repeatVars, okEnabled>>

Record ==
  /\ dialog.type = "recorder"
  /\ Input
  /\ \E e \in Events : dialog' = [dialog EXCEPT !.tape = Handle(@, e)]
  /\ UNCHANGED <<listVars, trigger, repeatVars, okEnabled>>

\* The recording ends with something usable: every step is checked first.
Recorded ==
  /\ dialog.type = "recorder"
  /\ LET rec == EventsToSteps(StripStopKey(dialog.tape))
     IN /\ rec # <<>>
        /\ dialog' = [type |-> "review", steps |-> rec, ticks |-> DOMAIN rec, tape |-> dialog.tape]
  /\ UNCHANGED <<original, listVars, trigger, repeatVars, okEnabled, result, phase, inputs>>

\* One check box, or All, None, Mouse only, Keyboard only (_check_where).
Tick ==
  /\ dialog.type = "review"
  /\ Input
  /\ LET rec == dialog.steps
     IN \E ticks \in {{}, DOMAIN rec, {i \in DOMAIN rec : IsMouseStep(rec[i])},
                      {i \in DOMAIN rec : IsKeyboardStep(rec[i])}}
                       \cup {dialog.ticks \ {i} : i \in DOMAIN rec} :
          dialog' = [dialog EXCEPT !.ticks = ticks]
  /\ UNCHANGED <<listVars, trigger, repeatVars, okEnabled>>

\* _insert_reviewed.
Reviewed ==
  /\ dialog.type = "review"
  /\ dialog' = NoDialog
  /\ IF dialog.ticks = {} THEN UNCHANGED <<listVars, trigger, repeatVars, okEnabled>>
     ELSE Insert(Checked(dialog.steps, dialog.ticks))
  /\ UNCHANGED <<original, result, phase, inputs>>

DialogCancelled ==
  /\ dialog # NoDialog
  /\ dialog' = NoDialog
  /\ UNCHANGED <<original, listVars, trigger, repeatVars, okEnabled, result, phase, inputs>>

-----------------------------------------------------------------------------
(* The rest of the editor *)

\* Typed, chosen from the list, or captured (_captured).
SetTrigger(t) ==
  /\ Idle
  /\ t # trigger
  /\ Input
  /\ trigger' = t
  /\ UNCHANGED <<listVars, repeatVars, dialog>>
  /\ Validate

\* A radio of the repeat group.
SetMode(m) ==
  /\ Idle
  /\ m # mode
  /\ Input
  /\ mode' = m
  /\ UNCHANGED <<listVars, trigger, spin, keptCount, countEdited, dialog>>
  /\ Validate

\* _on_count_edited; the box is enabled for "times".
SetCount(n) ==
  /\ Idle
  /\ mode = "times"
  /\ n # spin
  /\ Input
  /\ spin' = n
  /\ keptCount' = NoCount
  /\ countEdited' = TRUE
  /\ UNCHANGED <<listVars, trigger, mode, dialog>>
  /\ Validate

\* OK and Cancel; the page takes macro() of an accepted editor.
Accept ==
  /\ phase = "open"
  /\ Idle
  /\ okEnabled
  /\ phase' = "accepted"
  /\ result' = Macro
  /\ UNCHANGED <<original, listVars, trigger, repeatVars, okEnabled, dialog, inputs, countEdited>>

Reject ==
  /\ phase = "open"
  /\ Idle
  /\ phase' = "rejected"
  /\ UNCHANGED <<original, listVars, trigger, repeatVars, okEnabled, dialog, result, inputs, countEdited>>

\* __init__ and RepeatModeGroup.set_value: outside "times" the count is kept
\* as it is, whatever the box can show.
Init ==
  /\ original \in Macros
  /\ steps = original.steps
  /\ trigger = original.trigger
  /\ current = 0
  /\ chosen = {}
  /\ mode = original.mode
  /\ spin = Clamp(original.count)
  /\ keptCount = IF original.mode = "times" THEN NoCount ELSE original.count
  /\ okEnabled = IsValid(Macro)
  /\ dialog = NoDialog
  /\ result = original
  /\ phase = "open"
  /\ inputs = 0
  /\ countEdited = FALSE

Next ==
  \/ \E c \in DOMAIN steps : \E rows \in SUBSET DOMAIN steps : Select(c, rows)
  \/ \E offset \in {-1, 1} : Move(offset)
  \/ Delete
  \/ AddStep
  \/ EditStep
  \/ ChangeField
  \/ StepDone
  \/ OpenRecorder
  \/ Record
  \/ Recorded
  \/ Tick
  \/ Reviewed
  \/ DialogCancelled
  \/ \E t \in Triggers : SetTrigger(t)
  \/ \E m \in Modes : SetMode(m)
  \/ \E n \in 1 .. MaxCount : SetCount(n)
  \/ Accept
  \/ Reject

Spec == Init /\ [][Next]_vars

-----------------------------------------------------------------------------
(* Properties *)

\* What leaves the editor is valid whatever order its inputs came in: the OK
\* button is as old as the last validation, and every input that matters
\* validates.  (A recording can fill the list at any time, a toggle loop can be
\* chosen after an app step, a count can come from a file.)
AcceptedIsValid == phase = "accepted" => IsValid(result)

\* A count the user did not edit comes back as it was, also one the box cannot
\* show and also after other modes were tried (_kept_count).
CountIsKept == result.mode = original.mode /\ ~countEdited => result.count = original.count

\* A step that is opened and accepted without an input stays as it is.
StepsRoundTrip == \A i \in DOMAIN steps : StepOf(Fields(steps[i])) = steps[i]

\* What a recording offers for review: its events in their order but for the
\* Pause keys that ended it, every one of them whatever the limits, with delays
\* in range that neither lead nor follow each other.
RecordingIsWhole ==
  dialog.type = "review" =>
    LET rec == dialog.steps
        events == Those(rec, {s \in ToSet(rec) : s.type # "delay"})
        n == Len(events)
    IN /\ events = [i \in 1 .. n |-> ToStep(dialog.tape[i])]
       /\ \A i \in n + 1 .. Len(dialog.tape) : dialog.tape[i].code = "KEY_PAUSE"
       /\ \A i \in DOMAIN rec : rec[i].type = "delay" =>
            i > 1 /\ rec[i - 1].type # "delay" /\ i < Len(rec) /\ rec[i].ms \in MinGap .. MaxDelay
       /\ Len(rec) - n = Cardinality({i \in 2 .. n : dialog.tape[i].t - dialog.tape[i - 1].t >= MinGap})

\* The list never outgrows the limit of the file format, and the current row
\* and the selection are rows of the list.
ListFits == Len(steps) <= MaxSteps /\ {current} \cup chosen \subseteq DOMAIN steps \cup {0}

TypeOK ==
  /\ \A i \in DOMAIN steps : steps[i].type \in {"key", "wheel", "delay", "app"}
  /\ trigger \in Triggers
  /\ mode \in Modes
  /\ spin \in 1 .. MaxCount
  /\ keptCount = NoCount \/ keptCount = original.count
  /\ okEnabled \in BOOLEAN /\ countEdited \in BOOLEAN
  /\ dialog.type \in {"none", "step", "recorder", "review"}
  /\ phase \in {"open", "accepted", "rejected"}

EditorIsFaithful ==
  AcceptedIsValid /\ CountIsKept /\ StepsRoundTrip /\ RecordingIsWhole /\ ListFits
=============================================================================
