---------------------------- MODULE AdvancedRuntime ----------------------------
(***************************************************************************)
(* The per-key lighting runtime (backend/advanced_runtime.py) among the    *)
(* threads that use it: the GUI thread, which reloads the devices, edits   *)
(* and quits; the pool threads, which activate, stop and apply other       *)
(* effects; the render thread.  A step is one section under the state      *)
(* lock, one under the render lock, or the calls between two of them.      *)
(***************************************************************************)
EXTENDS FiniteSets, Naturals

CONSTANTS
  Serials,     \* keyboards with a key matrix
  Presets,     \* keys of the saved presets
  Programs,    \* preset -> serials it has a program for
  Animated,    \* presets that change over time; the others paint once
  Workers,     \* threads of the pool
  Gui,         \* the GUI thread
  Renderers,   \* render threads
  NoPreset, NoThread, NoSerial,
  MaxObjects   \* most preset objects shown: activations and edits

ASSUME ProgramsAssumption ==
  /\ Programs \in [Presets -> SUBSET Serials]
  /\ Animated \subseteq Presets
  /\ NoPreset \notin Presets /\ NoSerial \notin Serials
ASSUME ThreadsAssumption ==
  /\ Gui \notin Workers
  /\ NoThread \notin Renderers
  /\ MaxObjects \in Nat

Threads == Workers \cup {Gui}

VARIABLES
  \* the devices
  gone,       \* serials that are not connected
  shows,      \* serial -> preset object it shows a frame of, 0 for its effect
  \* the runtime
  key,        \* key of _preset, or NoPreset
  object,     \* which preset object _preset is; they count up
  targets,    \* serials of _targets; a target is active while it is there
  paused,     \* targets whose device object went stale
  painted,    \* serial -> preset object its target last painted, or 0
  claimed,    \* _claimed_away
  thread,     \* _thread
  \* the render threads
  rpc,        \* renderer -> where it is in _run() and step()
  stopped,    \* renderers whose stop event is set
  snap,       \* renderer -> the snapshot of its step()
  \* the callers
  at,         \* thread -> where it is in its call, "idle" between calls
  call,       \* thread -> the arguments and locals of its call
  listed,     \* serials the window lists since its last reload
  last,       \* the setting last_advanced_preset
  \* history
  unreached   \* serials let go of while they could not be reached

deviceVars == <<gone, shows>>
stateVars == <<key, object, targets, paused, painted, claimed, thread>>
renderVars == <<rpc, stopped, snap>>
callVars == <<at, call>>
guiVars == <<listed, last>>
vars == <<deviceVars, stateVars, renderVars, callVars, guiVars, unreached>>

NoCall == [op |-> "none", key |-> NoPreset, serials |-> {}, old |-> {}, emptied |-> NoPreset]
NoSnap == [todo |-> {}, object |-> 0, key |-> NoPreset, serial |-> NoSerial, live |-> FALSE]
NothingPainted == [s \in Serials |-> 0]

Step(t, place) == at' = [at EXCEPT ![t] = place]

\* A pool thread's call waits to be reported; one of the GUI thread is over.
End(t) == IF t # Gui THEN "done" ELSE IF call[Gui].op = "quit" THEN "quit" ELSE "idle"
EndedCall(t) == IF t # Gui THEN [call[t] EXCEPT !.old = {}] ELSE NoCall
Rendering == \E r \in Renderers : rpc[r] \in {"frame", "paint"}

\* A frame for a target that was dropped is still on its way to s.
Underway(s) == \E r \in Renderers : rpc[r] = "paint" /\ snap[r].serial = s /\ ~snap[r].live

\* The targets S are no longer active: no step() begins to paint one of them.
Deactivate(S) ==
  snap' = [r \in Renderers |->
             [snap[r] EXCEPT !.todo = @ \ S, !.live = @ /\ snap[r].serial \notin S]]

\* The renderers R are done with the frame of their target.
NextTarget(R) ==
  /\ rpc' = [r \in Renderers |-> IF r \in R THEN "frame" ELSE rpc[r]]
  /\ snap' = [r \in Renderers |->
                IF r \in R THEN [snap[r] EXCEPT !.serial = NoSerial, !.live = FALSE]
                           ELSE snap[r]]

-----------------------------------------------------------------------------
(* The devices *)

\* A write to a device fails while it disappears or comes back.
Interrupted(s) == NextTarget({r \in Renderers : rpc[r] = "paint" /\ snap[r].serial = s})

Lose(s) ==
  /\ s \notin gone
  /\ gone' = gone \cup {s}
  /\ Interrupted(s)
  /\ UNCHANGED <<shows, stateVars, stopped, callVars, guiVars, unreached>>

ComeBack(s) ==
  /\ s \in gone
  /\ gone' = gone \ {s}
  /\ Interrupted(s)
  /\ UNCHANGED <<shows, stateVars, stopped, callVars, guiVars, unreached>>

-----------------------------------------------------------------------------
(* activate() *)

\* The room left for preset objects, those on their way counted.
Room == object + Cardinality({t \in Threads : at[t] \in {"choose", "install"}}) < MaxObjects

\* A job queued by an earlier click on Activate starts: forget what was
\* claimed, build the targets.
Activate(w, p) ==
  /\ at[w] = "idle"
  /\ Room
  /\ Programs[p] \cap listed # {}
  /\ claimed' = {}
  /\ Step(w, "install")
  /\ call' = [call EXCEPT ![w] = [NoCall EXCEPT !.op = "activate", !.key = p,
                                  !.serials = (Programs[p] \cap listed) \ gone]]
  /\ UNCHANGED <<deviceVars, key, object, targets, paused, painted, thread, renderVars,
                 guiVars, unreached>>

\* _ensure_thread(), with the lock held.
EnsureThread(needed) ==
  IF needed /\ thread = NoThread
  THEN \E r \in Renderers :
         /\ rpc[r] = "none"
         /\ thread' = r
         /\ rpc' = [rpc EXCEPT ![r] = "wait"]
         /\ stopped' = stopped \ {r}
  ELSE UNCHANGED <<thread, rpc, stopped>>

\* The new targets replace every old one, under the lock.
Install(t) ==
  LET built == call[t].serials
      old == targets \ built
  IN /\ at[t] = "install"
     /\ targets' = built
     /\ paused' = {}
     /\ painted' = NothingPainted
     /\ object' = object + 1
     /\ key' = IF built = {} THEN NoPreset ELSE call[t].key
     /\ EnsureThread(built # {})
     /\ Deactivate(targets)
     /\ call' = [call EXCEPT ![t] = IF old = {} THEN EndedCall(t) ELSE [@ EXCEPT !.old = old]]
     /\ Step(t, IF old = {} THEN End(t) ELSE "restore")
     /\ unreached' = unreached \ built
     /\ UNCHANGED <<deviceVars, claimed, guiVars>>

\* (mutant) The render lock is not taken.
RestoreAtOnce(t) ==
  LET reached == call[t].old \ gone
  IN /\ at[t] = "restore"
     /\ shows' = [s \in Serials |-> IF s \in reached THEN 0 ELSE shows[s]]
     /\ unreached' = (unreached \ reached) \cup (call[t].old \cap gone)
     /\ call' = [call EXCEPT ![t] = EndedCall(t)]
     /\ Step(t, IF call[t].op = "apply" THEN "apply" ELSE End(t))
     /\ UNCHANGED <<gone, stateVars, renderVars, guiVars>>

\* _restore(), under the render lock: after any frame in flight.
Restore(t) ==
  LET reached == call[t].old \ gone
  IN /\ at[t] = "restore"
     /\ ~Rendering
     /\ shows' = [s \in Serials |-> IF s \in reached THEN 0 ELSE shows[s]]
     /\ unreached' = (unreached \ reached) \cup (call[t].old \cap gone)
     /\ call' = [call EXCEPT ![t] = EndedCall(t)]
     /\ Step(t, IF call[t].op = "apply" THEN "apply" ELSE End(t))
     /\ UNCHANGED <<gone, stateVars, renderVars, guiVars>>

-----------------------------------------------------------------------------
(* stop(), release() in claim_then_apply(), update() *)

\* stop() under the lock.
DropAll(t) ==
  /\ targets' = {}
  /\ paused' = {}
  /\ painted' = NothingPainted
  /\ key' = NoPreset
  /\ claimed' = {}
  /\ Deactivate(targets)
  /\ Step(t, IF targets # {} THEN "restore" ELSE IF t = Gui THEN "quit" ELSE "done")

\* A job queued by an earlier click on Stop starts.
Stop(w) ==
  /\ at[w] = "idle"
  /\ DropAll(w)
  /\ call' = [call EXCEPT ![w] = [NoCall EXCEPT !.op = "stop", !.old = targets]]
  /\ UNCHANGED <<deviceVars, object, thread, rpc, stopped, guiVars, unreached>>

\* A click on Apply in the lighting panel: the job claims the device first.
Apply(w, s) ==
  /\ at[Gui] = "idle" /\ at[w] = "idle"
  /\ \A v \in Workers : call[v].op # "apply"
  /\ s \in listed
  /\ Step(w, "release")
  /\ call' = [call EXCEPT ![w] = [NoCall EXCEPT !.op = "apply", !.serials = {s}]]
  /\ UNCHANGED <<deviceVars, stateVars, renderVars, guiVars, unreached>>

\* release() under the lock.
Release(w) ==
  LET dropped == targets \cap call[w].serials
      rest == targets \ dropped
  IN /\ at[w] = "release"
     /\ targets' = rest
     /\ paused' = paused \ dropped
     /\ painted' = [s \in Serials |-> IF s \in dropped THEN 0 ELSE painted[s]]
     /\ claimed' = claimed \cup dropped
     /\ key' = IF rest = {} THEN NoPreset ELSE key
     /\ Deactivate(dropped)
     /\ call' = [call EXCEPT ![w] =
                   [@ EXCEPT !.old = dropped,
                             !.emptied = IF dropped # {} /\ rest = {} THEN key ELSE NoPreset]]
     /\ Step(w, IF dropped = {} THEN "apply" ELSE "restore")
     /\ UNCHANGED <<deviceVars, object, thread, rpc, stopped, guiVars, unreached>>

\* The effect itself, without any lock of the runtime.
ApplyEffect(w) ==
  LET reached == call[w].serials \ gone
  IN /\ at[w] = "apply"
     /\ shows' = [s \in Serials |-> IF s \in reached THEN 0 ELSE shows[s]]
     /\ unreached' = unreached \ {s \in reached : ~Underway(s)}
     /\ Step(w, "done")
     /\ UNCHANGED <<gone, stateVars, renderVars, call, guiVars>>

\* An edit of the active preset: the targets stay and repaint.
Update ==
  /\ at[Gui] = "idle"
  /\ key # NoPreset
  /\ Room
  /\ object' = object + 1
  /\ UNCHANGED <<deviceVars, key, targets, paused, painted, claimed, thread, renderVars,
                 callVars, guiVars, unreached>>

-----------------------------------------------------------------------------
(* The GUI thread: a reload with restore_last(), signals, the end *)

\* The window lists the devices of this reload; the setting against active_key().
Reload ==
  LET devices == Serials \ gone
  IN /\ at[Gui] = "idle"
     /\ Room
     /\ IF last = NoPreset
        THEN UNCHANGED callVars
        ELSE /\ Step(Gui, IF key = last THEN "refresh" ELSE "choose")
             /\ call' = [call EXCEPT ![Gui] =
                           [NoCall EXCEPT !.op = "reload", !.key = last, !.serials = devices,
                                          !.old = IF key = last THEN targets ELSE {}]]
     /\ listed' = devices
     /\ UNCHANGED <<deviceVars, stateVars, renderVars, last, unreached>>

\* The devices that claimed_away() does not name.
Choose ==
  LET free == (call[Gui].serials \cap Programs[call[Gui].key]) \ claimed
  IN /\ at[Gui] = "choose"
     /\ call' = [call EXCEPT ![Gui] = IF free = {} THEN NoCall ELSE [@ EXCEPT !.serials = free]]
     /\ Step(Gui, IF free = {} THEN "idle" ELSE "install")
     /\ UNCHANGED <<deviceVars, stateVars, renderVars, guiVars, unreached>>

\* refresh(): the targets it read are rebuilt or, without a device, dropped.
Refresh ==
  LET old == call[Gui].old \cap targets
      dropped == old \ call[Gui].serials
      rest == targets \ dropped
  IN /\ at[Gui] = "refresh"
     /\ targets' = rest
     /\ paused' = paused \ old
     /\ painted' = [s \in Serials |-> IF s \in old THEN 0 ELSE painted[s]]
     /\ key' = IF rest = {} THEN NoPreset ELSE key
     /\ Deactivate(old)
     /\ unreached' = unreached \cup dropped
     /\ call' = [call EXCEPT ![Gui] = NoCall]
     /\ Step(Gui, "idle")
     /\ UNCHANGED <<deviceVars, object, claimed, thread, rpc, stopped, guiVars>>

\* The signal "emptied" reaches the GUI thread while the job goes on, or later.
Forget(w) ==
  /\ at[Gui] = "idle"
  /\ at[w] \in {"apply", "done"}
  /\ call[w].emptied # NoPreset
  /\ last' = IF call[w].emptied = last THEN NoPreset ELSE last
  /\ call' = [call EXCEPT ![w].emptied = NoPreset]
  /\ UNCHANGED <<deviceVars, stateVars, renderVars, at, listed, unreached>>

\* So does the job's result, at any time after it ended: _on_activated()
\* remembers the preset and _on_stopped() forgets it.
Report(w) ==
  /\ at[Gui] = "idle"
  /\ at[w] = "done"
  /\ call[w].emptied = NoPreset
  /\ last' =
       CASE call[w].op = "activate" /\ call[w].serials # {} -> call[w].key
         [] call[w].op = "stop" -> NoPreset
         [] OTHER -> last
  /\ Step(w, "idle")
  /\ call' = [call EXCEPT ![w] = NoCall]
  /\ UNCHANGED <<deviceVars, stateVars, renderVars, listed, unreached>>

\* shutdown(): the thread is told to stop and waited for, then stop().
Shutdown ==
  /\ at[Gui] = "idle"
  /\ stopped' = IF thread = NoThread THEN stopped ELSE stopped \cup {thread}
  /\ thread' = NoThread
  /\ Step(Gui, "join")
  /\ call' = [call EXCEPT ![Gui] = [NoCall EXCEPT !.op = "quit"]]
  /\ UNCHANGED <<deviceVars, key, object, targets, paused, painted, claimed, rpc, snap,
                 guiVars, unreached>>

\* The thread ended, or JOIN_TIMEOUT_S is over.
LastStop ==
  /\ at[Gui] = "join"
  /\ DropAll(Gui)
  /\ call' = [call EXCEPT ![Gui].old = targets]
  /\ UNCHANGED <<deviceVars, object, thread, rpc, stopped, guiVars, unreached>>

-----------------------------------------------------------------------------
(* A render thread *)

RenderStep(r, place) == rpc' = [rpc EXCEPT ![r] = place]

\* The stop event ends the wait for the next frame.
Exit(r) ==
  /\ rpc[r] = "wait"
  /\ r \in stopped
  /\ RenderStep(r, "none")
  /\ UNCHANGED <<deviceVars, stateVars, stopped, snap, callVars, guiVars, unreached>>

\* step() takes the render lock, then the snapshot.
Snapshot(r) ==
  /\ rpc[r] = "wait"
  /\ ~Rendering
  /\ RenderStep(r, IF key = NoPreset THEN "retire" ELSE "frame")
  /\ snap' = IF key = NoPreset THEN snap
             ELSE [snap EXCEPT ![r] = [NoSnap EXCEPT !.todo = targets, !.object = object,
                                                     !.key = key]]
  /\ UNCHANGED <<deviceVars, stateVars, stopped, callVars, guiVars, unreached>>

Skipped(r, s) ==
  \/ s \in paused
  \/ snap[r].key \notin Animated /\ painted[s] = snap[r].object

\* The head of _paint() for the next target.
Look(r, s) ==
  /\ rpc[r] = "frame"
  /\ s \in snap[r].todo
  /\ IF Skipped(r, s)
     THEN /\ snap' = [snap EXCEPT ![r].todo = @ \ {s}]
          /\ UNCHANGED rpc
     ELSE /\ snap' = [snap EXCEPT ![r].todo = @ \ {s}, ![r].serial = s, ![r].live = TRUE]
          /\ RenderStep(r, "paint")
  /\ UNCHANGED <<deviceVars, stateVars, stopped, callVars, guiVars, unreached>>

\* The frame reaches the device.
Paint(r) ==
  LET s == snap[r].serial
  IN /\ rpc[r] = "paint"
     /\ s \notin gone
     /\ shows' = [shows EXCEPT ![s] = snap[r].object]
     /\ painted' = IF snap[r].live THEN [painted EXCEPT ![s] = snap[r].object] ELSE painted
     /\ NextTarget({r})
     /\ UNCHANGED <<gone, key, object, targets, paused, claimed, thread, stopped,
                    callVars, guiVars, unreached>>

\* The write fails: a stale device is paused, another is tried again.
PaintFails(r, stale) ==
  /\ rpc[r] = "paint"
  /\ paused' = IF stale /\ snap[r].live THEN paused \cup {snap[r].serial} ELSE paused
  /\ NextTarget({r})
  /\ UNCHANGED <<deviceVars, key, object, targets, painted, claimed, thread, stopped,
                 callVars, guiVars, unreached>>

EndFrame(r) ==
  /\ rpc[r] = "frame"
  /\ snap[r].todo = {}
  /\ RenderStep(r, "retire")
  /\ snap' = [snap EXCEPT ![r] = NoSnap]
  /\ UNCHANGED <<deviceVars, stateVars, stopped, callVars, guiVars, unreached>>

\* (mutant) The thread that ends is not forgotten.
RetireSilently(r) ==
  /\ rpc[r] = "retire"
  /\ RenderStep(r, IF key = NoPreset THEN "none" ELSE "wait")
  /\ UNCHANGED <<deviceVars, stateVars, stopped, snap, callVars, guiVars, unreached>>

\* _retire_if_idle().
Retire(r) ==
  /\ rpc[r] = "retire"
  /\ RenderStep(r, IF key = NoPreset THEN "none" ELSE "wait")
  /\ thread' = IF key = NoPreset /\ thread = r THEN NoThread ELSE thread
  /\ UNCHANGED <<deviceVars, key, object, targets, paused, painted, claimed, stopped, snap,
                 callVars, guiVars, unreached>>

-----------------------------------------------------------------------------
DeviceStep == \E s \in Serials : Lose(s) \/ ComeBack(s)

WorkerStep(w) ==
  \/ \E p \in Presets : Activate(w, p)
  \/ Stop(w)
  \/ \E s \in Serials : Apply(w, s)
  \/ Release(w)
  \/ ApplyEffect(w)
  \/ Forget(w)
  \/ Report(w)

GuiStep ==
  \/ Update
  \/ Reload
  \/ Choose
  \/ Refresh
  \/ Shutdown
  \/ LastStop

CallStep(t) ==
  \/ Install(t)
  \/ Restore(t)

RendererStep(r) ==
  \/ Exit(r)
  \/ Snapshot(r)
  \/ \E s \in Serials : Look(r, s)
  \/ Paint(r)
  \/ \E stale \in BOOLEAN : PaintFails(r, stale)
  \/ EndFrame(r)
  \/ Retire(r)

\* A start of Hueberry: nothing is shown, the setting is that of last time.
Init ==
  /\ gone \in SUBSET Serials
  /\ shows = NothingPainted
  /\ key = NoPreset /\ object = 0
  /\ targets = {} /\ paused = {} /\ painted = NothingPainted /\ claimed = {}
  /\ thread = NoThread
  /\ rpc = [r \in Renderers |-> "none"] /\ stopped = {} /\ snap = [r \in Renderers |-> NoSnap]
  /\ at = [t \in Threads |-> "idle"] /\ call = [t \in Threads |-> NoCall]
  /\ listed = {} /\ last \in Presets \cup {NoPreset}
  /\ unreached = {}

Next ==
  \/ DeviceStep
  \/ GuiStep
  \/ \E w \in Workers : WorkerStep(w)
  \/ \E t \in Threads : CallStep(t)
  \/ \E r \in Renderers : RendererStep(r)

Spec == Init /\ [][Next]_vars

-----------------------------------------------------------------------------
(* Properties *)

\* An active preset always has a thread that will render it: a thread that
\* retires and an activation never miss each other.
ActiveIsRendered ==
  /\ key # NoPreset <=> targets # {}
  /\ key # NoPreset =>
       \/ thread # NoThread /\ rpc[thread] # "none" /\ thread \notin stopped
       \/ at[Gui] = "join"

\* A device that was given back is not paused any more, and shows a frame only
\* until the call that gave it back restores it: no frame in flight comes after
\* that.
GivenBackIsRestored ==
  /\ paused \subseteq targets
  /\ \A s \in Serials \ (targets \cup unreached) :
       shows[s] # 0 => \E t \in Threads : at[t] = "restore" /\ s \in call[t].old
=============================================================================
