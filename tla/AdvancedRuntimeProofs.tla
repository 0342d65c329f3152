------------------------- MODULE AdvancedRuntimeProofs -------------------------
(***************************************************************************)
(* An active preset always has a render thread, and a device that was      *)
(* given back keeps no frame: proved for any keyboards, presets, pool      *)
(* threads and render threads.                                             *)
(***************************************************************************)
EXTENDS AdvancedRuntime, TLAPS

\* Where a thread can be in its call.
Places == {"idle", "install", "restore", "release", "apply", "choose", "refresh",
           "join", "done", "quit"}

Keys == Presets \cup {NoPreset}
Calls == [op : {"none", "activate", "stop", "apply", "reload", "quit"}, key : Keys,
          serials : SUBSET Serials, old : SUBSET Serials, emptied : Keys]

\* The types of what the rendering depends on.
Types ==
  /\ key \in Keys
  /\ last \in Keys
  /\ targets \subseteq Serials
  /\ listed \subseteq Serials
  /\ thread \in Renderers \cup {NoThread}
  /\ rpc \in [Renderers -> {"none", "wait", "frame", "paint", "retire"}]
  /\ at \in [Threads -> Places]
  /\ call \in [Threads -> Calls]

\* The thread the runtime knows is alive and was not told to stop.
ThreadRuns == thread # NoThread => rpc[thread] # "none" /\ thread \notin stopped

\* A preset is active exactly while it has targets.
ActiveHasTargets == key # NoPreset <=> targets # {}

\* Without a thread a preset is active only while the window waits for the old
\* thread to end: the last stop is still to come.
ActiveHasThread == key # NoPreset => thread # NoThread \/ at[Gui] = "join"

\* A call that is to install targets knows the preset they are for.
InstallsPreset ==
  \A t \in Threads : at[t] \in {"choose", "install"} => call[t].key # NoPreset

IInv ==
  /\ Types
  /\ ThreadRuns
  /\ ActiveHasTargets
  /\ ActiveHasThread
  /\ InstallsPreset

LEMMA NoCallType == NoCall \in Calls
BY DEF NoCall, Calls, Keys

LEMMA InitIInv == Init => IInv
<1> SUFFICES ASSUME Init PROVE IInv
  OBVIOUS
<1>1. Types
  BY NoCallType DEF Init, Types, Keys, Places
<1> QED
  BY <1>1 DEF Init, IInv, ThreadRuns, ActiveHasTargets, ActiveHasThread, InstallsPreset

-----------------------------------------------------------------------------
(* What keeps the invariant *)

\* A call that leaves the render threads alone and activates nothing: the
\* preset stays what it is, loses targets, or is dropped with the last one.
LEMMA CallKeeps ==
  ASSUME IInv, NEW t \in Threads, NEW place \in Places, Step(t, place),
         NEW STATE c, c \in Calls, call' = [call EXCEPT ![t] = c],
         place \in {"choose", "install"} => c.key # NoPreset,
         UNCHANGED <<thread, rpc, stopped>>,
         last' \in Keys, listed' \subseteq Serials, targets' \subseteq Serials,
         key' = key \/ key' = NoPreset,
         key' # NoPreset <=> targets' # {},
         t = Gui => key' = NoPreset \/ at[Gui] # "join"
  PROVE  IInv'
<1>1. Types'
  <2>1. at' \in [Threads -> Places]
    BY DEF IInv, Types, Step
  <2>2. call' \in [Threads -> Calls]
    BY DEF IInv, Types
  <2>3. key' \in Keys
    BY DEF IInv, Types, Keys
  <2> QED
    BY <2>1, <2>2, <2>3 DEF IInv, Types
<1>2. ThreadRuns'
  BY DEF IInv, ThreadRuns
<1>3. ActiveHasThread'
  BY DEF IInv, Types, ActiveHasThread, Step
<1>4. InstallsPreset'
  BY DEF IInv, Types, InstallsPreset, Step
<1> QED
  BY <1>1, <1>2, <1>3, <1>4 DEF IInv, ActiveHasTargets

\* A move of a render thread that goes on.
LEMMA RendererKeeps ==
  ASSUME IInv, UNCHANGED <<thread, stopped, key, last, targets, listed, at, call>>,
         rpc' \in [Renderers -> {"none", "wait", "frame", "paint", "retire"}],
         \A r \in Renderers : rpc[r] # "none" /\ r \notin stopped => rpc'[r] # "none"
  PROVE  IInv'
<1>1. Types'
  BY DEF IInv, Types
<1>2. ThreadRuns'
  BY DEF IInv, ThreadRuns, Types
<1> QED
  BY <1>1, <1>2 DEF IInv, ActiveHasTargets, ActiveHasThread, InstallsPreset

\* The renderers that are done with a target were painting, so they run.
LEMMA NextTargetKeeps ==
  ASSUME IInv, UNCHANGED <<thread, stopped, key, last, targets, listed, at, call>>,
         NEW R, NextTarget(R)
  PROVE  IInv'
<1>1. rpc' = [r \in Renderers |-> IF r \in R THEN "frame" ELSE rpc[r]]
  BY DEF NextTarget
<1>2. rpc' \in [Renderers -> {"none", "wait", "frame", "paint", "retire"}]
  BY <1>1 DEF IInv, Types
<1>3. \A r \in Renderers : rpc[r] # "none" => rpc'[r] # "none"
  BY <1>1
<1> QED
  BY <1>2, <1>3, RendererKeeps

-----------------------------------------------------------------------------
(* The steps *)

LEMMA DeviceIInv == IInv /\ DeviceStep => IInv'
<1> SUFFICES ASSUME IInv, NEW s \in Serials, Lose(s) \/ ComeBack(s) PROVE IInv'
  BY DEF DeviceStep
<1> QED
  BY NextTargetKeeps DEF Lose, ComeBack, Interrupted, stateVars, callVars, guiVars

\* What a call records of itself keeps its type.
LEMMA CallTypes ==
  ASSUME NEW c \in Calls, NEW S \in SUBSET Serials, NEW k \in Keys
  PROVE  /\ [c EXCEPT !.serials = S] \in Calls
         /\ [c EXCEPT !.serials = S].key = c.key
         /\ [c EXCEPT !.old = S] \in Calls
         /\ [c EXCEPT !.old = S].key = c.key
         /\ [c EXCEPT !.emptied = k] \in Calls
BY DEF Calls

LEMMA NewCallTypes ==
  ASSUME NEW S \in SUBSET Serials, NEW k \in Keys,
         NEW o \in {"activate", "stop", "apply", "reload", "quit"}
  PROVE  /\ [NoCall EXCEPT !.op = o, !.old = S] \in Calls
         /\ [NoCall EXCEPT !.op = o, !.key = k, !.serials = S] \in Calls
         /\ [NoCall EXCEPT !.op = o, !.key = k, !.serials = S].key = k
BY DEF NoCall, Calls, Keys
\* The calls of pool threads and of the GUI thread alike.
LEMMA RestoreIInv == ASSUME IInv, NEW t \in Threads, Restore(t) PROVE IInv'
<1> DEFINE place == IF call[t].op = "apply" THEN "apply" ELSE End(t)
<1>1. EndedCall(t) \in Calls
  BY NoCallType, CallTypes DEF EndedCall, IInv, Types
<1>2. place \in Places \ {"choose", "install"}
  BY DEF End, Places
<1>3. /\ at[t] = "restore"
      /\ Step(t, place)
      /\ call' = [call EXCEPT ![t] = EndedCall(t)]
      /\ UNCHANGED <<thread, rpc, stopped, last, listed, targets, key>>
  BY DEF Restore, stateVars, renderVars, guiVars
<1> HIDE DEF place
<1> QED
  BY <1>1, <1>2, <1>3, CallKeeps DEF IInv, Types, ActiveHasTargets

\* Install is the one step that activates a preset; with the lock held it
\* starts a thread unless there is one.
LEMMA InstallIInv == ASSUME IInv, NEW t \in Threads, Install(t) PROVE IInv'
<1> DEFINE built == call[t].serials
           old   == targets \ built
           place == IF old = {} THEN End(t) ELSE "restore"
           c     == IF old = {} THEN EndedCall(t) ELSE [call[t] EXCEPT !.old = old]
<1>1. built \subseteq Serials /\ call[t].key \in Keys /\ call[t] \in Calls
  BY DEF IInv, Types, Calls
<1>2. c \in Calls
  BY <1>1, NoCallType, CallTypes DEF EndedCall, IInv, Types
<1>3. place \in Places \ {"choose", "install", "join"}
  BY DEF End, Places
<1>4. /\ targets' = built
      /\ key' = IF built = {} THEN NoPreset ELSE call[t].key
      /\ at[t] = "install"
      /\ Step(t, place)
      /\ call' = [call EXCEPT ![t] = c]
      /\ EnsureThread(built # {})
      /\ UNCHANGED <<last, listed>>
  BY DEF Install, guiVars
<1> HIDE DEF c, place
<1>5. key' # NoPreset <=> built # {}
  BY <1>4 DEF IInv, InstallsPreset
<1>6. /\ thread' \in Renderers \cup {NoThread}
      /\ rpc' \in [Renderers -> {"none", "wait", "frame", "paint", "retire"}]
      /\ ThreadRuns'
      /\ built # {} => thread' # NoThread
  BY <1>4, ThreadsAssumption DEF EnsureThread, IInv, Types, ThreadRuns
<1>7. Types'
  <2>1. at' \in [Threads -> Places]
    BY <1>3, <1>4 DEF IInv, Types, Step
  <2>2. call' \in [Threads -> Calls]
    BY <1>2, <1>4 DEF IInv, Types
  <2>3. key' \in Keys
    BY <1>1, <1>4 DEF Keys
  <2> QED
    BY <1>1, <1>4, <1>6, <2>1, <2>2, <2>3 DEF IInv, Types
<1>8. InstallsPreset'
  BY <1>3, <1>4 DEF IInv, Types, InstallsPreset, Step
<1> QED
  BY <1>4, <1>5, <1>6, <1>7, <1>8 DEF IInv, ActiveHasTargets, ActiveHasThread

\* A pool thread's jobs and the reports of them.
LEMMA WorkerIInv == ASSUME IInv, NEW w \in Workers, WorkerStep(w) PROVE IInv'
<1>0. /\ w \in Threads /\ w # Gui
      /\ call[w] \in Calls
      /\ NoCall \in Calls
      /\ call[w].key \in Keys /\ call[w].emptied \in Keys
      /\ key \in Keys /\ last \in Keys
      /\ targets \subseteq Serials /\ listed \subseteq Serials
      /\ key # NoPreset <=> targets # {}
      /\ NoPreset \in Keys
      /\ call = [call EXCEPT ![w] = call[w]]
      /\ at = [at EXCEPT ![w] = at[w]]
  BY ThreadsAssumption, NoCallType DEF Threads, IInv, Types, ActiveHasTargets, Calls, Keys
<1>1. ASSUME NEW p \in Presets, Activate(w, p) PROVE IInv'
  <2> DEFINE c == [NoCall EXCEPT !.op = "activate", !.key = p,
                                 !.serials = (Programs[p] \cap listed) \ gone]
  <2>1. c \in Calls /\ c.key = p
    BY <1>0, NewCallTypes DEF Keys
  <2>2. p # NoPreset
    BY ProgramsAssumption
  <2>3. /\ Step(w, "install")
        /\ call' = [call EXCEPT ![w] = c]
        /\ UNCHANGED <<thread, rpc, stopped, last, listed, targets, key>>
    BY <1>1 DEF Activate, renderVars, guiVars
  <2> HIDE DEF c
  <2> QED
    BY <1>0, <2>1, <2>2, <2>3, CallKeeps DEF Places
<1>2. ASSUME Stop(w) PROVE IInv'
  <2> DEFINE c == [NoCall EXCEPT !.op = "stop", !.old = targets]
             place == IF targets # {} THEN "restore" ELSE "done"
  <2>1. c \in Calls
    BY <1>0, NewCallTypes
  <2>2. /\ Step(w, place)
        /\ call' = [call EXCEPT ![w] = c]
        /\ UNCHANGED <<thread, rpc, stopped, last, listed>>
        /\ key' = NoPreset /\ targets' = {}
    BY <1>0, <1>2 DEF Stop, DropAll, guiVars
  <2>3. place \in Places \ {"choose", "install"}
    BY DEF Places
  <2> HIDE DEF c, place
  <2> QED
    BY <1>0, <2>1, <2>2, <2>3, CallKeeps
<1>3. ASSUME NEW s \in Serials, Apply(w, s) PROVE IInv'
  <2> DEFINE c == [NoCall EXCEPT !.op = "apply", !.serials = {s}]
  <2>1. c \in Calls
    BY DEF NoCall, Calls, Keys
  <2>2. /\ Step(w, "release")
        /\ call' = [call EXCEPT ![w] = c]
        /\ UNCHANGED <<thread, rpc, stopped, last, listed, targets, key>>
    BY <1>3 DEF Apply, stateVars, renderVars, guiVars
  <2> HIDE DEF c
  <2> QED
    BY <1>0, <2>1, <2>2, CallKeeps DEF Places
<1>4. ASSUME Release(w) PROVE IInv'
  <2> DEFINE dropped == targets \cap call[w].serials
             rest    == targets \ dropped
             emptied == IF dropped # {} /\ rest = {} THEN key ELSE NoPreset
             c       == [call[w] EXCEPT !.old = dropped, !.emptied = emptied]
             place   == IF dropped = {} THEN "apply" ELSE "restore"
  <2>1. emptied \in Keys /\ dropped \in SUBSET Serials
    BY <1>0
  <2> HIDE DEF emptied
  <2>2. c \in Calls
    BY <1>0, <2>1 DEF Calls
  <2>3. /\ Step(w, place)
        /\ call' = [call EXCEPT ![w] = c]
        /\ UNCHANGED <<thread, rpc, stopped, last, listed>>
        /\ targets' = rest
        /\ key' = IF rest = {} THEN NoPreset ELSE key
    BY <1>4 DEF Release, guiVars, emptied
  <2>4. place \in Places \ {"choose", "install"}
    BY DEF Places
  <2> HIDE DEF c, place
  <2> QED
    BY <1>0, <2>2, <2>3, <2>4, CallKeeps
<1>5. ASSUME ApplyEffect(w) PROVE IInv'
  <2>1. /\ Step(w, "done")
        /\ UNCHANGED <<thread, rpc, stopped, last, listed, targets, key, call>>
    BY <1>5 DEF ApplyEffect, stateVars, renderVars, guiVars
  <2> QED
    BY <1>0, <2>1, CallKeeps DEF Places
<1>6. ASSUME Forget(w) PROVE IInv'
  <2> DEFINE c == [call[w] EXCEPT !.emptied = NoPreset]
  <2>1. c \in Calls
    BY <1>0, CallTypes
  <2>2. /\ Step(w, at[w]) /\ at[w] \in {"apply", "done"}
        /\ call' = [call EXCEPT ![w] = c]
        /\ UNCHANGED <<thread, rpc, stopped, listed, targets, key>>
        /\ last' \in Keys
    BY <1>0, <1>6 DEF Forget, stateVars, renderVars, Step
  <2> HIDE DEF c
  <2> QED
    BY ZenonT(60), <1>0, <2>1, <2>2, CallKeeps DEF Places
<1>7. ASSUME Report(w) PROVE IInv'
  <2>1. /\ Step(w, "idle")
        /\ call' = [call EXCEPT ![w] = NoCall]
        /\ UNCHANGED <<thread, rpc, stopped, listed, targets, key>>
        /\ last' \in Keys
    BY <1>0, <1>7 DEF Report, stateVars, renderVars
  <2> QED
    BY <1>0, <2>1, CallKeeps DEF Places
<1> QED
  BY <1>1, <1>2, <1>3, <1>4, <1>5, <1>6, <1>7 DEF WorkerStep

\* The window's own calls: edits, reloads and the end.
LEMMA GuiIInv == ASSUME IInv, GuiStep PROVE IInv'
<1>0. /\ Gui \in Threads
      /\ call[Gui] \in Calls
      /\ NoCall \in Calls
      /\ call[Gui].key \in Keys /\ call[Gui].serials \in SUBSET Serials
      /\ key \in Keys /\ last \in Keys
      /\ targets \in SUBSET Serials /\ listed \subseteq Serials
      /\ key # NoPreset <=> targets # {}
      /\ call = [call EXCEPT ![Gui] = call[Gui]]
      /\ at = [at EXCEPT ![Gui] = at[Gui]]
  BY NoCallType DEF Threads, IInv, Types, ActiveHasTargets, Calls, Keys
<1>1. ASSUME Update PROVE IInv'
  <2>1. /\ Step(Gui, "idle") /\ at[Gui] = "idle"
        /\ UNCHANGED <<thread, rpc, stopped, last, listed, targets, key, call>>
    BY <1>0, <1>1 DEF Update, renderVars, callVars, guiVars, Step
  <2> QED
    BY <1>0, <2>1, CallKeeps DEF Places
<1>2. ASSUME Reload PROVE IInv'
  <2> DEFINE old   == IF key = last THEN targets ELSE {}
             c     == [NoCall EXCEPT !.op = "reload", !.key = last,
                                     !.serials = Serials \ gone, !.old = old]
             place == IF key = last THEN "refresh" ELSE "choose"
  <2>1. /\ at[Gui] = "idle"
        /\ UNCHANGED <<thread, rpc, stopped, last, targets, key>>
        /\ listed' \subseteq Serials
    BY <1>2 DEF Reload, stateVars, renderVars
  <2>2. CASE last = NoPreset
    <3>1. Step(Gui, "idle") /\ UNCHANGED call
      BY <1>0, <1>2, <2>1, <2>2 DEF Reload, callVars, Step
    <3> QED
      BY <1>0, <2>1, <3>1, CallKeeps DEF Places
  <2>3. CASE last # NoPreset
    <3>1. old \in SUBSET Serials /\ Serials \ gone \in SUBSET Serials
      BY <1>0
    <3>2. Step(Gui, place) /\ call' = [call EXCEPT ![Gui] = c]
      BY <1>2, <2>3 DEF Reload
    <3> HIDE DEF old
    <3>3. c \in Calls /\ c.key = last
      BY <1>0, <3>1 DEF NoCall, Calls
    <3>4. place \in Places
      BY DEF Places
    <3> HIDE DEF c, place
    <3> QED
      BY <1>0, <2>1, <2>3, <3>2, <3>3, <3>4, CallKeeps
  <2> QED
    BY <2>2, <2>3
<1>3. ASSUME Choose PROVE IInv'
  <2> DEFINE free  == (call[Gui].serials \cap Programs[call[Gui].key]) \ claimed
             c     == IF free = {} THEN NoCall ELSE [call[Gui] EXCEPT !.serials = free]
             place == IF free = {} THEN "idle" ELSE "install"
  <2>1. /\ at[Gui] = "choose"
        /\ Step(Gui, place)
        /\ call' = [call EXCEPT ![Gui] = c]
        /\ UNCHANGED <<thread, rpc, stopped, last, listed, targets, key>>
    BY <1>3 DEF Choose, stateVars, renderVars, guiVars
  <2>2. call[Gui].key # NoPreset
    BY <1>0, <2>1 DEF IInv, InstallsPreset
  <2>3. free \in SUBSET Serials
    BY <1>0
  <2>4. c \in Calls /\ (place = "install" => c.key # NoPreset)
    BY <1>0, <2>2, <2>3, CallTypes
  <2>5. place \in Places \ {"choose"}
    BY DEF Places
  <2> HIDE DEF c, place
  <2> QED
    BY <1>0, <2>1, <2>4, <2>5, CallKeeps
<1>4. ASSUME Refresh PROVE IInv'
  <2>1. /\ at[Gui] = "refresh"
        /\ Step(Gui, "idle")
        /\ call' = [call EXCEPT ![Gui] = NoCall]
        /\ UNCHANGED <<thread, rpc, stopped, last, listed>>
        /\ targets' \subseteq targets
        /\ key' = IF targets' = {} THEN NoPreset ELSE key
    BY <1>4 DEF Refresh, guiVars
  <2> QED
    BY ZenonT(60), <1>0, <2>1, CallKeeps DEF Places
<1>5. ASSUME Shutdown PROVE IInv'
  <2> DEFINE c == [NoCall EXCEPT !.op = "quit"]
  <2>1. c \in Calls
    BY DEF NoCall, Calls, Keys
  <2>2. /\ thread' = NoThread
        /\ Step(Gui, "join")
        /\ call' = [call EXCEPT ![Gui] = c]
        /\ UNCHANGED <<rpc, key, targets, last, listed>>
    BY <1>5 DEF Shutdown, guiVars
  <2> HIDE DEF c
  <2>3. Types'
    BY <2>1, <2>2 DEF IInv, Types, Step, Places
  <2>4. at'[Gui] = "join" /\ InstallsPreset'
    BY <1>0, <2>1, <2>2 DEF IInv, Types, InstallsPreset, Step
  <2> QED
    BY <2>2, <2>3, <2>4 DEF IInv, ThreadRuns, ActiveHasTargets, ActiveHasThread
<1>6. ASSUME LastStop PROVE IInv'
  <2> DEFINE c     == [call[Gui] EXCEPT !.old = targets]
             place == IF targets # {} THEN "restore" ELSE "quit"
  <2>1. c \in Calls
    BY <1>0, CallTypes
  <2>2. /\ Step(Gui, place)
        /\ call' = [call EXCEPT ![Gui] = c]
        /\ UNCHANGED <<thread, rpc, stopped, last, listed>>
        /\ key' = NoPreset /\ targets' = {}
    BY <1>6 DEF LastStop, DropAll, guiVars
  <2>3. place \in Places \ {"choose", "install"}
    BY DEF Places
  <2> HIDE DEF c, place
  <2> QED
    BY <1>0, <2>1, <2>2, <2>3, CallKeeps
<1> QED
  BY <1>1, <1>2, <1>3, <1>4, <1>5, <1>6 DEF GuiStep

\* A render thread ends for one of two reasons: it was told to stop, so it is
\* not the one the runtime knows, or no preset is active.
LEMMA RendererIInv == ASSUME IInv, NEW r \in Renderers, RendererStep(r) PROVE IInv'
<1> USE DEF stateVars, callVars, guiVars
<1>0. rpc \in [Renderers -> {"none", "wait", "frame", "paint", "retire"}]
  BY DEF IInv, Types
<1>1. ASSUME Exit(r) PROVE IInv'
  BY <1>0, <1>1, RendererKeeps DEF Exit, RenderStep
<1>2. ASSUME Snapshot(r) PROVE IInv'
  BY <1>0, <1>2, RendererKeeps DEF Snapshot, RenderStep
<1>3. ASSUME NEW s \in Serials, Look(r, s) PROVE IInv'
  <2>1. UNCHANGED <<thread, stopped, key, last, targets, listed, at, call>>
    BY <1>3 DEF Look
  <2>2. rpc' = rpc \/ rpc' = [rpc EXCEPT ![r] = "paint"]
    BY <1>3 DEF Look, RenderStep
  <2> QED
    BY <1>0, <2>1, <2>2, RendererKeeps
<1>4. ASSUME Paint(r) PROVE IInv'
  BY <1>4, NextTargetKeeps DEF Paint
<1>5. ASSUME NEW stale \in BOOLEAN, PaintFails(r, stale) PROVE IInv'
  BY <1>5, NextTargetKeeps DEF PaintFails
<1>6. ASSUME EndFrame(r) PROVE IInv'
  BY <1>0, <1>6, RendererKeeps DEF EndFrame, RenderStep
<1>7. ASSUME Retire(r) PROVE IInv'
  <2>1. CASE key # NoPreset
    BY <1>0, <1>7, <2>1, RendererKeeps DEF Retire, RenderStep
  <2>2. CASE key = NoPreset
    <3>1. /\ rpc' = [rpc EXCEPT ![r] = "none"]
          /\ thread' = IF thread = r THEN NoThread ELSE thread
          /\ UNCHANGED <<stopped, key, last, targets, listed, at, call>>
      BY <1>7, <2>2 DEF Retire, RenderStep
    <3>2. Types'
      BY <3>1 DEF IInv, Types
    <3>3. ThreadRuns'
      BY <3>1 DEF IInv, Types, ThreadRuns
    <3> QED
      BY <2>2, <3>1, <3>2, <3>3
         DEF IInv, ActiveHasTargets, ActiveHasThread, InstallsPreset
  <2> QED
    BY <2>1, <2>2
<1> QED
  BY <1>1, <1>2, <1>3, <1>4, <1>5, <1>6, <1>7 DEF RendererStep

\* The invariant of the runtime's threads holds in every reachable state.
THEOREM Invariance == Spec => []IInv
<1>1. IInv /\ [Next]_vars => IInv'
  <2> SUFFICES ASSUME IInv, [Next]_vars PROVE IInv'
    OBVIOUS
  <2>1. CASE DeviceStep
    BY <2>1, DeviceIInv
  <2>2. CASE GuiStep
    BY <2>2, GuiIInv
  <2>3. CASE \E w \in Workers : WorkerStep(w)
    BY <2>3, WorkerIInv
  <2>4. CASE \E t \in Threads : CallStep(t)
    BY <2>4, InstallIInv, RestoreIInv DEF CallStep
  <2>5. CASE \E r \in Renderers : RendererStep(r)
    BY <2>5, RendererIInv
  <2>6. CASE UNCHANGED vars
    <3>1. Types'
      BY <2>6 DEF vars, stateVars, renderVars, callVars, guiVars, IInv, Types
    <3> QED
      BY <2>6, <3>1 DEF vars, stateVars, renderVars, callVars, guiVars, IInv, ThreadRuns,
         ActiveHasTargets, ActiveHasThread, InstallsPreset
  <2> QED
    BY <2>1, <2>2, <2>3, <2>4, <2>5, <2>6 DEF Next
<1> QED
  BY <1>1, InitIInv, PTL DEF Spec

\* An active preset always has a thread that renders it: a thread that retires
\* and an activation never miss each other (_retire_if_idle, _ensure_thread).
THEOREM AlwaysRendered == Spec => []ActiveIsRendered
<1>1. IInv => ActiveIsRendered
  BY DEF IInv, ThreadRuns, ActiveHasTargets, ActiveHasThread, ActiveIsRendered
<1> QED
  BY <1>1, Invariance, PTL

-----------------------------------------------------------------------------
(* Frames and restores *)

Snaps == [todo : SUBSET Serials, object : Nat, key : Keys,
          serial : Serials \cup {NoSerial}, live : BOOLEAN]

\* s shows a frame, or one is on its way to it.
Shown(s) == shows[s] # 0 \/ \E r \in Renderers : rpc[r] = "paint" /\ snap[r].serial = s

ToBeRestored(s) == \E t \in Threads : at[t] = "restore" /\ s \in call[t].old

Accounted(s) == s \in targets \cup unreached \/ ToBeRestored(s)

FrameTypes ==
  /\ shows \in [Serials -> Nat]
  /\ object \in Nat
  /\ snap \in [Renderers -> Snaps]

\* Only targets are painted, or were when the frame was begun.
FramesForTargets ==
  /\ paused \subseteq targets
  /\ \A r \in Renderers : /\ snap[r].todo \subseteq targets
                          /\ snap[r].live => snap[r].serial \in targets

\* What shows a frame, or will, is a target, is out of reach or will be restored.
FramesInv ==
  /\ FrameTypes
  /\ FramesForTargets
  /\ \A s \in Serials : Shown(s) => Accounted(s)

-----------------------------------------------------------------------------
\* The targets S are let go of.
LEMMA DeactivateFrames ==
  ASSUME FramesInv, NEW S, Deactivate(S), shows' = shows,
         \A r \in Renderers : rpc'[r] = "paint" => rpc[r] = "paint"
  PROVE  /\ snap' \in [Renderers -> Snaps]
         /\ \A r \in Renderers : /\ snap'[r].todo \subseteq targets \ S
                                 /\ snap'[r].live => snap'[r].serial \in targets \ S
         /\ \A s \in Serials : Shown(s)' => Shown(s)
<1>1. snap \in [Renderers -> Snaps]
  BY DEF FramesInv, FrameTypes
<1>2. \A r \in Renderers :
        snap'[r] = [snap[r] EXCEPT !.todo = @ \ S, !.live = @ /\ snap[r].serial \notin S]
  BY DEF Deactivate
<1>3. ASSUME NEW r \in Renderers
      PROVE  /\ snap'[r] \in Snaps /\ snap'[r].todo = snap[r].todo \ S
             /\ snap'[r].serial = snap[r].serial
             /\ snap'[r].live => snap[r].live /\ snap[r].serial \notin S
  <2> DEFINE live == snap[r].live /\ snap[r].serial \notin S
  <2>1. snap[r] \in Snaps
    BY <1>1
  <2>2. snap'[r] = [snap[r] EXCEPT !.todo = @ \ S, !.live = live]
    BY <1>2, <2>1 DEF Snaps
  <2>3. live \in BOOLEAN /\ (live => snap[r].live /\ snap[r].serial \notin S)
    OBVIOUS
  <2> HIDE DEF live
  <2>4. QED
    BY <2>1, <2>2, <2>3 DEF Snaps
<1>4. snap' \in [Renderers -> Snaps]
  BY <1>3 DEF Deactivate
<1>5. QED
  BY <1>3, <1>4 DEF FramesInv, FramesForTargets, Shown

\* The renderers R are done with their target.
LEMMA NextTargetFrames ==
  ASSUME FramesInv, NEW R, NextTarget(R), shows' = shows
  PROVE  /\ snap' \in [Renderers -> Snaps]
         /\ \A r \in Renderers : /\ snap'[r].todo \subseteq targets
                                 /\ snap'[r].live => snap'[r].serial \in targets
         /\ \A s \in Serials : Shown(s)' => Shown(s)
<1>1. snap \in [Renderers -> Snaps]
  BY DEF FramesInv, FrameTypes
<1>2. \A r \in Renderers :
        /\ snap'[r] = IF r \in R THEN [snap[r] EXCEPT !.serial = NoSerial, !.live = FALSE] ELSE snap[r]
        /\ rpc'[r] = IF r \in R THEN "frame" ELSE rpc[r]
  BY DEF NextTarget
<1>3. \A r \in Renderers :
        /\ snap'[r] \in Snaps /\ snap'[r].todo = snap[r].todo
        /\ snap'[r].live => snap[r].live /\ snap'[r].serial = snap[r].serial
        /\ rpc'[r] = "paint" => rpc[r] = "paint" /\ snap'[r].serial = snap[r].serial
  BY <1>1, <1>2 DEF Snaps
<1>4. snap' \in [Renderers -> Snaps]
  BY <1>3 DEF NextTarget
<1>5. QED
  BY <1>3, <1>4 DEF FramesInv, FramesForTargets, Shown

\* A call that was not about to restore leaves what others restore to them.
LEMMA OthersRestore ==
  ASSUME IInv, NEW t \in Threads, NEW place, Step(t, place), NEW c,
         call' = [call EXCEPT ![t] = c],
         at[t] # "restore" \/ (at[t] = place /\ call[t].old = c.old)
  PROVE  /\ \A s : ToBeRestored(s) => ToBeRestored(s)'
         /\ place = "restore" => \A s \in c.old : ToBeRestored(s)'
<1>1. at \in [Threads -> Places] /\ call \in [Threads -> Calls]
  BY DEF IInv, Types
<1>2. at'[t] = place /\ call'[t] = c
      /\ \A u \in Threads \ {t} : at'[u] = at[u] /\ call'[u] = call[u]
  BY <1>1 DEF Step
<1>3. QED
  BY <1>2 DEF ToBeRestored

\* A step of a call that touches neither frames nor targets.
LEMMA QuietCall ==
  ASSUME IInv, FramesInv, NEW t \in Threads, NEW place, Step(t, place), NEW c,
         call' = [call EXCEPT ![t] = c], at[t] # "restore",
         UNCHANGED <<shows, snap, paused, targets, unreached>>, object' \in Nat,
         \A r \in Renderers : rpc'[r] = "paint" => rpc[r] = "paint"
  PROVE  FramesInv'
<1>1. \A s : ToBeRestored(s) => ToBeRestored(s)'
  BY OthersRestore
<1>2. QED
  BY <1>1 DEF FramesInv, FrameTypes, FramesForTargets, Shown, Accounted

\* A call lets go of the targets that it will restore.
LEMMA LetGo ==
  ASSUME IInv, FramesInv, NEW t \in Threads, NEW place, Step(t, place), NEW c,
         call' = [call EXCEPT ![t] = c], at[t] # "restore",
         NEW S \in SUBSET targets, Deactivate(S), NEW T, T = targets \ S, T \subseteq targets',
         S \subseteq targets' \/ (place = "restore" /\ S \ targets' \subseteq c.old),
         shows' = shows, object' \in Nat, paused' \subseteq targets',
         unreached \subseteq unreached' \cup targets',
         \A r \in Renderers : rpc'[r] = "paint" => rpc[r] = "paint"
  PROVE  FramesInv'
<1>1. /\ snap' \in [Renderers -> Snaps]
      /\ \A r \in Renderers : /\ snap'[r].todo \subseteq T
                              /\ snap'[r].live => snap'[r].serial \in T
      /\ \A s \in Serials : Shown(s)' => Shown(s)
  BY DeactivateFrames
<1>2. /\ \A s : ToBeRestored(s) => ToBeRestored(s)'
      /\ \A s \in S : s \in targets' \/ ToBeRestored(s)'
  BY OthersRestore
<1>3. FrameTypes' /\ FramesForTargets'
  BY <1>1 DEF FramesInv, FrameTypes, FramesForTargets
<1>4. ASSUME NEW s \in Serials, Shown(s)' PROVE Accounted(s)'
  <2>1. Accounted(s)
    BY <1>1, <1>4 DEF FramesInv
  <2>2. QED
    BY <1>2, <2>1 DEF Accounted
<1>5. QED
  BY <1>3, <1>4 DEF FramesInv

LEMMA DeviceFrames == ASSUME IInv, FramesInv, DeviceStep PROVE FramesInv'
<1> SUFFICES ASSUME NEW d \in Serials, Lose(d) \/ ComeBack(d) PROVE FramesInv'
  BY DEF DeviceStep
<1>1. PICK R : NextTarget(R)
  BY DEF Lose, ComeBack, Interrupted
<1>2. UNCHANGED <<shows, object, paused, targets, unreached, at, call>>
  BY DEF Lose, ComeBack, stateVars, callVars
<1>3. /\ snap' \in [Renderers -> Snaps]
      /\ \A r \in Renderers : /\ snap'[r].todo \subseteq targets
                              /\ snap'[r].live => snap'[r].serial \in targets
      /\ \A s \in Serials : Shown(s)' => Shown(s)
  BY <1>1, <1>2, NextTargetFrames
<1>4. \A s \in Serials : Accounted(s) => Accounted(s)'
  BY <1>2 DEF Accounted, ToBeRestored
<1>5. QED
  BY <1>2, <1>3, <1>4 DEF FramesInv, FrameTypes, FramesForTargets

LEMMA InstallFrames == ASSUME IInv, FramesInv, NEW t \in Threads, Install(t) PROVE FramesInv'
<1> DEFINE built == call[t].serials
           old   == targets \ built
           place == IF old = {} THEN End(t) ELSE "restore"
           c     == IF old = {} THEN EndedCall(t) ELSE [call[t] EXCEPT !.old = old]
<1>1. /\ targets' = built /\ paused' = {} /\ object' = object + 1 /\ at[t] = "install"
      /\ Step(t, place) /\ call' = [call EXCEPT ![t] = c] /\ Deactivate(targets)
      /\ EnsureThread(built # {}) /\ unreached' = unreached \ built /\ shows' = shows
  BY DEF Install, deviceVars
<1>2. call[t] \in Calls
  BY DEF IInv, Types
<1>3. old # {} => c.old = old /\ place = "restore"
  BY <1>2 DEF Calls
<1>4. \A r \in Renderers : rpc'[r] = "paint" => rpc[r] = "paint"
  BY <1>1 DEF EnsureThread, IInv, Types
<1> HIDE DEF c, place
<1>5. object' \in Nat /\ targets \ targets = {}
  BY <1>1 DEF FramesInv, FrameTypes
<1>6. targets \subseteq targets' \/ (place = "restore" /\ targets \ targets' \subseteq c.old)
  BY <1>1, <1>3
<1>7. QED
  BY <1>1, <1>4, <1>5, <1>6, LetGo

\* No frame is on its way when the effects are restored.
LEMMA RestoreFrames == ASSUME IInv, FramesInv, NEW t \in Threads, Restore(t) PROVE FramesInv'
<1> DEFINE place == IF call[t].op = "apply" THEN "apply" ELSE End(t)
           reached == call[t].old \ gone
<1>1. /\ Step(t, place) /\ call' = [call EXCEPT ![t] = EndedCall(t)]
      /\ UNCHANGED <<snap, rpc, paused, targets, object>>
      /\ shows' = [s \in Serials |-> IF s \in reached THEN 0 ELSE shows[s]]
      /\ unreached' = (unreached \ reached) \cup (call[t].old \cap gone)
      /\ \A r \in Renderers : rpc[r] # "paint"
  BY DEF Restore, Rendering, stateVars, renderVars
<1>2. \A u \in Threads \ {t} : at'[u] = at[u] /\ call'[u] = call[u]
  BY <1>1 DEF IInv, Types, Step
<1>3. FrameTypes' /\ FramesForTargets'
  BY <1>1 DEF FramesInv, FrameTypes, FramesForTargets
<1>4. ASSUME NEW s \in Serials, Shown(s)' PROVE Accounted(s)'
  <2>1. s \notin reached /\ Shown(s)
    BY <1>1, <1>4 DEF Shown
  <2>2. Accounted(s)
    BY <2>1 DEF FramesInv
  <2>3. ToBeRestored(s) => s \in call[t].old \cap gone \/ ToBeRestored(s)'
    BY <1>2, <2>1 DEF ToBeRestored
  <2>4. QED
    BY <1>1, <2>1, <2>2, <2>3 DEF Accounted
<1>5. QED
  BY <1>3, <1>4 DEF FramesInv

\* stop(), of a job and at the end.
LEMMA DropAllFrames ==
  ASSUME IInv, FramesInv, NEW t \in Threads, DropAll(t), NEW c,
         call' = [call EXCEPT ![t] = c], c.old = targets, at[t] # "restore",
         UNCHANGED <<shows, object, rpc, unreached>>
  PROVE  FramesInv'
<1> DEFINE place == IF targets # {} THEN "restore" ELSE IF t = Gui THEN "quit" ELSE "done"
<1>1. targets' = {} /\ paused' = {} /\ Deactivate(targets) /\ Step(t, place)
  BY DEF DropAll
<1>2. object' \in Nat /\ targets \ targets = {}
  BY DEF FramesInv, FrameTypes
<1>3. targets \subseteq targets' \/ (place = "restore" /\ targets \ targets' \subseteq c.old)
  BY <1>1
<1> HIDE DEF place
<1>4. QED
  BY <1>1, <1>2, <1>3, LetGo

LEMMA WorkerFrames == ASSUME IInv, FramesInv, NEW w \in Workers, WorkerStep(w) PROVE FramesInv'
<1>0. /\ w \in Threads /\ w # Gui /\ call[w] \in Calls /\ object \in Nat
      /\ at = [at EXCEPT ![w] = at[w]] /\ call = [call EXCEPT ![w] = call[w]]
  BY ThreadsAssumption DEF Threads, IInv, Types, FramesInv, FrameTypes
<1>1. ASSUME NEW p \in Presets, Activate(w, p) PROVE FramesInv'
  BY <1>0, <1>1, QuietCall DEF Activate, deviceVars, renderVars
<1>2. ASSUME Stop(w) PROVE FramesInv'
  <2> DEFINE c == [NoCall EXCEPT !.op = "stop", !.old = targets]
  <2>1. c.old = targets
    BY DEF NoCall
  <2>2. /\ DropAll(w) /\ call' = [call EXCEPT ![w] = c] /\ at[w] # "restore"
        /\ UNCHANGED <<shows, object, rpc, unreached>>
    BY <1>2 DEF Stop, deviceVars
  <2> HIDE DEF c
  <2>3. QED
    BY <1>0, <2>1, <2>2, DropAllFrames
<1>3. ASSUME NEW s \in Serials, Apply(w, s) PROVE FramesInv'
  BY <1>0, <1>3, QuietCall DEF Apply, deviceVars, stateVars, renderVars
<1>4. ASSUME Release(w) PROVE FramesInv'
  <2> DEFINE dropped == targets \cap call[w].serials
             rest    == targets \ dropped
             emptied == IF dropped # {} /\ rest = {} THEN key ELSE NoPreset
             c       == [call[w] EXCEPT !.old = dropped, !.emptied = emptied]
             place   == IF dropped = {} THEN "apply" ELSE "restore"
  <2>1. c.old = dropped
    BY <1>0 DEF Calls
  <2>2. /\ Step(w, place) /\ call' = [call EXCEPT ![w] = c] /\ at[w] # "restore"
        /\ targets' = rest /\ paused' = paused \ dropped /\ Deactivate(dropped)
        /\ UNCHANGED <<shows, object, rpc, unreached>>
    BY <1>4 DEF Release, deviceVars
  <2>3. paused' \subseteq targets'
    BY <2>2 DEF FramesInv, FramesForTargets
  <2>4. dropped \subseteq targets' \/ (place = "restore" /\ dropped \ targets' \subseteq c.old)
    BY <2>1
  <2> HIDE DEF c, place
  <2>5. dropped \in SUBSET targets /\ targets \ dropped = targets'
    BY <2>2
  <2> HIDE DEF dropped
  <2>6. QED
    BY ZenonT(60), <1>0, <2>2, <2>3, <2>4, <2>5, LetGo
<1>5. ASSUME ApplyEffect(w) PROVE FramesInv'
  <2> DEFINE reached == call[w].serials \ gone
  <2>1. /\ Step(w, "done") /\ call' = [call EXCEPT ![w] = call[w]] /\ at[w] # "restore"
        /\ shows' = [s \in Serials |-> IF s \in reached THEN 0 ELSE shows[s]]
        /\ unreached' = unreached \ {s \in reached : ~Underway(s)}
        /\ UNCHANGED <<object, snap, rpc, paused, targets>>
    BY <1>0, <1>5 DEF ApplyEffect, stateVars, renderVars
  <2>2. \A s : ToBeRestored(s) => ToBeRestored(s)'
    BY <1>0, <2>1, OthersRestore
  <2>3. FrameTypes' /\ FramesForTargets'
    BY <2>1 DEF FramesInv, FrameTypes, FramesForTargets
  <2>4. ASSUME NEW s \in Serials, Shown(s)' PROVE Accounted(s)'
    <3>1. Shown(s)
      BY <2>1, <2>4 DEF Shown
    <3>2. Accounted(s)
      BY <3>1 DEF FramesInv
    <3>3. s \in reached => Underway(s) \/ s \in targets
      BY <2>1, <2>4 DEF Shown, Underway, FramesInv, FramesForTargets
    <3>4. QED
      BY <2>1, <2>2, <3>2, <3>3 DEF Accounted
  <2>5. QED
    BY <2>3, <2>4 DEF FramesInv
<1>6. ASSUME Forget(w) PROVE FramesInv'
  <2> DEFINE c == [call[w] EXCEPT !.emptied = NoPreset]
  <2>1. /\ Step(w, at[w]) /\ call' = [call EXCEPT ![w] = c] /\ at[w] # "restore"
        /\ UNCHANGED <<shows, snap, paused, targets, unreached, object, rpc>>
    BY <1>0, <1>6 DEF Forget, deviceVars, stateVars, renderVars, Step
  <2> HIDE DEF c
  <2>2. QED
    BY <1>0, <2>1, QuietCall
<1>7. ASSUME Report(w) PROVE FramesInv'
  BY <1>0, <1>7, QuietCall DEF Report, deviceVars, stateVars, renderVars
<1> QED
  BY <1>1, <1>2, <1>3, <1>4, <1>5, <1>6, <1>7 DEF WorkerStep

LEMMA GuiFrames == ASSUME IInv, FramesInv, GuiStep PROVE FramesInv'
<1>0. /\ Gui \in Threads /\ call[Gui] \in Calls /\ object \in Nat
      /\ at = [at EXCEPT ![Gui] = at[Gui]] /\ call = [call EXCEPT ![Gui] = call[Gui]]
  BY DEF Threads, IInv, Types, FramesInv, FrameTypes
<1>1. ASSUME Update PROVE FramesInv'
  <2>1. /\ Step(Gui, "idle") /\ call' = [call EXCEPT ![Gui] = call[Gui]] /\ at[Gui] # "restore"
        /\ UNCHANGED <<shows, snap, paused, targets, unreached, rpc>> /\ object' \in Nat
    BY <1>0, <1>1 DEF Update, deviceVars, renderVars, callVars, Step
  <2>2. QED
    BY <1>0, <2>1, QuietCall
<1>2. ASSUME Reload PROVE FramesInv'
  <2>1. /\ at[Gui] # "restore"
        /\ UNCHANGED <<shows, snap, paused, targets, unreached, object, rpc>>
    BY <1>2 DEF Reload, deviceVars, stateVars, renderVars
  <2>2. \E place, c : Step(Gui, place) /\ call' = [call EXCEPT ![Gui] = c]
    <3>1. CASE last = NoPreset
      BY <1>0, <1>2, <3>1 DEF Reload, callVars, Step
    <3>2. CASE last # NoPreset
      BY <1>2, <3>2 DEF Reload
    <3>3. QED
      BY <3>1, <3>2
  <2>3. QED
    BY <1>0, <2>1, <2>2, QuietCall
<1>3. ASSUME Choose PROVE FramesInv'
  <2>1. /\ at[Gui] # "restore"
        /\ UNCHANGED <<shows, snap, paused, targets, unreached, object, rpc>>
    BY <1>3 DEF Choose, deviceVars, stateVars, renderVars
  <2>2. \E place, c : Step(Gui, place) /\ call' = [call EXCEPT ![Gui] = c]
    BY <1>3 DEF Choose
  <2>3. QED
    BY <1>0, <2>1, <2>2, QuietCall
<1>4. ASSUME Refresh PROVE FramesInv'
  <2> DEFINE old == call[Gui].old \cap targets
             dropped == old \ call[Gui].serials
  <2>1. /\ at[Gui] = "refresh" /\ Step(Gui, "idle") /\ call' = [call EXCEPT ![Gui] = NoCall]
        /\ targets' = targets \ dropped /\ paused' = paused \ old /\ Deactivate(old)
        /\ unreached' = unreached \cup dropped
        /\ UNCHANGED <<shows, object, rpc>>
    BY <1>4 DEF Refresh, deviceVars
  <2>2. /\ snap' \in [Renderers -> Snaps]
        /\ \A r \in Renderers : /\ snap'[r].todo \subseteq targets \ old
                                /\ snap'[r].live => snap'[r].serial \in targets \ old
        /\ \A s \in Serials : Shown(s)' => Shown(s)
    BY <2>1, DeactivateFrames
  <2>3. \A s : ToBeRestored(s) => ToBeRestored(s)'
    BY <1>0, <2>1, OthersRestore
  <2>4. FrameTypes' /\ FramesForTargets'
    BY <2>1, <2>2 DEF FramesInv, FrameTypes, FramesForTargets
  <2>5. \A s : Accounted(s) => Accounted(s)'
    BY <2>1, <2>3 DEF Accounted
  <2>6. QED
    BY <2>2, <2>4, <2>5 DEF FramesInv
<1>5. ASSUME Shutdown PROVE FramesInv'
  BY <1>0, <1>5, QuietCall DEF Shutdown, deviceVars
<1>6. ASSUME LastStop PROVE FramesInv'
  <2> DEFINE c == [call[Gui] EXCEPT !.old = targets]
  <2>1. c.old = targets
    BY <1>0 DEF Calls
  <2>2. /\ DropAll(Gui) /\ call' = [call EXCEPT ![Gui] = c] /\ at[Gui] # "restore"
        /\ UNCHANGED <<shows, object, rpc, unreached>>
    BY <1>6 DEF LastStop, deviceVars
  <2> HIDE DEF c
  <2>3. QED
    BY <1>0, <2>1, <2>2, DropAllFrames
<1> QED
  BY <1>1, <1>2, <1>3, <1>4, <1>5, <1>6 DEF GuiStep

LEMMA RendererFrames ==
  ASSUME IInv, FramesInv, NEW r \in Renderers, RendererStep(r)
  PROVE  FramesInv'
<1> USE DEF stateVars, callVars, deviceVars
<1>0. /\ rpc \in [Renderers -> {"none", "wait", "frame", "paint", "retire"}]
      /\ snap \in [Renderers -> Snaps] /\ snap[r] \in Snaps /\ targets \subseteq Serials
      /\ shows \in [Serials -> Nat] /\ object \in Nat /\ key \in Keys
  BY DEF IInv, Types, FramesInv, FrameTypes
<1>1. ASSUME UNCHANGED <<shows, object, paused, targets, unreached, at, call, snap>>,
             \A q \in Renderers : rpc'[q] = "paint" => rpc[q] = "paint"
      PROVE  FramesInv'
  BY <1>1 DEF FramesInv, FrameTypes, FramesForTargets, Shown, Accounted, ToBeRestored
<1>2. ASSUME Exit(r) \/ Retire(r) PROVE FramesInv'
  BY <1>0, <1>1, <1>2 DEF Exit, Retire, RenderStep
<1>3. ASSUME NEW n, n \in Snaps, snap' = [snap EXCEPT ![r] = n], n.todo \subseteq targets,
             n.live => n.serial \in targets,
             UNCHANGED <<shows, object, paused, targets, unreached, at, call>>,
             \A q \in Renderers \ {r} : rpc'[q] = rpc[q],
             rpc'[r] = "paint" => n.serial \in targets
      PROVE  FramesInv'
  <2>1. FrameTypes'
    BY <1>0, <1>3 DEF FrameTypes
  <2>2. FramesForTargets'
    BY <1>0, <1>3 DEF FramesInv, FramesForTargets
  <2>3. \A s \in Serials : Shown(s)' => Shown(s) \/ s \in targets
    BY <1>0, <1>3 DEF Shown
  <2>4. \A s \in Serials : Accounted(s) => Accounted(s)'
    BY <1>3 DEF Accounted, ToBeRestored
  <2>5. QED
    BY <1>3, <2>1, <2>2, <2>3, <2>4 DEF FramesInv, Accounted
<1>4. NoSnap \in Snaps /\ NoSnap.todo = {} /\ NoSnap.live = FALSE /\ NoSnap.object = 0
  BY DEF NoSnap, Snaps, Keys
<1>5. ASSUME Snapshot(r) PROVE FramesInv'
  <2> DEFINE n == [NoSnap EXCEPT !.todo = targets, !.object = object, !.key = key]
  <2>1. n \in Snaps /\ n.todo = targets /\ ~n.live
    BY <1>0, <1>4 DEF Snaps
  <2>2. CASE key = NoPreset
    BY <1>0, <1>1, <1>5, <2>2 DEF Snapshot, RenderStep
  <2>3. CASE key # NoPreset
    <3>1. snap' = [snap EXCEPT ![r] = n] /\ rpc' = [rpc EXCEPT ![r] = "frame"]
          /\ UNCHANGED <<shows, object, paused, targets, unreached, at, call>>
      BY <1>5, <2>3 DEF Snapshot, RenderStep
    <3> HIDE DEF n
    <3>2. QED
      BY <1>0, <1>3, <2>1, <3>1
  <2>4. QED
    BY <2>2, <2>3
<1>6. ASSUME NEW s \in Serials, Look(r, s) PROVE FramesInv'
  <2> DEFINE a == [snap[r] EXCEPT !.todo = @ \ {s}]
             b == [snap[r] EXCEPT !.todo = @ \ {s}, !.serial = s, !.live = TRUE]
  <2>1. /\ a \in Snaps /\ a.todo \subseteq targets /\ a.serial = snap[r].serial
        /\ a.live = snap[r].live
        /\ b \in Snaps /\ b.todo \subseteq targets /\ b.serial = s /\ s \in targets
    BY <1>0, <1>6 DEF Snaps, Look, FramesInv, FramesForTargets
  <2>2. /\ UNCHANGED <<shows, object, paused, targets, unreached, at, call>>
        /\ rpc[r] = "frame"
        /\ \/ snap' = [snap EXCEPT ![r] = a] /\ rpc' = rpc
           \/ snap' = [snap EXCEPT ![r] = b] /\ rpc' = [rpc EXCEPT ![r] = "paint"]
    BY <1>0, <1>6 DEF Look, RenderStep
  <2>3. a.live => a.serial \in targets
    BY <2>1 DEF FramesInv, FramesForTargets
  <2> HIDE DEF a, b
  <2>4. QED
    BY <1>0, <1>3, <2>1, <2>2, <2>3
<1>7. ASSUME EndFrame(r) PROVE FramesInv'
  <2>1. /\ snap' = [snap EXCEPT ![r] = NoSnap] /\ rpc' = [rpc EXCEPT ![r] = "retire"]
        /\ UNCHANGED <<shows, object, paused, targets, unreached, at, call>>
    BY <1>7 DEF EndFrame, RenderStep
  <2>2. QED
    BY <1>0, <1>3, <1>4, <2>1
<1>8. ASSUME NEW stale \in BOOLEAN, PaintFails(r, stale) PROVE FramesInv'
  <2>1. /\ NextTarget({r}) /\ UNCHANGED <<shows, object, targets, unreached, at, call>>
        /\ paused' \subseteq targets'
    BY <1>8 DEF PaintFails, FramesInv, FramesForTargets
  <2>2. \A s \in Serials : Accounted(s) => Accounted(s)'
    BY <2>1 DEF Accounted, ToBeRestored
  <2>3. QED
    BY <2>1, <2>2, NextTargetFrames DEF FramesInv, FrameTypes, FramesForTargets
<1>9. ASSUME Paint(r) PROVE FramesInv'
  <2> DEFINE s == snap[r].serial
  <2>1. /\ rpc[r] = "paint" /\ shows' = [shows EXCEPT ![s] = snap[r].object] /\ NextTarget({r})
        /\ UNCHANGED <<object, paused, targets, unreached, at, call>>
    BY <1>9 DEF Paint
  <2>2. \A q \in Renderers :
          /\ snap'[q] = IF q = r THEN [snap[q] EXCEPT !.serial = NoSerial, !.live = FALSE] ELSE snap[q]
          /\ rpc'[q] = IF q = r THEN "frame" ELSE rpc[q]
    BY <2>1 DEF NextTarget
  <2>3. \A q \in Renderers :
          /\ snap'[q] \in Snaps /\ snap'[q].todo = snap[q].todo
          /\ snap'[q].live => snap[q].live /\ snap'[q].serial = snap[q].serial
          /\ rpc'[q] = "paint" => rpc[q] = "paint" /\ snap'[q].serial = snap[q].serial
    BY ZenonT(60), <1>0, <2>2 DEF Snaps
  <2>4. snap' \in [Renderers -> Snaps]
    BY <2>1, <2>3 DEF NextTarget
  <2>5. snap[r].object \in Nat /\ shows' \in [Serials -> Nat]
    BY <1>0, <2>1 DEF Snaps
  <2>6. \A q \in Serials : Shown(q)' => Shown(q)
    BY <1>0, <2>1, <2>3 DEF Shown
  <2>7. \A q \in Serials : Accounted(q) => Accounted(q)'
    BY <2>1 DEF Accounted, ToBeRestored
  <2>8. QED
    BY <2>1, <2>3, <2>4, <2>5, <2>6, <2>7 DEF FramesInv, FrameTypes, FramesForTargets
<1> QED
  BY <1>2, <1>5, <1>6, <1>7, <1>8, <1>9 DEF RendererStep

LEMMA InitFrames == Init => FramesInv
<1> SUFFICES ASSUME Init PROVE FramesInv
  OBVIOUS
<1>1. NoSnap \in Snaps /\ NoSnap.todo = {} /\ NoSnap.live = FALSE
  BY DEF NoSnap, Snaps, Keys
<1>2. QED
  BY <1>1 DEF Init, FramesInv, FrameTypes, FramesForTargets, NothingPainted, Shown

\* What shows a frame is accounted for in every reachable state.
THEOREM FramesInvariance == Spec => []FramesInv
<1>1. IInv /\ FramesInv /\ [Next]_vars => FramesInv'
  <2> SUFFICES ASSUME IInv, FramesInv, [Next]_vars PROVE FramesInv'
    OBVIOUS
  <2>1. CASE DeviceStep
    BY <2>1, DeviceFrames
  <2>2. CASE GuiStep
    BY <2>2, GuiFrames
  <2>3. CASE \E w \in Workers : WorkerStep(w)
    BY <2>3, WorkerFrames
  <2>4. CASE \E t \in Threads : CallStep(t)
    BY <2>4, InstallFrames, RestoreFrames DEF CallStep
  <2>5. CASE \E r \in Renderers : RendererStep(r)
    BY <2>5, RendererFrames
  <2>6. CASE UNCHANGED vars
    BY <2>6 DEF vars, deviceVars, stateVars, renderVars, callVars, FramesInv, FrameTypes,
       FramesForTargets, Shown, Accounted, ToBeRestored
  <2> QED
    BY <2>1, <2>2, <2>3, <2>4, <2>5, <2>6 DEF Next
<1> QED
  BY <1>1, InitFrames, Invariance, PTL DEF Spec

\* A device that was given back is restored after the last frame of the preset
\* that reached it (_restore under the render lock, _deactivate), for any number
\* of callers, old render threads among them.
THEOREM GivenBackRestored == Spec => []GivenBackIsRestored
<1>1. FramesInv => GivenBackIsRestored
  BY DEF FramesInv, FramesForTargets, Shown, Accounted, ToBeRestored, GivenBackIsRestored
<1> QED
  BY <1>1, FramesInvariance, PTL
=============================================================================
