------------------------------- MODULE KeyEvents -------------------------------
(***************************************************************************)
(* Key presses on their way from the engine to the GUI: the engine's ring  *)
(* of key-downs (macro_engine/key_watch.py), the poller that feeds them to *)
(* the reactive lighting effects (ui/effects_wiring.py) and the recording  *)
(* dialog, which borrows the engine's one watch to capture a key           *)
(* (ui/macro_recorder.py).  The GUI thread's timers, buttons and callbacks *)
(* are actions; every engine request runs in a pool thread as a job of its *)
(* own, so two of them can reach the engine, or be answered, in any order. *)
(***************************************************************************)
EXTENDS Naturals, Sequences

CONSTANTS
  Effects,     \* device names the shown reactive preset needs
  Captured,    \* device name the dialog captures from
  RingSize,    \* MAX_KEY_EVENTS
  MaxPresses,  \* presses one engine process records (bound)
  MaxFaults    \* restarts of the engine and timeouts of the client (bound)

ASSUME NamesAssumption == Effects # Captured /\ Effects # {} /\ Captured # {}
ASSUME BoundsAssumption == RingSize \in Nat \ {0} /\ MaxPresses \in Nat /\ MaxFaults \in Nat

VARIABLES
  \* the engine
  up,         \* the process answers
  boot,       \* which process it is
  names,      \* KeyWatch._kept
  next,       \* KeyWatch._next_seq
  recording,  \* a Recorder exists
  \* the GUI
  wanted,     \* the runtime shows a preset that reacts to keys
  poller,     \* KeyEventPoller
  dialog,     \* RecorderDialog
  jobs,       \* requests of the pool threads, and answers not delivered yet
  lost,       \* replies lost so far
  \* history, for the properties
  due,        \* first press that may be fed: neither fed yet nor stale
  excused,    \* races since the poller last started a watch undisturbed
  disturbed   \* the dialog's watch or recording was interfered with

engineVars == <<up, boot, names, next, recording>>
guiVars == <<wanted, poller, dialog>>
history == <<due, excused, disturbed>>
vars == <<engineVars, guiVars, jobs, lost, history>>

Races == {"overtaken", "restarted", "silent", "clash"}
NameSets == {{}, Effects, Captured}
Unread == {"unread"}   \* _previous_names is None

ASSUME UnreadAssumption == Unread \notin {Effects, Captured}   \* None is no set of names

Max2(a, b) == IF a > b THEN a ELSE b

-----------------------------------------------------------------------------
(* The ring *)

\* The numbers of the buffered presses are consecutive; the oldest fell out.
Oldest == IF next > RingSize THEN next - RingSize ELSE 0

\* key_events(since): the buffered presses [from, upto) and the next cursor.
EventsSince(since) ==
  [boot |-> boot, from |-> IF since > next THEN next ELSE Max2(since, Oldest), upto |-> next]

NoEvents == [boot |-> 0, from |-> 0, upto |-> 0]
IsEmpty(r) == r.from >= r.upto

\* A key of a watched device goes down (record; repeats are not recorded).
Press ==
  /\ up
  /\ names # {}
  /\ next < MaxPresses
  /\ next' = next + 1
  /\ UNCHANGED <<up, boot, names, recording, guiVars, jobs, lost, history>>

\* The engine's process ends, with its ring, watch and recording.
Crash ==
  /\ up
  /\ up' = FALSE
  /\ names' = {}
  /\ next' = 0
  /\ recording' = FALSE
  /\ excused' = excused \cup {IF poller.fresh \/ poller.since = 0 THEN "silent" ELSE "restarted"}
  /\ disturbed' = TRUE
  /\ UNCHANGED <<boot, guiVars, jobs, lost, due>>

\* The user starts it again.
Boot ==
  /\ ~up
  /\ boot + lost < MaxFaults
  /\ up' = TRUE
  /\ boot' = boot + 1
  /\ UNCHANGED <<names, next, recording, guiVars, jobs, lost, history>>

-----------------------------------------------------------------------------
(* Jobs *)

Kinds == {"watch", "feed",                             \* of the poller
          "capture", "restore", "press",               \* of the dialog's watch
          "record_start", "record_stop", "discard"}    \* of its recording
PollerKinds == {"watch", "feed"}
WatchOps == {"capture", "restore"}

Job(kind, S, since) ==
  [kind |-> kind, names |-> S, since |-> since, phase |-> "sent", reply |-> NoEvents]
Plain(kind) == Job(kind, {}, 0)

Pending(j) == j.phase \in {"sent", "read", "watched"}
Outstanding(kinds, S) == \E j \in S : j.kind \in kinds /\ Pending(j)

\* The dialog has read the watch it will restore and has not done so yet.
Borrowing ==
  /\ dialog.previous # Unread
  /\ dialog.watching \/ dialog.ops # <<>> \/ Outstanding(WatchOps, jobs)

Answered(j, r) == [j EXCEPT !.phase = "done", !.reply = r]
Failed(j) == [j EXCEPT !.phase = "failed"]
Replace(j, S) == jobs' = (jobs \ {j}) \cup S

\* (mutant) What was not read is given back.
RestoredUnread == dialog.previous

\* The watch to give back (_restore): nothing when none was read.
Restored == IF dialog.previous = Unread THEN names ELSE dialog.previous

\* What the engine does with one request (it handles one at a time), and the
\* job after it.  A watch job and a discarded recording have no callback for
\* success: nothing is left of them.
Serve(j) ==
  \/ /\ j.kind \in {"feed", "press"}
     /\ Replace(j, {Answered(j, EventsSince(j.since))})
     /\ UNCHANGED <<names, recording, dialog, excused, disturbed>>
  \/ /\ j.kind = "watch"
     /\ names' = j.names
     /\ Replace(j, {})
     /\ excused' = excused
          \cup {r \in {"overtaken"} : j.names = poller.watching /\ Outstanding({"watch"}, jobs \ {j})}
          \cup {r \in {"clash"} : Borrowing}
     /\ disturbed' = (disturbed \/ dialog.previous # Unread)
     /\ UNCHANGED <<recording, dialog>>
  \/ /\ j.kind = "capture"                  \* key_watch_names, key_watch, key_events(0)
     /\ \/ /\ j.phase = "sent"
           /\ dialog' = [dialog EXCEPT !.previous = names]
           /\ Replace(j, {[j EXCEPT !.phase = "read"]})
           /\ UNCHANGED names
        \/ /\ j.phase = "read"
           /\ names' = Captured
           /\ Replace(j, {[j EXCEPT !.phase = "watched"]})
           /\ UNCHANGED dialog
        \/ /\ j.phase = "watched"
           /\ Replace(j, {Answered(j, EventsSince(0))})
           /\ UNCHANGED <<names, dialog>>
     /\ UNCHANGED <<recording, excused, disturbed>>
  \/ /\ j.kind = "restore"
     /\ names' = Restored
     /\ Replace(j, {Answered(j, NoEvents)})
     /\ UNCHANGED <<recording, dialog, excused, disturbed>>
  \/ /\ j.kind = "record_start"
     /\ recording' = TRUE
     /\ Replace(j, {IF recording THEN Failed(j) ELSE Answered(j, NoEvents)})
     /\ UNCHANGED <<names, dialog, excused, disturbed>>
  \/ /\ j.kind \in {"record_stop", "discard"}
     /\ recording' = FALSE
     /\ Replace(j, IF j.kind = "discard" THEN {}
                   ELSE {IF recording THEN Answered(j, NoEvents) ELSE Failed(j)})
     /\ UNCHANGED <<names, dialog, excused, disturbed>>

\* EngineClient.request on a running engine.
Request(j) ==
  /\ Pending(j)
  /\ up
  /\ Serve(j)
  /\ UNCHANGED <<up, boot, next, wanted, poller, lost, due>>

\* A capture forgets the names of the one before it: a failed reading restores
\* nothing.
NamesNotRead(j) ==
  dialog' = IF j.kind = "capture" /\ j.phase = "sent"
            THEN [dialog EXCEPT !.previous = Unread] ELSE dialog

\* The engine is not reachable: connection refused, or closed by its end.
Unreachable(j) ==
  /\ Pending(j)
  /\ ~up
  /\ Replace(j, {Failed(j)})
  /\ NamesNotRead(j)
  /\ UNCHANGED <<engineVars, wanted, poller, lost, history>>

\* The answer comes after the client's timeout: done, and reported as failed.
TimesOut(j) ==
  /\ Pending(j)
  /\ up
  /\ boot + lost < MaxFaults
  /\ lost' = lost + 1
  /\ CASE j.kind = "watch" -> names' = j.names
       [] j.kind = "capture" /\ j.phase = "read" -> names' = Captured
       [] j.kind = "restore" -> names' = Restored
       [] OTHER -> UNCHANGED names
  /\ recording' = ((recording /\ j.kind \notin {"record_stop", "discard"})
                     \/ j.kind = "record_start")
  /\ disturbed' = (disturbed \/ j.kind \notin PollerKinds
                             \/ (j.kind = "watch" /\ dialog.previous # Unread))
  /\ Replace(j, {Failed(j)})
  /\ NamesNotRead(j)
  /\ UNCHANGED <<up, boot, next, wanted, poller, due, excused>>

-----------------------------------------------------------------------------
(* The poller, on the GUI thread *)

NewPoller ==
  [watching |-> {}, since |-> 0, inFlight |-> FALSE, fresh |-> TRUE, polling |-> FALSE]

\* RecorderDialog.__init__.
NewDialog(capture) ==
  [shown     |-> "open",    \* then "accepted" or "cancelled"
   capture   |-> capture,   \* whether it watches key-downs (capture with a device name)
   phase     |-> "idle",    \* "starting": _start_pending; "stopping": Stop is disabled
   cancelled |-> FALSE,
   watching  |-> FALSE,
   polling   |-> FALSE,     \* poll_timer
   inFlight  |-> FALSE,
   since     |-> 0,
   previous  |-> Unread,
   ops       |-> <<>>,      \* _watch_ops
   busy      |-> FALSE]     \* _watch_busy

NoDialog == [NewDialog(FALSE) EXCEPT !.shown = "no"]

\* (mutant) The names stay, so that the next sync finds nothing to do.
LoseWatchKeepsNames(p) == [p EXCEPT !.polling = FALSE]

\* _lose_watch: the next sync sends key_watch again.
LoseWatch(p) == [p EXCEPT !.watching = {}, !.polling = FALSE]

\* What a start leaves of the races: one with nothing under way begins anew.
Excuses ==
  IF Outstanding({"watch"}, jobs) \/ Borrowing THEN excused ELSE {}

SetWanted ==
  /\ wanted' = ~wanted
  /\ UNCHANGED <<engineVars, poller, dialog, jobs, lost, history>>

\* (mutant) The cursor of the last watch stays good.
StartKeepsCursor ==
  /\ wanted
  /\ poller.watching # Effects
  /\ Job("watch", Effects, 0) \notin jobs
  /\ poller' = [poller EXCEPT !.watching = Effects, !.polling = TRUE]
  /\ due' = IF poller.inFlight THEN due ELSE [boot |-> boot, at |-> next]
  /\ excused' = Excuses
  /\ jobs' = jobs \cup {Job("watch", Effects, 0)}
  /\ UNCHANGED <<engineVars, wanted, dialog, lost, disturbed>>

\* sync, when the shown devices are not the watched ones (_start).
Start ==
  /\ wanted
  /\ poller.watching # Effects
  /\ Job("watch", Effects, 0) \notin jobs   \* bound: one such job at a time
  /\ poller' = [poller EXCEPT !.watching = Effects, !.fresh = TRUE, !.polling = TRUE]
  /\ due' = IF poller.inFlight THEN due ELSE [boot |-> boot, at |-> next]
  /\ excused' = Excuses
  /\ jobs' = jobs \cup {Job("watch", Effects, 0)}
  /\ UNCHANGED <<engineVars, wanted, dialog, lost, disturbed>>

\* sync, when nothing reacts to keys any more (_stop).
Stop ==
  /\ ~wanted
  /\ poller.polling
  /\ Job("watch", {}, 0) \notin jobs        \* bound: one such job at a time
  /\ poller' = LoseWatch(poller)
  /\ jobs' = jobs \cup {Job("watch", {}, 0)}
  /\ UNCHANGED <<engineVars, wanted, dialog, lost, history>>

\* poll, thirty times a second.
Poll ==
  /\ poller.polling
  /\ ~poller.inFlight
  /\ poller' = [poller EXCEPT !.inFlight = TRUE]
  /\ jobs' = jobs \cup {Job("feed", {}, poller.since)}
  /\ UNCHANGED <<engineVars, wanted, dialog, lost, history>>

\* _adopt: a cursor that went backwards means that the engine restarted.
Adopt(p, cursor) ==
  [IF p.fresh THEN p ELSE LoseWatch(p) EXCEPT !.since = cursor, !.fresh = FALSE]

\* _on_events: the first reply after a start only sets the cursor.
OnEvents(j) ==
  /\ j \in jobs
  /\ j.kind = "feed"
  /\ j.phase = "done"
  /\ LET p == [poller EXCEPT !.inFlight = FALSE]
         cursor == j.reply.upto
     IN IF p.fresh \/ cursor < p.since
        THEN /\ poller' = Adopt(p, cursor)
             /\ UNCHANGED due
        ELSE /\ poller' = [p EXCEPT !.since = cursor]
             /\ due' = IF IsEmpty(j.reply) THEN due ELSE [boot |-> j.reply.boot, at |-> cursor]
  /\ Replace(j, {})
  /\ UNCHANGED <<engineVars, wanted, dialog, lost, excused, disturbed>>

\* _on_watch_failed and _on_events_failed.
OnPollerFailed(j) ==
  /\ j \in jobs
  /\ j.kind \in PollerKinds
  /\ j.phase = "failed"
  /\ poller' = LoseWatch(IF j.kind = "feed" THEN [poller EXCEPT !.inFlight = FALSE] ELSE poller)
  /\ Replace(j, {})
  /\ UNCHANGED <<engineVars, wanted, dialog, lost, history>>

\* release_watch, when the GUI quits (synchronous, and the poller's last call),
\* and the next GUI, which adopts the engine.  Its jobs had ended by then (bound).
ReleaseWatch ==
  /\ dialog.shown # "open"
  /\ \A j \in jobs : ~Pending(j)
  /\ names' = IF poller.watching = {} THEN names ELSE {}
  /\ poller' = NewPoller
  /\ dialog' = NoDialog
  /\ jobs' = {}
  /\ wanted' = FALSE
  /\ excused' = {}
  /\ UNCHANGED <<up, boot, next, recording, lost, due, disturbed>>

-----------------------------------------------------------------------------
(* The dialog, on the GUI thread *)

\* (mutant) The watch operations do not wait for one another.
RunsNextAtOnce(d) == d.ops # <<>>

\* _run_next_watch_op: one at a time, in order.
RunsNext(d) == ~d.busy /\ d.ops # <<>>

\* The dialog becomes d, and the job j (if any) is answered by new jobs S.
Become(d, done, S) ==
  /\ dialog' = IF RunsNext(d) THEN [d EXCEPT !.busy = TRUE, !.ops = Tail(@)] ELSE d
  /\ jobs' = (jobs \ done) \cup S \cup (IF RunsNext(d) THEN {Plain(Head(d.ops))} ELSE {})
  /\ UNCHANGED <<engineVars, wanted, poller, lost, due, excused>>

\* _stop_watch: the names from before the capture are watched again.
StopWatch(d) ==
  [d EXCEPT !.polling = FALSE, !.watching = FALSE,
            !.ops = IF d.watching THEN Append(@, "restore") ELSE @]

\* accept(): the dialog closes with a result.
Accept(d) == [d EXCEPT !.phase = "idle", !.shown = "accepted"]

Open(capture) ==
  /\ dialog = NoDialog
  /\ disturbed' = recording   \* one of a GUI before it
  /\ Become(NewDialog(capture), {}, {})

\* start: the Start button, enabled while idle.
Record ==
  /\ dialog.shown = "open"
  /\ dialog.phase = "idle"
  /\ dialog.ops = <<>>     \* bound: the last restore is under way
  /\ Become([dialog EXCEPT !.phase = "starting"], {}, {Plain("record_start")})
  /\ UNCHANGED disturbed

\* stop: the Stop button or the Pause key, while recording.
StopRecording ==
  /\ dialog.shown = "open"
  /\ dialog.phase = "recording"
  /\ Become([StopWatch(dialog) EXCEPT !.phase = "stopping"], {}, {Plain("record_stop")})
  /\ UNCHANGED disturbed

\* (mutant) A cancelled start is not remembered.
CancelForgets ==
  /\ dialog.shown = "open"
  /\ LET d == [StopWatch(dialog) EXCEPT !.shown = "cancelled"]
     IN IF d.phase \in {"recording", "stopping"}
        THEN Become([d EXCEPT !.phase = "idle"], {}, {Plain("discard")})
        ELSE Become(d, {}, {})
  /\ UNCHANGED disturbed

\* reject: Cancel or Escape, at any time.
Cancel ==
  /\ dialog.shown = "open"
  /\ LET d == [StopWatch(dialog) EXCEPT !.shown = "cancelled"]
     IN IF d.phase \in {"recording", "stopping"}
        THEN Become([d EXCEPT !.phase = "idle"], {}, {Plain("discard")})
        ELSE Become([d EXCEPT !.cancelled = (d.phase = "starting")], {}, {})
  /\ UNCHANGED disturbed

\* _on_started, and with it _begin_watch.
OnStarted(j) ==
  /\ j.kind = "record_start"
  /\ j.phase = "done"
  /\ IF dialog.cancelled
     THEN Become([dialog EXCEPT !.phase = "idle"], {j}, {Plain("discard")})
     ELSE Become([dialog EXCEPT !.phase = "recording",
                                !.watching = dialog.capture,
                                !.ops = IF dialog.capture THEN Append(@, "capture") ELSE @],
                 {j}, {})

\* _on_stopped: the dialog is accepted when something usable was recorded,
\* whether it is still open or not.
OnStopped(j, usable) ==
  /\ j.kind = "record_stop"
  /\ j.phase = "done"
  /\ Become(IF usable THEN Accept(dialog) ELSE [dialog EXCEPT !.phase = "idle"], {j}, {})

\* _on_failed, of starting or of stopping.
OnFailed(j) ==
  /\ j.kind \in {"record_start", "record_stop"}
  /\ j.phase = "failed"
  /\ Become([StopWatch(dialog) EXCEPT !.phase = "idle"], {j}, {})

\* _watch_op_done, with _on_watch_started for a capture that is still wanted.
OnWatchOp(j) ==
  /\ j.kind \in WatchOps
  /\ j.phase = "done"
  /\ LET d == [dialog EXCEPT !.busy = FALSE]
     IN Become(IF j.kind = "capture" /\ d.watching
               THEN [d EXCEPT !.since = j.reply.upto, !.polling = TRUE] ELSE d, {j}, {})

\* _watch_op_done with _on_watch_failed or _on_restore_failed: the watch is
\* given up, the recording goes on.
OnWatchOpFailed(j) ==
  /\ j.kind \in WatchOps
  /\ j.phase = "failed"
  /\ LET d == [dialog EXCEPT !.busy = FALSE]
     IN Become(IF j.kind = "capture" THEN StopWatch([d EXCEPT !.inFlight = FALSE]) ELSE d, {j}, {})

\* _poll_capture, ten times a second.
PollCapture ==
  /\ dialog.polling
  /\ dialog.watching
  /\ ~dialog.inFlight
  /\ Become([dialog EXCEPT !.inFlight = TRUE], {}, {Job("press", {}, dialog.since)})
  /\ UNCHANGED disturbed

\* _on_key_events: a press ends the capture (_finish_capture).
OnPresses(j) ==
  /\ j.kind = "press"
  /\ j.phase = "done"
  /\ LET d == [dialog EXCEPT !.inFlight = FALSE]
     IN IF ~d.watching THEN Become(d, {j}, {})
        ELSE IF IsEmpty(j.reply) THEN Become([d EXCEPT !.since = j.reply.upto], {j}, {})
        ELSE Become(Accept(StopWatch([d EXCEPT !.since = j.reply.upto])), {j},
                    IF d.phase \in {"recording", "stopping"} THEN {Plain("discard")} ELSE {})

\* _on_watch_failed.
OnPressesFailed(j) ==
  /\ j.kind = "press"
  /\ j.phase = "failed"
  /\ Become(StopWatch([dialog EXCEPT !.inFlight = FALSE]), {j}, {})

\* Nobody hears of a discarded recording that failed.
DiscardFailed(j) ==
  /\ j.kind = "discard"
  /\ j.phase = "failed"
  /\ Become(dialog, {j}, {})

Callback(j) ==
  /\ \/ OnStarted(j)
     \/ \E usable \in BOOLEAN : OnStopped(j, usable)
     \/ OnFailed(j)
     \/ OnWatchOp(j)
     \/ OnWatchOpFailed(j)
     \/ OnPresses(j)
     \/ OnPressesFailed(j)
     \/ DiscardFailed(j)
  /\ UNCHANGED disturbed
-----------------------------------------------------------------------------
Init ==
  /\ up = TRUE
  /\ boot = 0
  /\ names = {}
  /\ next = 0
  /\ recording = FALSE
  /\ wanted = FALSE
  /\ poller = NewPoller
  /\ dialog = NoDialog
  /\ jobs = {}
  /\ lost = 0
  /\ due = [boot |-> 0, at |-> 0]
  /\ excused = {}
  /\ disturbed = FALSE

Sync == Start \/ Stop
Answer(j) == Request(j) \/ Unreachable(j) \/ TimesOut(j)

EngineStep ==
  \/ Press
  \/ Crash
  \/ Boot
  \/ \E j \in jobs : Answer(j)

PollerStep ==
  \/ SetWanted
  \/ Sync
  \/ Poll
  \/ \E j \in jobs : OnEvents(j) \/ OnPollerFailed(j)
  \/ ReleaseWatch

DialogStep ==
  \/ \E capture \in BOOLEAN : Open(capture)
  \/ Record
  \/ StopRecording
  \/ Cancel
  \/ PollCapture
  \/ \E j \in jobs : Callback(j)

Next == EngineStep \/ PollerStep \/ DialogStep

\* The timers tick, and every job is run and answered.
Fairness ==
  /\ WF_vars(Sync)
  /\ WF_vars(Poll)
  /\ \A kind \in PollerKinds :
       /\ WF_vars(\E j \in jobs : j.kind = kind /\ (Request(j) \/ Unreachable(j)))
       /\ WF_vars(\E j \in jobs : j.kind = kind /\ (OnEvents(j) \/ OnPollerFailed(j)))

Spec == Init /\ [][Next]_vars

-----------------------------------------------------------------------------
(* Properties *)

\* The types of the engine's and the GUI's tables, and of the requests.
TypeOK ==
  /\ {up, recording, wanted, disturbed} \subseteq BOOLEAN
  /\ {boot, lost} \subseteq 0 .. MaxFaults
  /\ names \in NameSets
  /\ next \in 0 .. MaxPresses
  /\ poller \in [watching : {{}, Effects}, since : 0 .. MaxPresses,
                  inFlight : BOOLEAN, fresh : BOOLEAN, polling : BOOLEAN]
  /\ dialog.previous \in NameSets \cup {Unread}
  /\ dialog.phase \in {"idle", "starting", "recording", "stopping"}
  /\ \A j \in jobs : j.kind \in Kinds /\ j.names \in NameSets /\ j.since \in 0 .. MaxPresses
  /\ excused \subseteq Races

\* This reply's presses will be fed to the runtime when it is delivered.
WillFeed(j) ==
  /\ j.kind = "feed" /\ j.phase = "done"
  /\ ~poller.fresh /\ j.reply.upto >= poller.since
  /\ ~IsEmpty(j.reply)

\* Every press is fed at most once, in the order of the presses, and none
\* that was buffered before the poller (re)started its watch, across restarts
\* of the engine and of the watch (KeyEventPoller and key_watch.py, "a poller
\* never sees an event twice", "presses buffered before it are stale").  Only a
\* poll in flight while the watch was restarted is not held to the second: its
\* reply is taken for the first one of the new watch.
PressesFedOnce ==
  \A j \in jobs : WillFeed(j) =>
    \/ j.reply.boot > due.boot
    \/ j.reply.boot = due.boot /\ j.reply.from >= due.at

\* Nothing of the dialog is under way.
DialogIsQuiet ==
  /\ dialog.shown \in {"accepted", "cancelled"}
  /\ dialog.ops = <<>>
  /\ \A j \in jobs : j.kind \in PollerKinds

\* A dialog that was closed, however and whenever, leaves the engine as it
\* found it: no recording goes on, and the names watched before the capture
\* are watched again (_cancelled, _queue_watch).  Excused: the engine crashed,
\* an answer to the dialog was lost, the poller changed the watch as well, or a
\* GUI that quit had left a recording behind before the dialog opened.
CaptureLeavesNoTrace ==
  DialogIsQuiet /\ ~disturbed =>
    /\ ~recording
    /\ dialog.previous # Unread => names = dialog.previous

\* The engine watches what the poller believes it watches, whenever nothing is
\* under way: a capture in between gives the watch back.  Exactly three races
\* lose it: two key_watch requests out of order, an engine that was restarted,
\* and a poller's request between a capture's reading of the names and their
\* restoration.
WatchIsKept ==
  /\ poller.watching # {}
  /\ ~Outstanding({"watch"}, jobs)
  /\ ~\E j \in jobs : j.kind = "watch"
  /\ ~dialog.watching /\ dialog.ops = <<>> /\ ~Outstanding(WatchOps, jobs)
  /\ excused = {}
  => names = poller.watching

\* While a reactive preset is shown and the engine runs, the engine ends up
\* watching for it for good: a failed request and an engine that was restarted
\* are noticed and the watch set again.  Excused are two requests out of order
\* and a restart while the cursor was 0 or no reply had come yet: it goes
\* unnoticed, since the cursor does not go backwards.
WatchReturns ==
  <>[](up /\ wanted) =>
    <>[](names = Effects \/ {"overtaken", "silent"} \cap excused # {})
=============================================================================
