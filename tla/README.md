# Hueberry in TLA+

Hueberry is a PyQt6 front end for the OpenRazer daemon. It shows lighting on
keyboards, plays keyboard macros through a separate *macro engine* process and
can run a Waybar overlay with system figures. This directory holds TLA+ models
of the parts of it in which several threads, processes or system calls meet,
the TLC configurations that check them on small instances, and theorems proved
by TLAPS for every instance. `PROJECT.json` ties every definition to the lines
it models. Source paths below are relative to `src/hueberry/`.

    tlc -workers 2 -config EngineInterfaces.cfg MCEngineServer.tla
    tlapm EngineServerProofs.tla

## 1. The system

### Components

| component | state it keeps | operations | correct when |
|---|---|---|---|
| **Engine server** `macro_engine/server.py`, `handles.py`, `nodes.py` | open handles, their remappers, `_node_states`, the recording, the key watch | `reload`, `record_start/stop/status`, `key_watch`, `key_events`, `stop`; device reads; deferred grabs; `close` | every grab has a clone and an owner, nothing stays open that nobody uses, the reported states are true |
| **Remapper** `macro_engine/remapper.py` | state, grab, virtual clone | `start`, `try_grab`, `handle`, `stop` | no key is left down and none is seen twice, at any moment of the grab |
| **Player** `macro_engine/player.py` | `_playing`, `_current`, the cancel flag, a worker thread | `play`, `stop`, `run` | one macro at a time, stops are kept and hit their own macro, no key stays down |
| **Listener** `macro_engine/listener.py`, `main.py` | the socket at one path | probe, unlink stale, bind, listen, close, unlink | one engine serves |
| **Key watch ring, key poller** `key_watch.py`, `ui/effects_wiring.py` | last 512 key-downs with sequence numbers; watched names, cursor | `add`, `since`; watch, poll, notice a restart | each press is fed once and in order; the watch survives what others do with it |
| **Recorder and its dialog** `recorder.py`, `ui/macro_recorder.py` | events since the start; requests under way, the names watched before | record, capture, cancel at any moment | a dialog that was closed leaves no recording and no watch behind |
| **Engine service** `backend/macro_engine.py` | child process, state | `start`, `wait_ready`, `stop`, `poll`, `request` | no engine of its own is forgotten |
| **Macros page and store** `ui/macros_page.py`, `macros/` | a copy of the configuration; `macros.json`; what the engine loaded | edit, save, reload, adopt a fetched file; merge, quarantine | an accepted macro stays, on its device; what is saved is what runs |
| **Macro editor** `ui/macro_editor.py`, `macro_repeat.py`, `macro_review.py` | steps, selection, trigger, repeat | edit, move, record, review, validate | what leaves it is valid, what was not edited is unchanged |
| **Per-key lighting runtime** `backend/advanced_runtime.py`, `animator_targets.py`, `lighting_state.py` | preset, targets, claims, render thread | `activate`, `update`, `stop`, `release`, `refresh`, `shutdown`, `step` | an active preset is rendered, a device given back is left alone, a reload respects the user's choice |
| **Effects page** `ui/effects_page.py`, `effects_groups.py`, `key_effect_editor.py`, `key_selector.py`, `backend/advanced_preset_store.py` | presets, the current one with its edits, the selected keys, the form | group keys, edit, save, delete, activate, stop | no edit makes an invalid preset, none is lost, none is made by looking |
| **Device page** `ui/lighting_panel.py`, `lighting_restore.py`, `mouse_panel.py`, `backend/device_effects_store.py` | what a write is under way for, what waits for it | choose a zone, an effect, brightness, DPI, polling rate | the last value chosen is on the device it was chosen for; the label is true |
| **Daemon, window** `backend/daemon.py`, `ui/main_window.py`, `daemon_panel.py`, `worker.py` | the `DeviceManager`, busy flags of two places, the selection | connect, repoll, restart, stop, start, set; navigate | one action at a time, no page shows an object of a dropped manager |
| **Single instance** `single_instance.py`, `gui_link.py`, `app.py` | a local socket, messages | notify or listen, show the window | one GUI per user, and a launch reaches it |
| **System monitor** `sysmon/`, `ui/sysmon_page.py`, `sysmon_wiring.py` | Waybar process, pid file, configuration; counters of the last sample | enable, disable, restart, clear a leftover; apply; sample | no orphan, no foreign process signalled; settings survive; loads are recent |
| **Settings, autostart** `settings.py`, `autostart.py`, `ui/tray.py` | a JSON file and the copies of it; the desktop entry | read once, set, toggle | no choice is lost, no foreign entry is touched |
| Frames, key maps, look | none that outlives a call | | pure functions and layout |

### How they interact

The GUI thread never blocks: it queues jobs on a thread pool (`ui/worker.py`),
whose results come back as Qt signals in the order the jobs *end*. The jobs call
the runtime (two locks: one for state, one held during a frame and a restore) and
the macro engine (a Unix socket with one JSON line per request). Inside the
engine one selector loop serves clients and devices; the only other threads there
are the players' workers. The kernel delivers key events to the compositor until
the engine grabs a device, and to the engine as soon as it opens it. The lighting
panel claims a device through `lighting_state`, whose one listener is the
runtime's `release`; the runtime's emptied listener leads back to the setting
`last_advanced_preset`, which the window's reload reads.

### What is hard

- *Between system calls*: keys go on being pressed between `active_keys()`,
  `grab()`, the flush of the buffer and the first read; another engine acts
  between a probe, an unlink and a bind.
- *Between lock sections*: `playing` and `current` are read separately, the cancel
  flag is cleared outside the lock, restores follow the state change they belong to.
- *Timeouts*: `Player.stop()`, `shutdown()` and every socket request give up on
  something that may still happen.
- *Partial failure*: open, clone, grab and each write can fail on their own, and a
  device can vanish at any of them.
- *Results out of order*: "activated", "stopped" and "emptied" arrive in the order
  of threads, not of effects.

- *Stale copies*: the macros page, the effects page and every holder of settings work
  on copies, while others write the file they came from.
- *What a process leaves behind*: sockets, pid files and the overlay outlive a crash,
  and a pid may be given to somebody else.

`PROJECT.json` lists each of these at its line under `hazards`, with the property
that covers it or the reason none does.

## 2. The modules

| module | models | composed by; proofs |
|---|---|---|
| `EngineServer` | server, handles, remapper states, recording and watch as device users | `MCEngineServer`; `EngineServerProofs` |
| `Passthrough` | one node's keys around the grab | `MCPassthrough`; `PassthroughProofs` |
| `MacroPlayback` | abstract: what playing macros promises | refined by `MacroPlayer` |
| `MacroPlayer` | loop thread and worker threads of one device | `MCMacroPlayer`; `MacroPlayerProofs` |
| `EngineSocket` | engine processes on one socket path | `MCEngineSocket`, `MCPrograms`; `ProgramsProofs` |
| `KeyEvents` | the engine's ring of key-downs, the poller and the recorder dialog over one watch | `EngineClients`; `KeyEventsProofs` |
| `EngineService` | the GUI thread and two pool threads around the child process | `EngineClients`; `KeyEventsProofs` |
| `EngineClients` | both of them as one specification | `MCKeyEvents`; `KeyEventsProofs` |
| `AdvancedRuntime` | pool threads, GUI thread and render threads around the lighting runtime | `MCAdvancedRuntime`; `AdvancedRuntimeProofs` |
| `AdvancedRuntimeChoices` | the same with a record of the user's choices | `MCAdvancedRuntimeChoices` |
| `SingleInstance` | launches of the GUI, their name and messages | extended by `Overlay`; `ProgramsProofs` |
| `Overlay` | Waybar, its pid file and the controllers of several launches | `MCPrograms`; `ProgramsProofs` |
| `MacroPages` | macros page, `macros.json`, engine that loads it | `Gui`; `GuiProofs` |
| `MacroEditor` | the editor, its dialogs, and a recording on its way into them | `Gui`; `GuiPanelsProofs` |
| `Lists` | choosing entries of a list, for the two above | with them |
| `EffectsEditing`, `EffectForm`, `KeySelector` | the effects page; the form of one effect; the key grid | `Gui`; `GuiProofs` |
| `DaemonWindow` | service actions, managers, pages and selection | `Gui`; `GuiPanelsProofs` |
| `LightingPanel`, `MousePanel` | the device page | `Gui`; `GuiPanelsProofs` |
| `OverlaySettings`, `Collector` | what the overlay shows; its sampling process | `Gui`; `GuiPanelsProofs` |
| `Preferences` | settings file, its copies, autostart entry | `Gui`, and by itself; `GuiPanelsProofs` |
| `Gui` | the parts of the GUI as one specification | `MCGui`; `GuiProofs` |

`MCPrograms`, `Gui` and `EngineClients` put several components into one specification,
and `MCPrograms`, `MCGui` and `MCKeyEvents` give them their values. `part`
says which one is at work; it never changes, and the variables of the others do not
move. The parts of the GUI are modal to each other or act on disjoint state, so
nothing is lost by checking them apart, and the state spaces add instead of
multiplying. Same-named variables of the parts are shared in `Gui`, as only one
part uses them in a behaviour. Where parts do interact they are in one module or
at work together: poller and dialog (`part = "both"`), instance and overlay
(`Overlay` extends `SingleInstance`), the page and the file and the engine
(`MacroPages`), the window and the daemon dialog (`DaemonWindow`).

Definitions marked `(mutant)` are deliberate bugs: swapped for the definition that
follows them, each makes a property fail. They show that the properties depend
on the code; no specification uses them.

### EngineServer

One action is one handler: the loop is single-threaded, so nothing of the engine
comes in between. The environment plugs, unplugs, holds keys and grabs devices
for other programs between the handlers.

| model | code |
|---|---|
| `open`, `dead` | `_handles`; handles whose device is gone |
| `remapper`, `grabbed`, `clones` | `DeviceHandle.remapper.state`, the grab, the `UInput` |
| `nodeState` | `_node_states` |
| `recording`, `watch` | the identities of `Recorder`, the nodes that match `KeyWatch` |
| `Reload`, `RecordStart`, `RecordStop`, `KeyWatch`, `RequestStop`, `Close` | the request handlers and `close()` |
| `ReadDevice`, `LoseDevice`, `RetryGrab` | `_read_device`, its failure, `_retry_grabs` |
| `Start`, `TryGrab`, `Settle` | `Remapper.start`, `try_grab`, the sync of `_node_states` |

Here `active_keys()` and `grab()` are one step, since no other handler comes between
them; what the hands do in between is the subject of `Passthrough`. Releasing a handle
does not fail: `close_handle()` catches the errors of its calls, so the `except` at
`server.py:193` is not reached by any modelled one. Which call of a start fails is an
input (`Faults`). Identities stand for the
vendor, product and physical path; names and capabilities are constants.

### Passthrough

One action is one system call of the engine or one movement of the hand. Each
event carries whether the compositor saw it (`seen`). `place` is the engine's
position between the calls of `start`, `try_grab`, `_discard_buffered`, `handle`
and `stop`. `raced` is a history variable. `Backlog` bounds the events the loop
may be behind by.

### MacroPlayer and MacroPlayback

Every access to an attribute the threads share is a step: the two reads of
`_on_trigger`, the claim under the lock, the clearing of the flag, the start of
the thread, `cancel`, `join` and its timeout, `close`, and each round, step and
release of a worker. Waiting is abstracted: a delay is a step that may take any
time. A write may fail exactly when the output has been closed. The refinement
mapping gives `MacroPlayback` the macro of the one live worker, whether it was
told to stop, and whether it is past the check before a step.

### EngineSocket

One action is one system call on the path, plus `Crash` at any of them. `path`
holds whose socket file is there, which may be that of a dead process.
`overlapped` is a history variable: two engines were starting or stopping at the
same time.

### AdvancedRuntime

One action is one section under the state lock, one under the render lock, or the
calls between two of them. A thread's call is `at` and `call`; a render thread's
frame is `rpc` and `snap`. A preset object is a number, as `update()` replaces the
object and the targets repaint when they last painted another. `Deactivate`
clears `Target.active` wherever a frame in progress refers to the target.
`Lose` and `ComeBack` are external. A job's signals (`Forget`, `Report`) reach the
GUI thread at any later time while it is idle.

### KeyEvents

`next` is the last sequence number of the ring, `names` what the engine watches. The
GUI thread's timers, buttons and callbacks are actions. Each request is a record in
`jobs` that goes from a pool thread to the engine and back (`Request`, then the
callback), so requests can overtake each other on both ways; `TimesOut` loses the
answer of a request that was carried out, `Crash` and `Boot` replace the engine's
process.
`poller` holds `KeyEventPoller`'s attributes, `dialog` those of the `RecorderDialog`
with its queue `ops` of watch requests. `due`, `excused` and `disturbed` are history:
the first press that may be fed, and the races that happened.

### EngineService

`process`, `state`, `adopted` and `stopping` are the attributes. `waiter` and
`caller` are the two pool threads, each between the read of `_process` and the write
that depends on it: `_wait_ready` and the `poll()` of a failed request. `child` is the
real process, which may end or be told of its parent's end at any time. `Quit` is
`stop()`.

### SingleInstance and Overlay

One action is one step of a launch around the local socket: probe, remove and
listen, deliver, quit, close. Crashes leave `name` behind. `Overlay` adds the
controller: `job` is what it works at and `stage` how far that is. The look at the pid
file and its process, the SIGTERM, the end of the wait, the files and `popen()`, the
write of the pid file and the stored "enabled" are steps of their own. Between any two
of them the program may crash, processes end, are collected, and pids are given away
(`Pids`). `hurt`, `reused` and `stray` are history: who was signalled, which pids changed
owner while a controller counted on them, and which overlays run without a record
because their program crashed between `popen()` and its end.

### MacroPages and MacroEditor

`config`, `dirty` and `loadError` are the page's; `file` and `backup` the disk's;
`loaded` the engine's. A macro is its id, its trigger and whether it is valid alone.
A file that cannot be read stays where it is, and so does an invalid one that cannot
be moved aside (`MovedAside`, `LoadFile`). The editor is opened over the page, so answers
arrive under it; `kept` and `dropped` are history: the macros that were accepted, and
those of them accepted while no device was selected. `MacroEditor` takes
the list of steps, the selection that follows insertions, moves and deletions, and
the one dialog on top. A recording is a tape of events with times, which passes
`Recorder.feed`, `events_to_steps` and `MacroReview` before it is inserted.

### EffectsEditing, EffectForm and KeySelector

`current` and `dirty` are the preset being edited, `active` the one the runtime shows.
A job is queued, does its work, and reports, each at any time. `EffectForm` fills one
widget after another, each of which tells of its change, so that a half-filled
form is a state. `KeySelector` keeps the cell under the pointer instead of its
position.

### DaemonWindow, LightingPanel and MousePanel

A `DeviceManager` is an identity and the devices it listed; `entries` remembers which
manager the pages were filled from. `job[u]` is the task of the window or of the dialog,
`tries` its connection attempts. In the panels one write is under way at a time:
`stage` is where it is, `queued` what waits for it. A device can fail to take or to
give a value.

### OverlaySettings, Collector and Preferences

`OverlaySettings` holds the form, the controller's configuration, the file (which may
be missing, unreadable, bad or of an earlier version) and the files written for Waybar.
Saves, the writing of Waybar's files, starts and the moving aside of a bad file can fail.
`wanted` is history: what the user's last Show or Hide that did something asked for.
`Collector` compares what the program shows with what the machine did since the
sample before. `Preferences` has the file and each copy of it.

## 3. The runs

| run | instance | question and answer |
|---|---|---|
| `EngineInterfaces` | one device of two nodes, one with triggers; each of open, clone and grab may fail | Does the engine hold what it says, and only what it needs, after any sequence of requests, unplugs and failures? Yes |
| `EngineDevices` | two devices, no start fails | Do remapping, recording and watch keep out of each other's way, and is a deferred grab decided once the key is released for good? Yes |
| `Passthrough` | two plain keys and a trigger, backlog 4 | Does any key stick or come twice? Only a key pressed between the look and the grab sticks; none comes twice |
| `PassthroughStuck` | the same, backlog 2 | Is the promise of `remapper.py:11` kept? No, see findings |
| `MacroPlayer` | a toggle, an N-times and a single macro over two keys, two worker threads | All nine properties, the refinement and liveness included, hold |
| `EngineSocketRace` | three engines | Does one engine serve whatever overlaps? No, see findings |
| `Programs` | `engine`: three engines. `gui`: two launches, two pids, one message, one failure, one command, two processes lost (1.1 million states) | One engine, one GUI and one overlay, as long as starts do not overlap and no crash falls between `popen()` and its records; any other leftover is found by its pid file, and a foreign process is signalled only when it got a pid that was being signalled just then |
| `KeyEvents` | ring of 1, two presses, one restart or lost answer; `both`: one capture, one press, no fault; `service`: three children | Is every press fed once, does the watch survive, does a closed dialog leave anything behind, is every child tracked? Yes, but for the races the properties name |
| `AdvancedRuntime` | two keyboards, a static preset on both and an animated one on the first, one pool thread, two render threads | Active presets are rendered; given-back devices keep no frame |
| `AdvancedRuntimeReload` | the same, one call at a time | Does a reload respect the user's choice? No, see findings |
| `Gui` | eleven parts, see below | Do edits survive background tasks and failures, and is what is shown true? Yes |
| `PreferencesLost` | two presets, four inputs | Is a saved setting kept? No, see findings |

The properties of `Programs` and `Gui` are conjunctions, one per component; the
conjuncts are named and explained in the component's module.

**Bounds and why they are enough.** Two nodes are enough for every interaction of
the server, as each handler treats nodes one by one and relates at most two: two
interfaces of one identity, or two devices under one request. The order of nodes
within a handler does not matter to what it leaves behind. `MaxExtras` is the
code's bound and exceeds the instance. Two worker threads are enough to see a
second one appear (`OneWorker` says it never does) and the macros contain a held
key, a tap, a delay and a step without a key, looped, counted and single. Three
engines allow one that leaves while two arrive. A backlog of four lets a press, a
release and another press of a key pile up before the grab and after it. In the
lighting model `MaxObjects` bounds the preset objects ever shown (two in the passing
run, three in the other), so that an activation over another, an edit and a restore
by a reload all happen, in any combination of two; two render threads are what a
shutdown whose wait timed out can leave. Symmetry is used for engines and render
threads only, in runs without liveness.

A ring of one loses a press as soon as there are two, and two presses give cursors
that are behind, level and ahead of a restarted engine. With poller and dialog both at
work the requests of two users multiply, so that part has one capture and no fault;
faults are met by each alone. Three children let one be spawned while a poll of the one
before is overtaken twice. Two launches, one failure and two pids let a program crash,
its overlay live on, another launch find its pid file and the pid belong to somebody
else by then.

The parts of `Gui`: macros page, 2 devices, 2 triggers, 2 jobs, 2 inputs, an old file
with duplicate entries, one that is corrupt and one that cannot be read; editor, 4 inputs over three macros
(empty; with a held key and a count out of range; with an app step), at most 4
steps, recordings with gaps below, at and above the limits; effects page, 2 keyboards, 2
keys, 2 stored presets (one with a key the keyboard lacks), 4 inputs, 2 jobs; key grid, 2 x 3 with a hole, 3 inputs; form, 3
edits over a group the widgets cannot show exactly and one they can; window, 2 devices,
2 connection attempts, 2 actions, 1 change from outside, 3 visits; lighting, 2 zones,
5 inputs, 1 failure; mouse, one with free and one with fixed DPI values, 4
inputs, 1 failure; collector, 1 disk, 3 ticks, 2 faults; overlay settings, 2
disks, 3 rows, 3 inputs, 1 failure, 7 old files (one cannot be read); preferences, 2 presets, 4 inputs, 1 failure. Each is
enough for every operation to meet each other one, with a background task of
either before, between and after them; every property is broken by a plausible bug
within these bounds.

`CHECK_DEADLOCK FALSE` stands where the system may stop for good: after `close()`,
after the remapper's output is closed, after the window has quit, when the user has no
input left within the bounds and everything is answered. `Passthrough` and
`EngineSocketRace` never stop and are checked for deadlock.

**Fairness.** `EngineServer` assumes weak fairness of the retries, of noticing a
lost device and of closing: `run_once()` comes round at least every poll interval,
an unplugged node is readable, and the loop ends when asked. Nothing is assumed of
clients, keys or cables. `MacroPlayer` assumes weak fairness of each worker
thread: the operating system schedules it, delays are bounded and wake on the
cancel flag, an app action has a timeout. Nothing is assumed of the loop thread.
`KeyEvents`, where only the poller is at work, assumes weak fairness of the poller's
two timers, of its requests in the thread pool and of their answers: Qt's timers
repeat, and a request has a timeout. Nothing is assumed of the engine, the keys
or the user. The other modules state no fairness and no liveness.

## 4. Findings

1. **A key pressed between the look and the grab stays down**
   (`PassthroughStuck`, `macro_engine/remapper.py:183`). `active_keys()` and
   `grab()` are two calls. A press in between reaches the compositor from the real
   device; its release does not. `OnlyRacedKeysStick` shows that this is the only
   way a key can stick.
2. **Two engines can serve** (`EngineSocketRace`, `macro_engine/listener.py:72`).
   An engine between `bind` and `listen` is taken for stale, and a probe and the
   unlink it justifies are separate. `OneEngineUnlessOverlapped` shows that
   overlapping starts and stops are the only cause.
3. **A reload takes back a device the user gave other lighting**
   (`AdvancedRuntimeReload`, `backend/advanced_runtime.py:148`). The run restores
   the static preset on two keyboards; the first is unplugged and the animated
   preset, which has a program for the first only, is activated: it finds no
   device, so the static one is dropped from the second and the setting still
   names it. An effect applied to the second keyboard is not recorded as a claim,
   since it has no target. The next reload shows the static preset over the
   effect. No race is involved.

4. **A setting is taken back** (`PreferencesLost`, `settings.py:67`). Each holder of a
   `Settings` object reads the file once and writes every key of its copy. The tray
   keeps one copy, the effects page another: after a preset was activated, toggling
   "close to tray" writes the old `last_advanced_preset` back, and the other way
   round.

Also met, and excused by name in the properties they would break, since nothing in
the repository promises otherwise:

- Two `key_watch` requests answered out of order leave the engine with the older
  names; an engine that restarts while the poller's cursor is 0 is not noticed; a poll
  under way while the watch is set again can feed presses from before it
  (`KeyEvents`: `excused`).
- A failed request whose `poll()` is overtaken by the next spawn clears the new child
  (`backend/macro_engine.py:171`, `EngineService`: `overtaken`).
- A save while the engine starts, after it has read the file, is not loaded
  (`MacroPages`: `late`). An editor whose device leaves the list hands its macro to the
  device that is selected then (`editor.moved`); when the list is empty by then, the
  accepted macro is dropped without a word (`ui/macros_page.py:375`, `dropped`): open Add
  on a device without saved macros, the engine crashes, the refresh empties the list, OK.
- The defaults are saved over a configuration that could not be read
  (`config_files.py:100`). `LossIsTold` shows that the macros page says so as long as the
  file is there.
- A crash between `popen()` and the write of the pid file (`sysmon/controller.py:207`)
  leaves an overlay that nobody ends; one before "enabled" is stored leaves an overlay
  that the next launch does not look for, and forgets when it quits and removes the pid
  file (`Overlay`: `stray`).
- `New` on the effects page takes the key of an active preset that was never saved
  (`ui/effects_page.py:139`, `reused`); an edit made while a save is under way
  is replaced when it ends (`ui/effects_page.py:263`, `crossed`).
- A launch between its probe and its `listen`, two launches at once
  (`SingleInstance`: `crowded`), and a running GUI that is quitting when it is
  told to show itself.
- The controller signals the process group of its child without looking whether it
  ended (`sysmon/controller.py:220`), and that of a leftover some time after it looked
  (`sysmon/controller.py:274`): harmful only once the pid was given away (`Overlay`:
  `reused`).
- Removing every disk row and applying brings all detected disks back
  (`OverlaySettings`); the first Apply pins the detected ones; a configuration that
  could not be saved is still reported as applied.
- Cancelling the recorder while `record_stop` is under way still accepts the recording
  (`ui/macro_recorder.py:311`).

## 5. The proofs

The proofs stand in eight modules beside the models, and hold for every value of the
constants that satisfies the named assumptions. In each, the property the run checks
is not inductive by itself; what has to be added is what the paragraphs below are about.

**`EngineServerProofs`** (from `NodesAssumption`, `FaultsAssumption`).
`GrabbedIsCloned` says
nothing of the nodes without a handle, which a reload would open. `IInv` adds that
a remapper exists for open nodes only, that grabs and clones are determined by
the remappers' states on *all* nodes, that dead handles are open ones, and that a
closed server has none. The key lemmas say what a start can yield (`TryGrabType`,
`StartType`) and what a reload, a settled read and a release leave behind; then each
handler preserves `IInv`. The theorems are type correctness, the three other invariants and,
from `IInv`, the two action properties.

**`MacroPlayerProofs`** (from `MacroAssumption`). `IInv` ties the places of the loop
thread to those of the workers: a claim without a live worker exists only between
`Claim` and `Spawn`; `thread` names the live worker, if there is one; the keys down
are those in `pressed` while the output is open; the flag is down between
`ClearCancel` and `Spawn`; a stop is on its way only to the macro that plays; and
each live worker's position is consistent with its macro (`WorkerIsAt`). This yields
all safety properties of the run and `Implements`: initial states map to initial
states, and each step to a step or a stutter of `MacroPlayback`.

**`PassthroughProofs`** (no assumption is needed). `OnlyRacedKeysStick` speaks of quiet
moments only, so `IInv` has to explain what is down in between. `SeenIsExplained`: a key
the compositor has down is physically down or was raced, and raced once the engine is
past its look. `ReleaseIsDue`: a key that is up, but down on the clone or still to be
met in the buffer, is let go of by the last of its events there. `BufferIsFresh`:
nothing in the buffer of an active remapper was seen before. Reading an event settles
its key or leaves the rest of the buffer to do so. Proved for any keys, triggers and
backlog: the run's backlog of four is no restriction.

**`AdvancedRuntimeProofs`** (from `ProgramsAssumption`, `ThreadsAssumption`).
`ActiveIsRendered` needs two facts more: the thread the runtime knows is alive and was
not told to stop whether or not a preset is active (`ThreadRuns`), and a call that is
about to install targets knows their preset (`InstallsPreset`), without which targets
could be installed under no key. `CallKeeps` and `RendererKeeps` say what any call and
any move of a render thread must satisfy; only `Install`, `Shutdown` and `Retire`
change the known thread and are treated by themselves. `GivenBackIsRestored` speaks of
moments at which no call is under way. `FramesInv` accounts for every frame at every
moment: a device that shows one, or will because a render thread is about to paint it,
is a target, out of reach, or in the list of a thread that will restore it; and render
threads paint only what is still a target or was one when their frame began. That last
part is what `Target.active` is for.

**`KeyEventsProofs`** (from `BoundsAssumption`, `NamesAssumption`, `UnreadAssumption`,
`ChildrenAssumption`). Four results over one model, and more than the run can check
at once: poller, dialog and a failing engine are all at work, for every size of the ring.

- `PressesFedOnce` is about the answer that
  is delivered next. `IInv` adds that one poll is under way at most and asks from the
  cursor on (`OnePoll`); that the first press due is not ahead of the engine that runs,
  nor of the cursor if that is one of this engine (`DueIsPast`); and that an answer on
  its way is not older than what is due, and begins with it unless it will only set the
  cursor (`RepliesAreDue`).
- `CaptureLeavesNoTrace` is about a dialog that is gone and has nothing under way.
  `WatchInv` says at every moment *who will still give back* what the dialog holds: itself,
  its queue of watch requests (`QueueOK`: one of four shapes, one request at a time), or
  a request on its way (`RestoreComes`, `RecordingEnds`), and which requests for the
  recording can be under way in which phase (`RecordingOK`).
- `WatchIsKept` is about the poller: the names it believes in are watched by the engine, or
  a request that sets them is on its way or known to have failed, or the dialog remembers
  them and its next restore is the one that sets them (`ComesBack`, `RestoresPrevious`).
- `LiveChildIsTracked` of the service does not say what the two pool threads believe.
  `ServiceInv` adds that a waiter exists only while a start is unanswered, and that the
  exit it saw is that of the tracked child or nothing is tracked (`WaiterIsCurrent`); and
  that a `poll()` in the middle holds the tracked child unless it was overtaken
  (`CallerIsCurrent`). So whoever clears `_process` clears a child that ended, and a
  spawn, which needs that no child is tracked, loses none.

Type correctness is proved with the bounds of the run, since the ring and the queue of a
dialog that can be opened once are bounded by what the user does.

**`ProgramsProofs`** (from `NoSocketAssumption`, `SessionBoundsAssumption`,
`OverlayAssumption`). Of the engines' socket, `IInv` says that an engine
listens exactly from `listen()` to the close of its listener, and that as long as
nothing overlapped, whoever is on its way is alone: the path is its own or empty
where it must be, and everyone else is down when it unlinks. For the launches of the
GUI, `LaunchesApart` is the same idea. For the overlay, `OverlayInv` relates what each
controller knows to what runs: a job's stages to the phase of its launch (`JobFits`), every
overlay of ours that is not `stray` to the pid file (`MineIsNamed`) and to the one launch
that tracks it as a child or is getting rid of it (`KnownTo`), and a pid that is counted
on but foreign to a reuse that happened meanwhile (`OnlyReusedHeld`). Then `OverlayIsSound`
holds for any number of launches, pids and failures: one overlay at most, and one that no
program holds is named by the pid file, but for the strays of section 4; a foreign process
is signalled only for a pid given away while a controller counted on it.

**`GuiPanelsProofs`, `GuiProofs`** (from `GuiAssumption`, which collects what the parts
assume of their constants: sensors and fixed lists of DPI values fit each other, old
files have the shape their reader produces, cells and devices are numbers, a stored
preset is valid, a macro the editor opens is one of a valid configuration, the shortest
recorded delay is not above the longest). `Gui` lets one part be at work, so the invariant is a conjunction of
one per part (`PartsAgree`), each kept by the steps of its part:

- window: `FlagsAgree` relates the four busy flags of window and dialog, the buttons they
  enable and the tasks under way; two flags are copies of the other side's, brought over
  by calls. `ListIsCurrent` says when the pages may be behind the manager.
- lighting: `SliderIsHeard` says where the brightness the slider shows is: on the device,
  in the write under way, or queued behind it; `LabelIsNew` that only news on their way make
  the label an old one.
- mouse: every stage of a write holds values the device takes (`RateIsLegal`; `FitChooses`
  and `FitBounds` are the facts about rounding to a fixed list).
- collector: `CountersAgree` bounds what the counters gained since the readings kept, which
  bounds each load by what the machine did (`DivMonotonic`).
- overlay settings: what has every field stays complete (`Complete`, in the type
  invariant), so that `from_dict` of the file is the configuration; with that, and
  likewise for the preferences, the property is inductive as it stands.
- macros page: `EditorFollows`, the open editor's device is selected or left the list;
  `RowHolds`, an edited row has its macro as long as the editor is open, so an accepted
  one replaces itself. `KeptAreThere`, which leaves out what was `dropped`, and
  `ShownIsFile` are inductive once it is known that reading what was
  written gives the same configuration, which is valid (`LoadsGood`, `SavedIsRead`
  and what `Merge` keeps of either side). `EngineHasRead` says for every moment
  why an engine can be behind the file: it is down or still starting, it read before a save
  that could not tell it, or the request to read again is under way.
- macro editor: `ListInv`, the list stays within its limit, rows that are current or
  chosen exist, and OK is enabled when the macro is valid; `DialogFits`, what each dialog on
  top can hold; `CountAgrees`, an unedited count is kept where the box cannot
  show it. `RecordingTold` is what a review knows of its tape: proved by induction on
  the tape (`TapeIsTold`), as the steps grow by an event and at most one delay
  each. `Those`, which picks entries of a list, is a recursive function on a prefix, and
  its facts (what it picks, keeps in order and leaves out) are proved by `NatInduct` once.
- key grid: `KeysInv`, a band holds keys only, and a walk to the last cell on the way comes
  back (`ArrowsComeBack`, by well-founded induction on distances in the grid).
- form: `Filling`, a half-filled form is quiet, and each widget that was filled shows
  what it can of the chosen effect.
- effects page: `AllFit`, what is stored, shown or on its way in a job can be saved and
  rendered; `Undisturbed`, as long as no edit crossed a save, there is one job at most, and
  until it saved the page shows the file, then what the file now holds.

Proving also corrected the models, each time towards the code: `KeyEvents`, `Overlay`, the
arrow keys at a hole of the grid in `KeySelector`, and what a deleted group leaves
behind in `EffectsEditing`. `SelectSeq` and `FoldLeft` are
recursive operators of the library, so what a module with theorems needs of them is
written with recursive functions or quantifiers.

**Only model-checked.** Liveness (`DeferredGrabIsDecided`, `PlayingEnds`,
`PollerRegainsWatch`), as fairness is out of the prover's reach; and of course the
negative results. Every invariant and every action property of a passing run is
also a theorem.

## 6. What is left out

Of the modelled parts:

- Server: the client side of the socket (accept, framing, replies, a client that
  goes away) and the read-only requests. They change no device state.
- Remapper: which capabilities the clone gets; LED and relative events other than
  wheel steps. A press made after the grab but before the buffer is flushed is
  dropped with it (`remapper.py:196`); the model has that, no property forbids it.
- Player: a write that succeeds and whose `syn()` fails while later writes succeed.
  `Perform` takes the two as one.
- Lighting: key presses fed to reactive effects, change listeners, devices with
  zones only. `GivenBackIsRestored` leaves out devices that could not be reached
  when they were let go of, and those whose target `refresh()` dropped in the middle
  of a frame (`advanced_runtime.py:195`): `refresh()` does not wait for it, so a device
  that is back by then can get that one frame. "Activated" and "emptied" of two jobs
  may arrive in either order (`ui/effects_wiring.py:271`).
- An activation that overtakes the restore of the `stop()` before it can leave a
  static preset active and unpainted (hazard at `advanced_runtime.py:133`); the model
  has the behaviour, no promise of the code speaks of it.
- Forms: texts, labels, sizes, margins, orientation, the GPU card, the parameters of
  hardware effects. They behave like the fields that are modelled.
- Files: the JSON of each format. A file is missing, unreadable or has the modelled
  contents; it is replaced atomically, so it is never torn.

Not modelled at all, as they keep no state that two actors share: the rendering of
frames (colour arithmetic on floating-point numbers), device maps, layouts and their
drawing, the look of the program, the format of the collector's text, the
line framing of the socket (`macros/protocol.py`).

## 7. What could come next

1. `LineBuffer`'s framing against a reference definition over bounded inputs.
2. Larger instances of `both` in `KeyEvents`, with a fault.
