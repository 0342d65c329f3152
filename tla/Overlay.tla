----------------------------- MODULE Overlay -----------------------------
(* The system monitor overlay: SysmonController (sysmon/controller.py), which  *)
(* runs one Waybar as a child, the page and the tray item that show its state  *)
(* (ui/sysmon_page.py, ui/sysmon_wiring.py), and what the launches of          *)
(* SingleInstance do to it.                                                    *)
(*                                                                             *)
(* A pid is free, or names a Waybar that runs our configuration ("ours"), a    *)
(* child that died and was not collected, or a process that has nothing to do  *)
(* with us. A controller works on the GUI thread, which waits up to two        *)
(* seconds for a process to end. job says what it works at, stage how far it   *)
(* is, as far as a crash or another process makes a difference:                *)
(*   "end"     its child was sent SIGTERM; wait, SIGKILL, no pid file          *)
(*   "again"   a restart, whose child is gone                                  *)
(*   "look"    the pid file names a Waybar of ours, which is to be signalled   *)
(*   "clear"   that was sent SIGTERM; wait, SIGKILL, no pid file               *)
(*   "spawn"   Waybar is to be started                                         *)
(*   "record"  it runs, its pid is to be written                               *)
(*   "persist" "enabled" is to be written, and the change told                 *)
EXTENDS SingleInstance

CONSTANTS Pids,        \* process identifiers, which the system uses again
          MaxCommands, \* what the user and the engine's messages ask for
          MaxLost      \* overlays that end by themselves
ASSUME OverlayAssumption ==
    /\ MaxCommands \in Nat /\ MaxLost \in Nat
    /\ Pids \subseteq Nat \ {0} /\ IsFiniteSet(Pids)

NoPid == 0
Launching == {"launch", "check"}   \* start(), and start() for the tray's item
Jobs == {"idle", "stop", "restart", "quit"} \cup Launching
Stages == {"none", "end", "again", "look", "clear", "spawn", "record", "persist"}

VARIABLES process,  \* [Pids -> {"free", "ours", "zombie", "foreign"}]
          child,    \* [Launches -> the Waybar the controller holds (_proc), or NoPid]
          collected,\* [Launches -> poll() has collected that child]
          pidFile,  \* the pid on disk, or NoPid
          stored,   \* "enabled" in the configuration file
          enabled,  \* [Launches -> "enabled" in memory]
          item,     \* [Launches -> the tray's item is checked]
          job,      \* [Launches -> what the GUI thread is doing to the overlay]
          stage,    \* [Launches -> how far that is]
          target,   \* [Launches -> the process it is getting rid of, or NoPid]
          hurt,     \* foreign processes that were signalled
          reused,   \* history: pids given away while a controller counted on them
          died,     \* launches whose overlay ended by itself and was not replaced
          stray,    \* history: overlays whose program crashed before it wrote down
                    \* that they run
          spoiled,  \* history: a file was not written, or Waybar was not found
          commands, losses
overlayVars == <<process, child, collected, pidFile, stored, enabled, item, job, stage,
                 target, hurt, reused, died, stray, spoiled, commands, losses>>
\* What start(), stop() and apply() leave alone before anything is written.
recordVars == <<pidFile, reused, died, stray, losses>>

Living(l) == child[l] # NoPid /\ ~collected[l] /\ process[child[l]] = "ours"
Idle(l) == phase[l] = "running" /\ job[l] = "idle"
Held(p) == \E l \in Launches : Alive(l) /\ p \in {child[l], target[l]}
Orphan(p) == ~\E l \in Launches : Alive(l) /\ child[l] = p /\ ~collected[l]
(* Who collects p when it dies.                                                *)
Parent(l, p) == Alive(l) /\ \/ child[l] = p /\ ~collected[l]
                            \/ stage[l] = "end" /\ target[l] = p

OverlayTypeOK == /\ process \in [Pids -> {"free", "ours", "zombie", "foreign"}]
                 /\ child \in [Launches -> Pids \cup {NoPid}]
                 /\ collected \in [Launches -> BOOLEAN]
                 /\ pidFile \in Pids \cup {NoPid}
                 /\ stored \in BOOLEAN /\ enabled \in [Launches -> BOOLEAN]
                 /\ item \in [Launches -> BOOLEAN]
                 /\ job \in [Launches -> Jobs]
                 /\ stage \in [Launches -> Stages]
                 /\ target \in [Launches -> Pids \cup {NoPid}]
                 /\ stray \subseteq Pids
                 /\ hurt \subseteq Pids /\ reused \subseteq Pids
                 /\ died \subseteq Launches /\ spoiled \in BOOLEAN
                 /\ commands \in 0..MaxCommands /\ losses \in 0..MaxLost

OverlayInit == /\ process = [p \in Pids |-> "free"]
               /\ child = [l \in Launches |-> NoPid]
               /\ collected = [l \in Launches |-> FALSE]
               /\ pidFile = NoPid /\ stored = FALSE
               /\ enabled = [l \in Launches |-> FALSE]
               /\ item = [l \in Launches |-> FALSE]
               /\ job = [l \in Launches |-> "idle"]
               /\ stage = [l \in Launches |-> "none"]
               /\ target = [l \in Launches |-> NoPid]
               /\ hurt = {} /\ reused = {} /\ died = {} /\ stray = {} /\ spoiled = FALSE
               /\ commands = 0 /\ losses = 0

(* is_running() and every other poll() collect a child that died.              *)
Poll(l) == IF child[l] # NoPid /\ ~collected[l] /\ process[child[l]] = "zombie"
           THEN [process EXCEPT ![child[l]] = "free"] ELSE process
Polled(l) == [collected EXCEPT ![l] = child[l] # NoPid /\ ~Living(l)]

(* _signal_group() with SIGTERM: a foreign group that has the pid by now is hurt. *)
Signal(p, procs) == hurt' = IF p # NoPid /\ procs[p] = "foreign" THEN hurt \cup {p} ELSE hurt

(* (mutant) Any live process the pid file names is a leftover.                 *)
StalePidAny == IF pidFile # NoPid /\ process[pidFile] # "free" THEN pidFile ELSE NoPid

(* _clear_stale(): the pid file names a leftover only if that runs our config. *)
StalePid == IF pidFile # NoPid /\ process[pidFile] = "ours" THEN pidFile ELSE NoPid

GoesOn(l, what, to) == /\ job' = [job EXCEPT ![l] = what]
                       /\ stage' = [stage EXCEPT ![l] = to]

(* _clear_stale(), as far as the look at the leftover: that it is ours.        *)
LookForLeftover(l, what) ==
    /\ GoesOn(l, what, IF StalePid = NoPid THEN "clear" ELSE "look")
    /\ target' = [target EXCEPT ![l] = StalePid]

(* _launch(), is_running() was asked.                                          *)
BeginLaunch(l, what) ==
    /\ LookForLeftover(l, what)
    /\ process' = Poll(l) /\ collected' = Polled(l)
    /\ UNCHANGED <<child, item, hurt>>

(* A start that fails unchecks the item when the item asked for it.            *)
Unchecked(l, what) == item' = [item EXCEPT ![l] = @ /\ what = "launch"]

(* _which() finds no Waybar.                                                   *)
NotFound(l, what) ==
    /\ spoiled' = TRUE
    /\ process' = Poll(l) /\ collected' = Polled(l)
    /\ Unchecked(l, what)
    /\ UNCHANGED <<child, job, stage, target, hurt>>

(* start(): nothing to do for an overlay that runs.                            *)
StartOverlay(l, what) ==
    \/ Living(l) /\ item' = [item EXCEPT ![l] = @ \/ what = "check"]
                 /\ UNCHANGED <<process, collected, child, job, stage, target, hurt,
                               spoiled, failures>>
    \/ ~Living(l) /\ BeginLaunch(l, what) /\ UNCHANGED <<spoiled, failures>>
    \/ /\ ~Living(l) /\ failures < MaxFailures /\ failures' = failures + 1
       /\ NotFound(l, what)

(* _terminate(), as far as the wait: the group of the child is signalled even  *)
(* when the child is long gone; only one that lives is waited for.             *)
BeginTerminate(l, what) ==
    /\ GoesOn(l, what, "end")
    /\ target' = [target EXCEPT ![l] = IF Living(l) THEN child[l] ELSE NoPid]
    /\ Signal(child[l], process)
    /\ process' = Poll(l)
    /\ child' = [child EXCEPT ![l] = NoPid]
    /\ collected' = [collected EXCEPT ![l] = FALSE]
    /\ UNCHANGED item

(* What is left when the wait is over: SIGKILL for what is alive, then reap.   *)
(* Somebody else's child is left for its parent to collect.                    *)
AfterWait(l) ==
    IF target[l] # NoPid /\ process[target[l]] \in {"ours", "zombie"}
    THEN [process EXCEPT ![target[l]] =
              IF \E o \in Launches \ {l} : Parent(o, target[l]) THEN "zombie" ELSE "free"]
    ELSE process
KillLate(l) == hurt' = IF target[l] # NoPid /\ process[target[l]] = "foreign"
                       THEN hurt \cup {target[l]} ELSE hurt

(* _persist_enabled(): memory first; a save that fails is only logged.         *)
PersistEnabled(l, on) ==
    /\ enabled' = [enabled EXCEPT ![l] = on]
    /\ \/ /\ stored' = IF enabled[l] = on THEN stored ELSE on
          /\ UNCHANGED <<spoiled, failures>>
       \/ /\ enabled[l] # on /\ failures < MaxFailures
          /\ failures' = failures + 1 /\ spoiled' = TRUE
          /\ UNCHANGED stored

-----------------------------------------------------------------------------
(* The steps of a job.                                                         *)
launchOnly == <<phase, kind, serving, name, inbox, window, crowded,
                unserved, sends>>
Step(l, at) == /\ stage[l] = at
               /\ UNCHANGED launchOnly
               /\ UNCHANGED <<reused, commands, losses>>
Done(l) == GoesOn(l, "idle", "none")

(* stop() and shutdown(): the pid file goes, whatever it names. A restart goes *)
(* on.                                                                         *)
EndTerminate(l) ==
    /\ Step(l, "end")
    /\ process' = AfterWait(l) /\ KillLate(l)
    /\ target' = [target EXCEPT ![l] = NoPid]
    /\ pidFile' = NoPid
    /\ IF job[l] = "restart"
       THEN GoesOn(l, "restart", "again") /\ UNCHANGED <<item, died>>
       ELSE Done(l) /\ item' = [item EXCEPT ![l] = FALSE] /\ died' = died \ {l}
    /\ IF job[l] = "stop" THEN PersistEnabled(l, FALSE)
                          ELSE UNCHANGED <<enabled, stored, spoiled, failures>>
    /\ UNCHANGED <<child, collected, stray>>

(* SIGTERM for the leftover; what is gone by then is not waited for.           *)
SignalLeftover(l) ==
    /\ Step(l, "look")
    /\ Signal(target[l], process)
    /\ GoesOn(l, job[l], "clear")
    /\ target' = [target EXCEPT ![l] = IF process[@] = "free" THEN NoPid ELSE @]
    /\ UNCHANGED <<failures, process, child, collected, pidFile, stored, enabled, item, died,
                   stray, spoiled>>

EndClear(l) ==
    /\ Step(l, "clear")
    /\ process' = AfterWait(l) /\ KillLate(l)
    /\ target' = [target EXCEPT ![l] = NoPid]
    /\ pidFile' = NoPid
    /\ GoesOn(l, job[l], "spawn")
    /\ UNCHANGED <<failures, child, collected, stored, enabled, item, died, stray, spoiled>>

(* A launch that fails: a failed start() tells nobody but its caller, a failed *)
(* restart everybody.                                                          *)
LaunchFails(l) ==
    /\ failures < MaxFailures /\ failures' = failures + 1
    /\ Done(l)
    /\ Unchecked(l, job[l]) /\ died' = IF job[l] = "launch" THEN died ELSE died \ {l}
    /\ UNCHANGED <<process, child, collected, pidFile, stored, enabled, target, hurt, stray>>

(* _restart() calls _launch() in turn.                                         *)
Relaunch(l) ==
    /\ Step(l, "again")
    /\ \/ /\ LookForLeftover(l, "restart")
          /\ UNCHANGED <<failures, process, child, collected, pidFile, stored, enabled, item,
                         hurt, died, stray, spoiled>>
       \/ LaunchFails(l) /\ spoiled' = TRUE

(* popen(), when the files for it could be written. The child's pid may be one *)
(* that a stray had.                                                           *)
Spawn(l, p) ==
    /\ process[p] = "free"
    /\ process' = [process EXCEPT ![p] = "ours"]
    /\ child' = [child EXCEPT ![l] = p] /\ collected' = [collected EXCEPT ![l] = FALSE]
    /\ died' = died \ {l} /\ stray' = stray \ {p}
    /\ GoesOn(l, job[l], "record")
    /\ UNCHANGED <<failures, pidFile, stored, enabled, item, target, hurt, spoiled>>
StartWaybar(l) ==
    /\ Step(l, "spawn")
    /\ (\E p \in Pids : Spawn(l, p)) \/ (LaunchFails(l) /\ UNCHANGED spoiled)

(* _write_pid(): a failure is only logged. A restart is over then, and tells   *)
(* nobody.                                                                     *)
WritePid(l) ==
    /\ Step(l, "record")
    /\ \/ pidFile' = child[l] /\ UNCHANGED <<spoiled, failures>>
       \/ /\ failures < MaxFailures /\ failures' = failures + 1 /\ spoiled' = TRUE
          /\ pidFile' \in {pidFile, NoPid}
    /\ IF job[l] = "restart" THEN Done(l) ELSE GoesOn(l, job[l], "persist")
    /\ UNCHANGED <<process, child, collected, stored, enabled, item, target, hurt, died, stray>>

(* The rest of start(), which emits the change.                                *)
EndStart(l) ==
    /\ Step(l, "persist")
    /\ PersistEnabled(l, TRUE)
    /\ item' = [item EXCEPT ![l] = TRUE]
    /\ Done(l)
    /\ UNCHANGED <<process, child, collected, pidFile, target, hurt, died, stray>>

Work(l) == \/ EndTerminate(l) \/ Relaunch(l) \/ SignalLeftover(l) \/ EndClear(l)
           \/ StartWaybar(l) \/ WritePid(l) \/ EndStart(l)

-----------------------------------------------------------------------------
(* The launches of SingleInstance, with their overlays.                        *)
(* _build_window() reads the configuration; _start_sysmon() restores what was  *)
(* shown, and a --toggle-sysmon launch shows it in any case: it tries again    *)
(* what restore() could not start, with the same outcomes.                     *)
StartLaunch(l) ==
    /\ EnterLoop(l)
    /\ enabled' = [enabled EXCEPT ![l] = stored]
    /\ IF stored \/ kind[l] = "toggle"
       THEN StartOverlay(l, "launch")
       ELSE UNCHANGED <<process, child, collected, item, job, stage, target, hurt, spoiled,
                        failures>>
    /\ UNCHANGED recordVars /\ UNCHANGED <<stored, commands>>

(* SysmonController.toggle(): a message, or the page's button.                 *)
Toggle(l) == IF Living(l) THEN BeginTerminate(l, "stop") /\ UNCHANGED <<spoiled, failures>>
                          ELSE StartOverlay(l, "launch")

HandleMessage(l) ==
    /\ Idle(l)
    /\ IF inbox[l] # << >> /\ Head(inbox[l]) = "toggle"
       THEN /\ inbox' = [inbox EXCEPT ![l] = Tail(@)]
            /\ Toggle(l)
            /\ UNCHANGED <<phase, kind, serving, name, window, crowded,
                           unserved, sends>>
       ELSE /\ Handle(l)
            /\ UNCHANGED <<process, child, collected, item, job, stage, target, hurt, spoiled>>
    /\ UNCHANGED recordVars /\ UNCHANGED <<stored, enabled, commands>>

Commanded(l) == Idle(l) /\ commands + sends < MaxCommands /\ commands' = commands + 1

ClickButton(l) ==
    /\ Commanded(l) /\ Toggle(l)
    /\ UNCHANGED launchOnly
    /\ UNCHANGED recordVars /\ UNCHANGED <<stored, enabled>>

(* on_toggled(): the item's own state says which.                              *)
ClickItem(l) ==
    /\ Commanded(l) /\ HasTray
    /\ IF item[l] THEN BeginTerminate(l, "stop") /\ UNCHANGED <<spoiled, failures>>
                  ELSE StartOverlay(l, "check")
    /\ UNCHANGED launchOnly
    /\ UNCHANGED recordVars /\ UNCHANGED <<stored, enabled>>

(* apply(): the file gets the new settings with "enabled" as it is in memory,  *)
(* unless the save fails; a running overlay is started again.                  *)
ApplySettings(l) ==
    /\ Commanded(l)
    /\ \/ stored' = enabled[l] /\ UNCHANGED failures
       \/ failures < MaxFailures /\ failures' = failures + 1 /\ UNCHANGED stored
    /\ IF Living(l) THEN BeginTerminate(l, "restart")
       ELSE /\ process' = Poll(l) /\ collected' = Polled(l)
            /\ UNCHANGED <<child, item, job, stage, target, hurt>>
    /\ UNCHANGED launchOnly
    /\ UNCHANGED recordVars /\ UNCHANGED <<enabled, spoiled>>

(* aboutToQuit: shutdown() stops the overlay and leaves "enabled" alone.       *)
QuitLaunch(l) ==
    /\ Idle(l) /\ Quit(l)
    /\ BeginTerminate(l, "quit")
    /\ UNCHANGED recordVars /\ UNCHANGED <<stored, enabled, spoiled, commands>>

CloseLaunch(l) ==
    /\ job[l] = "idle" /\ Close(l)
    /\ enabled' = [enabled EXCEPT ![l] = FALSE] /\ died' = died \ {l}
    /\ UNCHANGED <<process, child, collected, pidFile, stored, item, job, stage, target, hurt,
                   reused, stray, spoiled, commands, losses>>

(* A crash: the overlay lives on, dead children are collected by the system.   *)
(* An overlay whose pid is not written yet is ended by nobody, and one that    *)
(* is not stored as enabled not by the next launch, which removes the pid file *)
(* when it quits.                                                              *)
CrashLaunch(l) ==
    /\ Die(l)
    /\ process' = [p \in Pids |-> IF process[p] = "zombie" /\ p \in {child[l], target[l]}
                                  THEN "free" ELSE process[p]]
    /\ stray' = stray \cup {p \in Pids :
                   p = child[l] /\ (stage[l] = "record" \/ (stage[l] = "persist" /\ ~stored))}
    /\ child' = [child EXCEPT ![l] = NoPid] /\ collected' = [collected EXCEPT ![l] = FALSE]
    /\ Done(l) /\ target' = [target EXCEPT ![l] = NoPid]
    /\ item' = [item EXCEPT ![l] = FALSE] /\ died' = died \ {l}
    /\ enabled' = [enabled EXCEPT ![l] = FALSE]
    /\ UNCHANGED <<pidFile, stored, hurt, reused, spoiled, commands, losses>>

(* External: an overlay obeys SIGTERM, or ends by itself.                      *)
OverlayEnds(p) ==
    /\ process[p] = "ours"
    /\ \/ losses < MaxLost /\ losses' = losses + 1
       \/ (\E l \in Launches : target[l] = p /\ stage[l] # "look") /\ UNCHANGED losses
    /\ process' = [process EXCEPT ![p] = IF \E l \in Launches : Parent(l, p)
                                         THEN "zombie" ELSE "free"]
    /\ died' = died \cup {l \in Launches : child[l] = p}
    /\ UNCHANGED launchOnly
    /\ UNCHANGED <<failures, child, collected, pidFile, stored, enabled, item, job, stage,
                   target, hurt, reused, stray, spoiled, commands>>

(* External: the system gives a free pid to another process.                   *)
PidReused(p) ==
    /\ process[p] = "free" /\ losses < MaxLost /\ losses' = losses + 1
    /\ process' = [process EXCEPT ![p] = "foreign"]
    /\ reused' = IF Held(p) THEN reused \cup {p} ELSE reused
    /\ UNCHANGED launchOnly
    /\ UNCHANGED <<failures, child, collected, pidFile, stored, enabled, item, job, stage,
                   target, hurt, died, stray, spoiled, commands>>

-----------------------------------------------------------------------------
SessionInit == LaunchInit /\ OverlayInit

LaunchStep(l) == /\ \/ \E k \in Kinds : Launch(l, k)
                    \/ LookForOwner(l) \/ TakeName(l) \/ ListenFails(l) \/ ListenAgain(l)
                    \/ Idle(l) /\ (ToggleVisible(l) \/ HideWindow(l))
                 /\ UNCHANGED overlayVars

SessionNext ==
    \/ \E l \in Launches :
          \/ LaunchStep(l) \/ StartLaunch(l) \/ HandleMessage(l)
          \/ ClickButton(l) \/ ClickItem(l) \/ ApplySettings(l) \/ Work(l)
          \/ QuitLaunch(l) \/ CloseLaunch(l) \/ CrashLaunch(l)
    \/ Send /\ commands < MaxCommands /\ UNCHANGED overlayVars
    \/ \E p \in Pids : OverlayEnds(p) \/ PidReused(p)

sessionVars == <<launchVars, overlayVars>>

SessionSpec == SessionInit /\ [][SessionNext]_sessionVars

-----------------------------------------------------------------------------
Mine == {p \in Pids : process[p] = "ours"}
Tracked == Mine \ stray
Alone == ~crowded /\ ~unserved

(* At most one overlay is on the screen, whatever crashed and however often    *)
(* the program was started again (_clear_stale), unless two programs ran, the  *)
(* configuration could not be saved or Waybar was not found for a while. Not   *)
(* counted is an overlay whose program crashed between popen() and the records *)
(* that it runs.                                                               *)
OneOverlay == Alone /\ ~spoiled => Cardinality(Tracked) <= 1

(* A process that is no overlay of ours is signalled only when it got a pid    *)
(* that a controller counted on just then: its child's, or one it had looked   *)
(* up and found to be a Waybar of ours.                                        *)
OnlyReusedPidsHurt == hurt \subseteq reused

(* The tray's item says whether the overlay is there, but for one that ended   *)
(* by itself, and what is there is stored as enabled.                          *)
ItemIsTrue ==
    Alone => \A l \in Launches : Idle(l) =>
                 /\ Living(l) => item[l] /\ (spoiled \/ stored)
                 /\ item[l] => Living(l) \/ l \in died

(* An overlay of ours that no program holds is named by the pid file, so the   *)
(* next start ends it; with the exception above.                               *)
LeftoverIsNamed ==
    Alone /\ ~spoiled => \A p \in Tracked :
        Orphan(p) /\ (\A l \in Launches : target[l] # p) => pidFile = p

(* One overlay at most, a leftover is named by the pid file and nothing else   *)
(* is signalled, and the tray item is right; with the types of the variables.  *)
OverlayIsSound == /\ OverlayTypeOK
                  /\ OneOverlay /\ LeftoverIsNamed
                  /\ OnlyReusedPidsHurt /\ ItemIsTrue
=============================================================================
