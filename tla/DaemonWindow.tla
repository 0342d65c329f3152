--------------------------- MODULE DaemonWindow ---------------------------
(* The OpenRazer daemon as the GUI sees it (backend/daemon.py), the actions of *)
(* the window and of the Daemon dialog that run in background tasks            *)
(* (ui/main_window.py, ui/daemon_panel.py, ui/daemon_status_bar.py), and the   *)
(* pages that show the devices (device_cards.py, device_page.py, and the       *)
(* System monitor and Effects pages one can go to and come back from).         *)
(*                                                                             *)
(* A DeviceManager has the list of devices of the moment it was made; each one *)
(* is another set of device objects. An action drops the manager and makes a   *)
(* new one on a worker thread, while the GUI thread reads the service whenever *)
(* a page is reloaded.                                                         *)
EXTENDS Naturals, FiniteSets

CONSTANTS Serials,    \* devices
          Retries,    \* CONNECT_RETRIES
          MaxActions, \* service actions asked for
          MaxChanges, \* daemon deaths, devices plugged in or taken away, failing commands
          MaxVisits   \* navigation steps
WindowAssumption == /\ Retries \in Nat \ {0}
                    /\ MaxActions \in Nat /\ MaxChanges \in Nat /\ MaxVisits \in Nat

None == "none"
Users == {"window", "panel"}    \* who runs a service action
WindowActions == {"repoll", "restart", "startAndConnect"}
PanelActions == {"repoll", "restart", "stop", "start", "set"}
StayOn == {"macros", "sysmon", "effects"}
Pages == {"home", "device", "empty"} \cup StayOn
NoManager == [id |-> 0, devs |-> {}]

VARIABLES daemon,   \* "up", "starting" or "down"
          plugged,  \* the devices there are
          manager,  \* the service's DeviceManager: which one, with what devices
          made,     \* managers made so far
          job,      \* [Users -> the action its task performs, None, or "ended"]
          tries,    \* [Users -> connections left to try]
          busy, panelBusy,          \* MainWindow._busy, _panel_busy
          panelRuns, externalBusy,  \* DaemonPanel._busy, _external_busy
          offered,  \* [Users -> the buttons that start an action are enabled]
          bar,      \* what the status bar says
          entries,  \* the devices the pages list, and of which manager
          page, before, \* the page on top; [sysmon, effects -> page to go back to]
          last, current, checked, \* _last_serial, _current_serial, the checked card
          shown,    \* the device object of the device page: [id, serial], or NoDevice
          actions, changes, visits
serviceVars == <<daemon, plugged, manager, made>>
jobVars == <<job, tries>>
busyVars == <<busy, panelBusy, panelRuns, externalBusy, offered>>
pageVars == <<bar, entries, page, last, current, checked, shown>>
vars == <<serviceVars, jobVars, busyVars, pageVars, before, actions, changes, visits>>

NoDevice == [id |-> 0, serial |-> None]
Connected == manager # NoManager

TypeOK == /\ daemon \in {"up", "starting", "down"} /\ plugged \subseteq Serials
          /\ manager \in [id : 0..made, devs : SUBSET Serials]
          /\ job \in [Users -> WindowActions \cup PanelActions \cup {"connect", "attempt", "ended", None}]
          /\ tries \in [Users -> 0..Retries]
          /\ {busy, panelBusy, panelRuns, externalBusy} \subseteq BOOLEAN
          /\ offered \in [Users -> BOOLEAN]
          /\ bar \in {"connected", "running", "stopped"}
          /\ entries \in [id : 0..made, devs : SUBSET Serials]
          /\ page \in Pages
          /\ before \in [{"sysmon", "effects"} -> Pages \cup {None}]
          /\ {last, current, checked} \subseteq Serials \cup {None}
          /\ shown \in [id : 0..made, serial : Serials \cup {None}]

-----------------------------------------------------------------------------
(* status() and describe_status(): without a manager the pid file decides.     *)
Status == IF Connected THEN "connected" ELSE IF daemon = "down" THEN "stopped" ELSE "running"

(* DeviceGrid.set_devices(): the checked card stays if its device does.        *)
StillChecked(devs) == IF checked \in devs THEN checked ELSE None

ShowEmpty == /\ page' = "empty" /\ current' = None /\ shown' = NoDevice
             /\ checked' = None
             /\ UNCHANGED last

OpenDevice(list, serial) ==
    /\ last' = serial /\ current' = serial /\ checked' = serial
    /\ shown' = [id |-> list.id, serial |-> serial]
    /\ page' = "device"

ShowHome(list) ==
    LET present == IF last \in list.devs THEN last ELSE None IN
    /\ current' = present
    /\ checked' = IF present # None THEN present ELSE StillChecked(list.devs)
    /\ shown' = NoDevice
    /\ page' = "home"
    /\ UNCHANGED last

(* _reload(), with the page that is on top by then.                            *)
ReloadOn(top) ==
    /\ entries' = manager
    /\ bar' = Status
    /\ IF top \in StayOn
       THEN /\ checked' = StillChecked(manager.devs)
            /\ page' = top
            /\ UNCHANGED <<last, current, shown>>
       ELSE IF manager.devs = {} THEN ShowEmpty
       ELSE IF top = "device" /\ last \in manager.devs THEN OpenDevice(manager, last)
       ELSE ShowHome(manager)

(* The buttons of the window and of the panel, when they are next refreshed.   *)
Offered(b, pb, pr, eb) == [u \in Users |-> IF u = "window" THEN ~(b \/ pb) ELSE ~pr /\ ~eb]

(* (mutant) The window keeps it to itself that it is busy.                     *)
SetBusyAlone(b) == /\ busy' = b
                   /\ offered' = Offered(b, panelBusy, panelRuns, externalBusy)
                   /\ UNCHANGED <<panelBusy, panelRuns, externalBusy>>

(* _set_busy() of the window tells the panel...                                *)
SetBusy(b) == /\ busy' = b /\ externalBusy' = b
              /\ offered' = Offered(b, panelBusy, panelRuns, b)
              /\ UNCHANGED <<panelBusy, panelRuns>>

(* ... and that of the panel tells the window (_on_panel_busy).                *)
SetPanelBusy(b) == /\ panelRuns' = b /\ panelBusy' = b
                   /\ offered' = Offered(busy, b, b, externalBusy)
                   /\ UNCHANGED <<busy, externalBusy>>

-----------------------------------------------------------------------------
(* What a task does. connect() needs a daemon that is up.                      *)
Connects == /\ daemon = "up"
            /\ made' = made + 1
            /\ manager' = [id |-> made + 1, devs |-> plugged]
ConnectFails == daemon # "up" /\ manager' = NoManager /\ UNCHANGED made

Ends(u) == job' = [job EXCEPT ![u] = "ended"] /\ tries' = [tries EXCEPT ![u] = 0]
GoesOn(u, what, n) == job' = [job EXCEPT ![u] = what] /\ tries' = [tries EXCEPT ![u] = n]

CommandFails == changes < MaxChanges /\ changes' = changes + 1

(* connect() and repoll(): the manager is dropped before a new one is made.    *)
DropManager(u) ==
    /\ job[u] \in {"connect", "repoll", "restart"}
    /\ manager' = NoManager
    /\ \/ job[u] # "restart" /\ GoesOn(u, "attempt", 1) /\ UNCHANGED <<daemon, changes>>
       \/ job[u] = "restart" /\ daemon' = "starting" /\ GoesOn(u, "attempt", Retries)
          /\ UNCHANGED changes
       \/ job[u] = "restart" /\ CommandFails /\ Ends(u) /\ UNCHANGED daemon
    /\ UNCHANGED <<plugged, made>>

(* One connection; _connect_with_retries() waits and tries again.              *)
Attempt(u) ==
    /\ job[u] = "attempt"
    /\ \/ Connects /\ Ends(u)
       \/ ConnectFails /\ tries[u] > 1 /\ GoesOn(u, "attempt", tries[u] - 1)
       \/ ConnectFails /\ tries[u] = 1 /\ Ends(u)
    /\ UNCHANGED <<daemon, plugged, changes>>

(* start(): the daemon is launched; it is up a while later.                    *)
StartDaemon(u) ==
    /\ job[u] \in {"start", "startAndConnect"}
    /\ \/ /\ daemon' = IF daemon = "down" THEN "starting" ELSE daemon
          /\ IF job[u] = "start" THEN Ends(u) ELSE GoesOn(u, "attempt", Retries)
          /\ UNCHANGED changes
       \/ CommandFails /\ Ends(u) /\ UNCHANGED daemon
    /\ UNCHANGED <<plugged, manager, made>>

(* stop(): the manager goes even if the daemon could not be told.              *)
StopDaemon(u) ==
    /\ job[u] = "stop"
    /\ manager' = NoManager
    /\ \/ Connected /\ daemon' = "down" /\ UNCHANGED changes
       \/ ~Connected /\ UNCHANGED <<daemon, changes>>
       \/ Connected /\ CommandFails /\ UNCHANGED daemon
    /\ Ends(u)
    /\ UNCHANGED <<plugged, made>>

(* set_sync_effects() and set_screensaver_off() change no state of ours.       *)
SetAttribute(u) == /\ job[u] = "set" /\ Ends(u)
                   /\ UNCHANGED <<serviceVars, changes>>

Work(u) == /\ DropManager(u) \/ Attempt(u) \/ StartDaemon(u) \/ StopDaemon(u) \/ SetAttribute(u)
           /\ UNCHANGED <<busyVars, pageVars, before, actions, visits>>

-----------------------------------------------------------------------------
Submit(u, what) == /\ actions < MaxActions /\ actions' = actions + 1
                   /\ job' = [job EXCEPT ![u] = what]
                   /\ UNCHANGED <<serviceVars, tries, pageVars, before, changes, visits>>

(* run_service_action(): refused while any action runs; shortcuts and the      *)
(* empty page can still ask.                                                   *)
WindowAction(what) ==
    /\ ~busy /\ ~panelBusy
    /\ SetBusy(TRUE)
    /\ Submit("window", what)

(* _run_action(): the panel's own flags decide; a button that is not enabled   *)
(* cannot be pressed, but a stop waits for an answer before it gets here.      *)
PanelAction(what) ==
    /\ ~panelRuns /\ ~externalBusy
    /\ what = "stop" \/ offered["panel"]
    /\ SetPanelBusy(TRUE)
    /\ Submit("panel", what)

(* _on_action_done() and _on_action_failed(): buttons, then reload.            *)
WindowDone ==
    /\ job["window"] = "ended"
    /\ job' = [job EXCEPT !["window"] = None]
    /\ SetBusy(FALSE)
    /\ ReloadOn(page)
    /\ UNCHANGED <<serviceVars, tries, before, actions, changes, visits>>

(* _finish(): daemon_changed reloads the window.                               *)
PanelDone ==
    /\ job["panel"] = "ended"
    /\ job' = [job EXCEPT !["panel"] = None]
    /\ SetPanelBusy(FALSE)
    /\ ReloadOn(page)
    /\ UNCHANGED <<serviceVars, tries, before, actions, changes, visits>>

-----------------------------------------------------------------------------
Visit == visits < MaxVisits /\ visits' = visits + 1
Stays == UNCHANGED <<serviceVars, jobVars, busyVars, actions, changes>>

(* A card of the home page opens its device; the device page goes back home.   *)
ActivateCard(s) ==
    /\ page = "home" /\ s \in entries.devs /\ Visit
    /\ OpenDevice(entries, s)
    /\ UNCHANGED <<bar, entries, before>> /\ Stays

GoHome == /\ page = "device" /\ Visit
          /\ ShowHome(entries)
          /\ UNCHANGED <<bar, entries, before>> /\ Stays

(* The Macros page goes back to the home page, whatever was shown before it.   *)
ShowMacros == /\ page # "macros" /\ Visit
              /\ page' = "macros"
              /\ UNCHANGED <<bar, entries, last, current, checked, shown, before>> /\ Stays
LeaveMacros == /\ page = "macros" /\ Visit
               /\ ReloadOn("home")
               /\ UNCHANGED before /\ Stays

(* SysmonNav and EffectsNav remember the page to return to.                    *)
ShowPage(p) == /\ p \in {"sysmon", "effects"} /\ page # p /\ Visit
               /\ before' = [before EXCEPT ![p] = page]
               /\ page' = p
               /\ UNCHANGED <<bar, entries, last, current, checked, shown>> /\ Stays

PageBack(p) == IF before[p] # None THEN before[p] ELSE "home"
LeavePage(p) == /\ page = p /\ p \in {"sysmon", "effects"} /\ Visit
                /\ before' = [before EXCEPT ![p] = None]
                /\ ReloadOn(PageBack(p))
                /\ Stays

-----------------------------------------------------------------------------
(* External: the daemon comes up or dies, devices come and go.                 *)
DaemonUp == /\ daemon = "starting" /\ daemon' = "up"
            /\ UNCHANGED <<plugged, manager, made, jobVars, busyVars, pageVars, before,
                           actions, changes, visits>>
DaemonDies == /\ daemon # "down" /\ CommandFails /\ daemon' = "down"
              /\ UNCHANGED <<plugged, manager, made, jobVars, busyVars, pageVars, before,
                             actions, visits>>
Plug(s) == /\ CommandFails
           /\ plugged' = IF s \in plugged THEN plugged \ {s} ELSE plugged \cup {s}
           /\ UNCHANGED <<daemon, manager, made, jobVars, busyVars, pageVars, before,
                          actions, visits>>

(* The window reloads once before anything is connected; main() then connects. *)
Init == /\ daemon \in {"up", "down"} /\ plugged = Serials
        /\ manager = NoManager /\ made = 0
        /\ job = [u \in Users |-> IF u = "window" THEN "connect" ELSE None]
        /\ tries = [u \in Users |-> 0]
        /\ busy = TRUE /\ externalBusy = TRUE /\ panelBusy = FALSE /\ panelRuns = FALSE
        /\ offered = [u \in Users |-> FALSE]
        /\ bar = IF daemon = "up" THEN "running" ELSE "stopped"
        /\ entries = NoManager
        /\ page = "empty" /\ before = [p \in {"sysmon", "effects"} |-> None]
        /\ last = None /\ current = None /\ checked = None /\ shown = NoDevice
        /\ actions = 0 /\ changes = 0 /\ visits = 0

Next == \/ \E u \in Users : Work(u)
        \/ \E what \in WindowActions : WindowAction(what)
        \/ \E what \in PanelActions : PanelAction(what)
        \/ WindowDone \/ PanelDone
        \/ \E s \in Serials : ActivateCard(s) \/ Plug(s)
        \/ GoHome \/ ShowMacros \/ LeaveMacros
        \/ \E p \in Pages : ShowPage(p) \/ LeavePage(p)
        \/ DaemonUp \/ DaemonDies

Spec == Init /\ [][Next]_vars

-----------------------------------------------------------------------------
Quiet == \A u \in Users : job[u] = None

(* "Only one service action is in flight at a time" (daemon_panel.py:39), and  *)
(* the buttons of both places are enabled exactly while none is.               *)
OneServiceAction ==
    /\ ~(job["window"] # None /\ job["panel"] # None)
    /\ \A u \in Users : offered[u] = Quiet

(* While no action runs, the pages list the devices of the manager the service *)
(* holds, and the device page never shows an object of a manager that was      *)
(* dropped, however reloads fell into the middle of an action.                 *)
PagesShowTheManager ==
    Quiet => /\ entries = manager
             /\ page = "device" => shown.id = manager.id
             /\ page \in {"home", "device"} <=> page \notin StayOn /\ manager.devs # {}

(* The device page shows the selected device, which is listed and checked.     *)
SelectionIsShown ==
    /\ page = "device" => /\ shown.serial = current /\ current = last /\ checked = current
                          /\ shown.serial \in entries.devs /\ shown.id = entries.id
    /\ page = "home" => shown = NoDevice /\ current \in entries.devs \cup {None}
    /\ page = "empty" => shown = NoDevice /\ entries.devs = {}
=============================================================================
