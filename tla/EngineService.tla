----------------------------- MODULE EngineService -----------------------------
(***************************************************************************)
(* How the GUI runs the engine (backend/macro_engine.py): it spawns the    *)
(* child on the GUI thread, waits for it on a pool thread, notices its end *)
(* from a timer and from requests that fail on another pool thread, adopts *)
(* an engine that already runs and stops its own when it quits.  The two   *)
(* pool threads and the GUI thread share _process and state without a lock *)
(* (only spawn takes one).  The child's side is macro_engine/main.py.      *)
(***************************************************************************)
EXTENDS Naturals

CONSTANT MaxChildren   \* processes the GUI may spawn (bound)

ChildrenAssumption == MaxChildren \in Nat

Children == 1 .. MaxChildren

VARIABLES
  child,      \* what each spawned process is doing, or how it exited
  other,      \* another GUI's engine serves
  process,    \* _process: the tracked child, 0 for None
  state,      \* MacroEngineService.state
  adopted,
  stopping,   \* _stop_requested
  starting,   \* MacrosPage._starting: a start is not answered yet
  waiter,     \* the pool thread in _wait_ready and the process it looks at
  caller,     \* the pool thread whose request failed, in poll()
  gui,        \* the GUI process lives
  overtaken   \* history: a poll of an ended child came after the next spawn

serviceVars == <<child, other, process, state, adopted, stopping, starting, waiter,
          caller, gui, overtaken>>

States == {"stopped", "starting", "running", "crashed", "evdev_missing", "unavailable"}
Exits == {"ok", "error", "already_running", "no_evdev"}   \* exit codes 0, 1, 3, 4
Idle == [at |-> "idle", process |-> 0]

Alive(c) == child[c] \in {"booting", "serving"}
Exited(c) == c # 0 /\ child[c] \in Exits
OwnAlive == process # 0 /\ Alive(process)
\* What ping finds on the socket.
Answers == other \/ \E c \in Children : child[c] = "serving"
Unborn == {c \in Children : child[c] = "none"}

-----------------------------------------------------------------------------
(* The processes *)

\* main() of a child: without evdev it ends, beside a running engine too
\* (AlreadyRunning); otherwise it serves.
Boots(c) ==
  /\ child[c] = "booting"
  /\ \/ child' = [child EXCEPT ![c] = IF Answers THEN "already_running" ELSE "serving"]
     \/ child' = [child EXCEPT ![c] = "no_evdev"]
  /\ UNCHANGED <<other, process, state, adopted, stopping, starting, waiter, caller, gui, overtaken>>

\* run_server() ends with an error, or somebody stops the engine.
Ends(c) ==
  /\ child[c] = "serving"
  /\ child' = [child EXCEPT ![c] = "error"]
  /\ UNCHANGED <<other, process, state, adopted, stopping, starting, waiter, caller, gui, overtaken>>

\* ParentWatcher and the parent death signal: no child outlives the GUI.
ParentGone(c) ==
  /\ ~gui
  /\ Alive(c)
  /\ child' = [child EXCEPT ![c] = "ok"]
  /\ UNCHANGED <<other, process, state, adopted, stopping, starting, waiter, caller, gui, overtaken>>

\* The engine of another GUI comes or goes.
OtherEngine ==
  /\ ~Answers \/ other
  /\ other' = ~other
  /\ UNCHANGED <<child, process, state, adopted, stopping, starting, waiter, caller, gui, overtaken>>

-----------------------------------------------------------------------------
(* The GUI thread *)

\* spawn: nothing while ours is alive, otherwise the next child.
Spawn ==
  IF OwnAlive
  THEN UNCHANGED <<child, process, stopping, adopted, state, overtaken>>
  ELSE /\ \E c \in Unborn :   \* none is left: bound
            /\ \A d \in Unborn : c <= d
            /\ child' = [child EXCEPT ![c] = "booting"]
            /\ process' = c
       /\ stopping' = FALSE
       /\ adopted' = FALSE
       /\ state' = "starting"
       /\ overtaken' = (overtaken \/ caller.at # "idle")

\* start_engine of the Macros page: offered unless the engine runs, starts or
\* cannot run, and the readiness wait is a job.
StartEngine ==
  /\ gui
  /\ ~starting
  /\ state \notin {"running", "starting", "evdev_missing"}
  /\ Spawn
  /\ starting' = TRUE
  /\ waiter' = [at |-> "waiting", process |-> 0]
  /\ UNCHANGED <<other, caller, gui>>

\* start_engine when Popen fails (_on_start_failed).
SpawnFails ==
  /\ gui
  /\ ~starting
  /\ state \notin {"running", "starting", "evdev_missing"}
  /\ ~OwnAlive
  /\ state' = "crashed"
  /\ stopping' = FALSE
  /\ adopted' = FALSE
  /\ UNCHANGED <<child, other, process, starting, waiter, caller, gui, overtaken>>

\* _poll_engine, a timer: skipped while a start is not answered.
PollEngine ==
  /\ gui
  /\ ~starting
  /\ state = "running"
  /\ Exited(process)
  /\ process' = 0
  /\ state' = "crashed"
  /\ UNCHANGED <<child, other, adopted, stopping, starting, waiter, caller, gui, overtaken>>

\* stop, when the GUI quits: our child is terminated, killed if it has to be.
Quit ==
  /\ gui
  /\ gui' = FALSE
  /\ stopping' = TRUE
  /\ process' = 0
  /\ child' = IF OwnAlive THEN [child EXCEPT ![process] = "ok"] ELSE child
  /\ adopted' = FALSE
  /\ state' = "stopped"
  /\ UNCHANGED <<other, starting, waiter, caller, overtaken>>

-----------------------------------------------------------------------------
(* The pool thread that waits for the engine *)

\* The wait ends and its answer reaches the page.
WaitEnds(s) ==
  /\ waiter' = Idle
  /\ starting' = FALSE
  /\ state' = s

\* One round of _wait_ready up to the answer of ping (wait_ready returns at
\* once when the state says running or no child is tracked).
WaitReady ==
  /\ waiter.at = "waiting"
  /\ IF state = "running" \/ process = 0 \/ stopping THEN WaitEnds(state)
     ELSE /\ \/ Exited(process) /\ waiter' = [at |-> "exited", process |-> process]
             \/ ~Exited(process) /\ Answers /\ waiter' = [at |-> "answered", process |-> process]
          /\ UNCHANGED <<starting, state>>
  /\ UNCHANGED <<child, other, process, adopted, stopping, caller, gui, overtaken>>

\* It did not answer within READY_ATTEMPTS rounds.
GiveUp ==
  /\ waiter.at = "waiting"
  /\ process # 0 /\ ~Exited(process)
  /\ WaitEnds("unavailable")
  /\ UNCHANGED <<child, other, process, adopted, stopping, caller, gui, overtaken>>

\* _set_running after a ping that was answered.
SetRunning ==
  /\ waiter.at = "answered"
  /\ WaitEnds("running")
  /\ UNCHANGED <<child, other, process, adopted, stopping, caller, gui, overtaken>>

\* _on_exit: the engine that was already running is adopted if it answers.
OnExit ==
  /\ waiter.at = "exited"
  /\ process' = 0
  /\ LET code == child[waiter.process]
     IN IF code = "already_running" /\ Answers
        THEN adopted' = TRUE /\ WaitEnds("running")
        ELSE /\ UNCHANGED adopted
             /\ WaitEnds(IF code = "no_evdev" THEN "evdev_missing" ELSE "crashed")
  /\ UNCHANGED <<child, other, stopping, caller, gui, overtaken>>

-----------------------------------------------------------------------------
(* The pool threads of the requests *)

\* (mutant) Every failure is a crash of the child.
RequestFailsAsCrash ==
  /\ caller.at = "idle"
  /\ gui
  /\ process' = 0
  /\ state' = IF state = "running" THEN "crashed" ELSE state
  /\ UNCHANGED <<child, other, adopted, stopping, starting, waiter, caller, gui, overtaken>>

\* request raised EngineUnavailable: poll() looks at the tracked child.
RequestFails ==
  /\ caller.at = "idle"
  /\ gui
  /\ IF process # 0 /\ state = "running"
     THEN caller' = [at |-> "polling", process |-> process] /\ UNCHANGED state
     ELSE state' = (IF state = "running" THEN "unavailable" ELSE state) /\ UNCHANGED caller
  /\ UNCHANGED <<child, other, process, adopted, stopping, starting, waiter, gui, overtaken>>

\* The rest of poll(), and of request().
NoteFailure ==
  /\ caller.at = "polling"
  /\ caller' = Idle
  /\ IF Exited(caller.process)
     THEN process' = 0 /\ state' = "crashed"
     ELSE /\ UNCHANGED process
          /\ state' = IF state = "running" THEN "unavailable" ELSE state
  /\ UNCHANGED <<child, other, adopted, stopping, starting, waiter, gui, overtaken>>

-----------------------------------------------------------------------------
ServiceInit ==
  /\ child = [c \in Children |-> "none"]
  /\ other \in BOOLEAN
  /\ process = 0
  /\ state = "stopped"
  /\ adopted = FALSE
  /\ stopping = FALSE
  /\ starting = FALSE
  /\ waiter = Idle
  /\ caller = Idle
  /\ gui = TRUE
  /\ overtaken = FALSE

ServiceNext ==
  \/ \E c \in Children : Boots(c) \/ Ends(c) \/ ParentGone(c)
  \/ OtherEngine
  \/ StartEngine \/ SpawnFails \/ PollEngine \/ Quit
  \/ WaitReady \/ GiveUp \/ SetRunning \/ OnExit
  \/ RequestFails \/ NoteFailure

ServiceSpec == ServiceInit /\ [][ServiceNext]_serviceVars

-----------------------------------------------------------------------------
(* Properties *)

ServiceTypeOK ==
  /\ child \in [Children -> {"none", "booting", "serving"} \cup Exits]
  /\ {other, adopted, stopping, starting, gui, overtaken} \subseteq BOOLEAN
  /\ process \in Children \cup {0}
  /\ state \in States
  /\ waiter \in [at : {"idle", "waiting", "exited", "answered"}, process : Children \cup {0}]
  /\ caller \in [at : {"idle", "polling"}, process : Children \cup {0}]

\* The GUI loses track of no engine of its own: a child that lives is the one
\* stop() would terminate, and once the GUI has quit none is left to the
\* parent watcher.  Only a failed request whose poll() is overtaken by the
\* next spawn makes it forget one (_process has no lock but in spawn).
LiveChildIsTracked ==
  ~overtaken => \A c \in Children : Alive(c) => process = c
=============================================================================
