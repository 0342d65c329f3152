------------------------------ MODULE MacroPlayer ------------------------------
(***************************************************************************)
(* Playing macros on one grabbed device: the engine's loop thread, which   *)
(* handles trigger presses and stops the remapper, and the worker threads  *)
(* it starts (macro_engine/player.py, remapper.py).  The threads share     *)
(* playing, current and cancel; every access to them is a step of its own. *)
(***************************************************************************)
EXTENDS Naturals, Sequences, FiniteSets

CONSTANTS
  Triggers,    \* key codes that trigger a macro
  Codes,       \* key codes the macros press
  Macro,       \* trigger -> [mode, count, steps]
  Threads,     \* identities of worker threads
  NoTrigger,   \* None
  NoThread     \* None

Modes == {"once", "times", "toggle"}
\* A wheel notch is written to the output but presses no key; a delay and an
\* app action write nothing there.
Step == [kind : {"press", "release", "tap"}, code : Codes]
          \cup [kind : {"wheel", "delay", "app"}]
KeyDowns == {"press", "tap"}
Unwritten == {"delay", "app"}

ASSUME MacroAssumption ==
  /\ Macro \in [Triggers -> [mode : Modes, count : Nat \ {0}, steps : Seq(Step)]]
  /\ NoTrigger \notin Triggers
  /\ NoThread \notin Threads

VARIABLES
  loop,      \* where the loop thread is in _on_trigger, play() and stop()
  key,       \* the trigger it handles
  playing, current, cancel, thread,   \* the attributes of Player
  worker,    \* thread -> where it is in run(), "none" before and after
  run,       \* thread -> the arguments and locals of its run()
  down,      \* keys down on the output
  outOpen    \* the output is not closed

loopVars == <<loop, key>>
playerVars == <<playing, current, cancel, thread>>
workerVars == <<worker, run>>
vars == <<loopVars, playerVars, workerVars, down, outOpen>>

\* What play() hands to run(): the macro's steps, its iterations() with 0 for
\* an endless loop, and the locals at their first values.
Run(k) ==
  [key |-> k, at |-> 1, pressed |-> {}, endless |-> Macro[k].mode = "toggle",
   left |-> IF Macro[k].mode = "times" THEN Macro[k].count ELSE 1]

Live == {t \in Threads : worker[t] # "none"}
GoTo(t, place) == worker' = [worker EXCEPT ![t] = place]

-----------------------------------------------------------------------------
(* The loop thread: a trigger press (_on_trigger) *)

\* (mutant) The macro is not compared: any press stops a stoppable one.
StoppableIgnoresKey(k) == Macro[k].mode \in {"toggle", "times"}

\* A re-press of the same trigger stops a toggle or N-times macro.
Stoppable(k) == current = k /\ Macro[k].mode \in {"toggle", "times"}

PressTrigger(k) ==
  /\ loop = "idle"
  /\ key' = k
  /\ loop' = "is playing"
  /\ UNCHANGED <<playerVars, workerVars, down, outOpen>>

ReadPlaying ==
  /\ loop = "is playing"
  /\ loop' = IF playing THEN "is current" ELSE "play"
  /\ UNCHANGED <<key, playerVars, workerVars, down, outOpen>>

ReadCurrent ==
  /\ loop = "is current"
  /\ loop' = IF Stoppable(key) THEN "stop" ELSE "play"
  /\ UNCHANGED <<key, playerVars, workerVars, down, outOpen>>

(* play() *)

\* (mutant) Playing is not looked at.
ClaimAlways ==
  /\ loop = "play"
  /\ playing' = TRUE
  /\ current' = key
  /\ loop' = "clear"
  /\ UNCHANGED <<key, cancel, thread, workerVars, down, outOpen>>

\* Under the state lock: ignored while a macro plays, else the player's own.
Claim ==
  /\ loop = "play"
  /\ IF playing
     THEN /\ loop' = "idle"
          /\ UNCHANGED <<playing, current>>
     ELSE /\ loop' = "clear"
          /\ playing' = TRUE
          /\ current' = key
  /\ UNCHANGED <<key, cancel, thread, workerVars, down, outOpen>>

ClearCancel ==
  /\ loop = "clear"
  /\ cancel' = FALSE
  /\ loop' = "spawn"
  /\ UNCHANGED <<key, playing, current, thread, workerVars, down, outOpen>>

Spawn(t) ==
  /\ loop = "spawn"
  /\ t \notin Live
  /\ thread' = t
  /\ GoTo(t, "round")
  /\ run' = [run EXCEPT ![t] = Run(key)]
  /\ loop' = "idle"
  /\ UNCHANGED <<key, playing, current, cancel, down, outOpen>>

(* stop(), from a re-press or from the remapper that is stopped or failed *)

BeginShutdown ==
  /\ loop = "idle"
  /\ loop' = "shutdown"
  /\ UNCHANGED <<key, playerVars, workerVars, down, outOpen>>

SetCancel ==
  /\ loop \in {"stop", "shutdown"}
  /\ cancel' = TRUE
  /\ loop' = IF loop = "stop" THEN "join" ELSE "last join"
  /\ UNCHANGED <<key, playing, current, thread, workerVars, down, outOpen>>

AfterJoin == loop' = IF loop = "join" THEN "idle" ELSE "close"

\* The worker ended.
Join ==
  /\ loop \in {"join", "last join"}
  /\ thread \notin Live
  /\ AfterJoin
  /\ UNCHANGED <<key, playerVars, workerVars, down, outOpen>>

\* It did not end in STOP_JOIN_TIMEOUT_S, say because an app action hangs.
JoinTimesOut ==
  /\ loop \in {"join", "last join"}
  /\ thread \in Live
  /\ AfterJoin
  /\ UNCHANGED <<key, playerVars, workerVars, down, outOpen>>

\* The kernel lets go of every key of a device that is destroyed.
CloseOutput ==
  /\ loop = "close"
  /\ outOpen' = FALSE
  /\ down' = {}
  /\ loop' = "closed"
  /\ UNCHANGED <<key, playerVars, workerVars>>

-----------------------------------------------------------------------------
(* A worker thread: run() *)

MacroSteps(t) == Macro[run[t].key].steps

\* (mutants) One round too many; a cancellation between rounds is missed.
RoundsOverLate(t) == cancel \/ run[t].left < 0
RoundsOverUncancelled(t) == run[t].left = 0

\* Why no further round is played.
RoundsOver(t) == cancel \/ run[t].left = 0

\* The head of the loop over the rounds.
NextRound(t) ==
  /\ worker[t] = "round"
  /\ IF RoundsOver(t)
     THEN GoTo(t, "release") /\ UNCHANGED run
     ELSE GoTo(t, "step") /\ run' = [run EXCEPT ![t].at = 1]
  /\ UNCHANGED <<loopVars, playerVars, down, outOpen>>

\* (mutant) Cancellation is looked at between the rounds only.
RoundEndsUnchecked(t) == run[t].at > Len(MacroSteps(t))

\* The round ends after its last step, or cancelled before the next one.
RoundEnds(t) == cancel \/ run[t].at > Len(MacroSteps(t))

\* The head of the loop over the steps.  After a round _pace() sleeps, which
\* a cancellation cuts short.
NextStep(t) ==
  /\ worker[t] = "step"
  /\ IF RoundEnds(t)
     THEN /\ GoTo(t, "round")
          /\ run' = [run EXCEPT ![t].left = IF run[t].endless THEN @ ELSE @ - 1]
     ELSE GoTo(t, "perform") /\ UNCHANGED run
  /\ UNCHANGED <<loopVars, playerVars, down, outOpen>>

\* The keys of p that are down once step s began.
Held(p, s) ==
  CASE s.kind \in KeyDowns -> p \cup {s.code}
    [] s.kind = "release" -> p \ {s.code}
    [] OTHER -> p

\* One step, its first write if it has two.  The write to a closed output
\* raises OSError, which ends the run.
Perform(t) ==
  LET s == MacroSteps(t)[run[t].at]
      sent == outOpen \/ s.kind \in Unwritten
  IN /\ worker[t] = "perform"
     /\ GoTo(t, IF ~sent THEN "release" ELSE IF s.kind = "tap" THEN "up" ELSE "step")
     /\ run' = IF ~sent THEN run
               ELSE [run EXCEPT ![t].pressed = Held(@, s),
                                ![t].at = IF s.kind = "tap" THEN @ ELSE @ + 1]
     /\ down' = IF sent THEN Held(down, s) ELSE down
     /\ UNCHANGED <<loopVars, playerVars, outOpen>>

\* The release that ends a tap.
TapUp(t) ==
  LET c == MacroSteps(t)[run[t].at].code
  IN /\ worker[t] = "up"
     /\ GoTo(t, IF outOpen THEN "step" ELSE "release")
     /\ run' = IF outOpen
               THEN [run EXCEPT ![t].pressed = @ \ {c}, ![t].at = @ + 1]
               ELSE run
     /\ down' = down \ {c}
     /\ UNCHANGED <<loopVars, playerVars, outOpen>>

\* finally: every key still pressed is released, a failing write is logged.
ReleaseKey(t, c) ==
  /\ worker[t] = "release"
  /\ c \in run[t].pressed
  /\ run' = [run EXCEPT ![t].pressed = @ \ {c}]
  /\ down' = down \ {c}
  /\ UNCHANGED <<loopVars, playerVars, worker, outOpen>>

\* (mutant) The player is free before its keys are released.
FinishEarly(t) ==
  /\ worker[t] = "release"
  /\ playing' = FALSE
  /\ current' = NoTrigger
  /\ GoTo(t, "none")
  /\ UNCHANGED <<loopVars, cancel, thread, run, down, outOpen>>

Finish(t) ==
  /\ worker[t] = "release"
  /\ run[t].pressed = {}
  /\ playing' = FALSE
  /\ current' = NoTrigger
  /\ GoTo(t, "none")
  /\ UNCHANGED <<loopVars, cancel, thread, run, down, outOpen>>

-----------------------------------------------------------------------------
LoopStep ==
  \/ \E k \in Triggers : PressTrigger(k)
  \/ ReadPlaying
  \/ ReadCurrent
  \/ Claim
  \/ ClearCancel
  \/ \E t \in Threads : Spawn(t)
  \/ BeginShutdown
  \/ SetCancel
  \/ Join
  \/ JoinTimesOut
  \/ CloseOutput

WorkerStep(t) ==
  \/ NextRound(t)
  \/ NextStep(t)
  \/ Perform(t)
  \/ TapUp(t)
  \/ \E c \in Codes : ReleaseKey(t, c)
  \/ Finish(t)

Init ==
  /\ loop = "idle"
  /\ key = NoTrigger
  /\ playing = FALSE
  /\ current = NoTrigger
  /\ cancel = FALSE
  /\ thread = NoThread
  /\ worker = [t \in Threads |-> "none"]
  /\ run = [t \in Threads |-> [key |-> NoTrigger, at |-> 1, pressed |-> {},
                               endless |-> FALSE, left |-> 0]]
  /\ down = {}
  /\ outOpen = TRUE

Next == LoopStep \/ \E t \in Threads : WorkerStep(t)

\* Threads are scheduled; an app action and a delay return (send_action has a
\* timeout, a delay is bounded and wakes on cancel).
Fairness == \A t \in Threads : WF_vars(WorkerStep(t))

Spec == Init /\ [][Next]_vars
FairSpec == Spec /\ Fairness

-----------------------------------------------------------------------------
(* Properties *)

LoopPlaces == {"idle", "is playing", "is current", "play", "clear", "spawn", "stop",
               "join", "shutdown", "last join", "close", "closed"}
WorkerPlaces == {"none", "round", "step", "perform", "up", "release"}
Runs == [key : Triggers \cup {NoTrigger}, at : Nat, pressed : SUBSET Codes,
         endless : BOOLEAN, left : Nat]

\* The types of the player's attributes and of the threads' locals.
TypeOK ==
  /\ loop \in LoopPlaces
  /\ key \in Triggers \cup {NoTrigger}
  /\ playing \in BOOLEAN
  /\ current \in Triggers \cup {NoTrigger}
  /\ cancel \in BOOLEAN
  /\ thread \in Threads \cup {NoThread}
  /\ worker \in [Threads -> WorkerPlaces]
  /\ run \in [Threads -> Runs]
  /\ down \subseteq Codes
  /\ outOpen \in BOOLEAN

\* Two macros never play into the device at once, even when stop() gave up
\* waiting for the first one.
OneWorker == \A t, u \in Live : t = u

\* No key stays down when no macro plays, however the last one ended: at its
\* end, cancelled in the middle of a step or on a failing write.
NoStuckKey == ~playing => down = {}

\* current names the macro that really plays, so that a re-press never stops
\* another trigger's macro.
CurrentIsTrue ==
  \A t \in Live : playing /\ current = run[t].key

\* A stop is never forgotten: the flag stays up until the worker it is meant
\* for has ended.
StopIsNotLost ==
  [][\A t \in Live : cancel /\ worker'[t] # "none" => cancel']_vars

\* A stop that waited for the worker leaves the device quiet, with no key down
\* and the player free.
StopIsSynchronous ==
  [][loop' # loop /\ loop \in {"join", "last join"}
       => thread \in Live \/ (~playing /\ down = {})]_vars

\* A re-press never cancels another trigger's macro.
OnlyOwnMacroIsStopped ==
  [][loop = "stop" /\ cancel' /\ ~cancel
       => \A t \in Live : run[t].key = key]_vars

\* A macro that was told to stop ends, and an N-times or single one ends by
\* itself: the device is not blocked for ever.
PlayingEnds ==
  \A t \in Threads :
    t \in Live /\ (cancel \/ ~run[t].endless) ~> t \notin Live

\* What the abstract playback sees of the threads.
macroPlayed == IF Live = {} THEN NoTrigger ELSE run[CHOOSE t \in Live : TRUE].key
toldToStop == Live # {} /\ cancel
mayPlayStep == \E t \in Live : worker[t] = "perform"

Playback == INSTANCE MacroPlayback WITH
  run <- macroPlayed, stopping <- toldToStop, armed <- mayPlayStep

\* The player does what playing macros promises.
PlaysAsPromised == Playback!Spec
=============================================================================
