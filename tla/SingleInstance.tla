------------------------- MODULE SingleInstance -------------------------
(* Launches of the program: the guard that lets one Hueberry run per user      *)
(* (single_instance.py), the messages a later launch or the macro engine sends *)
(* to it (gui_link.py), its window and its way from main() to the end of the   *)
(* process (app.py, main_window.py, tray.py).                                  *)
(*                                                                             *)
(* A launch is a process. It asks whoever owns the socket's name, takes the    *)
(* name when nobody answers, builds the window and then runs an event loop:    *)
(* what reaches its socket before that waits there. A launch that quits        *)
(* answers no message any more, but its socket is closed only after the        *)
(* background tasks ended.                                                     *)
EXTENDS Naturals, Sequences, FiniteSets

CONSTANTS MaxLaunches, \* launches of the program, numbered in the order of their start
          HasTray,     \* whether the desktop has a system tray
          MaxMessages, \* messages of the macro engine (gui_link)
          MaxFailures  \* crashes, and sockets that cannot be bound
ASSUME SessionBoundsAssumption ==
    /\ MaxLaunches \in Nat /\ HasTray \in BOOLEAN
    /\ MaxMessages \in Nat /\ MaxFailures \in Nat

Launches == 1..MaxLaunches
Nobody == 0
Kinds == {"show", "ping", "toggle"}   \* what a launch is for, and its message
Answering == {"started", "running", "closing"}

VARIABLES phase,    \* [Launches -> where the launch is]
          kind,     \* [Launches -> Kinds]; "ping" when its flags are not needed any more
          serving,  \* [Launches -> it holds a listening socket]
          name,     \* whose socket the name leads to; of a dead one it is stale
          inbox,    \* [Launches -> messages that wait at its socket]
          window,   \* [Launches -> BOOLEAN: the window is visible]
          crowded,  \* history: a launch looked for others while one was about to listen
          unserved, \* history: a launch runs without a socket of its own
          sends, failures
launchVars == <<phase, kind, serving, name, inbox, window,
                crowded, unserved, sends, failures>>

Alive(l) == phase[l] \in Answering
Answered == name # Nobody /\ phase[name] \in Answering /\ serving[name]

LaunchTypeOK == /\ phase \in [Launches -> {"none", "probing", "listening", "failed", "over"} \cup Answering]
                /\ kind \in [Launches -> Kinds]
                /\ serving \in [Launches -> BOOLEAN]
                /\ name \in Launches \cup {Nobody}
                /\ inbox \in [Launches -> Seq(Kinds)]
                /\ window \in [Launches -> BOOLEAN]
                /\ crowded \in BOOLEAN /\ unserved \in BOOLEAN
                /\ sends \in 0..MaxMessages /\ failures \in 0..MaxFailures

LaunchInit == /\ phase = [l \in Launches |-> "none"]
              /\ kind = [l \in Launches |-> "ping"]
              /\ serving = [l \in Launches |-> FALSE]
              /\ name = Nobody
              /\ inbox = [l \in Launches |-> << >>]
              /\ window = [l \in Launches |-> FALSE]
              /\ crowded = FALSE /\ unserved = FALSE
              /\ sends = 0 /\ failures = 0

(* main(): a launch with its flags (split_args). *)
Launch(l, k) ==
    /\ phase[l] = "none" /\ \A e \in 1..(l - 1) : phase[e] # "none"
    /\ phase' = [phase EXCEPT ![l] = "probing"]
    /\ kind' = [kind EXCEPT ![l] = k]
    /\ UNCHANGED <<serving, name, inbox, window, crowded, unserved,
                   sends, failures>>

(* _notify_existing(): a live owner gets the message, and the launch is over. *)
HandsOver(l) ==
    /\ Answered
    /\ inbox' = [inbox EXCEPT ![name] = Append(@, kind[l])]
    /\ phase' = [phase EXCEPT ![l] = "over"]
    /\ kind' = [kind EXCEPT ![l] = "ping"]

FindsNobody(l, next) ==
    /\ ~Answered
    /\ phase' = [phase EXCEPT ![l] = next]
    /\ UNCHANGED <<kind, inbox>>

(* (mutant) The probe is left to a listen() that fails.                        *)
LookLate(l) ==
    /\ phase[l] = "probing"
    /\ phase' = [phase EXCEPT ![l] = "listening"]
    /\ crowded' = (crowded \/ \E o \in Launches \ {l} : phase[o] \in {"listening", "failed"})
    /\ UNCHANGED <<kind, serving, name, inbox, window, unserved, sends, failures>>

(* _listen()'s probe, before it takes the name.                               *)
LookForOwner(l) ==
    /\ phase[l] = "probing"
    /\ HandsOver(l) \/ FindsNobody(l, "listening")
    /\ crowded' = (crowded \/ \E o \in Launches \ {l} : phase[o] \in {"listening", "failed"})
    /\ UNCHANGED <<serving, name, window, unserved, sends, failures>>

(* QLocalServer.listen() with a socket option binds another path and renames   *)
(* it: the name leads here, whoever had it.                                    *)
TakeName(l) ==
    /\ phase[l] = "listening"
    /\ name' = l
    /\ serving' = [serving EXCEPT ![l] = TRUE]
    /\ phase' = [phase EXCEPT ![l] = "started"]
    /\ UNCHANGED <<kind, inbox, window, crowded, unserved, sends, failures>>

(* listen() fails: the launch looks for an owner again...                      *)
ListenFails(l) ==
    /\ phase[l] = "listening" /\ failures < MaxFailures
    /\ failures' = failures + 1
    /\ HandsOver(l) \/ FindsNobody(l, "failed")
    /\ UNCHANGED <<serving, name, window, crowded, unserved, sends>>

(* ... removes the name as stale and listens again; a second failure leaves    *)
(* the program running with nothing to reach it by.                            *)
ListenAgain(l) ==
    /\ phase[l] = "failed"
    /\ \/ name' = l /\ serving' = [serving EXCEPT ![l] = TRUE] /\ UNCHANGED <<unserved, failures>>
       \/ /\ failures < MaxFailures /\ failures' = failures + 1
          /\ name' = Nobody /\ unserved' = TRUE
          /\ UNCHANGED serving
    /\ phase' = [phase EXCEPT ![l] = "started"]
    /\ UNCHANGED <<kind, inbox, window, crowded, sends>>

(* The rest of main() before the event loop: tray, window, engine, overlay.    *)
EnterLoop(l) ==
    /\ phase[l] = "started"
    /\ phase' = [phase EXCEPT ![l] = "running"]
    /\ kind' = [kind EXCEPT ![l] = "ping"]
    /\ window' = [window EXCEPT ![l] = kind[l] = "show" \/ ~HasTray]
    /\ UNCHANGED <<serving, name, inbox, crowded, unserved, sends>>

(* gui_link.send_action(): the engine asks for the overlay; nobody may listen. *)
Send ==
    /\ sends < MaxMessages
    /\ sends' = sends + 1
    /\ IF Answered THEN inbox' = [inbox EXCEPT ![name] = Append(@, "toggle")]
                   ELSE UNCHANGED inbox
    /\ UNCHANGED <<phase, kind, serving, name, window, crowded,
                   unserved, failures>>

(* _on_message(): "show" raises the window, "toggle" is for the overlay, "ping" *)
(* is ignored.                                                                 *)
Handle(l) ==
    /\ phase[l] = "running" /\ inbox[l] # << >>
    /\ inbox' = [inbox EXCEPT ![l] = Tail(@)]
    /\ IF Head(inbox[l]) = "show"
       THEN window' = [window EXCEPT ![l] = TRUE]
       ELSE UNCHANGED window
    /\ UNCHANGED <<phase, kind, serving, name, crowded, unserved, sends, failures>>

(* The tray icon toggles the window.                                           *)
ToggleVisible(l) ==
    /\ phase[l] = "running" /\ HasTray
    /\ window' = [window EXCEPT ![l] = ~@]
    /\ UNCHANGED <<phase, kind, serving, name, inbox, crowded, unserved,
                   sends, failures>>

(* closeEvent(): hide to the tray, when the setting has it so; otherwise quit. *)
HideWindow(l) ==
    /\ phase[l] = "running" /\ window[l] /\ HasTray
    /\ window' = [window EXCEPT ![l] = FALSE]
    /\ UNCHANGED <<phase, kind, serving, name, inbox, crowded, unserved,
                   sends, failures>>

(* The event loop ends: by the tray's Quit, or by closing the window. aboutToQuit *)
(* stops engine, overlay and animations; main() then waits for the tasks.      *)
Quit(l) ==
    /\ phase[l] = "running"
    /\ HasTray \/ window[l]
    /\ phase' = [phase EXCEPT ![l] = "closing"]
    /\ window' = [window EXCEPT ![l] = FALSE]
    /\ UNCHANGED <<kind, serving, name, inbox, crowded, unserved,
                   sends, failures>>

(* instance.close(): QLocalServer removes the file of that name, whoever's it is. *)
Close(l) ==
    /\ phase[l] = "closing"
    /\ phase' = [phase EXCEPT ![l] = "over"]
    /\ serving' = [serving EXCEPT ![l] = FALSE]
    /\ name' = IF serving[l] THEN Nobody ELSE name
    /\ inbox' = [inbox EXCEPT ![l] = << >>]
    /\ UNCHANGED <<kind, window, crowded, unserved, sends, failures>>

(* A crash leaves the socket's file behind.                                    *)
Die(l) ==
    /\ Alive(l) /\ failures < MaxFailures
    /\ failures' = failures + 1
    /\ phase' = [phase EXCEPT ![l] = "over"]
    /\ serving' = [serving EXCEPT ![l] = FALSE]
    /\ inbox' = [inbox EXCEPT ![l] = << >>]
    /\ window' = [window EXCEPT ![l] = FALSE]
    /\ UNCHANGED <<kind, name, crowded, unserved, sends>>

-----------------------------------------------------------------------------
(* "Only one Hueberry runs per user" (app.py:7): two run only when two launches *)
(* looked for each other before either of them listened, or one could not      *)
(* listen at all.                                                              *)
OneHueberry ==
    crowded \/ unserved
        \/ \A a, b \in Launches : phase[a] \in {"started", "running"}
                                     /\ phase[b] \in {"started", "running"} => a = b

(* A launch finds the program that runs, whatever crashed before: the name     *)
(* leads to it as long as launches did not overlap.                            *)
RunningIsReachable ==
    crowded \/ unserved
        \/ \A l \in Launches : Alive(l) => name = l /\ serving[l]

(* Launches that do not overlap: one program runs, and it is reached by its    *)
(* name; with the types of the variables.                                      *)
SessionIsSound == LaunchTypeOK /\ OneHueberry /\ RunningIsReachable
=============================================================================
