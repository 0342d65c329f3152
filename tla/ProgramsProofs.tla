--------------------------- MODULE ProgramsProofs ---------------------------
(***************************************************************************)
(* Proofs about the programs that run once per user: EngineSocket for any   *)
(* number of engine processes; SingleInstance and Overlay for any number of *)
(* launches, pids, commands and failures.                                   *)
(***************************************************************************)
EXTENDS EngineSocket, Overlay, FiniteSetTheorems, TLAPS

-----------------------------------------------------------------------------
(* The engine's socket *)


\* A socket accepts while its engine serves and until it closes the listener.
ListeningIsTrue == listening = In({"serving", "close listener"})

\* What holds as long as starts and stops never overlapped: one engine at most
\* is on its way, the path belongs to the engine that bound it, and nobody
\* serves while a starting engine is about to clear or take the path.
Undisturbed ==
  \A e \in Engines :
    /\ place[e] \in Starting \cup Closing
         => \A f \in Engines \ {e} : place[f] \in {"down", "serving"}
    /\ place[e] \in {"listen", "serving", "close listener", "unlink own"} => path = e
    /\ place[e] = "bind" => path = NoSocket
    /\ place[e] = "unlink" => \A f \in Engines \ {e} : place[f] = "down"

IInv ==
  /\ TypeOK
  /\ ListeningIsTrue
  /\ ~overlapped => Undisturbed

LEMMA InitIInv == Init => IInv
BY DEF Init, IInv, TypeOK, ListeningIsTrue, Undisturbed, In, Places, Starting, Closing

\* An engine alone on its way.
OthersRest(e) == \A f \in Engines \ {e} : place[f] \in {"down", "serving"}

LEMMA GoAlone ==
  ASSUME IInv, NEW e \in Engines, NEW p, Go(e, p), ~overlapped'
  PROVE  ~overlapped /\ Undisturbed /\ OthersRest(e)
BY DEF IInv, TypeOK, Go, In, Places, OthersRest

\* Engine e goes to p.  The path and the listener are as they must be there,
\* and nobody else is up when e is to clear the path or changed it.
LEMMA Moves ==
  ASSUME IInv, NEW e \in Engines, NEW p \in Places, Go(e, p),
         path' \in Engines \cup {NoSocket},
         listening' = IF p \in {"serving", "close listener"} THEN listening \cup {e}
                      ELSE listening \ {e},
         ~overlapped' =>
           /\ p \in {"listen", "serving", "close listener", "unlink own"} => path' = e
           /\ p = "bind" => path' = NoSocket
           /\ p = "unlink" \/ path' # path => \A f \in Engines \ {e} : place[f] = "down"
  PROVE  IInv'
<1>1. place' = [place EXCEPT ![e] = p] /\ overlapped' \in BOOLEAN
  BY DEF Go, IInv, TypeOK
<1>2. /\ place' \in [Engines -> Places]
      /\ place'[e] = p
      /\ \A f \in Engines \ {e} : place'[f] = place[f]
  BY <1>1 DEF IInv, TypeOK
<1>3. TypeOK' /\ ListeningIsTrue'
  BY <1>1, <1>2 DEF IInv, TypeOK, ListeningIsTrue, In
<1>4. ASSUME ~overlapped' PROVE Undisturbed'
  <2>1. Undisturbed /\ OthersRest(e)
    BY <1>4, GoAlone
  <2> SUFFICES ASSUME NEW f \in Engines
      PROVE  /\ place'[f] \in Starting \cup Closing
                  => \A g \in Engines \ {f} : place'[g] \in {"down", "serving"}
             /\ place'[f] \in {"listen", "serving", "close listener", "unlink own"} => path' = f
             /\ place'[f] = "bind" => path' = NoSocket
             /\ place'[f] = "unlink" => \A g \in Engines \ {f} : place'[g] = "down"
    BY DEF Undisturbed
  <2>2. CASE f = e
    BY <1>2, <1>4, <2>1, <2>2 DEF OthersRest
  <2>3. CASE f # e
    <3>1. place'[f] = place[f] /\ place[f] \in {"down", "serving"}
      BY <1>2, <2>1, <2>3 DEF OthersRest
    <3>2. place[f] = "serving" => path' = path /\ path = f
      BY <1>4, <2>1, <2>3 DEF Undisturbed
    <3> QED  BY <3>1, <3>2 DEF Starting, Closing
  <2> QED  BY <2>2, <2>3
<1> QED  BY <1>3, <1>4 DEF IInv

LEMMA StepIInv ==
  ASSUME IInv, NEW e \in Engines, Start(e) \/ EngineStep(e) \/ Stop(e) \/ Crash(e)
  PROVE  IInv'
<1> USE DEF Places, Starting, Closing
<1>0. /\ TypeOK
      /\ place[e] \in Places
      /\ e \in listening <=> place[e] \in {"serving", "close listener"}
      /\ \A f \in Engines : place[f] = "serving" => f \in listening
      /\ path \in Engines \cup {NoSocket}
  BY DEF IInv, TypeOK, ListeningIsTrue, In
<1>1. CASE Start(e)
  BY <1>0, <1>1, Moves DEF Start
<1>2. CASE PathExists(e)
  BY <1>0, <1>2, Moves DEF PathExists
<1>3. CASE Probe(e)
  <2>1. CASE ~Stale
    BY <1>0, <1>3, <2>1, Moves DEF Probe
  <2>2. CASE Stale
    <3>1. Go(e, "unlink") /\ place[e] = "probe" /\ UNCHANGED <<path, listening>>
      BY <1>3, <2>2 DEF Probe
    <3>2. ~overlapped' => \A f \in Engines \ {e} : place[f] = "down"
      BY <1>0, <2>2, <3>1, GoAlone DEF Stale, Undisturbed, OthersRest
    <3> QED  BY <1>0, <3>1, <3>2, Moves
  <2> QED  BY <2>1, <2>2
<1>4. CASE RemoveStale(e)
  <2>1. ~overlapped' => \A f \in Engines \ {e} : place[f] = "down"
    BY <1>4, GoAlone DEF RemoveStale, Undisturbed
  <2> QED  BY <1>0, <1>4, <2>1, Moves DEF RemoveStale
<1>5. CASE Bind(e)
  <2>1. CASE path # NoSocket
    BY <1>0, <1>5, <2>1, Moves DEF Bind
  <2>2. CASE path = NoSocket
    <3>1. Go(e, "listen") /\ path' = e /\ UNCHANGED listening /\ place[e] = "bind"
      BY <1>5, <2>2 DEF Bind
    <3>2. ~overlapped' => \A f \in Engines \ {e} : place[f] = "down"
      BY <2>2, <3>1, GoAlone, NoSocketAssumption DEF Undisturbed, OthersRest
    <3> QED  BY <1>0, <3>1, <3>2, Moves
  <2> QED  BY <2>1, <2>2
<1>6. CASE Listen(e)
  <2>1. ~overlapped' => path = e
    BY <1>6, GoAlone DEF Listen, Undisturbed
  <2> QED  BY <1>0, <1>6, <2>1, Moves DEF Listen
<1>7. CASE Stop(e)
  <2>1. ~overlapped' => path = e
    BY <1>7, GoAlone DEF Stop, Undisturbed
  <2>2. listening = listening \cup {e}
    BY <1>0, <1>7 DEF Stop
  <2> QED  BY <1>0, <1>7, <2>1, <2>2, Moves DEF Stop
<1>8. CASE CloseListener(e)
  <2>1. ~overlapped' => path = e
    BY <1>8, GoAlone DEF CloseListener, Undisturbed
  <2> QED  BY <1>0, <1>8, <2>1, Moves DEF CloseListener
<1>9. CASE UnlinkOwn(e)
  <2>1. ~overlapped' => \A f \in Engines \ {e} : place[f] = "down"
    BY <1>9, GoAlone DEF UnlinkOwn, Undisturbed, OthersRest
  <2> QED  BY <1>0, <1>9, <2>1, Moves DEF UnlinkOwn
<1>10. CASE Crash(e)
  BY <1>0, <1>10, Moves DEF Crash
<1> QED
  BY <1>1, <1>2, <1>3, <1>4, <1>5, <1>6, <1>7, <1>8, <1>9, <1>10 DEF EngineStep

THEOREM Invariance == Spec => []IInv
<1>1. IInv /\ [Next]_vars => IInv'
  <2>1. ASSUME IInv, UNCHANGED vars PROVE IInv'
    <3>1. UNCHANGED <<path, place, listening, overlapped>>
      BY <2>1 DEF vars
    <3>2. TypeOK' /\ ListeningIsTrue'
      BY <2>1, <3>1 DEF IInv, TypeOK, ListeningIsTrue, In
    <3>3. ~overlapped' => Undisturbed'
      BY <2>1, <3>1 DEF IInv, Undisturbed
    <3> QED  BY <3>2, <3>3 DEF IInv
  <2> QED  BY <2>1, StepIInv DEF Next
<1> QED  BY InitIInv, <1>1, PTL DEF Spec

\* The path and the processes keep their types.
THEOREM TypeCorrect == Spec => []TypeOK
BY Invariance, PTL DEF IInv

\* One engine at most has the devices, and clients reach it, unless starts and
\* stops overlapped.
THEOREM OneEngine == Spec => []OneEngineUnlessOverlapped
<1>1. IInv => OneEngineUnlessOverlapped
  BY DEF IInv, Undisturbed, OneEngineUnlessOverlapped, Serving, In, ListeningIsTrue
<1> QED  BY Invariance, <1>1, PTL

\* Nobody takes the socket of an engine that accepts from the path, unless
\* starts and stops overlapped.
THEOREM SocketStays == Spec => SocketIsNotStolen
<1> DEFINE P == \A e \in listening : path = e /\ path' # e => overlapped'
<1>1. ASSUME IInv, [Next]_vars, NEW e \in listening, path = e, path' # e
      PROVE  overlapped'
  <2>1. TypeOK /\ e \in Engines /\ place[e] \in {"serving", "close listener"}
    BY <1>1 DEF IInv, ListeningIsTrue, In
  <2>2. PICK f \in Engines : RemoveStale(f) \/ Bind(f) \/ UnlinkOwn(f)
    BY <1>1 DEF Next, EngineStep, vars, Start, PathExists, Probe, Listen, Stop, CloseListener,
       Crash
  <2>3. SUFFICES ASSUME ~overlapped' PROVE FALSE
    OBVIOUS
  <2>4. place[f] \in {"unlink", "bind", "unlink own"} /\ f # e
    BY <2>1, <2>2 DEF RemoveStale, Bind, UnlinkOwn
  <2>5. Undisturbed /\ OthersRest(f)
    BY <1>1, <2>2, <2>3, GoAlone DEF RemoveStale, Bind, UnlinkOwn
  <2>6. place[e] = "serving"
    BY <2>1, <2>4, <2>5 DEF OthersRest
  <2> QED
    BY <1>1, <2>1, <2>4, <2>5, <2>6, NoSocketAssumption DEF Undisturbed
<1>2. IInv /\ [Next]_vars => [P]_vars
  BY <1>1
<1> QED  BY Invariance, <1>2, PTL DEF Spec, SocketIsNotStolen

-----------------------------------------------------------------------------
(* Launches of the program *)

Listeners == {"listening", "failed"}
Phases == {"none", "probing", "over"} \cup Listeners \cup Answering
(* Launches that never looked for each other at the same time: the name leads  *)
(* to the one that is up, and nobody is up while another takes the name.       *)
LaunchesApart ==
  /\ \A l \in Launches : Alive(l) => name = l /\ serving[l]
  /\ \A l, o \in Launches : phase[l] \in Listeners /\ o # l =>
        phase[o] \notin Listeners \cup Answering
LaunchInv == LaunchTypeOK /\ (Alone => LaunchesApart)

LEMMA LaunchInitInv == SessionInit => LaunchInv
<1> SUFFICES ASSUME SessionInit PROVE LaunchInv
  OBVIOUS
<1>0. << >> \in Seq(Kinds) /\ "ping" \in Kinds
  BY DEF Kinds
<1> USE SessionBoundsAssumption
   DEF SessionInit, LaunchInit, LaunchInv, LaunchTypeOK, Alone, LaunchesApart, Alive,
       Answering, Listeners, Nobody
<1>1. LaunchTypeOK
  <2>1. inbox \in [Launches -> Seq(Kinds)] /\ kind \in [Launches -> Kinds]
    BY <1>0
  <2>2. /\ phase \in [Launches -> Phases]
        /\ serving \in [Launches -> BOOLEAN] /\ window \in [Launches -> BOOLEAN]
    BY DEF Phases
  <2>3. 0 \in 0..MaxMessages /\ 0 \in 0..MaxFailures
    OBVIOUS
  <2> QED
    BY <2>1, <2>2, <2>3 DEF Phases
<1>2. LaunchesApart
  OBVIOUS
<1> QED
  BY <1>1, <1>2

(* Messages come at the end of an inbox and are taken from its head. *)
LEMMA Inboxes ==
  ASSUME NEW s \in Seq(Kinds)
  PROVE  /\ \A k \in Kinds : Append(s, k) \in Seq(Kinds)
         /\ s # << >> => Tail(s) \in Seq(Kinds) /\ Head(s) \in Kinds
OBVIOUS

(* A message handed over leaves well-formed inboxes.                           *)
LEMMA HandsOverInboxes ==
  ASSUME LaunchInv, NEW l \in Launches, HandsOver(l) 
  PROVE  /\ inbox' \in [Launches -> Seq(Kinds)] /\ kind' \in [Launches -> Kinds]
         /\ phase' = [phase EXCEPT ![l] = "over"]
<1>1. name \in Launches /\ inbox[name] \in Seq(Kinds) /\ kind[l] \in Kinds /\ "ping" \in Kinds
  BY DEF HandsOver, LaunchInv, LaunchTypeOK, Answered, Kinds
<1> QED
  BY <1>1, Inboxes DEF HandsOver, LaunchInv, LaunchTypeOK

(* The moves of SingleInstance, without the counter of failures. *)
LEMMA LaunchMoves ==
  ASSUME LaunchInv, NEW l \in Launches, failures' \in 0..MaxFailures,
         \/ \E k \in Kinds : Launch(l, k)
         \/ LookForOwner(l) \/ TakeName(l) \/ ListenFails(l) \/ ListenAgain(l)
         \/ ToggleVisible(l) \/ HideWindow(l) \/ EnterLoop(l) \/ Handle(l)
         \/ Quit(l) \/ Close(l) \/ Die(l)
  PROVE  LaunchInv'
<1> USE SessionBoundsAssumption
        DEF LaunchInv, LaunchTypeOK, Alone, LaunchesApart, Alive, Answered, Answering, Listeners,
            Nobody
<1>1. ASSUME NEW k \in Kinds, Launch(l, k) PROVE LaunchInv'
  BY <1>1 DEF Launch
<1>2. CASE LookForOwner(l)
  <2> USE <1>2 DEF LookForOwner
  <2>1. CASE HandsOver(l)
    <3>1. /\ inbox' \in [Launches -> Seq(Kinds)] /\ kind' \in [Launches -> Kinds]
          /\ phase' = [phase EXCEPT ![l] = "over"]
      BY <2>1, HandsOverInboxes
    <3>2. LaunchTypeOK'
      BY <3>1
    <3>3. Alone' => LaunchesApart'
      BY <3>1
    <3> QED
      BY <3>2, <3>3
  <2>2. CASE FindsNobody(l, "listening")
    <3> USE <2>2 DEF FindsNobody
    <3>1. LaunchTypeOK'
      OBVIOUS
    <3>2. ASSUME Alone' PROVE LaunchesApart'
      <4>1. /\ LaunchesApart
            /\ \A o \in Launches \ {l} : phase[o] \notin Listeners
        BY <3>2
      <4>2. \A o \in Launches : phase[o] \notin Answering
        BY <4>1 DEF Launches
      <4> QED
        BY <4>1, <4>2
    <3> QED
      BY <3>1, <3>2
  <2> QED
    BY <1>2, <2>1, <2>2 DEF LookForOwner
<1>3. CASE TakeName(l)
  BY <1>3 DEF TakeName
<1>4. CASE ListenFails(l)
  <2>1. CASE HandsOver(l)
    <3>1. /\ inbox' \in [Launches -> Seq(Kinds)] /\ kind' \in [Launches -> Kinds]
          /\ phase' = [phase EXCEPT ![l] = "over"]
      BY <2>1, HandsOverInboxes
    <3> QED
      BY <1>4, <3>1 DEF ListenFails
  <2>2. CASE FindsNobody(l, "failed")
    BY <1>4, <2>2 DEF ListenFails, FindsNobody
  <2> QED
    BY <1>4, <2>1, <2>2 DEF ListenFails
<1>5. CASE ListenAgain(l)
  BY <1>5 DEF ListenAgain
<1>6. CASE ToggleVisible(l) \/ HideWindow(l)
  BY <1>6 DEF ToggleVisible, HideWindow
<1>7. CASE EnterLoop(l)
  BY <1>7 DEF EnterLoop, Kinds
<1>8. CASE Handle(l)
  <2>1. Tail(inbox[l]) \in Seq(Kinds)
    BY <1>8, Inboxes DEF Handle
  <2> QED
    BY <1>8, <2>1 DEF Handle
<1>9. CASE Quit(l)
  BY <1>9 DEF Quit
<1>10. CASE Close(l)
  BY <1>10 DEF Close
<1>11. CASE Die(l)
  BY <1>11 DEF Die
<1> QED
  BY <1>1, <1>2, <1>3, <1>4, <1>5, <1>6, <1>7, <1>8, <1>9, <1>10, <1>11

-----------------------------------------------------------------------------
States == {"free", "ours", "zombie", "foreign"}

(* What polling, waiting and the pid file can yield.                           *)
LEMMA HelperTypes ==
  ASSUME OverlayTypeOK, NEW l \in Launches
  PROVE  /\ NoPid \notin Pids
         /\ Poll(l) \in [Pids -> States] /\ AfterWait(l) \in [Pids -> States]
         /\ Polled(l) \in [Launches -> BOOLEAN]
         /\ StalePid \in Pids \cup {NoPid}
<1> USE OverlayAssumption DEF OverlayTypeOK, States
<1>1. NoPid \notin Pids
  BY DEF NoPid
<1>2. child[l] # NoPid => child[l] \in Pids
  OBVIOUS
<1>3. target[l] # NoPid => target[l] \in Pids
  OBVIOUS
<1>4. pidFile # NoPid => pidFile \in Pids
  OBVIOUS
<1> QED
  BY <1>1, <1>2, <1>3, <1>4 DEF Poll, Polled, Living, AfterWait, StalePid

(* What an operation may do to the variables of the overlay. *)
LEMMA TypesOK ==
  ASSUME OverlayTypeOK, LaunchTypeOK, SessionNext
  PROVE  OverlayTypeOK' /\ failures' \in 0..MaxFailures
<1> USE OverlayAssumption, SessionBoundsAssumption
<1>0. ASSUME NEW l \in Launches, NEW what \in {"launch", "check"}, StartOverlay(l, what)
      PROVE  /\ process' \in [Pids -> States] /\ collected' \in [Launches -> BOOLEAN]
             /\ child' \in [Launches -> Pids \cup {NoPid}]
             /\ item' \in [Launches -> BOOLEAN]
             /\ job' \in [Launches -> Jobs] /\ stage' \in [Launches -> Stages]
             /\ target' \in [Launches -> Pids \cup {NoPid}]
             /\ hurt' \subseteq Pids /\ spoiled' \in BOOLEAN
             /\ failures' \in 0..MaxFailures
  <2> USE DEF OverlayTypeOK, LaunchTypeOK
  <2>1. CASE Living(l) /\ item' = [item EXCEPT ![l] = @ \/ what = "check"]
                 /\ UNCHANGED <<process, collected, child, job, stage, target, hurt,
                                spoiled, failures>>
    BY <2>1 DEF States
  <2>2. CASE BeginLaunch(l, what) /\ UNCHANGED <<spoiled, failures>>
    BY <2>2, HelperTypes DEF BeginLaunch, LookForLeftover, GoesOn, Jobs, Stages, Launching
  <2>3. CASE failures < MaxFailures /\ failures' = failures + 1 /\ NotFound(l, what)
    BY <2>3, HelperTypes DEF NotFound, Unchecked
  <2> QED
    BY <1>0, <2>1, <2>2, <2>3 DEF StartOverlay
<1>1. ASSUME NEW l \in Launches, NEW what \in {"stop", "restart", "quit"},
             BeginTerminate(l, what)
      PROVE  /\ process' \in [Pids -> States] /\ collected' \in [Launches -> BOOLEAN]
             /\ child' \in [Launches -> Pids \cup {NoPid}]
             /\ item' \in [Launches -> BOOLEAN]
             /\ job' \in [Launches -> Jobs] /\ stage' \in [Launches -> Stages]
             /\ target' \in [Launches -> Pids \cup {NoPid}]
             /\ hurt' \subseteq Pids
  BY <1>1, HelperTypes DEF BeginTerminate, GoesOn, Jobs, Stages, Signal, OverlayTypeOK
<1>2. ASSUME NEW l \in Launches, NEW on \in BOOLEAN, PersistEnabled(l, on)
      PROVE  /\ enabled' \in [Launches -> BOOLEAN] /\ stored' \in BOOLEAN
             /\ spoiled' \in BOOLEAN /\ failures' \in 0..MaxFailures
  <2>1. enabled' \in [Launches -> BOOLEAN]
    BY <1>2 DEF PersistEnabled, OverlayTypeOK
  <2>2. failures' \in 0..MaxFailures
    BY <1>2 DEF PersistEnabled, LaunchTypeOK
  <2>3. stored' \in BOOLEAN
    BY <1>2, Zenon DEF PersistEnabled, OverlayTypeOK
  <2>4. spoiled' \in BOOLEAN
    BY <1>2, Zenon DEF PersistEnabled, OverlayTypeOK
  <2> QED
    BY <2>1, <2>2, <2>3, <2>4
<1>3. ASSUME NEW l \in Launches, Work(l) PROVE OverlayTypeOK' /\ failures' \in 0..MaxFailures
  <2> USE DEF Step, Done, GoesOn, Jobs, Stages
  <2>0. ASSUME LaunchFails(l)
        PROVE  /\ failures' \in 0..MaxFailures
               /\ job' \in [Launches -> Jobs] /\ stage' \in [Launches -> Stages]
               /\ item' \in [Launches -> BOOLEAN] /\ died' \subseteq Launches
               /\ UNCHANGED <<process, child, collected, pidFile, stored, enabled, target, hurt, stray>>
    BY <2>0 DEF LaunchFails, Unchecked, OverlayTypeOK, LaunchTypeOK
  <2>1. CASE EndTerminate(l)
    <3>1. /\ enabled' \in [Launches -> BOOLEAN] /\ stored' \in BOOLEAN
          /\ spoiled' \in BOOLEAN /\ failures' \in 0..MaxFailures
      <4>1. \/ PersistEnabled(l, FALSE)
            \/ UNCHANGED <<enabled, stored, spoiled, failures>>
        BY <2>1 DEF EndTerminate
      <4> QED
        BY <1>2, <4>1 DEF OverlayTypeOK, LaunchTypeOK
    <3>2. /\ job' \in [Launches -> Jobs] /\ stage' \in [Launches -> Stages]
          /\ item' \in [Launches -> BOOLEAN] /\ died' \subseteq Launches
      BY <2>1 DEF EndTerminate, OverlayTypeOK
    <3>3. process' \in [Pids -> States]
      BY <2>1, HelperTypes DEF EndTerminate
    <3>4. hurt' \subseteq Pids
      <4>1. target[l] # NoPid => target[l] \in Pids
        BY DEF OverlayTypeOK
      <4>2. KillLate(l)
        BY <2>1 DEF EndTerminate
      <4> QED
        BY <4>1, <4>2 DEF KillLate, OverlayTypeOK
    <3> QED
      BY <2>1, <3>1, <3>2, <3>3, <3>4 DEF EndTerminate, OverlayTypeOK, States
  <2>2. CASE Relaunch(l)
    <3>1. CASE LaunchFails(l) /\ spoiled' = TRUE
      BY <2>0, <2>2, <3>1 DEF Relaunch, OverlayTypeOK
    <3>2. CASE LookForLeftover(l, "restart")
               /\ UNCHANGED <<failures, process, child, collected, pidFile, stored, enabled, item,
                              hurt, died, stray, spoiled>>
      BY <2>2, <3>2, HelperTypes DEF Relaunch, LookForLeftover, OverlayTypeOK, LaunchTypeOK
    <3> QED
      BY <2>2, <3>1, <3>2 DEF Relaunch
  <2>3. CASE SignalLeftover(l)
    BY <2>3 DEF SignalLeftover, Signal, OverlayTypeOK, LaunchTypeOK
  <2>4. CASE EndClear(l)
    <3>1. process' \in [Pids -> States] /\ hurt' \subseteq Pids
      BY <2>4, HelperTypes DEF EndClear, KillLate, OverlayTypeOK
    <3> QED
      BY <2>4, <3>1 DEF EndClear, OverlayTypeOK, LaunchTypeOK, States
  <2>5. CASE StartWaybar(l)
    <3>1. CASE LaunchFails(l) /\ UNCHANGED spoiled
      BY <2>0, <2>5, <3>1 DEF StartWaybar, OverlayTypeOK
    <3>2. ASSUME NEW p \in Pids, Spawn(l, p) PROVE OverlayTypeOK' /\ failures' \in 0..MaxFailures
      BY <2>5, <3>2 DEF StartWaybar, Spawn, OverlayTypeOK, LaunchTypeOK
    <3> QED
      BY <2>5, <3>1, <3>2 DEF StartWaybar
  <2>6. CASE WritePid(l)
    <3>1. /\ pidFile' \in Pids \cup {NoPid} /\ failures' \in 0..MaxFailures
          /\ spoiled' = spoiled \/ spoiled' = TRUE
      BY <2>6 DEF WritePid, OverlayTypeOK, LaunchTypeOK
    <3>2. job' \in [Launches -> Jobs] /\ stage' \in [Launches -> Stages]
      BY <2>6 DEF WritePid, OverlayTypeOK
    <3> QED
      BY <2>6, <3>1, <3>2 DEF WritePid, OverlayTypeOK
  <2>7. CASE EndStart(l)
    BY <1>2, <2>7 DEF EndStart, OverlayTypeOK
  <2> QED
    BY <1>3, <2>1, <2>2, <2>3, <2>4, <2>5, <2>6, <2>7 DEF Work
<1>4. ASSUME NEW l \in Launches, LaunchStep(l)
      PROVE  OverlayTypeOK' /\ failures' \in 0..MaxFailures
  BY <1>4 DEF LaunchStep, overlayVars, OverlayTypeOK, LaunchTypeOK, Launch, LookForOwner, TakeName,
       ListenFails, ListenAgain, ToggleVisible, HideWindow
<1>5. ASSUME NEW l \in Launches, StartLaunch(l)
      PROVE  OverlayTypeOK' /\ failures' \in 0..MaxFailures
  <2>1. enabled' \in [Launches -> BOOLEAN]
    BY <1>5 DEF StartLaunch, OverlayTypeOK
  <2> QED
    BY <1>0, <1>5, <2>1 DEF StartLaunch, recordVars, OverlayTypeOK, LaunchTypeOK, States
<1>6. ASSUME NEW l \in Launches, HandleMessage(l) \/ ClickButton(l) \/ ClickItem(l)
      PROVE  OverlayTypeOK' /\ failures' \in 0..MaxFailures
  <2>1. /\ commands' \in 0..MaxCommands
        /\ UNCHANGED <<pidFile, stored, enabled, reused, died, stray, losses>>
    BY <1>6 DEF HandleMessage, ClickButton, ClickItem, Commanded, recordVars, OverlayTypeOK,
                LaunchTypeOK
  <2>2. \/ \E what \in {"launch", "check"} : StartOverlay(l, what)
        \/ BeginTerminate(l, "stop") /\ UNCHANGED <<spoiled, failures>>
        \/ UNCHANGED <<process, child, collected, item, job, stage, target, hurt, spoiled, failures>>
    BY <1>6 DEF HandleMessage, ClickButton, ClickItem, Toggle, Handle
  <2> QED
    BY ZenonT(60), <1>0, <1>1, <2>1, <2>2 DEF OverlayTypeOK, LaunchTypeOK, States
<1>7. ASSUME NEW l \in Launches, ApplySettings(l)
      PROVE  OverlayTypeOK' /\ failures' \in 0..MaxFailures
  <2>1. /\ commands' \in 0..MaxCommands /\ stored' \in BOOLEAN /\ failures' \in 0..MaxFailures
        /\ UNCHANGED <<pidFile, enabled, reused, died, stray, spoiled, losses>>
    BY <1>7 DEF ApplySettings, Commanded, recordVars, OverlayTypeOK, LaunchTypeOK
  <2>2. \/ BeginTerminate(l, "restart")
        \/ process' = Poll(l) /\ collected' = Polled(l)
           /\ UNCHANGED <<child, item, job, stage, target, hurt>>
    BY <1>7 DEF ApplySettings
  <2> QED
    BY ZenonT(60), <1>1, <2>1, <2>2, HelperTypes DEF OverlayTypeOK, States
<1>8. ASSUME NEW l \in Launches, QuitLaunch(l)
      PROVE  OverlayTypeOK' /\ failures' \in 0..MaxFailures
  BY <1>1, <1>8 DEF QuitLaunch, Quit, recordVars, OverlayTypeOK, LaunchTypeOK, States
<1>9. ASSUME NEW l \in Launches, CloseLaunch(l)
      PROVE  OverlayTypeOK' /\ failures' \in 0..MaxFailures
  BY <1>9 DEF CloseLaunch, Close, OverlayTypeOK, LaunchTypeOK
<1>10. ASSUME NEW l \in Launches, CrashLaunch(l)
      PROVE  OverlayTypeOK' /\ failures' \in 0..MaxFailures
  <2>1. stray' \subseteq Pids
    BY <1>10 DEF CrashLaunch, OverlayTypeOK
  <2> QED
    BY <1>10, <2>1 DEF CrashLaunch, Die, Done, GoesOn, Jobs, Stages, OverlayTypeOK, LaunchTypeOK
<1>11. ASSUME Send, UNCHANGED overlayVars PROVE OverlayTypeOK' /\ failures' \in 0..MaxFailures
  BY <1>11 DEF Send, overlayVars, OverlayTypeOK, LaunchTypeOK
<1>12. ASSUME NEW p \in Pids, OverlayEnds(p) \/ PidReused(p)
       PROVE  OverlayTypeOK' /\ failures' \in 0..MaxFailures
  <2>1. CASE OverlayEnds(p)
    <3>1. /\ process' \in [Pids -> States] /\ died' \subseteq Launches
          /\ losses' \in 0..MaxLost
      BY <2>1, OverlayAssumption DEF OverlayEnds, OverlayTypeOK, States
    <3> QED
      BY <2>1, <3>1 DEF OverlayEnds, OverlayTypeOK, LaunchTypeOK, States
  <2>2. CASE PidReused(p)
    BY <2>2 DEF PidReused, OverlayTypeOK, LaunchTypeOK
  <2> QED
    BY <1>12, <2>1, <2>2
<1> QED
  BY <1>3, <1>4, <1>5, <1>6, <1>7, <1>8, <1>9, <1>10, <1>11, <1>12 DEF SessionNext

-----------------------------------------------------------------------------
(* Every step keeps the launches apart.                                        *)
LEMMA LaunchInvStep == LaunchInv /\ OverlayTypeOK /\ SessionNext => LaunchInv'
<1> SUFFICES ASSUME LaunchInv, OverlayTypeOK, SessionNext PROVE LaunchInv'
  OBVIOUS
<1>0. failures' \in 0..MaxFailures
  BY TypesOK DEF LaunchInv
<1>1. ASSUME UNCHANGED launchOnly PROVE LaunchInv'
  BY <1>0, <1>1 DEF launchOnly, LaunchInv, LaunchTypeOK, Alone, LaunchesApart, Alive
<1>2. ASSUME NEW l \in Launches, LaunchStep(l) \/ StartLaunch(l) \/ QuitLaunch(l)
                                    \/ CloseLaunch(l) \/ CrashLaunch(l)
      PROVE  LaunchInv'
  BY <1>0, <1>2, LaunchMoves DEF LaunchStep, StartLaunch, QuitLaunch, CloseLaunch, CrashLaunch
<1>3. ASSUME NEW l \in Launches, HandleMessage(l) PROVE LaunchInv'
  <2>1. CASE Handle(l)
    BY <1>0, <2>1, LaunchMoves
  <2>2. CASE /\ inbox[l] # << >> /\ inbox' = [inbox EXCEPT ![l] = Tail(@)]
             /\ UNCHANGED <<phase, kind, serving, name, window, crowded, unserved, sends>>
    <3>1. Tail(inbox[l]) \in Seq(Kinds)
      BY <2>2, Inboxes DEF LaunchInv, LaunchTypeOK
    <3> QED
      BY <1>0, <2>2, <3>1 DEF LaunchInv, LaunchTypeOK, Alone, LaunchesApart, Alive
  <2> QED
    BY <1>3, <2>1, <2>2 DEF HandleMessage
<1>4. ASSUME NEW l \in Launches, ClickButton(l) \/ ClickItem(l) \/ ApplySettings(l) \/ Work(l)
      PROVE  LaunchInv'
  <2>1. UNCHANGED launchOnly
    BY <1>4 DEF ClickButton, ClickItem, ApplySettings, Work, EndTerminate, Relaunch,
       SignalLeftover, EndClear, StartWaybar, WritePid, EndStart, Step, launchOnly
  <2> QED
    BY <1>1, <2>1
<1>5. ASSUME Send PROVE LaunchInv'
  <2>1. sends' \in 0..MaxMessages
    BY <1>5, SessionBoundsAssumption DEF Send, LaunchInv, LaunchTypeOK
  <2>2. inbox' \in [Launches -> Seq(Kinds)]
    <3>1. CASE Answered
      <4>1. name \in Launches /\ inbox[name] \in Seq(Kinds) /\ "toggle" \in Kinds
        BY <3>1 DEF LaunchInv, LaunchTypeOK, Answered, Kinds
      <4> QED
        BY <1>5, <3>1, <4>1, Inboxes DEF Send, LaunchInv, LaunchTypeOK
    <3> QED
      BY <1>5, <3>1 DEF Send, LaunchInv, LaunchTypeOK
  <2> QED
    BY <1>0, <1>5, <2>1, <2>2 DEF Send, LaunchInv, LaunchTypeOK, Alone, LaunchesApart, Alive
<1>6. ASSUME NEW p \in Pids, OverlayEnds(p) \/ PidReused(p) PROVE LaunchInv'
  BY <1>1, <1>6 DEF OverlayEnds, PidReused
<1> QED
  BY <1>2, <1>3, <1>4, <1>5, <1>6 DEF SessionNext

-----------------------------------------------------------------------------
Stopping == {"stop", "restart", "quit"}
(* What the GUI thread works at, and how far it is, fits the phase of its      *)
(* launch, the child and the process to get rid of.                            *)
JobFits(l) ==
  /\ phase[l] \notin {"running", "closing"} =>
       child[l] = NoPid /\ ~collected[l] /\ ~item[l] /\ job[l] = "idle"
  /\ phase[l] = "closing" =>
       /\ job[l] \in {"idle", "quit"}
       /\ child[l] = NoPid /\ ~collected[l]
       /\ job[l] = "idle" => ~item[l]
  /\ job[l] = "idle" <=> stage[l] = "none"
  /\ stage[l] = "end" => job[l] \in Stopping
  /\ stage[l] \in {"look", "clear", "spawn", "record"} => job[l] \in Launching \cup {"restart"}
  /\ stage[l] = "again" => job[l] = "restart"
  /\ stage[l] = "persist" => job[l] \in Launching
  /\ stage[l] \notin {"end", "look", "clear"} => target[l] = NoPid
  /\ stage[l] \in {"end", "again"} => child[l] = NoPid
  /\ stage[l] \in {"look", "clear", "spawn"} => child[l] = NoPid \/ collected[l]
  /\ stage[l] \in {"record", "persist"} => child[l] # NoPid /\ ~collected[l]
(* A pid that a controller counts on names a foreign process only if it was    *)
(* given away meanwhile.                                                       *)
OnlyReusedHeld ==
  \A l \in Launches : \A p \in {child[l], target[l]} \ {NoPid} :
     process[p] = "foreign" => p \in reused
(* The tray's item between two jobs, and what a job needs to set it right.     *)
ItemFits(l) ==
  phase[l] = "running" =>
     /\ job[l] = "idle" => /\ Living(l) => item[l]
                           /\ item[l] => Living(l) \/ l \in died
     /\ job[l] = "restart" => item[l]
     /\ job[l] = "launch" /\ stage[l] \in {"look", "clear", "spawn"} /\ item[l] => l \in died
     /\ stage[l] \in {"record", "persist"} => Living(l) \/ l \in died
(* A launch knows every overlay that counts: it is its child, or the process   *)
(* it is getting rid of; what it has in memory is what is stored.              *)
KnownTo(l) ==
  /\ Idle(l) => \A p \in Tracked : child[l] = p /\ ~collected[l]
  /\ stage[l] \in {"end", "look", "clear"} => Tracked \subseteq {target[l]}
  /\ stage[l] \in {"again", "spawn"} => Tracked = {}
  /\ stage[l] \in {"record", "persist"} => Tracked \subseteq {child[l]}
  /\ ~collected[l] => child[l] \notin stray
  /\ phase[l] = "running" => enabled[l] = stored
  /\ job[l] = "restart" => stored
(* The pid file names every overlay that counts, and one is there only if it   *)
(* is stored, but for a launch that is about to write that down.               *)
Writing(p, at) == \E l \in Launches : Alive(l) /\ stage[l] \in at /\ child[l] = p
MineIsNamed ==
  \A p \in Tracked : /\ pidFile = p \/ Writing(p, {"record"})
                     /\ stored \/ Writing(p, {"record", "persist"})
(* The inductive invariant of launches and overlays.                           *)
OverlayInv ==
  /\ OverlayTypeOK
  /\ LaunchInv
  /\ \A l \in Launches : JobFits(l)
  /\ OnlyReusedHeld
  /\ OnlyReusedPidsHurt
  /\ Alone => \A l \in Launches : ItemFits(l)
  /\ Alone /\ ~spoiled => MineIsNamed /\ \A l \in Launches : KnownTo(l)

LEMMA OverlayInitInv == SessionInit => OverlayInv
<1> SUFFICES ASSUME SessionInit PROVE OverlayInv
  OBVIOUS
<1>1. OverlayTypeOK
  <2>1. commands \in 0..MaxCommands /\ losses \in 0..MaxLost
    BY OverlayAssumption DEF SessionInit, OverlayInit
  <2>2. stored \in BOOLEAN /\ spoiled \in BOOLEAN
    BY DEF SessionInit, OverlayInit
  <2> QED
    BY <2>1, <2>2 DEF SessionInit, OverlayInit, OverlayTypeOK, Jobs, Stages
<1>2. LaunchInv
  BY LaunchInitInv
<1>3. Tracked = {}
  BY DEF SessionInit, OverlayInit, Tracked, Mine
<1>4. \A l \in Launches : phase[l] = "none" /\ JobFits(l)
  BY DEF SessionInit, OverlayInit, LaunchInit, JobFits, Launching, Stopping
<1>5. \A l \in Launches : ItemFits(l) /\ KnownTo(l)
  BY <1>3, <1>4 DEF SessionInit, OverlayInit, ItemFits, KnownTo, Idle
<1>6. OnlyReusedHeld /\ OnlyReusedPidsHurt /\ MineIsNamed
  BY <1>3 DEF SessionInit, OverlayInit, OnlyReusedHeld, OnlyReusedPidsHurt, MineIsNamed
<1> QED
  BY <1>1, <1>2, <1>4, <1>5, <1>6 DEF OverlayInv

(* Nobody else is up when launches were apart. *)
LEMMA AloneUp ==
  ASSUME LaunchInv, Alone, NEW l \in Launches, Alive(l)
  PROVE  \A o \in Launches \ {l} : ~Alive(o)
BY DEF LaunchInv, LaunchesApart, Alive

(* Nothing is asked of a launch that is not up.                                *)
LEMMA Silent ==
  ASSUME NEW l \in Launches, JobFits(l), ~Alive(l), NoPid \notin stray
  PROVE  ItemFits(l) /\ KnownTo(l)
BY DEF JobFits, Alive, Answering, ItemFits, KnownTo, Idle

(* Nobody but the launch that is up writes; otherwise all is written down.     *)
Named == Tracked \subseteq {pidFile}
Stored == Tracked # {} => stored
LEMMA WrittenDown ==
  ASSUME OverlayInv, Alone, ~spoiled, NEW l \in Launches, Alive(l)
  PROVE  /\ stage[l] # "record" => Named
         /\ stage[l] \notin {"record", "persist"} => Stored
<1>1. MineIsNamed /\ \A o \in Launches : Alive(o) => o = l
  BY AloneUp DEF OverlayInv
<1> QED
  BY <1>1 DEF MineIsNamed, Writing, Named, Stored

LEMMA NamedAndStored == /\ Named /\ Stored => MineIsNamed
                        /\ Named' /\ Stored' => MineIsNamed'
BY DEF Named, Stored, MineIsNamed

OthersKeep(l) ==
  \A o \in Launches \ {l} :
     /\ phase'[o] = phase[o] /\ child'[o] = child[o] /\ collected'[o] = collected[o]
     /\ item'[o] = item[o] /\ job'[o] = job[o] /\ stage'[o] = stage[o]
     /\ target'[o] = target[o]

(* A step of launch l: what it must leave true. *)
LEMMA StepOf ==
  ASSUME OverlayInv, SessionNext, NEW l \in Launches, Alive(l), OthersKeep(l),
         JobFits(l)', reused' = reused, OnlyReusedPidsHurt',
         UNCHANGED <<crowded, unserved>>, spoiled => spoiled',
         \A p \in Pids : process'[p] = "foreign" => process[p] = "foreign",
         \A p \in {child'[l], target'[l]} \ {NoPid} :
            p \in {child[l], target[l]} \/ process'[p] # "foreign",
         Alone => ItemFits(l)',
         Alone /\ ~spoiled' => MineIsNamed' /\ KnownTo(l)'
  PROVE  OverlayInv'
<1>1. OverlayTypeOK' /\ LaunchInv'
  BY TypesOK, LaunchInvStep DEF OverlayInv, LaunchInv
<1>2. \A o \in Launches : JobFits(o)'
  BY DEF OverlayInv, OthersKeep, JobFits
<1>3. OnlyReusedHeld'
  BY HelperTypes, <1>1 DEF OverlayInv, OnlyReusedHeld, OthersKeep, OverlayTypeOK
<1>4. ASSUME Alone PROVE \A o \in Launches \ {l} : ItemFits(o)' /\ KnownTo(o)'
  <2> SUFFICES ASSUME NEW o \in Launches \ {l} PROVE ItemFits(o)' /\ KnownTo(o)'
    OBVIOUS
  <2>1. ~Alive(o)'
    BY <1>4, AloneUp DEF OverlayInv, OthersKeep, Alive
  <2>2. NoPid \notin stray'
    BY <1>1, HelperTypes DEF OverlayInv, OverlayTypeOK
  <2> QED
    BY <1>2, <2>1, <2>2 DEF JobFits, Alive, Answering, ItemFits, KnownTo, Idle
<1>5. Alone' => Alone
  BY DEF Alone
<1> QED
  BY <1>1, <1>2, <1>3, <1>4, <1>5 DEF OverlayInv

(* start(), from a command or when the launch begins.                          *)
LEMMA Starts ==
  ASSUME OverlayInv, NEW l \in Launches, NEW what \in Launching, StartOverlay(l, what),
         phase[l] \in {"started", "running"}, job[l] = "idle",
         phase' = [phase EXCEPT ![l] = "running"],
         enabled' = [enabled EXCEPT ![l] = stored] \/ (phase[l] = "running" /\ UNCHANGED enabled),
         UNCHANGED <<pidFile, stored, reused, died, stray, crowded, unserved>>,
         SessionNext
  PROVE  OverlayInv'
<1> USE DEF OverlayInv, OverlayTypeOK
<1>1. /\ Alive(l) /\ JobFits(l) /\ stage[l] = "none"
      /\ child[l] \in Pids \cup {NoPid} /\ NoPid \notin Pids
  BY HelperTypes DEF Alive, Answering, JobFits
<1>2. phase'[l] = "running" /\ phase \in [Launches -> Phases]
  BY DEF LaunchInv, LaunchTypeOK, Phases, Listeners
<1>3. Living(l) => phase[l] = "running"
  BY <1>1 DEF JobFits, Living
<1>4. Alone => ItemFits(l) 
  OBVIOUS
<1>5. Alone /\ ~spoiled => Named /\ Stored /\ KnownTo(l)
  BY <1>1, WrittenDown
<1>6. CASE Living(l) /\ item' = [item EXCEPT ![l] = @ \/ what = "check"]
           /\ UNCHANGED <<process, collected, child, job, stage, target, hurt,
                         spoiled, failures>>
  <2>1. OthersKeep(l)
    BY <1>2, <1>6 DEF OthersKeep
  <2>2. JobFits(l)'
    BY <1>1, <1>2, <1>3, <1>6 DEF JobFits, Launching, Stopping
  <2>3. Alone => ItemFits(l)'
    BY <1>1, <1>2, <1>3, <1>4, <1>6 DEF ItemFits, Living, Launching
  <2>4. Alone /\ ~spoiled' => Named' /\ Stored' /\ KnownTo(l)'
    BY <1>1, <1>2, <1>3, <1>5, <1>6 DEF Named, Stored, KnownTo, Idle, Tracked, Mine
  <2> QED
    BY <1>1, <1>6, <2>1, <2>2, <2>3, <2>4, NamedAndStored, StepOf DEF OnlyReusedPidsHurt
<1>7. CASE ~Living(l) /\ BeginLaunch(l, what) /\ UNCHANGED <<spoiled, failures>>
  <2>0. \A p \in Pids : process'[p] = process[p] \/ (process[p] = "zombie" /\ process'[p] = "free")
    BY <1>1, <1>7 DEF BeginLaunch, Poll
  <2>1. /\ job'[l] = what /\ stage'[l] \in {"look", "clear"} /\ target'[l] = StalePid
        /\ child' = child /\ item' = item /\ collected'[l] = (child[l] # NoPid)
        /\ hurt' = hurt
    BY <1>7 DEF BeginLaunch, LookForLeftover, GoesOn, Polled
  <2>2. OthersKeep(l)
    BY <1>2, <1>7 DEF OthersKeep, BeginLaunch, LookForLeftover, GoesOn, Polled
  <2>3. JobFits(l)'
    BY <1>2, <2>1 DEF JobFits, Launching, Stopping
  <2>4. Alone => ItemFits(l)'
    BY <1>1, <1>2, <1>4, <1>7, <2>1 DEF ItemFits, Launching, JobFits
  <2>5. StalePid # NoPid => StalePid \in Pids /\ process[StalePid] = "ours" /\ process'[StalePid] = "ours"
    BY <1>1, <2>0, HelperTypes DEF StalePid
  <2>6. Tracked' \subseteq Tracked
    BY <2>0 DEF Tracked, Mine
  <2>7. ASSUME Alone, ~spoiled' PROVE Named' /\ Stored' /\ KnownTo(l)'
    <3>1. Named' /\ Stored' /\ Tracked' \subseteq {StalePid}
      BY <1>1, <1>5, <1>7, <2>6, <2>7 DEF Named, Stored, StalePid, Tracked, Mine
    <3>2. enabled'[l] = stored
      BY <1>5, <1>7, <2>7 DEF KnownTo
    <3>3. ~collected'[l] => child'[l] \notin stray'
      BY <1>1, <2>1
    <3> QED
      BY <2>1, <3>1, <3>2, <3>3 DEF KnownTo, Idle, Launching
  <2> QED
    BY <1>1, <1>7, <2>0, <2>1, <2>2, <2>3, <2>4, <2>5, <2>7, NamedAndStored, StepOf
    DEF OnlyReusedPidsHurt
<1>8. CASE /\ ~Living(l) /\ failures < MaxFailures /\ failures' = failures + 1
           /\ NotFound(l, what)
  <2>0. \A p \in Pids : process'[p] = process[p] \/ (process[p] = "zombie" /\ process'[p] = "free")
    BY <1>1, <1>8 DEF NotFound, Poll
  <2>1. OthersKeep(l)
    BY <1>2, <1>8 DEF OthersKeep, NotFound, Polled, Unchecked
  <2>2. JobFits(l)'
    BY <1>1, <1>2, <1>8 DEF JobFits, Launching, Stopping, NotFound
  <2>3. ~Living(l)'
    BY <1>8 DEF NotFound, Living, Polled
  <2>4. Alone => ItemFits(l)'
    <3>1. Alone /\ item[l] => l \in died
      BY <1>1, <1>4, <1>8 DEF ItemFits, JobFits
    <3>2. Alone /\ item'[l] => l \in died
      BY <1>8, <3>1 DEF NotFound, Unchecked
    <3>3. job'[l] = "idle" /\ stage'[l] = "none"
      BY <1>1, <1>8 DEF NotFound
    <3>4. Living(l)' = FALSE
      BY <2>3 DEF Living
    <3> QED
      BY <1>8, <3>2, <3>3, <3>4 DEF ItemFits
  <2> QED
    BY <1>1, <1>8, <2>0, <2>1, <2>2, <2>4, StepOf DEF NotFound, OnlyReusedPidsHurt
<1> QED
  BY <1>6, <1>7, <1>8 DEF StartOverlay

(* _terminate(), as far as the wait.                                           *)
LEMMA Terminates ==
  ASSUME OverlayInv, NEW l \in Launches, NEW what \in Stopping, BeginTerminate(l, what),
         Idle(l), \/ UNCHANGED phase /\ what # "quit"
                  \/ phase' = [phase EXCEPT ![l] = "closing"] /\ what = "quit",
         stored' = stored \/ stored' = enabled[l],
         spoiled' = spoiled,
         UNCHANGED <<enabled, pidFile, reused, died, stray, crowded, unserved>>,
         what = "restart" => Living(l),
         SessionNext
  PROVE  OverlayInv'
<1> USE DEF OverlayInv, OverlayTypeOK
<1>1. /\ Alive(l) /\ JobFits(l) /\ stage[l] = "none"
      /\ child[l] \in Pids \cup {NoPid} /\ NoPid \notin Pids
  BY HelperTypes DEF Alive, Answering, Idle, JobFits
<1>2. phase \in [Launches -> Phases] /\ phase[l] = "running"
  BY DEF LaunchInv, LaunchTypeOK, Phases, Listeners, Idle
<1>3. /\ phase'[l] \in {"running", "closing"} /\ (phase'[l] = "closing" => what = "quit")
      /\ job'[l] = what /\ stage'[l] = "end" /\ child'[l] = NoPid /\ ~collected'[l]
      /\ target'[l] = IF Living(l) THEN child[l] ELSE NoPid
  BY <1>2 DEF BeginTerminate, GoesOn
<1>4. \A p \in Pids : process'[p] = process[p] \/ (process[p] = "zombie" /\ process'[p] = "free")
  BY <1>1 DEF BeginTerminate, Poll
<1>5. OthersKeep(l)
  BY <1>2 DEF OthersKeep, BeginTerminate, GoesOn
<1>6. JobFits(l)' /\ (Alone => ItemFits(l)')
  <2>1. JobFits(l)'
    BY <1>3 DEF JobFits, Launching, Stopping
  <2>2. Alone /\ what = "restart" => item'[l]
    BY <1>2 DEF ItemFits, BeginTerminate, Idle
  <2> QED
    BY <1>3, <2>1, <2>2 DEF ItemFits, Stopping
<1>7. OnlyReusedPidsHurt'
  BY <1>1 DEF BeginTerminate, Signal, OnlyReusedPidsHurt, OnlyReusedHeld
<1>8. ASSUME Alone, ~spoiled' PROVE Named' /\ Stored' /\ KnownTo(l)'
  <2>1. Named /\ Stored /\ KnownTo(l)
    BY <1>1, <1>8, WrittenDown
  <2>2. stored' = stored
    BY <1>2, <2>1 DEF KnownTo
  <2>3. Tracked' \subseteq Tracked
    BY <1>4 DEF Tracked, Mine
  <2>4. Tracked' \subseteq {target'[l]}
    BY <1>3, <2>1, <2>3, <1>1 DEF KnownTo, Tracked, Mine, Living
  <2>5. what = "restart" => stored
    <3>1. Living(l) => child[l] \in Tracked
      BY <1>1, <2>1 DEF Living, KnownTo, Tracked, Mine
    <3> QED
      BY <2>1, <3>1 DEF Stored
  <2>6. NoPid \notin stray'
    BY <1>1
  <2> QED
    BY <1>2, <1>3, <2>1, <2>2, <2>3, <2>4, <2>5, <2>6 DEF Named, Stored, KnownTo, Idle, Stopping
<1> QED
  BY <1>1, <1>3, <1>4, <1>5, <1>6, <1>7, <1>8, NamedAndStored, StepOf

(* The steps of a job.  What they have in common.                              *)
LEMMA AtWork ==
  ASSUME OverlayInv, NEW l \in Launches, Work(l)
  PROVE  /\ Alive(l) /\ JobFits(l) /\ stage[l] # "none" /\ job[l] # "idle" /\ NoPid \notin Pids
         /\ child[l] \in Pids \cup {NoPid} /\ target[l] \in Pids \cup {NoPid}
         /\ phase[l] = "closing" => job[l] = "quit"
         /\ phase[l] \in {"running", "closing"}
         /\ UNCHANGED <<phase, crowded, unserved, reused>>
         /\ OthersKeep(l)
         /\ spoiled => spoiled'
<1> USE DEF OverlayInv, OverlayTypeOK
<1>1. stage[l] # "none" /\ UNCHANGED <<phase, crowded, unserved, reused>>
  BY DEF Work, EndTerminate, Relaunch, SignalLeftover, EndClear, StartWaybar, WritePid, EndStart,
     Step, launchOnly
<1>2. /\ JobFits(l) /\ job[l] # "idle" /\ phase[l] \in {"running", "closing"}
      /\ phase[l] = "closing" => job[l] = "quit"
  BY <1>1 DEF JobFits
<1>3. OthersKeep(l)
  BY <1>1 DEF Work, EndTerminate, Relaunch, SignalLeftover, EndClear, StartWaybar, WritePid,
     EndStart, LookForLeftover, LaunchFails, Unchecked, Spawn, Done, GoesOn, OthersKeep
<1>4. spoiled => spoiled'
  BY DEF Work, EndTerminate, Relaunch, SignalLeftover, EndClear, StartWaybar, WritePid,
     EndStart, LookForLeftover, LaunchFails, Spawn, PersistEnabled
<1> QED
  BY <1>1, <1>2, <1>3, <1>4, HelperTypes DEF Alive, Answering

(* A launch fails when nothing of ours is there.                               *)
LEMMA Fails ==
  ASSUME OverlayInv, NEW l \in Launches, Work(l), LaunchFails(l), SessionNext,
         stage[l] \in {"again", "spawn"}
  PROVE  OverlayInv'
<1> USE DEF OverlayInv, OverlayTypeOK
<1>1. /\ process' = process /\ child' = child /\ collected' = collected /\ hurt' = hurt
      /\ pidFile' = pidFile /\ stored' = stored /\ enabled' = enabled /\ target' = target
      /\ stray' = stray /\ job'[l] = "idle" /\ stage'[l] = "none"
      /\ item'[l] = (item[l] /\ job[l] = "launch")
      /\ died' = IF job[l] = "launch" THEN died ELSE died \ {l}
  BY DEF LaunchFails, Unchecked, Done, GoesOn
<1>2. child[l] = NoPid \/ collected[l]
  BY AtWork DEF JobFits
<1>3. JobFits(l)'
  BY <1>1, AtWork DEF JobFits, Launching, Stopping
<1>4. Living(l)' = FALSE
  BY <1>1, <1>2 DEF Living
<1>5. Alone => ItemFits(l)'
  <2>1. Alone /\ item'[l] => l \in died'
    BY <1>1, AtWork DEF ItemFits, JobFits
  <2> QED
    BY <1>1, <1>4, <2>1 DEF ItemFits
<1>6. ASSUME Alone, ~spoiled' PROVE Named' /\ Stored' /\ KnownTo(l)'
  <2>1. KnownTo(l) /\ Tracked = {}
    BY <1>6, AtWork DEF KnownTo
  <2>2. Tracked' = {}
    BY <1>1, <2>1 DEF Tracked, Mine
  <2> QED
    BY <1>1, <2>1, <2>2, AtWork DEF Named, Stored, KnownTo
<1>7. OnlyReusedPidsHurt'
  BY <1>1, AtWork DEF OnlyReusedPidsHurt
<1> QED
  BY <1>1, <1>3, <1>5, <1>6, <1>7, AtWork, NamedAndStored, StepOf

(* What waited for is gone.                                                    *)
LEMMA Gone ==
  ASSUME OverlayInv, NEW l \in Launches, process' = AfterWait(l), KillLate(l), stray' = stray,
         reused' = reused
  PROVE  /\ \A p \in Pids : process'[p] = process[p] \/ process'[p] \in {"free", "zombie"}
         /\ Tracked \subseteq {target[l]} => Tracked' = {}
         /\ OnlyReusedPidsHurt'
<1> USE DEF OverlayInv, OverlayTypeOK
<1>1. NoPid \notin Pids
  BY HelperTypes
<1>2. \A p \in Pids : process'[p] = process[p] \/ process'[p] \in {"free", "zombie"}
  BY DEF AfterWait
<1>3. \A p \in Pids : process'[p] = "ours" => process[p] = "ours" /\ p # target[l]
  BY <1>1 DEF AfterWait
<1>4. Tracked \subseteq {target[l]} => Tracked' = {}
  BY <1>3 DEF Tracked, Mine
<1> QED
  BY <1>2, <1>4 DEF KillLate, OnlyReusedPidsHurt, OnlyReusedHeld

LEMMA EndTerminates ==
  ASSUME OverlayInv, NEW l \in Launches, Work(l), EndTerminate(l), SessionNext
  PROVE  OverlayInv'
<1> USE DEF OverlayInv, OverlayTypeOK
<1>1. /\ stage[l] = "end" /\ child[l] = NoPid /\ job[l] \in Stopping
      /\ child' = child /\ collected' = collected /\ stray' = stray /\ target'[l] = NoPid
  BY AtWork DEF EndTerminate, Step, JobFits
<1>2. /\ \A p \in Pids : process'[p] = process[p] \/ process'[p] \in {"free", "zombie"}
      /\ Tracked \subseteq {target[l]} => Tracked' = {}
      /\ OnlyReusedPidsHurt'
  BY <1>1, Gone, AtWork DEF EndTerminate
<1>3. \/ /\ job[l] = "restart" /\ job'[l] = "restart" /\ stage'[l] = "again"
         /\ UNCHANGED <<item, died>>
      \/ job[l] # "restart" /\ job'[l] = "idle" /\ stage'[l] = "none" /\ item'[l] = FALSE
  BY DEF EndTerminate, Done, GoesOn
<1>4. JobFits(l)'
  BY <1>1, <1>3, AtWork DEF JobFits, Launching, Stopping
<1>5. Alone => ItemFits(l)'
  <2>1. Living(l)' = FALSE
    BY <1>1 DEF Living
  <2>2. Alone /\ job[l] = "restart" /\ phase[l] = "running" => item[l]
    BY DEF ItemFits
  <2> QED
    BY <1>3, <2>1, <2>2, AtWork DEF ItemFits
<1>6. ASSUME Alone, ~spoiled' PROVE Named' /\ Stored' /\ KnownTo(l)'
  <2>1. KnownTo(l) /\ Tracked' = {}
    BY <1>1, <1>2, <1>6, AtWork DEF KnownTo
  <2>2. phase[l] = "running" => enabled'[l] = stored'
    <3>1. CASE job[l] = "stop"
      <4>1. enabled'[l] = FALSE /\ stored' = IF enabled[l] = FALSE THEN stored ELSE FALSE
        BY <1>6, <3>1 DEF EndTerminate, PersistEnabled
      <4> QED
        BY <2>1, <4>1 DEF KnownTo
    <3>2. CASE job[l] # "stop"
      BY <2>1, <3>2 DEF EndTerminate, KnownTo
    <3> QED
      BY <3>1, <3>2
  <2>3. job'[l] = "restart" => stored'
    BY <1>3, <2>1 DEF EndTerminate, KnownTo
  <2> QED
    BY <1>1, <1>3, <2>1, <2>2, <2>3, AtWork DEF Named, Stored, KnownTo
<1>7. \A p \in Pids : process'[p] = "foreign" => process[p] = "foreign"
  BY <1>2
<1> QED
  BY <1>1, <1>2, <1>4, <1>5, <1>6, <1>7, AtWork, NamedAndStored, StepOf

LEMMA Relaunches ==
  ASSUME OverlayInv, NEW l \in Launches, Work(l), Relaunch(l), SessionNext
  PROVE  OverlayInv'
<1> USE DEF OverlayInv, OverlayTypeOK
<1>1. stage[l] = "again" /\ job[l] = "restart"
  BY AtWork DEF Relaunch, Step, JobFits
<1>2. CASE LaunchFails(l)
  BY <1>1, <1>2, Fails
<1>3. CASE /\ LookForLeftover(l, "restart")
           /\ UNCHANGED <<failures, process, child, collected, pidFile, stored, enabled, item,
                          hurt, died, stray, spoiled>>
  <2>1. /\ job'[l] = "restart" /\ stage'[l] \in {"look", "clear"} /\ target'[l] = StalePid
    BY <1>3 DEF LookForLeftover, GoesOn
  <2>2. JobFits(l)'
    BY <1>1, <1>3, <2>1, AtWork DEF JobFits, Launching, Stopping
  <2>3. Alone => ItemFits(l)'
    BY <1>1, <1>3, <2>1, AtWork DEF ItemFits
  <2>4. ASSUME Alone, ~spoiled' PROVE Named' /\ Stored' /\ KnownTo(l)'
    <3>1. KnownTo(l) /\ Tracked = {} /\ Tracked' = {}
      BY <1>1, <1>3, <2>4, AtWork DEF KnownTo, Tracked, Mine
    <3> QED
      BY <1>1, <1>3, <2>1, <3>1, AtWork DEF Named, Stored, KnownTo, Idle
  <2>5. StalePid # NoPid => process[StalePid] = "ours"
    BY DEF StalePid
  <2> QED
    BY <1>3, <2>1, <2>2, <2>3, <2>4, <2>5, AtWork, NamedAndStored, StepOf DEF OnlyReusedPidsHurt
<1> QED
  BY <1>2, <1>3 DEF Relaunch

LEMMA Signals ==
  ASSUME OverlayInv, NEW l \in Launches, Work(l), SignalLeftover(l), SessionNext
  PROVE  OverlayInv'
<1> USE DEF OverlayInv, OverlayTypeOK
<1>1. /\ stage[l] = "look" /\ stage'[l] = "clear" /\ job' = [job EXCEPT ![l] = job[l]]
      /\ UNCHANGED <<process, child, collected, pidFile, stored, enabled, item, died, stray, spoiled>>
      /\ target'[l] = IF process[target[l]] = "free" THEN NoPid ELSE target[l]
  BY DEF SignalLeftover, Step, GoesOn
<1>2. job' = job
  BY <1>1
<1>3. JobFits(l)'
  BY <1>1, <1>2, AtWork DEF JobFits, Launching, Stopping
<1>4. Alone => ItemFits(l)'
  BY <1>1, <1>2, AtWork DEF ItemFits, Living
<1>5. OnlyReusedPidsHurt'
  BY AtWork DEF SignalLeftover, Signal, OnlyReusedPidsHurt, OnlyReusedHeld
<1>6. ASSUME Alone, ~spoiled' PROVE Named' /\ Stored' /\ KnownTo(l)'
  <2>1. Named /\ Stored /\ KnownTo(l) /\ Tracked \subseteq {target[l]}
    BY <1>1, <1>6, AtWork, WrittenDown DEF KnownTo
  <2>2. Tracked' = Tracked /\ Tracked \subseteq {target'[l]}
    BY <1>1, <2>1, AtWork DEF Tracked, Mine
  <2> QED
    BY <1>1, <1>2, <2>1, <2>2, AtWork DEF Named, Stored, KnownTo, Idle
<1> QED
  BY <1>1, <1>3, <1>4, <1>5, <1>6, AtWork, NamedAndStored, StepOf

LEMMA EndClears ==
  ASSUME OverlayInv, NEW l \in Launches, Work(l), EndClear(l), SessionNext
  PROVE  OverlayInv'
<1> USE DEF OverlayInv, OverlayTypeOK
<1>1. /\ stage[l] = "clear" /\ stage'[l] = "spawn" /\ job' = [job EXCEPT ![l] = job[l]]
      /\ UNCHANGED <<child, collected, stored, enabled, item, died, stray, spoiled>>
      /\ target'[l] = NoPid
  BY DEF EndClear, Step, GoesOn
<1>2. job' = job
  BY <1>1
<1>3. /\ \A p \in Pids : process'[p] = process[p] \/ process'[p] \in {"free", "zombie"}
      /\ Tracked \subseteq {target[l]} => Tracked' = {}
      /\ OnlyReusedPidsHurt'
  BY <1>1, Gone, AtWork DEF EndClear
<1>4. JobFits(l)'
  BY <1>1, <1>2, AtWork DEF JobFits, Launching, Stopping
<1>5. Alone => ItemFits(l)'
  BY <1>1, <1>2, AtWork DEF ItemFits
<1>6. ASSUME Alone, ~spoiled' PROVE Named' /\ Stored' /\ KnownTo(l)'
  <2>1. KnownTo(l) /\ Tracked' = {}
    BY <1>1, <1>3, <1>6, AtWork DEF KnownTo
  <2> QED
    BY <1>1, <1>2, <2>1, AtWork DEF Named, Stored, KnownTo, Idle
<1>7. \A p \in Pids : process'[p] = "foreign" => process[p] = "foreign"
  BY <1>3
<1> QED
  BY <1>1, <1>3, <1>4, <1>5, <1>6, <1>7, AtWork, NamedAndStored, StepOf

LEMMA Spawns ==
  ASSUME OverlayInv, NEW l \in Launches, Work(l), stage[l] = "spawn", NEW p \in Pids, Spawn(l, p),
         SessionNext
  PROVE  OverlayInv'
<1> USE DEF OverlayInv, OverlayTypeOK
<1>1. /\ process' = [process EXCEPT ![p] = "ours"] /\ process'[p] = "ours"
      /\ child'[l] = p /\ collected'[l] = FALSE /\ stray' = stray \ {p}
      /\ UNCHANGED <<pidFile, stored, enabled, item, target, hurt, spoiled>>
      /\ job' = [job EXCEPT ![l] = job[l]] /\ stage'[l] = "record"
  BY DEF Spawn, GoesOn
<1>2. job' = job /\ job[l] \in Launching \cup {"restart"} /\ target[l] = NoPid
  BY <1>1, AtWork DEF JobFits
<1>3. phase[l] = "running"
  BY <1>2, AtWork DEF Launching
<1>4. Living(l)'
  BY <1>1, AtWork DEF Living
<1>5. JobFits(l)'
  BY <1>1, <1>2, <1>3, AtWork DEF JobFits, Launching, Stopping
<1>6. Alone => ItemFits(l)'
  BY <1>1, <1>2, <1>3, <1>4, AtWork DEF ItemFits, Launching
<1>7. ASSUME Alone, ~spoiled' PROVE MineIsNamed' /\ KnownTo(l)'
  <2>1. KnownTo(l) /\ Tracked = {}
    BY <1>1, <1>7, AtWork DEF KnownTo
  <2>2. Tracked' \subseteq {p}
    BY <1>1, <2>1 DEF Tracked, Mine
  <2>3. Alive(l)'
    BY AtWork DEF Alive
  <2>4. MineIsNamed'
    BY <1>1, <2>2, <2>3 DEF MineIsNamed, Writing
  <2> QED
    BY <1>1, <1>2, <2>1, <2>2, <2>4, AtWork DEF KnownTo, Idle
<1>8. \A q \in Pids : process'[q] = "foreign" => process[q] = "foreign"
  BY <1>1
<1>9. \A q \in {child'[l], target'[l]} \ {NoPid} : q \in {child[l], target[l]} \/ process'[q] # "foreign"
  BY <1>1
<1> QED
  BY <1>1, <1>5, <1>6, <1>7, <1>8, <1>9, AtWork, StepOf DEF OnlyReusedPidsHurt

LEMMA StartsWaybar ==
  ASSUME OverlayInv, NEW l \in Launches, Work(l), StartWaybar(l), SessionNext
  PROVE  OverlayInv'
<1>1. stage[l] = "spawn"
  BY DEF StartWaybar, Step
<1>2. CASE LaunchFails(l)
  BY <1>1, <1>2, Fails
<1>3. ASSUME NEW p \in Pids, Spawn(l, p) PROVE OverlayInv'
  BY <1>1, <1>3, Spawns
<1> QED
  BY <1>2, <1>3 DEF StartWaybar

LEMMA WritesPid ==
  ASSUME OverlayInv, NEW l \in Launches, Work(l), WritePid(l), SessionNext
  PROVE  OverlayInv'
<1> USE DEF OverlayInv, OverlayTypeOK
<1>1. /\ stage[l] = "record" /\ target[l] = NoPid
      /\ UNCHANGED <<process, child, collected, stored, enabled, item, target, hurt, died, stray>>
  BY AtWork DEF WritePid, Step, JobFits
<1>2. phase[l] = "running" /\ child[l] # NoPid /\ ~collected[l]
  BY <1>1, AtWork DEF JobFits, Launching
<1>3. \/ job[l] = "restart" /\ job'[l] = "idle" /\ stage'[l] = "none"
      \/ job[l] \in Launching /\ job'[l] = job[l] /\ stage'[l] = "persist"
  BY <1>1, AtWork DEF WritePid, Done, GoesOn, JobFits
<1>4. JobFits(l)'
  BY <1>1, <1>2, <1>3, AtWork DEF JobFits, Launching, Stopping
<1>5. Alone => ItemFits(l)'
  <2>1. Alone => (Living(l) \/ l \in died) /\ (job[l] = "restart" => item[l])
    BY <1>1, <1>2 DEF ItemFits
  <2>2. Living(l)' = Living(l)
    BY <1>1 DEF Living
  <2> QED
    BY <1>1, <1>3, <2>1, <2>2 DEF ItemFits, Launching
<1>6. ASSUME Alone, ~spoiled' PROVE MineIsNamed' /\ KnownTo(l)'
  <2>1. KnownTo(l) /\ Tracked \subseteq {child[l]} /\ Tracked' = Tracked
    BY <1>1, <1>6, AtWork DEF KnownTo, Tracked, Mine
  <2>2. pidFile' = child[l]
    BY <1>6 DEF WritePid
  <2>3. Alive(l)'
    BY AtWork DEF Alive
  <2>4. MineIsNamed'
    BY <1>1, <1>3, <2>1, <2>2, <2>3 DEF MineIsNamed, Writing, KnownTo
  <2> QED
    BY <1>1, <1>2, <1>3, <2>1, <2>4, AtWork DEF KnownTo, Idle, Launching
<1> QED
  BY <1>1, <1>4, <1>5, <1>6, AtWork, StepOf DEF OnlyReusedPidsHurt

LEMMA EndStarts ==
  ASSUME OverlayInv, NEW l \in Launches, Work(l), EndStart(l), SessionNext
  PROVE  OverlayInv'
<1> USE DEF OverlayInv, OverlayTypeOK
<1>1. /\ stage[l] = "persist" /\ target[l] = NoPid /\ PersistEnabled(l, TRUE)
      /\ item'[l] = TRUE /\ job'[l] = "idle" /\ stage'[l] = "none"
      /\ UNCHANGED <<process, child, collected, pidFile, target, hurt, died, stray>>
  BY AtWork DEF EndStart, Step, JobFits, Done, GoesOn
<1>2. phase[l] = "running" /\ child[l] # NoPid /\ ~collected[l]
  BY <1>1, AtWork DEF JobFits, Launching
<1>3. JobFits(l)'
  BY <1>1, <1>2, AtWork DEF JobFits, Launching, Stopping
<1>4. Alone => ItemFits(l)'
  <2>1. Alone => Living(l) \/ l \in died
    BY <1>1, <1>2 DEF ItemFits
  <2>2. Living(l)' = Living(l)
    BY <1>1 DEF Living
  <2> QED
    BY <1>1, <2>1, <2>2 DEF ItemFits
<1>5. ASSUME Alone, ~spoiled' PROVE Named' /\ Stored' /\ KnownTo(l)'
  <2>1. KnownTo(l) /\ Named /\ Tracked \subseteq {child[l]} /\ Tracked' = Tracked
    BY <1>1, <1>5, AtWork, WrittenDown DEF KnownTo, Tracked, Mine
  <2>2. enabled'[l] = TRUE /\ stored' = TRUE
    <3>1. enabled'[l] = TRUE /\ stored' = IF enabled[l] = TRUE THEN stored ELSE TRUE
      BY <1>1, <1>5 DEF PersistEnabled
    <3> QED
      BY <1>2, <2>1, <3>1 DEF KnownTo
  <2> QED
    BY <1>1, <1>2, <2>1, <2>2, AtWork DEF Named, Stored, KnownTo
<1> QED
  BY <1>1, <1>3, <1>4, <1>5, AtWork, NamedAndStored, StepOf DEF OnlyReusedPidsHurt

LEMMA Works ==
  ASSUME OverlayInv, NEW l \in Launches, Work(l), SessionNext
  PROVE  OverlayInv'
<1>1. CASE EndTerminate(l)
  BY <1>1, EndTerminates
<1>2. CASE Relaunch(l)
  BY <1>2, Relaunches
<1>3. CASE SignalLeftover(l)
  BY <1>3, Signals
<1>4. CASE EndClear(l)
  BY <1>4, EndClears
<1>5. CASE StartWaybar(l)
  BY <1>5, StartsWaybar
<1>6. CASE WritePid(l)
  BY <1>6, WritesPid
<1>7. CASE EndStart(l)
  BY <1>7, EndStarts
<1> QED
  BY <1>1, <1>2, <1>3, <1>4, <1>5, <1>6, <1>7 DEF Work

(* A move of a launch that leaves the overlays alone. *)
LEMMA Moved ==
  ASSUME OverlayInv, SessionNext, NEW l \in Launches, UNCHANGED overlayVars,
         Alone' => Alone,
         \A o \in Launches \ {l} : phase'[o] = phase[o],
         \/ phase'[l] = phase[l]
         \/ /\ phase[l] \notin {"running", "closing"}
            /\ phase'[l] \notin {"running", "closing"}
  PROVE  OverlayInv'
<1> USE DEF OverlayInv, overlayVars
<1>1. OverlayTypeOK' /\ LaunchInv'
  BY TypesOK, LaunchInvStep DEF LaunchInv
<1>2. \A o \in Launches : /\ phase'[o] = "running" <=> phase[o] = "running"
                         /\ phase'[o] = "closing" <=> phase[o] = "closing"
  OBVIOUS
<1>3. \A o \in Launches : JobFits(o)'
  BY <1>2 DEF JobFits
<1>4. \A o \in Launches : Living(o)' = Living(o) /\ (Idle(o)' <=> Idle(o))
  BY <1>2 DEF Living, Idle
<1>5. \A o \in Launches : (ItemFits(o) => ItemFits(o)') /\ (KnownTo(o) => KnownTo(o)')
  BY <1>2, <1>4 DEF ItemFits, KnownTo, Tracked, Mine
<1>6. OnlyReusedHeld' /\ OnlyReusedPidsHurt'
  BY DEF OnlyReusedHeld, OnlyReusedPidsHurt
<1>7. MineIsNamed => MineIsNamed'
  <2>1. \A o \in Launches : stage[o] # "none" => phase[o] \in {"running", "closing"}
    BY DEF JobFits
  <2>2. \A p \in Pids, at \in {{"record"}, {"record", "persist"}} : Writing(p, at) => Writing(p, at)'
    BY <1>2, <2>1 DEF Writing, Alive, Answering
  <2> QED
    BY <2>2 DEF MineIsNamed, Tracked, Mine
<1> QED
  BY <1>1, <1>3, <1>5, <1>6, <1>7

(* What the histories recorded stays.                                          *)
LEMMA AloneStays == SessionNext /\ LaunchInv /\ Alone' => Alone
<1> SUFFICES ASSUME SessionNext, LaunchInv, Alone' PROVE Alone
  OBVIOUS
<1> USE DEF LaunchInv, LaunchTypeOK, Alone
<1>1. ASSUME UNCHANGED <<crowded, unserved>> PROVE Alone
  BY <1>1
<1>2. ASSUME NEW l \in Launches, LaunchStep(l) PROVE Alone
  BY <1>2 DEF LaunchStep, Launch, LookForOwner, TakeName, ListenFails, ListenAgain,
     ToggleVisible, HideWindow
<1>3. ASSUME NEW l \in Launches, StartLaunch(l) \/ QuitLaunch(l) \/ CloseLaunch(l) \/ CrashLaunch(l)
      PROVE  Alone
  BY <1>3 DEF StartLaunch, EnterLoop, QuitLaunch, Quit, CloseLaunch, Close, CrashLaunch, Die
<1>4. ASSUME NEW l \in Launches, HandleMessage(l) \/ ClickButton(l) \/ ClickItem(l)
                                    \/ ApplySettings(l) \/ Work(l)
      PROVE  Alone
  BY <1>4 DEF HandleMessage, Handle, ClickButton, ClickItem, ApplySettings, Work, EndTerminate,
     Relaunch, SignalLeftover, EndClear, StartWaybar, WritePid, EndStart, Step, launchOnly
<1>5. CASE Send
  BY <1>5 DEF Send
<1>6. ASSUME NEW p \in Pids, OverlayEnds(p) \/ PidReused(p) PROVE Alone
  BY <1>6 DEF OverlayEnds, PidReused, launchOnly
<1> QED
  BY <1>2, <1>3, <1>4, <1>5, <1>6 DEF SessionNext

(* A message, the page's button, the tray's item.                              *)
LEMMA Commands ==
  ASSUME OverlayInv, SessionNext, NEW l \in Launches,
         HandleMessage(l) \/ ClickButton(l) \/ ClickItem(l)
  PROVE  OverlayInv'
<1>1. /\ phase[l] = "running" /\ job[l] = "idle" /\ Idle(l)
      /\ UNCHANGED <<phase, pidFile, stored, enabled, reused, died, stray, crowded, unserved>>
      /\ phase' = [phase EXCEPT ![l] = "running"]
  <2>1. /\ Idle(l)
        /\ UNCHANGED <<phase, pidFile, stored, enabled, reused, died, stray, crowded, unserved>>
    BY DEF HandleMessage, Handle, ClickButton, ClickItem, Commanded, recordVars, launchOnly
  <2> QED
    BY <2>1 DEF Idle, OverlayInv, LaunchInv, LaunchTypeOK
<1>2. \/ \E what \in Launching : StartOverlay(l, what)
      \/ BeginTerminate(l, "stop") /\ UNCHANGED spoiled
      \/ UNCHANGED overlayVars
  BY DEF HandleMessage, ClickButton, ClickItem, Toggle, Launching, Handle, recordVars, overlayVars
<1>3. ASSUME NEW what \in Launching, StartOverlay(l, what) PROVE OverlayInv'
  BY <1>1, <1>3, Starts
<1>4. CASE BeginTerminate(l, "stop") /\ UNCHANGED spoiled
  BY <1>1, <1>4, Terminates DEF Stopping
<1>5. CASE UNCHANGED overlayVars
  <2>1. phase' = phase /\ (Alone' => Alone)
    BY <1>1 DEF Alone
  <2> QED
    BY <1>5, <2>1, Moved
<1> QED
  BY <1>2, <1>3, <1>4, <1>5

(* Settings are applied.                                                       *)
LEMMA Applies ==
  ASSUME OverlayInv, SessionNext, NEW l \in Launches, ApplySettings(l)
  PROVE  OverlayInv'
<1>1. /\ Idle(l) /\ stored' \in {stored, enabled[l]}
      /\ UNCHANGED <<phase, pidFile, enabled, reused, died, stray, spoiled, crowded, unserved>>
  BY DEF ApplySettings, Commanded, recordVars, launchOnly
<1>2. CASE Living(l) /\ BeginTerminate(l, "restart")
  BY <1>1, <1>2, Terminates DEF Stopping
<1>3. CASE ~Living(l) /\ process' = Poll(l) /\ collected' = Polled(l)
           /\ UNCHANGED <<child, item, job, stage, target, hurt>>
  <2> USE DEF OverlayInv, OverlayTypeOK
  <2>1. /\ Alive(l) /\ JobFits(l) /\ stage[l] = "none"
        /\ child[l] \in Pids \cup {NoPid} /\ NoPid \notin Pids
    BY <1>1, HelperTypes DEF Alive, Answering, Idle, JobFits
  <2>2. \A p \in Pids : process'[p] = process[p] \/ (process[p] = "zombie" /\ process'[p] = "free")
    BY <1>3, <2>1 DEF Poll
  <2>3. OthersKeep(l)
    BY <1>1, <1>3 DEF OthersKeep, Polled
  <2>4. JobFits(l)'
    BY <1>1, <1>3, <2>1 DEF JobFits, Launching, Stopping, Idle
  <2>5. Living(l) = FALSE /\ Living(l)' = FALSE
    BY <1>3 DEF Living, Polled
  <2>6. Alone => ItemFits(l)'
    BY <1>1, <1>3, <2>1, <2>5 DEF ItemFits, Idle
  <2>7. ASSUME Alone, ~spoiled' PROVE Named' /\ Stored' /\ KnownTo(l)'
    <3>1. KnownTo(l) /\ enabled[l] = stored /\ stored' = stored
      BY <1>1, <2>7 DEF KnownTo, Idle
    <3>2. Tracked = {}
      BY <1>1, <2>1, <2>5, <3>1 DEF KnownTo, Living, Tracked, Mine
    <3>3. Tracked' = {}
      BY <1>1, <2>2, <3>2 DEF Tracked, Mine
    <3>4. ~collected'[l] => child'[l] \notin stray'
      BY <1>1, <1>3, <2>1 DEF Polled
    <3> QED
      BY <1>1, <1>3, <2>1, <3>1, <3>3, <3>4 DEF KnownTo, Named, Stored, Idle
  <2> QED
    BY <1>1, <1>3, <2>1, <2>2, <2>3, <2>4, <2>6, <2>7, NamedAndStored, StepOf
    DEF OnlyReusedPidsHurt
<1> QED
  BY <1>2, <1>3 DEF ApplySettings

(* A launch that is over holds nothing; what it leaves is named by the pid     *)
(* file, or it crashed before that was written.                                *)
LEMMA Leaves ==
  ASSUME OverlayInv, SessionNext, NEW l \in Launches, CloseLaunch(l) \/ CrashLaunch(l)
  PROVE  OverlayInv'
<1> USE DEF OverlayInv, OverlayTypeOK
<1>1. JobFits(l) /\ Alive(l) /\ phase \in [Launches -> Phases] /\ NoPid \notin Pids
  BY HelperTypes DEF CloseLaunch, Close, CrashLaunch, Die, Alive, Answering, LaunchInv,
                     LaunchTypeOK, Phases, Listeners
<1>2. /\ phase' = [phase EXCEPT ![l] = "over"]
      /\ UNCHANGED <<pidFile, stored, hurt, reused, spoiled, crowded, unserved>>
  BY DEF CloseLaunch, Close, CrashLaunch, Die
<1>3. OthersKeep(l)
  BY <1>1, <1>2 DEF OthersKeep, CloseLaunch, CrashLaunch, Done, GoesOn
<1>4. JobFits(l)'
  <2>1. CASE CloseLaunch(l)
    BY <1>1, <1>2, <2>1 DEF CloseLaunch, Close, JobFits, Launching, Stopping
  <2>2. CASE CrashLaunch(l)
    BY <1>1, <1>2, <2>2 DEF CrashLaunch, Done, GoesOn, JobFits, Launching, Stopping
  <2> QED
    BY <2>1, <2>2
<1>5. ~Alive(l)'
  BY <1>1, <1>2 DEF Alive, Answering
<1>6. ItemFits(l)' /\ KnownTo(l)'
  <2>1. OverlayTypeOK' /\ NoPid \notin stray'
    BY <1>1, TypesOK DEF LaunchInv
  <2> QED
    BY <1>4, <1>5, <2>1 DEF ItemFits, KnownTo, Idle, Alive, JobFits, Answering
<1>7. \A p \in Pids : process'[p] = process[p] \/ (process[p] = "zombie" /\ process'[p] = "free")
  BY DEF CloseLaunch, CrashLaunch
<1>8. ASSUME Alone, ~spoiled' PROVE Named' /\ Stored'
  <2>1. ~spoiled
    BY <1>2, <1>8
  <2>2. CASE CloseLaunch(l)
    <3>1. stage[l] = "none" /\ stray' = stray /\ process' = process
      BY <1>1, <2>2 DEF CloseLaunch, JobFits
    <3>2. Named /\ Stored /\ Tracked' = Tracked
      BY <1>1, <1>8, <2>1, <3>1, WrittenDown DEF Tracked, Mine
    <3> QED
      BY <1>2, <3>2 DEF Named, Stored
  <2>3. CASE CrashLaunch(l)
    <3>1. Tracked' \subseteq Tracked
      BY <1>7, <2>3 DEF CrashLaunch, Tracked, Mine
    <3>2. stage[l] \in {"record", "persist"} => Tracked \subseteq {child[l]}
      BY <1>8, <2>1 DEF KnownTo
    <3>3. stage[l] = "record" => Tracked' = {}
      BY <2>3, <3>1, <3>2 DEF CrashLaunch, Tracked, Mine
    <3>4. stage[l] = "persist" => Tracked' = {} \/ stored
      BY <2>3, <3>1, <3>2 DEF CrashLaunch, Tracked, Mine
    <3> QED
      BY <1>1, <1>2, <1>8, <2>1, <3>1, <3>3, <3>4, WrittenDown DEF Named, Stored
  <2> QED
    BY <2>2, <2>3
<1>9. \A p \in {child'[l], target'[l]} \ {NoPid} : p \in {child[l], target[l]}
  BY <1>1 DEF CloseLaunch, CrashLaunch
<1> QED
  BY <1>1, <1>2, <1>3, <1>4, <1>6, <1>7, <1>8, <1>9, NamedAndStored, StepOf
  DEF OnlyReusedPidsHurt

(* The processes of the system. *)
LEMMA SystemSteps ==
  ASSUME OverlayInv, SessionNext, NEW p \in Pids, OverlayEnds(p) \/ PidReused(p)
  PROVE  OverlayInv'
<1> USE DEF OverlayInv, OverlayTypeOK
<1>1. OverlayTypeOK' /\ LaunchInv'
  BY TypesOK, LaunchInvStep DEF LaunchInv
<1>2. UNCHANGED <<phase, crowded, unserved, child, collected, pidFile, stored, enabled, item,
                  job, stage, target, hurt, stray, spoiled>>
  BY DEF OverlayEnds, PidReused, launchOnly
<1>3. \A l \in Launches : JobFits(l)'
  BY <1>2 DEF JobFits
<1>4. /\ \A q \in Pids \ {p} : process'[q] = process[q]
      /\ process'[p] # "ours"
      /\ \A l \in Launches : child[l] = p /\ process[p] = "ours" => l \in died'
      /\ died \subseteq died' /\ reused \subseteq reused'
  BY DEF OverlayEnds, PidReused
<1>5. OnlyReusedHeld'
  <2>1. CASE OverlayEnds(p)
    BY <1>2, <1>4, <2>1, HelperTypes DEF OverlayEnds, OnlyReusedHeld
  <2>2. CASE PidReused(p)
    <3> SUFFICES ASSUME NEW l \in Launches, NEW q \in {child[l], target[l]} \ {NoPid},
                        process'[q] = "foreign"
                 PROVE  q \in reused'
      BY <1>2 DEF OnlyReusedHeld
    <3>1. CASE q = p
      <4>1. Alive(l)
        BY <1>1 DEF JobFits, Alive, Answering
      <4>2. Held(p)
        BY <3>1, <4>1 DEF Held
      <4> QED
        BY <2>2, <3>1, <4>2 DEF PidReused
    <3>2. CASE q # p
      BY <1>4, <3>2, HelperTypes DEF OnlyReusedHeld
    <3> QED
      BY <3>1, <3>2
  <2> QED
    BY <2>1, <2>2
<1>6. OnlyReusedPidsHurt'
  BY <1>2, <1>4 DEF OnlyReusedPidsHurt
<1>7. \A l \in Launches : /\ Living(l)' => Living(l)
                          /\ Living(l) => Living(l)' \/ l \in died'
  BY <1>2, <1>4 DEF Living
<1>8. \A l \in Launches : ItemFits(l) => ItemFits(l)'
  <2> SUFFICES ASSUME NEW l \in Launches, ItemFits(l) PROVE ItemFits(l)'
    OBVIOUS
  <2>1. Living(l) \/ l \in died => Living(l)' \/ l \in died'
    BY <1>4, <1>7
  <2>2. /\ phase'[l] = phase[l] /\ job'[l] = job[l] /\ stage'[l] = stage[l]
        /\ item'[l] = item[l]
    BY <1>2
  <2>3. Living(l)' => Living(l)
    BY <1>7 DEF Living
  <2>4. l \in died => l \in died'
    BY <1>4
  <2> QED
    BY <2>1, <2>2, <2>3, <2>4, Zenon DEF ItemFits
<1>9. Tracked' \subseteq Tracked
  BY <1>2, <1>4 DEF Tracked, Mine
<1>10. \A l \in Launches : KnownTo(l) => KnownTo(l)'
  BY <1>2, <1>9 DEF KnownTo, Idle
<1>11. MineIsNamed => MineIsNamed'
  BY <1>2, <1>9 DEF MineIsNamed, Writing, Alive
<1>12. Alone' => Alone
  BY <1>2 DEF Alone
<1> QED
  BY <1>1, <1>2, <1>3, <1>5, <1>6, <1>8, <1>10, <1>11, <1>12

(* Every step keeps the invariant.                                             *)
LEMMA OverlayInvStep == OverlayInv /\ [SessionNext]_sessionVars => OverlayInv'
<1> SUFFICES ASSUME OverlayInv, [SessionNext]_sessionVars PROVE OverlayInv'
  OBVIOUS
<1>1. CASE UNCHANGED sessionVars
  BY <1>1 DEF sessionVars, launchVars, overlayVars, OverlayInv, OverlayTypeOK, LaunchInv,
       LaunchTypeOK, Alone, LaunchesApart, Alive, JobFits, OnlyReusedHeld, OnlyReusedPidsHurt,
       ItemFits, Living, MineIsNamed, Writing, Tracked, Mine, KnownTo, Idle
<1>2. CASE SessionNext
  <2> USE <1>2
  <2>0. LaunchInv /\ (Alone' => Alone)
    BY AloneStays DEF OverlayInv
  <2>1. ASSUME NEW l \in Launches, LaunchStep(l) PROVE OverlayInv'
    <3>1. /\ UNCHANGED overlayVars
          /\ \A o \in Launches \ {l} : phase'[o] = phase[o]
          /\ \/ phase'[l] = phase[l]
             \/ /\ phase[l] \notin {"running", "closing"}
                /\ phase'[l] \notin {"running", "closing"}
      BY <2>0, <2>1 DEF LaunchStep, Launch, LookForOwner, TakeName, ListenFails, ListenAgain,
         ToggleVisible, HideWindow, HandsOver, FindsNobody, LaunchInv, LaunchTypeOK
    <3> QED
      BY <2>0, <3>1, Moved
  <2>2. ASSUME NEW l \in Launches, StartLaunch(l) PROVE OverlayInv'
    <3>1. /\ phase[l] = "started" /\ job[l] = "idle" /\ phase' = [phase EXCEPT ![l] = "running"]
          /\ enabled' = [enabled EXCEPT ![l] = stored]
          /\ UNCHANGED <<pidFile, stored, reused, died, stray, crowded, unserved>>
      BY <2>2 DEF StartLaunch, recordVars, EnterLoop, OverlayInv, JobFits
    <3>2. CASE StartOverlay(l, "launch")
      BY <3>1, <3>2, Starts DEF Launching
    <3>3. CASE UNCHANGED <<process, child, collected, item, job, stage, target, hurt, spoiled,
                           failures>>
               /\ ~stored
      <4> USE DEF OverlayInv
      <4>1. /\ JobFits(l) /\ Alive(l) /\ phase'[l] = "running" /\ stage[l] = "none"
            /\ OthersKeep(l)
        BY <3>1, <3>3 DEF Alive, Answering, OthersKeep, LaunchInv, LaunchTypeOK, JobFits
      <4>2. JobFits(l)' /\ child'[l] = NoPid /\ item'[l] = FALSE /\ Living(l)' = FALSE
        BY <3>1, <3>3, <4>1 DEF JobFits, Launching, Stopping, OverlayTypeOK, Living
      <4>3. ItemFits(l)'
        BY <3>1, <3>3, <4>1, <4>2 DEF ItemFits
      <4>4. ASSUME Alone, ~spoiled' PROVE Named' /\ Stored' /\ KnownTo(l)'
        <5>1. Tracked' = {}
          BY <3>1, <3>3, <4>1, <4>4, WrittenDown DEF Stored, Tracked, Mine
        <5>2. enabled'[l] = stored
          BY <3>1 DEF OverlayTypeOK
        <5> QED
          BY <3>1, <3>3, <4>1, <4>4, <5>1, <5>2 DEF Named, Stored, KnownTo
      <4> QED
        BY <3>1, <3>3, <4>1, <4>2, <4>3, <4>4, NamedAndStored, StepOf DEF OnlyReusedPidsHurt
    <3> QED
      BY <2>2, <3>2, <3>3 DEF StartLaunch
  <2>3. ASSUME NEW l \in Launches, QuitLaunch(l) PROVE OverlayInv'
    BY <2>3, Terminates DEF QuitLaunch, Quit, Stopping, recordVars
  <2>4. ASSUME Send, UNCHANGED overlayVars PROVE OverlayInv'
    <3>1. CASE Launches = {}
      <4>1. OverlayTypeOK' /\ LaunchInv'
        BY TypesOK, LaunchInvStep DEF OverlayInv, LaunchInv
      <4> QED
        BY <2>4, <3>1, <4>1 DEF Send, OverlayInv, overlayVars, OnlyReusedHeld, OnlyReusedPidsHurt, Writing,
           MineIsNamed, Tracked, Mine, Alone
    <3>2. CASE Launches # {}
      BY <2>0, <2>4, <3>2, Moved DEF Send
    <3> QED
      BY <3>1, <3>2
  <2> QED
    BY <2>1, <2>2, <2>3, <2>4, Commands, Applies, Works, Leaves, SystemSteps DEF SessionNext
<1> QED
  BY <1>1, <1>2

(* The invariant holds in every state of any number of launches and pids.      *)
THEOREM SessionInvariance == SessionSpec => []OverlayInv
BY OverlayInitInv, OverlayInvStep, PTL DEF SessionSpec

(* It implies what is promised of the launches ...                             *)
LEMMA LaunchesSound == LaunchInv => SessionIsSound
<1> SUFFICES ASSUME LaunchInv PROVE SessionIsSound
  OBVIOUS
<1>1. LaunchTypeOK
  BY DEF LaunchInv
<1>2. RunningIsReachable
  BY DEF RunningIsReachable, LaunchInv, Alone, LaunchesApart
<1>3. OneHueberry
  BY <1>2 DEF RunningIsReachable, OneHueberry, Alive, Answering
<1> QED
  BY <1>1, <1>2, <1>3 DEF SessionIsSound

(* ... and of the overlay.                                                     *)
LEMMA OverlaySound == OverlayInv => OverlayIsSound
<1> SUFFICES ASSUME OverlayInv PROVE OverlayIsSound
  OBVIOUS
<1> USE DEF OverlayInv
<1>1. ASSUME Alone, ~spoiled PROVE Cardinality(Tracked) <= 1
  <2>1. PICK q : Tracked \subseteq {q}
    <3>1. CASE \E l \in Launches : Alive(l) /\ stage[l] = "record"
      BY <1>1, <3>1 DEF KnownTo
    <3>2. CASE ~\E l \in Launches : Alive(l) /\ stage[l] = "record"
      BY <1>1, <3>2 DEF MineIsNamed, Writing
    <3> QED
      BY <3>1, <3>2
  <2>2. IsFiniteSet({q}) /\ Cardinality({q}) = 1
    BY FS_Singleton
  <2>3. Cardinality(Tracked) <= Cardinality({q})
    BY <2>1, <2>2, FS_Subset
  <2>4. IsFiniteSet(Tracked)
    BY <2>1, <2>2, FS_Subset
  <2> QED
    BY <2>2, <2>3, <2>4, FS_CardinalityType
<1>2. OneOverlay
  BY <1>1 DEF OneOverlay
<1>3. LeftoverIsNamed
  <2> SUFFICES ASSUME Alone, ~spoiled, NEW p \in Tracked, Orphan(p) PROVE pidFile = p
    BY DEF LeftoverIsNamed
  <2>1. ~Writing(p, {"record"})
    BY DEF Writing, Orphan, JobFits
  <2> QED
    BY <2>1 DEF MineIsNamed
<1>4. ItemIsTrue
  <2> SUFFICES ASSUME Alone, NEW l \in Launches, Idle(l)
               PROVE  /\ Living(l) => item[l] /\ (spoiled \/ stored)
                      /\ item[l] => Living(l) \/ l \in died
    BY DEF ItemIsTrue
  <2>1. (Living(l) => item[l]) /\ (item[l] => Living(l) \/ l \in died)
    BY DEF ItemFits, Idle
  <2>2. ASSUME ~spoiled, Living(l) PROVE stored
    <3>1. child[l] \in Tracked
      BY <2>2 DEF Living, KnownTo, Tracked, Mine, OverlayTypeOK
    <3>2. Alive(l) /\ stage[l] = "none"
      BY DEF Idle, Alive, Answering, JobFits
    <3> QED
      BY <2>2, <3>1, <3>2, WrittenDown DEF Stored
  <2> QED
    BY <2>1, <2>2
<1> QED
  BY <1>2, <1>3, <1>4 DEF OverlayIsSound

(* One Hueberry per user, reached by its name (SessionIsSound), for any number *)
(* of launches, crashes and messages (single_instance.py).                     *)
THEOREM SessionSound == SessionSpec => []SessionIsSound
<1>1. OverlayInv => SessionIsSound
  BY LaunchesSound DEF OverlayInv
<1> QED
  BY <1>1, SessionInvariance, PTL

(* One overlay at most, a leftover named by the pid file, nothing signalled but *)
(* what got a pid a controller counted on, and a tray item that is true        *)
(* (OverlayIsSound), for any number of launches and pids (sysmon/controller.py). *)
THEOREM OverlayHolds == SessionSpec => []OverlayIsSound
BY OverlaySound, SessionInvariance, PTL
=============================================================================
