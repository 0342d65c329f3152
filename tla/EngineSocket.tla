----------------------------- MODULE EngineSocket -----------------------------
(***************************************************************************)
(* Engine processes and the one socket path they share                     *)
(* (macro_engine/listener.py, the ends of EngineServer.setup and close).   *)
(* Every system call on the path is a step; a process may be killed at any *)
(* of them and leaves its socket behind.                                   *)
(***************************************************************************)
EXTENDS FiniteSets

CONSTANTS
  Engines,   \* engine processes
  NoSocket   \* nothing at the path

ASSUME NoSocketAssumption == NoSocket \notin Engines

VARIABLES
  path,        \* engine whose socket is at the path, or NoSocket
  place,       \* engine -> where it is between its start and its exit
  listening,   \* engines whose socket accepts connections
  overlapped   \* (history) two engines were starting or closing at a time

vars == <<path, place, listening, overlapped>>

Starting == {"exists?", "probe", "unlink", "bind", "listen"}
Closing == {"close listener", "unlink own"}
Places == {"down", "serving"} \cup Starting \cup Closing

In(S) == {e \in Engines : place[e] \in S}
Serving == In({"serving"})

\* Engine e goes to p.
Go(e, p) ==
  /\ place' = [place EXCEPT ![e] = p]
  /\ overlapped' = (overlapped \/ ~(In(Starting \cup Closing) \subseteq {e}))

-----------------------------------------------------------------------------
(* prepare_socket() *)

Start(e) ==
  /\ place[e] = "down"
  /\ Go(e, "exists?")
  /\ UNCHANGED <<path, listening>>

PathExists(e) ==
  /\ place[e] = "exists?"
  /\ Go(e, IF path = NoSocket THEN "bind" ELSE "probe")
  /\ UNCHANGED <<path, listening>>

\* (mutant) Whatever is at the path is stale.
StaleAlways == TRUE

\* probe_engine(): nothing at the path, or nobody accepts there.
Stale == path \notin listening

\* A socket that is not stale is AlreadyRunning: the process exits.
Probe(e) ==
  /\ place[e] = "probe"
  /\ Go(e, IF Stale THEN "unlink" ELSE "down")
  /\ UNCHANGED <<path, listening>>

RemoveStale(e) ==
  /\ place[e] = "unlink"
  /\ path' = NoSocket
  /\ Go(e, "bind")
  /\ UNCHANGED listening

\* bind() fails when the path exists, and the process exits.
Bind(e) ==
  /\ place[e] = "bind"
  /\ IF path = NoSocket
     THEN path' = e /\ Go(e, "listen")
     ELSE UNCHANGED path /\ Go(e, "down")
  /\ UNCHANGED listening

\* listen(), then the first reload() takes the devices.
Listen(e) ==
  /\ place[e] = "listen"
  /\ listening' = listening \cup {e}
  /\ Go(e, "serving")
  /\ UNCHANGED path

-----------------------------------------------------------------------------
(* close() *)

\* The devices are released first.
Stop(e) ==
  /\ place[e] = "serving"
  /\ Go(e, "close listener")
  /\ UNCHANGED <<path, listening>>

CloseListener(e) ==
  /\ place[e] = "close listener"
  /\ listening' = listening \ {e}
  /\ Go(e, "unlink own")
  /\ UNCHANGED path

\* The path is removed whatever is there by now.
UnlinkOwn(e) ==
  /\ place[e] = "unlink own"
  /\ path' = NoSocket
  /\ Go(e, "down")
  /\ UNCHANGED listening

\* The process is killed.
Crash(e) ==
  /\ place[e] # "down"
  /\ listening' = listening \ {e}
  /\ Go(e, "down")
  /\ UNCHANGED path

-----------------------------------------------------------------------------
Init ==
  /\ path = NoSocket
  /\ place = [e \in Engines |-> "down"]
  /\ listening = {}
  /\ overlapped = FALSE

EngineStep(e) ==
  \/ PathExists(e)
  \/ Probe(e)
  \/ RemoveStale(e)
  \/ Bind(e)
  \/ Listen(e)
  \/ CloseListener(e)
  \/ UnlinkOwn(e)

Next == \E e \in Engines : Start(e) \/ EngineStep(e) \/ Stop(e) \/ Crash(e)

Spec == Init /\ [][Next]_vars

-----------------------------------------------------------------------------
(* Properties *)

\* The types of the path and of the processes.
TypeOK ==
  /\ path \in Engines \cup {NoSocket}
  /\ place \in [Engines -> Places]
  /\ listening \subseteq Engines
  /\ overlapped \in BOOLEAN

\* Starts and stops that never overlap keep the devices with one engine, and
\* clients reach it, whatever sockets crashed engines left behind.
OneEngineUnlessOverlapped ==
  ~overlapped =>
    /\ \A e, f \in Serving : e = f
    /\ \A e \in Serving : path = e /\ e \in listening

\* The socket of an engine that accepts connections stays at the path until
\* the engine itself stops or dies, unless starts and stops overlapped.
SocketIsNotStolen ==
  [][\A e \in listening :
       path = e /\ path' # e => overlapped']_vars

\* (doc) "A second engine must never take over devices from a running one".
OneEngineServes == \A e, f \in Serving : e = f
=============================================================================
