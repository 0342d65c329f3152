----------------------------- MODULE EngineServer -----------------------------
(***************************************************************************)
(* The macro engine's single-threaded server (macro_engine/server.py) with *)
(* the objects it drives: the device handles, their remappers, the         *)
(* recording and the key watch.  A request handler or a device read is one *)
(* action, since every one of them runs to its end on the loop's thread.   *)
(* Keys, cables and other programs change between the handlers.            *)
(***************************************************************************)
EXTENDS FiniteSets, Naturals

CONSTANTS
  Nodes,         \* paths of the event nodes a device can appear under
  Identities,    \* physical devices: several nodes may share one
  IdentityOf,    \* node -> identity
  TriggerNodes,  \* nodes whose EV_KEY capabilities include a trigger
  Faults,        \* what may fail while a remapper starts, see NoFault
  MaxExtras      \* most also_identities of one record_start

States == {"inactive", "waiting", "active", "busy", "permission_denied",
           "error", "disconnected"}
FaultPoints == {"open", "clone", "grab"}
FaultStates == {"busy", "permission_denied", "error"}
NoFault == [at |-> "none", state |-> "error"]

ASSUME NodesAssumption ==
  /\ IdentityOf \in [Nodes -> Identities]
  /\ TriggerNodes \subseteq Nodes
  /\ "none" \notin Nodes
ASSUME FaultsAssumption ==
  Faults \subseteq [at : FaultPoints \cup {"none"}, state : FaultStates]

VARIABLES
  \* the environment
  present,     \* nodes plugged in, i.e. what discover() lists
  held,        \* nodes with a key or button down (active_keys())
  foreign,     \* nodes another program grabbed exclusively
  \* the engine
  open,        \* paths in _handles
  dead,        \* open paths whose device was unplugged since it was opened
  remapper,    \* state of the handle's remapper, "none" without one
  grabbed,     \* nodes the engine holds an exclusive grab on
  clones,      \* nodes whose virtual clone exists
  nodeState,   \* _node_states, "none" for an absent entry
  recording,   \* identities the recorder accepts, {} when not recording
  watch,       \* nodes whose name matches the key watch
  phase        \* "serving", then "stopping", then "closed"

envVars == <<present, held, foreign>>
handleVars == <<open, dead, remapper, grabbed, clones>>
vars == <<envVars, handleVars, nodeState, recording, watch, phase>>

NoRemapper == [n \in Nodes |-> "none"]
NodesOf(i) == {n \in Nodes : IdentityOf[n] = i}
Running == phase # "closed"

-----------------------------------------------------------------------------
(* Which handles are needed, and closing the others *)

\* DeviceHandle.remapping, given the states R of the remappers.
Remapping(n, R) == R[n] \in {"active", "waiting"}

\* (mutant) A deferred remapper does not count.
InUseForgetsDeferred(n, R, rec, wat) == R[n] = "active" \/ IdentityOf[n] \in rec \/ n \in wat

\* (mutant) The key watch does not count.
InUseForgetsWatch(n, R, rec, wat) == Remapping(n, R) \/ IdentityOf[n] \in rec

\* What keeps a handle open: its remapper, a recording or the key watch.
InUse(n, R, rec, wat) ==
  \/ Remapping(n, R)
  \/ IdentityOf[n] \in rec
  \/ n \in wat

\* (mutant) Nothing is released.
KeptAll(O, S, R, rec, wat) == O

\* _release_if_unused for the nodes S of the open nodes O: what stays open.
Kept(O, S, R, rec, wat) == {n \in O : n \in S => InUse(n, R, rec, wat)}

\* (mutant) _detach without close_handle: the remapper is never stopped.
LeakyHandles(O, R, G, C) ==
  /\ open' = O
  /\ remapper' = [n \in Nodes |-> IF n \in O THEN R[n] ELSE "none"]
  /\ grabbed' = G
  /\ clones' = C

\* _handles becomes O.  close_handle stops the remapper of every handle that
\* goes: it is ungrabbed and its clone closed.
Handles(O, R, G, C) ==
  /\ open' = O
  /\ remapper' = [n \in Nodes |-> IF n \in O THEN R[n] ELSE "none"]
  /\ grabbed' = G \cap O
  /\ clones' = C \cap O

Release(O, R, G, C) ==
  /\ Handles(O, R, G, C)
  /\ dead' = dead \cap O

-----------------------------------------------------------------------------
(* The remapper of one node *)

\* (mutant) A deferred remapper keeps its initial state.
TryGrabIdle(n, D, f) ==
  IF n \in D THEN "error"
  ELSE IF n \in held THEN "idle"
  ELSE IF n \in foreign THEN "busy"
  ELSE "active"

\* DeviceRemapper.try_grab on a waiting remapper, D being the dead handles:
\* an unplugged device and a failing grab fail it, held keys defer it.  The two
\* calls active_keys() and grab() are one step here: a key that goes down
\* between them leaves the server's tables as one that goes down right after
\* does.  What it does to the key is Passthrough's, which takes them apart.
TryGrab(n, D, f) ==
  IF n \in D THEN "error"
  ELSE IF n \in held THEN "waiting"
  ELSE IF n \in foreign THEN "busy"
  ELSE IF f.at = "grab" THEN f.state
  ELSE "active"

\* DeviceRemapper.start: no trigger on this node, clone first, then the grab.
Start(n, D, f) ==
  IF n \notin TriggerNodes THEN "inactive"
  ELSE IF f.at = "clone" THEN f.state
  ELSE TryGrab(n, D, f)

ActiveIn(R) == {n \in Nodes : R[n] = "active"}
ClonedIn(R) == {n \in Nodes : Remapping(n, R)}

-----------------------------------------------------------------------------
(* The environment *)

Plug(n) ==
  /\ n \notin present
  /\ present' = present \cup {n}
  /\ UNCHANGED <<held, foreign, handleVars, nodeState, recording, watch, phase>>

Unplug(n) ==
  /\ n \in present
  /\ present' = present \ {n}
  /\ held' = held \ {n}
  /\ foreign' = foreign \ {n}
  /\ dead' = dead \cup ({n} \cap open)
  /\ UNCHANGED <<open, remapper, grabbed, clones, nodeState, recording, watch, phase>>

HoldKey(n) ==
  /\ n \in present \ held
  /\ held' = held \cup {n}
  /\ UNCHANGED <<present, foreign, handleVars, nodeState, recording, watch, phase>>

LetGo(n) ==
  /\ n \in held
  /\ held' = held \ {n}
  /\ UNCHANGED <<present, foreign, handleVars, nodeState, recording, watch, phase>>

\* The kernel refuses the grab of a node whose live handle the engine grabs.
ForeignGrab(n) ==
  /\ n \in present \ foreign
  /\ n \notin grabbed \/ n \in dead
  /\ foreign' = foreign \cup {n}
  /\ UNCHANGED <<present, held, handleVars, nodeState, recording, watch, phase>>

ForeignUngrab(n) ==
  /\ n \in foreign
  /\ foreign' = foreign \ {n}
  /\ UNCHANGED <<present, held, handleVars, nodeState, recording, watch, phase>>

-----------------------------------------------------------------------------
(* reload *)

\* wanted_entries: the listed nodes of the devices with enabled macros.
Wanted(conf) == {n \in present : IdentityOf[n] \in conf}

\* Every remapper is stopped and dropped; then every node of an identity in
\* conf is opened unless still open, and remapped.  fault says what fails.
ReloadTo(conf, fault) ==
  LET kept    == Kept(open, open, NoRemapper, recording, watch)
      wanted  == Wanted(conf)
      opened  == {n \in wanted \ kept : fault[n].at # "open"}
      started == opened \cup (wanted \cap kept)
      R       == [n \in Nodes |->
                    IF n \in started THEN Start(n, dead \cap kept, fault[n])
                    ELSE "none"]
      O       == Kept(kept \cup opened, started, R, recording, watch)
  IN /\ Handles(O, R, ActiveIn(R), ClonedIn(R))
     /\ dead' = dead \cap kept \cap O
     /\ nodeState' = [n \in Nodes |->
          IF n \in started THEN R[n]
          ELSE IF n \in wanted THEN fault[n].state
          ELSE "none"]

Reload(conf, fault) ==
  /\ Running
  /\ ReloadTo(conf, fault)
  /\ UNCHANGED <<envVars, recording, watch, phase>>

-----------------------------------------------------------------------------
(* Device reads and deferred grabs *)

\* (mutant) A deferred grab is not retried.
SettledNoRetry(n, failed, f) == IF failed THEN "error" ELSE remapper[n]

\* The remapper's next state: a write failure (failed) comes first and
\* fails it; a waiting one tries to grab again.
Settled(n, failed, f) ==
  IF failed THEN "error"
  ELSE IF remapper[n] = "waiting" THEN TryGrab(n, dead, f)
  ELSE remapper[n]

\* (mutant) The new state is not recorded.
SettleSilently(n, failed, f) ==
  LET R == [remapper EXCEPT ![n] = Settled(n, failed, f)]
  IN /\ Release(open, R, (grabbed \ {n}) \cup ({n} \cap ActiveIn(R)), ClonedIn(R))
     /\ UNCHANGED nodeState

\* _settle: record the state, close the handle unless something uses it.
Settle(n, failed, f) ==
  LET R == [remapper EXCEPT ![n] = Settled(n, failed, f)]
      O == Kept(open, {n}, R, recording, watch)
  IN /\ Release(O, R, (grabbed \ {n}) \cup ({n} \cap ActiveIn(R)),
                      (clones \ {n}) \cup ({n} \cap ClonedIn(R)))
     /\ nodeState' = [nodeState EXCEPT ![n] = R[n]]

\* Events of a live node; failed says that forwarding one of them failed.
ReadDevice(n, failed, f) ==
  /\ Running
  /\ n \in open \ dead
  /\ remapper[n] # "none"
  /\ failed => remapper[n] = "active"
  /\ Settle(n, failed, f)
  /\ UNCHANGED <<envVars, recording, watch, phase>>

\* The read of an unplugged node fails: it is reported and its handle closed.
LoseDevice(n) ==
  /\ Running
  /\ n \in dead
  /\ nodeState' = [nodeState EXCEPT ![n] = "disconnected"]
  /\ Release(open \ {n}, remapper, grabbed, clones)
  /\ UNCHANGED <<envVars, recording, watch, phase>>

\* The end of run_once: a deferred grab is retried about once a second.
RetryGrab(n, f) ==
  /\ Running
  /\ n \in open
  /\ remapper[n] = "waiting"
  /\ Settle(n, FALSE, f)
  /\ UNCHANGED <<envVars, recording, watch, phase>>

-----------------------------------------------------------------------------
(* Recording and key watch *)

\* attach_missing for the nodes S; those in unopenable cannot be opened.
Attachable(S, unopenable) == (S \cap present) \ (open \cup unopenable)

\* _refuse_foreign_grab: the identity has nodes open in O, the engine grabs
\* none of them and the probe finds every one busy.  The probe answers FALSE
\* for a node with held keys and for the handle of an unplugged device.
Blocked(i, O) ==
  LET mine == O \cap NodesOf(i)
  IN /\ mine # {}
     /\ \A n \in mine : remapper[n] # "active"
     /\ mine \subseteq foreign \ (held \cup dead)

\* _open_for_recording and _refuse_foreign_grab succeed for identity i.
Recordable(i, O) ==
  /\ NodesOf(i) \cap present # {}
  /\ NodesOf(i) \cap O # {}
  /\ ~Blocked(i, O)

\* The recording of primary and of those extras that can be recorded.  When
\* the primary cannot, nothing is recorded; whatever was opened in vain goes.
RecordStart(primary, extras, unopenable) ==
  LET ids      == {primary} \cup extras
      listed   == {n \in Nodes : IdentityOf[n] \in ids}
      opened   == open \cup Attachable(listed, unopenable)
      accepted == {i \in ids : Recordable(primary, opened) /\ Recordable(i, opened)}
  IN /\ Running
     /\ recording = {}
     /\ recording' = accepted
     /\ Release(Kept(opened, listed, remapper, accepted, watch),
                remapper, grabbed, clones)
     /\ UNCHANGED <<envVars, nodeState, watch, phase>>

RecordStop ==
  /\ Running
  /\ recording # {}
  /\ recording' = {}
  /\ LET listed == {n \in Nodes : IdentityOf[n] \in recording}
     IN Release(Kept(open, listed, remapper, {}, watch), remapper, grabbed, clones)
  /\ UNCHANGED <<envVars, nodeState, watch, phase>>

\* key_watch: S are the nodes whose name matches the new names.
KeyWatch(S, unopenable) ==
  LET opened == open \cup Attachable(S, unopenable)
  IN /\ Running
     /\ watch' = S
     /\ Release(Kept(opened, opened, remapper, recording, S), remapper, grabbed, clones)
     /\ UNCHANGED <<envVars, nodeState, recording, phase>>

-----------------------------------------------------------------------------
(* Stopping *)

\* A signal, the parent's pidfd or the parent poll: the loop ends after the
\* handlers of this round.
RequestStop ==
  /\ phase = "serving"
  /\ phase' = "stopping"
  /\ UNCHANGED <<envVars, handleVars, nodeState, recording, watch>>

\* close(): every handle is closed, then the recorder is dropped.
Close ==
  /\ phase = "stopping"
  /\ phase' = "closed"
  /\ recording' = {}
  /\ Release({}, remapper, grabbed, clones)
  /\ UNCHANGED <<envVars, nodeState, watch>>

-----------------------------------------------------------------------------
\* The devices and the other programs, while the engine is there to notice.
EnvStep ==
  /\ Running
  /\ \E n \in Nodes :
       \/ Plug(n)
       \/ Unplug(n)
       \/ HoldKey(n)
       \/ LetGo(n)
       \/ ForeignGrab(n)
       \/ ForeignUngrab(n)

DeviceStep ==
  \E n \in Nodes :
    \/ LoseDevice(n)
    \/ \E f \in Faults : RetryGrab(n, f)
    \/ \E f \in Faults, failed \in BOOLEAN : ReadDevice(n, failed, f)

RequestStep ==
  \/ \E conf \in SUBSET Identities : \E fault \in [Wanted(conf) -> Faults] : Reload(conf, fault)
  \/ \E i \in Identities : \E extras \in SUBSET (Identities \ {i}) :
       \E unopenable \in SUBSET (present \ open) :
         /\ Cardinality(extras) <= MaxExtras
         /\ RecordStart(i, extras, unopenable)
  \/ RecordStop
  \/ \E S \in SUBSET Nodes, unopenable \in SUBSET (present \ open) : KeyWatch(S, unopenable)

StopStep == RequestStop \/ Close

\* setup(): the socket is bound, nothing is open; the first reload follows.
Init ==
  /\ present \in SUBSET Nodes
  /\ held \in SUBSET present
  /\ foreign \in SUBSET present
  /\ open = {}
  /\ dead = {}
  /\ remapper = NoRemapper
  /\ grabbed = {}
  /\ clones = {}
  /\ nodeState = NoRemapper
  /\ recording = {}
  /\ watch = {}
  /\ phase = "serving"

Next == EnvStep \/ DeviceStep \/ RequestStep \/ StopStep

\* The loop runs again at least every poll_interval: it retries a deferred
\* grab, reads a node that is readable (an unplugged one is) and ends once it
\* was asked to.
Fairness ==
  /\ \A n \in Nodes : WF_vars(\E f \in Faults : RetryGrab(n, f))
  /\ \A n \in Nodes : WF_vars(LoseDevice(n))
  /\ WF_vars(Close)

Spec == Init /\ [][Next]_vars
FairSpec == Spec /\ Fairness

-----------------------------------------------------------------------------
(* Properties *)

\* The types of the server's tables and of its environment.
TypeOK ==
  /\ present \subseteq Nodes
  /\ held \subseteq Nodes
  /\ foreign \subseteq Nodes
  /\ open \subseteq Nodes
  /\ dead \subseteq Nodes
  /\ remapper \in [Nodes -> States \cup {"none"}]
  /\ grabbed \subseteq Nodes
  /\ clones \subseteq Nodes
  /\ nodeState \in [Nodes -> States \cup {"none"}]
  /\ recording \subseteq Identities
  /\ watch \subseteq Nodes
  /\ phase \in {"serving", "stopping", "closed"}

\* A grabbed node always belongs to an open handle with an active remapper
\* and has a clone to pass its keys through: whatever sequence of reloads,
\* unplugs, failed writes and recordings led here, no grab is ever left
\* behind without the clone (remapper.py, "never grabs without a clone").
GrabbedIsCloned ==
  /\ grabbed = {n \in open : remapper[n] = "active"}
  /\ clones = {n \in open : remapper[n] \in {"active", "waiting"}}

\* No handle leaks: a node is open only while a remapper, the recording or
\* the key watch needs it, after every handler (_release_if_unused).
OpenIsInUse ==
  \A n \in open : InUse(n, remapper, recording, watch)

\* The status the GUI polls never claims a remapping that does not exist, and
\* never hides one that does (_node_states against the handles' remappers).
StatusIsTrue ==
  Running =>
    \A n \in Nodes, s \in {"active", "waiting"} :
      nodeState[n] = s <=> n \in open /\ remapper[n] = s

\* Nobody else's request closes a node somebody listens to: a live node that
\* stays recorded or watched stays open until the server closes.
ListenersKeepTheirNodes ==
  [][\A n \in open \ dead :
       /\ phase' # "closed"
       /\ \/ IdentityOf[n] \in recording \cap recording'
          \/ n \in watch \cap watch'
       => n \in open']_vars

\* Starting or ending a recording and changing the watch touch no remapping.
ListeningLeavesRemapping ==
  [][recording' # recording \/ watch' # watch
       => phase' = "closed" \/ (grabbed' = grabbed /\ clones' = clones)]_vars

\* A deferred grab is decided once the keys are let go of for good: the
\* remapper does not wait for ever (run_once retries it).
DeferredGrabIsDecided ==
  \A n \in Nodes :
    <>[](n \notin held) => []<>(phase = "closed" \/ remapper[n] # "waiting")
=============================================================================
