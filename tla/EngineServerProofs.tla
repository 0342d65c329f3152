-------------------------- MODULE EngineServerProofs --------------------------
(* Proofs about EngineServer, for every set of nodes and identities.        *)
EXTENDS EngineServer, TLAPS

\* What every handler relies on: the kernel's view agrees with the handles'
\* and with the reported states, whatever is open is used, and a closed server
\* holds nothing.
IInv ==
  /\ TypeOK
  /\ dead \subseteq open
  /\ \A n \in Nodes : remapper[n] # "none" => n \in open
  /\ \A n \in Nodes : n \in grabbed <=> remapper[n] = "active"
  /\ \A n \in Nodes : n \in clones <=> Remapping(n, remapper)
  /\ OpenIsInUse
  /\ StatusIsTrue
  /\ phase = "closed" => open = {} /\ recording = {}

-----------------------------------------------------------------------------
(* What starting and settling a remapper can yield *)

\* Every state a fault leaves behind is a failure state (state_for_error).
LEMMA FaultState == ASSUME NEW f \in Faults PROVE f.state \in FaultStates
  BY FaultsAssumption DEF FaultPoints

LEMMA TryGrabType ==
  ASSUME NEW n, NEW D, NEW f \in Faults
  PROVE  TryGrab(n, D, f) \in States
  BY FaultState DEF TryGrab, States, FaultStates

LEMMA StartType ==
  ASSUME NEW n, NEW D, NEW f \in Faults
  PROVE  Start(n, D, f) \in States
  BY FaultState, TryGrabType DEF Start, States, FaultStates

-----------------------------------------------------------------------------
(* The invariant is inductive *)

LEMMA InitIInv == Init => IInv
  <1> SUFFICES ASSUME Init PROVE IInv
    OBVIOUS
  <1>1. TypeOK
    BY DEF Init, TypeOK, NoRemapper
  <1>2. QED
    BY <1>1 DEF Init, IInv, NoRemapper, Remapping, OpenIsInUse, StatusIsTrue, Running

\* The environment changes none of the engine's tables but for the handle of
\* an unplugged node, which is dead from then on.
LEMMA EnvIInv == IInv /\ EnvStep => IInv'
  <1> SUFFICES ASSUME IInv, EnvStep PROVE IInv'
    OBVIOUS
  <1> USE DEF handleVars
  <1>1. UNCHANGED <<open, remapper, grabbed, clones, nodeState, recording, watch, phase>>
    BY DEF EnvStep, Plug, Unplug, HoldKey, LetGo, ForeignGrab, ForeignUngrab
  <1>2. /\ present' \subseteq Nodes
        /\ held' \subseteq Nodes
        /\ foreign' \subseteq Nodes
        /\ dead' \subseteq open
    BY DEF IInv, TypeOK, EnvStep, Plug, Unplug, HoldKey, LetGo, ForeignGrab, ForeignUngrab
  <1>3. TypeOK'
    BY <1>1, <1>2 DEF IInv, TypeOK
  <1>4. OpenIsInUse' /\ StatusIsTrue'
    BY <1>1 DEF IInv, OpenIsInUse, StatusIsTrue, InUse, Remapping, Running
  <1>5. QED
    BY <1>1, <1>2, <1>3, <1>4 DEF IInv, Remapping

\* A reload starts from no remapper at all, so nothing of the old table stays.
LEMMA ReloadIInv ==
  ASSUME IInv, NEW conf \in SUBSET Identities, NEW fault \in [Wanted(conf) -> Faults],
         Reload(conf, fault)
  PROVE  IInv'
  <1> DEFINE kept    == Kept(open, open, NoRemapper, recording, watch)
             wanted  == Wanted(conf)
             opened  == {n \in wanted \ kept : fault[n].at # "open"}
             started == opened \cup (wanted \cap kept)
             R       == [n \in Nodes |->
                           IF n \in started THEN Start(n, dead \cap kept, fault[n])
                           ELSE "none"]
             O       == Kept(kept \cup opened, started, R, recording, watch)
  <1> HIDE DEF kept, wanted, opened, started, R, O
  <1>1. /\ open' = O
        /\ remapper' = [n \in Nodes |-> IF n \in O THEN R[n] ELSE "none"]
        /\ grabbed' = ActiveIn(R) \cap O
        /\ clones' = ClonedIn(R) \cap O
        /\ dead' = dead \cap kept \cap O
        /\ nodeState' = [n \in Nodes |->
             IF n \in started THEN R[n]
             ELSE IF n \in wanted THEN fault[n].state
             ELSE "none"]
        /\ UNCHANGED <<present, held, foreign, recording, watch, phase>>
        /\ phase # "closed"
    BY DEF Reload, ReloadTo, Handles, kept, wanted, opened, started, R, O, envVars, Running
  <1>2. /\ kept \subseteq Nodes
        /\ wanted \subseteq present
        /\ opened \subseteq wanted
        /\ started \subseteq wanted
        /\ O \subseteq Nodes
        /\ present \subseteq Nodes
    BY DEF Kept, kept, Wanted, wanted, opened, started, O, IInv, TypeOK
  <1>3. R \in [Nodes -> States \cup {"none"}]
    BY <1>2, StartType DEF R, wanted
  <1>4. \A n \in wanted : fault[n].state \in FaultStates
    BY <1>2, FaultState DEF wanted
  <1>5. \A n \in Nodes : R[n] # "none" => n \in started
    BY DEF R
  <1>6. \A n \in Nodes : Remapping(n, R) => n \in O
    BY <1>2, <1>5 DEF Kept, O, started, InUse, Remapping
  <1>7. TypeOK'
    <2>1. nodeState' \in [Nodes -> States \cup {"none"}]
      BY <1>1, <1>3, <1>4 DEF States, FaultStates
    <2>2. QED
      BY <1>1, <1>2, <1>3, <2>1 DEF IInv, TypeOK, ActiveIn, ClonedIn
  <1>8. OpenIsInUse'
    <2>1. \A n \in O : n \in started \/ InUse(n, NoRemapper, recording, watch)
      BY DEF Kept, O, kept, started
    <2>2. \A n \in O : InUse(n, R, recording, watch)
      BY <1>2, <2>1 DEF Kept, O, InUse, Remapping, NoRemapper
    <2>3. QED
      BY <1>1, <1>2, <2>2 DEF OpenIsInUse, InUse, Remapping
  <1>9. StatusIsTrue'
    <2> SUFFICES ASSUME NEW n \in Nodes, NEW s \in {"active", "waiting"}
                 PROVE  nodeState'[n] = s <=> n \in O /\ remapper'[n] = s
      BY <1>1 DEF StatusIsTrue
    <2>1. CASE n \in started
      BY <2>1, <1>1, <1>6 DEF Remapping
    <2>2. CASE n \notin started
      BY <2>2, <1>1, <1>4, <1>5 DEF FaultStates
    <2>3. QED
      BY <2>1, <2>2
  <1>10. /\ (\A n \in Nodes : n \in grabbed <=> remapper[n] = "active")'
         /\ (\A n \in Nodes : n \in clones <=> Remapping(n, remapper))'
    BY <1>1, <1>6 DEF ActiveIn, ClonedIn, Remapping
  <1>11. QED
    BY <1>1, <1>7, <1>8, <1>9, <1>10 DEF IInv

\* Settling one node decides its state, and closes it unless it is still used.
LEMMA SettleIInv ==
  ASSUME IInv, NEW n \in open, NEW failed \in BOOLEAN, NEW f \in Faults,
         Running, remapper[n] # "none", Settle(n, failed, f),
         UNCHANGED <<envVars, recording, watch, phase>>
  PROVE  IInv'
  <1> DEFINE R == [remapper EXCEPT ![n] = Settled(n, failed, f)]
             O == Kept(open, {n}, R, recording, watch)
  <1> HIDE DEF R, O
  <1>1. /\ open' = O
        /\ remapper' = [m \in Nodes |-> IF m \in O THEN R[m] ELSE "none"]
        /\ grabbed' = ((grabbed \ {n}) \cup ({n} \cap ActiveIn(R))) \cap O
        /\ clones' = ((clones \ {n}) \cup ({n} \cap ClonedIn(R))) \cap O
        /\ dead' = dead \cap O
        /\ nodeState' = [nodeState EXCEPT ![n] = R[n]]
        /\ UNCHANGED <<present, held, foreign, recording, watch, phase>>
    BY DEF Settle, Release, Handles, R, O, envVars
  <1>2. n \in Nodes /\ O \subseteq open /\ open \subseteq Nodes
    BY DEF Kept, O, IInv, TypeOK
  <1>3. Settled(n, failed, f) \in States
    BY <1>2, TryGrabType DEF Settled, IInv, TypeOK, States
  <1>4. /\ R \in [Nodes -> States \cup {"none"}]
        /\ \A m \in Nodes \ {n} : R[m] = remapper[m]
        /\ R[n] \in States
    BY <1>2, <1>3 DEF R, IInv, TypeOK
  <1>5. Remapping(n, R) => n \in O
    BY DEF Kept, O, InUse
  <1>6. \A m \in Nodes \ {n} : m \in open <=> m \in O
    BY DEF Kept, O
  <1>7. TypeOK'
    BY <1>1, <1>2, <1>4 DEF IInv, TypeOK, ActiveIn, ClonedIn
  <1>8. OpenIsInUse'
    <2> SUFFICES ASSUME NEW m \in O PROVE InUse(m, remapper', recording, watch)
      BY <1>1 DEF OpenIsInUse
    <2>1. remapper'[m] = R[m]
      BY <1>1, <1>2
    <2>2. CASE m = n
      BY <2>1, <2>2 DEF Kept, O, InUse, Remapping
    <2>3. CASE m # n
      BY <2>1, <2>3, <1>2, <1>4 DEF IInv, OpenIsInUse, InUse, Remapping
    <2>4. QED
      BY <2>2, <2>3
  <1>9. StatusIsTrue'
    <2> SUFFICES ASSUME NEW m \in Nodes, NEW s \in {"active", "waiting"}
                 PROVE  nodeState'[m] = s <=> m \in O /\ remapper'[m] = s
      BY <1>1 DEF StatusIsTrue
    <2>1. CASE m = n
      BY <2>1, <1>1, <1>2, <1>5 DEF IInv, TypeOK, Remapping
    <2>2. CASE m # n
      BY <2>2, <1>1, <1>4, <1>6 DEF IInv, TypeOK, StatusIsTrue
    <2>3. QED
      BY <2>1, <2>2
  <1>10. /\ (\A m \in Nodes : m \in grabbed <=> remapper[m] = "active")'
         /\ (\A m \in Nodes : m \in clones <=> Remapping(m, remapper))'
    <2> SUFFICES ASSUME NEW m \in Nodes
                 PROVE  /\ m \in grabbed' <=> remapper'[m] = "active"
                        /\ m \in clones' <=> Remapping(m, remapper')
      OBVIOUS
    <2>1. CASE m = n
      BY <2>1, <1>1, <1>2, <1>5 DEF ActiveIn, ClonedIn, Remapping
    <2>2. CASE m # n
      BY <2>2, <1>1, <1>4, <1>6 DEF IInv, Remapping
    <2>3. QED
      BY <2>1, <2>2
  <1>11. QED
    BY <1>1, <1>7, <1>8, <1>9, <1>10 DEF IInv, Running

\* A handler that opens nodes, changes who listens and closes what nobody uses
\* leaves the remappers and the reported states alone.
LEMMA ListenIInv ==
  ASSUME IInv, Running, NEW STATE opened, opened \in SUBSET Nodes,
         NEW STATE O, O \in SUBSET opened, open \subseteq opened,
         recording' \in SUBSET Identities, watch' \in SUBSET Nodes,
         \A n \in opened : Remapping(n, remapper) => n \in O,
         \A n \in O : InUse(n, remapper, recording', watch'),
         Release(O, remapper, grabbed, clones),
         UNCHANGED <<envVars, nodeState, phase>>
  PROVE  IInv'
  <1>1. /\ open' = O
        /\ remapper' = [n \in Nodes |-> IF n \in O THEN remapper[n] ELSE "none"]
        /\ grabbed' = grabbed \cap O
        /\ clones' = clones \cap O
        /\ dead' = dead \cap O
        /\ UNCHANGED <<present, held, foreign, nodeState, phase>>
        /\ phase # "closed"
    BY DEF Release, Handles, envVars, Running
  <1>2. O \subseteq Nodes
    OBVIOUS
  <1>3. \A n \in Nodes : Remapping(n, remapper) => n \in O
    BY DEF IInv, Remapping
  <1>4. TypeOK'
    BY <1>1, <1>2 DEF IInv, TypeOK
  <1>5. OpenIsInUse'
    BY <1>1, <1>2 DEF OpenIsInUse, InUse, Remapping
  <1>6. StatusIsTrue'
    <2> SUFFICES ASSUME NEW n \in Nodes, NEW s \in {"active", "waiting"}
                 PROVE  nodeState[n] = s <=> n \in O /\ remapper'[n] = s
      BY <1>1 DEF StatusIsTrue
    <2>1. nodeState[n] = s <=> n \in open /\ remapper[n] = s
      BY DEF IInv, StatusIsTrue
    <2>2. n \in O /\ remapper'[n] = s => n \in open /\ remapper[n] = s
      BY <1>1 DEF IInv
    <2>3. QED
      BY <2>1, <2>2, <1>1, <1>3 DEF Remapping
  <1>7. /\ (\A n \in Nodes : n \in grabbed <=> remapper[n] = "active")'
        /\ (\A n \in Nodes : n \in clones <=> Remapping(n, remapper))'
    BY <1>1, <1>3 DEF IInv, Remapping
  <1>8. QED
    BY <1>1, <1>4, <1>5, <1>6, <1>7 DEF IInv

LEMMA RecordStartIInv ==
  ASSUME IInv, NEW primary \in Identities, NEW extras \in SUBSET Identities,
         NEW unopenable \in SUBSET Nodes, RecordStart(primary, extras, unopenable)
  PROVE  IInv'
  <1> DEFINE ids      == {primary} \cup extras
             listed   == {n \in Nodes : IdentityOf[n] \in ids}
             opened   == open \cup Attachable(listed, unopenable)
             accepted == {i \in ids :
                            Recordable(primary, opened) /\ Recordable(i, opened)}
             O        == Kept(opened, listed, remapper, accepted, watch)
  <1>1. /\ Running
        /\ recording = {}
        /\ recording' = accepted
        /\ Release(O, remapper, grabbed, clones)
        /\ UNCHANGED <<envVars, nodeState, watch, phase>>
    BY DEF RecordStart
  <1>2. accepted \in SUBSET Identities
    OBVIOUS
  <1>3. opened \in SUBSET Nodes
    BY DEF Attachable, IInv, TypeOK
  <1>4. \A n \in opened : Remapping(n, remapper) => n \in O
    BY DEF Kept, InUse
  <1>5. \A n \in O : InUse(n, remapper, accepted, watch)
    <2> SUFFICES ASSUME NEW n \in O, n \notin listed
                 PROVE  InUse(n, remapper, accepted, watch)
      BY DEF Kept
    <2>1. n \in open
      BY DEF Kept, Attachable
    <2>2. QED
      BY <2>1, <1>1 DEF IInv, OpenIsInUse, InUse
  <1>6. watch' \in SUBSET Nodes
    BY <1>1 DEF IInv, TypeOK
  <1>7. open \subseteq opened /\ O \in SUBSET opened
    BY DEF Kept
  <1> HIDE DEF ids, listed, opened, accepted, O
  <1>8. QED
    BY <1>1, <1>2, <1>3, <1>4, <1>5, <1>6, <1>7, ListenIInv

LEMMA RecordStopIInv == IInv /\ RecordStop => IInv'
  <1> SUFFICES ASSUME IInv, RecordStop PROVE IInv'
    OBVIOUS
  <1> DEFINE listed == {n \in Nodes : IdentityOf[n] \in recording}
             O      == Kept(open, listed, remapper, {}, watch)
  <1>1. /\ Running
        /\ recording' = {}
        /\ Release(O, remapper, grabbed, clones)
        /\ UNCHANGED <<envVars, nodeState, watch, phase>>
    BY DEF RecordStop
  <1>2. open \in SUBSET Nodes /\ watch' \in SUBSET Nodes
    BY <1>1 DEF IInv, TypeOK
  <1>3. \A n \in open : Remapping(n, remapper) => n \in O
    BY DEF Kept, InUse
  <1>4. \A n \in O : InUse(n, remapper, recording', watch')
    BY <1>1, <1>2 DEF Kept, IInv, OpenIsInUse, InUse
  <1>5. O \in SUBSET open /\ recording' \in SUBSET Identities
    BY <1>1 DEF Kept
  <1> HIDE DEF O
  <1>6. QED
    BY <1>1, <1>2, <1>3, <1>4, <1>5, ListenIInv

LEMMA KeyWatchIInv ==
  ASSUME IInv, NEW S \in SUBSET Nodes, NEW unopenable \in SUBSET Nodes,
         KeyWatch(S, unopenable)
  PROVE  IInv'
  <1> DEFINE opened == open \cup Attachable(S, unopenable)
             O      == Kept(opened, opened, remapper, recording, S)
  <1>1. /\ Running
        /\ watch' = S
        /\ Release(O, remapper, grabbed, clones)
        /\ UNCHANGED <<envVars, nodeState, recording, phase>>
    BY DEF KeyWatch
  <1>2. opened \in SUBSET Nodes /\ recording' \in SUBSET Identities
    BY <1>1 DEF Attachable, IInv, TypeOK
  <1>3. \A n \in opened : Remapping(n, remapper) => n \in O
    BY DEF Kept, InUse
  <1>4. \A n \in O : InUse(n, remapper, recording', watch')
    BY <1>1 DEF Kept
  <1>5. open \subseteq opened /\ O \in SUBSET opened /\ watch' \in SUBSET Nodes
    BY <1>1 DEF Kept
  <1> HIDE DEF opened, O
  <1>6. QED
    BY <1>1, <1>2, <1>3, <1>4, <1>5, ListenIInv

LEMMA LoseDeviceIInv == ASSUME IInv, NEW n \in Nodes, LoseDevice(n) PROVE IInv'
  <1>1. /\ open' = open \ {n}
        /\ remapper' = [m \in Nodes |-> IF m \in open \ {n} THEN remapper[m] ELSE "none"]
        /\ grabbed' = grabbed \cap (open \ {n})
        /\ clones' = clones \cap (open \ {n})
        /\ dead' = dead \cap (open \ {n})
        /\ nodeState' = [nodeState EXCEPT ![n] = "disconnected"]
        /\ UNCHANGED <<present, held, foreign, recording, watch, phase>>
        /\ phase # "closed"
    BY DEF LoseDevice, Release, Handles, envVars, Running
  <1>2. TypeOK'
    BY <1>1 DEF IInv, TypeOK, States
  <1>3. OpenIsInUse'
    BY <1>1 DEF IInv, TypeOK, OpenIsInUse, InUse, Remapping
  <1>4. StatusIsTrue'
    BY <1>1 DEF IInv, TypeOK, StatusIsTrue, Running
  <1>5. QED
    BY <1>1, <1>2, <1>3, <1>4 DEF IInv, Remapping

LEMMA StopIInv == IInv /\ StopStep => IInv'
  <1> SUFFICES ASSUME IInv, StopStep PROVE IInv'
    OBVIOUS
  <1>1. CASE RequestStop
    <2>1. TypeOK'
      BY <1>1 DEF RequestStop, IInv, TypeOK, envVars, handleVars
    <2>2. QED
      BY <2>1, <1>1 DEF RequestStop, IInv, envVars, handleVars, OpenIsInUse, InUse,
        Remapping, StatusIsTrue, Running
  <1>2. CASE Close
    <2>1. TypeOK'
      BY <1>2 DEF Close, Release, Handles, IInv, TypeOK, envVars
    <2>2. QED
      BY <2>1, <1>2 DEF Close, Release, Handles, IInv, envVars, OpenIsInUse, InUse,
        Remapping, StatusIsTrue, Running
  <1>3. QED
    BY <1>1, <1>2 DEF StopStep

LEMMA NextIInv == IInv /\ [Next]_vars => IInv'
  <1> SUFFICES ASSUME IInv, [Next]_vars PROVE IInv'
    OBVIOUS
  <1>1. CASE EnvStep
    BY <1>1, EnvIInv
  <1>2. CASE DeviceStep
    <2>1. ASSUME NEW n \in Nodes, LoseDevice(n) PROVE IInv'
      BY <2>1, LoseDeviceIInv
    <2>2. ASSUME NEW n \in Nodes, NEW f \in Faults, RetryGrab(n, f) PROVE IInv'
      BY <2>2, SettleIInv DEF RetryGrab
    <2>3. ASSUME NEW n \in Nodes, NEW f \in Faults, NEW failed \in BOOLEAN,
                 ReadDevice(n, failed, f)
          PROVE  IInv'
      BY <2>3, SettleIInv DEF ReadDevice
    <2>4. QED
      BY <1>2, <2>1, <2>2, <2>3 DEF DeviceStep
  <1>3. CASE RequestStep
    <2>1. ASSUME NEW conf \in SUBSET Identities, NEW fault \in [Wanted(conf) -> Faults],
                 Reload(conf, fault)
          PROVE  IInv'
      BY <2>1, ReloadIInv
    <2>2. ASSUME NEW i \in Identities, NEW extras \in SUBSET (Identities \ {i}),
                 NEW unopenable \in SUBSET (present \ open),
                 RecordStart(i, extras, unopenable)
          PROVE  IInv'
      <3>1. unopenable \in SUBSET Nodes /\ extras \in SUBSET Identities
        BY DEF IInv, TypeOK
      <3>2. QED
        BY <3>1, <2>2, RecordStartIInv
    <2>3. ASSUME NEW S \in SUBSET Nodes, NEW unopenable \in SUBSET (present \ open),
                 KeyWatch(S, unopenable)
          PROVE  IInv'
      <3>1. unopenable \in SUBSET Nodes
        BY DEF IInv, TypeOK
      <3>2. QED
        BY <3>1, <2>3, KeyWatchIInv
    <2>4. QED
      BY <1>3, <2>1, <2>2, <2>3, RecordStopIInv DEF RequestStep
  <1>4. CASE StopStep
    BY <1>4, StopIInv
  <1>5. CASE UNCHANGED vars
    BY <1>5 DEF vars, envVars, handleVars, IInv, TypeOK, OpenIsInUse, InUse,
      Remapping, StatusIsTrue, Running
  <1>6. QED
    BY <1>1, <1>2, <1>3, <1>4, <1>5 DEF Next

\* The inductive invariant holds in every behaviour of the server.
THEOREM Invariance == Spec => []IInv
  BY InitIInv, NextIInv, PTL DEF Spec

-----------------------------------------------------------------------------
(* What follows from it *)

\* Type correctness of the server's tables.
THEOREM TypeCorrect == Spec => []TypeOK
  <1>1. IInv => TypeOK
    BY DEF IInv
  <1>2. QED
    BY <1>1, Invariance, PTL

\* Every grabbed node has an open handle, an active remapper and a clone.
THEOREM GrabSafety == Spec => []GrabbedIsCloned
  <1>1. IInv => GrabbedIsCloned
    BY DEF IInv, TypeOK, GrabbedIsCloned, Remapping
  <1>2. QED
    BY <1>1, Invariance, PTL

\* No handle stays open that nothing uses.
THEOREM NoLeakedHandle == Spec => []OpenIsInUse
  <1>1. IInv => OpenIsInUse
    BY DEF IInv
  <1>2. QED
    BY <1>1, Invariance, PTL

\* The status reports a remapping exactly when there is one.
THEOREM TrueStatus == Spec => []StatusIsTrue
  <1>1. IInv => StatusIsTrue
    BY DEF IInv
  <1>2. QED
    BY <1>1, Invariance, PTL

-----------------------------------------------------------------------------
(* Action properties *)

\* Who listens to a node: the recording of its identity or the key watch.
StillListened(n) ==
  \/ IdentityOf[n] \in recording \cap recording'
  \/ n \in watch \cap watch'

\* No step closes a live node that stays recorded or watched.
THEOREM ListenersKept == Spec => ListenersKeepTheirNodes
  <1>1. IInv /\ [Next]_vars =>
          \A n \in open \ dead : phase' # "closed" /\ StillListened(n) => n \in open'
    <2> SUFFICES ASSUME IInv, [Next]_vars, phase' # "closed",
                        NEW n \in open, n \notin dead, StillListened(n)
                 PROVE  n \in open'
      OBVIOUS
    <2> USE DEF StillListened
    <2>1. n \in Nodes
      BY DEF IInv, TypeOK
    <2>2. CASE EnvStep \/ StopStep \/ UNCHANGED vars
      BY <2>2 DEF EnvStep, Plug, Unplug, HoldKey, LetGo, ForeignGrab, ForeignUngrab,
        StopStep, RequestStop, Close, handleVars, vars
    <2>3. CASE \E m \in Nodes : LoseDevice(m)
      BY <2>3 DEF LoseDevice, Release, Handles
    <2>4. ASSUME NEW m \in open, NEW failed \in BOOLEAN, NEW f \in Faults,
                 Settle(m, failed, f)
          PROVE  n \in open'
      BY <2>4 DEF Kept, Settle, Release, Handles, InUse
    <2>5. CASE DeviceStep
      BY <2>3, <2>4, <2>5 DEF DeviceStep, RetryGrab, ReadDevice
    <2>6. ASSUME NEW conf \in SUBSET Identities, NEW fault \in [Wanted(conf) -> Faults],
                 Reload(conf, fault)
          PROVE  n \in open'
      BY <2>6 DEF Kept, Reload, ReloadTo, Handles, InUse
    <2>7. ASSUME NEW i, NEW e, NEW u, RecordStart(i, e, u) PROVE n \in open'
      BY <2>7, <2>1 DEF Kept, RecordStart, Release, Handles, InUse
    <2>8. CASE RecordStop
      BY <2>8 DEF Kept, RecordStop, Release, Handles, InUse
    <2>9. ASSUME NEW S, NEW u, KeyWatch(S, u) PROVE n \in open'
      BY <2>9 DEF Kept, KeyWatch, Release, Handles, InUse
    <2>10. CASE RequestStep
      BY <2>6, <2>7, <2>8, <2>9, <2>10 DEF RequestStep
    <2>11. QED
      BY <2>2, <2>5, <2>10 DEF Next
  <1>2. (\A n \in open \ dead : phase' # "closed" /\ StillListened(n) => n \in open')
        => \A n \in open \ dead :
             /\ phase' # "closed"
             /\ \/ IdentityOf[n] \in recording \cap recording'
                \/ n \in watch \cap watch'
             => n \in open'
    BY DEF StillListened
  <1>3. QED
    BY <1>1, <1>2, Invariance, PTL DEF Spec, ListenersKeepTheirNodes

\* A step that changes the recording or the watch keeps every grab and clone.
THEOREM RemappingUndisturbed == Spec => ListeningLeavesRemapping
  <1>1. IInv /\ [Next]_vars =>
          (recording' # recording \/ watch' # watch
             => phase' = "closed" \/ (grabbed' = grabbed /\ clones' = clones))
    <2> SUFFICES ASSUME IInv, [Next]_vars, phase' # "closed",
                        recording' # recording \/ watch' # watch
                 PROVE  grabbed' = grabbed /\ clones' = clones
      OBVIOUS
    <2>1. /\ \A n \in grabbed \cup clones : n \in open /\ Remapping(n, remapper)
          /\ open \subseteq Nodes
      BY DEF IInv, TypeOK, Remapping
    <2>2. ASSUME NEW i, NEW e, NEW u, RecordStart(i, e, u)
          PROVE  grabbed' = grabbed /\ clones' = clones
      BY <2>1, <2>2 DEF Kept, RecordStart, Release, Handles, InUse
    <2>3. CASE RecordStop
      BY <2>1, <2>3 DEF Kept, RecordStop, Release, Handles, InUse
    <2>4. ASSUME NEW S, NEW u, KeyWatch(S, u)
          PROVE  grabbed' = grabbed /\ clones' = clones
      BY <2>1, <2>4 DEF Kept, KeyWatch, Release, Handles, InUse
    <2>5. (\E i, e, u : RecordStart(i, e, u)) \/ RecordStop \/ (\E S, u : KeyWatch(S, u))
      BY DEF Next, EnvStep, Plug, Unplug, HoldKey, LetGo, ForeignGrab, ForeignUngrab,
        DeviceStep, LoseDevice, RetryGrab, ReadDevice, RequestStep, Reload,
        StopStep, RequestStop, Close, vars
    <2>6. QED
      BY <2>2, <2>3, <2>4, <2>5
  <1>2. QED
    BY <1>1, Invariance, PTL DEF Spec, ListeningLeavesRemapping
=============================================================================
