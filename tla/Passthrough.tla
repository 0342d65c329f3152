------------------------------ MODULE Passthrough ------------------------------
(***************************************************************************)
(* The keys of one device node around the grab of its remapper             *)
(* (macro_engine/remapper.py): what the compositor reads from the device   *)
(* while it is free and from its clone while it is grabbed.  A hand goes   *)
(* on pressing keys between any two system calls of the engine.            *)
(***************************************************************************)
EXTENDS Naturals, Sequences, FiniteSets

CONSTANTS
  Keys,       \* key codes of the node
  Triggers,   \* those of them that trigger a macro
  Backlog     \* most events the loop may be behind by

ASSUME KeysAssumption ==
  /\ Triggers \subseteq Keys
  /\ Backlog \in Nat \ {0}

VARIABLES
  down,      \* keys that are physically down
  seen,      \* keys the compositor takes to be down on the device
  cloned,    \* keys that are down on the clone
  queue,     \* events the engine has not read: key, press, and whether seen
  place,     \* where the engine is with this node
  grabbed,   \* the engine holds the exclusive grab
  raced      \* (history) keys seen pressed between active_keys() and grab()

vars == <<down, seen, cloned, queue, place, grabbed, raced>>

\* "off": not open; "open": open without a remapper that remaps; "waiting":
\* cloned, not grabbed; "grabbing": no key was held, grab() is next;
\* "discarding": grabbed, the queue is dropped next; "closing": ungrabbed, the
\* clone is closed next; "lost": unplugged, which the engine is yet to notice.
Places == {"off", "open", "waiting", "grabbing", "discarding", "active",
           "stopping", "closing", "lost"}

-----------------------------------------------------------------------------
(* The hand on the device *)

\* The kernel hands an event to the compositor unless the node is grabbed, and
\* to the engine if it has the node open.
Report(k, press) ==
  /\ seen' = IF grabbed THEN seen ELSE IF press THEN seen \cup {k} ELSE seen \ {k}
  /\ queue' = IF place \in {"off", "lost"} THEN queue
              ELSE Append(queue, [key |-> k, press |-> press, seen |-> ~grabbed])
  /\ raced' = IF grabbed THEN raced
              ELSE IF press /\ place = "grabbing" THEN raced \cup {k}
              ELSE raced \ {k}
  /\ UNCHANGED <<cloned, place, grabbed>>

Press(k) ==
  /\ k \notin down
  /\ Len(queue) < Backlog
  /\ down' = down \cup {k}
  /\ Report(k, TRUE)

LetGo(k) ==
  /\ k \in down
  /\ Len(queue) < Backlog
  /\ down' = down \ {k}
  /\ Report(k, FALSE)

\* The node disappears, with its keys and its grab.  It may be back, as a new
\* one, before the engine notices.
Unplug ==
  /\ down' = {}
  /\ seen' = {}
  /\ raced' = {}
  /\ queue' = <<>>
  /\ grabbed' = FALSE
  /\ place' = IF place \in {"off", "open"} THEN "off" ELSE "lost"
  /\ UNCHANGED cloned

-----------------------------------------------------------------------------
(* The engine *)

\* The node is opened: to listen, or to be remapped next.
Open ==
  /\ place = "off"
  /\ place' = "open"
  /\ UNCHANGED <<down, seen, cloned, queue, grabbed, raced>>

Close ==
  /\ place = "open"
  /\ place' = "off"
  /\ queue' = <<>>
  /\ UNCHANGED <<down, seen, cloned, grabbed, raced>>

\* start(): the clone is created, nothing grabbed yet.
Clone ==
  /\ place = "open"
  /\ place' = "waiting"
  /\ UNCHANGED <<down, seen, cloned, queue, grabbed, raced>>

\* (mutant) Held keys do not defer the grab.
LookNever ==
  /\ place = "waiting"
  /\ place' = "grabbing"
  /\ UNCHANGED <<down, seen, cloned, queue, grabbed, raced>>

\* try_grab(): the grab goes on only when no key is held.
Look ==
  /\ place = "waiting"
  /\ down = {}
  /\ place' = "grabbing"
  /\ UNCHANGED <<down, seen, cloned, queue, grabbed, raced>>

Grab ==
  /\ place = "grabbing"
  /\ grabbed' = TRUE
  /\ place' = "discarding"
  /\ UNCHANGED <<down, seen, cloned, queue, raced>>

\* Another program holds the grab: the clone is closed.
GrabFails ==
  /\ place = "grabbing"
  /\ place' = "closing"
  /\ UNCHANGED <<down, seen, cloned, queue, grabbed, raced>>

\* (mutant) The events from before the grab are kept.
KeepBuffered ==
  /\ place = "discarding"
  /\ place' = "active"
  /\ UNCHANGED <<down, seen, cloned, queue, grabbed, raced>>

\* _discard_buffered().
Discard ==
  /\ place = "discarding"
  /\ queue' = <<>>
  /\ place' = "active"
  /\ UNCHANGED <<down, seen, cloned, grabbed, raced>>

Forwarded(e) ==
  IF e.key \in Triggers THEN cloned
  ELSE IF e.press THEN cloned \cup {e.key}
  ELSE cloned \ {e.key}

\* handle(): only an active remapper forwards, and swallows its triggers.
Read ==
  /\ place \in {"open", "waiting", "active"}
  /\ queue # <<>>
  /\ queue' = Tail(queue)
  /\ cloned' = IF place = "active" THEN Forwarded(Head(queue)) ELSE cloned
  /\ UNCHANGED <<down, seen, place, grabbed, raced>>

\* stop(), and a write to the clone that fails.
Stop ==
  /\ place \in {"waiting", "active"}
  /\ place' = "stopping"
  /\ UNCHANGED <<down, seen, cloned, queue, grabbed, raced>>

\* _release(): the device is given back first.
Ungrab ==
  /\ place = "stopping"
  /\ grabbed' = FALSE
  /\ place' = "closing"
  /\ UNCHANGED <<down, seen, cloned, queue, raced>>

\* The kernel lets go of the keys of a clone that is closed.
CloseClone ==
  /\ place = "closing"
  /\ cloned' = {}
  /\ place' = "open"
  /\ UNCHANGED <<down, seen, queue, grabbed, raced>>

\* A read or a grab of the lost node fails: its remapper is stopped with it.
NoticeLoss ==
  /\ place = "lost"
  /\ cloned' = {}
  /\ place' = "off"
  /\ UNCHANGED <<down, seen, queue, grabbed, raced>>

-----------------------------------------------------------------------------
Init ==
  /\ down \in SUBSET Keys
  /\ seen = down
  /\ cloned = {}
  /\ queue = <<>>
  /\ place = "off"
  /\ grabbed = FALSE
  /\ raced = {}

HandStep == Unplug \/ \E k \in Keys : Press(k) \/ LetGo(k)

EngineStep ==
  \/ Open
  \/ Close
  \/ Clone
  \/ Look
  \/ Grab
  \/ GrabFails
  \/ Discard
  \/ Read
  \/ Stop
  \/ Ungrab
  \/ CloseClone
  \/ NoticeLoss

Next == HandStep \/ EngineStep

Spec == Init /\ [][Next]_vars

-----------------------------------------------------------------------------
(* Properties *)

\* The hands are off and the engine has caught up.
Quiet == down = {} /\ queue = <<>> /\ place \in {"off", "open", "waiting", "active"}

\* No key is left down on the clone, and one left down on the device was
\* pressed between active_keys() and grab(): neither a key held when the
\* remapper starts, nor one held when it stops or fails, nor an event still
\* in the buffer at the grab leaves a key behind.
OnlyRacedKeysStick == Quiet => cloned = {} /\ seen \subseteq raced

\* The compositor gets no event twice: once remapping, the engine has none
\* left to forward that was already seen on the device, and it forwards
\* nothing into a clone whose device is free.
NothingTwice ==
  /\ place = "active" => \A i \in 1..Len(queue) : ~queue[i].seen
  /\ cloned # {} => grabbed \/ place \in {"closing", "lost"}

\* (doc) The grab is deferred while a key is held, since "grabbing then would
\* hide the release from the compositor and leave the key stuck down".
NoKeyStuck == Quiet => seen = {}
=============================================================================
