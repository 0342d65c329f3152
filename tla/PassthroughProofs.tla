--------------------------- MODULE PassthroughProofs ---------------------------
(***************************************************************************)
(* No key of a remapped node comes twice, and none sticks but one that was *)
(* pressed between active_keys() and grab(), for every keyboard, however   *)
(* far the engine is behind.  What the compositor saw, what is down on the *)
(* clone and what is still in the buffer have to be related at every step. *)
(***************************************************************************)
EXTENDS Passthrough, TLAPS

Event == [key : Keys, press : BOOLEAN, seen : BOOLEAN]

TypeInv ==
  /\ down \subseteq Keys /\ seen \subseteq Keys
  /\ cloned \subseteq Keys \ Triggers
  /\ queue \in Seq(Event)
  /\ place \in Places
  /\ grabbed \in BOOLEAN
  /\ raced \subseteq Keys

\* The grab is held exactly between grab() and the ungrab, unless the node is
\* gone, and only an open clone has keys down.
GrabFollowsPlace ==
  /\ grabbed => place \in {"discarding", "active", "stopping"}
  /\ place \in {"discarding", "active"} => grabbed
  /\ cloned # {} => place \in {"active", "stopping", "closing", "lost"}
  /\ cloned # {} /\ place = "stopping" => grabbed

\* A key the compositor has down is physically down or was raced; with the
\* engine past its look at the keys, it was raced.
SeenIsExplained ==
  /\ seen \subseteq raced \cup down
  /\ grabbed \/ place = "grabbing" => seen \subseteq raced

\* The last event of key k in the buffer is at i, and a release.
LastIsRelease(k, i) ==
  /\ i \in 1 .. Len(queue)
  /\ queue[i].key = k
  /\ ~queue[i].press
  /\ \A j \in 1 .. Len(queue) : j > i => queue[j].key # k

\* A key that is up, and down on the clone or to be met in the buffer, is let go
\* of by the rest of the buffer.
ReleaseIsDue ==
  \A k \in Keys \ down :
    k \in cloned \/ (\E i \in 1 .. Len(queue) : queue[i].key = k)
      => \E i \in 1 .. Len(queue) : LastIsRelease(k, i)

\* Nothing in the buffer of an active remapper was seen by the compositor.
BufferIsFresh == \A i \in 1 .. Len(queue) : ~queue[i].seen

IInv ==
  /\ TypeInv
  /\ GrabFollowsPlace
  /\ SeenIsExplained
  /\ place = "active" => ReleaseIsDue /\ BufferIsFresh

-----------------------------------------------------------------------------
LEMMA InitHolds == Init => IInv
<1>1. Init => TypeInv
  <2>1. Init => queue \in Seq(Event)
    BY DEF Init
  <2>2. QED
    BY <2>1 DEF Init, TypeInv, Places
<1>2. Init => GrabFollowsPlace /\ SeenIsExplained
  BY DEF Init, GrabFollowsPlace, SeenIsExplained
<1>3. QED
  BY <1>1, <1>2 DEF Init, IInv

\* What an event appended to the buffer leaves of it.
LEMMA AppendedEvent ==
  ASSUME NEW q \in Seq(Event), NEW e \in Event
  PROVE  /\ Append(q, e) \in Seq(Event)
         /\ Len(Append(q, e)) = Len(q) + 1 /\ Len(q) \in Nat
         /\ Append(q, e)[Len(q) + 1] = e
         /\ \A i \in 1 .. Len(q) : Append(q, e)[i] = q[i]
  OBVIOUS

\* What reading the first event leaves of it.
LEMMA RemovedEvent ==
  ASSUME NEW q \in Seq(Event), q # <<>>
  PROVE  /\ Head(q) \in Event /\ Head(q) = q[1]
         /\ Tail(q) \in Seq(Event)
         /\ Len(q) \in Nat \ {0} /\ Len(Tail(q)) = Len(q) - 1
         /\ \A i \in 1 .. Len(q) - 1 : Tail(q)[i] = q[i + 1]
  OBVIOUS

-----------------------------------------------------------------------------
(* The hand *)

\* An event that is reported while the remapper is active is new, and it is a
\* release if its key is up now.
LEMMA ReportKeeps ==
  ASSUME IInv, NEW k \in Keys, NEW press \in BOOLEAN, Report(k, press),
         down' = IF press THEN down \cup {k} ELSE down \ {k}
  PROVE  IInv'
<1> DEFINE e == [key |-> k, press |-> press, seen |-> ~grabbed]
<1>1. e \in Event
  BY DEF IInv, TypeInv, Event
<1>2. place' = place /\ grabbed' = grabbed /\ cloned' = cloned
  BY DEF Report
<1>3. queue \in Seq(Event)
  BY DEF IInv, TypeInv
<1>4. queue' = queue \/ queue' = Append(queue, e)
  BY DEF Report
<1>5. TypeInv'
  <2>1. queue' \in Seq(Event)
    BY <1>1, <1>3, <1>4, AppendedEvent
  <2>2. down' \subseteq Keys /\ seen' \subseteq Keys /\ raced' \subseteq Keys
    BY DEF IInv, TypeInv, Report
  <2>3. QED
    BY <2>1, <2>2, <1>2 DEF IInv, TypeInv
<1>6. GrabFollowsPlace'
  BY <1>2 DEF IInv, GrabFollowsPlace
<1>7. SeenIsExplained'
  BY <1>2 DEF IInv, SeenIsExplained, GrabFollowsPlace, Report
<1>8. ASSUME place' = "active" PROVE ReleaseIsDue' /\ BufferIsFresh'
  <2>1. queue' = Append(queue, e)
    BY <1>8, <1>2 DEF Report
  <2>2. ReleaseIsDue /\ BufferIsFresh /\ grabbed
    BY <1>8, <1>2 DEF IInv, GrabFollowsPlace
  <2>3. /\ Len(queue') = Len(queue) + 1 /\ Len(queue) \in Nat
        /\ queue'[Len(queue) + 1] = e
        /\ \A i \in 1 .. Len(queue) : queue'[i] = queue[i]
    BY <2>1, <1>1, <1>3, AppendedEvent
  <2>4. BufferIsFresh'
    <3>1. ~e.seen
      BY <2>2
    <3>2. \A i \in 1 .. Len(queue') : i \in 1 .. Len(queue) \/ i = Len(queue) + 1
      BY <2>3
    <3>3. QED
      BY <2>2, <2>3, <3>1, <3>2 DEF BufferIsFresh
  <2>5. ASSUME NEW h \in Keys \ down',
               h \in cloned' \/ \E i \in 1 .. Len(queue') : queue'[i].key = h
        PROVE  \E i \in 1 .. Len(queue') : LastIsRelease(h, i)'
    <3>1. CASE h = k
      <4>1. ~press
        BY <2>5, <3>1
      <4>2. PICK n \in Nat : n = Len(queue')
        BY <2>3
      <4>3. n \in 1 .. Len(queue') /\ queue'[n] = e
        BY <4>2, <2>3
      <4>4. LastIsRelease(h, n)'
        BY <4>1, <4>2, <4>3, <3>1 DEF LastIsRelease
      <4>5. QED
        BY <4>3, <4>4
    <3>2. CASE h # k
      <4>1. h \in Keys \ down
        BY <2>5, <3>2
      <4>2. h \in cloned \/ \E i \in 1 .. Len(queue) : queue[i].key = h
        BY <2>5, <3>2, <2>3, <1>2
      <4>3. PICK i \in 1 .. Len(queue) : LastIsRelease(h, i)
        BY <4>1, <4>2, <2>2 DEF ReleaseIsDue
      <4>4. LastIsRelease(h, i)'
        BY <4>3, <3>2, <2>3 DEF LastIsRelease
      <4>5. QED
        BY <4>4, <2>3
    <3>3. QED
      BY <3>1, <3>2
  <2>6. QED
    BY <2>4, <2>5 DEF ReleaseIsDue
<1>9. QED
  BY <1>5, <1>6, <1>7, <1>8 DEF IInv

\* A node that disappears takes its keys and its grab with it.
LEMMA UnplugKeeps == ASSUME IInv, Unplug PROVE IInv'
<1>1. TypeInv'
  <2>1. queue' \in Seq(Event)
    BY DEF Unplug
  <2>2. QED
    BY <2>1 DEF IInv, TypeInv, Unplug, Places
<1>2. GrabFollowsPlace' /\ SeenIsExplained' /\ place' # "active"
  BY DEF IInv, GrabFollowsPlace, SeenIsExplained, Unplug
<1>3. QED
  BY <1>1, <1>2 DEF IInv

-----------------------------------------------------------------------------
(* The engine *)

\* Reading an event settles its key on the clone, or leaves the rest to do so.
LEMMA ReadKeeps == ASSUME IInv, Read PROVE IInv'
<1>1. /\ queue \in Seq(Event) /\ queue # <<>> /\ queue' = Tail(queue)
      /\ UNCHANGED <<down, seen, place, grabbed, raced>>
  BY DEF IInv, TypeInv, Read
<1>2. /\ Head(queue) \in Event /\ Head(queue) = queue[1]
      /\ queue' \in Seq(Event)
      /\ Len(queue) \in Nat \ {0} /\ Len(queue') = Len(queue) - 1
      /\ \A i \in 1 .. Len(queue) - 1 : queue'[i] = queue[i + 1]
  BY <1>1, RemovedEvent
<1>3. cloned' = IF place = "active" THEN Forwarded(Head(queue)) ELSE cloned
  BY DEF Read
<1>4. cloned' \subseteq Keys \ Triggers
  BY <1>2, <1>3 DEF IInv, TypeInv, Forwarded, Event
<1>5. TypeInv'
  BY <1>1, <1>2, <1>4 DEF IInv, TypeInv
<1>6. GrabFollowsPlace' /\ SeenIsExplained'
  BY <1>1, <1>3 DEF IInv, GrabFollowsPlace, SeenIsExplained
<1>7. ASSUME place' = "active" PROVE ReleaseIsDue' /\ BufferIsFresh'
  <2>1. ReleaseIsDue /\ BufferIsFresh /\ cloned' = Forwarded(queue[1])
    BY <1>7, <1>1, <1>2, <1>3 DEF IInv
  <2>2. BufferIsFresh'
    BY <2>1, <1>2 DEF BufferIsFresh
  <2>3. ASSUME NEW h \in Keys \ down',
               h \in cloned' \/ \E i \in 1 .. Len(queue') : queue'[i].key = h
        PROVE  \E i \in 1 .. Len(queue') : LastIsRelease(h, i)'
    <3>1. h \in Keys \ down
      BY <2>3, <1>1
    <3>2. h \in cloned \/ \E i \in 1 .. Len(queue) : queue[i].key = h
      <4>1. CASE h \in cloned'
        <5>1. h \in cloned \/ h = queue[1].key
          BY <4>1, <2>1 DEF Forwarded
        <5>2. QED
          BY <5>1, <1>2
      <4>2. CASE \E i \in 1 .. Len(queue') : queue'[i].key = h
        BY <4>2, <1>2
      <4>3. QED
        BY <4>1, <4>2, <2>3
    <3>3. PICK i \in 1 .. Len(queue) : LastIsRelease(h, i)
      BY <3>1, <3>2, <2>1 DEF ReleaseIsDue
    <3>4. i # 1
      <4>1. SUFFICES ASSUME i = 1 PROVE FALSE
        OBVIOUS
      <4>2. queue[1].key = h /\ ~queue[1].press
            /\ \A j \in 1 .. Len(queue) : j > 1 => queue[j].key # h
        BY <3>3, <4>1 DEF LastIsRelease
      <4>3. h \notin cloned'
        BY <4>2, <2>1 DEF Forwarded, IInv, TypeInv
      <4>4. \A j \in 1 .. Len(queue') : queue'[j].key # h
        BY <4>2, <1>2
      <4>5. QED
        BY <4>3, <4>4, <2>3
    <3>5. i - 1 \in 1 .. Len(queue')
      BY <3>4, <1>2
    <3>6. LastIsRelease(h, i - 1)'
      BY SMTT(30), <3>3, <3>5, <1>2 DEF LastIsRelease
    <3>7. QED
      BY <3>5, <3>6
  <2>4. QED
    BY <2>2, <2>3 DEF ReleaseIsDue
<1>8. QED
  BY <1>5, <1>6, <1>7 DEF IInv

\* The buffer and the clone are empty when forwarding begins.
LEMMA DiscardKeeps == ASSUME IInv, Discard PROVE IInv'
<1>1. TypeInv' /\ GrabFollowsPlace' /\ SeenIsExplained'
  BY DEF IInv, TypeInv, GrabFollowsPlace, SeenIsExplained, Discard, Places
<1>2. queue' = <<>> /\ cloned' = {}
  BY DEF IInv, GrabFollowsPlace, Discard
<1>3. Len(queue') = 0
  BY <1>2
<1>4. ReleaseIsDue' /\ BufferIsFresh'
  BY <1>2, <1>3 DEF ReleaseIsDue, BufferIsFresh
<1>5. QED
  BY <1>1, <1>4 DEF IInv

\* The other steps of the engine do not lead to an active remapper.
LEMMA OtherStepKeeps ==
  ASSUME IInv,
         \/ Open \/ Close \/ Clone \/ Look \/ Grab \/ GrabFails
         \/ Stop \/ Ungrab \/ CloseClone \/ NoticeLoss
  PROVE  IInv'
<1>1. TypeInv'
  <2>1. queue' = queue \/ queue' = <<>>
    BY DEF Open, Close, Clone, Look, Grab, GrabFails, Stop, Ungrab, CloseClone, NoticeLoss
  <2>2. queue' \in Seq(Event)
    <3>1. queue \in Seq(Event)
      BY DEF IInv, TypeInv
    <3>2. CASE queue' = <<>>
      BY <3>2
    <3>3. QED
      BY <2>1, <3>1, <3>2
  <2>3. down' = down /\ seen' = seen /\ raced' = raced
    BY DEF Open, Close, Clone, Look, Grab, GrabFails, Stop, Ungrab, CloseClone, NoticeLoss
  <2>4. cloned' = cloned \/ cloned' = {}
    BY DEF Open, Close, Clone, Look, Grab, GrabFails, Stop, Ungrab, CloseClone, NoticeLoss
  <2>5. place' \in Places
    BY DEF Places, Open, Close, Clone, Look, Grab, GrabFails, Stop, Ungrab, CloseClone, NoticeLoss
  <2>6. grabbed' = grabbed \/ grabbed' = TRUE \/ grabbed' = FALSE
    BY DEF Open, Close, Clone, Look, Grab, GrabFails, Stop, Ungrab, CloseClone, NoticeLoss
  <2>7. QED
    BY <2>2, <2>3, <2>6, <2>4, <2>5 DEF IInv, TypeInv
<1>2. GrabFollowsPlace' /\ place' # "active"
  BY DEF IInv, GrabFollowsPlace, Open, Close, Clone, Look, Grab, GrabFails, Stop, Ungrab,
         CloseClone, NoticeLoss
<1>3. SeenIsExplained'
  BY DEF IInv, GrabFollowsPlace, SeenIsExplained, Open, Close, Clone, Look, Grab, GrabFails,
         Stop, Ungrab, CloseClone, NoticeLoss
<1>4. QED
  BY <1>1, <1>2, <1>3 DEF IInv

-----------------------------------------------------------------------------
LEMMA StepKeeps == ASSUME IInv, [Next]_vars PROVE IInv'
<1>1. CASE \E k \in Keys : Press(k)
  BY <1>1, ReportKeeps DEF Press
<1>2. CASE \E k \in Keys : LetGo(k)
  BY <1>2, ReportKeeps DEF LetGo
<1>3. CASE Unplug
  BY <1>3, UnplugKeeps
<1>4. CASE Read
  BY <1>4, ReadKeeps
<1>5. CASE Discard
  BY <1>5, DiscardKeeps
<1>6. CASE \/ Open \/ Close \/ Clone \/ Look \/ Grab \/ GrabFails
           \/ Stop \/ Ungrab \/ CloseClone \/ NoticeLoss
  BY <1>6, OtherStepKeeps
<1>7. CASE UNCHANGED vars
  BY <1>7 DEF vars, IInv, TypeInv, GrabFollowsPlace, SeenIsExplained, ReleaseIsDue,
              LastIsRelease, BufferIsFresh
<1>8. QED
  BY <1>1, <1>2, <1>3, <1>4, <1>5, <1>6, <1>7 DEF Next, HandStep, EngineStep

\* Every reachable state of a node around its grab has the inductive invariant.
THEOREM Invariance == Spec => []IInv
<1>1. IInv /\ [Next]_vars => IInv'
  BY StepKeeps
<1>2. QED
  BY InitHolds, <1>1, PTL DEF Spec

\* With the hands off and the buffer read, the clone has no key down, and the
\* device none but one that was pressed between active_keys() and grab()
\* (Remapper.start, try_grab, handle, stop, and a node that is unplugged at any
\* moment), for every set of keys and every backlog.
THEOREM NoKeySticks == Spec => []OnlyRacedKeysStick
<1>1. IInv => OnlyRacedKeysStick
  <2>1. SUFFICES ASSUME IInv, Quiet PROVE cloned = {} /\ seen \subseteq raced
    BY DEF OnlyRacedKeysStick
  <2>2. seen \subseteq raced
    BY <2>1 DEF IInv, SeenIsExplained, Quiet
  <2>3. CASE place = "active"
    <3>1. ReleaseIsDue /\ down = {} /\ Len(queue) = 0 /\ cloned \subseteq Keys
      BY <2>1, <2>3 DEF IInv, TypeInv, Quiet
    <3>2. QED
      BY <3>1, <2>2 DEF ReleaseIsDue
  <2>4. CASE place # "active"
    BY <2>1, <2>2, <2>4 DEF IInv, GrabFollowsPlace, Quiet
  <2>5. QED
    BY <2>3, <2>4
<1>2. QED
  BY Invariance, <1>1, PTL

\* No event the compositor saw on the device is left for the remapper to
\* forward, and nothing is down on a clone whose device is free
\* (_discard_buffered, _release).
THEOREM PassedOnOnce == Spec => []NothingTwice
<1>1. IInv => NothingTwice
  BY DEF IInv, GrabFollowsPlace, BufferIsFresh, NothingTwice
<1>2. QED
  BY Invariance, <1>1, PTL
=============================================================================
