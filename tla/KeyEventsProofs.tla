---------------------------- MODULE KeyEventsProofs ----------------------------
(***************************************************************************)
(* For every size of the ring and every number of restarts and lost        *)
(* answers: the poller feeds every press at most once and in order, the    *)
(* recorder dialog leaves the engine as it found it, and the watch the     *)
(* poller believes in is the engine's.  What the poller has to remember    *)
(* for the first is its one cursor; the invariant relates it to the first  *)
(* press due and to the answer that is on its way.  For the others the     *)
(* invariant says who will still give back what is borrowed: the dialog,   *)
(* its queue, or a request on its way.  At the end the same for the        *)
(* service that starts and stops the engine, and for its clients together. *)
(***************************************************************************)
EXTENDS EngineClients, SequenceTheorems, TLAPS

Replies == [boot : Nat, from : Nat, upto : Nat]
Phases == {"sent", "read", "watched", "done", "failed"}
Jobs == [kind : Kinds, names : NameSets, since : Nat, phase : Phases, reply : Replies]
Pollers == [watching : {{}, Effects}, since : Nat, inFlight : BOOLEAN, fresh : BOOLEAN,
            polling : BOOLEAN]
Dialogs == [shown : {"no", "open", "accepted", "cancelled"}, capture : BOOLEAN,
            phase : {"idle", "starting", "recording", "stopping"}, cancelled : BOOLEAN,
            watching : BOOLEAN, polling : BOOLEAN, inFlight : BOOLEAN, since : Nat,
            previous : NameSets \cup {Unread}, ops : Seq(WatchOps), busy : BOOLEAN]

TypeInv ==
  /\ boot \in Nat /\ next \in Nat
  /\ names \in NameSets
  /\ poller \in Pollers
  /\ dialog \in Dialogs
  /\ jobs \subseteq Jobs
  /\ due \in [boot : Nat, at : Nat]

\* One poll is under way at most, and it asks from the cursor on.
OnePoll ==
  \A j \in jobs : j.kind = "feed" =>
    /\ poller.inFlight
    /\ j.since = poller.since
    /\ \A k \in jobs : k.kind = "feed" => k = j

\* The first press due is not ahead of the engine that runs, nor of the cursor
\* if that is one of this engine.
DueIsPast ==
  /\ due.boot <= boot
  /\ up /\ due.boot = boot => due.at <= next
  /\ ~poller.fresh /\ due.boot = boot => due.at <= poller.since

\* An answer to a poll is not older than the first press due, and starts with
\* it or later unless the poller will only take the cursor from it.
ReplyIsDue(j) ==
  /\ j.reply.boot <= boot
  /\ up /\ j.reply.boot = boot => j.reply.upto <= next
  /\ due.boot <= j.reply.boot
  /\ due.boot = j.reply.boot => due.at <= j.reply.upto
  /\ ~poller.fresh /\ due.boot = j.reply.boot => due.at <= j.reply.from

RepliesAreDue == \A j \in jobs : j.kind = "feed" /\ j.phase = "done" => ReplyIsDue(j)

IInv == TypeInv /\ OnePoll /\ DueIsPast /\ RepliesAreDue

-----------------------------------------------------------------------------
LEMMA PlainType ==
  ASSUME NEW kind \in Kinds, NEW S \in NameSets, NEW since \in Nat
  PROVE  Job(kind, S, since) \in Jobs /\ Job(kind, S, since).kind = kind
                                      /\ Job(kind, S, since).since = since
                                      /\ Job(kind, S, since).phase = "sent"
  BY DEF Job, Jobs, Phases, NoEvents, Replies

LEMMA JobBecomes ==
  ASSUME NEW j \in Jobs, NEW r \in Replies
  PROVE  /\ Answered(j, r) \in Jobs /\ Answered(j, r).kind = j.kind
         /\ Answered(j, r).since = j.since /\ Answered(j, r).reply = r
         /\ Failed(j) \in Jobs /\ Failed(j).kind = j.kind /\ Failed(j).since = j.since
         /\ Failed(j).phase = "failed"
  BY DEF Answered, Failed, Jobs, Phases

\* The presses of an answer are numbered from the cursor asked for or later, and
\* none is missing but the oldest.
LEMMA EventsType ==
  ASSUME TypeInv, NEW since \in Nat
  PROVE  /\ EventsSince(since) \in Replies
         /\ EventsSince(since).boot = boot /\ EventsSince(since).upto = next
         /\ EventsSince(since).from = next \/ since <= EventsSince(since).from
<1>1. RingSize \in Nat /\ Oldest \in Nat
  BY BoundsAssumption DEF TypeInv, Oldest
<1>2. Max2(since, Oldest) \in Nat /\ since <= Max2(since, Oldest)
  BY <1>1 DEF Max2
<1>3. QED
  BY <1>2 DEF EventsSince, Replies, TypeInv

LEMMA NewDialogType ==
  /\ \A capture \in BOOLEAN : NewDialog(capture) \in Dialogs
  /\ NoDialog \in Dialogs
<1>1. ASSUME NEW capture \in BOOLEAN PROVE NewDialog(capture) \in Dialogs
  <2>1. <<>> \in Seq(WatchOps) /\ Unread \in NameSets \cup {Unread}
    OBVIOUS
  <2>2. QED
    BY <2>1 DEF NewDialog, Dialogs
<1>2. NoDialog \in Dialogs
  BY <1>1 DEF NoDialog, Dialogs
<1>3. QED
  BY <1>1, <1>2

LEMMA InitHolds == Init => IInv
<1>1. Init => poller \in Pollers
  BY DEF Init, NewPoller, Pollers
<1>2. Init => dialog \in Dialogs
  BY NewDialogType DEF Init
<1>3. Init => TypeInv
  BY <1>1, <1>2 DEF Init, TypeInv, NameSets
<1>4. Init => OnePoll /\ DueIsPast /\ RepliesAreDue
  BY DEF Init, OnePoll, DueIsPast, RepliesAreDue, NewPoller
<1>5. QED
  BY <1>3, <1>4 DEF IInv

\* What leaves the cursor, the engine's count and the polls alone keeps it.
LEMMA FrameKeeps ==
  ASSUME IInv, TypeInv', UNCHANGED <<up, boot, next, due>>,
         poller'.since = poller.since, poller'.fresh = poller.fresh,
         \A j \in jobs' : j.kind = "feed" => j \in jobs /\ poller'.inFlight
  PROVE  IInv'
<1>1. OnePoll' /\ DueIsPast'
  BY DEF IInv, OnePoll, DueIsPast
<1>2. RepliesAreDue'
  BY DEF IInv, RepliesAreDue, ReplyIsDue
<1>3. QED
  BY <1>1, <1>2 DEF IInv

-----------------------------------------------------------------------------
(* The engine *)

LEMMA PressKeeps == ASSUME IInv, Press PROVE IInv'
<1>1. /\ next' = next + 1
      /\ up' = up /\ boot' = boot /\ names' = names /\ jobs' = jobs /\ due' = due
      /\ poller' = poller /\ dialog' = dialog
  BY DEF Press, guiVars, history
<1>2. TypeInv'
  BY <1>1 DEF IInv, TypeInv
<1>3. OnePoll' /\ DueIsPast'
  BY <1>1 DEF IInv, TypeInv, OnePoll, DueIsPast
<1>4. RepliesAreDue'
  <2>1. ASSUME NEW j \in jobs, j.kind = "feed", j.phase = "done" PROVE ReplyIsDue(j)'
    <3>1. ReplyIsDue(j)
      BY <2>1 DEF IInv, RepliesAreDue
    <3>2. j.reply.upto \in Nat /\ next \in Nat
      BY DEF IInv, TypeInv, Jobs, Replies
    <3>3. QED
      BY <1>1, <3>1, <3>2 DEF ReplyIsDue
  <2>2. QED
    BY <1>1, <2>1 DEF RepliesAreDue
<1>5. QED
  BY <1>2, <1>3, <1>4 DEF IInv

LEMMA CrashKeeps == ASSUME IInv, Crash PROVE IInv'
<1>1. /\ next' = 0 /\ up' = FALSE /\ names' = {}
      /\ boot' = boot /\ jobs' = jobs /\ due' = due /\ poller' = poller /\ dialog' = dialog
  BY DEF Crash, guiVars
<1>2. TypeInv'
  BY <1>1 DEF IInv, TypeInv, NameSets
<1>3. OnePoll' /\ DueIsPast'
  BY <1>1 DEF IInv, OnePoll, DueIsPast
<1>4. RepliesAreDue'
  BY <1>1 DEF IInv, RepliesAreDue, ReplyIsDue
<1>5. QED
  BY <1>2, <1>3, <1>4 DEF IInv

\* A new process has a number of its own: nothing is due from it yet.
LEMMA BootKeeps == ASSUME IInv, Boot PROVE IInv'
<1>1. /\ boot' = boot + 1 /\ next' = next /\ names' = names
      /\ jobs' = jobs /\ due' = due /\ poller' = poller /\ dialog' = dialog
  BY DEF Boot, guiVars, history
<1>2. TypeInv' /\ boot \in Nat /\ due.boot \in Nat
  BY <1>1 DEF IInv, TypeInv
<1>3. OnePoll' /\ DueIsPast'
  BY <1>1, <1>2 DEF IInv, OnePoll, DueIsPast
<1>4. RepliesAreDue'
  <2>1. ASSUME NEW j \in jobs, j.kind = "feed", j.phase = "done" PROVE ReplyIsDue(j)'
    <3>1. ReplyIsDue(j)
      BY <2>1 DEF IInv, RepliesAreDue
    <3>2. j.reply.boot \in Nat
      BY DEF IInv, TypeInv, Jobs, Replies
    <3>3. QED
      BY <1>1, <1>2, <3>1, <3>2 DEF ReplyIsDue
  <2>2. QED
    BY <1>1, <2>1 DEF RepliesAreDue
<1>5. QED
  BY <1>2, <1>3, <1>4 DEF IInv

\* A request that is no poll leaves the polls alone.
LEMMA OtherRequestKeeps ==
  ASSUME IInv, NEW j \in jobs, j.kind # "feed", Request(j)
  PROVE  IInv'
<1>1. j \in Jobs /\ names \in NameSets /\ dialog \in Dialogs /\ jobs \subseteq Jobs
  BY DEF IInv, TypeInv
<1>2. /\ boot' = boot /\ next' = next /\ up' = up /\ poller' = poller /\ due' = due
  BY DEF Request
<1>3. \/ jobs' = jobs \ {j}
      \/ \E k \in Jobs : k.kind # "feed" /\ jobs' = (jobs \ {j}) \cup {k}
  <2>1. CASE j.kind = "press"
    <3>1. EventsSince(j.since) \in Replies
      BY <1>1, EventsType DEF Jobs, IInv
    <3>2. jobs' = (jobs \ {j}) \cup {Answered(j, EventsSince(j.since))}
      BY <2>1 DEF Request, Serve, Replace
    <3>3. QED
      BY <3>1, <3>2, <1>1, <2>1, JobBecomes
  <2>2. CASE j.kind \in {"watch", "discard"}
    <3>1. jobs' = (jobs \ {j}) \cup {}
      BY <2>2 DEF Request, Serve, Replace
    <3>2. QED
      BY <3>1
  <2>3. CASE j.kind = "capture"
    <3>1. EventsSince(0) \in Replies
      BY EventsType DEF IInv
    <3>2. /\ [j EXCEPT !.phase = "read"] \in Jobs /\ [j EXCEPT !.phase = "watched"] \in Jobs
          /\ [j EXCEPT !.phase = "read"].kind = "capture"
          /\ [j EXCEPT !.phase = "watched"].kind = "capture"
      BY <1>1, <2>3 DEF Jobs, Phases
    <3>3. \/ jobs' = (jobs \ {j}) \cup {[j EXCEPT !.phase = "read"]}
          \/ jobs' = (jobs \ {j}) \cup {[j EXCEPT !.phase = "watched"]}
          \/ jobs' = (jobs \ {j}) \cup {Answered(j, EventsSince(0))}
      BY <2>3 DEF Request, Serve, Replace
    <3>4. Answered(j, EventsSince(0)) \in Jobs /\ Answered(j, EventsSince(0)).kind # "feed"
      BY <1>1, <2>3, <3>1, JobBecomes
    <3>5. QED
      BY <3>2, <3>3, <3>4
  <2>4. CASE j.kind \in {"restore", "record_start", "record_stop"}
    <3>1. NoEvents \in Replies
      BY DEF NoEvents, Replies
    <3>2. \/ jobs' = (jobs \ {j}) \cup {Answered(j, NoEvents)}
          \/ jobs' = (jobs \ {j}) \cup {Failed(j)}
      BY <2>4 DEF Request, Serve, Replace
    <3>3. /\ Answered(j, NoEvents) \in Jobs /\ Failed(j) \in Jobs
          /\ Answered(j, NoEvents).kind # "feed" /\ Failed(j).kind # "feed"
      BY <1>1, <2>4, <3>1, JobBecomes
    <3>4. QED
      BY <3>2, <3>3
  <2>5. QED
    BY <1>1, <2>1, <2>2, <2>3, <2>4 DEF Jobs, Kinds
<1>4. names' \in NameSets
  BY <1>1 DEF Request, Serve, Restored, Jobs, NameSets, Dialogs
<1>5. dialog' \in Dialogs
  <2>1. dialog' = dialog \/ dialog' = [dialog EXCEPT !.previous = names]
    BY DEF Request, Serve
  <2>2. QED
    BY <1>1, <2>1 DEF Dialogs
<1>6. TypeInv'
  BY <1>2, <1>3, <1>4, <1>5 DEF IInv, TypeInv
<1>7. \A k \in jobs' : k.kind = "feed" => k \in jobs /\ poller'.inFlight
  BY <1>2, <1>3 DEF IInv, OnePoll
<1>8. QED
  BY <1>2, <1>6, <1>7, FrameKeeps

\* The engine answers a poll with what is due, as the cursor is not behind it.
LEMMA PollIsAnswered ==
  ASSUME IInv, NEW j \in jobs, j.kind = "feed", Request(j)
  PROVE  IInv'
<1>1. /\ j \in Jobs /\ j.since \in Nat /\ poller \in Pollers /\ due \in [boot : Nat, at : Nat]
      /\ boot \in Nat /\ next \in Nat /\ jobs \subseteq Jobs
  BY DEF IInv, TypeInv, Jobs
<1>2. /\ boot' = boot /\ next' = next /\ up /\ up' = up /\ poller' = poller /\ due' = due
  BY DEF Request
<1>3. PICK r \in Replies : /\ r = EventsSince(j.since) /\ r.boot = boot /\ r.upto = next
                           /\ r.from = next \/ j.since <= r.from
  BY <1>1, EventsType DEF IInv
<1>4. PICK k \in Jobs : /\ k = Answered(j, r)
                        /\ k.kind = "feed" /\ k.since = j.since /\ k.reply = r
  BY <1>1, JobBecomes
<1>5. jobs' = (jobs \ {j}) \cup {k} /\ names' = names /\ dialog' = dialog
  BY <1>3, <1>4 DEF Request, Serve, Replace
<1>6. TypeInv'
  BY <1>1, <1>2, <1>5 DEF IInv, TypeInv
<1>7. \A l \in jobs' : l.kind = "feed" => l = k
  BY <1>5 DEF IInv, OnePoll
<1>8. OnePoll'
  <2>1. poller.inFlight /\ k.since = poller.since
    BY <1>4 DEF IInv, OnePoll
  <2>2. QED
    BY <1>2, <1>7, <2>1 DEF OnePoll
<1>9. DueIsPast'
  BY <1>2 DEF IInv, DueIsPast
<1>10. RepliesAreDue'
  <2>1. j.since = poller.since
    BY DEF IInv, OnePoll
  <2>2. r.from \in Nat
    BY DEF Replies
  <2>3. due.boot <= boot /\ (due.boot = boot => due.at <= next)
        /\ (~poller.fresh /\ due.boot = boot => due.at <= j.since)
    BY <1>2, <2>1 DEF IInv, DueIsPast
  <2>4. ~poller.fresh /\ due.boot = boot => due.at <= r.from
    BY <1>1, <1>3, <2>2, <2>3
  <2>5. ReplyIsDue(k)'
    BY <1>1, <1>2, <1>3, <1>4, <2>3, <2>4 DEF ReplyIsDue
  <2>6. QED
    BY <1>7, <2>5 DEF RepliesAreDue
<1>11. QED
  BY <1>6, <1>8, <1>9, <1>10 DEF IInv

\* A request that fails, carried out or not, becomes no answer.
LEMMA FailureKeeps ==
  ASSUME IInv, NEW j \in jobs, Unreachable(j) \/ TimesOut(j)
  PROVE  IInv'
<1>1. j \in Jobs /\ names \in NameSets /\ dialog \in Dialogs /\ jobs \subseteq Jobs
      /\ NoEvents \in Replies
  BY DEF IInv, TypeInv, NoEvents, Replies
<1>2. /\ boot' = boot /\ next' = next /\ up' = up /\ poller' = poller /\ due' = due
      /\ dialog' = dialog \/ dialog' = [dialog EXCEPT !.previous = Unread]
  BY DEF Unreachable, TimesOut, NamesNotRead, engineVars, history
<1>3. jobs' = (jobs \ {j}) \cup {Failed(j)}
  BY DEF Unreachable, TimesOut, Replace
<1>4. /\ Failed(j) \in Jobs /\ Failed(j).kind = j.kind /\ Failed(j).since = j.since
      /\ Failed(j).phase = "failed"
  BY <1>1, JobBecomes
<1>5. names' \in NameSets
  BY <1>1 DEF Unreachable, TimesOut, engineVars, Restored, Jobs, NameSets, Dialogs
<1>6. TypeInv'
  <2>1. dialog' \in Dialogs
    BY <1>1, <1>2 DEF Dialogs
  <2>2. QED
    BY <1>1, <1>2, <1>3, <1>4, <1>5, <2>1 DEF IInv, TypeInv
<1>7. OnePoll'
  <2>1. ASSUME NEW a \in jobs', a.kind = "feed"
        PROVE  poller.inFlight /\ a.since = poller.since
    BY <2>1, <1>3, <1>4 DEF IInv, OnePoll
  <2>2. ASSUME NEW a \in jobs', NEW b \in jobs', a.kind = "feed", b.kind = "feed"
        PROVE  a = b
    BY <2>2, <1>3, <1>4 DEF IInv, OnePoll
  <2>3. QED
    BY <1>2, <2>1, <2>2 DEF OnePoll
<1>8. DueIsPast'
  BY <1>2 DEF IInv, DueIsPast
<1>9. RepliesAreDue'
  BY <1>2, <1>3, <1>4 DEF IInv, RepliesAreDue, ReplyIsDue
<1>10. QED
  BY <1>6, <1>7, <1>8, <1>9 DEF IInv

LEMMA EngineKeeps == ASSUME IInv, EngineStep PROVE IInv'
<1>1. ASSUME NEW j \in jobs, Answer(j) PROVE IInv'
  <2>1. CASE Request(j) /\ j.kind = "feed"
    BY <2>1, PollIsAnswered
  <2>2. CASE Request(j) /\ j.kind # "feed"
    BY <2>2, OtherRequestKeeps
  <2>3. CASE Unreachable(j) \/ TimesOut(j)
    BY <2>3, FailureKeeps
  <2>4. QED
    BY <1>1, <2>1, <2>2, <2>3 DEF Answer
<1>2. QED
  BY <1>1, PressKeeps, CrashKeeps, BootKeeps DEF EngineStep

-----------------------------------------------------------------------------
(* The poller *)

\* A watch that starts makes what comes next the first press due, unless a poll
\* is under way: then its answer will only give the cursor.
LEMMA StartKeeps == ASSUME IInv, Start PROVE IInv'
<1> DEFINE k == Job("watch", Effects, 0)
<1>1. /\ up' = up /\ boot' = boot /\ next' = next /\ names' = names /\ dialog' = dialog
      /\ jobs' = jobs \cup {k}
      /\ poller' = [poller EXCEPT !.watching = Effects, !.fresh = TRUE, !.polling = TRUE]
      /\ due' = IF poller.inFlight THEN due ELSE [boot |-> boot, at |-> next]
  BY DEF Start, engineVars
<1>2. poller \in Pollers /\ boot \in Nat /\ next \in Nat
  BY DEF IInv, TypeInv
<1>3. /\ poller' \in Pollers /\ poller'.since = poller.since
      /\ poller'.inFlight = poller.inFlight /\ poller'.fresh
  BY <1>1, <1>2 DEF Pollers
<1>4. k \in Jobs /\ k.kind = "watch"
  BY PlainType DEF NameSets, Kinds
<1>5. TypeInv'
  BY <1>1, <1>3, <1>4 DEF IInv, TypeInv
<1>6. OnePoll'
  BY <1>1, <1>3, <1>4 DEF IInv, OnePoll
<1>7. DueIsPast'
  BY <1>1, <1>2, <1>3 DEF IInv, DueIsPast
<1>8. RepliesAreDue'
  <2>1. ASSUME NEW j \in jobs', j.kind = "feed", j.phase = "done" PROVE ReplyIsDue(j)'
    <3>1. j \in jobs /\ poller.inFlight /\ ReplyIsDue(j)
      BY <2>1, <1>1, <1>4 DEF IInv, OnePoll, RepliesAreDue
    <3>2. QED
      BY <3>1, <1>1, <1>3 DEF ReplyIsDue
  <2>2. QED
    BY <2>1 DEF RepliesAreDue
<1>9. QED
  BY <1>5, <1>6, <1>7, <1>8 DEF IInv

LEMMA LoseWatchType ==
  ASSUME NEW p \in Pollers
  PROVE  /\ LoseWatch(p) \in Pollers /\ LoseWatch(p).since = p.since
         /\ LoseWatch(p).fresh = p.fresh /\ LoseWatch(p).inFlight = p.inFlight
  BY DEF LoseWatch, Pollers

LEMMA StopKeeps == ASSUME IInv, Stop PROVE IInv'
<1> DEFINE k == Job("watch", {}, 0)
<1>1. /\ up' = up /\ boot' = boot /\ next' = next /\ names' = names /\ dialog' = dialog
      /\ due' = due /\ jobs' = jobs \cup {k} /\ poller' = LoseWatch(poller)
  BY DEF Stop, engineVars, history
<1>2. /\ poller' \in Pollers /\ poller'.since = poller.since
      /\ poller'.fresh = poller.fresh /\ poller'.inFlight = poller.inFlight
  BY <1>1, LoseWatchType DEF IInv, TypeInv
<1>3. k \in Jobs /\ k.kind = "watch"
  BY PlainType DEF NameSets, Kinds
<1>4. TypeInv'
  BY <1>1, <1>2, <1>3 DEF IInv, TypeInv
<1>5. \A j \in jobs' : j.kind = "feed" => j \in jobs /\ poller'.inFlight
  BY <1>1, <1>2, <1>3 DEF IInv, OnePoll
<1>6. QED
  BY <1>1, <1>2, <1>4, <1>5, FrameKeeps

LEMMA PollKeeps == ASSUME IInv, Poll PROVE IInv'
<1>1. poller \in Pollers /\ ~poller.inFlight
  BY DEF IInv, TypeInv, Poll
<1>2. PICK k \in Jobs : /\ k = Job("feed", {}, poller.since) /\ k.kind = "feed"
                        /\ k.since = poller.since /\ k.phase = "sent"
  <2>1. poller.since \in Nat /\ {} \in NameSets /\ "feed" \in Kinds
    BY <1>1 DEF Pollers, NameSets, Kinds
  <2>2. QED
    BY <2>1, PlainType
<1>3. /\ up' = up /\ boot' = boot /\ next' = next /\ names' = names /\ dialog' = dialog
      /\ due' = due /\ jobs' = jobs \cup {k} /\ poller' = [poller EXCEPT !.inFlight = TRUE]
  BY <1>2 DEF Poll, engineVars, history
<1>4. /\ poller' \in Pollers /\ poller'.since = poller.since
      /\ poller'.fresh = poller.fresh /\ poller'.inFlight
  BY <1>1, <1>3 DEF Pollers
<1>5. TypeInv'
  BY <1>3, <1>4 DEF IInv, TypeInv
<1>6. \A j \in jobs : j.kind # "feed"
  BY <1>1 DEF IInv, OnePoll
<1>7. OnePoll'
  BY <1>2, <1>3, <1>4, <1>6 DEF OnePoll
<1>8. DueIsPast'
  BY <1>3, <1>4 DEF IInv, DueIsPast
<1>9. RepliesAreDue'
  BY <1>2, <1>3, <1>6 DEF RepliesAreDue
<1>10. QED
  BY <1>5, <1>7, <1>8, <1>9 DEF IInv

\* What was fed is not due any more, and the cursor goes to the end of the answer.
LEMMA OnEventsKeeps == ASSUME IInv, NEW j \in jobs, OnEvents(j) PROVE IInv'
<1> DEFINE p == [poller EXCEPT !.inFlight = FALSE]
           cursor == j.reply.upto
<1>1. /\ j.kind = "feed" /\ ReplyIsDue(j) /\ poller \in Pollers /\ j \in Jobs
      /\ due \in [boot : Nat, at : Nat] /\ boot \in Nat /\ next \in Nat
  BY DEF OnEvents, IInv, RepliesAreDue, TypeInv
<1>2. /\ up' = up /\ boot' = boot /\ next' = next /\ names' = names /\ dialog' = dialog
      /\ jobs' = (jobs \ {j}) \cup {}
  BY DEF OnEvents, Replace, engineVars
<1>3. cursor \in Nat /\ j.reply.boot \in Nat
  BY <1>1 DEF Jobs, Replies
<1>4. p \in Pollers /\ p.since = poller.since /\ p.fresh = poller.fresh
  BY <1>1 DEF Pollers
<1>5. /\ poller' \in Pollers /\ poller'.since = cursor
      /\ due' = due \/ due' = [boot |-> j.reply.boot, at |-> cursor]
  <2>1. CASE p.fresh \/ cursor < p.since
    <3>1. poller' = Adopt(p, cursor) /\ due' = due
      BY <2>1 DEF OnEvents
    <3>2. (IF p.fresh THEN p ELSE LoseWatch(p)) \in Pollers
      BY <1>4, LoseWatchType
    <3>3. Adopt(p, cursor) \in Pollers /\ Adopt(p, cursor).since = cursor
      BY <1>3, <3>2 DEF Adopt, Pollers
    <3>4. QED
      BY <3>1, <3>3
  <2>2. CASE ~(p.fresh \/ cursor < p.since)
    <3>1. /\ poller' = [p EXCEPT !.since = cursor]
          /\ due' = due \/ due' = [boot |-> j.reply.boot, at |-> cursor]
      BY <2>2 DEF OnEvents
    <3>2. [p EXCEPT !.since = cursor] \in Pollers /\ [p EXCEPT !.since = cursor].since = cursor
      BY <1>3, <1>4 DEF Pollers
    <3>3. QED
      BY <3>1, <3>2
  <2>3. QED
    BY <2>1, <2>2
<1>6. due' \in [boot : Nat, at : Nat]
  BY <1>1, <1>3, <1>5
<1>7. TypeInv'
  BY <1>2, <1>5, <1>6 DEF IInv, TypeInv
<1>8. \A k \in jobs' : k.kind # "feed"
  BY <1>1, <1>2 DEF IInv, OnePoll
<1>9. OnePoll' /\ RepliesAreDue'
  BY <1>8 DEF OnePoll, RepliesAreDue
<1>10. DueIsPast'
  <2>1. CASE due' = due
    BY <2>1, <1>1, <1>2, <1>3, <1>5 DEF IInv, DueIsPast, ReplyIsDue
  <2>2. CASE due' = [boot |-> j.reply.boot, at |-> cursor]
    BY <2>2, <1>1, <1>2, <1>3, <1>5 DEF DueIsPast, ReplyIsDue
  <2>3. QED
    BY <1>5, <2>1, <2>2
<1>11. QED
  BY <1>7, <1>9, <1>10 DEF IInv

LEMMA OnPollerFailedKeeps == ASSUME IInv, NEW j \in jobs, OnPollerFailed(j) PROVE IInv'
<1> DEFINE p == IF j.kind = "feed" THEN [poller EXCEPT !.inFlight = FALSE] ELSE poller
<1>1. /\ up' = up /\ boot' = boot /\ next' = next /\ names' = names /\ dialog' = dialog
      /\ due' = due /\ jobs' = (jobs \ {j}) \cup {} /\ poller' = LoseWatch(p)
  BY DEF OnPollerFailed, Replace, engineVars, history
<1>2. /\ p \in Pollers /\ p.since = poller.since /\ p.fresh = poller.fresh
      /\ j.kind # "feed" => p.inFlight = poller.inFlight
  BY DEF IInv, TypeInv, Pollers
<1>3. /\ poller' \in Pollers /\ poller'.since = poller.since /\ poller'.fresh = poller.fresh
      /\ j.kind # "feed" => poller'.inFlight = poller.inFlight
  BY <1>1, <1>2, LoseWatchType
<1>4. TypeInv'
  BY <1>1, <1>3 DEF IInv, TypeInv
<1>5. \A k \in jobs' : k.kind = "feed" => k \in jobs /\ poller'.inFlight
  BY <1>1, <1>3 DEF IInv, OnePoll
<1>6. QED
  BY <1>1, <1>3, <1>4, <1>5, FrameKeeps

LEMMA ReleaseKeeps == ASSUME IInv, ReleaseWatch PROVE IInv'
<1>1. /\ up' = up /\ boot' = boot /\ next' = next /\ due' = due
      /\ names' = (IF poller.watching = {} THEN names ELSE {})
      /\ jobs' = {} /\ poller' = NewPoller /\ dialog' = NoDialog
  BY DEF ReleaseWatch
<1>2. poller' \in Pollers /\ poller'.fresh /\ dialog' \in Dialogs
  BY <1>1, NewDialogType DEF NewPoller, Pollers
<1>3. TypeInv'
  BY <1>1, <1>2 DEF IInv, TypeInv, NameSets
<1>4. OnePoll' /\ DueIsPast' /\ RepliesAreDue'
  BY <1>1, <1>2 DEF IInv, OnePoll, DueIsPast, RepliesAreDue
<1>5. QED
  BY <1>3, <1>4 DEF IInv

LEMMA PollerKeeps == ASSUME IInv, PollerStep PROVE IInv'
<1>1. CASE SetWanted
  BY <1>1 DEF SetWanted, engineVars, history, IInv, TypeInv, OnePoll, DueIsPast,
              RepliesAreDue, ReplyIsDue
<1>2. QED
  BY <1>1, StartKeeps, StopKeeps, PollKeeps, OnEventsKeeps, OnPollerFailedKeeps, ReleaseKeeps
     DEF PollerStep, Sync

-----------------------------------------------------------------------------
(* The dialog, which has requests of its own but none of the poller's *)

\* A dialog that becomes d, with requests S of its own, leaves the poller alone.
LEMMA BecomeKeeps ==
  ASSUME IInv, NEW d \in Dialogs, NEW done, NEW S \in SUBSET Jobs,
         \A k \in S : k.kind # "feed",
         Become(d, done, S)
  PROVE  IInv'
<1>1. /\ up' = up /\ boot' = boot /\ next' = next /\ names' = names /\ poller' = poller
      /\ due' = due
  BY DEF Become, engineVars
<1>2. CASE ~RunsNext(d)
  <2>1. dialog' = d /\ jobs' = (jobs \ done) \cup S \cup {}
    BY <1>2 DEF Become
  <2>2. TypeInv'
    BY <1>1, <2>1 DEF IInv, TypeInv
  <2>3. \A k \in jobs' : k.kind = "feed" => k \in jobs /\ poller'.inFlight
    BY <1>1, <2>1 DEF IInv, OnePoll
  <2>4. QED
    BY <1>1, <2>2, <2>3, FrameKeeps
<1>3. CASE RunsNext(d)
  <2>1. d.ops \in Seq(WatchOps) /\ d.ops # <<>>
    BY <1>3 DEF RunsNext, Dialogs
  <2>2. Head(d.ops) \in WatchOps /\ Tail(d.ops) \in Seq(WatchOps)
    BY <2>1
  <2>3. PICK n \in Jobs : n = Plain(Head(d.ops)) /\ n.kind # "feed"
    BY <2>2, PlainType DEF Plain, WatchOps, Kinds, NameSets
  <2>4. /\ dialog' = [d EXCEPT !.busy = TRUE, !.ops = Tail(@)]
        /\ jobs' = (jobs \ done) \cup S \cup {n}
    BY <1>3, <2>3 DEF Become
  <2>5. dialog' \in Dialogs
    BY <2>2, <2>4 DEF Dialogs
  <2>6. TypeInv'
    BY <1>1, <2>4, <2>5 DEF IInv, TypeInv
  <2>7. \A k \in jobs' : k.kind = "feed" => k \in jobs /\ poller'.inFlight
    BY <1>1, <2>3, <2>4 DEF IInv, OnePoll
  <2>8. QED
    BY <1>1, <2>6, <2>7, FrameKeeps
<1>4. QED
  BY <1>2, <1>3

LEMMA OpsAppended ==
  ASSUME NEW d \in Dialogs, NEW op \in WatchOps
  PROVE  Append(d.ops, op) \in Seq(WatchOps) /\ d.ops \in Seq(WatchOps)
<1>1. d.ops \in Seq(WatchOps)
  BY DEF Dialogs
<1>2. QED
  BY <1>1

LEMMA StopWatchType ==
  ASSUME NEW d \in Dialogs
  PROVE  StopWatch(d) \in Dialogs /\ Accept(d) \in Dialogs
                                  /\ StopWatch(d).phase = d.phase
<1>1. Append(d.ops, "restore") \in Seq(WatchOps)
  BY OpsAppended DEF WatchOps
<1>2. StopWatch(d) \in Dialogs /\ StopWatch(d).phase = d.phase
  BY <1>1 DEF StopWatch, Dialogs
<1>3. Accept(d) \in Dialogs
  BY DEF Accept, Dialogs
<1>4. QED
  BY <1>2, <1>3

\* The requests the dialog sends beside those of its queue.
LEMMA OwnRequest ==
  ASSUME NEW kind \in {"record_start", "record_stop", "discard"}
  PROVE  {Plain(kind)} \in SUBSET Jobs /\ \A k \in {Plain(kind)} : k.kind # "feed"
<1>1. kind \in Kinds /\ {} \in NameSets
  BY DEF Kinds, NameSets
<1>2. Plain(kind) \in Jobs /\ Plain(kind).kind = kind
  BY <1>1, PlainType DEF Plain
<1>3. QED
  BY <1>2

LEMMA ButtonKeeps ==
  ASSUME IInv, \/ \E capture \in BOOLEAN : Open(capture)
               \/ Record \/ StopRecording \/ Cancel
  PROVE  IInv'
<1>1. dialog \in Dialogs /\ {} \in SUBSET Jobs /\ \A k \in {} : k.kind # "feed"
  BY DEF IInv, TypeInv
<1>2. CASE \E capture \in BOOLEAN : Open(capture)
  <2>1. PICK d \in Dialogs : Become(d, {}, {})
    BY <1>2, NewDialogType DEF Open
  <2>2. QED
    BY <1>1, <2>1, BecomeKeeps
<1>3. CASE Record
  <2>1. PICK d \in Dialogs : Become(d, {}, {Plain("record_start")})
    BY <1>1, <1>3 DEF Record, Dialogs
  <2>2. QED
    BY <2>1, OwnRequest, BecomeKeeps
<1>4. CASE StopRecording
  <2>1. [StopWatch(dialog) EXCEPT !.phase = "stopping"] \in Dialogs
    <3>1. \A s \in Dialogs : [s EXCEPT !.phase = "stopping"] \in Dialogs
      BY DEF Dialogs
    <3>2. QED
      BY <1>1, <3>1, StopWatchType
  <2>2. Become([StopWatch(dialog) EXCEPT !.phase = "stopping"], {}, {Plain("record_stop")})
    BY <1>4 DEF StopRecording
  <2>3. QED
    BY <2>1, <2>2, OwnRequest, BecomeKeeps
<1>5. CASE Cancel
  <2> DEFINE d == [StopWatch(dialog) EXCEPT !.shown = "cancelled"]
  <2>1. d \in Dialogs
    <3>1. \A s \in Dialogs : [s EXCEPT !.shown = "cancelled"] \in Dialogs
      BY DEF Dialogs
    <3>2. QED
      BY <1>1, <3>1, StopWatchType
  <2>2. /\ [d EXCEPT !.phase = "idle"] \in Dialogs
        /\ [d EXCEPT !.cancelled = (d.phase = "starting")] \in Dialogs
    BY <2>1 DEF Dialogs
  <2>3. \/ Become([d EXCEPT !.phase = "idle"], {}, {Plain("discard")})
        \/ Become([d EXCEPT !.cancelled = (d.phase = "starting")], {}, {})
    BY <1>5 DEF Cancel
  <2>4. QED
    BY <1>1, <2>2, <2>3, OwnRequest, BecomeKeeps
<1>6. QED
  BY <1>2, <1>3, <1>4, <1>5

LEMMA PollCaptureKeeps == ASSUME IInv, PollCapture PROVE IInv'
<1>1. dialog \in Dialogs
  BY DEF IInv, TypeInv
<1>2. [dialog EXCEPT !.inFlight = TRUE] \in Dialogs /\ dialog.since \in Nat
  BY <1>1 DEF Dialogs
<1>3. Job("press", {}, dialog.since) \in Jobs /\ Job("press", {}, dialog.since).kind = "press"
  BY <1>2, PlainType DEF Kinds, NameSets
<1>4. Become([dialog EXCEPT !.inFlight = TRUE], {}, {Job("press", {}, dialog.since)})
  BY DEF PollCapture
<1>5. QED
  BY <1>2, <1>3, <1>4, BecomeKeeps

\* Every callback makes a dialog of the dialog, and discards a recording at most.
LEMMA CallbackKeeps == ASSUME IInv, NEW j \in jobs, Callback(j) PROVE IInv'
<1>1. dialog \in Dialogs /\ j \in Jobs /\ {} \in SUBSET Jobs /\ \A k \in {} : k.kind # "feed"
  BY DEF IInv, TypeInv
<1>2. j.reply.upto \in Nat
  BY <1>1 DEF Jobs, Replies
<1>3. SUFFICES \E d \in Dialogs : Become(d, {j}, {}) \/ Become(d, {j}, {Plain("discard")})
  BY <1>1, OwnRequest, BecomeKeeps
<1>4. CASE OnStarted(j)
  <2>1. Append(dialog.ops, "capture") \in Seq(WatchOps) /\ dialog.ops \in Seq(WatchOps)
    BY <1>1, OpsAppended DEF WatchOps
  <2>2. /\ [dialog EXCEPT !.phase = "idle"] \in Dialogs
        /\ [dialog EXCEPT !.phase = "recording", !.watching = dialog.capture,
              !.ops = IF dialog.capture THEN Append(@, "capture") ELSE @] \in Dialogs
    BY <1>1, <2>1 DEF Dialogs
  <2>3. QED
    BY <1>4, <2>2 DEF OnStarted
<1>5. CASE \E usable \in BOOLEAN : OnStopped(j, usable)
  <2>1. [dialog EXCEPT !.phase = "idle"] \in Dialogs /\ Accept(dialog) \in Dialogs
    BY <1>1, StopWatchType DEF Dialogs
  <2>2. QED
    BY <1>5, <2>1 DEF OnStopped
<1>6. CASE OnFailed(j)
  <2>1. [StopWatch(dialog) EXCEPT !.phase = "idle"] \in Dialogs
    BY ZenonT(60), <1>1, StopWatchType DEF Dialogs
  <2>2. QED
    BY <1>6, <2>1 DEF OnFailed
<1>7. CASE OnWatchOp(j)
  <2> DEFINE d == [dialog EXCEPT !.busy = FALSE]
  <2>1. d \in Dialogs /\ [d EXCEPT !.since = j.reply.upto, !.polling = TRUE] \in Dialogs
    BY <1>1, <1>2 DEF Dialogs
  <2>2. \/ Become([d EXCEPT !.since = j.reply.upto, !.polling = TRUE], {j}, {})
        \/ Become(d, {j}, {})
    BY <1>7 DEF OnWatchOp
  <2>3. QED
    BY <2>1, <2>2
<1>8. CASE OnWatchOpFailed(j)
  <2> DEFINE d == [dialog EXCEPT !.busy = FALSE]
  <2>1. d \in Dialogs /\ [d EXCEPT !.inFlight = FALSE] \in Dialogs
    BY <1>1 DEF Dialogs
  <2>2. StopWatch([d EXCEPT !.inFlight = FALSE]) \in Dialogs
    BY <2>1, StopWatchType
  <2>3. Become(StopWatch([d EXCEPT !.inFlight = FALSE]), {j}, {}) \/ Become(d, {j}, {})
    BY <1>8 DEF OnWatchOpFailed
  <2>4. QED
    BY <2>1, <2>2, <2>3
<1>9. CASE OnPresses(j)
  <2> DEFINE d == [dialog EXCEPT !.inFlight = FALSE]
             c == [d EXCEPT !.since = j.reply.upto]
  <2>1. d \in Dialogs /\ c \in Dialogs
    BY <1>1, <1>2 DEF Dialogs
  <2>2. Accept(StopWatch(c)) \in Dialogs
    BY <2>1, StopWatchType
  <2>3. \/ Become(d, {j}, {}) \/ Become(c, {j}, {})
        \/ Become(Accept(StopWatch(c)), {j}, {Plain("discard")})
        \/ Become(Accept(StopWatch(c)), {j}, {})
    BY <1>9 DEF OnPresses
  <2>4. QED
    BY <2>1, <2>2, <2>3
<1>10. CASE OnPressesFailed(j)
  <2>1. [dialog EXCEPT !.inFlight = FALSE] \in Dialogs
    BY <1>1 DEF Dialogs
  <2>2. StopWatch([dialog EXCEPT !.inFlight = FALSE]) \in Dialogs
    BY <2>1, StopWatchType
  <2>3. QED
    BY <1>10, <2>2 DEF OnPressesFailed
<1>11. CASE DiscardFailed(j)
  BY <1>1, <1>11 DEF DiscardFailed
<1>12. QED
  BY <1>4, <1>5, <1>6, <1>7, <1>8, <1>9, <1>10, <1>11 DEF Callback

LEMMA DialogKeeps == ASSUME IInv, DialogStep PROVE IInv'
  BY ButtonKeeps, PollCaptureKeeps, CallbackKeeps DEF DialogStep

-----------------------------------------------------------------------------
\* Every reachable state of engine, poller and dialog has the inductive invariant.
THEOREM Invariance == Spec => []IInv
<1>1. ASSUME IInv, [Next]_vars PROVE IInv'
  <2>1. CASE UNCHANGED vars
    BY <1>1, <2>1 DEF vars, engineVars, guiVars, history, IInv, TypeInv, OnePoll, DueIsPast,
                      RepliesAreDue, ReplyIsDue
  <2>2. QED
    BY <1>1, <2>1, EngineKeeps, PollerKeeps, DialogKeeps DEF Next
<1>2. QED
  BY InitHolds, <1>1, PTL DEF Spec

\* No press is fed twice, none out of order, and none that was buffered before
\* the poller started its watch (KeyEventPoller._on_events, KeyWatch.since), with
\* requests that overtake each other, fail or lose their answer, an engine that
\* restarts at any moment, and the dialog's captures in between.
THEOREM FedOnce == Spec => []PressesFedOnce
<1>1. IInv => PressesFedOnce
  <2>1. SUFFICES ASSUME IInv, NEW j \in jobs, WillFeed(j)
                 PROVE  \/ j.reply.boot > due.boot
                        \/ j.reply.boot = due.boot /\ j.reply.from >= due.at
    BY DEF PressesFedOnce
  <2>2. ReplyIsDue(j) /\ ~poller.fresh
    BY <2>1 DEF IInv, RepliesAreDue, WillFeed
  <2>3. j.reply.boot \in Nat /\ j.reply.from \in Nat /\ due.boot \in Nat /\ due.at \in Nat
    BY <2>1 DEF IInv, TypeInv, Jobs, Replies
  <2>4. QED
    BY <2>2, <2>3 DEF ReplyIsDue
<1>2. QED
  BY Invariance, <1>1, PTL

-----------------------------------------------------------------------------
(* The dialog's requests and its queue of watch requests, without a race *)

NoOps == <<>>
ToCapture == <<"capture">>
ToRestore == <<"restore">>
ToBoth == <<"capture", "restore">>

\* One request for the watch is under way at a time.  A capture is followed by
\* a restore, or the dialog still watches and will ask for one.
QueueOK(d, J) ==
  /\ \A j, k \in J : j.kind \in WatchOps /\ k.kind \in WatchOps => j = k
  /\ d.busy <=> \E j \in J : j.kind \in WatchOps
  /\ d.ops \in {NoOps, ToCapture, ToRestore, ToBoth}
  /\ d.ops = ToCapture => d.watching
  /\ d.ops \in {ToRestore, ToBoth} => ~d.watching
  /\ \A j \in J : j.kind = "capture" =>
       /\ d.ops = ToRestore \/ (d.ops = NoOps /\ d.watching)
       /\ j.phase \in {"read", "watched"} => d.previous # Unread
  /\ \A j \in J : j.kind = "restore" =>
       d.ops # ToRestore /\ (d.ops = NoOps => ~d.watching)

\* Which requests for the recording may be under way when.
RecordingOK(d, J) ==
  /\ \A j, k \in J : j.kind = "record_start" /\ k.kind = "record_start" => j = k
  /\ \A j, k \in J : j.kind = "record_stop" /\ k.kind = "record_stop" => j = k
  /\ \A j \in J :
       /\ j.kind = "record_start" => d.phase = "starting"
       /\ j.kind = "record_stop" => d.phase = "stopping" \/ (d.phase = "idle" /\ d.shown # "open")
       /\ j.kind = "discard" => d.phase = "idle" /\ d.shown # "open"
       /\ j.kind \notin PollerKinds => d.shown # "no"
  /\ d.watching => d.phase = "recording"
  /\ d.phase = "starting" => d.ops = NoOps
  /\ d.phase \in {"recording", "stopping"} => d.shown = "open"
  /\ d.cancelled => d.shown # "open"
  /\ d.phase = "starting" /\ d.shown # "open" => d.cancelled
  /\ d.shown = "no" => d = NoDialog

\* A restore is to come, or the dialog will ask for it when it ends.
RestoreComes(d, J) ==
  \/ d.watching
  \/ d.ops \in {ToRestore, ToBoth}
  \/ \E j \in J : j.kind = "restore" /\ Pending(j)

\* A recording that somebody will end.
RecordingEnds(d, J) ==
  \/ d.phase = "recording"
  \/ \E j \in J : \/ j.kind = "record_start" /\ j.phase = "done"
                  \/ j.kind \in {"record_stop", "discard"} /\ Pending(j)

\* What the dialog still holds of the engine will be given back.
GivesBack(d, J) ==
  /\ recording => RecordingEnds(d, J)
  /\ d.previous = Unread \/ names = d.previous \/ RestoreComes(d, J)
  /\ ~up => /\ d.previous = Unread /\ ~d.busy /\ ~d.watching /\ d.ops = NoOps
            /\ d.phase \in {"idle", "starting"}
            /\ \A j \in J : j.kind = "record_start" => j.phase # "done"

\* The next restore gives back the names read so far, and not those that a
\* capture is still to read.
RestoresPrevious(d, J) ==
  \/ \E j \in J : j.kind = "restore" /\ Pending(j)
  \/ \E j \in J : j.kind = "capture" /\ j.phase # "sent"
  \/ /\ ~\E j \in J : j.kind \in WatchOps
     /\ d.ops = ToRestore \/ (d.ops = NoOps /\ d.watching)

\* The poller's names are watched, or will be again.
ComesBack(d, J) ==
  /\ up
  /\ \/ names = Effects /\ (RestoresPrevious(d, J) => d.previous \in {Effects, Unread})
     \/ d.previous = Effects /\ RestoresPrevious(d, J)

\* The watch the poller believes in is set, under way, or known to have failed.
WatchComes(d, J) ==
  \/ \E j \in J : j.kind = "watch" /\ j.phase = "failed"
  \/ \E j \in J : j.kind = "watch" /\ Pending(j) /\ j.names = Effects
  \/ (\A j \in J : j.kind = "watch" => ~Pending(j)) /\ ComesBack(d, J)

DialogInv(d, J) ==
  /\ QueueOK(d, J)
  /\ RecordingOK(d, J)
  /\ ~disturbed /\ d.shown # "no" => GivesBack(d, J)
  /\ excused = {} /\ poller.watching = Effects => WatchComes(d, J)

WatchInv ==
  /\ DialogInv(dialog, jobs)
  /\ dialog.ops # NoOps => dialog.busy
  /\ ~up => ~recording

-----------------------------------------------------------------------------
LEMMA OpsFacts ==
  /\ NoOps # ToCapture /\ NoOps # ToRestore /\ NoOps # ToBoth
  /\ ToCapture # ToRestore /\ ToCapture # ToBoth /\ ToRestore # ToBoth
  /\ Head(ToCapture) = "capture" /\ Head(ToBoth) = "capture" /\ Head(ToRestore) = "restore"
  /\ Tail(ToCapture) = NoOps /\ Tail(ToRestore) = NoOps /\ Tail(ToBoth) = ToRestore
  /\ Append(NoOps, "capture") = ToCapture
  /\ Append(NoOps, "restore") = ToRestore /\ Append(ToCapture, "restore") = ToBoth
<1>1. /\ Len(NoOps) = 0 /\ Len(ToCapture) = 1 /\ Len(ToRestore) = 1 /\ Len(ToBoth) = 2
      /\ ToCapture[1] = "capture" /\ ToRestore[1] = "restore"
      /\ ToBoth[1] = "capture" /\ ToBoth[2] = "restore"
  BY DEF NoOps, ToCapture, ToRestore, ToBoth
<1>2. /\ NoOps # ToCapture /\ NoOps # ToRestore /\ NoOps # ToBoth
      /\ ToCapture # ToRestore /\ ToCapture # ToBoth /\ ToRestore # ToBoth
  BY <1>1
<1>3. Head(ToCapture) = "capture" /\ Head(ToBoth) = "capture" /\ Head(ToRestore) = "restore"
  BY <1>1 DEF NoOps, ToCapture, ToRestore, ToBoth
<1>4. Tail(ToCapture) = NoOps /\ Tail(ToRestore) = NoOps
  BY DEF NoOps, ToCapture, ToRestore
<1>5. Tail(ToBoth) = ToRestore
  BY DEF ToRestore, ToBoth
<1>6. Append(NoOps, "capture") = ToCapture /\ Append(NoOps, "restore") = ToRestore
  BY DEF NoOps, ToCapture, ToRestore
<1>7. Append(ToCapture, "restore") = ToBoth
  <2> DEFINE a == Append(ToCapture, "restore")
  <2>1. ToCapture \in Seq(WatchOps) /\ ToBoth \in Seq(WatchOps)
    BY DEF ToCapture, ToBoth, WatchOps
  <2>2. a \in Seq(WatchOps) /\ Len(a) = 2 /\ a[1] = "capture" /\ a[2] = "restore"
    BY <1>1, <2>1 DEF WatchOps
  <2>3. QED
    BY <1>1, <2>1, <2>2, SeqEqual
<1>8. QED
  BY <1>2, <1>3, <1>4, <1>5, <1>6, <1>7

\* What depends on the watch alone is the same for dialogs and requests that do
\* not differ in it.
LEMMA QueueFrame ==
  ASSUME NEW d, NEW e, NEW J, NEW K,
         e.ops = d.ops, e.busy = d.busy, e.watching = d.watching, e.previous = d.previous,
         \A j : j.kind \in WatchOps \cup {"watch"} => (j \in J <=> j \in K)
  PROVE  /\ QueueOK(d, J) => QueueOK(e, K)
         /\ RestoreComes(d, J) => RestoreComes(e, K)
         /\ WatchComes(d, J) => WatchComes(e, K)
<1>1. /\ \A j \in J : j.kind \in WatchOps \cup {"watch"} => j \in K
      /\ \A j \in K : j.kind \in WatchOps \cup {"watch"} => j \in J
  OBVIOUS
<1>2. QueueOK(d, J) => QueueOK(e, K)
  BY <1>1 DEF QueueOK, WatchOps
<1>3. RestoreComes(d, J) => RestoreComes(e, K)
  BY <1>1 DEF RestoreComes, WatchOps
<1>4. RestoresPrevious(d, J) <=> RestoresPrevious(e, K)
  BY <1>1 DEF RestoresPrevious, WatchOps
<1>5. ComesBack(d, J) => ComesBack(e, K)
  BY <1>4 DEF ComesBack
<1>6. WatchComes(d, J) => WatchComes(e, K)
  BY <1>1, <1>5 DEF WatchComes
<1>7. QED
  BY <1>2, <1>3, <1>6

\* Asking for the restore when the watch is not needed any more keeps it all.
LEMMA StopWatchHas ==
  ASSUME NEW d \in Dialogs, NEW J, DialogInv(d, J), d.shown # "no"
  PROVE  DialogInv(StopWatch(d), J) /\ StopWatch(d).shown = d.shown
         /\ ~StopWatch(d).watching
<1> DEFINE e == StopWatch(d)
<1>1. /\ e \in Dialogs /\ e.phase = d.phase /\ e.shown = d.shown /\ e.busy = d.busy
      /\ e.previous = d.previous /\ e.cancelled = d.cancelled /\ ~e.watching
      /\ e.ops = IF d.watching THEN Append(d.ops, "restore") ELSE d.ops
  BY ZenonT(60), StopWatchType DEF StopWatch, Dialogs
<1>2. CASE ~d.watching
  <2>1. e.ops = d.ops /\ e.watching = d.watching
    BY <1>1, <1>2 DEF Dialogs
  <2>2. QED
    BY <1>1, <2>1, QueueFrame DEF DialogInv, GivesBack, RecordingOK, RecordingEnds
<1>3. CASE d.watching
  <2>1. \/ d.ops = NoOps /\ e.ops = ToRestore
        \/ d.ops = ToCapture /\ e.ops = ToBoth
    BY <1>1, <1>3, OpsFacts DEF DialogInv, QueueOK
  <2>2. QueueOK(e, J)
    BY <1>1, <1>3, <2>1, OpsFacts DEF DialogInv, QueueOK
  <2>3. RecordingOK(e, J)
    BY <1>1, <1>3 DEF DialogInv, RecordingOK
  <2>4. GivesBack(d, J) => GivesBack(e, J)
    BY <1>1, <1>3, <2>1, OpsFacts DEF GivesBack, RecordingEnds, RestoreComes
  <2>5. RestoresPrevious(d, J) <=> RestoresPrevious(e, J)
    BY <1>1, <1>3, <2>1, OpsFacts DEF RestoresPrevious
  <2>6. WatchComes(d, J) => WatchComes(e, J)
    BY <1>1, <2>5 DEF WatchComes, ComesBack
  <2>7. QED
    BY <1>1, <2>2, <2>3, <2>4, <2>6 DEF DialogInv
<1>4. QED
  BY <1>2, <1>3 DEF Dialogs

\* The next request of the queue is sent.
LEMMA RunHas ==
  ASSUME NEW d \in Dialogs, NEW J \in SUBSET Jobs, DialogInv(d, J), RunsNext(d),
         NEW n, n = Plain(Head(d.ops))
  PROVE  DialogInv([d EXCEPT !.busy = TRUE, !.ops = Tail(@)], J \cup {n})
<1> DEFINE e == [d EXCEPT !.busy = TRUE, !.ops = Tail(@)]
           K == J \cup {n}
<1>1. /\ e.phase = d.phase /\ e.shown = d.shown /\ e.busy
      /\ e.previous = d.previous /\ e.cancelled = d.cancelled /\ e.watching = d.watching
      /\ e.ops = Tail(d.ops)
  BY DEF Dialogs
<1>2. /\ \A j \in J : j.kind \notin WatchOps
      /\ ~d.busy
  BY DEF RunsNext, DialogInv, QueueOK
<1>3. /\ d.ops \in {ToCapture, ToRestore, ToBoth}
      /\ Head(d.ops) \in WatchOps
      /\ n.kind = Head(d.ops) /\ n.phase = "sent"
  BY OpsFacts DEF RunsNext, DialogInv, QueueOK, NoOps, WatchOps, Plain, Job
<1>4. QueueOK(e, K)
  <2>1. \A j \in K : j.kind \in WatchOps => j = n
    BY <1>2
  <2>2. QueueOK(d, J)
    BY DEF DialogInv
  <2>3. \/ d.ops = ToCapture /\ e.ops = NoOps /\ d.watching /\ n.kind = "capture"
        \/ d.ops = ToRestore /\ e.ops = NoOps /\ ~d.watching /\ n.kind = "restore"
        \/ d.ops = ToBoth /\ e.ops = ToRestore /\ ~d.watching /\ n.kind = "capture"
    BY ZenonT(60), <1>1, <1>3, <2>2, OpsFacts DEF QueueOK
  <2>4. /\ \A j, k \in K : j.kind \in WatchOps /\ k.kind \in WatchOps => j = k
        /\ e.busy <=> \E j \in K : j.kind \in WatchOps
    BY <1>1, <1>3, <2>1
  <2>5. \A j \in K : /\ j.kind = "capture" => j = n /\ n.kind = "capture"
                     /\ j.kind = "restore" => j = n /\ n.kind = "restore"
    BY <2>1 DEF WatchOps
  <2>6. QED
    BY <1>1, <1>3, <2>3, <2>4, <2>5, OpsFacts DEF QueueOK
<1>5. RecordingOK(e, K)
  <2>1. d.shown # "no" /\ d.phase # "starting"
    BY <1>3, OpsFacts DEF DialogInv, RecordingOK, NoDialog, NewDialog, NoOps
  <2>2. QED
    BY <1>1, <1>3, <2>1 DEF RecordingOK, DialogInv, WatchOps
<1>6. GivesBack(d, J) => GivesBack(e, K)
  <2>1. RestoreComes(d, J) => RestoreComes(e, K)
    BY ZenonT(60), <1>1, <1>3, OpsFacts DEF RestoreComes, Pending
  <2>2. RecordingEnds(d, J) => RecordingEnds(e, K)
    BY <1>1 DEF RecordingEnds
  <2>3. QED
    BY <1>1, <1>3, <2>1, <2>2, OpsFacts DEF GivesBack
<1>7. WatchComes(d, J) => WatchComes(e, K)
  <2>1. RestoresPrevious(d, J) <=> RestoresPrevious(e, K)
    BY <1>1, <1>2, <1>3, OpsFacts DEF RestoresPrevious, DialogInv, QueueOK, WatchOps, Pending
  <2>2. QED
    BY <1>1, <1>3, <2>1 DEF WatchComes, ComesBack, WatchOps
<1>8. QED
  BY <1>1, <1>4, <1>5, <1>6, <1>7 DEF DialogInv

LEMMA BecomeHas ==
  ASSUME IInv, WatchInv, disturbed' = disturbed,
         NEW d \in Dialogs, NEW done, NEW S \in SUBSET Jobs, Become(d, done, S),
         DialogInv(d, (jobs \ done) \cup S)
  PROVE  WatchInv'
<1> DEFINE J == (jobs \ done) \cup S
<1>1. /\ up' = up /\ recording' = recording /\ names' = names /\ poller' = poller
      /\ excused' = excused
  BY DEF Become, engineVars
<1>2. J \in SUBSET Jobs
  BY DEF IInv, TypeInv
<1>3. DialogInv(dialog', jobs')
  <2>1. CASE RunsNext(d)
    <3>1. /\ dialog' = [d EXCEPT !.busy = TRUE, !.ops = Tail(@)]
          /\ jobs' = J \cup {Plain(Head(d.ops))}
      BY <2>1 DEF Become
    <3>2. QED
      BY <1>2, <2>1, <3>1, RunHas
  <2>2. CASE ~RunsNext(d)
    BY <2>2 DEF Become
  <2>3. QED
    BY <2>1, <2>2
<1>4. dialog'.ops # NoOps => dialog'.busy
  BY DEF Become, RunsNext, NoOps, Dialogs
<1>5. DialogInv(dialog, jobs)'
  BY <1>1, <1>3 DEF DialogInv, QueueOK, RecordingOK, GivesBack, RecordingEnds, RestoreComes,
       WatchComes, ComesBack, RestoresPrevious, Pending
<1>6. QED
  BY <1>1, <1>4, <1>5 DEF WatchInv

\* A step that leaves the queue and the requests for the watch as they are has
\* to see to the recording alone.
LEMMA RecordingStep ==
  ASSUME NEW d, NEW e, NEW J, NEW K, DialogInv(d, J),
         e.ops = d.ops, e.busy = d.busy, e.watching = d.watching, e.previous = d.previous,
         \A j : j.kind \in WatchOps \cup {"watch"} => (j \in J <=> j \in K),
         d.shown # "no",
         RecordingOK(e, K),
         GivesBack(d, J) => /\ recording => RecordingEnds(e, K)
                            /\ ~up => /\ e.phase \in {"idle", "starting"}
                                      /\ \A j \in K : j.kind = "record_start" => j.phase # "done"
  PROVE  DialogInv(e, K)
<1>1. QueueOK(e, K) /\ (WatchComes(d, J) => WatchComes(e, K))
      /\ (RestoreComes(d, J) => RestoreComes(e, K))
  BY QueueFrame DEF DialogInv
<1>2. GivesBack(d, J) => GivesBack(e, K)
  BY <1>1 DEF GivesBack
<1>3. QED
  BY <1>1, <1>2 DEF DialogInv

LEMMA OpenHas == ASSUME IInv, WatchInv, NEW capture \in BOOLEAN, Open(capture) PROVE WatchInv'
<1> DEFINE d == NewDialog(capture)
<1>1. /\ d.ops = NoOps /\ d.busy = FALSE /\ d.watching = FALSE /\ d.previous = Unread /\ d.phase = "idle"
      /\ d.shown = "open" /\ ~d.cancelled
  BY DEF NewDialog, NoOps
<1>2. dialog = NoDialog /\ dialog.ops = NoOps /\ dialog.busy = FALSE /\ dialog.watching = FALSE
      /\ dialog.previous = Unread /\ dialog.shown = "no"
  BY DEF Open, NoDialog, NewDialog, NoOps
<1>3. dialog' = d /\ jobs' = jobs
  BY <1>1 DEF Open, Become, RunsNext, NoOps
<1>4. /\ up' = up /\ recording' = recording /\ names' = names /\ poller' = poller
      /\ excused' = excused /\ disturbed' = recording
  BY DEF Open, Become, engineVars
<1>5. \A j \in jobs : j.kind \in PollerKinds
  BY <1>2 DEF WatchInv, DialogInv, RecordingOK
<1>6. QueueOK(d, jobs) /\ (WatchComes(dialog, jobs) => WatchComes(d, jobs))
  BY <1>1, <1>2, QueueFrame DEF WatchInv, DialogInv
<1>7. RecordingOK(d, jobs)
  BY <1>1, <1>5 DEF RecordingOK, PollerKinds
<1>8. ~recording => GivesBack(d, jobs)
  BY <1>1, <1>5 DEF GivesBack, PollerKinds
<1>9. DialogInv(dialog, jobs)'
  BY <1>3, <1>4, <1>6, <1>7, <1>8
     DEF WatchInv, DialogInv, QueueOK, RecordingOK, GivesBack, RecordingEnds, RestoreComes,
         WatchComes, ComesBack, RestoresPrevious, Pending
<1>10. QED
  BY <1>1, <1>3, <1>4, <1>9 DEF WatchInv

LEMMA RecordHas == ASSUME IInv, WatchInv, Record PROVE WatchInv'
<1> DEFINE d == [dialog EXCEPT !.phase = "starting"]
           n == Plain("record_start")
           K == (jobs \ {}) \cup {n}
<1>1. /\ Become(d, {}, {n}) /\ disturbed' = disturbed
      /\ dialog \in Dialogs /\ dialog.shown = "open" /\ dialog.phase = "idle" /\ dialog.ops = NoOps
  BY DEF Record, IInv, TypeInv, NoOps
<1>2. /\ d \in Dialogs /\ d.phase = "starting" /\ d.shown = "open" /\ d.ops = NoOps
      /\ d.busy = dialog.busy /\ d.watching = dialog.watching /\ d.previous = dialog.previous
      /\ d.cancelled = dialog.cancelled
  BY <1>1 DEF Dialogs
<1>3. {n} \in SUBSET Jobs /\ n.kind = "record_start" /\ n.phase = "sent"
  BY OwnRequest DEF Plain, Job
<1>4. RecordingOK(d, K)
  BY <1>1, <1>2, <1>3 DEF RecordingOK, WatchInv, DialogInv
<1>5. RecordingEnds(dialog, jobs) => RecordingEnds(d, K)
  BY <1>1 DEF RecordingEnds
<1>6. DialogInv(d, K)
  BY <1>1, <1>2, <1>3, <1>4, <1>5, RecordingStep DEF WatchInv, GivesBack, WatchOps
<1>7. QED
  BY <1>1, <1>2, <1>3, <1>6, BecomeHas

LEMMA StopRecordingHas == ASSUME IInv, WatchInv, StopRecording PROVE WatchInv'
<1> DEFINE e == StopWatch(dialog)
           d == [e EXCEPT !.phase = "stopping"]
           n == Plain("record_stop")
           K == (jobs \ {}) \cup {n}
<1>1. /\ Become(d, {}, {n}) /\ disturbed' = disturbed
      /\ dialog \in Dialogs /\ dialog.shown = "open" /\ dialog.phase = "recording"
  BY DEF StopRecording, IInv, TypeInv
<1>2. DialogInv(e, jobs) /\ e.shown = "open" /\ ~e.watching /\ e \in Dialogs
      /\ e.phase = "recording"
  BY <1>1, StopWatchHas, StopWatchType DEF WatchInv
<1>3. /\ d \in Dialogs /\ d.phase = "stopping" /\ d.shown = "open" /\ d.ops = e.ops
      /\ d.busy = e.busy /\ d.watching = e.watching /\ d.previous = e.previous
      /\ d.cancelled = e.cancelled
  BY <1>2 DEF Dialogs
<1>4. {n} \in SUBSET Jobs /\ n.kind = "record_stop" /\ n.phase = "sent"
  BY OwnRequest DEF Plain, Job
<1>5. RecordingOK(d, K)
  BY <1>2, <1>3, <1>4 DEF RecordingOK, DialogInv
<1>6. RecordingEnds(d, K)
  BY <1>4 DEF RecordingEnds, Pending
<1>7. GivesBack(e, jobs) => up
  BY <1>2 DEF GivesBack
<1>8. DialogInv(d, K)
  BY <1>2, <1>3, <1>4, <1>5, <1>6, <1>7, RecordingStep DEF WatchOps
<1>9. QED
  BY <1>1, <1>3, <1>4, <1>8, BecomeHas

LEMMA CancelHas == ASSUME IInv, WatchInv, Cancel PROVE WatchInv'
<1> DEFINE e == StopWatch(dialog)
           c == [e EXCEPT !.shown = "cancelled"]
           d == [c EXCEPT !.phase = "idle"]
           f == [c EXCEPT !.cancelled = (c.phase = "starting")]
           n == Plain("discard")
           K == (jobs \ {}) \cup {n}
<1>1. /\ disturbed' = disturbed /\ dialog \in Dialogs /\ dialog.shown = "open"
  BY DEF Cancel, IInv, TypeInv
<1>2. DialogInv(e, jobs) /\ e.shown = "open" /\ ~e.watching /\ e \in Dialogs
  BY <1>1, StopWatchHas, StopWatchType DEF WatchInv
<1>3. /\ d \in Dialogs /\ d.phase = "idle" /\ d.shown = "cancelled" /\ d.ops = e.ops
      /\ d.busy = e.busy /\ d.watching = e.watching /\ d.previous = e.previous
      /\ d.cancelled = e.cancelled
  BY <1>2 DEF Dialogs
<1>4. /\ f \in Dialogs /\ f.phase = e.phase /\ f.shown = "cancelled" /\ f.ops = e.ops
      /\ f.busy = e.busy /\ f.watching = e.watching /\ f.previous = e.previous
      /\ f.cancelled = (e.phase = "starting")
  BY <1>2 DEF Dialogs
<1>5. {n} \in SUBSET Jobs /\ n.kind = "discard" /\ n.phase = "sent"
  BY OwnRequest DEF Plain, Job
<1>6. CASE e.phase \in {"recording", "stopping"}
  <2>1. Become(d, {}, {n})
    BY <1>6, <1>1, <1>2 DEF Cancel, Dialogs
  <2>2. RecordingOK(d, K)
    BY <1>2, <1>3, <1>5, <1>6 DEF RecordingOK, DialogInv
  <2>3. RecordingEnds(d, K)
    BY <1>5 DEF RecordingEnds, Pending
  <2>4. GivesBack(e, jobs) => up
    BY <1>6 DEF GivesBack
  <2>5. DialogInv(d, K)
    BY <1>2, <1>3, <1>5, <2>2, <2>3, <2>4, RecordingStep DEF WatchOps
  <2>6. QED
    BY <1>1, <1>3, <1>5, <2>1, <2>5, BecomeHas
<1>7. CASE e.phase \notin {"recording", "stopping"}
  <2>1. Become(f, {}, {})
    BY <1>7, <1>1, <1>2 DEF Cancel, Dialogs
  <2>2. (jobs \ {}) \cup {} = jobs
    OBVIOUS
  <2>3. RecordingOK(f, jobs)
    BY <1>2, <1>4, <1>7 DEF RecordingOK, DialogInv, Dialogs
  <2>4. RecordingEnds(e, jobs) => RecordingEnds(f, jobs)
    BY <1>4 DEF RecordingEnds
  <2>5. DialogInv(f, jobs)
    BY <1>2, <1>4, <2>3, <2>4, RecordingStep DEF GivesBack
  <2>6. QED
    BY <1>1, <1>4, <2>1, <2>2, <2>5, BecomeHas
<1>8. QED
  BY <1>6, <1>7

LEMMA PollCaptureHas == ASSUME IInv, WatchInv, PollCapture PROVE WatchInv'
<1> DEFINE d == [dialog EXCEPT !.inFlight = TRUE]
           n == Job("press", {}, dialog.since)
           K == (jobs \ {}) \cup {n}
<1>1. /\ Become(d, {}, {n}) /\ disturbed' = disturbed
      /\ dialog \in Dialogs /\ dialog.shown # "no"
  BY DEF PollCapture, IInv, TypeInv, WatchInv, DialogInv, RecordingOK
<1>2. /\ d \in Dialogs /\ d.phase = dialog.phase /\ d.shown = dialog.shown
      /\ d.ops = dialog.ops /\ d.busy = dialog.busy /\ d.watching = dialog.watching
      /\ d.previous = dialog.previous /\ d.cancelled = dialog.cancelled
  BY <1>1 DEF Dialogs
<1>3. {n} \in SUBSET Jobs /\ n.kind = "press"
  BY <1>1, PlainType DEF Dialogs, Kinds, NameSets
<1>4. RecordingOK(d, K)
  BY <1>1, <1>2, <1>3 DEF RecordingOK, WatchInv, DialogInv
<1>5. RecordingEnds(dialog, jobs) => RecordingEnds(d, K)
  BY <1>2 DEF RecordingEnds
<1>6. DialogInv(d, K)
  BY <1>1, <1>2, <1>3, <1>4, <1>5, RecordingStep DEF WatchInv, GivesBack, WatchOps
<1>7. QED
  BY <1>1, <1>2, <1>3, <1>6, BecomeHas

\* What a callback of the dialog finds.
LEMMA CalledBack ==
  ASSUME IInv, WatchInv, NEW j \in jobs, Callback(j)
  PROVE  /\ disturbed' = disturbed /\ dialog \in Dialogs /\ j \in Jobs /\ jobs \subseteq Jobs
         /\ j.kind \notin PollerKinds /\ dialog.shown # "no"
<1>1. /\ disturbed' = disturbed /\ dialog \in Dialogs /\ j \in Jobs /\ jobs \subseteq Jobs
  BY DEF Callback, IInv, TypeInv
<1>2. j.kind \notin PollerKinds
  BY DEF Callback, OnStarted, OnStopped, OnFailed, OnWatchOp, OnWatchOpFailed, OnPresses,
         OnPressesFailed, DiscardFailed, PollerKinds, WatchOps
<1>3. dialog.shown # "no"
  BY <1>2 DEF WatchInv, DialogInv, RecordingOK
<1>4. QED
  BY <1>1, <1>2, <1>3

\* A capture is queued as soon as the recording has started.
LEMMA OnStartedHas ==
  ASSUME IInv, WatchInv, NEW j \in jobs, Callback(j), OnStarted(j)
  PROVE  WatchInv'
<1>1. /\ disturbed' = disturbed /\ dialog \in Dialogs /\ jobs \subseteq Jobs
      /\ dialog.shown # "no" /\ j.kind = "record_start" /\ j.phase = "done"
  BY CalledBack DEF OnStarted
<1>2. DialogInv(dialog, jobs)
  BY DEF WatchInv
<1>3. /\ dialog.phase = "starting" /\ dialog.ops = NoOps /\ ~dialog.watching
      /\ \A k \in jobs : k.kind = "record_start" => k = j
      /\ \A k \in jobs : k.kind \notin {"record_stop", "discard"}
  BY <1>1, <1>2 DEF DialogInv, RecordingOK
<1>4. CASE dialog.cancelled
  <2> DEFINE d == [dialog EXCEPT !.phase = "idle"]
             n == Plain("discard")
             K == (jobs \ {j}) \cup {n}
  <2>1. Become(d, {j}, {n})
    BY <1>4 DEF OnStarted
  <2>2. /\ d \in Dialogs /\ d.phase = "idle" /\ d.shown = dialog.shown
        /\ d.ops = dialog.ops /\ d.busy = dialog.busy /\ d.watching = dialog.watching
        /\ d.previous = dialog.previous /\ d.cancelled = dialog.cancelled
    BY <1>1 DEF Dialogs
  <2>3. {n} \in SUBSET Jobs /\ n.kind = "discard" /\ n.phase = "sent"
    BY OwnRequest DEF Plain, Job
  <2>4. RecordingOK(d, K)
    BY <1>1, <1>2, <1>3, <1>4, <2>2, <2>3 DEF RecordingOK, DialogInv
  <2>5. RecordingEnds(d, K)
    BY <2>3 DEF RecordingEnds, Pending
  <2>6. GivesBack(dialog, jobs) => up
    BY <1>1 DEF GivesBack
  <2>7. DialogInv(d, K)
    BY <1>1, <1>2, <2>2, <2>3, <2>4, <2>5, <2>6, RecordingStep DEF WatchOps
  <2>8. QED
    BY <1>1, <2>1, <2>2, <2>3, <2>7, BecomeHas
<1>5. CASE ~dialog.cancelled
  <2> DEFINE d == [dialog EXCEPT !.phase = "recording", !.watching = dialog.capture,
                                 !.ops = IF dialog.capture THEN Append(@, "capture") ELSE @]
             K == (jobs \ {j}) \cup {}
  <2>1. Become(d, {j}, {})
    BY <1>5 DEF OnStarted
  <2>2. /\ d.phase = "recording" /\ d.shown = "open" /\ dialog.shown = "open"
        /\ d.busy = dialog.busy /\ d.previous = dialog.previous
        /\ d.cancelled = dialog.cancelled
        /\ d.watching = dialog.capture
        /\ d.ops = IF dialog.capture THEN ToCapture ELSE NoOps
    BY <1>1, <1>2, <1>3, <1>5, OpsFacts DEF Dialogs, DialogInv, RecordingOK
  <2>3. d \in Dialogs
    <3>1. Append(dialog.ops, "capture") \in Seq(WatchOps)
      BY <1>1, OpsAppended DEF WatchOps
    <3>2. QED
      BY <1>1, <3>1 DEF Dialogs
  <2>4. \A k \in jobs : k.kind # "capture"
    BY <1>2, <1>3, OpsFacts DEF DialogInv, QueueOK
  <2>5. QueueOK(d, K)
    BY ZenonT(60), <1>1, <1>2, <2>2, <2>4, OpsFacts DEF QueueOK, DialogInv, WatchOps
  <2>6. RecordingOK(d, K)
    BY <1>1, <1>2, <1>3, <2>2 DEF RecordingOK, DialogInv
  <2>7. GivesBack(dialog, jobs) => GivesBack(d, K)
    BY <1>1, <1>3, <2>2, OpsFacts DEF GivesBack, RecordingEnds, RestoreComes
  <2>8. WatchComes(dialog, jobs) => WatchComes(d, K)
    <3>1. RestoresPrevious(dialog, jobs) <=> RestoresPrevious(d, K)
      <4>1. CASE dialog.capture
        BY <4>1, <1>1, <1>3, <2>2, <2>4, OpsFacts DEF RestoresPrevious, WatchOps
      <4>2. CASE ~dialog.capture
        BY <4>2, <1>1, <1>3, <2>2, <2>4, OpsFacts DEF RestoresPrevious, WatchOps
      <4>3. QED
        BY <4>1, <4>2
    <3>2. QED
      BY <1>1, <2>2, <3>1 DEF WatchComes, ComesBack
  <2>9. DialogInv(d, K)
    BY <1>1, <1>2, <2>2, <2>5, <2>6, <2>7, <2>8 DEF DialogInv
  <2>10. QED
    BY <1>1, <2>1, <2>3, <2>9, BecomeHas
<1>6. QED
  BY <1>4, <1>5

LEMMA OnStoppedHas ==
  ASSUME IInv, WatchInv, NEW j \in jobs, Callback(j), NEW usable \in BOOLEAN, OnStopped(j, usable)
  PROVE  WatchInv'
<1> DEFINE d == IF usable THEN Accept(dialog) ELSE [dialog EXCEPT !.phase = "idle"]
           K == (jobs \ {j}) \cup {}
<1>1. /\ disturbed' = disturbed /\ dialog \in Dialogs /\ jobs \subseteq Jobs
      /\ dialog.shown # "no" /\ j.kind = "record_stop" /\ j.phase = "done"
      /\ Become(d, {j}, {})
  BY CalledBack DEF OnStopped
<1>2. DialogInv(dialog, jobs)
  BY DEF WatchInv
<1>3. /\ dialog.phase \in {"stopping", "idle"} /\ dialog.watching = FALSE
      /\ dialog.phase = "idle" => dialog.shown # "open"
      /\ \A k \in jobs : k.kind # "record_start"
      /\ \A k \in jobs : k.kind = "record_stop" => k = j
  BY <1>1, <1>2 DEF DialogInv, RecordingOK, Dialogs
<1>4. /\ d \in Dialogs /\ d.phase = "idle" /\ d.shown \in {dialog.shown, "accepted"}
      /\ d.ops = dialog.ops /\ d.busy = dialog.busy /\ d.watching = dialog.watching
      /\ d.previous = dialog.previous /\ d.cancelled = dialog.cancelled
  BY <1>1 DEF Dialogs, Accept
<1>5. RecordingOK(d, K)
  BY <1>1, <1>2, <1>3, <1>4 DEF RecordingOK, DialogInv
<1>6. RecordingEnds(dialog, jobs) => RecordingEnds(d, K)
  BY <1>1, <1>3 DEF RecordingEnds, Pending
<1>7. DialogInv(d, K)
  BY <1>1, <1>2, <1>3, <1>4, <1>5, <1>6, RecordingStep DEF GivesBack, WatchOps
<1>8. QED
  BY <1>1, <1>4, <1>7, BecomeHas

LEMMA OnFailedHas ==
  ASSUME IInv, WatchInv, NEW j \in jobs, Callback(j), OnFailed(j)
  PROVE  WatchInv'
<1> DEFINE e == StopWatch(dialog)
           d == [e EXCEPT !.phase = "idle"]
           K == (jobs \ {j}) \cup {}
<1>1. /\ disturbed' = disturbed /\ dialog \in Dialogs /\ jobs \subseteq Jobs
      /\ dialog.shown # "no" /\ j.kind \in {"record_start", "record_stop"} /\ j.phase = "failed"
      /\ Become(d, {j}, {})
  BY CalledBack DEF OnFailed
<1>2. DialogInv(e, jobs) /\ e.shown = dialog.shown /\ ~e.watching /\ e \in Dialogs
  BY <1>1, StopWatchHas, StopWatchType DEF WatchInv
<1>3. /\ e.phase # "recording"
      /\ j.kind = "record_start" => /\ \A k \in jobs : k.kind \notin {"record_stop", "discard"}
                                    /\ \A k \in jobs : k.kind = "record_start" => k = j
      /\ j.kind = "record_stop" => /\ \A k \in jobs : k.kind # "record_start"
                                   /\ \A k \in jobs : k.kind = "record_stop" => k = j
  BY <1>1, <1>2 DEF DialogInv, RecordingOK
<1>4. /\ d \in Dialogs /\ d.phase = "idle" /\ d.shown = e.shown
      /\ d.ops = e.ops /\ d.busy = e.busy /\ d.watching = e.watching
      /\ d.previous = e.previous /\ d.cancelled = e.cancelled
  BY <1>2 DEF Dialogs
<1>5. RecordingOK(d, K)
  BY <1>1, <1>2, <1>3, <1>4 DEF RecordingOK, DialogInv
<1>6. RecordingEnds(e, jobs) => RecordingEnds(d, K)
  BY <1>1, <1>3 DEF RecordingEnds, Pending
<1>7. DialogInv(d, K)
  BY <1>1, <1>2, <1>3, <1>4, <1>5, <1>6, RecordingStep DEF GivesBack, WatchOps
<1>8. QED
  BY <1>1, <1>4, <1>7, BecomeHas

LEMMA OnPressesHas ==
  ASSUME IInv, WatchInv, NEW j \in jobs, Callback(j), OnPresses(j)
  PROVE  WatchInv'
<1> DEFINE d == [dialog EXCEPT !.inFlight = FALSE]
           c == [d EXCEPT !.since = j.reply.upto]
           e == StopWatch(c)
           f == Accept(e)
           n == Plain("discard")
           J == (jobs \ {j}) \cup {}
           K == (jobs \ {j}) \cup {n}
<1>1. /\ disturbed' = disturbed /\ dialog \in Dialogs /\ jobs \subseteq Jobs
      /\ dialog.shown # "no" /\ j.kind = "press" /\ j.reply.upto \in Nat
  BY CalledBack DEF OnPresses, Jobs, Replies
<1>2. \A x \in {d, c} :
        /\ x \in Dialogs /\ x.phase = dialog.phase /\ x.shown = dialog.shown
        /\ x.ops = dialog.ops /\ x.busy = dialog.busy /\ x.watching = dialog.watching
        /\ x.previous = dialog.previous /\ x.cancelled = dialog.cancelled
  BY <1>1 DEF Dialogs
<1>3. \A x \in {d, c} : DialogInv(x, J)
  <2>1. SUFFICES ASSUME NEW x \in {d, c} PROVE DialogInv(x, J)
    OBVIOUS
  <2>2. RecordingOK(x, J)
    BY <1>1, <1>2 DEF RecordingOK, WatchInv, DialogInv
  <2>3. RecordingEnds(dialog, jobs) => RecordingEnds(x, J)
    BY <1>1, <1>2 DEF RecordingEnds
  <2>4. QED
    BY <1>1, <1>2, <2>2, <2>3, RecordingStep DEF WatchInv, GivesBack, WatchOps
<1>4. CASE ~dialog.watching
  <2>1. Become(d, {j}, {})
    BY <1>4, <1>2 DEF OnPresses
  <2>2. QED
    BY <1>1, <1>2, <1>3, <2>1, BecomeHas
<1>5. CASE dialog.watching /\ IsEmpty(j.reply)
  <2>1. Become(c, {j}, {})
    BY <1>5, <1>2 DEF OnPresses
  <2>2. QED
    BY <1>1, <1>2, <1>3, <2>1, BecomeHas
<1>6. CASE dialog.watching /\ ~IsEmpty(j.reply)
  <2>1. dialog.phase = "recording" /\ Become(f, {j}, {n})
    BY <1>6, <1>2 DEF OnPresses, WatchInv, DialogInv, RecordingOK
  <2>2. /\ e \in Dialogs /\ DialogInv(e, J) /\ e.phase = "recording" /\ e.shown # "no"
        /\ ~e.watching
    BY <1>1, <1>2, <1>3, <2>1, StopWatchHas, StopWatchType
  <2>3. /\ f \in Dialogs /\ f.phase = "idle" /\ f.shown = "accepted"
        /\ f.ops = e.ops /\ f.busy = e.busy /\ f.watching = e.watching
        /\ f.previous = e.previous /\ f.cancelled = e.cancelled
    BY <2>2 DEF Dialogs, Accept
  <2>4. {n} \in SUBSET Jobs /\ n.kind = "discard" /\ n.phase = "sent"
    BY OwnRequest DEF Plain, Job
  <2>5. K = J \cup {n}
    OBVIOUS
  <2>6. RecordingOK(f, K)
    BY <2>2, <2>3, <2>4, <2>5 DEF RecordingOK, DialogInv
  <2>7. RecordingEnds(f, K)
    BY <2>4 DEF RecordingEnds, Pending
  <2>8. GivesBack(e, J) => up
    BY <2>2 DEF GivesBack
  <2>9. DialogInv(f, K)
    BY <2>2, <2>3, <2>4, <2>5, <2>6, <2>7, <2>8, RecordingStep DEF WatchOps
  <2>10. QED
    BY <1>1, <2>1, <2>3, <2>4, <2>9, BecomeHas
<1>7. QED
  BY <1>4, <1>5, <1>6

\* A request for the watch is over: the next of the queue may be sent.
LEMMA WatchOpEnds ==
  ASSUME IInv, WatchInv, NEW j \in jobs, j.kind \in WatchOps, j.phase \in {"done", "failed"},
         NEW d \in Dialogs, d.phase = dialog.phase, d.shown = dialog.shown,
         d.ops = dialog.ops, d.busy = FALSE, d.watching = dialog.watching,
         d.previous = dialog.previous, d.cancelled = dialog.cancelled
  PROVE  DialogInv(d, (jobs \ {j}) \cup {})
<1> DEFINE K == (jobs \ {j}) \cup {}
<1>1. DialogInv(dialog, jobs)
  BY DEF WatchInv
<1>2. \A k \in K : k.kind \notin WatchOps
  BY <1>1 DEF DialogInv, QueueOK
<1>3. /\ j.kind = "capture" => dialog.ops = ToRestore \/ (dialog.ops = NoOps /\ dialog.watching)
      /\ j.kind = "restore" => dialog.ops # ToRestore /\ (dialog.ops = NoOps => ~dialog.watching)
  BY <1>1 DEF DialogInv, QueueOK
<1>4. QueueOK(d, K)
  BY <1>1, <1>2 DEF DialogInv, QueueOK, WatchOps
<1>5. dialog.shown # "no" /\ j.kind \in {"capture", "restore"}
  BY <1>1 DEF DialogInv, RecordingOK, PollerKinds, WatchOps
<1>6. RecordingOK(d, K)
  BY <1>1, <1>5 DEF DialogInv, RecordingOK
<1>7. GivesBack(dialog, jobs) => GivesBack(d, K)
  <2>1. RestoreComes(dialog, jobs) => RestoreComes(d, K)
    BY DEF RestoreComes, Pending
  <2>2. RecordingEnds(dialog, jobs) => RecordingEnds(d, K)
    BY <1>5 DEF RecordingEnds
  <2>3. GivesBack(dialog, jobs) => up
    BY <1>1 DEF GivesBack, DialogInv, QueueOK
  <2>4. QED
    BY <2>1, <2>2, <2>3 DEF GivesBack
<1>8. WatchComes(dialog, jobs) => WatchComes(d, K)
  <2>1. RestoresPrevious(dialog, jobs) <=> RestoresPrevious(d, K)
    <3>1. \A k \in jobs : k.kind \in WatchOps => k = j
      BY <1>1 DEF DialogInv, QueueOK
    <3>2. CASE j.kind = "capture"
      BY <3>2, <1>2, <1>3 DEF RestoresPrevious
    <3>3. CASE j.kind = "restore"
      BY <3>1, <3>3, <1>2, <1>3 DEF RestoresPrevious, Pending, WatchOps
    <3>4. QED
      BY <1>5, <3>2, <3>3
  <2>2. QED
    BY <1>5, <2>1 DEF WatchComes, ComesBack
<1>9. QED
  BY <1>1, <1>4, <1>6, <1>7, <1>8 DEF DialogInv

LEMMA OnWatchOpHas ==
  ASSUME IInv, WatchInv, NEW j \in jobs, Callback(j), OnWatchOp(j) \/ OnWatchOpFailed(j)
  PROVE  WatchInv'
<1> DEFINE d == [dialog EXCEPT !.busy = FALSE]
           c == [d EXCEPT !.since = j.reply.upto, !.polling = TRUE]
           e == [d EXCEPT !.inFlight = FALSE]
<1>1. /\ disturbed' = disturbed /\ dialog \in Dialogs /\ jobs \subseteq Jobs
      /\ dialog.shown # "no" /\ j.kind \in WatchOps /\ j.phase \in {"done", "failed"}
      /\ j.reply.upto \in Nat
  BY CalledBack DEF OnWatchOp, OnWatchOpFailed, Jobs, Replies
<1>2. \A x \in {d, c, e} :
        /\ x \in Dialogs /\ x.phase = dialog.phase /\ x.shown = dialog.shown
        /\ x.ops = dialog.ops /\ x.busy = FALSE /\ x.watching = dialog.watching
        /\ x.previous = dialog.previous /\ x.cancelled = dialog.cancelled
  BY ZenonT(60), <1>1 DEF Dialogs
<1>3. \A x \in {d, c, e} : DialogInv(x, (jobs \ {j}) \cup {})
  BY <1>1, <1>2, WatchOpEnds
<1>4. /\ StopWatch(e) \in Dialogs
      /\ DialogInv(StopWatch(e), (jobs \ {j}) \cup {})
  BY <1>1, <1>2, <1>3, StopWatchHas, StopWatchType
<1>5. Become(d, {j}, {}) \/ Become(c, {j}, {}) \/ Become(StopWatch(e), {j}, {})
  BY DEF OnWatchOp, OnWatchOpFailed
<1>6. QED
  BY <1>1, <1>2, <1>3, <1>4, <1>5, BecomeHas

\* A failed poll of the capture ends the watch; that a recording was not discarded
\* is found out by nobody, as the engine has ended with it or has carried it out.
LEMMA OnLostAnswerHas ==
  ASSUME IInv, WatchInv, NEW j \in jobs, Callback(j), OnPressesFailed(j) \/ DiscardFailed(j)
  PROVE  WatchInv'
<1> DEFINE d == [dialog EXCEPT !.inFlight = FALSE]
           K == (jobs \ {j}) \cup {}
<1>1. /\ disturbed' = disturbed /\ dialog \in Dialogs /\ jobs \subseteq Jobs
      /\ dialog.shown # "no" /\ j.kind \in {"press", "discard"} /\ j.phase = "failed"
  BY CalledBack DEF OnPressesFailed, DiscardFailed
<1>2. \A x \in {dialog, d} :
        /\ x \in Dialogs /\ x.phase = dialog.phase /\ x.shown = dialog.shown
        /\ x.ops = dialog.ops /\ x.busy = dialog.busy /\ x.watching = dialog.watching
        /\ x.previous = dialog.previous /\ x.cancelled = dialog.cancelled
  BY <1>1 DEF Dialogs
<1>3. \A x \in {dialog, d} : DialogInv(x, K)
  <2>1. SUFFICES ASSUME NEW x \in {dialog, d} PROVE DialogInv(x, K)
    OBVIOUS
  <2>2. RecordingOK(x, K)
    BY <1>1, <1>2 DEF RecordingOK, WatchInv, DialogInv
  <2>3. RecordingEnds(dialog, jobs) => RecordingEnds(x, K)
    BY <1>1, <1>2 DEF RecordingEnds, Pending
  <2>4. QED
    BY <1>1, <1>2, <2>2, <2>3, RecordingStep DEF WatchInv, GivesBack, WatchOps
<1>4. StopWatch(d) \in Dialogs /\ DialogInv(StopWatch(d), K)
  BY <1>1, <1>2, <1>3, StopWatchHas, StopWatchType
<1>5. Become(StopWatch(d), {j}, {}) \/ Become(dialog, {j}, {})
  BY DEF OnPressesFailed, DiscardFailed
<1>6. QED
  BY <1>1, <1>2, <1>3, <1>4, <1>5, BecomeHas

LEMMA DialogHas == ASSUME IInv, WatchInv, DialogStep PROVE WatchInv'
<1>1. ASSUME NEW j \in jobs, Callback(j) PROVE WatchInv'
  BY <1>1, OnStartedHas, OnStoppedHas, OnFailedHas, OnWatchOpHas, OnPressesHas, OnLostAnswerHas
     DEF Callback
<1>2. QED
  BY <1>1, OpenHas, RecordHas, StopRecordingHas, CancelHas, PollCaptureHas DEF DialogStep

\* What the poller does to its own requests is nothing to the dialog.
LEMMA OwnStepHas ==
  ASSUME WatchInv, dialog' = dialog, up' = up, names' = names, recording' = recording,
         disturbed' = disturbed,
         \A j : j.kind \notin PollerKinds => (j \in jobs' <=> j \in jobs),
         excused' = {} /\ poller'.watching = Effects => WatchComes(dialog, jobs)'
  PROVE  WatchInv'
<1>1. \A j : j.kind \in WatchOps \cup {"record_start", "record_stop", "discard"}
               => (j \in jobs' <=> j \in jobs)
  BY DEF PollerKinds, WatchOps
<1>2. QueueOK(dialog, jobs)'
  BY <1>1 DEF WatchInv, DialogInv, QueueOK, WatchOps
<1>3. RecordingOK(dialog, jobs)'
  BY <1>1 DEF WatchInv, DialogInv, RecordingOK
<1>4. GivesBack(dialog, jobs) => GivesBack(dialog, jobs)'
  BY <1>1 DEF GivesBack, RecordingEnds, RestoreComes, Pending, WatchOps
<1>5. QED
  BY <1>2, <1>3, <1>4 DEF WatchInv, DialogInv

LEMMA PollerHas == ASSUME IInv, IInv', WatchInv, PollerStep PROVE WatchInv'
<1>1. poller \in Pollers /\ Effects # {} /\ {"watch", "feed"} = PollerKinds
  BY NamesAssumption DEF IInv, TypeInv, PollerKinds
<1>2. CASE SetWanted
  BY <1>2, OwnStepHas DEF SetWanted, engineVars, history, WatchInv, DialogInv, WatchComes,
       ComesBack, RestoresPrevious, Pending
<1>3. CASE Start
  <2> DEFINE k == Job("watch", Effects, 0)
  <2>1. /\ k \in jobs' /\ k.kind = "watch" /\ k.phase = "sent" /\ k.names = Effects
        /\ jobs' = jobs \cup {k}
    BY <1>3 DEF Start, Job
  <2>2. WatchComes(dialog, jobs)'
    BY <2>1 DEF WatchComes, Pending
  <2>3. QED
    BY <1>1, <1>3, <2>1, <2>2, OwnStepHas DEF Start, engineVars
<1>4. CASE Stop
  <2> DEFINE k == Job("watch", {}, 0)
  <2>1. k.kind = "watch" /\ jobs' = jobs \cup {k} /\ poller'.watching = {}
    BY <1>1, <1>4 DEF Stop, Job, LoseWatch, Pollers
  <2>2. QED
    BY <1>1, <1>4, <2>1, OwnStepHas DEF Stop, engineVars, history
<1>5. CASE Poll
  <2> DEFINE k == Job("feed", {}, poller.since)
  <2>1. k.kind = "feed" /\ jobs' = jobs \cup {k} /\ poller'.watching = poller.watching
    BY <1>1, <1>5 DEF Poll, Job, Pollers
  <2>2. WatchComes(dialog, jobs) => WatchComes(dialog, jobs)'
    BY <1>5, <2>1 DEF Poll, engineVars, WatchComes, ComesBack, RestoresPrevious, Pending, WatchOps
  <2>3. QED
    BY <1>1, <1>5, <2>1, <2>2, OwnStepHas DEF Poll, engineVars, history, WatchInv, DialogInv
<1>6. ASSUME NEW j \in jobs, OnEvents(j) PROVE WatchInv'
  <2>1. /\ j.kind = "feed" /\ jobs' = (jobs \ {j}) \cup {}
        /\ poller'.watching \in {poller.watching, {}}
    BY <1>1, <1>6 DEF OnEvents, Replace, Adopt, LoseWatch, Pollers
  <2>2. WatchComes(dialog, jobs) => WatchComes(dialog, jobs)'
    BY <1>6, <2>1 DEF OnEvents, engineVars, WatchComes, ComesBack, RestoresPrevious, Pending,
         WatchOps
  <2>3. QED
    BY <1>1, <1>6, <2>1, <2>2, OwnStepHas DEF OnEvents, engineVars, WatchInv, DialogInv
<1>7. ASSUME NEW j \in jobs, OnPollerFailed(j) PROVE WatchInv'
  <2>1. /\ j.kind \in PollerKinds /\ jobs' = (jobs \ {j}) \cup {} /\ poller'.watching = {}
    BY <1>1, <1>7 DEF OnPollerFailed, Replace, LoseWatch, Pollers
  <2>2. QED
    BY <1>1, <1>7, <2>1, OwnStepHas DEF OnPollerFailed, engineVars, history
<1>8. CASE ReleaseWatch
  <2>1. /\ dialog' = NoDialog /\ jobs' = {} /\ poller'.watching = {}
        /\ up' = up /\ recording' = recording
    BY <1>8 DEF ReleaseWatch, NewPoller
  <2>2. /\ NoDialog.ops = NoOps /\ ~NoDialog.busy /\ ~NoDialog.watching
        /\ NoDialog.phase = "idle" /\ NoDialog.shown = "no" /\ ~NoDialog.cancelled
    BY DEF NoDialog, NewDialog, NoOps
  <2>3. QueueOK(dialog, jobs)'
    BY <2>1, <2>2, OpsFacts DEF QueueOK
  <2>4. RecordingOK(dialog, jobs)'
    BY <2>1, <2>2 DEF RecordingOK
  <2>5. QED
    BY <1>1, <2>1, <2>2, <2>3, <2>4 DEF WatchInv, DialogInv
<1>9. QED
  BY <1>2, <1>3, <1>4, <1>5, <1>6, <1>7, <1>8 DEF PollerStep, Sync

LEMMA EngineAloneHas == ASSUME IInv, WatchInv, Press \/ Crash \/ Boot PROVE WatchInv'
<1>1. /\ dialog' = dialog /\ jobs' = jobs /\ poller' = poller
      /\ disturbed => disturbed'
      /\ excused' = {} => excused = {}
  BY DEF Press, Crash, Boot, guiVars, history
<1>2. QueueOK(dialog, jobs)' /\ RecordingOK(dialog, jobs)'
  BY <1>1 DEF WatchInv, DialogInv, QueueOK, RecordingOK
<1>3. CASE Crash
  BY <1>1, <1>2, <1>3 DEF Crash, WatchInv, DialogInv
<1>4. CASE Press \/ Boot
  <2>1. /\ names' = names /\ recording' = recording /\ excused' = excused
        /\ disturbed' = disturbed /\ up => up' = up
        /\ ~up' => ~up
    BY <1>4 DEF Press, Boot, history
  <2>2. GivesBack(dialog, jobs) => GivesBack(dialog, jobs)'
    BY <1>1, <2>1 DEF GivesBack, RecordingEnds, RestoreComes, Pending
  <2>3. WatchComes(dialog, jobs) => WatchComes(dialog, jobs)'
    BY <1>1, <2>1 DEF WatchComes, ComesBack, RestoresPrevious, Pending
  <2>4. QED
    BY <1>1, <1>2, <2>1, <2>2, <2>3 DEF WatchInv, DialogInv
<1>5. QED
  BY <1>3, <1>4

\* Whatever becomes of a request, the queue and the dialog stay in order.
LEMMA ServedShape ==
  ASSUME IInv, WatchInv, NEW j \in jobs, NEW S,
         jobs' = (jobs \ {j}) \cup S,
         \/ S = {} /\ j.kind \notin WatchOps
         \/ \E k : S = {k} /\ k.kind = j.kind
                   /\ (k.kind = "capture" /\ k.phase \in {"read", "watched"}
                         => dialog'.previous # Unread),
         \/ dialog' = dialog
         \/ j.kind = "capture" /\ \E p : dialog' = [dialog EXCEPT !.previous = p],
         dialog' \in Dialogs
  PROVE  QueueOK(dialog, jobs)' /\ RecordingOK(dialog, jobs)'
         /\ (dialog'.ops # NoOps => dialog'.busy)
<1>1. /\ dialog'.ops = dialog.ops /\ dialog'.busy = dialog.busy
      /\ dialog'.watching = dialog.watching /\ dialog'.phase = dialog.phase
      /\ dialog'.shown = dialog.shown /\ dialog'.cancelled = dialog.cancelled
      /\ j.kind # "capture" => dialog' = dialog
  BY DEF IInv, TypeInv, Dialogs
<1>2. QueueOK(dialog, jobs) /\ RecordingOK(dialog, jobs)
  BY DEF WatchInv, DialogInv
<1>3. \A k \in jobs' : k \in jobs \/ k \in S
  OBVIOUS
<1>4. \A k \in S : k.kind = j.kind /\ (\A l \in S : k = l)
  OBVIOUS
<1>5. QueueOK(dialog, jobs)'
  <2>1. \A k, l \in jobs' : k.kind \in WatchOps /\ l.kind \in WatchOps => k = l
    BY <1>2, <1>3, <1>4 DEF QueueOK
  <2>2. dialog'.busy <=> \E k \in jobs' : k.kind \in WatchOps
    <3>1. CASE j.kind \in WatchOps
      BY <1>1, <1>2, <3>1 DEF QueueOK
    <3>2. CASE j.kind \notin WatchOps
      BY <1>1, <1>2, <1>3, <1>4, <3>2 DEF QueueOK
    <3>3. QED
      BY <3>1, <3>2
  <2>3. \A k \in jobs' : k.kind = "capture" =>
          /\ dialog'.ops = ToRestore \/ (dialog'.ops = NoOps /\ dialog'.watching)
          /\ k.phase \in {"read", "watched"} => dialog'.previous # Unread
    <3>1. CASE j.kind = "capture"
      <4>1. \A k \in jobs' : k.kind = "capture" => k \in S
        BY <1>2, <1>3, <3>1 DEF QueueOK, WatchOps
      <4>2. QED
        BY <1>1, <1>2, <3>1, <4>1 DEF QueueOK
    <3>2. CASE j.kind # "capture"
      BY <1>1, <1>2, <1>3, <1>4, <3>2 DEF QueueOK
    <3>3. QED
      BY <3>1, <3>2
  <2>4. \A k \in jobs' : k.kind = "restore" =>
          dialog'.ops # ToRestore /\ (dialog'.ops = NoOps => ~dialog'.watching)
    BY <1>1, <1>2, <1>3, <1>4 DEF QueueOK
  <2>5. QED
    BY <1>1, <1>2, <2>1, <2>2, <2>3, <2>4 DEF QueueOK
<1>6. RecordingOK(dialog, jobs)'
  <2>1. \A kind \in {"record_start", "record_stop"} : \A k, l \in jobs' :
          k.kind = kind /\ l.kind = kind => k = l
    BY <1>2, <1>3, <1>4 DEF RecordingOK
  <2>2. \A k \in jobs' : \E l \in jobs : l.kind = k.kind
    BY <1>3, <1>4
  <2>3. dialog'.shown = "no" => dialog' = dialog
    BY <1>1, <1>2 DEF RecordingOK, PollerKinds
  <2>4. QED
    BY <1>1, <1>2, <2>1, <2>2, <2>3 DEF RecordingOK
<1>7. QED
  BY <1>1, <1>5, <1>6 DEF WatchInv

\* Requests for events and for the recording leave the poller's watch alone.
LEMMA WatchFrame ==
  ASSUME \A k : k.kind \in WatchOps \cup {"watch"} => (k \in jobs' <=> k \in jobs),
         dialog' = dialog, up' = up, names' = names,
         WatchComes(dialog, jobs)
  PROVE  WatchComes(dialog, jobs)'
<1>1. \A k : k.kind \in WatchOps \cup {"watch"} => (k \in jobs' <=> k \in jobs)
  OBVIOUS
<1>2. RestoresPrevious(dialog, jobs) <=> RestoresPrevious(dialog, jobs)'
  BY <1>1 DEF RestoresPrevious, WatchOps, Pending
<1>3. QED
  BY <1>1, <1>2 DEF WatchComes, ComesBack, Pending

\* A poll, of either, is answered or fails.
LEMMA PollHas ==
  ASSUME IInv, IInv', WatchInv, NEW j \in jobs, j.kind \in {"feed", "press"}, Answer(j)
  PROVE  WatchInv'
<1>1. PICK k : jobs' = (jobs \ {j}) \cup {k} /\ k.kind = j.kind
  <2>1. j \in Jobs
    BY DEF IInv, TypeInv
  <2>2. \A r : Answered(j, r).kind = j.kind /\ Failed(j).kind = j.kind
    BY <2>1 DEF Answered, Failed, Jobs
  <2>3. jobs' = (jobs \ {j}) \cup {Answered(j, EventsSince(j.since))}
        \/ jobs' = (jobs \ {j}) \cup {Failed(j)}
    BY DEF Answer, Request, Serve, Unreachable, TimesOut, Replace
  <2>4. QED
    BY <2>2, <2>3
<1>2. /\ dialog' = dialog /\ up' = up /\ names' = names /\ (recording' => recording)
      /\ poller' = poller /\ excused' = excused /\ (disturbed => disturbed')
      /\ dialog' \in Dialogs
  <2>1. CASE Request(j)
    BY <2>1 DEF Request, Serve, IInv, TypeInv
  <2>2. CASE Unreachable(j)
    BY <2>2 DEF Unreachable, NamesNotRead, engineVars, history, IInv, TypeInv
  <2>3. CASE TimesOut(j)
    <3>1. dialog' = dialog /\ up' = up /\ poller' = poller /\ excused' = excused
          /\ dialog' \in Dialogs /\ names' = names
      BY <2>3 DEF TimesOut, NamesNotRead, IInv, TypeInv
    <3>2. (disturbed => disturbed')
      BY <2>3 DEF TimesOut
    <3>3. (recording' => recording)
      BY <2>3 DEF TimesOut
    <3>4. QED
      BY <3>1, <3>2, <3>3
  <2>4. QED
    BY <2>1, <2>2, <2>3 DEF Answer
<1>3. QueueOK(dialog, jobs)' /\ RecordingOK(dialog, jobs)'
      /\ (dialog'.ops # NoOps => dialog'.busy)
  BY <1>1, <1>2, ServedShape
<1>4. WatchComes(dialog, jobs) => WatchComes(dialog, jobs)'
  <2>1. \A l : l.kind \in WatchOps \cup {"watch"} => (l \in jobs' <=> l \in jobs)
    BY <1>1 DEF WatchOps
  <2>2. QED
    BY <1>2, <2>1, WatchFrame
<1>5. GivesBack(dialog, jobs) => GivesBack(dialog, jobs)'
  <2>1. \A l : l.kind \in {"restore", "record_start", "record_stop", "discard"}
                 => (l \in jobs' <=> l \in jobs)
    BY <1>1
  <2>2. QED
    BY <1>2, <2>1 DEF GivesBack, RecordingEnds, RestoreComes, Pending
<1>6. QED
  BY <1>2, <1>3, <1>4, <1>5 DEF WatchInv, DialogInv

\* A request for the recording: what was started is stopped by its own dialog.
LEMMA RecordingHas ==
  ASSUME IInv, IInv', WatchInv, NEW j \in jobs,
         j.kind \in {"record_start", "record_stop", "discard"}, Request(j) \/ TimesOut(j)
  PROVE  WatchInv'
<1>1. /\ dialog' = dialog /\ up /\ up' = up /\ names' = names
      /\ poller' = poller /\ excused' = excused /\ (disturbed => disturbed')
      /\ dialog' \in Dialogs /\ Pending(j)
      /\ TimesOut(j) => disturbed'
  <2>1. CASE Request(j) /\ ~TimesOut(j)
    BY <2>1 DEF Request, Serve, IInv, TypeInv
  <2>2. CASE TimesOut(j)
    <3>1. dialog' = dialog /\ up /\ up' = up /\ poller' = poller /\ excused' = excused
          /\ dialog' \in Dialogs /\ names' = names /\ Pending(j)
      BY <2>2 DEF TimesOut, NamesNotRead, IInv, TypeInv
    <3>2. j.kind \notin PollerKinds
      BY DEF PollerKinds
    <3>3. disturbed'
      BY <2>2, <3>2 DEF TimesOut
    <3>4. QED
      BY <3>1, <3>3
  <2>3. QED
    BY <2>1, <2>2
<1>2. PICK S : /\ jobs' = (jobs \ {j}) \cup S
               /\ S = {} \/ \E k : S = {k} /\ k.kind = j.kind
  <2>1. j \in Jobs
    BY DEF IInv, TypeInv
  <2>2. \A r : Answered(j, r).kind = j.kind /\ Failed(j).kind = j.kind
    BY <2>1 DEF Answered, Failed, Jobs
  <2>3. \/ jobs' = (jobs \ {j}) \cup {Answered(j, NoEvents)}
        \/ jobs' = (jobs \ {j}) \cup {Failed(j)}
        \/ jobs' = (jobs \ {j}) \cup {}
    BY DEF Request, Serve, TimesOut, Replace
  <2>4. QED
    BY <2>2, <2>3
<1>3. QueueOK(dialog, jobs)' /\ RecordingOK(dialog, jobs)'
      /\ (dialog'.ops # NoOps => dialog'.busy)
  BY <1>1, <1>2, ServedShape DEF WatchOps
<1>4. WatchComes(dialog, jobs) => WatchComes(dialog, jobs)'
  <2>1. \A l : l.kind \in WatchOps \cup {"watch"} => (l \in jobs' <=> l \in jobs)
    BY <1>2 DEF WatchOps
  <2>2. QED
    BY <1>1, <2>1, WatchFrame
<1>5. ASSUME Request(j), ~disturbed, dialog.shown # "no", GivesBack(dialog, jobs)
      PROVE  GivesBack(dialog, jobs)'
  <2>1. RestoreComes(dialog, jobs) => RestoreComes(dialog, jobs)'
    BY <1>1, <1>2 DEF RestoreComes, Pending
  <2>2. recording' => RecordingEnds(dialog, jobs)'
    <3>1. CASE j.kind = "record_start"
      <4>1. /\ dialog.phase = "starting"
            /\ \A k \in jobs : k.kind = "record_start" => k = j
            /\ \A k \in jobs : k.kind \notin {"record_stop", "discard"}
        BY <3>1 DEF WatchInv, DialogInv, RecordingOK
      <4>2. ~recording
        BY <1>1, <1>5, <4>1 DEF GivesBack, RecordingEnds, Pending
      <4>3. Answered(j, NoEvents) \in jobs'
        BY <1>5, <3>1, <4>2 DEF Request, Serve, Replace
      <4>4. Answered(j, NoEvents).kind = "record_start" /\ Answered(j, NoEvents).phase = "done"
        BY <3>1 DEF IInv, TypeInv, Jobs, Answered
      <4>5. QED
        BY <4>3, <4>4 DEF RecordingEnds
    <3>2. CASE j.kind # "record_start"
      BY <1>5, <3>2 DEF Request, Serve
    <3>3. QED
      BY <3>1, <3>2
  <2>3. QED
    BY <1>1, <1>5, <2>1, <2>2 DEF GivesBack
<1>6. QED
  BY <1>1, <1>3, <1>4, <1>5 DEF WatchInv, DialogInv

\* A request to watch for the poller: it comes last, or has been overtaken, or
\* clashes with the dialog's.
LEMMA WatchHas ==
  ASSUME IInv, IInv', WatchInv, NEW j \in jobs, j.kind = "watch", Request(j) \/ TimesOut(j)
  PROVE  WatchInv'
<1>1. /\ dialog' = dialog /\ up /\ up' = up /\ names' = j.names /\ (recording' => recording)
      /\ poller' = poller /\ dialog' \in Dialogs /\ Pending(j)
  <2>1. CASE Request(j)
    BY <2>1 DEF Request, Serve, IInv, TypeInv
  <2>2. CASE TimesOut(j)
    <3>1. dialog' = dialog /\ up /\ up' = up /\ poller' = poller /\ dialog' \in Dialogs /\ Pending(j)
      BY <2>2 DEF TimesOut, NamesNotRead, IInv, TypeInv
    <3>2. names' = j.names
      BY <2>2 DEF TimesOut
    <3>3. recording' => recording
      BY <2>2 DEF TimesOut
    <3>4. QED
      BY <3>1, <3>2, <3>3
  <2>3. QED
    BY <2>1, <2>2
<1>2. excused' = {} => excused = {}
  BY DEF Request, Serve, TimesOut
<1>3. disturbed \/ dialog.previous # Unread => disturbed'
  BY DEF Request, Serve, TimesOut
<1>4. /\ Failed(j).kind = "watch" /\ Failed(j).phase = "failed"
  BY DEF IInv, TypeInv, Jobs, Failed
<1>5. PICK S : /\ jobs' = (jobs \ {j}) \cup S
               /\ S = {Failed(j)} \/ (S = {} /\ Request(j))
  <2>1. Request(j) => jobs' = (jobs \ {j}) \cup {}
    BY DEF Request, Serve, Replace
  <2>2. TimesOut(j) => jobs' = (jobs \ {j}) \cup {Failed(j)}
    BY DEF TimesOut, Replace
  <2>3. QED
    BY <2>1, <2>2
<1>6. QueueOK(dialog, jobs)' /\ RecordingOK(dialog, jobs)'
      /\ (dialog'.ops # NoOps => dialog'.busy)
  BY <1>1, <1>4, <1>5, ServedShape DEF WatchOps
<1>7. ~disturbed' /\ GivesBack(dialog, jobs) => GivesBack(dialog, jobs)'
  BY <1>1, <1>3, <1>4, <1>5 DEF GivesBack, RecordingEnds, Pending
<1>8. ASSUME excused' = {}, poller.watching = Effects PROVE WatchComes(dialog, jobs)'
  <2>1. WatchComes(dialog, jobs)
    BY <1>2, <1>8 DEF WatchInv, DialogInv
  <2>2. CASE S = {Failed(j)}
    BY <1>4, <1>5, <2>2 DEF WatchComes
  <2>3. CASE S = {} /\ \E k \in jobs : k.kind = "watch" /\ k.phase = "failed"
    BY <1>1, <1>5, <2>3 DEF WatchComes, Pending
  <2>4. CASE Request(j) /\ S = {} /\ j.names = Effects
    <3>1. ~Outstanding({"watch"}, jobs \ {j}) /\ ~Borrowing
      BY <1>8, <2>4 DEF Request, Serve
    <3>2. \A k \in jobs' : k.kind = "watch" => ~Pending(k)
      BY <1>5, <2>4, <3>1 DEF Outstanding
    <3>3. ASSUME dialog.previous # Unread PROVE ~RestoresPrevious(dialog, jobs)'
      <4>1. /\ dialog.ops = NoOps /\ ~dialog.watching
            /\ \A k \in jobs : k.kind \in WatchOps => ~Pending(k)
        BY <3>1, <3>3 DEF Borrowing, Outstanding, NoOps
      <4>2. \A k \in jobs : k.kind # "capture"
        BY <4>1, OpsFacts DEF WatchInv, DialogInv, QueueOK
      <4>3. \A k \in jobs' : k \in jobs
        BY <1>5, <2>4
      <4>4. \A k \in jobs' : k.kind = "restore" => ~(k.phase \in {"sent", "read", "watched"})
        BY <4>1, <4>3 DEF WatchOps, Pending
      <4>5. QED
        BY <1>1, <4>1, <4>2, <4>3, <4>4, OpsFacts DEF RestoresPrevious, Pending
    <3>4. ComesBack(dialog, jobs)'
      BY <1>1, <2>4, <3>3 DEF ComesBack
    <3>5. QED
      BY <3>2, <3>4 DEF WatchComes, Pending
  <2>5. CASE S = {} /\ j.names # Effects
    BY <1>1, <1>5, <2>1, <2>3, <2>5 DEF WatchComes, Pending
  <2>6. QED
    BY <1>5, <2>2, <2>4, <2>5, <1>1
<1>9. QED
  BY <1>1, <1>2, <1>3, <1>6, <1>7, <1>8 DEF WatchInv, DialogInv

\* While a capture is under way its own recording goes on.
LEMMA WatchOpKeepsRecording ==
  ASSUME NEW j \in jobs, j.kind \in WatchOps, NEW k, k.kind = j.kind,
         jobs' = (jobs \ {j}) \cup {k}, dialog'.phase = dialog.phase,
         recording' => recording, recording => RecordingEnds(dialog, jobs)
  PROVE  recording' => RecordingEnds(dialog, jobs)'
<1>1. \A l : l.kind \in {"record_start", "record_stop", "discard"} => (l \in jobs' <=> l \in jobs)
  BY DEF WatchOps
<1>2. QED
  BY <1>1 DEF RecordingEnds, Pending

\* Where the one request for the watch stands decides what is given back.
LEMMA OneWatchOp ==
  ASSUME WatchInv, NEW j \in jobs, j.kind \in WatchOps
  PROVE  /\ \A l \in jobs : l.kind \in WatchOps => l = j
         /\ RestoresPrevious(dialog, jobs)
              <=> (j.kind = "restore" /\ Pending(j)) \/ (j.kind = "capture" /\ j.phase # "sent")
<1>1. \A l \in jobs : l.kind \in WatchOps => l = j
  BY DEF WatchInv, DialogInv, QueueOK
<1>2. QED
  BY <1>1 DEF RestoresPrevious, WatchOps

\* The same in the next state.
LEMMA OneWatchOpNext ==
  ASSUME WatchInv, NEW j \in jobs, j.kind \in WatchOps, NEW k, k.kind = j.kind,
         jobs' = (jobs \ {j}) \cup {k}
  PROVE  RestoresPrevious(dialog, jobs)'
           <=> (k.kind = "restore" /\ Pending(k)) \/ (k.kind = "capture" /\ k.phase # "sent")
<1>1. k \in jobs' /\ \A l \in jobs' : l.kind \in WatchOps => l = k
  BY OneWatchOp
<1>2. QED
  BY <1>1 DEF RestoresPrevious, WatchOps, Pending

\* The poller's requests stay as they are while the dialog's is answered.
LEMMA WatchOpComes ==
  ASSUME WatchInv, NEW j \in jobs, j.kind \in WatchOps, NEW k, k.kind = j.kind,
         jobs' = (jobs \ {j}) \cup {k}, WatchComes(dialog, jobs),
         ComesBack(dialog, jobs) => ComesBack(dialog, jobs)'
  PROVE  WatchComes(dialog, jobs)'
<1>1. \A l : l.kind = "watch" => (l \in jobs' <=> l \in jobs)
  BY DEF WatchOps
<1>2. QED
  BY <1>1 DEF WatchComes, Pending

\* A capture reads the names, watches its own device and reads the cursor; what
\* it has read is what the restore after it gives back.
LEMMA CaptureHas ==
  ASSUME IInv, IInv', WatchInv, NEW j \in jobs, j.kind = "capture", Request(j) \/ TimesOut(j)
  PROVE  WatchInv'
<1>1. /\ up /\ up' = up /\ poller' = poller /\ excused' = excused
      /\ dialog' \in Dialogs /\ dialog \in Dialogs /\ Pending(j) /\ j \in Jobs
  BY DEF Request, Serve, TimesOut, IInv, TypeInv
<1>2. disturbed => disturbed'
  BY DEF Request, Serve, TimesOut
<1>3. TimesOut(j) => disturbed'
  BY DEF TimesOut, PollerKinds
<1>4. recording' => recording
  <2>1. Request(j) => recording' = recording
    BY DEF Request, Serve
  <2>2. TimesOut(j) => (recording' => recording)
    BY DEF TimesOut
  <2>3. QED
    BY <2>1, <2>2
<1>5. PICK k :
        /\ jobs' = (jobs \ {j}) \cup {k} /\ k.kind = "capture"
        /\ \/ /\ j.phase = "sent" /\ k.phase = "read" /\ names' = names /\ Request(j)
              /\ dialog' = [dialog EXCEPT !.previous = names]
           \/ /\ j.phase = "read" /\ k.phase = "watched" /\ names' = Captured /\ dialog' = dialog
              /\ Request(j)
           \/ /\ j.phase = "watched" /\ k.phase = "done" /\ names' = names /\ dialog' = dialog
              /\ Request(j)
           \/ /\ j.phase = "sent" /\ k.phase = "failed" /\ names' = names /\ TimesOut(j)
              /\ dialog' = [dialog EXCEPT !.previous = Unread]
           \/ /\ j.phase = "read" /\ k.phase = "failed" /\ names' = Captured /\ dialog' = dialog
              /\ TimesOut(j)
           \/ /\ j.phase = "watched" /\ k.phase = "failed" /\ names' = names /\ dialog' = dialog
              /\ TimesOut(j)
  <2>1. CASE Request(j)
    <3> DEFINE a == [j EXCEPT !.phase = "read"]
               b == [j EXCEPT !.phase = "watched"]
               c == Answered(j, EventsSince(0))
    <3>1. /\ a.kind = "capture" /\ a.phase = "read" /\ b.kind = "capture" /\ b.phase = "watched"
          /\ c.kind = "capture" /\ c.phase = "done"
      BY <1>1 DEF Jobs, Answered
    <3>2. \/ /\ j.phase = "sent" /\ names' = names
             /\ dialog' = [dialog EXCEPT !.previous = names] /\ jobs' = (jobs \ {j}) \cup {a}
          \/ /\ j.phase = "read" /\ names' = Captured /\ dialog' = dialog
             /\ jobs' = (jobs \ {j}) \cup {b}
          \/ /\ j.phase = "watched" /\ names' = names /\ dialog' = dialog
             /\ jobs' = (jobs \ {j}) \cup {c}
      BY <2>1 DEF Request, Serve, Replace
    <3> HIDE DEF a, b, c
    <3>3. QED
      BY <2>1, <3>1, <3>2
  <2>2. CASE TimesOut(j)
    <3> DEFINE a == Failed(j)
    <3>1. a.kind = "capture" /\ a.phase = "failed"
      BY <1>1 DEF Jobs, Failed
    <3>2. /\ jobs' = (jobs \ {j}) \cup {a}
          /\ j.phase = "sent" => dialog' = [dialog EXCEPT !.previous = Unread]
          /\ j.phase # "sent" => dialog' = dialog
      BY <2>2 DEF TimesOut, Replace, NamesNotRead
    <3>3. /\ j.phase = "read" => names' = Captured
          /\ j.phase # "read" => names' = names
      BY <2>2 DEF TimesOut
    <3> HIDE DEF a
    <3>4. QED
      BY <1>1, <2>2, <3>1, <3>2, <3>3 DEF Pending
  <2>3. QED
    BY <2>1, <2>2
<1>6. names \in NameSets /\ Unread \notin NameSets
  <2>1. names \in NameSets
    BY DEF IInv, TypeInv
  <2>2. QED
    BY <2>1, UnreadAssumption DEF NameSets, Unread
<1>7. /\ dialog'.ops = dialog.ops /\ dialog'.watching = dialog.watching
      /\ dialog'.phase = dialog.phase /\ dialog'.shown = dialog.shown
  BY <1>1, <1>5 DEF Dialogs
<1>8. /\ k.phase = "read" => dialog'.previous = names
      /\ k.phase # "read" => dialog'.previous = dialog.previous \/ j.phase = "sent"
      /\ k.phase = "failed" /\ j.phase = "sent" => dialog'.previous = Unread
      /\ j.phase \in {"read", "watched"} => dialog'.previous = dialog.previous
                                           /\ dialog.previous # Unread
  BY <1>1, <1>5 DEF Dialogs, WatchInv, DialogInv, QueueOK
<1>9. QueueOK(dialog, jobs)' /\ RecordingOK(dialog, jobs)'
      /\ (dialog'.ops # NoOps => dialog'.busy)
  <2>1. k.kind = "capture" /\ k.phase \in {"read", "watched"} => dialog'.previous # Unread
    BY <1>5, <1>6, <1>8
  <2>2. dialog' = dialog \/ \E p : dialog' = [dialog EXCEPT !.previous = p]
    BY <1>5
  <2>3. QED
    BY <1>1, <1>5, <2>1, <2>2, ServedShape
<1>10. ASSUME ~disturbed', dialog.shown # "no", GivesBack(dialog, jobs)
       PROVE  GivesBack(dialog, jobs)'
  <2>1. Request(j)
    BY <1>3, <1>10
  <2>2. dialog.watching \/ dialog.ops = ToRestore
    BY DEF WatchInv, DialogInv, QueueOK
  <2>3. RestoreComes(dialog, jobs)'
    BY <1>7, <2>2 DEF RestoreComes
  <2>4. recording' => RecordingEnds(dialog, jobs)'
    BY <1>4, <1>5, <1>7, <1>10, WatchOpKeepsRecording DEF GivesBack, WatchOps
  <2>5. QED
    BY <1>1, <2>3, <2>4 DEF GivesBack
<1>11. ASSUME WatchComes(dialog, jobs) PROVE WatchComes(dialog, jobs)'
  <2>1. j.kind \in WatchOps
    BY DEF WatchOps
  <2>2. RestoresPrevious(dialog, jobs) <=> j.phase # "sent"
    BY <2>1, OneWatchOp
  <2>3. RestoresPrevious(dialog, jobs)'
    BY <1>5, <2>1, OneWatchOpNext
  <2>4. ComesBack(dialog, jobs) => ComesBack(dialog, jobs)'
    BY <1>1, <1>5, <1>8, <2>2, <2>3 DEF ComesBack
  <2>5. QED
    BY <1>5, <1>11, <2>1, <2>4, WatchOpComes
<1>12. QED
  BY <1>1, <1>2, <1>7, <1>9, <1>10, <1>11 DEF WatchInv, DialogInv

\* A restore gives back what was read, or leaves the names as they are.
LEMMA RestoreHas ==
  ASSUME IInv, IInv', WatchInv, NEW j \in jobs, j.kind = "restore", Request(j) \/ TimesOut(j)
  PROVE  WatchInv'
<1>1. /\ up /\ up' = up /\ poller' = poller /\ excused' = excused
      /\ dialog' \in Dialogs /\ dialog' = dialog /\ Pending(j) /\ j \in Jobs
  BY DEF Request, Serve, TimesOut, NamesNotRead, IInv, TypeInv
<1>2. (disturbed => disturbed') /\ names' = Restored
  <2>1. Request(j) => disturbed' = disturbed /\ names' = Restored
    BY DEF Request, Serve
  <2>2. TimesOut(j) => (disturbed => disturbed')
    BY DEF TimesOut
  <2>3. TimesOut(j) => names' = Restored
    BY DEF TimesOut
  <2>4. QED
    BY <2>1, <2>2, <2>3
<1>3. recording' => recording
  <2>1. Request(j) => recording' = recording
    BY DEF Request, Serve
  <2>2. TimesOut(j) => (recording' => recording)
    BY DEF TimesOut
  <2>3. QED
    BY <2>1, <2>2
<1>4. PICK k : /\ jobs' = (jobs \ {j}) \cup {k} /\ k.kind = "restore"
               /\ k.phase \in {"done", "failed"}
  <2> DEFINE a == Answered(j, NoEvents)
             b == Failed(j)
  <2>1. a.kind = "restore" /\ a.phase = "done" /\ b.kind = "restore" /\ b.phase = "failed"
    BY <1>1 DEF Jobs, Answered, Failed
  <2>2. Request(j) => jobs' = (jobs \ {j}) \cup {a}
    BY DEF Request, Serve, Replace
  <2>3. TimesOut(j) => jobs' = (jobs \ {j}) \cup {b}
    BY DEF TimesOut, Replace
  <2> HIDE DEF a, b
  <2>4. QED
    BY <2>1, <2>2, <2>3
<1>5. QueueOK(dialog, jobs)' /\ RecordingOK(dialog, jobs)'
      /\ (dialog'.ops # NoOps => dialog'.busy)
  BY <1>1, <1>4, ServedShape
<1>6. GivesBack(dialog, jobs) => GivesBack(dialog, jobs)'
  <2>1. dialog.previous # Unread => names' = dialog.previous
    BY <1>2 DEF Restored
  <2>2. (recording => RecordingEnds(dialog, jobs))
          => (recording' => RecordingEnds(dialog, jobs)')
    BY <1>1, <1>3, <1>4, WatchOpKeepsRecording DEF WatchOps
  <2>3. QED
    BY <1>1, <2>1, <2>2 DEF GivesBack
<1>7. ASSUME WatchComes(dialog, jobs) PROVE WatchComes(dialog, jobs)'
  <2>1. j.kind \in WatchOps
    BY DEF WatchOps
  <2>2. RestoresPrevious(dialog, jobs)
    BY <1>1, <2>1, OneWatchOp
  <2>3. ComesBack(dialog, jobs) => ComesBack(dialog, jobs)'
    BY <1>1, <1>2, <2>2, UnreadAssumption DEF ComesBack, Restored
  <2>4. QED
    BY <1>4, <1>7, <2>1, <2>3, WatchOpComes
<1>8. QED
  BY <1>1, <1>2, <1>3, <1>5, <1>6, <1>7 DEF WatchInv, DialogInv

\* With an engine that has ended there is nothing to give back to.
LEMMA UnreachableHas ==
  ASSUME IInv, IInv', WatchInv, NEW j \in jobs, Unreachable(j)
  PROVE  WatchInv'
<1>1. /\ ~up /\ up' = up /\ names' = names /\ recording' = recording /\ poller' = poller
      /\ excused' = excused /\ disturbed' = disturbed /\ dialog' \in Dialogs /\ Pending(j)
      /\ jobs' = (jobs \ {j}) \cup {Failed(j)}
  BY DEF Unreachable, Replace, engineVars, history, IInv, TypeInv
<1>2. Failed(j).kind = j.kind /\ Failed(j).phase = "failed"
  BY JobBecomes DEF IInv, TypeInv, Jobs, Failed
<1>3. \/ dialog' = dialog
      \/ j.kind = "capture" /\ dialog' = [dialog EXCEPT !.previous = Unread]
  BY DEF Unreachable, NamesNotRead
<1>4. QueueOK(dialog, jobs)' /\ RecordingOK(dialog, jobs)'
      /\ (dialog'.ops # NoOps => dialog'.busy)
  BY <1>1, <1>2, <1>3, ServedShape
<1>5. GivesBack(dialog, jobs) => GivesBack(dialog, jobs)' /\ dialog' = dialog
  <2>1. ASSUME GivesBack(dialog, jobs) PROVE j.kind # "capture"
    BY <1>1, <2>1 DEF GivesBack, WatchInv, DialogInv, QueueOK, WatchOps
  <2>2. QED
    BY <1>1, <1>2, <1>3, <2>1 DEF GivesBack, WatchInv
<1>6. WatchComes(dialog, jobs) => WatchComes(dialog, jobs)'
  BY <1>1, <1>2 DEF WatchComes, ComesBack, Pending
<1>7. dialog'.shown = dialog.shown
  BY <1>3 DEF IInv, TypeInv, Dialogs
<1>8. QED
  BY <1>1, <1>4, <1>5, <1>6, <1>7 DEF WatchInv, DialogInv

LEMMA EngineHas == ASSUME IInv, IInv', WatchInv, EngineStep PROVE WatchInv'
<1>1. ASSUME NEW j \in jobs, Answer(j) PROVE WatchInv'
  <2>1. j.kind \in Kinds
    BY DEF IInv, TypeInv, Jobs
  <2>2. CASE Unreachable(j)
    BY <2>2, UnreachableHas
  <2>3. CASE Request(j) \/ TimesOut(j)
    BY <1>1, <2>1, <2>3, PollHas, WatchHas, CaptureHas, RestoreHas, RecordingHas DEF Kinds
  <2>4. QED
    BY <1>1, <2>2, <2>3 DEF Answer
<1>2. QED
  BY <1>1, EngineAloneHas DEF EngineStep

LEMMA InitHas == Init => WatchInv
<1>1. NoDialog.ops = NoOps /\ NoDialog.shown = "no" /\ ~NoDialog.busy /\ ~NoDialog.watching
      /\ NoDialog.phase = "idle" /\ ~NoDialog.cancelled
  BY DEF NoDialog, NewDialog, NoOps
<1>2. Init => QueueOK(dialog, jobs) /\ RecordingOK(dialog, jobs)
  BY <1>1, OpsFacts DEF Init, QueueOK, RecordingOK
<1>3. Init => poller.watching # Effects
  BY NamesAssumption DEF Init, NewPoller
<1>4. QED
  BY <1>1, <1>2, <1>3 DEF Init, WatchInv, DialogInv

\* The order in which the dialog and its requests can be, and what is still to be
\* given back, hold in every reachable state.
THEOREM WatchInvariance == Spec => []WatchInv
<1>1. ASSUME IInv, IInv', WatchInv, [Next]_vars PROVE WatchInv'
  <2>1. CASE UNCHANGED vars
    BY <1>1, <2>1 DEF vars, engineVars, guiVars, history, WatchInv, DialogInv, QueueOK,
       RecordingOK, GivesBack, RecordingEnds, RestoreComes, WatchComes, ComesBack,
       RestoresPrevious, Pending
  <2>2. QED
    BY <1>1, <2>1, EngineHas, PollerHas, DialogHas DEF Next
<1>2. QED
  BY Invariance, InitHas, <1>1, PTL DEF Spec

\* A recording and a watch that a dialog began have ended when nothing of it is
\* under way any more (RecorderDialog._cancelled, _queue_watch, _restore), whatever
\* was cancelled, in whatever order the requests were carried out.
THEOREM NoTraceLeft == Spec => []CaptureLeavesNoTrace
<1>1. WatchInv => CaptureLeavesNoTrace
  <2>1. SUFFICES ASSUME WatchInv, DialogIsQuiet, ~disturbed
                 PROVE  ~recording /\ (dialog.previous # Unread => names = dialog.previous)
    BY DEF CaptureLeavesNoTrace
  <2>2. GivesBack(dialog, jobs) /\ RecordingOK(dialog, jobs)
    BY <2>1 DEF WatchInv, DialogInv, DialogIsQuiet
  <2>3. /\ dialog.phase # "recording" /\ ~dialog.watching /\ dialog.ops = NoOps
        /\ \A j \in jobs : j.kind \in PollerKinds
    BY <2>1, <2>2 DEF DialogIsQuiet, RecordingOK, NoOps
  <2>4. ~RecordingEnds(dialog, jobs) /\ ~RestoreComes(dialog, jobs)
    BY <2>3, OpsFacts DEF RecordingEnds, RestoreComes, PollerKinds
  <2>5. QED
    BY <2>2, <2>4 DEF GivesBack
<1>2. QED
  BY WatchInvariance, <1>1, PTL

\* The poller's belief about the engine's watch is true whenever nothing that
\* changes it is under way (KeyEventPoller._watching, KeyWatch.watch), with every
\* capture in between, but for the three races.
THEOREM WatchKept == Spec => []WatchIsKept
<1>1. IInv /\ WatchInv => WatchIsKept
  <2>1. SUFFICES ASSUME IInv, WatchInv, poller.watching # {}, excused = {},
                        ~\E j \in jobs : j.kind = "watch",
                        ~dialog.watching, dialog.ops = NoOps, ~Outstanding(WatchOps, jobs)
                 PROVE  names = poller.watching
    BY DEF WatchIsKept, NoOps
  <2>2. poller.watching = Effects
    BY <2>1 DEF IInv, TypeInv, Pollers
  <2>3. ComesBack(dialog, jobs)
    BY <2>1, <2>2 DEF WatchInv, DialogInv, WatchComes
  <2>4. \A j \in jobs : j.kind # "capture"
    BY <2>1, OpsFacts DEF WatchInv, DialogInv, QueueOK
  <2>5. ~RestoresPrevious(dialog, jobs)
    BY <2>1, <2>4, OpsFacts DEF RestoresPrevious, Outstanding, WatchOps
  <2>6. QED
    BY <2>2, <2>3, <2>5 DEF ComesBack
<1>2. QED
  BY Invariance, WatchInvariance, <1>1, PTL

-----------------------------------------------------------------------------
(* The types, with the bounds of the numbers.  They follow from the numbers *)
(* of the engine, which every cursor and every answer is taken from.        *)

Numbers == 0 .. MaxPresses

\* A request asks from a number on, and its answer ends with one.
Small(j) == j.since \in Numbers /\ j.reply.upto \in Numbers

Counted ==
  /\ {up, recording, wanted, disturbed} \subseteq BOOLEAN
  /\ lost \in Nat /\ boot + lost <= MaxFaults
  /\ next \in Numbers /\ poller.since \in Numbers /\ dialog.since \in Numbers
  /\ \A j \in jobs : Small(j)
  /\ excused \subseteq Races

LEMMA ZeroIsSmall == 0 \in Numbers
  BY BoundsAssumption DEF Numbers

LEMMA NewJobSmall ==
  ASSUME NEW kind, NEW S, NEW since \in Numbers
  PROVE  Small(Job(kind, S, since)) /\ Small(Plain(kind))
  BY ZeroIsSmall DEF Small, Job, Plain, NoEvents

LEMMA JobStaysSmall ==
  ASSUME NEW j \in Jobs, Small(j), NEW r \in Replies, r.upto \in Numbers
  PROVE  Small(Answered(j, r)) /\ Small(Failed(j))
         /\ \A p \in Phases : Small([j EXCEPT !.phase = p])
  BY DEF Small, Answered, Failed, Jobs, Phases

LEMMA NewPairCounts ==
  /\ NewPoller.since = 0 /\ NoDialog.since = 0
  /\ \A capture \in BOOLEAN : NewDialog(capture).since = 0
  BY DEF NewPoller, NoDialog, NewDialog

LEMMA InitCounts == Init => Counted
<1> SUFFICES ASSUME Init PROVE Counted
  OBVIOUS
<1>1. poller.since \in Numbers /\ dialog.since \in Numbers /\ next \in Numbers
  BY ZeroIsSmall, NewPairCounts DEF Init
<1>2. lost \in Nat /\ boot + lost <= MaxFaults /\ (\A j \in jobs : Small(j))
  BY BoundsAssumption DEF Init
<1>3. {up, recording, wanted, disturbed} \subseteq BOOLEAN /\ excused \subseteq Races
  BY DEF Init
<1>4. QED
  BY <1>1, <1>2, <1>3 DEF Counted

LEMMA RequestCounts ==
  ASSUME IInv, Counted, NEW j \in jobs, Request(j)
  PROVE  Counted'
<1>1. j \in Jobs /\ dialog \in Dialogs /\ Small(j) /\ NoEvents \in Replies
  BY DEF IInv, TypeInv, Counted, NoEvents, Replies
<1>2. /\ UNCHANGED <<up, boot, next, wanted, poller, lost>> /\ recording' \in BOOLEAN
      /\ disturbed' \in BOOLEAN /\ excused' \subseteq Races
  BY DEF Request, Serve, Counted, Races
<1>3. dialog'.since = dialog.since
  <2>1. dialog' = dialog \/ dialog' = [dialog EXCEPT !.previous = names]
    BY DEF Request, Serve
  <2>2. QED
    BY <1>1, <2>1 DEF Dialogs
<1>4. ASSUME NEW since \in Nat
      PROVE  EventsSince(since) \in Replies /\ EventsSince(since).upto \in Numbers
  BY EventsType DEF IInv, Counted
<1>5. NoEvents.upto \in Numbers
  BY ZeroIsSmall DEF NoEvents
<1>6. \A k \in jobs' : Small(k)
  <2> DEFINE Becomes(k) == \/ k = Answered(j, EventsSince(j.since))
                         \/ k = Answered(j, EventsSince(0))
                         \/ k = Answered(j, NoEvents) \/ k = Failed(j)
                         \/ \E p \in Phases : k = [j EXCEPT !.phase = p]
  <2>1. jobs' = jobs \ {j} \/ \E k : Becomes(k) /\ jobs' = (jobs \ {j}) \cup {k}
    <3>1. CASE j.kind \in {"feed", "press"}
      BY <3>1 DEF Request, Serve, Replace
    <3>2. CASE j.kind \in {"watch", "discard"}
      BY <3>2 DEF Request, Serve, Replace
    <3>3. CASE j.kind = "capture"
      <4>1. \/ jobs' = (jobs \ {j}) \cup {[j EXCEPT !.phase = "read"]}
            \/ jobs' = (jobs \ {j}) \cup {[j EXCEPT !.phase = "watched"]}
            \/ jobs' = (jobs \ {j}) \cup {Answered(j, EventsSince(0))}
        BY <3>3 DEF Request, Serve, Replace
      <4>2. Becomes([j EXCEPT !.phase = "read"]) /\ Becomes([j EXCEPT !.phase = "watched"])
            /\ Becomes(Answered(j, EventsSince(0)))
        BY DEF Phases
      <4> HIDE DEF Becomes
      <4>3. QED
        BY <4>1, <4>2
    <3>4. CASE j.kind \in {"restore", "record_start", "record_stop"}
      <4>1. \/ jobs' = (jobs \ {j}) \cup {Answered(j, NoEvents)}
            \/ jobs' = (jobs \ {j}) \cup {Failed(j)}
        BY <3>4 DEF Request, Serve, Replace
      <4>2. Becomes(Answered(j, NoEvents)) /\ Becomes(Failed(j))
        OBVIOUS
      <4> HIDE DEF Becomes
      <4>3. QED
        BY <4>1, <4>2
    <3>5. QED
      BY <1>1, <3>1, <3>2, <3>3, <3>4 DEF Jobs, Kinds
  <2>2. ASSUME NEW k, Becomes(k) PROVE Small(k)
    <3>1. j.since \in Nat
      BY <1>1 DEF Jobs
    <3>2. QED
      BY <1>1, <1>4, <1>5, <2>2, <3>1, JobStaysSmall
  <2>3. QED
    BY <2>1, <2>2 DEF Counted
<1>7. QED
  BY <1>2, <1>3, <1>6 DEF Counted

LEMMA EngineCounts ==
  ASSUME IInv, Counted, EngineStep
  PROVE  Counted'
<1>1. CASE Press
  BY <1>1, BoundsAssumption DEF Press, guiVars, history, Counted, Numbers, Small
<1>2. CASE Crash
  BY <1>2, ZeroIsSmall DEF Crash, guiVars, Counted, Small, Races
<1>3. CASE Boot
  BY <1>3, BoundsAssumption DEF Boot, guiVars, history, Counted, Small, IInv, TypeInv
<1>4. ASSUME NEW j \in jobs, Unreachable(j) \/ TimesOut(j) PROVE Counted'
  <2>1. j \in Jobs /\ dialog \in Dialogs /\ Small(j) /\ NoEvents \in Replies
    BY DEF IInv, TypeInv, Counted, NoEvents, Replies
  <2>2. Small(Failed(j))
    BY <2>1, JobStaysSmall, ZeroIsSmall DEF NoEvents
  <2>3. /\ UNCHANGED <<up, boot, next, wanted, poller, excused>> /\ recording' \in BOOLEAN
        /\ disturbed' \in BOOLEAN /\ jobs' = (jobs \ {j}) \cup {Failed(j)}
        /\ lost' = lost \/ (lost' = lost + 1 /\ boot + lost < MaxFaults)
    BY <1>4 DEF Unreachable, TimesOut, Replace, engineVars, history, Counted
  <2>4. lost' \in Nat /\ boot + lost' <= MaxFaults
    BY <2>3, BoundsAssumption DEF Counted, IInv, TypeInv
  <2>5. dialog'.since = dialog.since
    BY <1>4, <2>1 DEF Unreachable, TimesOut, NamesNotRead, Dialogs
  <2>6. QED
    BY <2>2, <2>3, <2>4, <2>5 DEF Counted
<1>5. QED
  BY <1>1, <1>2, <1>3, <1>4, RequestCounts DEF EngineStep, Answer

LEMMA PollerCounts ==
  ASSUME IInv, Counted, PollerStep
  PROVE  Counted'
<1>0. poller \in Pollers /\ jobs \subseteq Jobs
  BY DEF IInv, TypeInv
<1>1. CASE SetWanted
  BY <1>1 DEF SetWanted, engineVars, history, Counted, Small
<1>2. CASE Start
  <2>1. poller'.since = poller.since /\ excused' \subseteq Races
    BY <1>0, <1>2 DEF Start, Pollers, Excuses, Counted
  <2>2. jobs' = jobs \cup {Job("watch", Effects, 0)} /\ Small(Job("watch", Effects, 0))
    BY <1>2, ZeroIsSmall, NewJobSmall DEF Start
  <2>3. QED
    BY <1>2, <2>1, <2>2 DEF Start, engineVars, Counted
<1>3. CASE Stop
  <2>1. poller'.since = poller.since
    BY <1>0, <1>3 DEF Stop, LoseWatch, Pollers
  <2>2. jobs' = jobs \cup {Job("watch", {}, 0)} /\ Small(Job("watch", {}, 0))
    BY <1>3, ZeroIsSmall, NewJobSmall DEF Stop
  <2>3. QED
    BY <1>3, <2>1, <2>2 DEF Stop, engineVars, history, Counted
<1>4. CASE Poll
  <2>1. poller'.since = poller.since
    BY <1>0, <1>4 DEF Poll, Pollers
  <2>2. /\ jobs' = jobs \cup {Job("feed", {}, poller.since)}
        /\ Small(Job("feed", {}, poller.since))
    BY <1>4, NewJobSmall DEF Poll, Counted
  <2>3. QED
    BY <1>4, <2>1, <2>2 DEF Poll, engineVars, history, Counted
<1>5. ASSUME NEW j \in jobs, OnEvents(j) PROVE Counted'
  <2> DEFINE p == [poller EXCEPT !.inFlight = FALSE]
             cursor == j.reply.upto
  <2>1. cursor \in Numbers /\ p \in Pollers
    BY <1>0 DEF Counted, Small, Pollers
  <2>2. (IF p.fresh THEN p ELSE LoseWatch(p)) \in Pollers
    BY <2>1, LoseWatchType
  <2>3. Adopt(p, cursor).since = cursor /\ [p EXCEPT !.since = cursor].since = cursor
    BY <2>1, <2>2 DEF Adopt, Pollers
  <2>4. poller'.since = cursor
    BY <1>5, <2>3 DEF OnEvents
  <2>5. QED
    BY <1>5, <2>1, <2>4 DEF OnEvents, Replace, engineVars, Counted
<1>6. ASSUME NEW j \in jobs, OnPollerFailed(j) PROVE Counted'
  <2> DEFINE p == IF j.kind = "feed" THEN [poller EXCEPT !.inFlight = FALSE] ELSE poller
  <2>1. p \in Pollers /\ p.since = poller.since
    BY <1>0 DEF Pollers
  <2>2. poller'.since = poller.since
    BY <1>6, <2>1, LoseWatchType DEF OnPollerFailed
  <2>3. QED
    BY <1>6, <2>2 DEF OnPollerFailed, Replace, engineVars, history, Counted
<1>7. CASE ReleaseWatch
  BY <1>7, ZeroIsSmall, NewPairCounts DEF ReleaseWatch, Counted
<1>8. QED
  BY <1>1, <1>2, <1>3, <1>4, <1>5, <1>6, <1>7 DEF PollerStep, Sync

LEMMA BecomeCounts ==
  ASSUME Counted, NEW d \in Dialogs, d.since \in Numbers, NEW done, NEW S,
         \A k \in S : Small(k), Become(d, done, S), disturbed' \in BOOLEAN
  PROVE  Counted'
<1>1. \A k \in jobs' : Small(k)
  <2>1. \A kind : Small(Plain(kind))
    BY ZeroIsSmall, NewJobSmall
  <2>2. QED
    BY <2>1 DEF Become, Counted
<1>2. dialog'.since = d.since
  BY DEF Become, Dialogs
<1>3. QED
  BY <1>1, <1>2 DEF Become, engineVars, Counted

\* Nothing the dialog does by itself changes its cursor.
LEMMA CursorStays ==
  ASSUME NEW d \in Dialogs
  PROVE  /\ StopWatch(d) \in Dialogs /\ StopWatch(d).since = d.since
         /\ Accept(d) \in Dialogs /\ Accept(d).since = d.since
         /\ \A b \in BOOLEAN : /\ [d EXCEPT !.inFlight = b] \in Dialogs
                               /\ [d EXCEPT !.inFlight = b].since = d.since
                               /\ [d EXCEPT !.busy = b] \in Dialogs
                               /\ [d EXCEPT !.busy = b].since = d.since
                               /\ [d EXCEPT !.cancelled = b] \in Dialogs
                               /\ [d EXCEPT !.cancelled = b].since = d.since
         /\ \A p \in {"idle", "starting", "recording", "stopping"} :
                /\ [d EXCEPT !.phase = p] \in Dialogs /\ [d EXCEPT !.phase = p].since = d.since
         /\ [d EXCEPT !.shown = "cancelled"] \in Dialogs
         /\ [d EXCEPT !.shown = "cancelled"].since = d.since
<1>1. StopWatch(d) \in Dialogs /\ StopWatch(d).since = d.since /\ Accept(d) \in Dialogs
  BY ZenonT(60), StopWatchType DEF StopWatch, Dialogs
<1>2. QED
  BY ZenonT(60), <1>1 DEF Accept, Dialogs

LEMMA DialogCounts ==
  ASSUME IInv, Counted, DialogStep
  PROVE  Counted'
<1>0. /\ dialog \in Dialogs /\ dialog.since \in Numbers /\ {disturbed, recording} \subseteq BOOLEAN
      /\ \A kind : Small(Plain(kind))
  BY ZeroIsSmall, NewJobSmall DEF IInv, TypeInv, Counted
<1>1. SUFFICES /\ disturbed' \in BOOLEAN
               /\ \E d \in Dialogs, done \in SUBSET jobs : \E S :
                      /\ d.since \in Numbers /\ (\A k \in S : Small(k)) /\ Become(d, done, S)
  BY BecomeCounts
<1>a. {} \in SUBSET jobs /\ \A j \in jobs : {j} \in SUBSET jobs
  OBVIOUS
<1>b. (\A k \in {} : Small(k)) /\ \A kind : \A k \in {Plain(kind)} : Small(k)
  BY <1>0
<1>2. CASE \E capture \in BOOLEAN : Open(capture)
  BY <1>0, <1>2, <1>a, <1>b, NewDialogType, NewPairCounts, ZeroIsSmall DEF Open
<1>3. CASE Record
  <2>1. Become([dialog EXCEPT !.phase = "starting"], {}, {Plain("record_start")})
        /\ disturbed' = disturbed
    BY <1>3 DEF Record
  <2>2. QED
    BY <1>0, <1>a, <1>b, <2>1, CursorStays
<1>4. CASE StopRecording
  <2>1. Become([StopWatch(dialog) EXCEPT !.phase = "stopping"], {}, {Plain("record_stop")})
        /\ disturbed' = disturbed
    BY <1>4 DEF StopRecording
  <2>2. QED
    BY <1>0, <1>a, <1>b, <2>1, CursorStays
<1>5. CASE Cancel
  <2> DEFINE d == [StopWatch(dialog) EXCEPT !.shown = "cancelled"]
  <2>1. \/ Become([d EXCEPT !.phase = "idle"], {}, {Plain("discard")})
        \/ Become([d EXCEPT !.cancelled = (d.phase = "starting")], {}, {})
    BY <1>5 DEF Cancel
  <2>2. d \in Dialogs /\ d.since = dialog.since
    BY <1>0, CursorStays
  <2>3. (d.phase = "starting") \in BOOLEAN /\ disturbed' = disturbed
    BY <1>5 DEF Cancel
  <2> HIDE DEF d
  <2>4. [d EXCEPT !.phase = "idle"] \in Dialogs
        /\ [d EXCEPT !.phase = "idle"].since \in Numbers
    BY <1>0, <2>2, CursorStays
  <2>5. [d EXCEPT !.cancelled = (d.phase = "starting")] \in Dialogs
        /\ [d EXCEPT !.cancelled = (d.phase = "starting")].since \in Numbers
    BY <1>0, <2>2, <2>3, CursorStays
  <2>6. CASE Become([d EXCEPT !.phase = "idle"], {}, {Plain("discard")})
    BY <1>0, <1>a, <1>b, <2>3, <2>4, <2>6
  <2>7. CASE Become([d EXCEPT !.cancelled = (d.phase = "starting")], {}, {})
    BY <1>0, <1>a, <1>b, <2>3, <2>5, <2>7
  <2>8. QED
    BY <2>1, <2>6, <2>7
<1>6. CASE PollCapture
  <2>1. Become([dialog EXCEPT !.inFlight = TRUE], {}, {Job("press", {}, dialog.since)})
        /\ disturbed' = disturbed
    BY <1>6 DEF PollCapture
  <2>2. \A k \in {Job("press", {}, dialog.since)} : Small(k)
    BY <1>0, NewJobSmall
  <2> DEFINE d == [dialog EXCEPT !.inFlight = TRUE]
             S == {Job("press", {}, dialog.since)}
  <2>3. d \in Dialogs /\ d.since \in Numbers
    BY <1>0, CursorStays
  <2> HIDE DEF d, S
  <2>4. Become(d, {}, S) /\ \A k \in S : Small(k)
    BY <2>1, <2>2 DEF d, S
  <2>5. QED
    BY <1>0, <1>a, <2>1, <2>3, <2>4
<1>7. ASSUME NEW j \in jobs, Callback(j)
      PROVE  /\ disturbed' \in BOOLEAN
             /\ \E d \in Dialogs : \E S :
                   d.since \in Numbers /\ (\A k \in S : Small(k)) /\ Become(d, {j}, S)
  <2>0. j.reply.upto \in Numbers /\ j.reply.upto \in Nat /\ disturbed' = disturbed
    BY <1>7 DEF Counted, Small, Callback, Numbers
  <2>1. SUFFICES \E d \in Dialogs : \E S \in {{}, {Plain("discard")}} :
                     d.since \in Numbers /\ Become(d, {j}, S)
    BY <1>0, <1>b, <2>0
  <2>2. CASE OnStarted(j)
    <3> DEFINE e == [dialog EXCEPT !.phase = "recording", !.watching = dialog.capture,
                       !.ops = IF dialog.capture THEN Append(@, "capture") ELSE @]
    <3>1. Append(dialog.ops, "capture") \in Seq(WatchOps) /\ dialog.ops \in Seq(WatchOps)
      BY <1>0, OpsAppended DEF WatchOps
    <3>2. e \in Dialogs /\ e.since = dialog.since
      BY <1>0, <3>1 DEF Dialogs
    <3>3. \/ Become([dialog EXCEPT !.phase = "idle"], {j}, {Plain("discard")})
          \/ Become(e, {j}, {})
      BY <2>2 DEF OnStarted
    <3> HIDE DEF e
    <3>4. QED
      BY <1>0, <3>2, <3>3, CursorStays
  <2>3. CASE \E usable \in BOOLEAN : OnStopped(j, usable)
    <3>1. Become(Accept(dialog), {j}, {}) \/ Become([dialog EXCEPT !.phase = "idle"], {j}, {})
      BY <2>3 DEF OnStopped
    <3>2. QED
      BY <1>0, <3>1, CursorStays
  <2>4. CASE OnFailed(j)
    <3>1. Become([StopWatch(dialog) EXCEPT !.phase = "idle"], {j}, {})
      BY <2>4 DEF OnFailed
    <3>2. QED
      BY <1>0, <3>1, CursorStays
  <2>5. CASE OnWatchOp(j)
    <3> DEFINE d == [dialog EXCEPT !.busy = FALSE]
               e == [d EXCEPT !.since = j.reply.upto, !.polling = TRUE]
    <3>1. d \in Dialogs /\ d.since = dialog.since
      BY <1>0, CursorStays
    <3>2. e \in Dialogs /\ e.since = j.reply.upto
      BY <2>0, <3>1 DEF Dialogs
    <3>3. Become(d, {j}, {}) \/ Become(e, {j}, {})
      BY <2>5 DEF OnWatchOp
    <3> HIDE DEF d, e
    <3>4. QED
      BY <1>0, <2>0, <3>1, <3>2, <3>3
  <2>6. CASE OnWatchOpFailed(j)
    <3> DEFINE d == [dialog EXCEPT !.busy = FALSE]
    <3>1. d \in Dialogs /\ d.since = dialog.since
      BY <1>0, CursorStays
    <3>2. Become(d, {j}, {}) \/ Become(StopWatch([d EXCEPT !.inFlight = FALSE]), {j}, {})
      BY <2>6 DEF OnWatchOpFailed
    <3> HIDE DEF d
    <3>3. QED
      BY <1>0, <3>1, <3>2, CursorStays
  <2>7. CASE OnPresses(j)
    <3> DEFINE d == [dialog EXCEPT !.inFlight = FALSE]
               e == [d EXCEPT !.since = j.reply.upto]
    <3>1. d \in Dialogs /\ d.since = dialog.since
      BY <1>0, CursorStays
    <3>2. e \in Dialogs /\ e.since = j.reply.upto
      BY <2>0, <3>1 DEF Dialogs
    <3>3. \/ Become(d, {j}, {}) \/ Become(e, {j}, {})
          \/ Become(Accept(StopWatch(e)), {j}, {Plain("discard")})
          \/ Become(Accept(StopWatch(e)), {j}, {})
      BY <2>7 DEF OnPresses
    <3> HIDE DEF d, e
    <3>4. QED
      BY <1>0, <2>0, <3>1, <3>2, <3>3, CursorStays
  <2>8. CASE OnPressesFailed(j)
    <3>1. Become(StopWatch([dialog EXCEPT !.inFlight = FALSE]), {j}, {})
      BY <2>8 DEF OnPressesFailed
    <3>2. QED
      BY <1>0, <3>1, CursorStays
  <2>9. CASE DiscardFailed(j)
    BY <1>0, <2>9 DEF DiscardFailed
  <2>10. QED
    BY <1>7, <2>2, <2>3, <2>4, <2>5, <2>6, <2>7, <2>8, <2>9 DEF Callback
<1>8. CASE \E j \in jobs : Callback(j)
  BY <1>7, <1>8, <1>a
<1>9. QED
  BY <1>2, <1>3, <1>4, <1>5, <1>6, <1>8 DEF DialogStep

\* Engine, poller, dialog and requests keep their types, and no cursor leaves the
\* numbers of the presses.
THEOREM TypeCorrect == Spec => []TypeOK
<1>1. ASSUME IInv, Counted, [Next]_vars PROVE Counted'
  <2>1. CASE UNCHANGED vars
    BY <1>1, <2>1 DEF vars, engineVars, guiVars, history, Counted, Small
  <2>2. QED
    BY <1>1, <2>1, EngineCounts, PollerCounts, DialogCounts DEF Next
<1>2. IInv /\ Counted => TypeOK
  <2>1. SUFFICES ASSUME IInv, Counted PROVE TypeOK
    OBVIOUS
  <2>2. boot \in Nat /\ names \in NameSets /\ poller \in Pollers /\ dialog \in Dialogs
        /\ jobs \subseteq Jobs
    BY <2>1 DEF IInv, TypeInv
  <2>3. {boot, lost} \subseteq 0 .. MaxFaults
    BY <2>1, <2>2, BoundsAssumption DEF Counted
  <2>4. poller \in [watching : {{}, Effects}, since : 0 .. MaxPresses,
                    inFlight : BOOLEAN, fresh : BOOLEAN, polling : BOOLEAN]
    BY <2>1, <2>2 DEF Counted, Numbers, Pollers
  <2>5. \A j \in jobs : j.kind \in Kinds /\ j.names \in NameSets /\ j.since \in 0 .. MaxPresses
    BY <2>1, <2>2 DEF Counted, Numbers, Small, Jobs
  <2>6. QED
    BY <2>1, <2>2, <2>3, <2>4, <2>5 DEF Counted, Numbers, Dialogs, TypeOK
<1>3. QED
  BY Invariance, InitCounts, <1>1, <1>2, PTL DEF Spec

-----------------------------------------------------------------------------
(* The engine's service. The GUI loses no engine of its own, however many it   *)
(* starts. The claim is not inductive alone: a pool thread may be about to     *)
(* clear _process for a child it saw end, and must not mean a newer one. The   *)
(* types of the clients together follow from those of their parts, each of     *)
(* which takes steps of its own specification only.                            *)

\* The waiter belongs to a start that is not answered, so no spawn comes
\* between its look at an ended child and the clearing of _process.
WaiterIsCurrent ==
  /\ waiter.at # "idle" => starting
  /\ waiter.at = "exited" => Exited(waiter.process) /\ process \in {0, waiter.process}

\* A failed request looks at the tracked child, unless a spawn overtook it.
CallerIsCurrent ==
  ~overtaken /\ caller.at = "polling" => process \in {0, caller.process}

ServiceInv ==
  /\ ServiceTypeOK
  /\ WaiterIsCurrent
  /\ CallerIsCurrent
  /\ LiveChildIsTracked

\* No state of a child counts as living and as ended.
LEMMA AliveOrExited ==
  ASSUME NEW c, Alive(c)
  PROVE  ~Exited(c) /\ child[c] # "none"
  BY DEF Alive, Exited, Exits

LEMMA ServiceStarts == ServiceInit => ServiceInv
<1>1. ASSUME ServiceInit PROVE ServiceTypeOK
  BY <1>1 DEF ServiceInit, ServiceTypeOK, Idle, States, Exits, Children
<1>2. ASSUME ServiceInit PROVE WaiterIsCurrent /\ CallerIsCurrent
  BY <1>2 DEF ServiceInit, WaiterIsCurrent, CallerIsCurrent, Idle
<1>3. ASSUME ServiceInit PROVE LiveChildIsTracked
  BY <1>3 DEF ServiceInit, LiveChildIsTracked, Alive
<1>4. QED
  BY <1>1, <1>2, <1>3 DEF ServiceInv

\* What a child does by itself starts none, and one that ended stays ended.
LEMMA ChildKeeps ==
  ASSUME ServiceInv, NEW c \in Children, Boots(c) \/ Ends(c) \/ ParentGone(c)
  PROVE  ServiceInv'
<1>1. /\ child' \in [Children -> {"none", "booting", "serving"} \cup Exits]
      /\ \A d \in Children : Alive(d)' => Alive(d)
      /\ \A d : Exited(d) /\ d \in Children => Exited(d)'
      /\ UNCHANGED <<other, process, state, adopted, stopping, starting, waiter,
                     caller, gui, overtaken>>
  BY DEF ServiceInv, ServiceTypeOK, Boots, Ends, ParentGone, Alive, Exited, Exits, Children
<1>2. ServiceTypeOK'
  BY <1>1 DEF ServiceInv, ServiceTypeOK
<1>3. waiter.at = "exited" => waiter.process \in Children
  BY DEF ServiceInv, ServiceTypeOK, WaiterIsCurrent, Exited
<1>4. WaiterIsCurrent'
  BY <1>1, <1>3 DEF ServiceInv, WaiterIsCurrent
<1>5. CallerIsCurrent' /\ LiveChildIsTracked'
  BY <1>1 DEF ServiceInv, CallerIsCurrent, LiveChildIsTracked
<1>6. QED
  BY <1>2, <1>4, <1>5 DEF ServiceInv

\* The next child is the only one that lives: the one before has ended.
LEMMA StartEngineKeeps ==
  ASSUME ServiceInv, StartEngine
  PROVE  ServiceInv'
<1>1. CASE OwnAlive
  <2>1. /\ waiter' = [at |-> "waiting", process |-> 0] /\ starting' = TRUE
        /\ UNCHANGED <<child, other, process, state, adopted, stopping, caller, gui, overtaken>>
    BY <1>1 DEF StartEngine, Spawn
  <2>2. QED
    BY <2>1 DEF ServiceInv, ServiceTypeOK, WaiterIsCurrent, CallerIsCurrent, LiveChildIsTracked, Alive
<1>2. CASE ~OwnAlive
  <2>1. PICK c \in Unborn : /\ child' = [child EXCEPT ![c] = "booting"]
                            /\ process' = c
    BY <1>2 DEF StartEngine, Spawn
  <2>2. c \in Children
    BY <2>1 DEF Unborn
  <2>3. /\ stopping' = FALSE /\ adopted' = FALSE /\ state' = "starting"
        /\ overtaken' = (overtaken \/ caller.at # "idle")
        /\ waiter' = [at |-> "waiting", process |-> 0] /\ starting' = TRUE
        /\ UNCHANGED <<other, caller, gui>>
    BY <1>2 DEF StartEngine, Spawn
  <2>4. ServiceTypeOK'
    BY <2>1, <2>2, <2>3 DEF ServiceInv, ServiceTypeOK, States
  <2>5. WaiterIsCurrent'
    BY <2>3 DEF WaiterIsCurrent
  <2>6. CallerIsCurrent'
    BY <2>3 DEF CallerIsCurrent
  <2>7. ASSUME ~overtaken', NEW d \in Children, Alive(d)'
        PROVE  process' = d
    <3>1. CASE d = c
      BY <3>1, <2>1
    <3>2. CASE d # c
      <4>1. Alive(d)
        BY <3>2, <2>1, <2>2, <2>7 DEF Alive, ServiceInv, ServiceTypeOK
      <4>2. process = d
        BY <4>1, <2>3, <2>7 DEF ServiceInv, LiveChildIsTracked
      <4>3. OwnAlive
        BY <4>1, <4>2 DEF OwnAlive, Children
      <4>4. QED
        BY <4>3, <1>2
    <3>3. QED
      BY <3>1, <3>2
  <2>8. QED
    BY <2>4, <2>5, <2>6, <2>7 DEF ServiceInv, LiveChildIsTracked
<1>3. QED
  BY <1>1, <1>2

\* _process is cleared only for a child that has ended.
LEMMA ClearKeeps ==
  ASSUME ServiceInv, process' = 0, UNCHANGED <<child, overtaken>>,
         ~overtaken => ~OwnAlive
  PROVE  LiveChildIsTracked'
<1>1. ASSUME ~overtaken, NEW c \in Children, Alive(c)
      PROVE  FALSE
  <2>1. process = c
    BY <1>1 DEF ServiceInv, LiveChildIsTracked
  <2>2. QED
    BY <1>1, <2>1 DEF OwnAlive, Children
<1>2. QED
  BY <1>1 DEF LiveChildIsTracked, Alive

LEMMA QuitKeeps ==
  ASSUME ServiceInv, Quit
  PROVE  ServiceInv'
<1>1. /\ child' = IF OwnAlive THEN [child EXCEPT ![process] = "ok"] ELSE child
      /\ process' = 0 /\ state' = "stopped" /\ gui' = FALSE
      /\ stopping' = TRUE /\ adopted' = FALSE
      /\ UNCHANGED <<other, starting, waiter, caller, overtaken>>
  BY DEF Quit
<1>2. OwnAlive => process \in Children
  BY DEF OwnAlive, ServiceInv, ServiceTypeOK
<1>3. ServiceTypeOK'
  <2>1. child' \in [Children -> {"none", "booting", "serving"} \cup Exits]
    BY <1>1, <1>2 DEF ServiceInv, ServiceTypeOK, Exits
  <2>2. QED
    BY <1>1, <2>1 DEF ServiceInv, ServiceTypeOK, States, Children
<1>4. WaiterIsCurrent'
  <2>1. ASSUME waiter.at = "exited" PROVE Exited(waiter.process)'
    <3>1. Exited(waiter.process) /\ waiter.process \in Children
      BY <2>1 DEF ServiceInv, ServiceTypeOK, WaiterIsCurrent, Exited
    <3>2. child'[waiter.process] \in Exits
      BY <3>1, <1>1, <1>2 DEF Exited, ServiceInv, ServiceTypeOK, Exits
    <3>3. QED
      BY <3>1, <3>2, <1>1 DEF Exited
  <2>2. QED
    BY <1>1, <2>1 DEF ServiceInv, WaiterIsCurrent
<1>5. CallerIsCurrent'
  BY <1>1 DEF ServiceInv, CallerIsCurrent
<1>6. ASSUME ~overtaken', NEW c \in Children, Alive(c)'
      PROVE  FALSE
  <2>1. Alive(c) /\ (OwnAlive => c # process)
    BY <1>1, <1>2, <1>6 DEF Alive, ServiceInv, ServiceTypeOK
  <2>2. process = c
    BY <2>1, <1>1, <1>6 DEF ServiceInv, LiveChildIsTracked
  <2>3. OwnAlive
    BY <2>1, <2>2 DEF OwnAlive, Children
  <2>4. QED
    BY <2>1, <2>2, <2>3
<1>7. QED
  BY <1>3, <1>4, <1>5, <1>6 DEF ServiceInv, LiveChildIsTracked

\* A timer that finds the child ended.
LEMMA PollEngineKeeps ==
  ASSUME ServiceInv, PollEngine
  PROVE  ServiceInv'
<1>1. /\ ~starting /\ Exited(process) /\ process' = 0 /\ state' = "crashed"
      /\ UNCHANGED <<child, other, adopted, stopping, starting, waiter, caller, gui, overtaken>>
  BY DEF PollEngine
<1>2. ~OwnAlive
  BY <1>1, AliveOrExited DEF OwnAlive
<1>3. LiveChildIsTracked'
  BY <1>1, <1>2, ClearKeeps
<1>4. ServiceTypeOK' /\ WaiterIsCurrent' /\ CallerIsCurrent'
  BY <1>1 DEF ServiceInv, ServiceTypeOK, States, WaiterIsCurrent, CallerIsCurrent
<1>5. QED
  BY <1>3, <1>4 DEF ServiceInv

\* The end of the wait: _on_exit clears the child it looked at.
LEMMA WaiterKeeps ==
  ASSUME ServiceInv, WaitReady \/ GiveUp \/ SetRunning \/ OnExit
  PROVE  ServiceInv'
<1>1. CASE WaitReady
  <2>1. /\ UNCHANGED <<child, other, process, adopted, stopping, caller, gui, overtaken>>
        /\ state' = state
    BY <1>1 DEF WaitReady, WaitEnds
  <2>2. \/ waiter' = Idle /\ starting' = FALSE
        \/ /\ Exited(process) /\ waiter' = [at |-> "exited", process |-> process]
           /\ starting' = starting /\ waiter.at = "waiting"
        \/ /\ waiter' = [at |-> "answered", process |-> process]
           /\ starting' = starting /\ waiter.at = "waiting"
    BY <1>1 DEF WaitReady, WaitEnds
  <2>3. ServiceTypeOK'
    <3>1. process \in Children \cup {0} /\ starting \in BOOLEAN
      BY DEF ServiceInv, ServiceTypeOK
    <3>2. starting' \in BOOLEAN
      BY <2>2, <3>1
    <3>3. waiter' \in [at : {"idle", "waiting", "exited", "answered"}, process : Children \cup {0}]
      BY <2>2, <3>1 DEF Idle
    <3>4. QED
      BY <2>1, <3>2, <3>3 DEF ServiceInv, ServiceTypeOK
  <2>4. WaiterIsCurrent'
    BY <2>1, <2>2 DEF ServiceInv, WaiterIsCurrent, Idle, Exited
  <2>5. QED
    BY <2>1, <2>3, <2>4 DEF ServiceInv, CallerIsCurrent, LiveChildIsTracked, Alive
<1>2. CASE GiveUp \/ SetRunning
  <2>1. /\ UNCHANGED <<child, other, process, adopted, stopping, caller, gui, overtaken>>
        /\ waiter' = Idle /\ starting' = FALSE /\ state' \in States
    BY <1>2 DEF GiveUp, SetRunning, WaitEnds, States
  <2>2. ServiceTypeOK'
    BY <2>1 DEF ServiceInv, ServiceTypeOK, Idle
  <2>3. WaiterIsCurrent' /\ CallerIsCurrent' /\ LiveChildIsTracked'
    BY <2>1 DEF ServiceInv, Idle, WaiterIsCurrent, CallerIsCurrent, LiveChildIsTracked, Alive
  <2>4. QED
    BY <2>2, <2>3 DEF ServiceInv
<1>3. CASE OnExit
  <2>1. /\ waiter.at = "exited" /\ process' = 0 /\ waiter' = Idle /\ starting' = FALSE
        /\ state' \in States /\ adopted' \in BOOLEAN
        /\ UNCHANGED <<child, other, stopping, caller, gui, overtaken>>
    BY <1>3 DEF OnExit, WaitEnds, States, ServiceInv, ServiceTypeOK
  <2>2. ~OwnAlive
    BY <2>1, AliveOrExited DEF ServiceInv, WaiterIsCurrent, OwnAlive
  <2>3. LiveChildIsTracked'
    BY <2>1, <2>2, ClearKeeps
  <2>4. ServiceTypeOK' /\ WaiterIsCurrent' /\ CallerIsCurrent'
    BY <2>1 DEF ServiceInv, ServiceTypeOK, Idle, WaiterIsCurrent, CallerIsCurrent
  <2>5. QED
    BY <2>3, <2>4 DEF ServiceInv
<1>4. QED
  BY <1>1, <1>2, <1>3

\* A failed request clears the child it looked at, if that one has ended.
LEMMA CallerKeeps ==
  ASSUME ServiceInv, RequestFails \/ NoteFailure
  PROVE  ServiceInv'
<1>1. CASE RequestFails
  <2>1. /\ UNCHANGED <<child, other, process, adopted, stopping, starting, waiter, gui, overtaken>>
        /\ state' \in States
        /\ \/ caller' = caller
           \/ caller' = [at |-> "polling", process |-> process]
    BY <1>1 DEF RequestFails, ServiceInv, ServiceTypeOK, States
  <2>2. QED
    BY <2>1 DEF ServiceInv, ServiceTypeOK, WaiterIsCurrent, CallerIsCurrent, LiveChildIsTracked, Alive, Exited
<1>2. CASE NoteFailure /\ ~Exited(caller.process)
  <2>1. /\ UNCHANGED <<child, other, process, adopted, stopping, starting, waiter, gui, overtaken>>
        /\ state' \in States /\ caller' = Idle
    BY <1>2 DEF NoteFailure, ServiceInv, ServiceTypeOK, States
  <2>2. QED
    BY <2>1 DEF ServiceInv, ServiceTypeOK, Idle, WaiterIsCurrent, CallerIsCurrent, LiveChildIsTracked, Alive, Exited
<1>3. CASE NoteFailure /\ Exited(caller.process)
  <2>1. /\ UNCHANGED <<child, other, adopted, stopping, starting, waiter, gui, overtaken>>
        /\ caller.at = "polling" /\ caller' = Idle /\ process' = 0 /\ state' = "crashed"
    BY <1>3 DEF NoteFailure
  <2>2. ~overtaken => ~OwnAlive
    BY <2>1, <1>3, AliveOrExited DEF ServiceInv, CallerIsCurrent, OwnAlive
  <2>3. LiveChildIsTracked'
    BY <2>1, <2>2, ClearKeeps
  <2>4. ServiceTypeOK' /\ WaiterIsCurrent' /\ CallerIsCurrent'
    BY <2>1 DEF ServiceInv, ServiceTypeOK, Idle, States, WaiterIsCurrent, CallerIsCurrent, Exited
  <2>5. QED
    BY <2>3, <2>4 DEF ServiceInv
<1>4. QED
  BY <1>1, <1>2, <1>3

LEMMA OthersKeep ==
  ASSUME ServiceInv, OtherEngine \/ SpawnFails \/ UNCHANGED serviceVars
  PROVE  ServiceInv'
<1>1. /\ UNCHANGED <<child, process, starting, waiter, caller, gui, overtaken>>
      /\ state' \in States /\ other' \in BOOLEAN /\ stopping' \in BOOLEAN /\ adopted' \in BOOLEAN
  BY DEF OtherEngine, SpawnFails, serviceVars, States, ServiceInv, ServiceTypeOK
<1>2. QED
  BY <1>1 DEF ServiceInv, ServiceTypeOK, WaiterIsCurrent, CallerIsCurrent, LiveChildIsTracked, Alive, Exited

\* The inductive invariant holds in every reachable state.
THEOREM ServiceInvariance == ServiceSpec => []ServiceInv
<1>1. ASSUME ServiceInv, [ServiceNext]_serviceVars
      PROVE  ServiceInv'
  BY <1>1, ChildKeeps, StartEngineKeeps, QuitKeeps, PollEngineKeeps, WaiterKeeps, CallerKeeps, OthersKeep
     DEF ServiceNext
<1>2. QED
  BY ServiceStarts, <1>1, PTL DEF ServiceSpec

\* The service's attributes and its threads' locals keep their types.
THEOREM ServiceTypes == ServiceSpec => []ServiceTypeOK
<1>1. ServiceInv => ServiceTypeOK
  BY DEF ServiceInv
<1>2. QED
  BY ServiceInvariance, <1>1, PTL

\* A child that lives is the one that stop() would terminate, for any number
\* of children (_process of MacroEngineService).
THEOREM ChildrenTracked == ServiceSpec => []LiveChildIsTracked
<1>1. ServiceInv => LiveChildIsTracked
  BY DEF ServiceInv
<1>2. QED
  BY ServiceInvariance, <1>1, PTL

-----------------------------------------------------------------------------
\* A behaviour of the clients is one of each part, in which the part may idle.
LEMMA ClientsStart == ClientsInit => Init /\ ServiceInit
  BY DEF ClientsInit

LEMMA ClientsStep ==
  [ClientsNext]_allVars => [Next]_vars /\ [ServiceNext]_serviceVars
<1> SUFFICES ASSUME [ClientsNext]_allVars PROVE [Next]_vars /\ [ServiceNext]_serviceVars
  OBVIOUS
<1>1. CASE UNCHANGED allVars
  BY <1>1 DEF allVars
<1>2. CASE Together /\ UNCHANGED serviceVars
  <2>1. EngineStep \/ PollerStep \/ DialogStep
    BY <1>2 DEF Together, EngineStep, PollerStep, Answer
  <2>2. QED
    BY <1>2, <2>1 DEF Next
<1>3. CASE (EngineStep \/ PollerStep \/ DialogStep) /\ UNCHANGED serviceVars
  BY <1>3 DEF Next
<1>4. CASE ServiceNext /\ UNCHANGED vars
  BY <1>4
<1>5. QED
  BY <1>1, <1>2, <1>3, <1>4 DEF ClientsNext

\* The clients of the engine keep their types, whichever of them are at work.
THEOREM ClientsTypes == ClientsSpec => []ClientsTypeOK
<1>1. ClientsSpec => Spec /\ ServiceSpec
  BY ClientsStart, ClientsStep, PTL DEF ClientsSpec, Spec, ServiceSpec
<1>2. TypeOK /\ ServiceTypeOK => ClientsTypeOK
  BY DEF ClientsTypeOK
<1>3. QED
  BY TypeCorrect, ServiceTypes, <1>1, <1>2, PTL
=============================================================================
