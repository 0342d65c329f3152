--------------------------- MODULE MacroPlayerProofs ---------------------------
(***************************************************************************)
(* Proofs about MacroPlayer for every set of triggers, macros and threads: *)
(* one macro at a time, no key stuck, no stop lost or misdirected, and the *)
(* implementation of MacroPlayback.                                        *)
(***************************************************************************)
EXTENDS MacroPlayer, TLAPS

-----------------------------------------------------------------------------
(* The inductive invariant *)

\* The player is the loop thread's own from Claim to Spawn.
Claimed ==
  loop \in {"clear", "spawn"} => playing /\ current = key /\ Live = {}

\* A player that is taken otherwise is so by a live worker.
TakenByWorker == playing /\ loop \notin {"clear", "spawn"} => Live # {}

\* stop() joins the thread that plays.
ThreadIsTrue == \A t \in Live : thread = t

\* Every key down is one the live worker still means to release.
DownIsPressed == \A c \in down : \E t \in Live : c \in run[t].pressed

\* A new run starts uncancelled.
SpawnsUncancelled == loop = "spawn" => ~cancel

\* The loop thread handles a trigger until it is back at its select().
KeyIsTrigger ==
  loop \in {"is playing", "is current", "play", "clear", "spawn", "stop"} => key \in Triggers

\* The macro a re-press stops is the trigger's own or has ended.
StopsOwn == loop = "stop" => current \in {key, NoTrigger}

\* Where a worker is in its macro.
WorkerIsAt(t) ==
  /\ run[t].key \in Triggers
  /\ worker[t] \in {"step", "perform", "up"} => run[t].left > 0 /\ run[t].at > 0
  /\ worker[t] \in {"perform", "up"} => run[t].at <= Len(MacroSteps(t))
  /\ worker[t] = "up" => MacroSteps(t)[run[t].at].kind = "tap"

IInv ==
  /\ TypeOK
  /\ OneWorker
  /\ CurrentIsTrue
  /\ Claimed
  /\ TakenByWorker
  /\ ThreadIsTrue
  /\ DownIsPressed
  /\ SpawnsUncancelled
  /\ KeyIsTrigger
  /\ StopsOwn
  /\ \A t \in Live : WorkerIsAt(t)

-----------------------------------------------------------------------------
(* What the steps of a macro are *)

\* A worker that performs a step performs one of its macro.
LEMMA StepPerformed ==
  ASSUME TypeOK, NEW t \in Threads, WorkerIsAt(t), worker[t] \in {"perform", "up"}
  PROVE  MacroSteps(t)[run[t].at] \in Step
<1>1. Macro[run[t].key].steps \in Seq(Step)
  BY MacroAssumption DEF WorkerIsAt
<1>2. run[t].at \in 1..Len(MacroSteps(t))
  BY <1>1 DEF WorkerIsAt, TypeOK, Runs, MacroSteps
<1> QED  BY <1>1, <1>2 DEF MacroSteps

\* A step that presses or releases a key names one.
LEMMA StepNamesKey ==
  ASSUME NEW s \in Step, s.kind \in {"press", "release", "tap"}
  PROVE  s.code \in Codes
BY DEF Step

\* Performing a step leaves a set of keys.
LEMMA HeldIsKeys ==
  ASSUME NEW s \in Step, NEW p \in SUBSET Codes
  PROVE  Held(p, s) \in SUBSET Codes
BY StepNamesKey DEF Held, KeyDowns

\* The keys a step leaves down are those it found down or presses, in any set.
LEMMA HeldIsMonotone ==
  ASSUME NEW s, NEW p, NEW q, p \subseteq q
  PROVE  Held(p, s) \subseteq Held(q, s)
BY DEF Held

\* A live worker is the only one.
LEMMA LiveIsOne ==
  ASSUME OneWorker, NEW t \in Live
  PROVE  Live = {t}
BY DEF OneWorker

\* Which workers live is told by where they are.
LEMMA SameLive == UNCHANGED worker => Live' = Live
BY DEF Live

\* A step of the loop thread that is not Spawn leaves the workers.
LEMMA WorkersUndisturbed ==
  ASSUME IInv, UNCHANGED <<worker, run, thread>>
  PROVE  /\ Live' = Live
         /\ OneWorker'
         /\ ThreadIsTrue'
         /\ \A t \in Live' : WorkerIsAt(t)'
         /\ UNCHANGED down => DownIsPressed'
<1>1. Live' = Live
  BY DEF Live
<1>2. \A t \in Live : WorkerIsAt(t)'
  BY DEF IInv, WorkerIsAt, MacroSteps
<1> QED
  BY <1>1, <1>2 DEF IInv, OneWorker, ThreadIsTrue, DownIsPressed

\* A worker that goes on stays live, one that is done does not.
LEMMA LiveAfter ==
  ASSUME TypeOK, NEW t \in Threads, NEW place \in WorkerPlaces, GoTo(t, place)
  PROVE  /\ Live' = IF place = "none" THEN Live \ {t} ELSE Live \cup {t}
         /\ worker'[t] = place
         /\ \A u \in Threads \ {t} : worker'[u] = worker[u]
         /\ worker' \in [Threads -> WorkerPlaces]
BY DEF TypeOK, GoTo, Live

-----------------------------------------------------------------------------
(* The invariant is inductive *)

LEMMA InitIInv == Init => IInv
<1> SUFFICES ASSUME Init PROVE IInv
  OBVIOUS
<1>1. Live = {}
  BY DEF Init, Live
<1>2. TypeOK
  BY DEF Init, TypeOK, LoopPlaces, WorkerPlaces, Runs
<1> QED
  BY <1>1, <1>2 DEF Init, IInv, OneWorker, CurrentIsTrue, Claimed, TakenByWorker,
     ThreadIsTrue, DownIsPressed, SpawnsUncancelled, KeyIsTrigger, StopsOwn

\* The loop thread's steps.
LEMMA LoopInductive == IInv /\ LoopStep => IInv'
<1> SUFFICES ASSUME IInv, LoopStep PROVE IInv'
  OBVIOUS
<1> USE DEF IInv
<1>1. ASSUME NEW k \in Triggers, PressTrigger(k) PROVE IInv'
  <2>1. UNCHANGED <<worker, run, thread, down>>
    BY <1>1 DEF PressTrigger, playerVars, workerVars
  <2>2. TypeOK'
    BY <1>1 DEF PressTrigger, playerVars, workerVars, TypeOK, LoopPlaces
  <2> QED
    BY <1>1, <2>1, <2>2, WorkersUndisturbed DEF PressTrigger, playerVars, CurrentIsTrue,
       Claimed, TakenByWorker, SpawnsUncancelled, KeyIsTrigger, StopsOwn
<1>2. CASE ReadPlaying
  <2>1. UNCHANGED <<worker, run, thread, down>>
    BY <1>2 DEF ReadPlaying, playerVars, workerVars
  <2>2. TypeOK'
    BY <1>2 DEF ReadPlaying, playerVars, workerVars, TypeOK, LoopPlaces
  <2> QED
    BY <1>2, <2>1, <2>2, WorkersUndisturbed DEF ReadPlaying, playerVars, CurrentIsTrue,
       Claimed, TakenByWorker, SpawnsUncancelled, KeyIsTrigger, StopsOwn
<1>3. CASE ReadCurrent
  <2>1. UNCHANGED <<worker, run, thread, down>>
    BY <1>3 DEF ReadCurrent, Stoppable, playerVars, workerVars
  <2>2. TypeOK'
    BY <1>3 DEF ReadCurrent, Stoppable, playerVars, workerVars, TypeOK, LoopPlaces
  <2> QED
    BY <1>3, <2>1, <2>2, WorkersUndisturbed DEF ReadCurrent, Stoppable, playerVars, CurrentIsTrue,
       Claimed, TakenByWorker, SpawnsUncancelled, KeyIsTrigger, StopsOwn
<1>4. CASE Claim
  <2>1. UNCHANGED <<worker, run, thread, down>>
    BY <1>4 DEF Claim, playerVars, workerVars
  <2>2. TypeOK'
    BY <1>4 DEF Claim, playerVars, workerVars, TypeOK, LoopPlaces, KeyIsTrigger
  <2> QED
    BY <1>4, <2>1, <2>2, WorkersUndisturbed DEF Claim, playerVars, CurrentIsTrue,
       Claimed, TakenByWorker, SpawnsUncancelled, KeyIsTrigger, StopsOwn
<1>5. CASE ClearCancel
  <2>1. UNCHANGED <<worker, run, thread, down>>
    BY <1>5 DEF ClearCancel, playerVars, workerVars
  <2>2. TypeOK'
    BY <1>5 DEF ClearCancel, playerVars, workerVars, TypeOK, LoopPlaces
  <2> QED
    BY <1>5, <2>1, <2>2, WorkersUndisturbed DEF ClearCancel, playerVars, CurrentIsTrue,
       Claimed, TakenByWorker, SpawnsUncancelled, KeyIsTrigger, StopsOwn
<1>6. ASSUME NEW t \in Threads, Spawn(t) PROVE IInv'
  <2>1. key \in Triggers /\ Live = {} /\ playing /\ current = key
    BY <1>6 DEF Spawn, KeyIsTrigger, Claimed
  <2>2. Live' = {t} /\ worker' \in [Threads -> WorkerPlaces] /\ worker'[t] = "round"
    BY <1>6, <2>1, LiveAfter DEF Spawn, WorkerPlaces
  <2>3. Run(key) \in Runs /\ Run(key).key = key
    BY <2>1, MacroAssumption DEF Run, Runs
  <2>4. run' \in [Threads -> Runs] /\ run'[t].key = key
    BY <1>6, <2>3 DEF Spawn, TypeOK
  <2>5. TypeOK'
    BY <1>6, <2>2, <2>4 DEF Spawn, TypeOK, LoopPlaces
  <2>6. WorkerIsAt(t)'
    BY <2>1, <2>2, <2>4 DEF WorkerIsAt
  <2> QED
    BY <1>6, <2>1, <2>2, <2>4, <2>5, <2>6 DEF Spawn, OneWorker, CurrentIsTrue, Claimed,
       TakenByWorker, ThreadIsTrue, DownIsPressed, SpawnsUncancelled, KeyIsTrigger, StopsOwn
<1>7. CASE BeginShutdown
  <2>1. UNCHANGED <<worker, run, thread, down>>
    BY <1>7 DEF BeginShutdown, playerVars, workerVars
  <2>2. TypeOK'
    BY <1>7 DEF BeginShutdown, playerVars, workerVars, TypeOK, LoopPlaces
  <2> QED
    BY <1>7, <2>1, <2>2, WorkersUndisturbed DEF BeginShutdown, playerVars, CurrentIsTrue,
       Claimed, TakenByWorker, SpawnsUncancelled, KeyIsTrigger, StopsOwn
<1>8. CASE SetCancel
  <2>1. UNCHANGED <<worker, run, thread, down>>
    BY <1>8 DEF SetCancel, playerVars, workerVars
  <2>2. TypeOK'
    BY <1>8 DEF SetCancel, playerVars, workerVars, TypeOK, LoopPlaces
  <2> QED
    BY <1>8, <2>1, <2>2, WorkersUndisturbed DEF SetCancel, playerVars, CurrentIsTrue,
       Claimed, TakenByWorker, SpawnsUncancelled, KeyIsTrigger, StopsOwn
<1>9. CASE Join \/ JoinTimesOut
  <2>1. UNCHANGED <<worker, run, thread, down>>
    BY <1>9 DEF Join, JoinTimesOut, AfterJoin, playerVars, workerVars
  <2>2. TypeOK'
    BY <1>9 DEF Join, JoinTimesOut, AfterJoin, playerVars, workerVars, TypeOK, LoopPlaces
  <2>3. loop \in {"join", "last join"} /\ loop' \in {"idle", "close"} /\ UNCHANGED playerVars
    BY <1>9 DEF Join, JoinTimesOut, AfterJoin
  <2> QED
    BY <2>1, <2>2, <2>3, WorkersUndisturbed DEF playerVars, CurrentIsTrue, Claimed,
       TakenByWorker, SpawnsUncancelled, KeyIsTrigger, StopsOwn
<1>10. CASE CloseOutput
  <2>1. UNCHANGED <<worker, run, thread>>
    BY <1>10 DEF CloseOutput, playerVars, workerVars
  <2>2. TypeOK'
    BY <1>10 DEF CloseOutput, playerVars, workerVars, TypeOK, LoopPlaces
  <2>3. DownIsPressed'
    BY <1>10 DEF CloseOutput, DownIsPressed
  <2> QED
    BY <1>10, <2>1, <2>2, <2>3, WorkersUndisturbed DEF CloseOutput, playerVars, CurrentIsTrue,
       Claimed, TakenByWorker, SpawnsUncancelled, KeyIsTrigger, StopsOwn
<1> QED
  BY <1>1, <1>2, <1>3, <1>4, <1>5, <1>6, <1>7, <1>8, <1>9, <1>10 DEF LoopStep

\* A worker that goes on in its macro, with what it must keep of it.
LEMMA WorkerGoesOn ==
  ASSUME IInv, NEW t \in Live, NEW place \in WorkerPlaces \ {"none"}, GoTo(t, place),
         NEW STATE r, r \in Runs, run' = [run EXCEPT ![t] = r], r.key = run[t].key,
         UNCHANGED <<loopVars, playerVars, outOpen>>,
         down' \subseteq Codes, down' \subseteq r.pressed, WorkerIsAt(t)'
  PROVE  IInv'
<1> USE DEF IInv
<1>1. t \in Threads /\ Live = {t} /\ Live' = {t} /\ worker' \in [Threads -> WorkerPlaces]
  BY LiveIsOne, LiveAfter DEF Live
<1>2. run' \in [Threads -> Runs] /\ run'[t] = r
  BY <1>1 DEF TypeOK
<1>3. TypeOK'
  BY <1>1, <1>2 DEF TypeOK, loopVars, playerVars
<1> QED
  BY <1>1, <1>2, <1>3 DEF loopVars, playerVars, OneWorker, CurrentIsTrue, Claimed,
     TakenByWorker, ThreadIsTrue, DownIsPressed, SpawnsUncancelled, KeyIsTrigger, StopsOwn

\* Every key down is one of the only live worker.
LEMMA DownIsWorkers ==
  ASSUME IInv, NEW t \in Live
  PROVE  down \subseteq run[t].pressed
BY LiveIsOne DEF IInv, DownIsPressed

\* The workers' steps.
LEMMA WorkerInductive ==
  ASSUME IInv, NEW t \in Threads, WorkerStep(t)
  PROVE  IInv'
<1>0. t \in Live /\ TypeOK /\ WorkerIsAt(t) /\ down \subseteq run[t].pressed
  <2>1. t \in Live
    BY DEF WorkerStep, NextRound, NextStep, Perform, TapUp, ReleaseKey, Finish, Live
  <2> QED  BY <2>1, DownIsWorkers DEF IInv
<1>01. run[t] \in Runs /\ DOMAIN run = Threads /\ run[t].pressed \subseteq Codes
       /\ down \subseteq Codes
  BY <1>0 DEF TypeOK, Runs
<1>1. CASE NextRound(t)
  <2>1. CASE RoundsOver(t)
    <3>1. GoTo(t, "release") /\ UNCHANGED <<run, loopVars, playerVars, outOpen, down>>
      BY <1>1, <2>1 DEF NextRound
    <3>2. worker'[t] = "release" /\ run' = [run EXCEPT ![t] = run[t]]
      BY <1>0, <1>01, <3>1, LiveAfter DEF WorkerPlaces, TypeOK
    <3>3. WorkerIsAt(t)'
      BY <1>0, <3>1, <3>2 DEF WorkerIsAt
    <3> QED  BY <1>0, <1>01, <3>1, <3>2, <3>3, WorkerGoesOn DEF WorkerPlaces
  <2>2. CASE ~RoundsOver(t)
    <3> DEFINE r == [run[t] EXCEPT !.at = 1]
    <3>1. GoTo(t, "step") /\ run' = [run EXCEPT ![t] = r]
          /\ UNCHANGED <<loopVars, playerVars, outOpen, down>>
      BY <1>1, <2>2 DEF NextRound
    <3>2. r \in Runs /\ r.key = run[t].key /\ r.pressed = run[t].pressed
          /\ r.at = 1 /\ r.left > 0
      BY <1>01, <2>2 DEF Runs, RoundsOver
    <3>3. worker'[t] = "step" /\ run'[t] = r
      BY <1>0, <1>01, <3>1, LiveAfter DEF WorkerPlaces
    <3>4. WorkerIsAt(t)'
      BY <1>0, <3>2, <3>3 DEF WorkerIsAt
    <3> HIDE DEF r
    <3> QED  BY <1>0, <1>01, <3>1, <3>2, <3>4, WorkerGoesOn DEF WorkerPlaces
  <2> QED  BY <2>1, <2>2
<1>2. CASE NextStep(t)
  <2>1. CASE RoundEnds(t)
    <3> DEFINE r == [run[t] EXCEPT !.left = IF run[t].endless THEN @ ELSE @ - 1]
    <3>1. GoTo(t, "round") /\ run' = [run EXCEPT ![t] = r]
          /\ UNCHANGED <<loopVars, playerVars, outOpen, down>>
      BY <1>2, <2>1 DEF NextStep
    <3>2. r \in Runs /\ r.key = run[t].key /\ r.pressed = run[t].pressed
      BY <1>0, <1>01, <1>2 DEF Runs, NextStep, WorkerIsAt
    <3>3. worker'[t] = "round" /\ run'[t] = r
      BY <1>0, <1>01, <3>1, LiveAfter DEF WorkerPlaces
    <3>4. WorkerIsAt(t)'
      BY <1>0, <3>2, <3>3 DEF WorkerIsAt
    <3> HIDE DEF r
    <3> QED  BY <1>0, <1>01, <3>1, <3>2, <3>4, WorkerGoesOn DEF WorkerPlaces
  <2>2. CASE ~RoundEnds(t)
    <3>1. GoTo(t, "perform") /\ UNCHANGED <<run, loopVars, playerVars, outOpen, down>>
      BY <1>2, <2>2 DEF NextStep
    <3>2. worker'[t] = "perform" /\ run' = [run EXCEPT ![t] = run[t]]
      BY <1>0, <1>01, <3>1, LiveAfter DEF WorkerPlaces, TypeOK
    <3>3. run[t].at <= Len(MacroSteps(t)) /\ MacroSteps(t)' = MacroSteps(t)
      <4>1. Macro[run[t].key].steps \in Seq(Step)
        BY <1>0, MacroAssumption DEF WorkerIsAt
      <4> QED  BY <1>01, <2>2, <3>1, <4>1 DEF RoundEnds, MacroSteps, Runs
    <3>4. WorkerIsAt(t)'
      BY <1>0, <1>2, <3>1, <3>2, <3>3 DEF WorkerIsAt, NextStep
    <3> QED  BY <1>0, <1>01, <3>1, <3>2, <3>4, WorkerGoesOn DEF WorkerPlaces
  <2> QED  BY <2>1, <2>2
<1>3. CASE Perform(t)
  <2> DEFINE s == MacroSteps(t)[run[t].at]
  <2>1. s \in Step
    BY <1>0, <1>3, StepPerformed DEF Perform
  <2>2. CASE ~(outOpen \/ s.kind \in Unwritten)
    <3>1. GoTo(t, "release") /\ UNCHANGED <<run, loopVars, playerVars, outOpen, down>>
      BY <1>3, <2>2 DEF Perform
    <3>2. worker'[t] = "release" /\ run' = [run EXCEPT ![t] = run[t]]
      BY <1>0, <1>01, <3>1, LiveAfter DEF WorkerPlaces, TypeOK
    <3>3. WorkerIsAt(t)'
      BY <1>0, <3>1, <3>2 DEF WorkerIsAt
    <3> QED  BY <1>0, <1>01, <3>1, <3>2, <3>3, WorkerGoesOn DEF WorkerPlaces
  <2>3. CASE outOpen \/ s.kind \in Unwritten
    <3> DEFINE place == IF s.kind = "tap" THEN "up" ELSE "step"
               r == [run[t] EXCEPT !.pressed = Held(@, s),
                                   !.at = IF s.kind = "tap" THEN @ ELSE @ + 1]
    <3>1. GoTo(t, place) /\ run' = [run EXCEPT ![t] = r] /\ down' = Held(down, s)
          /\ UNCHANGED <<loopVars, playerVars, outOpen>>
      BY <1>3, <2>3 DEF Perform
    <3>2. r.key = run[t].key /\ r.pressed = Held(run[t].pressed, s) /\ r.left = run[t].left
          /\ r.at = IF s.kind = "tap" THEN run[t].at ELSE run[t].at + 1
      BY <1>01 DEF Runs
    <3>3. Held(run[t].pressed, s) \subseteq Codes /\ Held(down, s) \subseteq Codes
          /\ Held(down, s) \subseteq Held(run[t].pressed, s)
      BY <1>0, <1>01, <2>1, HeldIsKeys, HeldIsMonotone
    <3>4. r \in Runs
      <4> DEFINE p == Held(run[t].pressed, s)
                 n == IF s.kind = "tap" THEN run[t].at ELSE run[t].at + 1
      <4>1. p \in SUBSET Codes /\ n \in Nat
        BY <1>01, <3>3 DEF Runs
      <4> HIDE DEF p, n
      <4>2. [run[t] EXCEPT !.pressed = p, !.at = n] \in Runs
        BY <1>01, <4>1 DEF Runs
      <4> QED  BY <4>2 DEF p, n
    <3>5. worker'[t] = place /\ run'[t] = r /\ place \in WorkerPlaces \ {"none"}
      BY <1>0, <1>01, <3>1, LiveAfter DEF WorkerPlaces
    <3>6. run[t].at \in Nat /\ run[t].at > 0 /\ run[t].at <= Len(MacroSteps(t)) /\ run[t].left > 0
      BY <1>0, <1>01, <1>3 DEF Perform, WorkerIsAt, Runs
    <3> HIDE DEF r
    <3>7. ASSUME s.kind = "tap" PROVE WorkerIsAt(t)'
      <4>1. MacroSteps(t)' = MacroSteps(t) /\ place = "up" /\ r.at = run[t].at
        BY <3>2, <3>5, <3>7 DEF MacroSteps
      <4> QED
        BY <1>0, <3>2, <3>5, <3>6, <3>7, <4>1 DEF WorkerIsAt
    <3>8. ASSUME s.kind # "tap" PROVE WorkerIsAt(t)'
      BY <1>0, <3>2, <3>5, <3>6, <3>8 DEF WorkerIsAt
    <3>9. WorkerIsAt(t)' => IInv'
      <4> HIDE DEF place, s
      <4> QED  BY <1>0, <3>1, <3>2, <3>3, <3>4, <3>5, WorkerGoesOn
    <3> QED  BY <3>7, <3>8, <3>9
  <2> QED  BY <2>2, <2>3
<1>4. CASE TapUp(t)
  <2> DEFINE c == MacroSteps(t)[run[t].at].code
  <2>1. CASE ~outOpen
    <3>1. GoTo(t, "release") /\ UNCHANGED <<run, loopVars, playerVars, outOpen>>
          /\ down' = down \ {c}
      BY <1>4, <2>1 DEF TapUp
    <3>2. worker'[t] = "release" /\ run' = [run EXCEPT ![t] = run[t]]
      BY <1>0, <1>01, <3>1, LiveAfter DEF WorkerPlaces, TypeOK
    <3>3. WorkerIsAt(t)'
      BY <1>0, <3>1, <3>2 DEF WorkerIsAt
    <3> HIDE DEF c
    <3> QED  BY <1>0, <1>01, <3>1, <3>2, <3>3, WorkerGoesOn DEF WorkerPlaces
  <2>2. CASE outOpen
    <3> DEFINE r == [run[t] EXCEPT !.pressed = @ \ {c}, !.at = @ + 1]
    <3>1. GoTo(t, "step") /\ run' = [run EXCEPT ![t] = r] /\ down' = down \ {c}
          /\ UNCHANGED <<loopVars, playerVars, outOpen>>
      BY <1>4, <2>2 DEF TapUp
    <3>2. r \in Runs /\ r.key = run[t].key /\ r.pressed = run[t].pressed \ {c}
          /\ r.left = run[t].left /\ r.at = run[t].at + 1
      <4> DEFINE p == run[t].pressed \ {c}
                 n == run[t].at + 1
      <4>1. p \in SUBSET Codes /\ n \in Nat
        BY <1>01 DEF Runs
      <4>2. r = [run[t] EXCEPT !.pressed = p, !.at = n]
        OBVIOUS
      <4> HIDE DEF p, n, r
      <4>3. r \in Runs /\ r.key = run[t].key /\ r.pressed = p /\ r.left = run[t].left /\ r.at = n
        BY <1>01, <4>1, <4>2 DEF Runs
      <4> QED  BY <4>3 DEF p, n
    <3>3. worker'[t] = "step" /\ run'[t] = r
      BY <1>0, <1>01, <3>1, LiveAfter DEF WorkerPlaces
    <3>4. WorkerIsAt(t)'
      BY <1>0, <1>01, <1>4, <3>2, <3>3 DEF WorkerIsAt, TapUp, Runs
    <3> HIDE DEF r, c
    <3> QED  BY <1>0, <1>01, <3>1, <3>2, <3>4, WorkerGoesOn DEF WorkerPlaces
  <2> QED  BY <2>1, <2>2
<1>5. ASSUME NEW c \in Codes, ReleaseKey(t, c) PROVE IInv'
  <2> DEFINE r == [run[t] EXCEPT !.pressed = @ \ {c}]
  <2>1. GoTo(t, "release") /\ run' = [run EXCEPT ![t] = r] /\ down' = down \ {c}
        /\ UNCHANGED <<loopVars, playerVars, outOpen>>
    BY <1>0, <1>5 DEF ReleaseKey, GoTo, TypeOK
  <2>2. r \in Runs /\ r.key = run[t].key /\ r.pressed = run[t].pressed \ {c}
    BY <1>01 DEF Runs
  <2>3. worker'[t] = "release" /\ run'[t] = r
    BY <1>0, <1>01, <2>1, LiveAfter DEF WorkerPlaces
  <2>4. WorkerIsAt(t)'
    BY <1>0, <2>2, <2>3 DEF WorkerIsAt
  <2> HIDE DEF r
  <2> QED  BY <1>0, <1>01, <2>1, <2>2, <2>4, WorkerGoesOn DEF WorkerPlaces
<1>6. CASE Finish(t)
  <2>1. Live = {t} /\ loop \notin {"clear", "spawn"}
    BY <1>0, LiveIsOne DEF IInv, Claimed
  <2>2. Live' = {} /\ worker' \in [Threads -> WorkerPlaces]
    BY <1>0, <1>6, <2>1, LiveAfter DEF Finish, WorkerPlaces
  <2>3. down = {}
    BY <1>0, <1>6 DEF Finish
  <2>4. TypeOK'
    BY <1>0, <1>6, <2>2 DEF TypeOK, Finish, loopVars
  <2> QED
    BY <1>6, <2>1, <2>2, <2>3, <2>4 DEF IInv, Finish, loopVars, OneWorker, CurrentIsTrue,
       Claimed, TakenByWorker, ThreadIsTrue, DownIsPressed, SpawnsUncancelled, KeyIsTrigger,
       StopsOwn
<1> QED
  BY <1>1, <1>2, <1>3, <1>4, <1>5, <1>6 DEF WorkerStep

LEMMA IInvInductive == IInv /\ [Next]_vars => IInv'
<1>1. ASSUME IInv, UNCHANGED vars PROVE IInv'
  <2>1. UNCHANGED <<loop, key, playing, current, cancel, thread, worker, run, down, outOpen>>
    BY <1>1 DEF vars, loopVars, playerVars, workerVars
  <2>2. TypeOK'
    BY <1>1, <2>1 DEF IInv, TypeOK
  <2> QED
    BY <1>1, <2>1, <2>2, WorkersUndisturbed DEF IInv, CurrentIsTrue, Claimed,
       TakenByWorker, SpawnsUncancelled, KeyIsTrigger, StopsOwn
<1> QED
  BY <1>1, LoopInductive, WorkerInductive DEF Next

THEOREM Invariance == Spec => []IInv
BY InitIInv, IInvInductive, PTL DEF Spec

-----------------------------------------------------------------------------
(* What follows from it *)

\* The attributes and locals keep their types.
THEOREM TypeCorrect == Spec => []TypeOK
BY Invariance, PTL DEF IInv

\* No two macros play into a device at once.
THEOREM OneMacro == Spec => []OneWorker
BY Invariance, PTL DEF IInv

\* The player names the macro that plays.
THEOREM TrueCurrent == Spec => []CurrentIsTrue
BY Invariance, PTL DEF IInv

LEMMA QuietWithoutWorker == IInv /\ Live = {} => down = {}
BY DEF IInv, DownIsPressed

\* No key is down when no macro plays.
THEOREM KeysReleased == Spec => []NoStuckKey
<1>1. IInv => NoStuckKey
  BY QuietWithoutWorker DEF IInv, CurrentIsTrue, NoStuckKey
<1> QED  BY Invariance, <1>1, PTL

\* The flag that stops a macro stays up until the macro ended.
THEOREM StopKept == Spec => StopIsNotLost
<1> DEFINE P == \A t \in Live : cancel /\ worker'[t] # "none" => cancel'
<1>1. ASSUME IInv, [Next]_vars, NEW t \in Live, cancel PROVE cancel'
  <2>1. ~ClearCancel
    BY <1>1 DEF IInv, Claimed, ClearCancel
  <2>2. UNCHANGED cancel \/ SetCancel
    BY <1>1, <2>1 DEF Next, LoopStep, WorkerStep, vars, playerVars, PressTrigger, ReadPlaying,
       ReadCurrent, Claim, Spawn, BeginShutdown, Join, JoinTimesOut, CloseOutput,
       NextRound, NextStep, Perform, TapUp, ReleaseKey, Finish
  <2> QED  BY <1>1, <2>2 DEF SetCancel
<1>2. IInv /\ [Next]_vars => [P]_vars
  BY <1>1
<1> QED  BY Invariance, <1>2, PTL DEF Spec, StopIsNotLost

\* A stop that waited for the worker to end leaves no key down.
THEOREM StopWaits == Spec => StopIsSynchronous
<1> DEFINE P == loop' # loop /\ loop \in {"join", "last join"}
                  => thread \in Live \/ (~playing /\ down = {})
<1>1. ASSUME IInv, loop \in {"join", "last join"}, thread \notin Live
      PROVE  ~playing /\ down = {}
  <2>1. Live = {}
    BY <1>1 DEF IInv, ThreadIsTrue
  <2> QED  BY <1>1, <2>1, QuietWithoutWorker DEF IInv, TakenByWorker
<1>2. IInv /\ [Next]_vars => [P]_vars
  BY <1>1
<1> QED  BY Invariance, <1>2, PTL DEF Spec, StopIsSynchronous

\* A press stops no other trigger's macro.
THEOREM StopsOwnOnly == Spec => OnlyOwnMacroIsStopped
<1> DEFINE P == loop = "stop" /\ cancel' /\ ~cancel => \A t \in Live : run[t].key = key
<1>1. ASSUME IInv, loop = "stop", NEW t \in Live PROVE run[t].key = key
  BY <1>1, MacroAssumption DEF IInv, StopsOwn, CurrentIsTrue, WorkerIsAt
<1>2. IInv /\ [Next]_vars => [P]_vars
  BY <1>1
<1> QED  BY Invariance, <1>2, PTL DEF Spec, OnlyOwnMacroIsStopped

-----------------------------------------------------------------------------
(* The player implements MacroPlayback *)

\* What is seen of the only live worker.
LEMMA SeenOfWorker ==
  ASSUME NEW t, Live = {t}
  PROVE  /\ macroPlayed = run[t].key
         /\ toldToStop <=> cancel
         /\ mayPlayStep <=> worker[t] = "perform"
BY DEF macroPlayed, toldToStop, mayPlayStep

LEMMA SeenOfWorkerNext ==
  ASSUME NEW t, Live' = {t}
  PROVE  /\ macroPlayed' = run'[t].key
         /\ toldToStop' <=> cancel'
         /\ mayPlayStep' <=> worker'[t] = "perform"
BY DEF macroPlayed, toldToStop, mayPlayStep

LEMMA SeenOfNone ==
  /\ Live = {} => macroPlayed = NoTrigger /\ toldToStop = FALSE /\ mayPlayStep = FALSE
  /\ Live' = {} => macroPlayed' = NoTrigger /\ toldToStop' = FALSE /\ mayPlayStep' = FALSE
BY DEF macroPlayed, toldToStop, mayPlayStep

\* All of it is a truth value, but for the macro.
LEMMA SeenTypes ==
  /\ cancel \in BOOLEAN => toldToStop \in BOOLEAN
  /\ cancel' \in BOOLEAN => toldToStop' \in BOOLEAN
  /\ mayPlayStep \in BOOLEAN /\ mayPlayStep' \in BOOLEAN
BY DEF toldToStop, mayPlayStep

\* Steps that leave the workers and the flag are not seen.
LEMMA Unseen ==
  UNCHANGED <<worker, run, cancel, down>>
    => UNCHANGED <<macroPlayed, toldToStop, mayPlayStep, down>>
BY SameLive DEF macroPlayed, toldToStop, mayPlayStep

LEMMA LoopImplements ==
  ASSUME IInv, LoopStep
  PROVE  [Playback!Next]_(Playback!vars)
<1>1. CASE UNCHANGED <<worker, run, cancel, down>>
  BY <1>1, Unseen DEF Playback!vars
<1>2. CASE ClearCancel
  <2>1. Live = {} /\ Live' = {} /\ UNCHANGED down
    BY <1>2, SameLive DEF IInv, Claimed, ClearCancel, workerVars
  <2> QED  BY <2>1, SeenOfNone DEF Playback!vars
<1>3. ASSUME NEW t \in Threads, Spawn(t) PROVE Playback!Start(key)
  <2>1. key \in Triggers /\ Live = {} /\ ~cancel /\ TypeOK
    BY <1>3 DEF Spawn, IInv, KeyIsTrigger, Claimed, SpawnsUncancelled
  <2>2. Live' = {t} /\ worker'[t] = "round" /\ run'[t].key = key
    BY <1>3, <2>1, LiveAfter DEF Spawn, WorkerPlaces, TypeOK, Run
  <2>3. macroPlayed' = key /\ (toldToStop' <=> cancel') /\ ~mayPlayStep'
    BY <2>2, SeenOfWorkerNext
  <2>4. UNCHANGED <<cancel, down>> /\ toldToStop' \in BOOLEAN /\ mayPlayStep' \in BOOLEAN
    BY <1>3, <2>1, SeenTypes DEF Spawn, TypeOK
  <2> QED  BY <2>1, <2>3, <2>4, SeenOfNone DEF Playback!Start
<1>4. CASE SetCancel
  <2>1. Live' = Live /\ UNCHANGED <<worker, run, down>> /\ cancel'
    BY <1>4, SameLive DEF SetCancel, workerVars
  <2>2. CASE Live = {}
    BY <2>1, <2>2, SeenOfNone DEF Playback!vars
  <2>3. CASE Live # {}
    <3>1. PICK t \in Live : TRUE
      BY <2>3
    <3>2. Live = {t} /\ t \in Threads /\ run[t].key \in Triggers
      BY LiveIsOne DEF IInv, Live, WorkerIsAt
    <3>3. macroPlayed # NoTrigger /\ toldToStop' = TRUE
      BY <2>1, <3>2, SeenOfWorker, MacroAssumption DEF toldToStop
    <3>4. UNCHANGED <<macroPlayed, mayPlayStep>>
      BY <2>1 DEF macroPlayed, mayPlayStep
    <3> QED  BY <2>1, <3>3, <3>4 DEF Playback!Next, Playback!Stop
  <2> QED  BY <2>2, <2>3
<1>5. CASE CloseOutput
  <2>1. UNCHANGED <<macroPlayed, toldToStop, mayPlayStep>> /\ down' = {}
    BY <1>5, SameLive DEF CloseOutput, workerVars, playerVars, macroPlayed, toldToStop,
       mayPlayStep
  <2> QED  BY <2>1 DEF Playback!Next, Playback!LetGo
<1>6. \/ UNCHANGED <<worker, run, cancel, down>> \/ ClearCancel \/ SetCancel \/ CloseOutput
      \/ \E t \in Threads : Spawn(t)
  BY DEF LoopStep, playerVars, workerVars, PressTrigger, ReadPlaying, ReadCurrent, Claim,
     BeginShutdown, Join, JoinTimesOut
<1>7. CASE \E t \in Threads : Spawn(t)
  <2>1. key \in Triggers
    BY <1>7 DEF Spawn, IInv, KeyIsTrigger
  <2> QED  BY <1>3, <1>7, <2>1 DEF Playback!Next
<1> QED  BY <1>1, <1>2, <1>4, <1>5, <1>6, <1>7

LEMMA WorkerImplements ==
  ASSUME IInv, NEW t \in Threads, WorkerStep(t)
  PROVE  [Playback!Next]_(Playback!vars)
<1>1. Live = {t} /\ TypeOK /\ WorkerIsAt(t) /\ run[t].key \in Triggers
  BY LiveIsOne DEF WorkerStep, NextRound, NextStep, Perform, TapUp, ReleaseKey, Finish, Live,
     IInv, WorkerIsAt
<1>2. /\ macroPlayed = run[t].key /\ macroPlayed # NoTrigger
      /\ toldToStop <=> cancel
      /\ mayPlayStep <=> worker[t] = "perform"
  BY <1>1, SeenOfWorker, MacroAssumption
<1>3. UNCHANGED cancel /\ toldToStop \in BOOLEAN /\ toldToStop' \in BOOLEAN
      /\ mayPlayStep \in BOOLEAN /\ mayPlayStep' \in BOOLEAN
  BY <1>1, SeenTypes DEF WorkerStep, NextRound, NextStep, Perform, TapUp, ReleaseKey, Finish,
     playerVars, TypeOK
\* While the worker goes on, its macro and the flag are seen unchanged.
<1>4. ASSUME NEW place \in WorkerPlaces \ {"none"}, GoTo(t, place), run'[t].key = run[t].key
      PROVE  UNCHANGED <<macroPlayed, toldToStop>> /\ (mayPlayStep' <=> place = "perform")
  <2>1. Live' = {t} /\ worker'[t] = place
    BY <1>1, <1>4, LiveAfter
  <2> QED  BY <1>2, <1>3, <1>4, <2>1, SeenOfWorkerNext
<1>5. DOMAIN run = Threads /\ run[t] \in Runs
  BY <1>1 DEF TypeOK
<1>6. CASE NextRound(t)
  <2>1. PICK place \in {"release", "step"} : GoTo(t, place)
    BY <1>6 DEF NextRound
  <2>2. run'[t].key = run[t].key /\ UNCHANGED down
    BY <1>5, <1>6 DEF NextRound, Runs
  <2>3. worker[t] = "round"
    BY <1>6 DEF NextRound
  <2> QED  BY <1>2, <1>3, <1>4, <2>1, <2>2, <2>3 DEF Playback!vars, WorkerPlaces
<1>7. CASE NextStep(t)
  <2>1. run'[t].key = run[t].key /\ UNCHANGED down /\ worker[t] = "step"
    BY <1>5, <1>7 DEF NextStep, Runs
  <2>2. CASE GoTo(t, "round")
    BY <1>2, <1>3, <1>4, <2>1, <2>2 DEF Playback!vars, WorkerPlaces
  <2>3. CASE GoTo(t, "perform") /\ ~RoundEnds(t)
    <3>1. ~toldToStop /\ mayPlayStep' = TRUE /\ UNCHANGED <<macroPlayed, toldToStop>>
      BY <1>2, <1>3, <1>4, <2>1, <2>3 DEF RoundEnds, WorkerPlaces
    <3> QED  BY <1>2, <2>1, <3>1 DEF Playback!Next, Playback!Arm
  <2> QED  BY <1>7, <2>2, <2>3 DEF NextStep
<1>8. CASE Perform(t)
  <2> DEFINE s == MacroSteps(t)[run[t].at]
  <2>1. s \in Step
    BY <1>1, <1>8, StepPerformed DEF Perform
  <2>2. PICK place \in {"release", "up", "step"} : GoTo(t, place)
    BY <1>8 DEF Perform
  <2>3. run'[t].key = run[t].key /\ worker[t] = "perform"
    BY <1>5, <1>8 DEF Perform, Runs
  <2>4. down' = down \/ down' = Held(down, s)
    BY <1>8 DEF Perform
  <2>5. \/ \E c \in Codes : down' = down \cup {c}
        \/ \E c \in Codes : down' = down \ {c}
        \/ UNCHANGED down
    BY <2>1, <2>4, StepNamesKey DEF Held, KeyDowns
  <2>6. mayPlayStep /\ mayPlayStep' = FALSE /\ UNCHANGED <<macroPlayed, toldToStop>>
    BY <1>2, <1>3, <1>4, <2>2, <2>3 DEF WorkerPlaces
  <2> QED  BY <2>5, <2>6 DEF Playback!Next, Playback!PlayStep
<1>9. CASE TapUp(t) \/ \E c \in Codes : ReleaseKey(t, c)
  <2>1. PICK place \in {"step", "release"} : GoTo(t, place)
    BY <1>1, <1>9 DEF TapUp, ReleaseKey, GoTo, TypeOK
  <2>2. run'[t].key = run[t].key /\ worker[t] # "perform" /\ down' \in SUBSET down
    BY <1>5, <1>9 DEF TapUp, ReleaseKey, Runs
  <2>3. UNCHANGED <<macroPlayed, toldToStop, mayPlayStep>>
    BY <1>2, <1>3, <1>4, <2>1, <2>2 DEF WorkerPlaces
  <2> QED  BY <2>2, <2>3 DEF Playback!Next, Playback!LetGo
<1>10. CASE Finish(t)
  <2>1. Live' = {} /\ worker[t] = "release" /\ run[t].pressed = {} /\ UNCHANGED down
    BY <1>1, <1>10, LiveAfter DEF Finish, WorkerPlaces
  <2>2. down = {}
    BY <1>1, <2>1, DownIsWorkers
  <2> QED  BY <1>2, <1>3, <2>1, <2>2, SeenOfNone DEF Playback!Next, Playback!Finish
<1> QED
  BY <1>6, <1>7, <1>8, <1>9, <1>10 DEF WorkerStep

\* Every behaviour of the threads is one that playing macros promises: a stop
\* lets at most the step already decided on through, and a macro is over only
\* with its keys up.
THEOREM Implements == Spec => PlaysAsPromised
<1>1. Init => Playback!Init
  <2>1. Init => Live = {}
    BY DEF Init, Live
  <2> QED  BY <2>1, SeenOfNone DEF Init, Playback!Init
<1>2. IInv /\ [Next]_vars => [Playback!Next]_(Playback!vars)
  <2>1. UNCHANGED vars => UNCHANGED Playback!vars
    BY Unseen DEF vars, playerVars, workerVars, Playback!vars
  <2> QED  BY <2>1, LoopImplements, WorkerImplements DEF Next
<1> QED  BY Invariance, <1>1, <1>2, PTL DEF Spec, PlaysAsPromised, Playback!Spec
=============================================================================
