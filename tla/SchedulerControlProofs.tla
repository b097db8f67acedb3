----------------------- MODULE SchedulerControlProofs -----------------------
(***************************************************************************)
(* Proofs about SchedulerControl, for any number of requests and starts,   *)
(* with and without the lock: however starts and stops overlap, a stopped  *)
(* scheduler has told every goroutine to end, and a running one has a      *)
(* goroutine that nothing has told to end.  The invariant behind both is   *)
(* about the contexts: all but the last are cancelled, the last is         *)
(* cancelled exactly when the scheduler is stopped, and no goroutine waits *)
(* for a context that was never made.  The lock ends with the goroutine    *)
(* that took it, and the process, unless it gives up on its requests,      *)
(* after both.                                                             *)
(***************************************************************************)
EXTENDS SchedulerControl, TLAPS

ContextsOrdered == /\ \A n \in Ids: n < current => n \in cancelled
                   /\ \A n \in cancelled: n <= current
                   /\ running <=> current \notin cancelled

WatchesMade == /\ \A n \in Ids: loop[n] = "select" => watch[n] \in 1..current
               /\ loop[current] = "select" => watch[current] = current

NewestLives == running /\ Alive => loop[current] \notin Ended

Inv == TypeOK /\ ContextsOrdered /\ WatchesMade /\ NewestLives

\* The numbers of contexts and goroutines.
LEMMA IdsRange == /\ 1 \in Ids
                  /\ \A n \in Ids: n \in Nat /\ n >= 1 /\ n \in 1..n
                  /\ Ids \subseteq 0..MaxStarts
  BY ControlAssumption DEF Ids

\* The initial state is well typed.
LEMMA TypeInit == Init => TypeOK
<1> SUFFICES ASSUME Init PROVE TypeOK
  OBVIOUS
<1>1. 0 \in 0..MaxStarts
  BY ControlAssumption
<1>2. loop \in [Ids -> LoopPlaces]
  BY DEF Init, LoopPlaces
<1>3. watch \in [Ids -> 0..MaxStarts]
  BY <1>1 DEF Init
<1> QED
  BY <1>2, <1>3, IdsRange DEF Init, TypeOK, CallPlaces

\* The goroutines stay where they are, or one goes to a place outside select.
LoopTypes == loop' \in [Ids -> LoopPlaces]
CallTypes == call' \in [Threads -> CallPlaces]

\* A goroutine that moves moves alone.
LEMMA LoopGoType ==
  ASSUME TypeOK, NEW n \in Ids, NEW from, NEW to \in LoopPlaces, LoopGo(n, from, to)
  PROVE  LoopTypes /\ loop'[n] = to /\ \A m \in Ids \ {n}: loop'[m] = loop[m]
  BY DEF TypeOK, LoopTypes, LoopGo

\* A request that moves moves alone.
LEMMA CallGoType ==
  ASSUME TypeOK, NEW c \in Threads, NEW from, NEW to \in CallPlaces, CallGo(c, from, to)
  PROVE  CallTypes /\ call'[c] = to /\ call[c] = from
         /\ \A d \in Threads \ {c}: call'[d] = call[d]
  BY DEF TypeOK, CallTypes, CallGo

\* A wake-up keeps the requests well typed and kills nobody.
LEMMA WakeType ==
  ASSUME TypeOK, NEW n \in Ids, call' = Wake(n)
  PROVE  CallTypes /\ (call'[Main] = "exited" <=> call[Main] = "exited")
<1>1. Main \in Threads /\ "woken" \in CallPlaces
  BY DEF Threads, CallPlaces
<1> QED
  BY <1>1 DEF TypeOK, CallTypes, Wake

\* The death of the process ends its goroutines and requests.
LEMMA DieType ==
  ASSUME TypeOK, Die
  PROVE  /\ LoopTypes /\ CallTypes /\ call'[Main] = "exited"
         /\ \A n \in Ids: loop'[n] \in Ended
         /\ UNCHANGED <<schedVars, watch, lockVars>>
  BY DEF TypeOK, Die, LoopTypes, CallTypes, LoopPlaces, CallPlaces, Threads, Ended

\* Release leaves a key and a flag.
LEMMA ReleaseType ==
  ASSUME TypeOK, Release
  PROVE  key' \in {"free", "mine", "theirs"} /\ acquired' \in BOOLEAN
  BY DEF TypeOK, Release

(***************************************************************************)
(* What a step of a goroutine does to the invariant.                       *)
(***************************************************************************)
LEMMA LoopInv ==
  ASSUME Inv, NEW n \in Ids, NEW from, NEW to \in LoopPlaces, LoopGo(n, from, to),
         from \notin Ended, to \notin Ended, to # "select",
         UNCHANGED <<schedVars, watch, call>>,
         key' \in {"free", "mine", "theirs"}, acquired' \in BOOLEAN
  PROVE  Inv'
<1>1. LoopTypes /\ loop'[n] = to /\ \A m \in Ids \ {n}: loop'[m] = loop[m]
  BY LoopGoType DEF Inv
<1>2. TypeOK'
  BY <1>1 DEF Inv, TypeOK, LoopTypes, schedVars
<1>3. ContextsOrdered' /\ WatchesMade'
  BY <1>1 DEF Inv, TypeOK, ContextsOrdered, WatchesMade, schedVars
<1>4. NewestLives'
  BY <1>1 DEF Inv, TypeOK, NewestLives, Alive, schedVars
<1> QED
  BY <1>2, <1>3, <1>4 DEF Inv

\* The steps of the goroutines keep the invariant.
LEMMA LoopStepInv ==
  ASSUME Inv, Alive, NEW n \in Ids, LoopStep(n) \/ SelectTick(n) \/ SelectDone(n)
  PROVE  Inv'
<1> USE DEF Ended, LoopPlaces
<1>1. CASE BeginBatch(n)
  <2>1. key' \in {"free", "mine", "theirs"} /\ acquired' \in BOOLEAN
    BY <1>1 DEF BeginBatch, lockVars, Inv, TypeOK
  <2> QED
    BY <1>1, <2>1, LoopInv DEF BeginBatch
<1>2. CASE SkipBatch(n) \/ EndBatch(n) \/ SelectTick(n)
  <2>1. key' \in {"free", "mine", "theirs"} /\ acquired' \in BOOLEAN
    BY <1>2 DEF SkipBatch, EndBatch, SelectTick, lockVars, Inv, TypeOK
  <2> QED
    BY <1>2, <2>1, LoopInv DEF SkipBatch, EndBatch, SelectTick
<1>3. CASE ReleaseLock(n)
  <2>1. key' \in {"free", "mine", "theirs"} /\ acquired' \in BOOLEAN
    BY <1>3, ReleaseType DEF ReleaseLock, Inv
  <2> QED
    BY <1>3, <2>1, LoopInv DEF ReleaseLock
<1>4. CASE EvaluateDone(n)
  <2>1. LoopTypes /\ loop'[n] = "select" /\ \A m \in Ids \ {n}: loop'[m] = loop[m]
    BY <1>4, LoopGoType DEF EvaluateDone, Inv
  <2>2. watch' \in [Ids -> 0..MaxStarts] /\ watch'[n] = current
        /\ \A m \in Ids \ {n}: watch'[m] = watch[m]
    BY <1>4, ControlAssumption DEF EvaluateDone, Inv, TypeOK, Ids
  <2>3. UNCHANGED <<running, current, cancelled, call, key, acquired>>
    BY <1>4 DEF EvaluateDone, schedVars, lockVars
  <2>4. TypeOK'
    BY <2>1, <2>2, <2>3 DEF Inv, TypeOK, LoopTypes
  <2>5. ContextsOrdered'
    BY <2>3 DEF Inv, ContextsOrdered
  <2>6. WatchesMade'
    <3>1. current \in Ids /\ current \in 1..current
      BY IdsRange DEF Inv, TypeOK
    <3>2. \A m \in Ids: loop'[m] = "select" => watch'[m] \in 1..current
      BY <2>1, <2>2, <3>1 DEF Inv, WatchesMade
    <3>3. loop'[current] = "select" => watch'[current] = current
      BY <2>1, <2>2, <3>1 DEF Inv, WatchesMade
    <3> QED
      BY <2>3, <3>2, <3>3 DEF WatchesMade
  <2>7. NewestLives'
    BY <2>1, <2>3 DEF Inv, TypeOK, NewestLives, Alive
  <2> QED
    BY <2>4, <2>5, <2>6, <2>7 DEF Inv
<1>5. CASE SelectDone(n)
  <2>1. LoopTypes /\ loop'[n] = "done" /\ \A m \in Ids \ {n}: loop'[m] = loop[m]
    BY <1>5, LoopGoType DEF SelectDone, Inv
  <2>2. CallTypes /\ (call'[Main] = "exited" <=> call[Main] = "exited")
    BY <1>5, WakeType DEF SelectDone, Inv
  <2>3. UNCHANGED <<running, current, cancelled, watch, key, acquired>>
    BY <1>5 DEF SelectDone, schedVars, lockVars
  <2>4. n = current => ~running
    BY <1>5 DEF SelectDone, LoopGo, Inv, WatchesMade, ContextsOrdered
  <2>5. TypeOK'
    BY <2>1, <2>2, <2>3 DEF Inv, TypeOK, LoopTypes, CallTypes
  <2>6. ContextsOrdered' /\ WatchesMade'
    BY <2>1, <2>3 DEF Inv, TypeOK, ContextsOrdered, WatchesMade
  <2>7. NewestLives'
    BY <2>1, <2>2, <2>3, <2>4 DEF Inv, TypeOK, NewestLives, Alive
  <2> QED
    BY <2>5, <2>6, <2>7 DEF Inv
<1> QED
  BY <1>1, <1>2, <1>3, <1>4, <1>5 DEF LoopStep

(***************************************************************************)
(* What a step of a request or of main does to it.                         *)
(***************************************************************************)
\* A step that moves one caller only.
LEMMA CallInv ==
  ASSUME Inv, NEW c \in Threads, NEW from, NEW to \in CallPlaces, CallGo(c, from, to),
         from # "exited",
         UNCHANGED <<schedVars, loop, watch>>,
         key' \in {"free", "mine", "theirs"}, acquired' \in BOOLEAN
  PROVE  Inv'
<1>1. CallTypes /\ (c = Main => call[Main] # "exited")
      /\ (c # Main => call'[Main] = call[Main])
  BY CallGoType DEF Inv, CallGo, Threads
<1>2. TypeOK'
  BY <1>1 DEF Inv, TypeOK, CallTypes, schedVars
<1>3. ContextsOrdered' /\ WatchesMade'
  BY DEF Inv, ContextsOrdered, WatchesMade, schedVars
<1>4. Alive' => Alive
  BY <1>1 DEF Alive
<1>5. NewestLives'
  BY <1>4 DEF Inv, NewestLives, schedVars
<1> QED
  BY <1>2, <1>3, <1>5 DEF Inv

\* Start keeps the invariant: it makes a new context and its goroutine.
LEMMA StartInv ==
  ASSUME Inv, NEW c \in Threads, Start(c)
  PROVE  Inv'
<1>1. CallTypes
  BY CallGoType DEF Start, Inv, CallPlaces
<1>2. current \in Nat /\ current + 1 \in Ids /\ current' = current + 1 /\ running' = TRUE
  BY IdsRange, ControlAssumption DEF Start, Inv, TypeOK, Ids
<1>3. LoopTypes /\ loop'[current'] = "begin" /\ \A n \in Ids \ {current'}: loop'[n] = loop[n]
  BY <1>2 DEF Start, Inv, TypeOK, LoopTypes, LoopPlaces
<1>4. UNCHANGED <<cancelled, watch, key, acquired>>
  BY DEF Start, lockVars
<1>5. TypeOK'
  BY <1>1, <1>2, <1>3, <1>4 DEF Inv, TypeOK, LoopTypes, CallTypes
<1>6. ContextsOrdered'
  <2>1. current \in cancelled
    BY DEF Start, Inv, ContextsOrdered
  <2>2. \A n \in Ids: n < current + 1 => n = current \/ n < current
    BY <1>2, IdsRange
  <2>3. \A n \in cancelled: n <= current
    BY DEF Inv, ContextsOrdered
  <2>4. \A n \in cancelled: n \in Nat
    BY IdsRange DEF Inv, TypeOK
  <2>5. current + 1 \notin cancelled
    BY <1>2, <2>3
  <2>6. \A n \in Ids: n < current' => n \in cancelled'
    BY <1>2, <1>4, <2>1, <2>2 DEF Inv, ContextsOrdered
  <2>7. \A n \in cancelled': n <= current'
    BY <1>2, <1>4, <2>3, <2>4
  <2> QED
    BY <1>2, <1>4, <2>5, <2>6, <2>7 DEF ContextsOrdered
<1>7. WatchesMade'
  <2>1. ASSUME NEW n \in Ids, loop'[n] = "select" PROVE watch'[n] \in 1..current'
    <3>1. loop[n] = "select"
      BY <1>3, <2>1
    <3>2. watch[n] \in 1..current
      BY <3>1 DEF Inv, WatchesMade
    <3> QED
      BY <1>2, <1>4, <3>2
  <2> QED
    BY <1>3, <2>1 DEF WatchesMade
<1>8. NewestLives'
  BY <1>3 DEF NewestLives, Ended
<1> QED
  BY <1>5, <1>6, <1>7, <1>8 DEF Inv

\* Stop keeps it: the context it cancels is the current one.
LEMMA CancelInv ==
  ASSUME Inv, NEW c \in Threads, StopCancels(c)
  PROVE  Inv'
<1>1. CallTypes
  BY CallGoType DEF StopCancels, Inv, CallPlaces
<1>2. /\ running' = FALSE /\ cancelled' = cancelled \cup {current}
      /\ UNCHANGED <<current, loop, watch, key, acquired>>
  BY DEF StopCancels, lockVars
<1>3. current \in Ids /\ current <= current
  BY IdsRange DEF Inv, TypeOK
<1>4. TypeOK'
  BY <1>1, <1>2, <1>3 DEF Inv, TypeOK, CallTypes
<1>5. ContextsOrdered' /\ WatchesMade' /\ NewestLives'
  BY <1>2, <1>3 DEF Inv, ContextsOrdered, WatchesMade, NewestLives
<1> QED
  BY <1>4, <1>5 DEF Inv

\* The steps of the requests keep it.
LEMMA CallStepInv ==
  ASSUME Inv, NEW c \in Threads, CallStep(c) \/ HandleStart(c) \/ HandleStop(c)
  PROVE  Inv'
<1>1. Return(c) \in CallPlaces
  BY DEF Return, CallPlaces
<1>2. key \in {"free", "mine", "theirs"} /\ acquired \in BOOLEAN
  BY DEF Inv, TypeOK
<1> USE DEF CallPlaces
<1>3. CASE \/ HandleStart(c) \/ HandleStop(c) \/ StartAgain(c) \/ StopAgain(c)
           \/ Wait(c) \/ WaitReturns(c) \/ WaitPanics(c)
  <2>1. UNCHANGED <<schedVars, loop, watch>> /\ UNCHANGED lockVars
    BY <1>3 DEF HandleStart, HandleStop, StartAgain, StopAgain, Wait, WaitReturns, WaitPanics
  <2>2. key' \in {"free", "mine", "theirs"} /\ acquired' \in BOOLEAN
    BY <1>2, <2>1 DEF lockVars
  <2>3. CASE HandleStart(c) \/ HandleStop(c)
    BY <2>1, <2>2, <2>3, CallInv DEF HandleStart, HandleStop
  <2>4. CASE StartAgain(c) \/ StopAgain(c)
    BY <1>1, <2>1, <2>2, <2>4, CallInv DEF StartAgain, StopAgain
  <2>5. CASE Wait(c) \/ WaitReturns(c) \/ WaitPanics(c)
    BY <2>1, <2>2, <2>5, CallInv DEF Wait, WaitReturns, WaitPanics
  <2> QED
    BY <1>3, <2>3, <2>4, <2>5
<1>4. CASE Start(c)
  BY <1>4, StartInv
<1>5. CASE StopCancels(c)
  BY <1>5, CancelInv
<1>6. CASE StopReleases(c)
  <2>1. key' \in {"free", "mine", "theirs"} /\ acquired' \in BOOLEAN
    BY <1>2, <1>6, ReleaseType DEF StopReleases, lockVars, Inv
  <2> QED
    BY <1>1, <1>6, <2>1, CallInv DEF StopReleases
<1> QED
  BY <1>3, <1>4, <1>5, <1>6 DEF CallStep

\* The death of the process keeps it.
LEMMA DieInv ==
  ASSUME Inv, Die
  PROVE  Inv'
<1>1. /\ LoopTypes /\ CallTypes /\ call'[Main] = "exited"
      /\ \A n \in Ids: loop'[n] \in Ended
      /\ UNCHANGED <<schedVars, watch, lockVars>>
  BY DieType DEF Inv
<1>2. TypeOK'
  BY <1>1 DEF Inv, TypeOK, LoopTypes, CallTypes, schedVars, lockVars
<1>3. ContextsOrdered' /\ NewestLives'
  BY <1>1 DEF Inv, ContextsOrdered, NewestLives, Alive, schedVars
<1>4. WatchesMade'
  BY <1>1, <1>2 DEF TypeOK, WatchesMade, Ended
<1> QED
  BY <1>2, <1>3, <1>4 DEF Inv

\* The inductive invariant holds initially.
LEMMA InvInit == Init => Inv
<1> SUFFICES ASSUME Init PROVE Inv
  OBVIOUS
<1>1. loop[1] = "begin" /\ \A n \in Ids: loop[n] # "select"
  BY IdsRange DEF Init
<1>2. \A n \in Ids: ~(n < 1)
  BY IdsRange
<1> QED
  BY <1>1, <1>2, TypeInit DEF Init, Inv, ContextsOrdered, WatchesMade, NewestLives, Ended

\* Every step keeps the invariant.
LEMMA InvStep == Inv /\ [Next]_vars => Inv'
<1> SUFFICES ASSUME Inv, [Next]_vars PROVE Inv'
  OBVIOUS
<1>0. Main \in Threads
  BY DEF Threads
<1>1. ASSUME NEW n \in Ids, Alive, LoopStep(n) \/ SelectTick(n) \/ SelectDone(n) PROVE Inv'
  BY <1>1, LoopStepInv
<1>2. ASSUME NEW c \in Threads, CallStep(c) \/ HandleStart(c) \/ HandleStop(c) PROVE Inv'
  BY <1>2, CallStepInv
<1>3. CASE MainStep \/ Signal
  <2>1. CASE Exit \/ MainPanics
    BY <2>1, DieInv DEF Exit, MainPanics
  <2>2. CASE TestRunning \/ CloseStores \/ ShutdownTimesOut \/ Signal
    <3>1. key' \in {"free", "mine", "theirs"} /\ acquired' \in BOOLEAN
      BY <2>2 DEF TestRunning, CloseStores, ShutdownTimesOut, Signal, lockVars, Inv, TypeOK
    <3> QED
      BY <1>0, <2>2, <3>1, CallInv
         DEF TestRunning, CloseStores, ShutdownTimesOut, Signal, CallPlaces
  <2> QED
    BY <1>3, <2>1, <2>2 DEF MainStep
<1>4. CASE OtherProcess
  <2>1. key' \in {"free", "mine", "theirs"}
        /\ UNCHANGED <<running, current, cancelled, loop, watch, call, acquired>>
    BY <1>4 DEF OtherProcess, schedVars
  <2> QED
    BY <2>1 DEF Inv, TypeOK, ContextsOrdered, WatchesMade, NewestLives, Alive
<1>5. CASE UNCHANGED vars
  BY <1>5 DEF vars, schedVars, lockVars, Inv, TypeOK, ContextsOrdered, WatchesMade, NewestLives, Alive
<1> QED
  BY <1>1, <1>2, <1>3, <1>4, <1>5 DEF Next

\* The inductive invariant holds throughout.
LEMMA Invariance == Spec => []Inv
  BY InvInit, InvStep, PTL DEF Spec

\* Every reachable state is well typed.
THEOREM TypeCorrect == Spec => []TypeOK
<1>1. Inv => TypeOK
  BY DEF Inv
<1> QED
  BY <1>1, Invariance, PTL

\* What the invariant says of a stopped scheduler ...
LEMMA InvStops ==
  ASSUME Inv
  PROVE  StoppedMeansCancelled
<1>1. running => current \notin cancelled
  BY DEF Inv, ContextsOrdered
<1>2. ~running => current \in cancelled
  BY DEF Inv, TypeOK, ContextsOrdered
<1>3. ASSUME ~running, NEW n \in Ids, loop[n] = "select" PROVE watch[n] \in cancelled
  <2>1. watch[n] \in 1..current /\ current \in Ids
    BY <1>3 DEF Inv, TypeOK, WatchesMade
  <2>2. watch[n] \in Ids /\ (watch[n] = current \/ watch[n] < current)
    BY <2>1, ControlAssumption DEF Ids
  <2> QED
    BY <1>2, <1>3, <2>2 DEF Inv, ContextsOrdered
<1> QED
  BY <1>1, <1>2, <1>3 DEF StoppedMeansCancelled

\* ... and of a running one.
LEMMA InvRuns == Inv => RunningHasLoop
  BY DEF Inv, NewestLives, WatchesMade, RunningHasLoop

(***************************************************************************)
(* A stopped scheduler has cancelled every context that a goroutine waits  *)
(* for or will read; the context of a running one is not cancelled.        *)
(***************************************************************************)
THEOREM StopReachesAll == Spec => []StoppedMeansCancelled
<1>1. Inv => StoppedMeansCancelled
  BY InvStops
<1> QED
  BY <1>1, Invariance, PTL

(***************************************************************************)
(* While IsRunning says true, the newest goroutine is alive and waits for  *)
(* a context nobody has cancelled.                                         *)
(***************************************************************************)
THEOREM RunningIsTrue == Spec => []RunningHasLoop
  BY InvRuns, Invariance, PTL

(***************************************************************************)
(* Nobody waits for goroutines that have all ended: a request goes to wait *)
(* only when one is left, and the one that ends last wakes all.            *)
(***************************************************************************)
LEMMA WakeupLoop ==
  ASSUME TypeOK, NoLostWakeup, NEW n \in Ids, LoopStep(n) \/ SelectTick(n) \/ SelectDone(n)
  PROVE  NoLostWakeup'
<1>1. CASE LoopStep(n) \/ SelectTick(n)
  <2>1. \E p \in LoopPlaces \ Ended: loop' = [loop EXCEPT ![n] = p]
    BY <1>1 DEF LoopStep, BeginBatch, SkipBatch, EndBatch, ReleaseLock, EvaluateDone,
                SelectTick, LoopGo, Ended, LoopPlaces
  <2>2. loop'[n] \notin Ended
    BY <2>1 DEF TypeOK
  <2> QED
    BY <2>2 DEF NoLostWakeup, NoLoops
<1>2. CASE SelectDone(n)
  <2>1. loop' = [loop EXCEPT ![n] = "done"] /\ call' = Wake(n)
    BY <1>2 DEF SelectDone, LoopGo
  <2>2. ASSUME NEW c \in Threads, call'[c] = "waiting" PROVE ~NoLoops'
    <3>1. \E m \in Ids \ {n}: loop[m] \notin Ended
      BY <2>1, <2>2 DEF Wake
    <3> QED
      BY <2>1, <3>1 DEF NoLoops, TypeOK
  <2> QED
    BY <2>2 DEF NoLostWakeup
<1> QED
  BY <1>1, <1>2

\* A request that goes to wait has seen a goroutine; a Start only adds one.
LEMMA WakeupCall ==
  ASSUME TypeOK, NoLostWakeup, NEW c \in Threads, CallStep(c) \/ HandleStart(c) \/ HandleStop(c)
  PROVE  NoLostWakeup'
<1>1. CASE Start(c)
  <2>1. current + 1 \in Ids /\ loop' = [loop EXCEPT ![current + 1] = "begin"]
    BY <1>1, ControlAssumption DEF Start, TypeOK, Ids
  <2>2. loop'[current + 1] \notin Ended
    BY <2>1 DEF TypeOK, Ended
  <2> QED
    BY <2>1, <2>2 DEF NoLostWakeup, NoLoops
<1>2. CASE Wait(c)
  BY <1>2 DEF Wait, CallGo, NoLostWakeup, NoLoops, TypeOK
<1>3. CASE ~Start(c) /\ ~Wait(c)
  <2>1. loop' = loop /\ \E p \in CallPlaces: p # "waiting" /\ call' = [call EXCEPT ![c] = p]
    BY <1>3 DEF CallStep, StartAgain, StopCancels, StopAgain, WaitReturns, WaitPanics,
                StopReleases, HandleStart, HandleStop, CallGo, Return, CallPlaces
  <2>2. \A d \in Threads: call'[d] = "waiting" => call[d] = "waiting"
    BY <2>1 DEF TypeOK
  <2> QED
    BY <2>1, <2>2 DEF NoLostWakeup, NoLoops
<1> QED
  BY <1>1, <1>2, <1>3

\* Every step keeps it.
LEMMA WakeupStep ==
  ASSUME TypeOK, NoLostWakeup, [Next]_vars
  PROVE  NoLostWakeup'
<1>1. CASE Exit \/ MainPanics
  <2>1. \A c \in Threads: call'[c] # "waiting"
    BY <1>1 DEF Exit, MainPanics, Die
  <2> QED
    BY <2>1 DEF NoLostWakeup
<1>2. CASE TestRunning \/ CloseStores \/ ShutdownTimesOut \/ Signal
  <2>1. loop' = loop /\ \E p \in CallPlaces: p # "waiting" /\ call' = [call EXCEPT ![Main] = p]
    BY <1>2 DEF TestRunning, CloseStores, ShutdownTimesOut, Signal, CallGo, CallPlaces
  <2>2. \A d \in Threads: call'[d] = "waiting" => call[d] = "waiting"
    BY <2>1 DEF TypeOK, Threads
  <2> QED
    BY <2>1, <2>2 DEF NoLostWakeup, NoLoops
<1>3. CASE OtherProcess \/ UNCHANGED vars
  BY <1>3 DEF OtherProcess, vars, NoLostWakeup, NoLoops
<1> QED
  BY <1>1, <1>2, <1>3, WakeupLoop, WakeupCall DEF Next, MainStep

\* No request waits for ever because the last goroutine ended unseen.
THEOREM WaitersAreWoken == Spec => []NoLostWakeup
<1>1. Init => NoLostWakeup
  BY DEF Init, NoLostWakeup
<1> QED
  BY <1>1, WakeupStep, TypeCorrect, PTL DEF Spec

(***************************************************************************)
(* The lock and the end of the process, whatever is requested.  The flag   *)
(* is set only while some goroutine is in a batch or about to release, so  *)
(* it is not set when none is left; of a stopped scheduler whose           *)
(* goroutines live, somebody who stopped it is waiting for them, and a     *)
(* main that has answered all requests is waited for by none.              *)
(***************************************************************************)
Fresh == \A n \in Ids: n > current => loop[n] = "none"

LockKept == Alive => /\ key = "mine" => acquired
                     /\ acquired => /\ LockEnabled
                                    /\ \E n \in Ids: loop[n] \in {"batch", "release"}

Stopping == {"unlocked", "waiting"}

StopsSeen == /\ Alive /\ ~running => NoLoops \/ \E c \in Threads: call[c] \in Stopping
             /\ call[Main] = "closed" => HandlersDone

IdleInv == Fresh /\ LockKept /\ StopsSeen

\* Initially the goroutine is there and nobody has the lock.
LEMMA IdleInit == Init => IdleInv
<1> SUFFICES ASSUME Init PROVE IdleInv
  OBVIOUS
<1>1. Main \in Threads /\ \A n \in Ids: n > 1 => n # 1
  BY IdsRange DEF Threads
<1> QED
  BY <1>1 DEF Init, IdleInv, Fresh, LockKept, StopsSeen, HandlersDone

\* A goroutine that goes on: only from a release to the top does it leave the
\* places where the flag may be set.
LEMMA IdleLoop ==
  ASSUME TypeOK, IdleInv, Alive, NEW n \in Ids, LoopStep(n) \/ SelectTick(n)
  PROVE  IdleInv'
<1>1. /\ UNCHANGED <<running, current, call>> /\ loop[n] \notin Ended
      /\ \E p \in LoopPlaces \ Ended: loop' = [loop EXCEPT ![n] = p]
  BY DEF LoopStep, BeginBatch, SkipBatch, EndBatch, ReleaseLock, EvaluateDone, SelectTick,
         LoopGo, Ended, LoopPlaces, schedVars
<1>2. Fresh'
  BY <1>1 DEF IdleInv, Fresh, Ended, TypeOK
<1>3. StopsSeen'
  <2>1. ~NoLoops
    BY <1>1 DEF NoLoops
  <2> QED
    BY <1>1, <2>1 DEF IdleInv, StopsSeen, HandlersDone, Alive
<1>4. LockKept'
  <2>1. CASE BeginBatch(n)
    <3>1. loop'[n] = "batch"
      BY <2>1 DEF BeginBatch, LoopGo, TypeOK
    <3>2. CASE LockEnabled
      BY <2>1, <3>1, <3>2 DEF BeginBatch, LockKept
    <3>3. CASE ~LockEnabled
      BY <2>1, <3>3 DEF BeginBatch, lockVars, IdleInv, LockKept, Alive
    <3> QED
      BY <3>2, <3>3
  <2>2. CASE EndBatch(n)
    <3>1. LockEnabled => loop'[n] = "release"
      BY <2>2 DEF EndBatch, LoopGo, TypeOK
    <3> QED
      BY <2>2, <3>1 DEF EndBatch, lockVars, IdleInv, LockKept, Alive
  <2>3. CASE ReleaseLock(n)
    BY <2>3 DEF ReleaseLock, Release, IdleInv, LockKept, Alive
  <2>4. CASE SkipBatch(n) \/ EvaluateDone(n) \/ SelectTick(n)
    <3>1. loop[n] \in {"begin", "top", "select"} /\ UNCHANGED <<key, acquired, call>>
      BY <2>4 DEF SkipBatch, EvaluateDone, SelectTick, LoopGo, lockVars
    <3>2. \A m \in Ids: loop[m] \in {"batch", "release"} => loop'[m] = loop[m]
      BY <1>1, <3>1 DEF TypeOK
    <3> QED
      BY <3>1, <3>2 DEF IdleInv, LockKept, Alive
  <2> QED
    BY <2>1, <2>2, <2>3, <2>4 DEF LoopStep
<1> QED
  BY <1>2, <1>3, <1>4 DEF IdleInv

\* A goroutine that ends has given the lock back, and if it wakes those that
\* wait, it is the last.
LEMMA IdleDone ==
  ASSUME TypeOK, IdleInv, Alive, NEW n \in Ids, SelectDone(n)
  PROVE  IdleInv'
<1>1. /\ UNCHANGED <<running, current, key, acquired>> /\ loop[n] = "select"
      /\ loop' = [loop EXCEPT ![n] = "done"] /\ call' = Wake(n)
  BY DEF SelectDone, LoopGo, schedVars, lockVars
<1>2. \A m \in Ids \ {n}: loop'[m] = loop[m]
  BY <1>1 DEF TypeOK
<1>3. Fresh'
  BY <1>1, <1>2 DEF IdleInv, Fresh
<1>4. LockKept'
  BY <1>1, <1>2 DEF IdleInv, LockKept, Alive
<1>5. StopsSeen'
  <2>1. CASE \A m \in Ids \ {n}: loop[m] \in Ended
    <3>1. NoLoops'
      BY <1>1, <1>2, <2>1 DEF NoLoops, Ended, TypeOK
    <3>2. \A c \in Threads: call'[c] # call[c] => call[c] = "waiting"
      BY <1>1 DEF Wake
    <3>3. call'[Main] = "closed" => call[Main] = "closed"
      BY <1>1 DEF Wake, Threads
    <3> QED
      BY <3>1, <3>2, <3>3 DEF IdleInv, StopsSeen, HandlersDone, Threads
  <2>2. CASE ~\A m \in Ids \ {n}: loop[m] \in Ended
    <3>1. call' = call
      BY <1>1, <2>2 DEF Wake, TypeOK
    <3>2. ~NoLoops
      BY <1>1 DEF NoLoops, Ended
    <3> QED
      BY <1>1, <3>1, <3>2 DEF IdleInv, StopsSeen, HandlersDone, Alive
  <2> QED
    BY <2>1, <2>2
<1> QED
  BY <1>3, <1>4, <1>5 DEF IdleInv

\* A start makes a goroutine that was not there before.
LEMMA IdleStart ==
  ASSUME TypeOK, IdleInv, Alive, NEW c \in Threads, Start(c)
  PROVE  IdleInv'
<1>1. /\ current \in Nat /\ current + 1 \in Ids /\ current' = current + 1
      /\ running' = TRUE /\ loop' = [loop EXCEPT ![current + 1] = "begin"]
      /\ call[c] = "toStart" /\ call' = [call EXCEPT ![c] = "idle"]
      /\ UNCHANGED <<key, acquired>>
  BY IdsRange, ControlAssumption DEF Start, CallGo, lockVars, TypeOK, Ids
<1>2. loop[current + 1] = "none" /\ \A m \in Ids \ {current + 1}: loop'[m] = loop[m]
  BY <1>1 DEF IdleInv, Fresh, TypeOK
<1>3. Fresh'
  BY <1>1, <1>2, IdsRange DEF IdleInv, Fresh
<1>4. Alive => LockKept'
  BY <1>1, <1>2 DEF IdleInv, LockKept, Alive
<1>5. StopsSeen'
  BY <1>1 DEF IdleInv, StopsSeen, HandlersDone, Threads, TypeOK
<1> QED
  BY <1>3, <1>4, <1>5 DEF IdleInv

\* The other steps of the callers.
LEMMA IdleCall ==
  ASSUME TypeOK, IdleInv, Alive, NEW c \in Threads, CallStep(c) \/ HandleStart(c) \/ HandleStop(c)
  PROVE  IdleInv'
<1>0. Main \in Threads /\ \A d \in Clients: d \in Threads
  BY DEF Threads
<1>1. CASE Start(c)
  BY <1>1, IdleStart
<1>2. CASE ~Start(c)
  <2>1. /\ UNCHANGED <<current, loop>>
        /\ \E p \in CallPlaces \ {"closed"}: call' = [call EXCEPT ![c] = p]
    BY <1>2 DEF CallStep, StartAgain, StopCancels, StopAgain, Wait, WaitReturns, WaitPanics,
                StopReleases, HandleStart, HandleStop, CallGo, Return, CallPlaces, schedVars
  <2>2. Fresh'
    BY <2>1 DEF IdleInv, Fresh
  <2>3. call[c] \notin {"exited", "closed"} /\ (c # Main /\ call[c] = "idle" => call[Main] # "closed")
    BY <1>0, <1>2 DEF CallStep, StartAgain, StopCancels, StopAgain, Wait, WaitReturns, WaitPanics,
                StopReleases, HandleStart, HandleStop, CallGo, PortClosed, Alive
  <2>4. call'[Main] = "closed" => HandlersDone'
    BY <1>0, <2>1, <2>3 DEF IdleInv, StopsSeen, HandlersDone, TypeOK, Threads
  <2>5. LockKept'
    <3>1. CASE UNCHANGED lockVars
      BY <2>1, <3>1 DEF IdleInv, LockKept, Alive, lockVars
    <3>2. CASE ~UNCHANGED lockVars
      <4>1. Release
        BY <1>2, <3>2 DEF CallStep, StartAgain, StopCancels, StopAgain, Wait, WaitReturns,
                          WaitPanics, StopReleases, HandleStart, HandleStop
      <4> QED
        BY <4>1 DEF Release, IdleInv, LockKept
    <3> QED
      BY <3>1, <3>2
  <2>6. ~running' => NoLoops' \/ \E d \in Threads: call'[d] \in Stopping
    <3>1. CASE StopCancels(c)
      BY <3>1 DEF StopCancels, CallGo, Stopping, TypeOK
    <3>2. CASE Wait(c)
      BY <3>2 DEF Wait, CallGo, Stopping, NoLoops, TypeOK
    <3>3. CASE ~StopCancels(c) /\ ~Wait(c)
      <4>1. running' = running /\ call[c] \notin Stopping
        BY <1>2, <3>3 DEF CallStep, StartAgain, StopAgain, WaitReturns, WaitPanics,
              StopReleases, HandleStart, HandleStop, CallGo, Stopping, schedVars
      <4>2. \A d \in Threads: call[d] \in Stopping => call'[d] = call[d]
        BY <2>1, <4>1 DEF TypeOK
      <4> QED
        BY <2>1, <4>1, <4>2 DEF IdleInv, StopsSeen, NoLoops
    <3> QED
      BY <3>1, <3>2, <3>3
  <2> QED
    BY <2>2, <2>4, <2>5, <2>6 DEF IdleInv, StopsSeen
<1> QED
  BY <1>1, <1>2

\* The death of the process.
LEMMA IdleDie ==
  ASSUME TypeOK, IdleInv, Die
  PROVE  IdleInv'
<1>1. call'[Main] = "exited" /\ current' = current
  BY DieType DEF schedVars
<1>2. \A n \in Ids: loop[n] = "none" => loop'[n] = "none"
  BY DEF Die
<1> QED
  BY <1>1, <1>2 DEF IdleInv, Fresh, LockKept, StopsSeen, Alive

\* Every step keeps it.
LEMMA IdleStep ==
  ASSUME TypeOK, IdleInv, [Next]_vars
  PROVE  IdleInv'
<1>0. Main \in Threads /\ Main \notin Clients /\ \A d \in Clients: d \in Threads
  BY ControlAssumption DEF Threads
<1>1. CASE Exit \/ MainPanics
  BY <1>1, IdleDie DEF Exit, MainPanics
<1>2. CASE TestRunning \/ CloseStores \/ ShutdownTimesOut \/ Signal
  <2>1. /\ UNCHANGED <<running, current, loop, key, acquired>>
        /\ call[Main] \in {"idle", "signalled", "http"}
        /\ \E p \in CallPlaces \ {"exited"}: /\ call' = [call EXCEPT ![Main] = p]
                                             /\ p = "closed" => HandlersDone
    BY <1>2 DEF TestRunning, CloseStores, ShutdownTimesOut, Signal, CallGo, CallPlaces,
                schedVars, lockVars
  <2>2. \A d \in Threads: d # Main \/ call[d] \in Stopping => call'[d] = call[d]
    BY <2>1 DEF TypeOK, Stopping
  <2>3. call'[Main] = "closed" => HandlersDone'
    BY <1>0, <2>1, <2>2 DEF HandlersDone, TypeOK
  <2> QED
    BY <1>0, <2>1, <2>2, <2>3 DEF IdleInv, Fresh, LockKept, StopsSeen, NoLoops, Alive, TypeOK
<1>3. CASE OtherProcess
  BY <1>3 DEF OtherProcess, schedVars, IdleInv, Fresh, LockKept, StopsSeen, HandlersDone,
              NoLoops, Alive
<1>4. CASE UNCHANGED vars
  BY <1>4 DEF vars, schedVars, lockVars, IdleInv, Fresh, LockKept, StopsSeen, HandlersDone,
              NoLoops, Alive
<1>5. ASSUME NEW c \in Threads, Alive, CallStep(c) \/ HandleStart(c) \/ HandleStop(c)
      PROVE  IdleInv'
  BY <1>5, IdleCall
<1> QED
  BY <1>1, <1>2, <1>3, <1>4, <1>5, IdleLoop, IdleDone DEF Next, MainStep

\* What the invariant says of a process without goroutines, and of one that
\* has closed its clients.
LEMMA IdleInvClean == IdleInv => CleanExit /\ IdleHasNoLock
<1> SUFFICES ASSUME IdleInv PROVE CleanExit /\ IdleHasNoLock
  OBVIOUS
<1>1. IdleHasNoLock
  BY DEF IdleInv, LockKept, IdleHasNoLock, NoLoops, Ended
<1>2. ASSUME call[Main] = "closed", ~running PROVE NoLoops
  <2>1. Alive /\ \A c \in Threads: call[c] \notin Stopping
    BY <1>2 DEF Alive, IdleInv, StopsSeen, HandlersDone, Threads, Stopping
  <2> QED
    BY <1>2, <2>1 DEF IdleInv, StopsSeen
<1> QED
  BY <1>1, <1>2 DEF CleanExit, IdleHasNoLock, Alive

(***************************************************************************)
(* README.md:160: whatever starts, stops and signals overlap, a process    *)
(* none of whose goroutines is left does not have the lock; and one that   *)
(* has answered its requests closes its clients with no goroutine left,    *)
(* unless somebody started the scheduler again.                            *)
(***************************************************************************)
THEOREM ExitIsClean == Spec => [](CleanExit /\ IdleHasNoLock)
<1>1. TypeOK /\ IdleInv /\ [Next]_vars => IdleInv'
  BY IdleStep
<1> QED
  BY <1>1, IdleInit, IdleInvClean, TypeCorrect, PTL DEF Spec

(***************************************************************************)
(* Without start requests there is the one goroutine of NewApplication,    *)
(* and whoever has returned from wg.Wait has seen it end: nobody but the   *)
(* goroutine itself ever releases the lock.                                *)
(***************************************************************************)
NoStarts == "start" \notin Calls

OneLoop == /\ \A c \in Threads: call[c] # "toStart"
           /\ \A n \in Ids: n # 1 => loop[n] = "none"

BatchLocked == LockEnabled /\ loop[1] = "batch" => key = "mine"

\* Where the calls of Stop and main are, and what that says of the goroutine.
StopsWait == /\ \A c \in Threads: call[c] \in Stopping \cup {"woken", "drained"} => ~running
             /\ \A c \in Threads: call[c] \in {"woken", "drained"} => NoLoops
             /\ call[Main] \in {"http", "closed"} => ~running

ExitInv == Inv /\ IdleInv /\ OneLoop /\ BatchLocked /\ StopsWait

\* Initially the goroutine is there and nobody stops it.
LEMMA ExitInit == Init => ExitInv
<1> SUFFICES ASSUME Init PROVE ExitInv
  OBVIOUS
<1>1. Main \in Threads
  BY DEF Threads
<1> QED
  BY <1>1, InvInit, IdleInit, IdsRange DEF Init, ExitInv, OneLoop, BatchLocked, StopsWait, Stopping

\* While the goroutine runs, no Stop has seen it end.
LEMMA ExitLoop ==
  ASSUME ExitInv, Alive, NEW n \in Ids, LoopStep(n) \/ SelectTick(n)
  PROVE  OneLoop' /\ BatchLocked' /\ StopsWait'
<1> USE DEF ExitInv
<1>1. /\ UNCHANGED <<running, current, cancelled, call>> /\ loop[n] \notin Ended
      /\ \E p \in LoopPlaces \ Ended: loop' = [loop EXCEPT ![n] = p]
  BY DEF LoopStep, BeginBatch, SkipBatch, EndBatch, ReleaseLock, EvaluateDone, SelectTick,
         LoopGo, Ended, LoopPlaces, schedVars
<1>2. n = 1
  BY <1>1 DEF OneLoop, Ended
<1>3. OneLoop'
  BY <1>1, <1>2 DEF OneLoop, Inv, TypeOK
<1>4. ~NoLoops
  BY <1>1 DEF NoLoops
<1>5. StopsWait'
  BY <1>1, <1>4 DEF StopsWait, Stopping
<1>6. BatchLocked'
  BY <1>2 DEF LoopStep, BeginBatch, SkipBatch, EndBatch, ReleaseLock, EvaluateDone,
              SelectTick, LoopGo, BatchLocked, Inv, TypeOK
<1> QED
  BY <1>3, <1>5, <1>6

\* The goroutine ends, and with it those that wait go on.
LEMMA ExitDone ==
  ASSUME ExitInv, Alive, NEW n \in Ids, SelectDone(n)
  PROVE  OneLoop' /\ BatchLocked' /\ StopsWait'
<1> USE DEF ExitInv
<1>1. /\ UNCHANGED <<running, current, cancelled, key, acquired>> /\ loop[n] = "select"
      /\ loop' = [loop EXCEPT ![n] = "done"] /\ call' = Wake(n)
  BY DEF SelectDone, LoopGo, schedVars, lockVars
<1>2. n = 1
  BY <1>1 DEF OneLoop
<1>3. \A c \in Threads: call'[c] = call[c] \/ (call[c] = "waiting" /\ call'[c] = "woken")
  BY <1>1 DEF Wake
<1>4. NoLoops'
  BY <1>1, <1>2 DEF NoLoops, OneLoop, Ended, Inv, TypeOK
<1>5. OneLoop'
  BY <1>1, <1>2, <1>3 DEF OneLoop, Inv, TypeOK
<1>6. BatchLocked'
  BY <1>1, <1>2 DEF BatchLocked, Inv, TypeOK
<1>7. Main \in Threads
  BY DEF Threads
<1>8. StopsWait'
  BY <1>1, <1>3, <1>4, <1>7 DEF StopsWait, Stopping
<1> QED
  BY <1>5, <1>6, <1>8

\* The steps of the requests, and of main while it is in Stop.
LEMMA ExitCall ==
  ASSUME ExitInv, Alive, NoStarts, NEW c \in Threads,
         CallStep(c) \/ HandleStart(c) \/ HandleStop(c)
  PROVE  OneLoop' /\ BatchLocked' /\ StopsWait'
<1> USE DEF ExitInv
<1>0. Main \in Threads
  BY DEF Threads
<1>1. call[c] # "toStart" /\ ~HandleStart(c)
  BY DEF OneLoop, HandleStart, NoStarts
<1>2. CASE StopCancels(c)
  <2>1. /\ running' = FALSE /\ UNCHANGED <<loop, key, acquired>> /\ running
        /\ call' = [call EXCEPT ![c] = "unlocked"] /\ call[c] = "toStop"
    BY <1>2 DEF StopCancels, CallGo, lockVars
  <2>2. \A d \in Threads: call[d] \notin Stopping \cup {"woken", "drained"}
    BY <2>1 DEF StopsWait
  <2> QED
    BY <1>0, <2>1, <2>2 DEF OneLoop, BatchLocked, StopsWait, Stopping, NoLoops, Inv, TypeOK
<1>3. CASE StopReleases(c)
  <2>1. /\ call[c] = "drained" /\ call' = [call EXCEPT ![c] = Return(c)]
        /\ UNCHANGED <<running, loop>>
    BY <1>3 DEF StopReleases, CallGo, schedVars
  <2>2. NoLoops /\ ~running
    BY <2>1 DEF StopsWait
  <2>3. Return(c) = "http" \/ Return(c) = "idle"
    BY DEF Return
  <2>4. BatchLocked'
    BY <2>1, <2>2, IdsRange DEF BatchLocked, NoLoops, Ended
  <2>5. OneLoop'
    BY <2>1, <2>3 DEF OneLoop, Inv, TypeOK
  <2>6. StopsWait'
    BY <1>0, <2>1, <2>2, <2>3 DEF StopsWait, Stopping, NoLoops, Inv, TypeOK
  <2> QED
    BY <2>4, <2>5, <2>6
<1>4. CASE HandleStop(c) \/ StopAgain(c)
  <2>1. /\ UNCHANGED <<running, loop, key, acquired>>
        /\ \E p \in {"idle", "toStop", "http"}: /\ call' = [call EXCEPT ![c] = p]
                                                /\ p = "http" => c = Main /\ ~running
        /\ call[c] \in {"idle", "toStop"}
    BY <1>4 DEF HandleStop, StopAgain, CallGo, Return, schedVars, lockVars
  <2> QED
    BY <1>0, <2>1 DEF OneLoop, BatchLocked, StopsWait, Stopping, NoLoops, Inv, TypeOK
<1>5. CASE Wait(c)
  <2>1. /\ UNCHANGED <<running, loop, key, acquired>> /\ call[c] = "unlocked"
        /\ call' = [call EXCEPT ![c] = IF NoLoops THEN "drained" ELSE "waiting"]
    BY <1>5 DEF Wait, CallGo, schedVars, lockVars
  <2> QED
    BY <1>0, <2>1 DEF OneLoop, BatchLocked, StopsWait, Stopping, NoLoops, Inv, TypeOK
<1>6. CASE WaitReturns(c)
  <2>1. /\ UNCHANGED <<running, loop, key, acquired>> /\ call[c] = "woken"
        /\ call' = [call EXCEPT ![c] = "drained"] /\ NoLoops
    BY <1>6 DEF WaitReturns, CallGo, schedVars, lockVars
  <2> QED
    BY <1>0, <2>1 DEF OneLoop, BatchLocked, StopsWait, Stopping, NoLoops, Inv, TypeOK
<1>7. CASE WaitPanics(c)
  BY <1>7 DEF WaitPanics, CallGo, StopsWait
<1> QED
  BY <1>1, <1>2, <1>3, <1>4, <1>5, <1>6, <1>7 DEF CallStep, Start, StartAgain, CallGo

\* Main shuts the HTTP server down when the scheduler is stopped.
LEMMA ExitMain ==
  ASSUME ExitInv, MainStep \/ Signal
  PROVE  OneLoop' /\ BatchLocked' /\ StopsWait'
<1> USE DEF ExitInv
<1>0. Main \in Threads
  BY DEF Threads
<1>1. CASE Exit \/ MainPanics
  <2>1. /\ call'[Main] = "exited" /\ \A c \in Threads: call'[c] \in {"idle", "exited"}
        /\ \A n \in Ids: loop'[n] \in Ended /\ (loop[n] = "none" => loop'[n] = "none")
    BY <1>0, <1>1 DEF Exit, MainPanics, Die, Ended
  <2> QED
    BY <1>0, <2>1, IdsRange DEF Ended, OneLoop, BatchLocked, StopsWait, Stopping
<1>2. CASE Signal \/ TestRunning \/ CloseStores \/ ShutdownTimesOut
  <2>1. /\ UNCHANGED <<running, loop, key, acquired>> /\ call[Main] \in {"idle", "signalled", "http"}
        /\ \E p \in {"signalled", "toStop", "http", "closed", "abandoned"}:
              /\ call' = [call EXCEPT ![Main] = p]
              /\ p = "http" => ~running
              /\ p = "closed" => call[Main] = "http"
    BY <1>2 DEF Signal, TestRunning, CloseStores, ShutdownTimesOut, CallGo, schedVars, lockVars
  <2> QED
    BY <1>0, <2>1 DEF OneLoop, BatchLocked, StopsWait, Stopping, NoLoops, Inv, TypeOK
<1> QED
  BY <1>1, <1>2 DEF MainStep

\* Every step keeps the invariant.
LEMMA ExitStep == NoStarts /\ ExitInv /\ [Next]_vars => ExitInv'
<1> SUFFICES ASSUME NoStarts, ExitInv, [Next]_vars PROVE OneLoop' /\ BatchLocked' /\ StopsWait'
  BY InvStep, IdleStep DEF ExitInv, Inv
<1>1. CASE OtherProcess
  BY <1>1 DEF OtherProcess, schedVars, ExitInv, OneLoop, BatchLocked, StopsWait, Stopping, NoLoops
<1>2. CASE UNCHANGED vars
  BY <1>2 DEF vars, schedVars, lockVars, ExitInv, OneLoop, BatchLocked, StopsWait, Stopping, NoLoops
<1> QED
  BY <1>1, <1>2, ExitLoop, ExitDone, ExitCall, ExitMain DEF Next

\* If nobody asks to start, the invariant holds throughout.
LEMMA ExitInvariance == NoStarts => (Spec => []ExitInv)
<1> SUFFICES ASSUME NoStarts PROVE Spec => []ExitInv
  OBVIOUS
<1>1. ExitInv /\ [Next]_vars => ExitInv'
  BY ExitStep
<1> QED
  BY <1>1, ExitInit, PTL DEF Spec

\* What the invariant says of the batches.
LEMMA ExitInvBatches == ExitInv => KeyHeldInBatch /\ BatchFinishedAtExit
<1> SUFFICES ASSUME ExitInv PROVE KeyHeldInBatch /\ BatchFinishedAtExit
  OBVIOUS
<1>1. KeyHeldInBatch
  BY DEF ExitInv, OneLoop, BatchLocked, KeyHeldInBatch
<1>2. call[Main] = "closed" => NoLoops
  BY IdleInvClean DEF ExitInv, StopsWait, CleanExit
<1> QED
  BY <1>1, <1>2 DEF BatchFinishedAtExit, NoLoops, Ended

(***************************************************************************)
(* README.md:158, 171: if nobody asks to start, a batch runs with the lock *)
(* held, whoever stops the scheduler and when, and main closes the clients *)
(* after the last one.  With start requests neither is so: the Stop of the *)
(* old goroutine releases the lock of the new one, and nobody waits for a  *)
(* goroutine that is started during a shutdown.                            *)
(***************************************************************************)
THEOREM BatchHasKey == NoStarts => (Spec => [](KeyHeldInBatch /\ BatchFinishedAtExit))
<1> SUFFICES ASSUME NoStarts PROVE Spec => [](KeyHeldInBatch /\ BatchFinishedAtExit)
  OBVIOUS
<1> QED
  BY ExitInvBatches, ExitInvariance, PTL
=============================================================================
