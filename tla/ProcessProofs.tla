--------------------------- MODULE ProcessProofs ---------------------------
(***************************************************************************)
(* Proofs about Process, for any number of requests, with and without the  *)
(* lock, and for any time a ping may take: how long the stores are         *)
(* awaited, and that what is proved of the scheduler holds from the first  *)
(* line of main to the end of the process, however that comes.             *)
(*                                                                         *)
(* Before the scheduler is started nothing of it moves; its start leads    *)
(* into a state that satisfies the invariants of SchedulerControlProofs    *)
(* (the key may be another process's), and from there on every step is one *)
(* of SchedulerControl, or death.                                          *)
(***************************************************************************)
EXTENDS Process, SchedulerControlProofs

Launched == stage \in {"launched", "spawned", "serving"}

\* The scheduler before its start, dead or alive.
Dormant == /\ ~running /\ current = 1 /\ cancelled = {}
           /\ \A n \in Ids: loop[n] = "none"
           /\ \A c \in Threads: call[c] \in {"idle", "exited"}
           /\ key # "mine" /\ ~acquired

\* How long a store has been awaited when its n-th ping begins: the squares of
\* 1 to n - 1, and a timeout for each ping before.
Awaited == \/ attempt = 1 /\ waited = 0
           \/ attempt = 2 /\ waited \in 1..(1 + PingTime)
           \/ attempt = 3 /\ waited \in 5..(5 + 2 * PingTime)
           \/ attempt = 4 /\ waited \in 14..(14 + 3 * PingTime)
           \/ attempt = 5 /\ waited \in 30..(30 + 4 * PingTime)

Waits == /\ stage \in {"database", "redis"} => Awaited
         /\ stage = "failed" => \/ attempt = 1 /\ waited = 0
                                \/ attempt = 5 /\ waited \in 30..(30 + 5 * PingTime)
         /\ stage \notin {"database", "redis", "failed"} => attempt = 1 /\ waited = 0

StartOK == /\ stage \in Stages
           /\ server \in {"none", "binding", "listening"}
           /\ server # "none" => stage \in {"spawned", "serving"}
           /\ Waits

Scheduled == /\ TypeOK /\ IdleInv /\ NoLostWakeup
             /\ ~Launched => Dormant
             /\ Launched => Inv /\ (NoStarts => ExitInv)

ProcInv == StartOK /\ Scheduled

----------------------------------------------------------------------------
(* The start-up                                                            *)

\* What Waits says of the numbers.
LEMMA WaitsType ==
  ASSUME StartOK
  PROVE  attempt \in 1..maxRetries /\ waited \in Nat /\ StoresAwaited
<1> USE ProcessAssumption DEF maxRetries
<1>1. CASE stage \in {"database", "redis"}
  BY <1>1 DEF StartOK, Waits, Awaited, StoresAwaited
<1>2. CASE stage = "failed"
  BY <1>2 DEF StartOK, Waits, StoresAwaited
<1>3. CASE stage \notin {"database", "redis", "failed"}
  BY <1>3 DEF StartOK, Waits, StoresAwaited
<1> QED
  BY <1>1, <1>2, <1>3

\* The pause after the n-th ping is the square of n.
LEMMA RetryAwaited ==
  ASSUME Awaited, attempt < maxRetries, attempt' = attempt + 1,
         NEW d \in {0, PingTime}, waited' = waited + d + Backoff(attempt)
  PROVE  Awaited'
<1> USE ProcessAssumption DEF maxRetries, Backoff
<1>1. CASE attempt = 1
  BY <1>1 DEF Awaited
<1>2. CASE attempt = 2
  BY <1>2 DEF Awaited
<1>3. CASE attempt = 3
  BY <1>3 DEF Awaited
<1>4. CASE attempt = 4
  BY <1>4 DEF Awaited
<1> QED
  BY <1>1, <1>2, <1>3, <1>4 DEF Awaited

LEMMA StartStep == StartOK /\ [ProcNext]_procVars => StartOK'
<1> SUFFICES ASSUME StartOK, ProcNext \/ UNCHANGED startVars PROVE StartOK'
  BY DEF procVars
<1>1. CASE UNCHANGED startVars
  BY <1>1 DEF startVars, StartOK, Waits, Awaited
<1>2. CASE Configure \/ ConfigureFails \/ Launch \/ GoListen \/ Notify
  BY <1>2 DEF Configure, ConfigureFails, Launch, GoListen, Notify, Advance, StartOK, Stages,
              Waits, Awaited
<1>3. ASSUME NEW store \in {"database", "redis"}, NEW next \in {"redis", "launch"},
             Connected(store, next)
      PROVE  StartOK'
  BY <1>3 DEF Connected, Advance, StartOK, Stages, Waits, Awaited
<1>4. ASSUME NEW store \in {"database", "redis"}, Retry(store) PROVE StartOK'
  <2>1. Awaited /\ stage = store /\ UNCHANGED <<stage, server>>
    BY <1>4 DEF Retry, StartOK, Waits
  <2>2. Awaited'
    BY <1>4, <2>1, RetryAwaited DEF Retry
  <2> QED
    BY <2>1, <2>2 DEF StartOK, Waits
<1>5. ASSUME NEW store \in {"database", "redis"}, GiveUp(store) PROVE StartOK'
  <2>1. /\ Awaited /\ attempt = 5 /\ stage = store /\ stage' = "failed"
        /\ UNCHANGED <<server, attempt>>
    BY <1>5 DEF GiveUp, Advance, maxRetries, StartOK, Waits
  <2>2. waited' \in 30..(30 + 5 * PingTime)
    BY <1>5, <2>1, ProcessAssumption DEF GiveUp, Awaited
  <2> QED
    BY <2>1, <2>2 DEF StartOK, Stages, Waits
<1>6. CASE Bound \/ BindFails
  BY <1>6 DEF Bound, BindFails, StartOK, Waits, Awaited
<1>7. CASE OpenFails
  BY <1>7 DEF OpenFails, Advance, StartOK, Stages, Waits, Awaited
<1> QED
  BY <1>1, <1>2, <1>3, <1>4, <1>5, <1>6, <1>7
     DEF ProcNext, Startup, InitDatabase, InitRedis, KilledEarly

----------------------------------------------------------------------------
(* The scheduler                                                           *)

\* Death ends whatever goroutine and request there are.
LEMMA DeathScheduled ==
  ASSUME Scheduled, Die, stage' = stage \/ (~Launched /\ ~Launched')
  PROVE  Scheduled'
<1>0. Main \in Threads
  BY DEF Threads
<1>1. /\ LoopTypes /\ CallTypes /\ call'[Main] = "exited"
      /\ \A n \in Ids: loop'[n] \in Ended /\ (loop[n] = "none" => loop'[n] = "none")
      /\ \A c \in Threads: call'[c] \in {"idle", "exited"}
      /\ UNCHANGED <<running, current, cancelled, watch, key, acquired>>
  BY <1>0, DieType DEF Scheduled, Die, Ended, schedVars, lockVars
<1>2. TypeOK'
  BY <1>1 DEF Scheduled, TypeOK, LoopTypes, CallTypes
<1>3. ~Launched' => Dormant'
  BY <1>1 DEF Launched, Scheduled, Dormant
<1>4. IdleInv'
  BY IdleDie DEF Scheduled
<1>5. ASSUME Launched' PROVE Inv' /\ (NoStarts => ExitInv')
  <2>1. Inv /\ (NoStarts => ExitInv)
    BY <1>5 DEF Launched, Scheduled
  <2>2. Inv'
    BY <2>1, DieInv
  <2>3. ASSUME ExitInv PROVE OneLoop' /\ BatchLocked' /\ StopsWait'
    BY <1>0, <1>1, <2>3, IdsRange
       DEF ExitInv, OneLoop, BatchLocked, StopsWait, Stopping, Ended
  <2> QED
    BY <1>4, <2>1, <2>2, <2>3 DEF ExitInv
<1>6. NoLostWakeup'
  BY <1>1 DEF NoLostWakeup
<1> QED
  BY <1>2, <1>3, <1>4, <1>5, <1>6 DEF Scheduled

\* Before its start no step of the scheduler is possible.
LEMMA NothingMoves ==
  ASSUME StartOK, Dormant, ~Launched, Alive
  PROVE  ~Running
<1>0. Main \in Threads /\ \A c \in Clients: c \in Threads
  BY DEF Threads
<1>1. /\ stage # "serving" /\ server = "none"
      /\ \A n \in Ids: loop[n] = "none"
      /\ \A c \in Threads: call[c] \in {"idle", "exited"}
      /\ call[Main] = "idle"
  BY <1>0 DEF StartOK, Dormant, Launched, Alive
<1>2. \A n \in Ids: ~(LoopStep(n) \/ SelectTick(n) \/ SelectDone(n))
  BY <1>1 DEF LoopStep, BeginBatch, SkipBatch, EndBatch, ReleaseLock, EvaluateDone,
              SelectTick, SelectDone, LoopGo
<1>3. \A c \in Threads: ~CallStep(c)
  BY <1>1 DEF CallStep, Start, StartAgain, StopCancels, StopAgain, Wait, WaitReturns,
              WaitPanics, StopReleases, CallGo
<1>4. ~MainStep
  BY <1>1 DEF MainStep, TestRunning, CloseStores, ShutdownTimesOut, Exit, MainPanics, CallGo
<1> QED
  BY <1>1, <1>2, <1>3, <1>4 DEF Running

\* The start of the scheduler makes the one goroutine there is.
LEMMA LaunchScheduled ==
  ASSUME Scheduled, Alive, Launch
  PROVE  Scheduled'
<1>0. Main \in Threads /\ 1 \in Ids
  BY IdsRange DEF Threads
<1>1. Dormant /\ TypeOK /\ call[Main] = "idle"
  BY <1>0 DEF Launch, Advance, Launched, Scheduled, Dormant, Alive
<1>2. /\ running' = TRUE /\ loop' = [loop EXCEPT ![1] = "begin"]
      /\ UNCHANGED <<current, cancelled, watch, call, key, acquired>>
  BY DEF Launch, lockVars
<1>3. TypeOK'
  BY <1>0, <1>1, <1>2 DEF TypeOK, LoopPlaces
<1>4. /\ loop'[1] = "begin" /\ \A n \in Ids: n # 1 => loop'[n] = "none"
      /\ current' = 1 /\ cancelled' = {} /\ call'[Main] = "idle"
      /\ \A c \in Threads: call'[c] \in {"idle", "exited"}
      /\ key' # "mine" /\ ~acquired'
  BY <1>0, <1>1, <1>2 DEF Dormant, TypeOK
<1>5. \A n \in Ids: ~(n < 1)
  BY IdsRange
<1>6. Inv'
  BY <1>2, <1>3, <1>4, <1>5 DEF Inv, ContextsOrdered, WatchesMade, NewestLives, Ended
<1>7. OneLoop' /\ BatchLocked' /\ StopsWait'
  BY <1>2, <1>4 DEF OneLoop, BatchLocked, StopsWait, Stopping
<1>8. IdleInv'
  <2>1. \A n \in Ids: n > 1 => n # 1
    BY IdsRange
  <2> QED
    BY <1>2, <1>4, <2>1 DEF IdleInv, Fresh, LockKept, StopsSeen
<1>9. NoLostWakeup'
  BY <1>4 DEF NoLostWakeup
<1> QED
  BY <1>3, <1>6, <1>7, <1>8, <1>9 DEF Launch, Advance, Launched, Scheduled, ExitInv

\* From its start on the scheduler does what SchedulerControl says.
LEMMA NextScheduled ==
  ASSUME Scheduled, Launched, stage' = stage, [Next]_vars
  PROVE  Scheduled'
<1>1. Inv' /\ (NoStarts => ExitInv')
  BY InvStep, ExitStep DEF Scheduled
<1>2. IdleInv' /\ NoLostWakeup'
  BY IdleStep, WakeupStep DEF Scheduled
<1> QED
  BY <1>1, <1>2 DEF Scheduled, Launched, Inv

\* What leaves the scheduler alone.
LEMMA SameScheduled ==
  ASSUME Scheduled, UNCHANGED vars, Launched <=> Launched'
  PROVE  Scheduled'
<1>1. TypeOK' /\ (Dormant => Dormant')
  BY DEF vars, schedVars, lockVars, Scheduled, TypeOK, Dormant
<1>2. Inv => Inv'
  BY InvStep
<1>3. NoStarts /\ ExitInv => ExitInv'
  BY ExitStep
<1>4. IdleInv' /\ NoLostWakeup'
  BY IdleStep, WakeupStep DEF Scheduled
<1> QED
  BY <1>1, <1>2, <1>3, <1>4 DEF Scheduled

LEMMA RunningIsNext == Alive /\ Running => Next
  BY DEF Running, Next, Threads

LEMMA ScheduledStep == ProcInv /\ [ProcNext]_procVars => Scheduled'
<1> SUFFICES ASSUME StartOK, Scheduled, [ProcNext]_procVars PROVE Scheduled'
  BY DEF ProcInv
<1>1. CASE UNCHANGED procVars
  BY <1>1, SameScheduled DEF procVars, startVars, Launched
<1>2. ASSUME UNCHANGED vars,
             \/ Configure \/ GoListen \/ Notify \/ Bound
             \/ \E store \in {"database", "redis"}: Retry(store)
             \/ Connected("database", "redis") \/ Connected("redis", "launch")
      PROVE  Scheduled'
  <2>1. Launched <=> Launched'
    BY <1>2 DEF Configure, GoListen, Notify, Bound, Retry, Connected, Advance, Launched
  <2> QED
    BY <1>2, <2>1, SameScheduled
<1>3. CASE Alive /\ Launch
  BY <1>3, LaunchScheduled
<1>4. CASE \/ ConfigureFails \/ OpenFails \/ GiveUp("database") \/ GiveUp("redis")
           \/ BindFails \/ KilledEarly
  <2>1. Die /\ (stage' = stage \/ (~Launched /\ ~Launched'))
    BY <1>4 DEF ConfigureFails, OpenFails, GiveUp, BindFails, KilledEarly, Advance, Launched,
                startVars
  <2> QED
    BY <2>1, DeathScheduled
<1>5. CASE Alive /\ Running /\ UNCHANGED startVars
  <2>1. Launched
    BY <1>5, NothingMoves DEF Scheduled
  <2> QED
    BY <1>5, <2>1, RunningIsNext, NextScheduled DEF startVars
<1>6. CASE OtherProcess /\ UNCHANGED startVars
  <2>1. CASE Launched
    BY <1>6, <2>1, NextScheduled DEF startVars, Next
  <2>2. CASE ~Launched
    <3>1. Dormant /\ TypeOK
      BY <2>2 DEF Scheduled
    <3>2. /\ key' \in {"free", "theirs"}
          /\ UNCHANGED <<running, current, cancelled, loop, watch, call, acquired>>
      BY <1>6 DEF OtherProcess, schedVars
    <3>3. Dormant' /\ TypeOK'
      BY <3>1, <3>2 DEF Dormant, TypeOK
    <3>4. IdleInv' /\ NoLostWakeup'
      BY <1>6, IdleStep, WakeupStep DEF Scheduled, Next
    <3> QED
      BY <1>6, <2>2, <3>3, <3>4 DEF Scheduled, Launched, startVars
  <2> QED
    BY <2>1, <2>2
<1> QED
  BY <1>1, <1>2, <1>3, <1>4, <1>5, <1>6
     DEF ProcNext, Startup, InitDatabase, InitRedis, Configure, GoListen, Notify, Bound, Retry,
         Connected

LEMMA ProcInvInit == ProcInit => ProcInv
<1> SUFFICES ASSUME ProcInit PROVE ProcInv
  OBVIOUS
<1>1. StartOK
  BY DEF ProcInit, StartOK, Stages, Waits
<1>2. TypeOK
  <2>1. 0 \in 0..MaxStarts
    BY ControlAssumption
  <2> QED
    BY <2>1, IdsRange DEF ProcInit, TypeOK, LoopPlaces, CallPlaces
<1>3. Dormant /\ ~Launched
  BY DEF ProcInit, Dormant, Launched
<1>4. IdleInv /\ NoLostWakeup
  <2>1. Main \in Threads
    BY DEF Threads
  <2> QED
    BY <2>1 DEF ProcInit, IdleInv, Fresh, LockKept, StopsSeen, NoLoops, Ended, NoLostWakeup
<1> QED
  BY <1>1, <1>2, <1>3, <1>4 DEF ProcInv, Scheduled

LEMMA ProcInvariance == ProcSpec => []ProcInv
<1>1. ProcInv /\ [ProcNext]_procVars => ProcInv'
  BY StartStep, ScheduledStep DEF ProcInv
<1> QED
  BY <1>1, ProcInvInit, PTL DEF ProcSpec

----------------------------------------------------------------------------
(***************************************************************************)
(* Every reachable state of a process is well typed.                       *)
(***************************************************************************)
THEOREM ProcTypeCorrect == ProcSpec => []ProcTypeOK
<1>1. ProcInv => ProcTypeOK
  BY WaitsType DEF ProcInv, StartOK, Scheduled, ProcTypeOK
<1> QED
  BY <1>1, ProcInvariance, PTL

(***************************************************************************)
(* README.md:152, initDatabase and initRedis of main.go: however long a    *)
(* ping takes, a store is given up after 30 seconds of pauses and at most  *)
(* five timeouts, and not before.                                          *)
(***************************************************************************)
THEOREM StoresGetTheirTime == ProcSpec => []StoresAwaited
<1>1. ProcInv => StoresAwaited
  BY WaitsType DEF ProcInv
<1> QED
  BY <1>1, ProcInvariance, PTL

(***************************************************************************)
(* What is proved of SchedulerControl from the state after NewApplication  *)
(* holds from the first line of main to the end of the process, with the   *)
(* goroutine started before the port is bound and a death at any point.    *)
(***************************************************************************)
THEOREM SchedulerSoundInProcess ==
    ProcSpec => [](StoppedMeansCancelled /\ RunningHasLoop /\ NoLostWakeup)
<1>1. ProcInv => StoppedMeansCancelled /\ RunningHasLoop /\ NoLostWakeup
  <2>1. Launched /\ ProcInv => StoppedMeansCancelled /\ RunningHasLoop /\ NoLostWakeup
    BY InvStops, InvRuns DEF ProcInv, Scheduled
  <2>2. ~Launched /\ ProcInv => StoppedMeansCancelled /\ RunningHasLoop /\ NoLostWakeup
    BY DEF ProcInv, Scheduled, Dormant, StoppedMeansCancelled, RunningHasLoop, Ended
  <2> QED
    BY <2>1, <2>2
<1> QED
  BY <1>1, ProcInvariance, PTL

(***************************************************************************)
(* README.md:160: a process whose goroutines have ended does not have the  *)
(* lock, and one that answers its requests closes its clients only then,   *)
(* whatever starts, stops and signals overlap, panics included.            *)
(***************************************************************************)
THEOREM ProcessExitsClean == ProcSpec => [](CleanExit /\ IdleHasNoLock)
<1>1. ProcInv => CleanExit /\ IdleHasNoLock
  BY IdleInvClean DEF ProcInv, Scheduled
<1> QED
  BY <1>1, ProcInvariance, PTL

(***************************************************************************)
(* README.md:158, 171: if nobody asks to start, every batch of the process *)
(* runs with the lock, and main closes the clients after the last.         *)
(***************************************************************************)
THEOREM ProcessBatchHasKey == NoStarts => (ProcSpec => [](KeyHeldInBatch /\ BatchFinishedAtExit))
<1> SUFFICES ASSUME NoStarts PROVE ProcSpec => [](KeyHeldInBatch /\ BatchFinishedAtExit)
  OBVIOUS
<1>1. Launched /\ ProcInv => KeyHeldInBatch /\ BatchFinishedAtExit
  BY ExitInvBatches DEF ProcInv, Scheduled
<1>2. ~Launched /\ ProcInv => KeyHeldInBatch /\ BatchFinishedAtExit
  BY DEF ProcInv, Scheduled, Dormant, KeyHeldInBatch, BatchFinishedAtExit
<1> QED
  BY <1>1, <1>2, ProcInvariance, PTL
=============================================================================
