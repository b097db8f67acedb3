-------------------------- MODULE SchedulerControl --------------------------
(***************************************************************************)
(* Starting and stopping the scheduler of one process: Start, Stop and     *)
(* IsRunning of internal/scheduler/scheduler.go, the HTTP handlers that    *)
(* call them (internal/handler/message_handler.go) and the shutdown of the *)
(* process (waitForShutdown in cmd/server/main.go).                        *)
(*                                                                         *)
(* Handlers run concurrently, test IsRunning and act afterwards.  Stop     *)
(* gives up runningMux before it waits for the goroutine, and the          *)
(* goroutine reads the field s.ctx anew each time round its loop: a Start  *)
(* may come in between, replace s.ctx and add a second goroutine.          *)
(*                                                                         *)
(* The n-th call of Start that starts anything makes context n and         *)
(* goroutine n.  The WaitGroup's counter is the number of goroutines that  *)
(* have not ended.  The Redis lock is here a key that is free, this        *)
(* process's, or another's; its failures and its expiry are the matter of  *)
(* LockedScheduler, and with them the extension ticker.                    *)
(***************************************************************************)
EXTENDS Naturals

CONSTANTS Clients,       \* concurrent requests to the HTTP API
          Main,          \* the goroutine of main
          Calls,         \* which of "start" and "stop" the clients request
          MaxStarts,     \* bound on goroutines started
          LockEnabled    \* DISTRIBUTED_LOCK_ENABLED

ASSUME ControlAssumption ==
    /\ Main \notin Clients
    /\ Calls \subseteq {"start", "stop"}
    /\ MaxStarts \in Nat \ {0}
    /\ LockEnabled \in BOOLEAN

VARIABLES running,     \* s.running
          current,     \* which context s.ctx and s.cancel belong to
          cancelled,   \* the contexts that are cancelled
          loop,        \* where goroutine n is
          watch,       \* the context goroutine n waits for in its select
          call,        \* where each request, and main, is
          key,         \* whose the Redis key is
          acquired     \* the lock object's flag

schedVars == <<running, current, cancelled>>
lockVars == <<key, acquired>>
vars == <<schedVars, loop, watch, call, lockVars>>

Ids == 1..MaxStarts
Threads == Clients \cup {Main}

LoopPlaces == {"none",     \* not started
               "begin",    \* at the top of processBatch
               "batch",    \* in ProcessMessages
               "release",  \* in the deferred Release
               "top",      \* about to evaluate s.ctx.Done()
               "select",   \* blocked in the select
               "done"}     \* returned, wg.Done called

CallPlaces == {"idle",       \* a client without a request; main serving
               "toStart",    \* the handler saw IsRunning false
               "toStop",     \* the handler, or main, saw IsRunning true
               "unlocked",   \* Stop has unlocked runningMux
               "waiting",    \* Stop is blocked in wg.Wait
               "woken",      \* wg.Wait was woken and has not returned
               "drained",    \* Stop is past wg.Wait
               "signalled",  \* main got SIGTERM
               "http",       \* main is in httpServer.Shutdown
               "closed",     \* Shutdown returned and main closed the clients
               "abandoned",  \* main closed the clients after SHUTDOWN_TIMEOUT
               "exited"}

\* httpServer.Shutdown has closed the port.
PortClosed == {"http", "closed", "abandoned", "exited"}

TypeOK == /\ running \in BOOLEAN
          /\ current \in Ids
          /\ cancelled \subseteq Ids
          /\ loop \in [Ids -> LoopPlaces]
          /\ watch \in [Ids -> 0..MaxStarts]
          /\ call \in [Threads -> CallPlaces]
          /\ key \in {"free", "mine", "theirs"}
          /\ acquired \in BOOLEAN

\* NewApplication has called Start once.
Init == /\ running = TRUE
        /\ current = 1
        /\ cancelled = {}
        /\ loop = [n \in Ids |-> IF n = 1 THEN "begin" ELSE "none"]
        /\ watch = [n \in Ids |-> 0]
        /\ call = [c \in Threads |-> "idle"]
        /\ key = "free"
        /\ acquired = FALSE

Ended == {"none", "done"}
NoLoops == \A n \in Ids: loop[n] \in Ended

----------------------------------------------------------------------------
(* The goroutine, processMessages                                          *)

LoopGo(n, from, to) == /\ loop[n] = from
                       /\ loop' = [loop EXCEPT ![n] = to]

\* Acquire: SETNX, or no lock at all.
BeginBatch(n) == /\ LoopGo(n, "begin", "batch")
                 /\ IF LockEnabled THEN key = "free" /\ key' = "mine" /\ acquired' = TRUE
                    ELSE UNCHANGED lockVars
                 /\ UNCHANGED <<schedVars, watch, call>>

SkipBatch(n) == /\ LoopGo(n, "begin", "top")
                /\ LockEnabled /\ key # "free"
                /\ UNCHANGED <<schedVars, watch, call, lockVars>>

EndBatch(n) == /\ LoopGo(n, "batch", IF LockEnabled THEN "release" ELSE "top")
               /\ UNCHANGED <<schedVars, watch, call, lockVars>>

\* Release of the lock object: nothing unless the flag is set, then compare
\* and delete; the value is the same for every goroutine of the process.
Release == /\ key' = IF acquired /\ key = "mine" THEN "free" ELSE key
           /\ acquired' = FALSE

\* Seeded fault: the deferred Release is given the scheduler's own context.
ReleaseUnlessCancelled(n) == /\ LoopGo(n, "release", "top")
                             /\ IF current \in cancelled THEN UNCHANGED lockVars ELSE Release
                             /\ UNCHANGED <<schedVars, watch, call>>

ReleaseLock(n) == /\ LoopGo(n, "release", "top")
                  /\ Release
                  /\ UNCHANGED <<schedVars, watch, call>>

EvaluateDone(n) == /\ LoopGo(n, "top", "select")
                   /\ watch' = [watch EXCEPT ![n] = current]
                   /\ UNCHANGED <<schedVars, call, lockVars>>

\* The batch ticker, whose tick may also win against a cancelled context.
SelectTick(n) == /\ LoopGo(n, "select", "begin")
                 /\ UNCHANGED <<schedVars, watch, call, lockVars>>

\* Seeded fault: processMessages returns without wg.Done.
WakeNobody(m) == call

\* The last goroutine to end wakes everybody in wg.Wait.
Wake(m) == [c \in Threads |->
              IF call[c] = "waiting" /\ \A n \in Ids \ {m}: loop[n] \in Ended
              THEN "woken" ELSE call[c]]

SelectDone(n) == /\ LoopGo(n, "select", "done")
                 /\ watch[n] \in cancelled
                 /\ call' = Wake(n)
                 /\ UNCHANGED <<schedVars, watch, lockVars>>

----------------------------------------------------------------------------
(* Start and Stop                                                          *)

CallGo(c, from, to) == /\ call[c] = from
                       /\ call' = [call EXCEPT ![c] = to]

\* Where the caller of Stop or Start goes when the call returns.
Return(c) == IF c = Main THEN "http" ELSE "idle"

\* The handlers and main test IsRunning first.
HandleStart(c) == /\ CallGo(c, "idle", IF running THEN "idle" ELSE "toStart")
                  /\ c # Main /\ "start" \in Calls
                  /\ call[Main] \notin PortClosed
                  /\ UNCHANGED <<schedVars, loop, watch, lockVars>>

HandleStop(c) == /\ CallGo(c, "idle", IF running THEN "toStop" ELSE "idle")
                 /\ c # Main /\ "stop" \in Calls
                 /\ call[Main] \notin PortClosed
                 /\ UNCHANGED <<schedVars, loop, watch, lockVars>>

\* Seeded faults: Start without the test of running; with the cancelled
\* context of the last run.
StartUntested(c) == /\ CallGo(c, "toStart", "idle")
                    /\ current < MaxStarts
                    /\ running' = TRUE
                    /\ current' = current + 1
                    /\ loop' = [loop EXCEPT ![current + 1] = "begin"]
                    /\ UNCHANGED <<cancelled, watch, lockVars>>

StartOldContext(c) == /\ CallGo(c, "toStart", "idle")
                      /\ ~running
                      /\ running' = TRUE
                      /\ loop' = [loop EXCEPT ![current] = "begin"]
                      /\ UNCHANGED <<current, cancelled, watch, lockVars>>

Start(c) == /\ CallGo(c, "toStart", "idle")
            /\ ~running
            /\ current < MaxStarts
            /\ running' = TRUE
            /\ current' = current + 1
            /\ loop' = [loop EXCEPT ![current + 1] = "begin"]
            /\ UNCHANGED <<cancelled, watch, lockVars>>

StartAgain(c) == /\ CallGo(c, "toStart", "idle")
                 /\ running
                 /\ UNCHANGED <<schedVars, loop, watch, lockVars>>

\* Seeded fault: s.cancel is not called.
StopForgetsCancel(c) == /\ CallGo(c, "toStop", "unlocked")
                        /\ running
                        /\ running' = FALSE
                        /\ UNCHANGED <<current, cancelled, loop, watch, lockVars>>

\* Up to the unlock, lines 69-78.
StopCancels(c) == /\ CallGo(c, "toStop", "unlocked")
                  /\ running
                  /\ running' = FALSE
                  /\ cancelled' = cancelled \cup {current}
                  /\ UNCHANGED <<current, loop, watch, lockVars>>

StopAgain(c) == /\ CallGo(c, "toStop", Return(c))
                /\ ~running
                /\ UNCHANGED <<schedVars, loop, watch, lockVars>>

Wait(c) == /\ CallGo(c, "unlocked", IF NoLoops THEN "drained" ELSE "waiting")
           /\ UNCHANGED <<schedVars, loop, watch, lockVars>>

WaitReturns(c) == /\ CallGo(c, "woken", "drained")
                  /\ NoLoops
                  /\ UNCHANGED <<schedVars, loop, watch, lockVars>>

\* wg.Add came between the wake-up and the return: Wait panics.  The router
\* recovers the panic of a handler.
WaitPanics(c) == /\ CallGo(c, "woken", "idle")
                 /\ c # Main
                 /\ ~NoLoops
                 /\ UNCHANGED <<schedVars, loop, watch, lockVars>>

\* Lines 93-97: whoever holds the lock by now.
StopReleases(c) == /\ CallGo(c, "drained", Return(c))
                   /\ IF LockEnabled /\ acquired THEN Release ELSE UNCHANGED lockVars
                   /\ UNCHANGED <<schedVars, loop, watch>>

----------------------------------------------------------------------------
(* The end of the process                                                  *)

Signal == /\ CallGo(Main, "idle", "signalled")
          /\ UNCHANGED <<schedVars, loop, watch, lockVars>>

TestRunning == /\ CallGo(Main, "signalled", IF running THEN "toStop" ELSE "http")
               /\ UNCHANGED <<schedVars, loop, watch, lockVars>>

\* Seeded fault: httpServer.Close instead of Shutdown.
HandlersIgnored == TRUE

\* httpServer.Shutdown accepts no new requests and returns when those under
\* way are answered.  The clients are closed next.
HandlersDone == \A c \in Clients: call[c] = "idle"

CloseStores == /\ CallGo(Main, "http", "closed")
               /\ HandlersDone
               /\ UNCHANGED <<schedVars, loop, watch, lockVars>>

\* Or its deadline, counted from before Stop, is over.
ShutdownTimesOut == /\ CallGo(Main, "http", "abandoned")
                    /\ UNCHANGED <<schedVars, loop, watch, lockVars>>

\* The process ends, and everything in it.
Die == /\ call' = [c \in Threads |-> IF c = Main THEN "exited" ELSE "idle"]
       /\ loop' = [n \in Ids |-> IF loop[n] = "none" THEN "none" ELSE "done"]
       /\ UNCHANGED <<schedVars, watch, lockVars>>

Exit == call[Main] \in {"closed", "abandoned"} /\ Die

\* Nobody recovers the panic of wg.Wait in main.
MainPanics == call[Main] = "woken" /\ ~NoLoops /\ Die

\* Another process acquires or releases the lock.
OtherProcess == /\ LockEnabled
                /\ \/ key = "free" /\ key' = "theirs"
                   \/ key = "theirs" /\ key' = "free"
                /\ UNCHANGED <<schedVars, loop, watch, call, acquired>>

----------------------------------------------------------------------------
LoopStep(n) == \/ BeginBatch(n) \/ SkipBatch(n) \/ EndBatch(n) \/ ReleaseLock(n)
               \/ EvaluateDone(n)

CallStep(c) == \/ Start(c) \/ StartAgain(c)
               \/ StopCancels(c) \/ StopAgain(c)
               \/ Wait(c) \/ WaitReturns(c) \/ WaitPanics(c)
               \/ StopReleases(c)

MainStep == TestRunning \/ CloseStores \/ ShutdownTimesOut \/ Exit \/ MainPanics

Alive == call[Main] # "exited"

Next == \/ Alive /\ \E n \in Ids: LoopStep(n) \/ SelectTick(n) \/ SelectDone(n)
        \/ Alive /\ \E c \in Threads: CallStep(c) \/ HandleStart(c) \/ HandleStop(c)
        \/ MainStep \/ Signal
        \/ OtherProcess

Spec == Init /\ [][Next]_vars

\* Goroutines that can run do; a select that meets ticks and a cancelled
\* context again and again takes the context some time, because Go picks at
\* random among the cases that are ready.  Ticks, requests, signals and other
\* processes come when they like.
Fairness == /\ \A n \in Ids: /\ WF_vars(Alive /\ LoopStep(n))
                             /\ SF_vars(Alive /\ SelectDone(n))
            /\ \A c \in Threads: WF_vars(Alive /\ CallStep(c))
            /\ WF_vars(MainStep)

FairSpec == Spec /\ Fairness

----------------------------------------------------------------------------
(* Properties                                                              *)

\* However starts and stops overlap, a stopped scheduler has no goroutine that
\* could go on for ever: the context each will see, or is blocked on, is
\* cancelled.  A running one has a context that is not.
StoppedMeansCancelled ==
    /\ ~running => \A n \in Ids: loop[n] \notin Ended =>
                      /\ current \in cancelled
                      /\ loop[n] = "select" => watch[n] \in cancelled
    /\ running => current \notin cancelled

\* IsRunning is not a lie: while it says true and the process lives, the newest
\* goroutine is there and nothing has told it to end.
RunningHasLoop ==
    running /\ Alive => /\ loop[current] \notin Ended
                        /\ loop[current] = "select" => watch[current] = current

\* A request that is blocked in wg.Wait has a goroutine to wait for: whichever
\* ends last wakes it, in whatever order the requests came to wait.
NoLostWakeup == (\E c \in Threads: call[c] = "waiting") => ~NoLoops

\* When the scheduler is stopped for good, all its goroutines end.
Quiesces == <>[]~running => <>[]NoLoops

\* A request to stop, or main's, returns if the scheduler is not started again.
StopReturns == <>[]~running => \A c \in Threads: <>[](call[c] \notin {"unlocked", "waiting"})

\* README.md:160, 171: however requests to start and to stop met the shutdown,
\* main closes the clients of a stopped scheduler after its last batch and
\* leaves the lock to others, unless it gave up on the requests under way.
CleanExit == call[Main] = "closed" /\ ~running => NoLoops /\ key # "mine" /\ ~acquired

\* README.md:160: the lock does not survive the goroutine that took it.  When
\* none is left, and whatever calls overlapped, one of them panicking in
\* wg.Wait among them, other processes may take it.
IdleHasNoLock == Alive /\ NoLoops => key # "mine" /\ ~acquired

\* README.md:171: the current batch is finished before shutting down.
BatchFinishedAtExit == call[Main] = "closed" => \A n \in Ids: loop[n] # "batch"

\* README.md:158: a process that is in a batch has the lock.
KeyHeldInBatch == LockEnabled => \A n \in Ids: loop[n] = "batch" => key = "mine"
=============================================================================
