------------------------------ MODULE Process ------------------------------
(***************************************************************************)
(* The life of one server process, cmd/server/main.go: NewApplication with *)
(* initDatabase and initRedis, the HTTP server, waitForShutdown.  What it  *)
(* does once the scheduler is started is module SchedulerControl, which    *)
(* this module precedes with the start-up and restricts to what can happen *)
(* at each stage: no request before the port is bound, no graceful         *)
(* shutdown before signal.Notify.                                          *)
(*                                                                         *)
(* The scheduler is started before the HTTP server is.  If the port turns  *)
(* out to be taken, logger.Fatal ends the process wherever its first batch *)
(* is.  Time is counted in seconds and only while a store is awaited.      *)
(***************************************************************************)
EXTENDS SchedulerControl

CONSTANT PingTime  \* the longest a ping of a store takes

ASSUME ProcessAssumption == PingTime \in Nat

VARIABLES stage,    \* how far main has come
          server,   \* the goroutine in ListenAndServe
          attempt,  \* the ping initDatabase or initRedis is at
          waited    \* seconds since its first ping

startVars == <<stage, server, attempt, waited>>
procVars == <<vars, startVars>>

Stages == {"configure",  \* loading the configuration, building the logger
           "database",   \* in initDatabase
           "redis",      \* in initRedis
           "launch",     \* about to start the scheduler
           "launched",   \* started
           "spawned",    \* the HTTP server's goroutine exists
           "serving",    \* signal.Notify was called; until then signals kill
           "failed"}     \* NewApplication returned an error

ProcInit == /\ running = FALSE
            /\ current = 1
            /\ cancelled = {}
            /\ loop = [n \in Ids |-> "none"]
            /\ watch = [n \in Ids |-> 0]
            /\ call = [c \in Threads |-> "idle"]
            /\ key = "free"
            /\ acquired = FALSE
            /\ stage = "configure"
            /\ server = "none"
            /\ attempt = 1
            /\ waited = 0

----------------------------------------------------------------------------
(* NewApplication                                                          *)

Advance(from, to) == stage = from /\ stage' = to

Configure == /\ Advance("configure", "database")
             /\ UNCHANGED <<vars, server, attempt, waited>>

\* Load or initLogger returns an error: os.Exit(1).
ConfigureFails == /\ Advance("configure", "failed")
                  /\ Die
                  /\ UNCHANGED <<server, attempt, waited>>

maxRetries == 5

\* Seeded fault: the pause grows with the attempt, not with its square.
BackoffLinear(n) == n

Backoff(n) == n * n

Connected(store, next) == /\ Advance(store, next)
                          /\ attempt' = 1
                          /\ waited' = 0
                          /\ UNCHANGED <<vars, server>>

\* Seeded fault: one attempt too many.
RetryOnceMore(store) == /\ stage = store
                        /\ attempt <= maxRetries
                        /\ waited' = waited + PingTime
                        /\ attempt' = attempt + 1
                        /\ UNCHANGED <<vars, stage, server>>

\* The ping was refused at once or ran into its timeout.
Retry(store) == /\ stage = store
                /\ attempt < maxRetries
                /\ \E d \in {0, PingTime}: waited' = waited + d + Backoff(attempt)
                /\ attempt' = attempt + 1
                /\ UNCHANGED <<vars, stage, server>>

GiveUp(store) == /\ Advance(store, "failed")
                 /\ attempt = maxRetries
                 /\ \E d \in {0, PingTime}: waited' = waited + d
                 /\ Die
                 /\ UNCHANGED <<server, attempt>>

\* sql.Open fails before the first ping.
OpenFails == /\ Advance("database", "failed")
             /\ attempt = 1
             /\ Die
             /\ UNCHANGED <<server, attempt, waited>>

InitDatabase == \/ OpenFails
                \/ Connected("database", "redis")
                \/ Retry("database") \/ GiveUp("database")

InitRedis == \/ Connected("redis", "launch")
             \/ Retry("redis") \/ GiveUp("redis")

\* The first messageScheduler.Start.
Launch == /\ Advance("launch", "launched")
          /\ running' = TRUE
          /\ loop' = [loop EXCEPT ![1] = "begin"]
          /\ UNCHANGED <<current, cancelled, watch, call, lockVars, server, attempt, waited>>

\* go ListenAndServe.
GoListen == /\ Advance("launched", "spawned")
            /\ server' = "binding"
            /\ UNCHANGED <<vars, attempt, waited>>

\* waitForShutdown.
Notify == /\ Advance("spawned", "serving")
          /\ UNCHANGED <<vars, server, attempt, waited>>

Startup == Alive /\ (Configure \/ ConfigureFails \/ InitDatabase \/ InitRedis \/ Launch
                   \/ GoListen \/ Notify)

----------------------------------------------------------------------------
(* The HTTP server and the signals                                         *)

Bound == /\ server = "binding"
         /\ server' = "listening"
         /\ UNCHANGED <<vars, stage, attempt, waited>>

\* logger.Fatal exits.
BindFails == /\ server = "binding"
             /\ server' = "none"
             /\ Die
             /\ UNCHANGED <<stage, attempt, waited>>

\* SIGTERM before signal.Notify has its default effect, wherever the first
\* batch is and whether or not the port is bound.
KilledEarly == /\ stage # "serving"
               /\ Die
               /\ UNCHANGED startVars

Running == \/ \E n \in Ids: LoopStep(n) \/ SelectTick(n) \/ SelectDone(n)
           \/ \E c \in Threads: CallStep(c)
           \/ server = "listening" /\ \E c \in Clients: HandleStart(c) \/ HandleStop(c)
           \/ stage = "serving" /\ Signal
           \/ MainStep

ProcNext == \/ Startup
            \/ Alive /\ (Bound \/ BindFails \/ KilledEarly)
            \/ Alive /\ Running /\ UNCHANGED startVars
            \/ OtherProcess /\ UNCHANGED startVars

\* main itself does not wait for anything but the stores, a signal, Stop and
\* the requests.
ProcSpec == /\ ProcInit /\ [][ProcNext]_procVars
            /\ Fairness
            /\ WF_procVars(Startup)

----------------------------------------------------------------------------
(* Properties                                                              *)

ProcTypeOK == /\ TypeOK
              /\ stage \in Stages
              /\ server \in {"none", "binding", "listening"}
              /\ attempt \in 1..maxRetries
              /\ waited \in Nat

\* README.md:152: a store that answers within 30 seconds of the first ping
\* (1 + 4 + 9 + 16) is not given up, and one that does not answer is given up
\* after that and five timeouts.
StoresAwaited ==
    /\ waited <= 30 + 5 * PingTime
    /\ stage = "failed" /\ attempt > 1 => waited >= 30

\* README.md:135, 171, QUICK_REFERENCE.md:229: a process that serves requests
\* finishes its batch before it ends.
SignalFinishesBatch ==
    [][Alive /\ ~Alive' /\ server = "listening" => \A n \in Ids: loop[n] # "batch"]_procVars

\* waitForShutdown comes to an end: neither Stop nor the requests that are
\* being handled keep a process that got a signal for ever, unless somebody
\* starts the scheduler again and again, or while main waits in Stop.
ShutdownEnds == <>[]~running => (call[Main] = "signalled" ~> ~Alive)
=============================================================================
