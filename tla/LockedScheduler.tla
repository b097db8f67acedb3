-------------------------- MODULE LockedScheduler --------------------------
(***************************************************************************)
(* The scheduler loops of several server processes that share one Redis    *)
(* lock: internal/scheduler/scheduler.go with DISTRIBUTED_LOCK_ENABLED.    *)
(*                                                                         *)
(* Each process has one goroutine, processMessages, that is either inside  *)
(* processBatch (Acquire, the batch, the deferred Release) or waiting in   *)
(* its select for one of three channels: the batch ticker, the extension   *)
(* ticker (half the interval) and ctx.Done().  Both tickers hold one tick. *)
(* Because one goroutine does both, the lock is never extended while a     *)
(* batch runs.  What a batch does to the messages is module Dispatch; here *)
(* it is an amount of time, at most ProcessingTimeout.                     *)
(*                                                                         *)
(* Time is discrete.  Tick lets one unit pass for the key, the tickers and *)
(* the running calls; it waits for a call whose time is up.                *)
(*                                                                         *)
(* Start is modelled for a scheduler whose Stop has returned; what the two *)
(* do to each other when they overlap is a matter of one process.          *)
(***************************************************************************)
EXTENDS RedisLock, FiniteSets

CONSTANTS Half,               \* interval / 2 in units
          AcquireTimeout,     \* longest time from SETNX to its reply (lockCtx)
          ProcessingTimeout,  \* longest batch
          FaultyCalls,        \* the lock calls whose network may fail
          MaxFaults,          \* bound on failed calls
          MaxCrashes          \* bound on processes killed

ASSUME SchedulerAssumption ==
    /\ Half \in Nat \ {0}
    /\ AcquireTimeout \in Nat
    /\ ProcessingTimeout \in Nat
    /\ FaultyCalls \subseteq {"Acquire", "Release", "Extend"}
    /\ MaxFaults \in Nat
    /\ MaxCrashes \in Nat

VARIABLES pc,          \* where the goroutine of each process is
          left,        \* time the current call may still take
          phase,       \* time since the batch ticker fired
          tickReady,   \* a tick waits in ticker.C
          extReady,    \* a tick waits in lockExtendTicker.C
          stopping,    \* Stop was called: ctx is cancelled
          faults, crashes

loopVars == <<pc, left, phase, tickReady, extReady, stopping>>
vars == <<lockVars, loopVars, faults, crashes>>

Locations ==
    {"acquire",   \* in processBatch, about to call Acquire
     "granted",   \* SETNX set the key, the reply is on its way
     "batch",     \* in ProcessMessages
     "release",   \* in the deferred Release
     "select",    \* in the select of processMessages
     "drain",     \* the goroutine has returned, Stop is past wg.Wait
     "stopped",   \* Stop has returned
     "down"}      \* no process

TypeOK == /\ holder \in Holders
          /\ ttl \in Nat
          /\ acquired \in [Instances -> BOOLEAN]
          /\ pc \in [Instances -> Locations]
          /\ left \in [Instances -> Nat]
          /\ phase \in [Instances -> 0..(2 * Half - 1)]
          /\ tickReady \in [Instances -> BOOLEAN]
          /\ extReady \in [Instances -> BOOLEAN]
          /\ stopping \in [Instances -> BOOLEAN]
          /\ faults \in 0..MaxFaults
          /\ crashes \in 0..MaxCrashes

Init == /\ LockInit
        /\ pc = [i \in Instances |-> "acquire"]
        /\ left = [i \in Instances |-> 0]
        /\ phase = [i \in Instances |-> 0]
        /\ tickReady = [i \in Instances |-> FALSE]
        /\ extReady = [i \in Instances |-> FALSE]
        /\ stopping = [i \in Instances |-> FALSE]
        /\ faults = 0
        /\ crashes = 0

\* The goroutine of i moves on, with at most t units for what it does next.
GoFor(i, from, to, t) == /\ pc[i] = from
                         /\ pc' = [pc EXCEPT ![i] = to]
                         /\ left' = [left EXCEPT ![i] = t]
Go(i, from, to) == GoFor(i, from, to, 0)

Fault(call) == /\ call \in FaultyCalls
               /\ faults < MaxFaults
               /\ faults' = faults + 1

----------------------------------------------------------------------------
(* processBatch                                                            *)

AcquireSets(i) == /\ GoFor(i, "acquire", "granted", AcquireTimeout)
                  /\ SetNX(i)
                  /\ UNCHANGED <<acquired, phase, tickReady, extReady, stopping, faults, crashes>>

AcquireRefused(i) == /\ Go(i, "acquire", "select")
                     /\ KeyExists
                     /\ UNCHANGED <<lockVars, phase, tickReady, extReady, stopping, faults, crashes>>

\* Acquire returns an error and SETNX was not run.
AcquireFails(i) == /\ Go(i, "acquire", "select")
                   /\ Fault("Acquire")
                   /\ UNCHANGED <<lockVars, phase, tickReady, extReady, stopping, crashes>>

AcquireReturns(i) == /\ GoFor(i, "granted", "batch", ProcessingTimeout)
                     /\ Granted(i)
                     /\ UNCHANGED <<holder, ttl, phase, tickReady, extReady, stopping, faults, crashes>>

\* SETNX was run and its reply is lost: the key stays, the flag is not set.
AcquireReplyLost(i) == /\ Go(i, "granted", "select")
                       /\ Fault("Acquire")
                       /\ UNCHANGED <<lockVars, phase, tickReady, extReady, stopping, crashes>>

BatchEnds(i) == /\ Go(i, "batch", "release")
                /\ UNCHANGED <<lockVars, phase, tickReady, extReady, stopping, faults, crashes>>

ReleaseReturns(i) == /\ Go(i, "release", "select")
                     /\ Release(i)
                     /\ UNCHANGED <<phase, tickReady, extReady, stopping, faults, crashes>>

ReleaseErrs(i) == /\ Go(i, "release", "select")
                  /\ ReleaseFailed(i)
                  /\ Fault("Release")
                  /\ UNCHANGED <<phase, tickReady, extReady, stopping, crashes>>

----------------------------------------------------------------------------
(* The select of processMessages                                           *)

SelectTick(i) == /\ Go(i, "select", "acquire")
                 /\ tickReady[i]
                 /\ tickReady' = [tickReady EXCEPT ![i] = FALSE]
                 /\ UNCHANGED <<lockVars, phase, extReady, stopping, faults, crashes>>

TakeExtendTick(i) == /\ pc[i] = "select"
                     /\ extReady[i]
                     /\ extReady' = [extReady EXCEPT ![i] = FALSE]
                     /\ UNCHANGED <<pc, left, phase, tickReady, stopping, crashes>>

ExtendNotHeld(i) == /\ TakeExtendTick(i)
                    /\ ~acquired[i]
                    /\ UNCHANGED <<lockVars, faults>>

ExtendReturns(i) == /\ TakeExtendTick(i)
                    /\ Extend(i)
                    /\ UNCHANGED faults

ExtendErrs(i) == /\ TakeExtendTick(i)
                 /\ ExtendFailed(i)
                 /\ Fault("Extend")

SelectExtend(i) == ExtendNotHeld(i) \/ ExtendReturns(i) \/ ExtendErrs(i)

SelectDone(i) == /\ Go(i, "select", "drain")
                 /\ stopping[i]
                 /\ UNCHANGED <<lockVars, phase, tickReady, extReady, stopping, faults, crashes>>

----------------------------------------------------------------------------
(* Stop, Start, the death and the birth of a process                       *)

HasLoop(i) == pc[i] \notin {"drain", "stopped", "down"}

\* Stop up to wg.Wait: cancel, running = false, lockExtendTicker.Stop (which
\* also takes back a tick that waits in the channel).
RequestStop(i) == /\ HasLoop(i)
                  /\ ~stopping[i]
                  /\ stopping' = [stopping EXCEPT ![i] = TRUE]
                  /\ extReady' = [extReady EXCEPT ![i] = FALSE]
                  /\ UNCHANGED <<lockVars, pc, left, phase, tickReady, faults, crashes>>

\* The rest of Stop: the lock is released if the flag says it is held.
DrainNotHeld(i) == /\ Go(i, "drain", "stopped")
                   /\ ~acquired[i]
                   /\ UNCHANGED <<lockVars, phase, tickReady, extReady, stopping, faults, crashes>>

DrainReleases(i) == /\ Go(i, "drain", "stopped")
                    /\ Release(i)
                    /\ UNCHANGED <<phase, tickReady, extReady, stopping, faults, crashes>>

DrainErrs(i) == /\ Go(i, "drain", "stopped")
                /\ ReleaseFailed(i)
                /\ Fault("Release")
                /\ UNCHANGED <<phase, tickReady, extReady, stopping, crashes>>

NewLoop(i) == /\ phase' = [phase EXCEPT ![i] = 0]
              /\ tickReady' = [tickReady EXCEPT ![i] = FALSE]
              /\ extReady' = [extReady EXCEPT ![i] = FALSE]
              /\ stopping' = [stopping EXCEPT ![i] = FALSE]

\* Start after Stop, by the HTTP API: the same lock object, whatever its flag.
StartAgain(i) == /\ Go(i, "stopped", "acquire")
                 /\ NewLoop(i)
                 /\ UNCHANGED <<lockVars, faults, crashes>>

Crash(i) == /\ pc[i] # "down"
            /\ crashes < MaxCrashes
            /\ crashes' = crashes + 1
            /\ pc' = [pc EXCEPT ![i] = "down"]
            /\ left' = [left EXCEPT ![i] = 0]
            /\ Forget(i)
            /\ NewLoop(i)
            /\ UNCHANGED faults

\* NewApplication starts the scheduler, main.go:155.
Boot(i) == /\ Go(i, "down", "acquire")
           /\ UNCHANGED <<lockVars, phase, tickReady, extReady, stopping, faults, crashes>>

----------------------------------------------------------------------------
(* Time                                                                    *)

Timed == {"granted", "batch"}

\* Seeded fault: the batch ticker is one unit late.
NextPhaseLate(i) == IF phase[i] = 2 * Half THEN 0 ELSE phase[i] + 1

NextPhase(i) == IF phase[i] = 2 * Half - 1 THEN 0 ELSE phase[i] + 1

Tick == /\ \A i \in Instances: pc[i] \in Timed => left[i] > 0
        /\ Expire
        /\ left' = [i \in Instances |-> IF pc[i] \in Timed THEN left[i] - 1 ELSE 0]
        /\ phase' = [i \in Instances |-> IF HasLoop(i) THEN NextPhase(i) ELSE 0]
        /\ tickReady' = [i \in Instances |->
              tickReady[i] \/ (HasLoop(i) /\ NextPhase(i) = 0)]
        /\ extReady' = [i \in Instances |->
              \/ extReady[i]
              \/ HasLoop(i) /\ ~stopping[i] /\ NextPhase(i) \in {0, Half}]
        /\ UNCHANGED <<acquired, pc, stopping, faults, crashes>>

----------------------------------------------------------------------------
\* What the goroutine of i does without waiting for a channel.
Proceed(i) == \/ AcquireSets(i) \/ AcquireRefused(i) \/ AcquireFails(i)
              \/ AcquireReturns(i) \/ AcquireReplyLost(i)
              \/ BatchEnds(i)
              \/ ReleaseReturns(i) \/ ReleaseErrs(i)
              \/ DrainNotHeld(i) \/ DrainReleases(i) \/ DrainErrs(i)

Select(i) == SelectTick(i) \/ SelectExtend(i) \/ SelectDone(i)

Control(i) == RequestStop(i) \/ StartAgain(i) \/ Crash(i) \/ Boot(i)

Next == \/ Tick
        \/ \E i \in Instances: Proceed(i) \/ Select(i) \/ Control(i)

Spec == Init /\ [][Next]_vars

\* The runtime schedules a goroutine that can run, every call returns, and a
\* select takes a case that is ready.  Nothing obliges anybody to stop, start,
\* kill or boot a process, and no call is obliged to fail.
Fairness == /\ WF_vars(Tick)
            /\ \A i \in Instances: /\ WF_vars(Proceed(i))
                                   /\ WF_vars(SelectTick(i))
                                   /\ WF_vars(SelectExtend(i))
                                   /\ WF_vars(SelectDone(i))

FairSpec == Spec /\ Fairness

----------------------------------------------------------------------------
(* Properties                                                              *)

\* README.md:158: at most one instance is inside ProcessMessages.
Mutex == \A i, j \in Instances: pc[i] = "batch" /\ pc[j] = "batch" => i = j

\* The key outlives the longest batch that may still run, from the moment it
\* is set: an instance that processes still owns the key, and will to the end,
\* although nothing extends it meanwhile.
KeyOutlivesBatch ==
    \A i \in Instances:
        /\ pc[i] = "granted" =>
             holder = i /\ (ttl = 0 \/ ttl > left[i] + ProcessingTimeout)
        /\ pc[i] = "batch" =>
             holder = i /\ (ttl = 0 \/ ttl > left[i])

\* The lock object's flag is set outside a batch only after a lock call has
\* failed, so without failures the extension ticker extends nothing.
FlagFollowsBatch ==
    \A i \in Instances:
        acquired[i] /\ pc[i] \notin {"batch", "release"} => faults > 0

\* A step of instance i: its goroutine moves or takes an extension tick.
StepOf(i) == \/ pc'[i] # pc[i]
             \/ extReady[i] /\ ~extReady'[i]

\* An instance that believes it holds the lock (a late Release, the Extend of
\* an object whose Release failed) never deletes or prolongs another's key.
ForeignKeyUntouched ==
    [][\A i, j \in Instances:
         i # j /\ holder = i /\ StepOf(j) => holder' = i /\ ttl' = ttl]_vars

\* A key that nobody believes in any more: its process was killed, or the
\* reply to the SETNX that set it was lost.
Orphaned == \/ holder = Gone
            \/ \E i \in Instances: holder = i /\ ~acquired[i] /\ pc[i] # "granted"

\* TIER2_IMPLEMENTATION.md:500, the reason why an instance takes over: an
\* orphaned key is bound to expire, within the configured time, and until it
\* is gone nobody prolongs it and nobody makes it his own.
OrphanExpires ==
    [][Orphaned /\ TTL > 0 =>
         /\ ttl \in 1..TTL
         /\ holder' = NoOne \/ (Orphaned' /\ ttl' <= ttl)]_vars

Up(i) == HasLoop(i) /\ ~stopping[i]

\* README.md:159, TIER2_IMPLEMENTATION.md:500: whatever happened to the holder
\* (killed, reply lost), its key expires, and as long as some instance stays
\* up, batches are processed again and again.
Failover == \A i \in Instances: <>[]Up(i) => []<>(\E j \in Instances: pc[j] = "batch")

\* The lock implements mutual exclusion of batches.
Batches == INSTANCE BatchMutex WITH active <- {i \in Instances: pc[i] = "batch"}
BatchesExclude == Batches!Spec

----------------------------------------------------------------------------
(* Where the key has to last: the condition the configuration must meet.   *)
LongTTL == TTL = 0 \/ TTL > AcquireTimeout + ProcessingTimeout
=============================================================================
