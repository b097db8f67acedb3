------------------------------- MODULE System -------------------------------
(***************************************************************************)
(* The instances as a whole: the scheduler loops of LockedScheduler with   *)
(* ProcessMessages of Dispatch as what they do in a batch.                 *)
(*                                                                         *)
(* processBatch (internal/scheduler/scheduler.go) calls ProcessMessages    *)
(* once, after Acquire and before the deferred Release.  A batch begins    *)
(* with the query of GetUnsentMessages and ends when ProcessMessages has   *)
(* returned.  Dispatch is taken without its assumption: nothing but the    *)
(* lock keeps the batches of two instances apart here (Exclusive is FALSE),*)
(* and that they are kept apart is what SystemDispatches states.           *)
(***************************************************************************)
EXTENDS LockedScheduler

CONSTANTS Messages, Malformed, Poison,  \* see Dispatch
          MaxLosses,                    \* bound on failed calls and crashes in a batch
          MaxFailures                   \* bound on faults and losses together

ASSUME SystemAssumption ==
    /\ Messages \subseteq Nat
    /\ IsFiniteSet(Messages)
    /\ Malformed \subseteq Messages
    /\ Poison \subseteq Messages
    /\ MaxLosses \in Nat
    /\ MaxFailures \in Nat

VARIABLES rows, cache, accepted, late, place, batch, delivery, marked, ahead,
          losses

dispatchVars == <<rows, cache, accepted, late, place, batch, delivery, marked,
                  ahead, losses>>
sysVars == <<vars, dispatchVars>>

Work == INSTANCE Dispatch WITH
            Workers <- Instances, Exclusive <- FALSE, MaxFaults <- MaxLosses,
            pc <- place, faults <- losses

\* The same with the assumption that batches are serialised.
Serial == INSTANCE Dispatch WITH
            Workers <- Instances, Exclusive <- TRUE, MaxFaults <- MaxLosses,
            pc <- place, faults <- losses

SysInit == Init /\ Work!Init

----------------------------------------------------------------------------
\* Acquire has returned nil: ProcessMessages starts with its query.
Begin(i) == AcquireReturns(i) /\ Work!BeginBatch(i)

InBatch(i) == /\ pc[i] = "batch" /\ place[i] # "idle"
              /\ Work!Work(i)
              /\ UNCHANGED vars

\* Seeded fault: ProcessMessages goes on in the background.
EndUnfinished(i) == /\ BatchEnds(i)
                    /\ UNCHANGED dispatchVars

\* ProcessMessages has returned.
End(i) == /\ place[i] = "idle"
          /\ BatchEnds(i)
          /\ UNCHANGED dispatchVars

\* The death of a process in a batch is one in ProcessMessages.
Killed(i) == /\ Crash(i)
             /\ IF place[i] = "idle" THEN UNCHANGED dispatchVars ELSE Work!Crash(i)

\* processBatch outside ProcessMessages.
OutsideBatch(i) == \/ AcquireSets(i) \/ AcquireRefused(i) \/ AcquireFails(i)
                   \/ AcquireReplyLost(i)
                   \/ ReleaseReturns(i) \/ ReleaseErrs(i)
                   \/ DrainNotHeld(i) \/ DrainReleases(i) \/ DrainErrs(i)

Goroutine(i) == \/ Begin(i) \/ InBatch(i) \/ End(i)
                \/ OutsideBatch(i) /\ UNCHANGED dispatchVars

Stores == \E m \in Messages: \/ Work!LateAccept(m) \/ Work!LateDrop(m)
                             \/ Work!CacheExpires(m) \/ Work!Insert(m)

Step == \/ \E i \in Instances:
              \/ Goroutine(i) \/ Killed(i)
              \/ /\ Select(i) \/ RequestStop(i) \/ StartAgain(i) \/ Boot(i)
                 /\ UNCHANGED dispatchVars
        \/ Tick /\ UNCHANGED dispatchVars
        \/ Stores /\ UNCHANGED vars

SysNext == Step /\ faults' + losses' <= MaxFailures

SysSpec == SysInit /\ [][SysNext]_sysVars

\* A goroutine that can run does, its calls return, and a batch tick that waits
\* is taken.  The other two cases of the select need no fairness here.
SysFairness == /\ WF_sysVars(Tick /\ UNCHANGED dispatchVars)
               /\ \A i \in Instances:
                     WF_sysVars(\/ Goroutine(i)
                                \/ SelectTick(i) /\ UNCHANGED dispatchVars)

FairSysSpec == SysSpec /\ SysFairness

----------------------------------------------------------------------------
(* Properties                                                              *)

\* README.md:158: the lock does for dispatching what Dispatch assumes of it.
\* However acquisitions, expiries, failures, stops and deaths fall, a batch
\* begins only when no other is in ProcessMessages; so what Dispatch promises
\* under Exclusive holds of the instances.
SystemDispatches == Serial!Spec

\* README.md:159, 166: through a lost reply, a dead holder and failed calls, a
\* message is delivered in the end if some instance stays up, whichever
\* instance it is that the lock lets through; unless a failed Release has left
\* its flag set for good (Failover of LockedScheduler).
Delivered ==
    (\A j \in Instances: []<>~acquired[j]) =>
       \A i \in Instances: <>[]Up(i) =>
          \A m \in Messages \ (Poison \cup Malformed):
             rows[m] = "unsent" ~> rows[m] = "sent"

\* README.md:161, 169: the lock is extended during a batch, and what two
\* instances select does not overlap; so without a failure no message reaches
\* the provider twice, whatever the expiry of the key.
NoDuplicateInSystem == faults = 0 => Work!NoDuplicateWithoutFault
=============================================================================
