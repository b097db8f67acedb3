---------------------------- MODULE SystemProofs ----------------------------
(***************************************************************************)
(* Proofs about System: with an expiry longer than the reply to SETNX and  *)
(* a batch together, the instances dispatch as Dispatch describes it under *)
(* the assumption that batches are serialised.                             *)
(*                                                                         *)
(* The argument couples the two halves of the state: an instance that is   *)
(* in ProcessMessages is in a batch, and one in a batch owns the key       *)
(* (KeyOutlivesBatch).  So when SETNX has granted the key to an instance,  *)
(* no other is in ProcessMessages.                                         *)
(***************************************************************************)
EXTENDS System, LockedSchedulerProofs, InputProofs

Coupled == /\ DOMAIN place = Instances
           /\ \A i \in Instances: place[i] # "idle" => pc[i] = "batch"

SysInv == TypeOK /\ KeyOutlivesBatch /\ Coupled

\* What a worker does inside ProcessMessages, without its first step.
Inside(i) == \/ Serial!Fetched(i) \/ Serial!FetchFails(i)
             \/ Serial!Send(i) \/ Serial!Accept(i) \/ Serial!Answer(i)
             \/ Serial!AnswerLost(i) \/ Serial!Reject(i) \/ Serial!Timeout(i)
             \/ Serial!Mark(i) \/ Serial!MarkNone(i) \/ Serial!MarkFails(i)
             \/ Serial!Cache(i) \/ Serial!CacheFails(i)

\* Only the first step depends on the assumption.
LEMMA SameFirst ==
  ASSUME NEW i \in Instances, Work!BeginBatch(i),
         \A j \in Instances: place[j] = "idle"
  PROVE  Serial!BeginBatch(i)
  BY DEF Work!BeginBatch, Serial!BeginBatch, Work!Go, Serial!Go,
         Work!IsFirstOf, Serial!IsFirstOf, Work!UpTo, Serial!UpTo,
         Work!batchSize, Serial!batchSize, Work!Available, Serial!Available,
         Work!Selectable, Serial!Selectable, Work!RowLocked, Serial!RowLocked,
         Work!Cardinality, Serial!Cardinality,
         Work!Precede, Serial!Precede, Work!stores, Serial!stores,
         Work!provider, Serial!provider

LEMMA SameInside ==
  ASSUME NEW i \in Instances, Work!Work(i), place[i] # "idle"
  PROVE  Inside(i)
<1>1. ~Work!BeginBatch(i)
  BY DEF Work!BeginBatch, Work!Go
<1> QED
  BY <1>1 DEF Inside, Work!Work, Work!Go, Serial!Go, Work!Fault, Serial!Fault,
     Work!NextMessage, Serial!NextMessage, Work!Current, Serial!Current,
     Work!RowLocked, Serial!RowLocked, Work!UpdateRow, Serial!UpdateRow,
     Work!stores, Serial!stores, Work!provider, Serial!provider,
     Work!Fetched, Serial!Fetched, Work!FetchFails, Serial!FetchFails,
     Work!Send, Serial!Send, Work!Accept, Serial!Accept, Work!Answer, Serial!Answer,
     Work!AnswerLost, Serial!AnswerLost, Work!Reject, Serial!Reject,
     Work!Timeout, Serial!Timeout, Work!Mark, Serial!Mark,
     Work!MarkNone, Serial!MarkNone, Work!MarkFails, Serial!MarkFails,
     Work!Cache, Serial!Cache, Work!CacheFails, Serial!CacheFails

LEMMA InsideIsNext == ASSUME NEW i \in Instances, Inside(i) PROVE Serial!Next
  BY DEF Inside, Serial!Next, Serial!Work

----------------------------------------------------------------------------
(* The steps of System as steps of its two parts.                          *)

\* Whatever happens in System is a step of LockedScheduler or leaves it alone.
LEMMA LoopsStep == SysNext => [Next]_vars
<1> SUFFICES ASSUME SysNext PROVE [Next]_vars
  OBVIOUS
<1>1. CASE \E i \in Instances: Goroutine(i)
  <2>1. PICK i \in Instances: Goroutine(i)
    BY <1>1
  <2> QED
    BY <2>1 DEF Goroutine, Begin, InBatch, End, OutsideBatch, Next, Proceed
<1>2. CASE \E i \in Instances: Killed(i)
  BY <1>2 DEF Killed, Next, Control
<1>3. CASE \E i \in Instances: Select(i) \/ RequestStop(i) \/ StartAgain(i) \/ Boot(i)
  BY <1>3 DEF Next, Control
<1>4. CASE Tick \/ UNCHANGED vars
  BY <1>4 DEF Next
<1> QED
  BY <1>1, <1>2, <1>3, <1>4 DEF SysNext, Step

\* Nothing but the end of a batch, or death, takes a goroutine out of it.
LEMMA StaysInBatch ==
  ASSUME TypeOK, NEW i \in Instances,
         \/ OutsideBatch(i) \/ AcquireReturns(i)
         \/ Select(i) \/ RequestStop(i) \/ StartAgain(i) \/ Boot(i),
         NEW j \in Instances, pc[j] = "batch"
  PROVE  pc'[j] = "batch"
<1> USE DEF TypeOK
<1>1. CASE OutsideBatch(i)
  BY <1>1 DEF OutsideBatch, AcquireSets, AcquireRefused, AcquireFails, AcquireReplyLost,
     ReleaseReturns, ReleaseErrs, DrainNotHeld, DrainReleases, DrainErrs, Go, GoFor
<1>2. CASE AcquireReturns(i)
  BY <1>2 DEF AcquireReturns, GoFor
<1>3. CASE Select(i)
  BY <1>3 DEF Select, SelectTick, SelectExtend, ExtendNotHeld, ExtendReturns, ExtendErrs,
     TakeExtendTick, SelectDone, Go, GoFor
<1>4. CASE RequestStop(i) \/ StartAgain(i) \/ Boot(i)
  BY <1>4 DEF RequestStop, StartAgain, Boot, Go, GoFor
<1> QED
  BY <1>1, <1>2, <1>3, <1>4

\* A worker moves only itself.
LEMMA OthersStay ==
  ASSUME NEW i \in Instances, Inside(i), DOMAIN place = Instances
  PROVE  /\ DOMAIN place' = Instances
         /\ \A j \in Instances \ {i}: place'[j] = place[j]
  BY DEF Inside, Serial!Go, Serial!NextMessage,
     Serial!Fetched, Serial!FetchFails, Serial!Send, Serial!Accept, Serial!Answer,
     Serial!AnswerLost, Serial!Reject, Serial!Timeout, Serial!Mark, Serial!MarkNone,
     Serial!MarkFails, Serial!Cache, Serial!CacheFails

\* When SETNX has granted the key to i, no instance is in ProcessMessages.
LEMMA GrantedAlone ==
  ASSUME SysInv, NEW i \in Instances, pc[i] = "granted",
         NEW j \in Instances
  PROVE  place[j] = "idle"
  BY DEF SysInv, Coupled, KeyOutlivesBatch

LEMMA SameStores ==
  ASSUME NEW m \in Messages,
         Work!LateAccept(m) \/ Work!LateDrop(m) \/ Work!CacheExpires(m) \/ Work!Insert(m)
  PROVE  Serial!Next /\ UNCHANGED place
<1>1. \/ Serial!LateAccept(m) \/ Serial!LateDrop(m)
      \/ Serial!CacheExpires(m) \/ Serial!Insert(m)
  BY DEF Work!LateAccept, Work!LateDrop, Work!CacheExpires, Work!Insert,
     Serial!LateAccept, Serial!LateDrop, Serial!CacheExpires, Serial!Insert,
     Work!LateRequest, Serial!LateRequest, Work!Precede, Serial!Precede,
     Work!stores, Serial!stores, Work!provider, Serial!provider,
     Work!workers, Serial!workers
<1>2. UNCHANGED place
  BY DEF Work!LateAccept, Work!LateDrop, Work!CacheExpires, Work!Insert,
     Work!LateRequest, Work!workers
<1> QED
  BY <1>1, <1>2 DEF Serial!Next

LEMMA SameCrash ==
  ASSUME NEW i \in Instances, Work!Crash(i), DOMAIN place = Instances
  PROVE  /\ Serial!Next
         /\ DOMAIN place' = Instances
         /\ place'[i] = "idle"
         /\ \A j \in Instances \ {i}: place'[j] = place[j]
<1>1. Serial!Crash(i)
  BY DEF Work!Crash, Serial!Crash, Work!Fault, Serial!Fault, Work!Current, Serial!Current,
     Work!stores, Serial!stores
<1> QED
  BY <1>1 DEF Serial!Crash, Serial!Next

LEMMA DispatchStutters == UNCHANGED dispatchVars => UNCHANGED Serial!vars /\ UNCHANGED place
  BY DEF dispatchVars, Serial!vars, Serial!stores, Serial!provider, Serial!workers

----------------------------------------------------------------------------
(* The invariant                                                           *)

LEMMA SysInvInit == SysInit => SysInv
<1> SUFFICES ASSUME SysInit PROVE SysInv
  OBVIOUS
<1>1. TypeOK /\ KeyOutlivesBatch
  BY TypeInit, KeyInit DEF SysInit
<1>2. Coupled
  BY DEF SysInit, Work!Init, Coupled
<1> QED
  BY <1>1, <1>2 DEF SysInv

\* Every step of System keeps the coupling and is one of Dispatch.
LEMMA CoupledStep ==
  ASSUME SysInv, [SysNext]_sysVars
  PROVE  Coupled' /\ [Serial!Next]_Serial!vars
<1> DEFINE Goal == Coupled' /\ [Serial!Next]_Serial!vars
<1>0. /\ TypeOK
      /\ DOMAIN place = Instances
      /\ \A i \in Instances: place[i] # "idle" => pc[i] = "batch"
  BY DEF SysInv, Coupled
<1>1. ASSUME NEW i \in Instances, Begin(i) PROVE Goal
  <2>1. AcquireReturns(i) /\ Work!BeginBatch(i)
    BY <1>1 DEF Begin
  <2>2. pc[i] = "granted" /\ pc'[i] = "batch"
    BY <2>1, <1>0 DEF AcquireReturns, GoFor, TypeOK
  <2>3. Serial!BeginBatch(i)
    BY <2>1, <2>2, GrantedAlone, SameFirst
  <2>4. \A j \in Instances \ {i}: place'[j] = place[j]
    BY <2>3, <1>0 DEF Serial!BeginBatch, Serial!Go
  <2>5. DOMAIN place' = Instances
    BY <2>3, <1>0 DEF Serial!BeginBatch, Serial!Go
  <2>6. \A j \in Instances: pc[j] = "batch" => pc'[j] = "batch"
    BY <2>1, <1>0, StaysInBatch
  <2>7. Coupled'
    BY <2>2, <2>4, <2>5, <2>6, <1>0 DEF Coupled
  <2> QED
    BY <2>3, <2>7 DEF Serial!Next, Serial!Work
<1>2. ASSUME NEW i \in Instances, InBatch(i) PROVE Goal
  <2>1. Inside(i) /\ UNCHANGED vars /\ pc[i] = "batch"
    BY <1>2, SameInside DEF InBatch
  <2>2. UNCHANGED pc
    BY <2>1 DEF vars, loopVars
  <2>3. Coupled'
    BY <2>1, <2>2, <1>0, OthersStay DEF Coupled
  <2> QED
    BY <2>1, <2>3, InsideIsNext
<1>3. ASSUME NEW i \in Instances, End(i) PROVE Goal
  <2>1. /\ place[i] = "idle"
        /\ UNCHANGED Serial!vars /\ UNCHANGED place
        /\ \A j \in Instances \ {i}: pc'[j] = pc[j]
    BY <1>3, <1>0, DispatchStutters DEF End, BatchEnds, Go, GoFor, TypeOK
  <2> QED
    BY <2>1, <1>0 DEF Coupled
<1>4. ASSUME NEW i \in Instances, Killed(i) PROVE Goal
  <2>1. \A j \in Instances \ {i}: pc'[j] = pc[j]
    BY <1>4, <1>0 DEF Killed, Crash, TypeOK
  <2>2. CASE place[i] = "idle"
    <3>1. UNCHANGED Serial!vars /\ UNCHANGED place
      BY <1>4, <2>2, DispatchStutters DEF Killed
    <3> QED
      BY <2>1, <2>2, <3>1, <1>0 DEF Coupled
  <2>3. CASE place[i] # "idle"
    <3>1. Work!Crash(i)
      BY <1>4, <2>3 DEF Killed
    <3> QED
      BY <2>1, <3>1, <1>0, SameCrash DEF Coupled
  <2> QED
    BY <2>2, <2>3
<1>5. ASSUME NEW i \in Instances, UNCHANGED dispatchVars,
             OutsideBatch(i) \/ Select(i) \/ RequestStop(i) \/ StartAgain(i) \/ Boot(i)
      PROVE  Goal
  <2>1. UNCHANGED Serial!vars /\ UNCHANGED place
    BY <1>5, DispatchStutters
  <2>2. \A j \in Instances: pc[j] = "batch" => pc'[j] = "batch"
    BY <1>5, <1>0, StaysInBatch
  <2> QED
    BY <2>1, <2>2, <1>0 DEF Coupled
<1>6. CASE Tick /\ UNCHANGED dispatchVars
  <2>1. UNCHANGED Serial!vars /\ UNCHANGED place
    BY <1>6, DispatchStutters
  <2>2. UNCHANGED pc
    BY <1>6 DEF Tick
  <2> QED
    BY <2>1, <2>2, <1>0 DEF Coupled
<1>7. CASE Stores /\ UNCHANGED vars
  <2>1. Serial!Next /\ UNCHANGED place
    BY <1>7, SameStores DEF Stores
  <2>2. UNCHANGED pc
    BY <1>7 DEF vars, loopVars
  <2> QED
    BY <2>1, <2>2, <1>0 DEF Coupled
<1>8. CASE UNCHANGED sysVars
  <2>1. UNCHANGED Serial!vars /\ UNCHANGED place /\ UNCHANGED pc
    BY <1>8, DispatchStutters DEF sysVars, vars, loopVars
  <2> QED
    BY <2>1, <1>0 DEF Coupled
<1> QED
  BY <1>1, <1>2, <1>3, <1>4, <1>5, <1>6, <1>7, <1>8 DEF SysNext, Step, Goroutine

LEMMA SysInvStep == LongTTL => (SysInv /\ [SysNext]_sysVars => SysInv')
<1> SUFFICES ASSUME LongTTL, SysInv, [SysNext]_sysVars PROVE SysInv'
  OBVIOUS
<1>1. TypeOK /\ KeyOutlivesBatch /\ [Next]_vars
  BY LoopsStep DEF SysInv, sysVars
<1>2. TypeOK' /\ KeyOutlivesBatch'
  BY <1>1, TypeStep, KeyStep
<1> QED
  BY <1>2, CoupledStep DEF SysInv

----------------------------------------------------------------------------
(* System keeps what LockedScheduler and Dispatch promise.                 *)

\* Adding what a batch does takes nothing from the scheduler loops: whatever
\* is proved of LockedScheduler (the key outlives the batch, batches exclude
\* each other, foreign keys are left alone) holds of the instances.
THEOREM LoopsRefined == SysSpec => Spec
<1>1. SysInit => Init
  BY DEF SysInit
<1>2. [SysNext]_sysVars => [Next]_vars
  BY LoopsStep DEF sysVars
<1> QED
  BY <1>1, <1>2, PTL DEF SysSpec, Spec

\* README.md:158, scheduler.go:149-197: with an expiry longer than the reply
\* to SETNX and a batch together, the instances that share the lock dispatch
\* as Dispatch says under its assumption that batches are serialised.
THEOREM LockSerialises == LongTTL => (SysSpec => SystemDispatches)
<1> SUFFICES ASSUME LongTTL PROVE SysSpec => SystemDispatches
  OBVIOUS
<1>1. SysInit => SysInv
  BY SysInvInit
<1>2. SysInv /\ [SysNext]_sysVars => SysInv'
  BY SysInvStep
<1>3. SysInv /\ [SysNext]_sysVars => [Serial!Next]_Serial!vars
  BY CoupledStep
<1>4. SysInit => Serial!Init
  BY DEF SysInit, Work!Init, Serial!Init
<1> QED
  BY <1>1, <1>2, <1>3, <1>4, PTL DEF SysSpec, SystemDispatches, Serial!Spec

----------------------------------------------------------------------------
(* What is proved of Dispatch, for the instances together.  The proofs of  *)
(* Dispatch are taken over with its constants and variables replaced, once *)
(* with and once without the assumption that batches are serialised.       *)

Ordered == INSTANCE SerialDispatchProofs WITH
               Workers <- Instances, Exclusive <- TRUE, MaxFaults <- MaxLosses,
               pc <- place, faults <- losses

Free == INSTANCE DispatchProofs WITH
            Workers <- Instances, Exclusive <- FALSE, MaxFaults <- MaxLosses,
            pc <- place, faults <- losses

\* What Dispatch assumes of its constants, System assumes too.
LEMMA DispatchAssumed == Ordered!DispatchAssumption /\ Free!DispatchAssumption
  BY SystemAssumption DEF Ordered!DispatchAssumption, Free!DispatchAssumption,
     IsFiniteSet, Ordered!IsFiniteSet, Free!IsFiniteSet

\* The dispatching of System is the one the proofs are about.
LEMMA OrderedBegin ==
  ASSUME NEW i \in Instances, Serial!BeginBatch(i)
  PROVE  Ordered!BeginBatch(i)
  BY DEF Serial!BeginBatch, Ordered!BeginBatch, Serial!Go, Ordered!Go,
         Serial!IsFirstOf, Ordered!IsFirstOf, Serial!UpTo, Ordered!UpTo,
         Serial!batchSize, Ordered!batchSize, Serial!Available,
         Ordered!Available, Serial!Selectable, Ordered!Selectable,
         Serial!RowLocked, Ordered!RowLocked, Serial!Cardinality,
         Ordered!Cardinality, Serial!Precede, Ordered!Precede, Serial!stores,
         Ordered!stores, Serial!provider, Ordered!provider

LEMMA OrderedWork ==
  ASSUME NEW i \in Instances, Serial!Work(i) \/ Serial!Crash(i)
  PROVE  Ordered!Next
<1>1. CASE Serial!BeginBatch(i)
  BY <1>1, OrderedBegin DEF Ordered!Next, Ordered!Work
<1>2. CASE ~Serial!BeginBatch(i)
  <2>1. Ordered!Work(i) \/ Ordered!Crash(i)
    BY <1>2 DEF Serial!Work, Ordered!Work, Serial!Crash, Ordered!Crash,
           Serial!Go, Ordered!Go, Serial!Fault, Ordered!Fault,
           Serial!NextMessage, Ordered!NextMessage, Serial!Current,
           Ordered!Current, Serial!RowLocked, Ordered!RowLocked,
           Serial!UpdateRow, Ordered!UpdateRow, Serial!stores, Ordered!stores,
           Serial!provider, Ordered!provider, Serial!Fetched, Ordered!Fetched,
           Serial!FetchFails, Ordered!FetchFails, Serial!Send, Ordered!Send,
           Serial!Accept, Ordered!Accept, Serial!Answer, Ordered!Answer,
           Serial!AnswerLost, Ordered!AnswerLost, Serial!Reject,
           Ordered!Reject, Serial!Timeout, Ordered!Timeout, Serial!Mark,
           Ordered!Mark, Serial!MarkNone, Ordered!MarkNone, Serial!MarkFails,
           Ordered!MarkFails, Serial!Cache, Ordered!Cache, Serial!CacheFails,
           Ordered!CacheFails
  <2> QED
    BY <2>1 DEF Ordered!Next
<1> QED
  BY <1>1, <1>2

LEMMA OrderedStores ==
  ASSUME NEW m \in Messages,
         \/ Serial!LateAccept(m) \/ Serial!LateDrop(m)
         \/ Serial!CacheExpires(m) \/ Serial!Insert(m)
  PROVE  Ordered!Next
<1>1. \/ Ordered!LateAccept(m) \/ Ordered!LateDrop(m)
      \/ Ordered!CacheExpires(m) \/ Ordered!Insert(m)
  BY DEF Serial!LateAccept, Ordered!LateAccept, Serial!LateDrop,
         Ordered!LateDrop, Serial!CacheExpires, Ordered!CacheExpires,
         Serial!Insert, Ordered!Insert, Serial!LateRequest,
         Ordered!LateRequest, Serial!Precede, Ordered!Precede, Serial!stores,
         Ordered!stores, Serial!provider, Ordered!provider, Serial!workers,
         Ordered!workers
<1> QED
  BY <1>1 DEF Ordered!Next

LEMMA OrderedSpec == Serial!Spec => Ordered!Spec
<1>1. Serial!Init => Ordered!Init
  BY DEF Serial!Init, Ordered!Init
<1>2. Serial!Next => Ordered!Next
  BY OrderedWork, OrderedStores DEF Serial!Next
<1>3. UNCHANGED Serial!vars => UNCHANGED Ordered!vars
  BY DEF Serial!vars, Ordered!vars, Serial!stores, Ordered!stores,
         Serial!provider, Ordered!provider, Serial!workers, Ordered!workers
<1> QED
  BY <1>1, <1>2, <1>3, PTL DEF Serial!Spec, Ordered!Spec

\* So it is without the assumption.
LEMMA FreeBegin ==
  ASSUME NEW i \in Instances, Work!BeginBatch(i)
  PROVE  Free!BeginBatch(i)
  BY DEF Work!BeginBatch, Free!BeginBatch, Work!Go, Free!Go, Work!IsFirstOf,
         Free!IsFirstOf, Work!UpTo, Free!UpTo, Work!batchSize, Free!batchSize,
         Work!Available, Free!Available, Work!Selectable, Free!Selectable,
         Work!RowLocked, Free!RowLocked, Work!Cardinality, Free!Cardinality,
         Work!Precede, Free!Precede, Work!stores, Free!stores, Work!provider,
         Free!provider

LEMMA FreeWork ==
  ASSUME NEW i \in Instances, Work!Work(i) \/ Work!Crash(i)
  PROVE  Free!Next
<1>1. CASE Work!BeginBatch(i)
  BY <1>1, FreeBegin DEF Free!Next, Free!Work
<1>2. CASE ~Work!BeginBatch(i)
  <2>1. Free!Work(i) \/ Free!Crash(i)
    BY <1>2 DEF Work!Work, Free!Work, Work!Crash, Free!Crash, Work!Go, Free!Go,
           Work!Fault, Free!Fault, Work!NextMessage, Free!NextMessage,
           Work!Current, Free!Current, Work!RowLocked, Free!RowLocked,
           Work!UpdateRow, Free!UpdateRow, Work!stores, Free!stores,
           Work!provider, Free!provider, Work!Fetched, Free!Fetched,
           Work!FetchFails, Free!FetchFails, Work!Send, Free!Send, Work!Accept,
           Free!Accept, Work!Answer, Free!Answer, Work!AnswerLost,
           Free!AnswerLost, Work!Reject, Free!Reject, Work!Timeout,
           Free!Timeout, Work!Mark, Free!Mark, Work!MarkNone, Free!MarkNone,
           Work!MarkFails, Free!MarkFails, Work!Cache, Free!Cache,
           Work!CacheFails, Free!CacheFails
  <2> QED
    BY <2>1 DEF Free!Next
<1> QED
  BY <1>1, <1>2

LEMMA FreeStores ==
  ASSUME NEW m \in Messages,
         \/ Work!LateAccept(m) \/ Work!LateDrop(m)
         \/ Work!CacheExpires(m) \/ Work!Insert(m)
  PROVE  Free!Next
<1>1. \/ Free!LateAccept(m) \/ Free!LateDrop(m)
      \/ Free!CacheExpires(m) \/ Free!Insert(m)
  BY DEF Work!LateAccept, Free!LateAccept, Work!LateDrop, Free!LateDrop,
         Work!CacheExpires, Free!CacheExpires, Work!Insert, Free!Insert,
         Work!LateRequest, Free!LateRequest, Work!Precede, Free!Precede,
         Work!stores, Free!stores, Work!provider, Free!provider, Work!workers,
         Free!workers
<1> QED
  BY <1>1 DEF Free!Next

LEMMA FreeSpec == Work!Spec => Free!Spec
<1>1. Work!Init => Free!Init
  BY DEF Work!Init, Free!Init
<1>2. Work!Next => Free!Next
  BY FreeWork, FreeStores DEF Work!Next
<1>3. UNCHANGED Work!vars => UNCHANGED Free!vars
  BY DEF Work!vars, Free!vars, Work!stores, Free!stores, Work!provider,
         Free!provider, Work!workers, Free!workers
<1> QED
  BY <1>1, <1>2, <1>3, PTL DEF Work!Spec, Free!Spec

(***************************************************************************)
(* Whatever the expiry of the key, so also when batches overlap, what the  *)
(* instances do inside their batches is what Dispatch describes.           *)
(***************************************************************************)
THEOREM DispatchRefined == SysSpec => Work!Spec
<1>1. SysInit => Work!Init
  BY DEF SysInit
<1>2. UNCHANGED dispatchVars => UNCHANGED Work!vars
  BY DEF dispatchVars, Work!vars, Work!stores, Work!provider, Work!workers
<1>3. Step => Work!Next \/ UNCHANGED Work!vars
  <2>1. ASSUME NEW i \in Instances, Goroutine(i) PROVE Work!Next \/ UNCHANGED Work!vars
    BY <1>2, <2>1 DEF Goroutine, Begin, InBatch, End, Work!Next, Work!Work
  <2>2. ASSUME NEW i \in Instances, Killed(i) PROVE Work!Next \/ UNCHANGED Work!vars
    BY <1>2, <2>2 DEF Killed, Work!Next
  <2>3. ASSUME Stores PROVE Work!Next
    BY <2>3 DEF Stores, Work!Next
  <2> QED
    BY <1>2, <2>1, <2>2, <2>3 DEF Step
<1>4. [SysNext]_sysVars => [Work!Next]_Work!vars
  BY <1>2, <1>3 DEF SysNext, sysVars
<1> QED
  BY <1>1, <1>4, PTL DEF SysSpec, Work!Spec

(***************************************************************************)
(* message_service.go:118-188: with any expiry, a row is marked only for a *)
(* delivery that the provider accepted, and the cache names that very one, *)
(* whichever instances are killed, stopped or started again in between.    *)
(***************************************************************************)
THEOREM SystemLosesNothing == SysSpec => [](Work!NoLoss /\ Work!CacheSound)
<1>1. Free!Spec => []Free!NoLoss
  BY DispatchAssumed, Free!NothingLost DEF Free!DispatchAssumption
<1>2. Free!Spec => []Free!CacheSound
  BY DispatchAssumed, Free!CacheIsSound DEF Free!DispatchAssumption
<1>3. Free!NoLoss /\ Free!CacheSound => Work!NoLoss /\ Work!CacheSound
  BY DEF Free!NoLoss, Free!CacheSound, Work!NoLoss, Work!CacheSound
<1> QED
  BY <1>1, <1>2, <1>3, DispatchRefined, FreeSpec, PTL

(***************************************************************************)
(* The instances together are an outbox, with any expiry.                  *)
(***************************************************************************)
THEOREM SystemIsOutbox == SysSpec => Work!KeepsOutbox
<1>1. Free!Spec => Free!KeepsOutbox
  BY DispatchAssumed, Free!OutboxRefined DEF Free!DispatchAssumption
<1>2. Free!Abstract!Spec => Work!Abstract!Spec
  <2>1. Free!Abstract!Init => Work!Abstract!Init
    BY DEF Free!Abstract!Init, Work!Abstract!Init
  <2>2. [Free!Abstract!Next]_Free!Abstract!outboxVars
           => [Work!Abstract!Next]_Work!Abstract!outboxVars
    BY DEF Free!Abstract!Next, Work!Abstract!Next,
           Free!Abstract!outboxVars, Work!Abstract!outboxVars,
           Free!Abstract!Submit, Work!Abstract!Submit,
           Free!Abstract!Deliver, Work!Abstract!Deliver,
           Free!Abstract!Confirm, Work!Abstract!Confirm,
           Free!Abstract!Note, Work!Abstract!Note,
           Free!Abstract!Forget, Work!Abstract!Forget
  <2> QED
    BY <2>1, <2>2, PTL DEF Free!Abstract!Spec, Work!Abstract!Spec
<1> QED
  BY <1>1, <1>2, DispatchRefined, FreeSpec DEF Free!KeepsOutbox, Work!KeepsOutbox

(***************************************************************************)
(* README.md:158, with an expiry that is long enough: every further copy a *)
(* message ever has at the provider was paid for by a failure of its own   *)
(* inside a batch.  Failures of the lock, expiries, stops and restarts     *)
(* cost none.                                                              *)
(***************************************************************************)
THEOREM SystemDuplicates == LongTTL => (SysSpec => []Serial!DuplicatesCharged)
<1> SUFFICES ASSUME LongTTL PROVE SysSpec => []Serial!DuplicatesCharged
  OBVIOUS
<1>1. SysSpec => Serial!Spec
  BY LockSerialises DEF SystemDispatches
<1>2. Ordered!Spec => []Ordered!DuplicatesCharged
  BY DispatchAssumed, Ordered!DuplicatesPaid DEF Ordered!DispatchAssumption
<1>3. Ordered!DuplicatesCharged => Serial!DuplicatesCharged
  BY DEF Ordered!DuplicatesCharged, Serial!DuplicatesCharged,
         Ordered!ExtraCopies, Serial!ExtraCopies, Ordered!Extra, Serial!Extra,
         Ordered!Cardinality, Serial!Cardinality
<1> QED
  BY <1>1, <1>2, <1>3, OrderedSpec, PTL

(***************************************************************************)
(* README.md:133: the instances keep the order of the rows among them, as  *)
(* long as nothing fails inside a batch.                                   *)
(***************************************************************************)
THEOREM SystemOrder == LongTTL => (SysSpec => []Serial!FIFO)
<1> SUFFICES ASSUME LongTTL PROVE SysSpec => []Serial!FIFO
  OBVIOUS
<1>1. SysSpec => Serial!Spec
  BY LockSerialises DEF SystemDispatches
<1>2. Ordered!Spec => []Ordered!FIFO
  BY DispatchAssumed, Ordered!OldestFirstSent DEF Ordered!DispatchAssumption
<1>3. Ordered!FIFO => Serial!FIFO
  BY DEF Ordered!FIFO, Serial!FIFO
<1> QED
  BY <1>1, <1>2, <1>3, OrderedSpec, PTL

(***************************************************************************)
(* No instance hands a message to the provider once an instance has marked *)
(* it as sent.                                                             *)
(***************************************************************************)
THEOREM SystemNoSendAfterSent == LongTTL => (SysSpec => Serial!NoSendAfterSent)
<1> SUFFICES ASSUME LongTTL PROVE SysSpec => Serial!NoSendAfterSent
  OBVIOUS
<1>1. SysSpec => Serial!Spec
  BY LockSerialises DEF SystemDispatches
<1>2. Ordered!Spec => Ordered!NoSendAfterSent
  BY DispatchAssumed, Ordered!NotSentTwice DEF Ordered!DispatchAssumption
<1>3. [TRUE => \A w \in Instances: place[w] = "send" /\ place'[w] = "await"
                  => rows[Ordered!Current(w)] = "unsent"]_Ordered!vars
      => [TRUE => \A w \in Instances: place[w] = "send" /\ place'[w] = "await"
                  => rows[Serial!Current(w)] = "unsent"]_Serial!vars
  BY DEF Ordered!Current, Serial!Current, Ordered!vars, Serial!vars, Ordered!stores,
     Serial!stores, Ordered!provider, Serial!provider, Ordered!workers, Serial!workers
<1> QED
  BY <1>1, <1>2, <1>3, OrderedSpec, PTL
     DEF Ordered!NoSendAfterSent, Serial!NoSendAfterSent

(***************************************************************************)
(* With settings such as the README and the guides give (the default       *)
(* expiry, or one that follows the documented rule), a millisecond being   *)
(* the unit of time: batches exclude each other, and each further copy of  *)
(* a message is paid for by a failure inside a batch.                      *)
(***************************************************************************)
THEOREM ConfiguredSystem ==
  ASSUME NEW env \in Environment,
         \/ ~env.DISTRIBUTED_LOCK_TTL.usable
         \/ /\ DocumentedRule(Settings(env))
            /\ Settings(env).ProcessingInterval >= lockTimeout,
         TTL = Settings(env).DistributedLockTTL,
         AcquireTimeout = lockTimeout, ProcessingTimeout = batchTimeout
  PROVE  SysSpec => [](Mutex /\ Serial!DuplicatesCharged)
<1>1. CoversBatch(Settings(env))
  BY DefaultTTLCovers, RuleCovers
<1>2. LongTTL
  BY <1>1 DEF CoversBatch, LongTTL
<1>3. Spec => []Mutex
  BY <1>2, MutualExclusion
<1>4. SysSpec => []Serial!DuplicatesCharged
  BY <1>2, SystemDuplicates
<1> QED
  BY <1>3, <1>4, LoopsRefined, PTL
=============================================================================
