----------------------- MODULE LockedSchedulerProofs -----------------------
(***************************************************************************)
(* Proofs about LockedScheduler, for every set of instances and every      *)
(* value of the times and bounds.  The inductive invariant is TypeOK with  *)
(* KeyOutlivesBatch; mutual exclusion follows from the owner of the key    *)
(* being one instance.                                                     *)
(***************************************************************************)
EXTENDS LockedScheduler, TLAPS

Inv == TypeOK /\ KeyOutlivesBatch

\* The expiry that Extend sets, in whole seconds, is a number of units.
LEMMA ExtendTTLType == ExtendTTL \in Nat
<1>1. TTL \in Nat /\ Second \in Nat \ {0}
  BY LockAssumption
<1>2. TTL \div Second \in Nat
  BY <1>1, SMT
<1> QED
  BY <1>1, <1>2, SMT DEF ExtendTTL

\* distributed_lock.go:106: an extension counts whole seconds.  It gives the key
\* less than a second less than the configured expiry; it takes the key away
\* exactly if the configured expiry is below a second.
THEOREM ExtensionIsCut == /\ TTL - Second < ExtendTTL /\ ExtendTTL <= TTL
                          /\ ExtendTTL = 0 <=> TTL < Second
<1>1. TTL \in Nat /\ Second \in Nat /\ Second > 0
  BY LockAssumption
<1> DEFINE q == TTL \div Second
           r == TTL % Second
<1>2. q \in Nat /\ r \in 0..(Second - 1)
  BY <1>1, SMT
<1>3. TTL = (Second * q) + r
  BY <1>1, SMT
<1>4. q * Second = Second * q /\ q * Second \in Nat
  BY <1>1, <1>2, SMT
<1> HIDE DEF q, r
<1>5. TTL - Second < q * Second /\ q * Second <= TTL
  BY <1>1, <1>2, <1>3, <1>4, SMT
<1>6. ASSUME q >= 1 PROVE q * Second >= Second
  BY <1>1, <1>2, <1>6, SMT
<1>7. q * Second = 0 <=> TTL < Second
  <2>1. q = 0 => q * Second = 0
    BY <1>1, SMT
  <2> QED
    BY <1>1, <1>2, <1>3, <1>4, <1>5, <1>6, <2>1, SMT
<1> QED
  BY <1>5, <1>7 DEF ExtendTTL, q

(***************************************************************************)
(* The variables always have the types TypeOK gives them.                  *)
(***************************************************************************)
LEMMA TypeInit == Init => TypeOK
  BY SchedulerAssumption, SMT DEF Init, LockInit, TypeOK, Holders, Locations

\* Every step keeps the types.
LEMMA TypeStep == TypeOK /\ [Next]_vars => TypeOK'
<1> SUFFICES ASSUME TypeOK, [Next]_vars PROVE TypeOK'
  OBVIOUS
<1> USE LockAssumption, SchedulerAssumption DEF TypeOK, Holders, Locations
<1>1. CASE Tick
  BY <1>1 DEF Tick, Expire, DeleteKey, Timed, NextPhase, HasLoop
<1>2. ASSUME NEW i \in Instances, Proceed(i) PROVE TypeOK'
  <2>1. CASE AcquireSets(i)
    BY <2>1 DEF AcquireSets, GoFor, SetNX
  <2>2. CASE AcquireRefused(i)
    BY <2>2 DEF AcquireRefused, Go, GoFor, lockVars
  <2>3. CASE AcquireFails(i)
    BY <2>3 DEF AcquireFails, Go, GoFor, lockVars, Fault
  <2>4. CASE AcquireReturns(i)
    BY <2>4 DEF AcquireReturns, GoFor, Granted
  <2>5. CASE AcquireReplyLost(i)
    BY <2>5 DEF AcquireReplyLost, Go, GoFor, lockVars, Fault
  <2>6. CASE BatchEnds(i)
    BY <2>6 DEF BatchEnds, Go, GoFor, lockVars
  <2>7. CASE ReleaseReturns(i)
    BY <2>7 DEF ReleaseReturns, Go, GoFor, Release, CompareAndDelete, DeleteKey
  <2>8. CASE ReleaseErrs(i)
    BY <2>8 DEF ReleaseErrs, Go, GoFor, ReleaseFailed, CompareAndDelete, DeleteKey, Fault
  <2>9. CASE DrainNotHeld(i)
    BY <2>9 DEF DrainNotHeld, Go, GoFor, lockVars
  <2>10. CASE DrainReleases(i)
    BY <2>10 DEF DrainReleases, Go, GoFor, Release, CompareAndDelete, DeleteKey
  <2>11. CASE DrainErrs(i)
    BY <2>11 DEF DrainErrs, Go, GoFor, ReleaseFailed, CompareAndDelete, DeleteKey, Fault
  <2> QED
    BY <1>2, <2>1, <2>2, <2>3, <2>4, <2>5, <2>6, <2>7, <2>8, <2>9, <2>10, <2>11 DEF Proceed
<1>3. ASSUME NEW i \in Instances, Select(i) PROVE TypeOK'
  <2>1. CASE SelectTick(i)
    BY <2>1 DEF SelectTick, Go, GoFor, lockVars
  <2>2. CASE SelectExtend(i)
    <3>1. TakeExtendTick(i) /\ faults' \in 0..MaxFaults
      BY <2>2 DEF SelectExtend, ExtendNotHeld, ExtendReturns, ExtendErrs, Fault
    <3>2. holder' \in Holders /\ ttl' \in Nat
      BY <2>2, ExtendTTLType
         DEF SelectExtend, ExtendNotHeld, ExtendReturns, ExtendErrs, Extend,
             ExtendFailed, CompareAndExpire, DeleteKey, lockVars
    <3>3. acquired' \in [Instances -> BOOLEAN]
      <4>1. CASE ExtendReturns(i)
        <5>1. acquired' = [acquired EXCEPT ![i] = (holder = i)]
          BY <4>1 DEF ExtendReturns, Extend
        <5>2. (holder = i) \in BOOLEAN
          OBVIOUS
        <5> QED
          BY <5>1, <5>2, Zenon
      <4>2. CASE ExtendNotHeld(i) \/ ExtendErrs(i)
        BY <4>2 DEF ExtendNotHeld, ExtendErrs, ExtendFailed, lockVars
      <4> QED
        BY <2>2, <4>1, <4>2 DEF SelectExtend
    <3> QED
      BY <3>1, <3>2, <3>3 DEF TakeExtendTick
  <2>3. CASE SelectDone(i)
    BY <2>3 DEF SelectDone, Go, GoFor, lockVars
  <2> QED
    BY <1>3, <2>1, <2>2, <2>3 DEF Select
<1>4. ASSUME NEW i \in Instances, Control(i) PROVE TypeOK'
  <2>1. CASE RequestStop(i)
    BY <2>1 DEF RequestStop, lockVars
  <2>2. CASE StartAgain(i)
    BY <2>2 DEF StartAgain, Go, GoFor, NewLoop, lockVars
  <2>3. CASE Crash(i)
    BY <2>3 DEF Crash, Forget, NewLoop
  <2>4. CASE Boot(i)
    BY <2>4 DEF Boot, Go, GoFor, lockVars
  <2> QED
    BY <1>4, <2>1, <2>2, <2>3, <2>4 DEF Control
<1>5. CASE UNCHANGED vars
  BY <1>5 DEF vars, lockVars, loopVars
<1> QED
  BY <1>1, <1>2, <1>3, <1>4, <1>5 DEF Next

\* Every reachable state is well typed.
THEOREM TypeCorrect == Spec => []TypeOK
  BY TypeInit, TypeStep, PTL DEF Spec

(***************************************************************************)
(* With an expiry longer than the reply to SETNX and a batch together, the *)
(* key of an instance that processes is its own until the batch is over.   *)
(***************************************************************************)
LEMMA KeyInit == Init => KeyOutlivesBatch
  BY DEF Init, KeyOutlivesBatch

\* A step that leaves the key alone and the running calls where they are.
LEMMA KeyKept ==
  ASSUME TypeOK, KeyOutlivesBatch, NEW i \in Instances,
         UNCHANGED <<holder, ttl>>,
         \A j \in Instances \ {i}: pc'[j] = pc[j] /\ left'[j] = left[j],
         pc'[i] \in {"granted", "batch"} => pc'[i] = pc[i] /\ left'[i] = left[i]
  PROVE  KeyOutlivesBatch'
  BY DEF KeyOutlivesBatch

\* A step of i that touches the key only if i owns it, and after which i does
\* not process.
LEMMA KeyOfOthersKept ==
  ASSUME TypeOK, KeyOutlivesBatch, NEW i \in Instances,
         holder # i => UNCHANGED <<holder, ttl>>,
         \A j \in Instances \ {i}: pc'[j] = pc[j] /\ left'[j] = left[j],
         pc'[i] \notin {"granted", "batch"}
  PROVE  KeyOutlivesBatch'
  BY DEF KeyOutlivesBatch

\* A goroutine that moves moves alone.
LEMMA GoFrame ==
  ASSUME TypeOK, NEW i \in Instances, NEW from, NEW to, Go(i, from, to)
  PROVE  /\ pc'[i] = to
         /\ \A j \in Instances \ {i}: pc'[j] = pc[j] /\ left'[j] = left[j]
  BY DEF TypeOK, Go, GoFor

\* Every step keeps the key alive for as long as the batch may last.
LEMMA KeyStep ==
  ASSUME LongTTL, TypeOK, KeyOutlivesBatch, [Next]_vars
  PROVE  KeyOutlivesBatch'
<1> USE LockAssumption, SchedulerAssumption
<1>1. CASE Tick
  BY <1>1 DEF Tick, Expire, DeleteKey, Timed, KeyOutlivesBatch, TypeOK
<1>2. ASSUME NEW i \in Instances, Proceed(i) PROVE KeyOutlivesBatch'
  <2>1. CASE AcquireSets(i)
    BY <2>1 DEF AcquireSets, GoFor, SetNX, KeyOutlivesBatch, TypeOK, LongTTL
  <2>2. CASE AcquireReturns(i)
    BY <2>2 DEF AcquireReturns, GoFor, KeyOutlivesBatch, TypeOK
  <2>3. CASE AcquireRefused(i) \/ AcquireFails(i) \/ AcquireReplyLost(i)
             \/ BatchEnds(i) \/ DrainNotHeld(i)
    BY <2>3, GoFrame, KeyKept
       DEF AcquireRefused, AcquireFails, AcquireReplyLost, BatchEnds, DrainNotHeld, lockVars
  <2>4. CASE ReleaseReturns(i) \/ ReleaseErrs(i) \/ DrainReleases(i) \/ DrainErrs(i)
    BY <2>4, GoFrame, KeyOfOthersKept
       DEF ReleaseReturns, ReleaseErrs, DrainReleases, DrainErrs,
           Release, ReleaseFailed, CompareAndDelete
  <2> QED
    BY <1>2, <2>1, <2>2, <2>3, <2>4 DEF Proceed
<1>3. ASSUME NEW i \in Instances, Select(i) PROVE KeyOutlivesBatch'
  <2>1. CASE SelectTick(i) \/ SelectDone(i)
    BY <2>1, GoFrame, KeyKept DEF SelectTick, SelectDone, lockVars
  <2>2. CASE SelectExtend(i)
    BY <2>2, KeyOfOthersKept
       DEF SelectExtend, ExtendNotHeld, ExtendReturns, ExtendErrs, TakeExtendTick,
           Extend, ExtendFailed, CompareAndExpire, lockVars
  <2> QED
    BY <1>3, <2>1, <2>2 DEF Select
<1>4. ASSUME NEW i \in Instances, Control(i) PROVE KeyOutlivesBatch'
  <2>1. CASE RequestStop(i)
    BY <2>1, KeyKept DEF RequestStop, lockVars
  <2>2. CASE StartAgain(i) \/ Boot(i)
    BY <2>2, GoFrame, KeyKept DEF StartAgain, Boot, lockVars
  <2>3. CASE Crash(i)
    BY <2>3, KeyOfOthersKept DEF Crash, Forget, TypeOK
  <2> QED
    BY <1>4, <2>1, <2>2, <2>3 DEF Control
<1>5. CASE UNCHANGED vars
  BY <1>5 DEF vars, lockVars, loopVars, KeyOutlivesBatch
<1> QED
  BY <1>1, <1>2, <1>3, <1>4, <1>5 DEF Next

\* With an expiry longer than the longest acquisition and batch, the key outlives each batch.
THEOREM KeyOutlives == LongTTL => (Spec => []KeyOutlivesBatch)
<1> SUFFICES ASSUME LongTTL PROVE Spec => []KeyOutlivesBatch
  OBVIOUS
<1>1. Init => Inv
  BY TypeInit, KeyInit DEF Inv
<1>2. Inv /\ [Next]_vars => Inv'
  BY TypeStep, KeyStep DEF Inv
<1>3. Inv => KeyOutlivesBatch
  BY DEF Inv
<1> QED
  BY <1>1, <1>2, <1>3, PTL DEF Spec

(***************************************************************************)
(* README.md:158: only one instance processes messages at any given time.  *)
(***************************************************************************)
LEMMA OneOwner == KeyOutlivesBatch => Mutex
  BY DEF KeyOutlivesBatch, Mutex

\* README.md:158 under that condition: one instance processes at a time.
THEOREM MutualExclusion == LongTTL => (Spec => []Mutex)
  BY KeyOutlives, OneOwner, PTL

(***************************************************************************)
(* An instance that wrongly believes it holds the lock leaves the key of   *)
(* another instance alone: each script compares before it writes.  This    *)
(* needs no condition on the expiry.                                       *)
(***************************************************************************)
LEMMA ScriptsCompare ==
  ASSUME NEW i \in Instances, holder # i,
         CompareAndDelete(i) \/ CompareAndExpire(i) \/ UNCHANGED <<holder, ttl>>
  PROVE  UNCHANGED <<holder, ttl>>
  BY DEF CompareAndDelete, CompareAndExpire

\* A step of one instance leaves the key of another as it is.
LEMMA ForeignKeyStep ==
  ASSUME TypeOK, Next, NEW i \in Instances, NEW j \in Instances,
         i # j, holder = i, StepOf(j)
  PROVE  holder' = i /\ ttl' = ttl
<1>1. CASE Tick
  BY <1>1 DEF Tick, StepOf, TypeOK
<1>2. ASSUME NEW k \in Instances, Proceed(k) \/ Select(k) \/ Control(k), k # j
      PROVE  FALSE
  <2>1. pc'[j] = pc[j]
    <3>1. CASE Proceed(k)
      BY <1>2, <3>1
         DEF Proceed, AcquireSets, AcquireRefused, AcquireFails, AcquireReturns,
             AcquireReplyLost, BatchEnds, ReleaseReturns, ReleaseErrs, DrainNotHeld,
             DrainReleases, DrainErrs, Go, GoFor, TypeOK
    <3>2. CASE Select(k)
      BY <1>2, <3>2
         DEF Select, SelectTick, SelectExtend, SelectDone, ExtendNotHeld, ExtendReturns,
             ExtendErrs, TakeExtendTick, Go, GoFor, TypeOK
    <3>3. CASE Control(k)
      BY <1>2, <3>3 DEF Control, RequestStop, StartAgain, Crash, Boot, Go, GoFor, TypeOK
    <3> QED
      BY <1>2, <3>1, <3>2, <3>3
  <2>2. extReady'[j] = extReady[j]
    <3>1. CASE Proceed(k)
      BY <1>2, <3>1
         DEF Proceed, AcquireSets, AcquireRefused, AcquireFails, AcquireReturns,
             AcquireReplyLost, BatchEnds, ReleaseReturns, ReleaseErrs, DrainNotHeld,
             DrainReleases, DrainErrs
    <3>2. CASE Select(k)
      BY <1>2, <3>2
         DEF Select, SelectTick, SelectExtend, SelectDone, ExtendNotHeld, ExtendReturns,
             ExtendErrs, TakeExtendTick, TypeOK
    <3>3. CASE Control(k)
      BY <1>2, <3>3
         DEF Control, RequestStop, StartAgain, Crash, Boot, NewLoop, TypeOK
    <3> QED
      BY <1>2, <3>1, <3>2, <3>3
  <2> QED
    BY <2>1, <2>2 DEF StepOf
<1>3. CASE Proceed(j)
  <2>1. CASE AcquireSets(j)
    BY <2>1, LockAssumption DEF AcquireSets, SetNX
  <2>2. CASE AcquireRefused(j) \/ AcquireFails(j) \/ AcquireReturns(j)
             \/ AcquireReplyLost(j) \/ BatchEnds(j) \/ DrainNotHeld(j)
    BY <2>2 DEF AcquireRefused, AcquireFails, AcquireReturns, AcquireReplyLost,
                BatchEnds, DrainNotHeld, lockVars
  <2>3. CASE ReleaseReturns(j) \/ ReleaseErrs(j) \/ DrainReleases(j) \/ DrainErrs(j)
    BY <2>3, ScriptsCompare
       DEF ReleaseReturns, ReleaseErrs, DrainReleases, DrainErrs, Release, ReleaseFailed
  <2> QED
    BY <1>3, <2>1, <2>2, <2>3 DEF Proceed
<1>4. CASE Select(j)
  BY <1>4, ScriptsCompare
     DEF Select, SelectTick, SelectDone, SelectExtend, ExtendNotHeld, ExtendReturns,
         ExtendErrs, Extend, ExtendFailed, lockVars
<1>5. CASE Control(j)
  BY <1>5 DEF Control, RequestStop, StartAgain, Boot, Crash, Forget, lockVars
<1> QED
  BY <1>1, <1>2, <1>3, <1>4, <1>5 DEF Next

\* No late Release or Extend touches the key of another instance.
THEOREM ForeignKeys == Spec => ForeignKeyUntouched
<1>1. TypeOK /\ [Next]_vars
        => [\A i, j \in Instances:
              i # j /\ holder = i /\ StepOf(j) => holder' = i /\ ttl' = ttl]_vars
  BY ForeignKeyStep
<1> QED
  BY <1>1, TypeCorrect, PTL DEF Spec, ForeignKeyUntouched

(***************************************************************************)
(* The flag outlives a batch only after a failed call: without failures    *)
(* Extend never runs its script.                                           *)
(***************************************************************************)
LEMMA FlagStep ==
  ASSUME TypeOK, FlagFollowsBatch, [Next]_vars
  PROVE  FlagFollowsBatch'
<1> USE SchedulerAssumption DEF TypeOK, FlagFollowsBatch
<1>1. CASE Tick
  BY <1>1 DEF Tick
<1>2. ASSUME NEW i \in Instances, Proceed(i) PROVE FlagFollowsBatch'
  <2>1. CASE AcquireSets(i) \/ AcquireRefused(i) \/ AcquireFails(i)
             \/ AcquireReplyLost(i) \/ DrainNotHeld(i)
    BY <2>1 DEF AcquireSets, AcquireRefused, AcquireFails, AcquireReplyLost,
                DrainNotHeld, Go, GoFor, Fault, lockVars
  <2>2. CASE AcquireReturns(i) \/ BatchEnds(i)
    BY <2>2 DEF AcquireReturns, BatchEnds, Go, GoFor, Granted, lockVars
  <2>3. CASE ReleaseReturns(i) \/ DrainReleases(i)
    BY <2>3 DEF ReleaseReturns, DrainReleases, Go, GoFor, Release
  <2>4. CASE ReleaseErrs(i) \/ DrainErrs(i)
    BY <2>4 DEF ReleaseErrs, DrainErrs, Fault
  <2> QED
    BY <1>2, <2>1, <2>2, <2>3, <2>4 DEF Proceed
<1>3. ASSUME NEW i \in Instances, Select(i) PROVE FlagFollowsBatch'
  <2>1. CASE SelectTick(i) \/ SelectDone(i) \/ ExtendNotHeld(i)
    BY <2>1 DEF SelectTick, SelectDone, ExtendNotHeld, TakeExtendTick, Go, GoFor, lockVars
  <2>2. CASE ExtendReturns(i)
    <3>1. faults > 0
      BY <2>2 DEF ExtendReturns, Extend, TakeExtendTick
    <3> QED
      BY <2>2, <3>1 DEF ExtendReturns
  <2>3. CASE ExtendErrs(i)
    BY <2>3 DEF ExtendErrs, Fault
  <2> QED
    BY <1>3, <2>1, <2>2, <2>3 DEF Select, SelectExtend
<1>4. ASSUME NEW i \in Instances, Control(i) PROVE FlagFollowsBatch'
  BY <1>4 DEF Control, RequestStop, StartAgain, Boot, Crash, Forget, Go, GoFor, lockVars
<1>5. CASE UNCHANGED vars
  BY <1>5 DEF vars, lockVars, loopVars
<1> QED
  BY <1>1, <1>2, <1>3, <1>4, <1>5 DEF Next

\* The flag outlives a batch only if a lock call has failed.
THEOREM FlagOnlyAfterFault == Spec => []FlagFollowsBatch
<1>1. Init => FlagFollowsBatch
  BY DEF Init, LockInit, FlagFollowsBatch
<1> QED
  BY <1>1, FlagStep, TypeCorrect, PTL DEF Spec

(***************************************************************************)
(* An orphaned key expires.  The invariant is about the key alone: a key   *)
(* that is there has time left, never more than was configured.  Only      *)
(* Extend sets a new expiry, and it needs the flag of the owner, which an  *)
(* orphaned key does not have.                                             *)
(***************************************************************************)
KeyHasExpiry == ttl <= TTL /\ (TTL > 0 /\ holder # NoOne => ttl > 0)

\* Deleting the key, or setting the expiry of an extension, keeps the bound.
LEMMA ScriptsKeepExpiry ==
  ASSUME KeyHasExpiry, NEW i \in Instances,
         CompareAndDelete(i) \/ CompareAndExpire(i) \/ UNCHANGED <<holder, ttl>>
  PROVE  KeyHasExpiry'
<1>1. TTL \in Nat /\ ExtendTTL \in Nat /\ ExtendTTL <= TTL
  BY LockAssumption, ExtendTTLType, ExtensionIsCut
<1>2. CASE holder' = NoOne /\ ttl' = 0
  BY <1>1, <1>2 DEF KeyHasExpiry
<1>3. CASE ttl' = ExtendTTL /\ ExtendTTL # 0
  BY <1>1, <1>3 DEF KeyHasExpiry
<1>4. CASE UNCHANGED <<holder, ttl>>
  BY <1>4 DEF KeyHasExpiry
<1> QED
  BY <1>2, <1>3, <1>4 DEF CompareAndDelete, CompareAndExpire, DeleteKey

\* What a step of one instance may do to the key and to the flags.
KeySteps(i) == \/ SetNX(i) /\ UNCHANGED acquired
               \/ UNCHANGED lockVars
               \/ Granted(i) /\ pc[i] = "granted" /\ UNCHANGED <<holder, ttl>>
               \/ Release(i) \/ ReleaseFailed(i) \/ Extend(i) \/ ExtendFailed(i)
               \/ Forget(i)

\* Those are all, and no other goroutine comes to wait for a reply.
LEMMA OneKeyStep ==
  ASSUME TypeOK, NEW i \in Instances, Proceed(i) \/ Select(i) \/ Control(i)
  PROVE  /\ KeySteps(i)
         /\ \A j \in Instances: pc'[j] = "granted" => pc[j] = "granted" \/ SetNX(i)
<1>1. CASE Proceed(i)
  <2>1. CASE AcquireSets(i)
    BY <2>1 DEF AcquireSets, KeySteps
  <2>2. CASE AcquireRefused(i) \/ AcquireFails(i) \/ AcquireReplyLost(i)
             \/ BatchEnds(i) \/ DrainNotHeld(i)
    BY <2>2 DEF AcquireRefused, AcquireFails, AcquireReplyLost, BatchEnds, DrainNotHeld,
                Go, GoFor, KeySteps, TypeOK
  <2>3. CASE AcquireReturns(i)
    BY <2>3 DEF AcquireReturns, GoFor, KeySteps, TypeOK
  <2>4. CASE ReleaseReturns(i) \/ ReleaseErrs(i) \/ DrainReleases(i) \/ DrainErrs(i)
    BY <2>4 DEF ReleaseReturns, ReleaseErrs, DrainReleases, DrainErrs,
                Go, GoFor, KeySteps, TypeOK
  <2> QED
    BY <1>1, <2>1, <2>2, <2>3, <2>4 DEF Proceed
<1>2. CASE Select(i)
  BY <1>2 DEF Select, SelectTick, SelectDone, SelectExtend, ExtendNotHeld, ExtendReturns,
              ExtendErrs, TakeExtendTick, Go, GoFor, KeySteps, lockVars, TypeOK
<1>3. CASE Control(i)
  BY <1>3 DEF Control, RequestStop, StartAgain, Boot, Crash, Go, GoFor, KeySteps, lockVars,
              TypeOK
<1> QED
  BY <1>1, <1>2, <1>3

\* The key keeps its expiry in every step.
LEMMA ExpiryStep ==
  ASSUME TypeOK, KeyHasExpiry, [Next]_vars
  PROVE  KeyHasExpiry'
<1> USE LockAssumption
<1>1. CASE Tick
  BY <1>1 DEF Tick, Expire, DeleteKey, KeyHasExpiry, TypeOK
<1>2. ASSUME NEW i \in Instances, Proceed(i) \/ Select(i) \/ Control(i)
      PROVE  KeyHasExpiry'
  <2>1. KeySteps(i)
    BY <1>2, OneKeyStep
  <2>2. CASE SetNX(i)
    BY <2>2 DEF SetNX, KeyHasExpiry
  <2>3. CASE UNCHANGED <<holder, ttl>> \/ Release(i) \/ ReleaseFailed(i)
             \/ Extend(i) \/ ExtendFailed(i)
    BY <2>3, ScriptsKeepExpiry DEF Release, ReleaseFailed, Extend, ExtendFailed
  <2>4. CASE Forget(i)
    BY <2>4 DEF Forget, KeyHasExpiry
  <2> QED
    BY <2>1, <2>2, <2>3, <2>4 DEF KeySteps, lockVars
<1>3. CASE UNCHANGED vars
  BY <1>3 DEF vars, lockVars, KeyHasExpiry
<1> QED
  BY <1>1, <1>2, <1>3 DEF Next

\* An orphaned key stays one until it is gone, and gets no more time.
LEMMA OrphanStep ==
  ASSUME TypeOK, KeyHasExpiry, Next, Orphaned, TTL > 0
  PROVE  /\ ttl \in 1..TTL
         /\ holder' = NoOne \/ (Orphaned' /\ ttl' <= ttl)
<1> USE LockAssumption
<1>1. holder # NoOne
  BY DEF Orphaned
<1>2. ttl \in 1..TTL
  BY <1>1 DEF KeyHasExpiry, TypeOK
<1>3. CASE Tick
  <2>1. UNCHANGED <<acquired, pc>>
    BY <1>3 DEF Tick
  <2>2. holder' = NoOne \/ (holder' = holder /\ ttl' <= ttl)
    BY <1>2, <1>3 DEF Tick, Expire, DeleteKey
  <2> QED
    BY <1>2, <2>1, <2>2 DEF Orphaned
<1>4. ASSUME NEW i \in Instances, Proceed(i) \/ Select(i) \/ Control(i)
      PROVE  Orphaned' /\ ttl' <= ttl
  <2>1. KeySteps(i) /\ ~SetNX(i)
    BY <1>1, <1>4, OneKeyStep DEF SetNX
  <2>2. \A j \in Instances: pc'[j] = "granted" => pc[j] = "granted"
    BY <1>4, <2>1, OneKeyStep
  <2>3. holder = i => ~acquired[i] /\ pc[i] # "granted"
    BY DEF Orphaned
  <2>4. CASE Forget(i)
    <3>1. holder = Gone \/ holder = i => holder' = Gone
      BY <2>4 DEF Forget
    <3>2. ASSUME NEW j \in Instances, holder = j, j # i, ~acquired[j], pc[j] # "granted"
          PROVE  holder' = j /\ ~acquired'[j] /\ pc'[j] # "granted"
      BY <2>2, <2>4, <3>2 DEF Forget, TypeOK
    <3>3. ttl' <= ttl
      BY <1>2, <2>4 DEF Forget
    <3> QED
      BY <3>1, <3>2, <3>3 DEF Orphaned
  <2>5. CASE ~Forget(i)
    <3>1. UNCHANGED <<holder, ttl>>
      BY <2>1, <2>3, <2>5, ScriptsCompare
         DEF KeySteps, lockVars, Release, ReleaseFailed, Extend, ExtendFailed
    <3>2. ASSUME NEW j \in Instances, holder = j, ~acquired[j], pc[j] # "granted"
          PROVE  ~acquired'[j] /\ pc'[j] # "granted"
      BY <2>1, <2>2, <2>3, <2>5, <3>2
         DEF KeySteps, lockVars, Granted, Release, ReleaseFailed, Extend, ExtendFailed, TypeOK
    <3> QED
      BY <1>2, <3>1, <3>2 DEF Orphaned
  <2> QED
    BY <2>4, <2>5
<1> QED
  BY <1>2, <1>3, <1>4 DEF Next

\* TIER2_IMPLEMENTATION.md:500: a key that nobody believes in expires in time.
THEOREM OrphansExpire == Spec => OrphanExpires
<1>1. Init => KeyHasExpiry
  BY LockAssumption DEF Init, LockInit, KeyHasExpiry
<1>2. TypeOK /\ KeyHasExpiry /\ [Next]_vars => KeyHasExpiry'
  BY ExpiryStep
<1>3. TypeOK /\ KeyHasExpiry /\ [Next]_vars
        => [Orphaned /\ TTL > 0 =>
              /\ ttl \in 1..TTL
              /\ holder' = NoOne \/ (Orphaned' /\ ttl' <= ttl)]_vars
  BY OrphanStep
<1> QED
  BY <1>1, <1>2, <1>3, TypeCorrect, PTL DEF Spec, OrphanExpires

(***************************************************************************)
(* The scheduler loops implement the abstract mutual exclusion: a batch is *)
(* entered when SETNX's reply arrives, left when it ends or the process    *)
(* dies, and every other step leaves the set of running batches alone.     *)
(***************************************************************************)
active == {i \in Instances: pc[i] = "batch"}

\* An instance that stays out of its batch changes nothing for the abstract lock.
LEMMA BatchesKept ==
  ASSUME TypeOK, NEW i \in Instances,
         \A j \in Instances \ {i}: pc'[j] = pc[j],
         pc[i] # "batch", pc'[i] # "batch"
  PROVE  active' = active
  BY DEF active

\* Every step is a step of the abstract lock, or none.
LEMMA BatchesStep ==
  ASSUME TypeOK, KeyOutlivesBatch, [Next]_vars
  PROVE  [Batches!Next]_active
<1>1. CASE Tick
  BY <1>1 DEF Tick, active
<1>2. ASSUME NEW i \in Instances, Proceed(i) PROVE [Batches!Next]_active
  <2>1. CASE AcquireReturns(i)
    <3>1. active = {}
      BY <2>1 DEF AcquireReturns, GoFor, KeyOutlivesBatch, active
    <3>2. active' = {i}
      BY <2>1, <3>1 DEF AcquireReturns, GoFor, active, TypeOK
    <3> QED
      BY <3>1, <3>2 DEF Batches!Next, Batches!Enter, active
  <2>2. CASE BatchEnds(i)
    <3>1. i \in active
      BY <2>2 DEF BatchEnds, Go, GoFor, active
    <3>2. active' = active \ {i}
      BY <2>2 DEF BatchEnds, Go, GoFor, active, TypeOK
    <3> QED
      BY <3>1, <3>2 DEF Batches!Next, Batches!Leave, active
  <2>3. CASE AcquireSets(i)
    BY <2>3, BatchesKept DEF AcquireSets, GoFor, TypeOK
  <2>4. CASE \/ AcquireRefused(i) \/ AcquireFails(i) \/ AcquireReplyLost(i)
             \/ ReleaseReturns(i) \/ ReleaseErrs(i)
             \/ DrainNotHeld(i) \/ DrainReleases(i) \/ DrainErrs(i)
    BY <2>4, BatchesKept
       DEF AcquireRefused, AcquireFails, AcquireReplyLost, ReleaseReturns, ReleaseErrs,
           DrainNotHeld, DrainReleases, DrainErrs, Go, GoFor, TypeOK
  <2> QED
    BY <1>2, <2>1, <2>2, <2>3, <2>4 DEF Proceed
<1>3. ASSUME NEW i \in Instances, Select(i) PROVE [Batches!Next]_active
  <2>1. CASE SelectTick(i) \/ SelectDone(i)
    BY <2>1, BatchesKept DEF SelectTick, SelectDone, Go, GoFor, TypeOK
  <2>2. CASE SelectExtend(i)
    BY <2>2 DEF SelectExtend, ExtendNotHeld, ExtendReturns, ExtendErrs, TakeExtendTick, active
  <2> QED
    BY <1>3, <2>1, <2>2 DEF Select
<1>4. ASSUME NEW i \in Instances, Control(i) PROVE [Batches!Next]_active
  <2>1. CASE RequestStop(i)
    BY <2>1 DEF RequestStop, active
  <2>2. CASE StartAgain(i) \/ Boot(i)
    BY <2>2, BatchesKept DEF StartAgain, Boot, Go, GoFor, TypeOK
  <2>3. CASE Crash(i)
    <3>1. active' = active \ {i}
      BY <2>3 DEF Crash, active, TypeOK
    <3> QED
      BY <3>1 DEF Batches!Next, Batches!Leave, active
  <2> QED
    BY <1>4, <2>1, <2>2, <2>3 DEF Control
<1>5. CASE UNCHANGED vars
  BY <1>5 DEF vars, loopVars, active
<1> QED
  BY <1>1, <1>2, <1>3, <1>4, <1>5 DEF Next

\* Under the same condition the lock implements mutual exclusion.
THEOREM BatchesRefine == LongTTL => (Spec => BatchesExclude)
<1> SUFFICES ASSUME LongTTL PROVE Spec => BatchesExclude
  OBVIOUS
<1>1. Init => Batches!Init
  BY DEF Init, Batches!Init
<1>2. TypeOK /\ KeyOutlivesBatch /\ [Next]_vars
        => [Batches!Next]_{i \in Instances: pc[i] = "batch"}
  BY BatchesStep DEF active
<1>3. Spec => []TypeOK /\ []KeyOutlivesBatch
  BY TypeCorrect, KeyOutlives, PTL
<1> QED
  BY <1>1, <1>2, <1>3, PTL DEF Spec, BatchesExclude, Batches!Spec
=============================================================================
