------------------------- MODULE MCLockedScheduler -------------------------
(* LockedScheduler for TLC: two instances, times in units of 30 seconds,   *)
(* rounded up.                                                             *)
EXTENDS LockedScheduler

CONSTANTS i1, i2

Two == {i1, i2}
ReleaseOnly == {"Release"}
AllCalls == {"Acquire", "Release", "Extend"}

----------------------------------------------------------------------------
(* The times of a server whose environment sets nothing but the lock.      *)

Config == INSTANCE Configuration

NoText == [usable |-> FALSE, value |-> "text"]
Defaults == Config!Settings(
    [DB_NAME |-> NoText, DB_USER |-> NoText, SMS_API_URL |-> NoText,
     BATCH_SIZE |-> Config!Unset, MAX_CONTENT_LENGTH |-> Config!Unset,
     PROCESSING_INTERVAL |-> Config!Unset, SHUTDOWN_TIMEOUT |-> Config!Unset,
     DISTRIBUTED_LOCK_ENABLED |-> [usable |-> TRUE, value |-> TRUE],
     DISTRIBUTED_LOCK_TTL |-> Config!Unset])

Unit == Config!Seconds(30)
Units(t) == (t + Unit - 1) \div Unit

DefaultTTL == Units(Defaults.DistributedLockTTL)
DefaultHalf == Units(Defaults.ProcessingInterval \div 2)
DefaultAcquire == Units(Config!lockTimeout)
DefaultBatch == Units(Config!batchTimeout)

ASSUME DefaultsLoad == Config!validate(Defaults) /\ Config!CoversBatch(Defaults)
=============================================================================
