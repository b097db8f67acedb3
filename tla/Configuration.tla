--------------------------- MODULE Configuration ---------------------------
(***************************************************************************)
(* internal/config/config.go: Load and validate, for the settings that     *)
(* change what the program does, and what the lock and the scheduler make  *)
(* of them.                                                                *)
(*                                                                         *)
(* A setting is an environment variable: usable, with the value it parses  *)
(* to, or not (unset, empty or not parsed), in which case the default is   *)
(* taken without a word.  Texts only count as empty or not; durations are  *)
(* milliseconds.                                                           *)
(***************************************************************************)
EXTENDS Integers

Setting(S) == [usable: BOOLEAN, value: S]

Environment == [DB_NAME: Setting({"text"}), DB_USER: Setting({"text"}),
                SMS_API_URL: Setting({"text"}),
                BATCH_SIZE: Setting(Int), MAX_CONTENT_LENGTH: Setting(Int),
                PROCESSING_INTERVAL: Setting(Int), SHUTDOWN_TIMEOUT: Setting(Int),
                DISTRIBUTED_LOCK_ENABLED: Setting(BOOLEAN),
                DISTRIBUTED_LOCK_TTL: Setting(Int)]

\* getEnv, getEnvInt, getEnvDuration, getEnvBool
getEnv(setting, default) == IF setting.usable THEN setting.value ELSE default

Seconds(n) == 1000 * n

Settings(env) ==
    [Name |-> getEnv(env.DB_NAME, "text"),
     User |-> getEnv(env.DB_USER, "text"),
     APIURL |-> getEnv(env.SMS_API_URL, "text"),
     BatchSize |-> getEnv(env.BATCH_SIZE, 2),
     MaxContentLength |-> getEnv(env.MAX_CONTENT_LENGTH, 160),
     ProcessingInterval |-> getEnv(env.PROCESSING_INTERVAL, Seconds(120)),
     ShutdownTimeout |-> getEnv(env.SHUTDOWN_TIMEOUT, Seconds(30)),
     DistributedLockEnabled |-> getEnv(env.DISTRIBUTED_LOCK_ENABLED, FALSE),
     DistributedLockTTL |-> getEnv(env.DISTRIBUTED_LOCK_TTL, Seconds(180))]

validate(c) == /\ c.Name # "" /\ c.User # "" /\ c.APIURL # ""
               /\ c.BatchSize > 0
               /\ c.ProcessingInterval > 0
               /\ c.MaxContentLength > 0

\* The environments with which Load returns a configuration.
Loads(env) == validate(Settings(env))

\* The timeouts of processBatch.
lockTimeout == Seconds(5)
batchTimeout == Seconds(30)

\* LockedScheduler!LongTTL: the condition of the theorem MutualExclusion.
CoversBatch(c) == \/ c.DistributedLockTTL = 0
                  \/ c.DistributedLockTTL > lockTimeout + batchTimeout

\* SET key value PX ttl NX with a negative ttl is an error in Redis, so every
\* Acquire fails; 0 sets no expiry.
LockNeverGranted(c) == c.DistributedLockEnabled /\ c.DistributedLockTTL < 0

\* QUICK_START_MULTI_INSTANCE.md:252: the expiry exceeds the interval and the
\* longest processing time.
DocumentedRule(c) == c.DistributedLockTTL > c.ProcessingInterval + batchTimeout

Unset == [usable |-> FALSE, value |-> 0]
=============================================================================
