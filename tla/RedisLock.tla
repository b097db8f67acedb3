----------------------------- MODULE RedisLock -----------------------------
(***************************************************************************)
(* The Redis key of internal/lock/distributed_lock.go and the lock objects *)
(* of the instances that compete for it.                                   *)
(*                                                                         *)
(* The key is one string with an expiry.  A lock object draws its random   *)
(* value once, when the process builds it (line 39), and uses it for every *)
(* acquisition; the key's value is therefore named by the instance whose   *)
(* object wrote it, and by Gone when the process that wrote it has died:   *)
(* the next incarnation of the instance draws another value.               *)
(*                                                                         *)
(* Each operator below is one server-side command (SETNX, a Lua script),   *)
(* which Redis runs atomically, or what the client does with the reply.    *)
(* Time is counted in units; Second is the number of units in a second, the*)
(* resolution of the EXPIRE command that Extend issues.                    *)
(***************************************************************************)
EXTENDS Naturals

CONSTANTS Instances,   \* the server processes that share the key
          TTL,         \* DISTRIBUTED_LOCK_TTL in units; 0: SETNX sets no expiry
          Second,      \* units in one second
          NoOne,       \* the key does not exist
          Gone         \* the key was written by a process that has died

ASSUME LockAssumption ==
    /\ TTL \in Nat
    /\ Second \in Nat \ {0}
    /\ NoOne \notin Instances
    /\ Gone \notin Instances
    /\ NoOne # Gone

VARIABLES holder,      \* whose value the key has
          ttl,         \* units before the key expires; 0: no key, or no expiry
          acquired     \* acquired[i]: the lock object's own flag, line 32

lockVars == <<holder, ttl, acquired>>

Holders == Instances \cup {NoOne, Gone}

\* int(l.ttl.Seconds()), line 106, back in units: whole seconds only.
ExtendTTL == (TTL \div Second) * Second

LockInit == /\ holder = NoOne
            /\ ttl = 0
            /\ acquired = [i \in Instances |-> FALSE]

----------------------------------------------------------------------------
(* The key in Redis.                                                       *)

\* Seeded faults: SET without NX; SETNX without an expiry.
SetNXOverwrites(i) == /\ holder' = i
                      /\ ttl' = TTL

SetNXNoExpiry(i) == /\ holder = NoOne
                    /\ holder' = i
                    /\ ttl' = 0

\* SETNX key value ttl finds no key.
SetNX(i) == /\ holder = NoOne
            /\ holder' = i
            /\ ttl' = TTL

\* SETNX finds a key, whoever wrote it.
KeyExists == holder # NoOne

DeleteKey == /\ holder' = NoOne
             /\ ttl' = 0

\* Seeded fault: DEL instead of the script.
DeleteUnchecked(i) == DeleteKey

\* The script of Release: delete the key if it has the object's value.
CompareAndDelete(i) == \/ holder = i /\ DeleteKey
                       \/ holder # i /\ UNCHANGED <<holder, ttl>>

\* Seeded fault: EXPIRE instead of the script.
ExpireUnchecked(i) == /\ ttl' = IF holder = NoOne THEN 0 ELSE ExtendTTL
                      /\ UNCHANGED holder

\* The script of Extend; EXPIRE with 0 seconds deletes the key.
CompareAndExpire(i) ==
    \/ /\ holder = i
       /\ IF ExtendTTL = 0 THEN DeleteKey
          ELSE ttl' = ExtendTTL /\ UNCHANGED holder
    \/ holder # i /\ UNCHANGED <<holder, ttl>>

\* A unit of time passes for the key.
Expire == IF ttl = 1 THEN DeleteKey
          ELSE /\ ttl' = IF ttl = 0 THEN 0 ELSE ttl - 1
               /\ UNCHANGED holder

----------------------------------------------------------------------------
(* What the lock object does with the reply.                               *)

\* Acquire returns nil: lines 58-60.
Granted(i) == acquired' = [acquired EXCEPT ![i] = TRUE]

\* Seeded fault: the flag is reset only if the script deleted the key.
ReleaseKeepsFlag(i) == /\ acquired[i]
                       /\ CompareAndDelete(i)
                       /\ acquired' = [acquired EXCEPT ![i] = holder # i]

\* Release got a reply.  Either way, 1 or 0 keys deleted, the flag is reset.
Release(i) == /\ acquired[i]
              /\ CompareAndDelete(i)
              /\ acquired' = [acquired EXCEPT ![i] = FALSE]

\* Eval returned an error, before or after the script ran: the flag stays.
ReleaseFailed(i) == /\ acquired[i]
                    /\ CompareAndDelete(i) \/ UNCHANGED <<holder, ttl>>
                    /\ UNCHANGED acquired

\* Extend got a reply: 0 (not the holder) resets the flag.
Extend(i) == /\ acquired[i]
             /\ CompareAndExpire(i)
             /\ acquired' = [acquired EXCEPT ![i] = (holder = i)]

ExtendFailed(i) == /\ acquired[i]
                   /\ CompareAndExpire(i) \/ UNCHANGED <<holder, ttl>>
                   /\ UNCHANGED acquired

\* The process dies: its object and its value are lost, its key is not.
Forget(i) == /\ holder' = IF holder = i THEN Gone ELSE holder
             /\ acquired' = [acquired EXCEPT ![i] = FALSE]
             /\ UNCHANGED ttl
=============================================================================
