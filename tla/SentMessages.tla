---------------------------- MODULE SentMessages ----------------------------
(***************************************************************************)
(* What a client of GET /api/messages/sent is shown while batches run, and *)
(* what the operator's tools do to both: GetSentMessages of                *)
(* internal/handler/message_handler.go, GetSentMessagesWithCache of        *)
(* internal/service/message_service.go, cmd/clear-messages, cmd/migrate    *)
(* and cmd/add-single-message.                                             *)
(*                                                                         *)
(* One request is followed at a time, since requests change nothing.  It   *)
(* takes a snapshot of the rows and then has Redis answer one GET after    *)
(* the other; batches, expiries and tools come in between.                 *)
(*                                                                         *)
(* clear-messages empties the table and starts the ids again, so a row     *)
(* inserted later has the id, and the cache key, of a row that is gone.    *)
(* Redis and the batches in memory know nothing of it.                     *)
(***************************************************************************)
EXTENDS Dispatch, FiniteSetsExt

CONSTANTS MaxClears,  \* bound on runs of clear-messages
          Samples     \* number of rows the migration inserts

ASSUME SentAssumption == MaxClears \in Nat /\ Samples \in Nat \ {0}

VARIABLES listed,  \* the messages the last request's query returned
          left,    \* those of them whose GET has not been executed
          entry,   \* the delivery each GET returned, 0 for none
          clears,  \* how often the table was cleared
          bornIn,  \* history: the clears before w's batch was selected
          foreign, \* history: the rows not marked for a delivery of their own
          atRisk   \* history: the messages in batches when the table was cleared

reader == <<listed, left, entry>>
history == <<bornIn, foreign>>
sentVars == <<vars, reader, clears, history, atRisk>>

NoEntries == [m \in Messages |-> 0]

SentInit == /\ Init
            /\ listed = {} /\ left = {} /\ entry = NoEntries
            /\ clears = 0 /\ atRisk = {}
            /\ bornIn = [w \in Workers |-> 0]
            /\ foreign = {}

----------------------------------------------------------------------------
(* The request                                                             *)

\* Seeded fault: sent and unsent rows.
RowsSentAny == {m \in Messages: rows[m] # "absent"}

\* SELECT ... WHERE sent = TRUE
RowsSent == {m \in Messages: rows[m] = "sent"}

\* Seeded fault: the cache is asked for rows that are not in the list.
ListOthers == /\ left = {}
              /\ RowsSent # {}
              /\ listed' = RowsSent
              /\ left' = RowsSentAny
              /\ entry' = NoEntries
              /\ UNCHANGED <<vars, clears, history, atRisk>>

\* A query that fails (500 retrieval_failed) or returns no rows is answered at
\* once and leaves nothing behind: there is no step for it.
List == /\ left = {}
        /\ RowsSent # {}
        /\ listed' = RowsSent
        /\ left' = RowsSent
        /\ entry' = NoEntries
        /\ UNCHANGED <<vars, clears, history, atRisk>>

\* Seeded fault: entries by position in the reply, not by id.
EntryShifted(m) == IF m + 1 \in listed THEN cache[m + 1] ELSE cache[m]

\* redis.Nil leaves m without an entry.
EntryOf(m) == cache[m]

\* Redis executes the next GET of the pipeline, in the order of the list.
Get(m) == /\ m \in left /\ Precede(left, m) = {}
          /\ entry' = [entry EXCEPT ![m] = EntryOf(m)]
          /\ left' = left \ {m}
          /\ UNCHANGED <<vars, listed, clears, history, atRisk>>

\* The pipeline fails, or one entry cannot be read: the list goes out without
\* any delivery.
GetFails == /\ left # {}
            /\ entry' = NoEntries
            /\ left' = {}
            /\ UNCHANGED <<vars, listed, clears, history, atRisk>>

\* GetSentMessagesWithCache: the listed messages, each with its entry if any.
Response == {[id |-> m, delivery |-> entry[m]]: m \in listed}

\* What the handler has answered with 200, once Redis has answered.
Shown == IF left = {} THEN Response ELSE {}

----------------------------------------------------------------------------
(* The tools                                                               *)

InHand == UNION {Range(batch[w]): w \in Workers}

\* clear-messages: TRUNCATE TABLE messages RESTART IDENTITY.  It waits for
\* statements that use the table, and for nothing else.
Clear == /\ clears < MaxClears
         /\ \A w \in Workers: pc[w] # "fetching"
         /\ rows' = [m \in Messages |-> "absent"]
         /\ marked' = [m \in Messages |-> 0]
         /\ ahead' = [m \in Messages |-> {}]
         /\ foreign' = {}
         /\ clears' = clears + 1
         /\ atRisk' = atRisk \cup InHand
         /\ UNCHANGED <<cache, provider, workers, faults, reader, bornIn>>

\* migrate: the table exists, and ON CONFLICT DO NOTHING meets no conflict, as
\* the ids are new: each run inserts the sample rows once more, in one
\* statement, behind the rows that are there.
Migrate ==
    \E S \in kSubset(Samples, {m \in Messages: rows[m] = "absent"}):
        /\ \A m \in S, n \in Messages: rows[n] # "absent" => n < m
        /\ rows' = [m \in Messages |-> IF m \in S THEN "unsent" ELSE rows[m]]
        /\ ahead' = [m \in Messages |->
              IF m \in S THEN {n \in Precede(Messages, m): rows'[n] # "absent"}
              ELSE ahead[m]]
        /\ UNCHANGED <<cache, marked, provider, workers, faults, reader, clears, history, atRisk>>

\* add-single-message inserts a row, or logs that it could not, and then only
\* counts the unsent ones.
AddSingleMessage(m) == Insert(m) /\ UNCHANGED <<reader, clears, history, atRisk>>

----------------------------------------------------------------------------
\* A worker, the provider or the cache takes a step of Dispatch.
Remember ==
    /\ bornIn' = [w \in Workers |->
          CASE pc'[w] = "idle" -> 0
            [] pc[w] = "idle" /\ pc'[w] # "idle" -> clears
            [] OTHER -> bornIn[w]]
    /\ foreign' = foreign \cup {Current(w): w \in
          {v \in Workers: /\ pc[v] = "mark" /\ pc'[v] # "mark"
                          /\ rows[Current(v)] = "unsent" /\ rows'[Current(v)] = "sent"
                          /\ bornIn[v] # clears \/ delivery[v] \notin 1..accepted[Current(v)]}}

Dispatching == /\ \/ \E w \in Workers: Work(w) \/ Crash(w)
                  \/ \E m \in Messages: LateAccept(m) \/ LateDrop(m) \/ CacheExpires(m)
               /\ Remember
               /\ UNCHANGED <<reader, clears, atRisk>>

SentNext == \/ Dispatching
            \/ List \/ GetFails
            \/ \E m \in Messages: Get(m) \/ AddSingleMessage(m)
            \/ Clear \/ Migrate

SentSpec == SentInit /\ [][SentNext]_sentVars

----------------------------------------------------------------------------
(* Properties                                                              *)

SentTypeOK == /\ listed \subseteq Messages /\ left \subseteq listed
              /\ entry \in [Messages -> Nat]
              /\ clears \in 0..MaxClears
              /\ bornIn \in [Workers -> 0..clears]
              /\ foreign \subseteq Messages
              /\ atRisk \subseteq Messages

\* README.md:120: rows and cache are read at different times, and the cache may
\* be written, expire or fail in between; unless the table was cleared, a
\* response still lists only messages that were delivered, each with the
\* delivery its row was marked for or with none.
ResponseSound ==
    clears = 0 =>
       \A r \in Shown:
          /\ marked[r.id] \in 1..accepted[r.id] /\ r.id \notin foreign
          /\ r.delivery \in {0, marked[r.id]}

\* migrations/001_initial_schema.sql:39: sent tells that the message has been
\* sent.  A batch that is under way when the table is cleared may mark the new
\* row with the id of an old one; each of its messages costs at most one.
LossCharged == foreign \subseteq atRisk

\* The cache survives clear-messages.  If the table is cleared between batches
\* and nothing fails, an entry of a former message under the id of a sent one
\* lasts only until its worker comes to SetDeliveryCache.
StaleOnlyInPassing ==
    faults = 0 /\ atRisk = {} =>
       \A m \in RowsSent: cache[m] \notin {0, marked[m]} =>
          \E w \in Workers: pc[w] = "cache" /\ Current(w) = m
=============================================================================
