------------------------------ MODULE Dispatch ------------------------------
(***************************************************************************)
(* ProcessMessages of internal/service/message_service.go over the table   *)
(* of messages (internal/repository/postgres.go), the SMS provider behind  *)
(* HTTPSMSProvider and the delivery cache (internal/repository/redis.go).  *)
(*                                                                         *)
(* A worker is an instance's call of ProcessMessages.  Its steps are the   *)
(* calls it makes, each of which may fail, and the process may die between *)
(* any two.  With Exclusive, a batch starts only when no other is running: *)
(* what LockedScheduler guarantees (BatchesExclude).  Without, batches of  *)
(* several workers overlap, as with DISTRIBUTED_LOCK_ENABLED=false.        *)
(*                                                                         *)
(* A message is the position of its row in the order of the query,         *)
(* (created_at, id).  Rows are committed in any order: a row may appear    *)
(* before one that precedes it.  The deliveries of a message are numbered  *)
(* as the provider accepts them; the number stands for the MessageID the   *)
(* provider answers with.                                                  *)
(***************************************************************************)
EXTENDS Naturals, Sequences, FiniteSets

CONSTANTS Workers,    \* instances that may run ProcessMessages
          Messages,   \* rows, as positions in the order of the query
          Malformed,  \* rows the query's filter never selects
          Poison,     \* messages the provider always rejects
          Exclusive,  \* TRUE: batches are serialised by the distributed lock
          MaxFaults   \* bound on failed calls and killed processes

ASSUME DispatchAssumption ==
    /\ Messages \subseteq Nat
    /\ IsFiniteSet(Messages)
    /\ Malformed \subseteq Messages
    /\ Poison \subseteq Messages
    /\ Exclusive \in BOOLEAN
    /\ MaxFaults \in Nat

VARIABLES rows,       \* rows[m]: the row is absent, unsent or sent
          cache,      \* cache[m]: the delivery cached under delivery:<m>, or 0
          accepted,   \* accepted[m]: times the provider accepted m
          late,       \* late[m]: requests for m whose caller has gone
          pc, batch,  \* each worker's place and the messages left to process
          delivery,   \* delivery[w]: the delivery answered to w's request
          marked,     \* history: the delivery for which m was marked, or 0
          ahead,      \* history: the rows before m present when m appeared
          faults

stores == <<rows, cache, marked, ahead>>
provider == <<accepted, late>>
workers == <<pc, batch, delivery>>
vars == <<stores, provider, workers, faults>>

Status == {"absent", "unsent", "sent"}

Locations == {"idle",      \* not in ProcessMessages
              "fetching",  \* the SELECT is running and holds its row locks
              "send",      \* about to call SendMessage for Head(batch)
              "await",     \* the request is on its way to the provider
              "answered",  \* the provider accepted it, the answer is on its way
              "mark",      \* about to call MarkAsSent
              "cache"}     \* about to call SetDeliveryCache

\* Seeded fault: a batch of one.
batchSizeOne == 1

batchSize == 2

Init == /\ rows = [m \in Messages |-> "absent"]
        /\ cache = [m \in Messages |-> 0]
        /\ accepted = [m \in Messages |-> 0]
        /\ late = [m \in Messages |-> 0]
        /\ pc = [w \in Workers |-> "idle"]
        /\ batch = [w \in Workers |-> <<>>]
        /\ delivery = [w \in Workers |-> 0]
        /\ marked = [m \in Messages |-> 0]
        /\ ahead = [m \in Messages |-> {}]
        /\ faults = 0

Fault == faults < MaxFaults /\ faults' = faults + 1

Current(w) == Head(batch[w])

Go(w, from, to) == /\ pc[w] = from
                   /\ pc' = [pc EXCEPT ![w] = to]

\* processSingleMessage returned, with or without an error: the loop goes on
\* with the next message of the batch, or ProcessMessages returns.
NextMessage(w) ==
    /\ batch' = [batch EXCEPT ![w] = Tail(@)]
    /\ pc' = [pc EXCEPT ![w] = IF Len(batch[w]) = 1 THEN "idle" ELSE "send"]
    /\ delivery' = [delivery EXCEPT ![w] = 0]

----------------------------------------------------------------------------
(* GetUnsentMessages                                                       *)

\* Seeded fault: the query without sent = FALSE.
SelectableSentToo(m) == rows[m] # "absent" /\ m \notin Malformed

Selectable(m) == rows[m] = "unsent" /\ m \notin Malformed

\* FOR UPDATE: the row is locked until the statement ends.  The query runs
\* outside a transaction, so that is before its first message is sent.
RowLocked(m) == \E v \in Workers:
                   /\ pc[v] = "fetching"
                   /\ \E k \in 1..Len(batch[v]): batch[v][k] = m

\* SKIP LOCKED LIMIT n over the rows in order.
Available == {m \in Messages: Selectable(m) /\ ~RowLocked(m)}

Precede(S, m) == {n \in S: n < m}

\* Seeded fault: the query without ORDER BY.
IsSomeOf(s, n) ==
    /\ \A k \in DOMAIN s: s[k] \in Available /\ \A j \in 1..(k - 1): s[j] # s[k]
    /\ Len(s) <= n
    /\ Len(s) < n => Len(s) = Cardinality(Available)

IsFirstOf(s, n) ==
    /\ \A k \in DOMAIN s: /\ s[k] \in Available
                          /\ Cardinality(Precede(Available, s[k])) = k - 1
    /\ Len(s) <= n
    /\ Len(s) < n => Len(s) = Cardinality(Available)

UpTo(n) == UNION {[1..k -> Messages]: k \in 0..n}

BeginBatch(w) == /\ Go(w, "idle", "fetching")
                 /\ Exclusive => \A v \in Workers: pc[v] = "idle"
                 /\ \E s \in UpTo(batchSize):
                       /\ IsFirstOf(s, batchSize)
                       /\ batch' = [batch EXCEPT ![w] = s]
                 /\ UNCHANGED <<stores, provider, delivery, faults>>

\* Seeded fault: the test for an empty result is missing.
FetchedUntested(w) == /\ Go(w, "fetching", "send")
                      /\ UNCHANGED <<stores, provider, batch, delivery, faults>>

Fetched(w) == /\ Go(w, "fetching", IF batch[w] = <<>> THEN "idle" ELSE "send")
              /\ UNCHANGED <<stores, provider, batch, delivery, faults>>

FetchFails(w) == /\ Go(w, "fetching", "idle")
                 /\ batch' = [batch EXCEPT ![w] = <<>>]
                 /\ Fault
                 /\ UNCHANGED <<stores, provider, delivery>>

----------------------------------------------------------------------------
(* SendMessage                                                             *)

Send(w) == /\ Go(w, "send", "await")
           /\ UNCHANGED <<stores, provider, batch, delivery, faults>>

\* The provider accepts the request and answers 200 with a MessageID.
Accept(w) == /\ Go(w, "await", "answered")
             /\ Current(w) \notin Poison
             /\ accepted' = [accepted EXCEPT ![Current(w)] = @ + 1]
             /\ delivery' = [delivery EXCEPT ![w] = accepted[Current(w)] + 1]
             /\ UNCHANGED <<stores, late, batch, faults>>

\* Seeded fault: the request is sent and its answer not waited for.
AnswerUnread(w) == /\ Go(w, "await", "mark")
                   /\ UNCHANGED <<stores, provider, batch, delivery, faults>>

Answer(w) == /\ Go(w, "answered", "mark")
             /\ UNCHANGED <<stores, provider, batch, delivery, faults>>

\* The answer is lost, late or cannot be decoded: SendMessage fails although
\* the provider has accepted.
AnswerLost(w) == /\ pc[w] = "answered"
                 /\ NextMessage(w)
                 /\ Fault
                 /\ UNCHANGED <<stores, provider>>

\* Seeded fault: the status is not looked at.
RejectUnseen(w) == /\ Go(w, "await", "mark")
                   /\ \/ Current(w) \in Poison /\ UNCHANGED faults
                      \/ Current(w) \notin Poison /\ Fault
                   /\ UNCHANGED <<stores, provider, batch, delivery>>

\* The provider answers with another status.
Reject(w) == /\ pc[w] = "await"
             /\ NextMessage(w)
             /\ \/ Current(w) \in Poison /\ UNCHANGED faults
                \/ Current(w) \notin Poison /\ Fault
             /\ UNCHANGED <<stores, provider>>

\* The client gives up after 6 s (or the batch's context ends); the request
\* may still reach the provider.
Timeout(w) == /\ pc[w] = "await"
              /\ late' = [late EXCEPT ![Current(w)] = @ + 1]
              /\ NextMessage(w)
              /\ Fault
              /\ UNCHANGED <<stores, accepted>>

LateRequest(m) == /\ late[m] > 0
                  /\ late' = [late EXCEPT ![m] = @ - 1]
                  /\ UNCHANGED <<stores, workers, faults>>

LateAccept(m) == /\ LateRequest(m)
                 /\ m \notin Poison
                 /\ accepted' = [accepted EXCEPT ![m] = @ + 1]

LateDrop(m) == LateRequest(m) /\ UNCHANGED accepted

----------------------------------------------------------------------------
(* MarkAsSent                                                              *)

\* Seeded faults: the UPDATE without sent = FALSE; an UPDATE without effect.
UpdateAnyRow(w) == /\ ~RowLocked(Current(w))
                   /\ rows' = [rows EXCEPT ![Current(w)] = "sent"]
                   /\ marked' = [marked EXCEPT ![Current(w)] = delivery[w]]

UpdateNothing(w) == /\ ~RowLocked(Current(w))
                    /\ rows[Current(w)] = "unsent"
                    /\ UNCHANGED <<rows, marked>>

\* UPDATE ... WHERE id = m AND sent = FALSE, once no SELECT has the row.
UpdateRow(w) == /\ ~RowLocked(Current(w))
                /\ rows[Current(w)] = "unsent"
                /\ rows' = [rows EXCEPT ![Current(w)] = "sent"]
                /\ marked' = [marked EXCEPT ![Current(w)] = delivery[w]]

Mark(w) == /\ Go(w, "mark", "cache")
           /\ UpdateRow(w)
           /\ UNCHANGED <<cache, ahead, provider, batch, delivery, faults>>

\* Seeded fault: the number of rows updated is not looked at.
MarkNoneUnseen(w) == /\ Go(w, "mark", "cache")
                     /\ ~RowLocked(Current(w))
                     /\ rows[Current(w)] # "unsent"
                     /\ UNCHANGED <<stores, provider, batch, delivery, faults>>

\* No row was updated: somebody else has marked the message.
MarkNone(w) == /\ pc[w] = "mark"
               /\ ~RowLocked(Current(w))
               /\ rows[Current(w)] # "unsent"
               /\ NextMessage(w)
               /\ UNCHANGED <<stores, provider, faults>>

\* The statement fails, or it succeeds and the answer is lost.
MarkFails(w) == /\ pc[w] = "mark"
                /\ UpdateRow(w) \/ UNCHANGED <<rows, marked>>
                /\ NextMessage(w)
                /\ Fault
                /\ UNCHANGED <<cache, ahead, provider>>

----------------------------------------------------------------------------
(* SetDeliveryCache, whose error processSingleMessage drops                *)

\* Seeded fault: SET with NX.
CacheIfNone(w) == /\ pc[w] = "cache"
                  /\ cache' = [cache EXCEPT ![Current(w)] = IF @ = 0 THEN delivery[w] ELSE @]
                  /\ NextMessage(w)
                  /\ UNCHANGED <<rows, marked, ahead, provider, faults>>

Cache(w) == /\ pc[w] = "cache"
            /\ cache' = [cache EXCEPT ![Current(w)] = delivery[w]]
            /\ NextMessage(w)
            /\ UNCHANGED <<rows, marked, ahead, provider, faults>>

CacheFails(w) == /\ pc[w] = "cache"
                 /\ NextMessage(w)
                 /\ Fault
                 /\ UNCHANGED <<stores, provider>>

\* The entry's 24 hours are over.
CacheExpires(m) == /\ cache[m] # 0
                   /\ cache' = [cache EXCEPT ![m] = 0]
                   /\ UNCHANGED <<rows, marked, ahead, provider, workers, faults>>

----------------------------------------------------------------------------
(* The process dies; another one takes its place.                          *)

Crash(w) == /\ pc[w] # "idle"
            /\ pc' = [pc EXCEPT ![w] = "idle"]
            /\ batch' = [batch EXCEPT ![w] = <<>>]
            /\ delivery' = [delivery EXCEPT ![w] = 0]
            /\ late' = IF pc[w] = "await" THEN [late EXCEPT ![Current(w)] = @ + 1] ELSE late
            /\ Fault
            /\ UNCHANGED <<stores, accepted>>

\* CreateMessage or any other client commits a row, in any order.
Insert(m) == /\ rows[m] = "absent"
             /\ rows' = [rows EXCEPT ![m] = "unsent"]
             /\ ahead' = [ahead EXCEPT ![m] = {n \in Precede(Messages, m): rows[n] # "absent"}]
             /\ UNCHANGED <<cache, marked, provider, workers, faults>>

----------------------------------------------------------------------------
\* What a worker does by itself.  Its calls return, with one result or another.
Work(w) == \/ BeginBatch(w) \/ Fetched(w) \/ FetchFails(w)
           \/ Send(w) \/ Accept(w) \/ Answer(w)
           \/ AnswerLost(w) \/ Reject(w) \/ Timeout(w)
           \/ Mark(w) \/ MarkNone(w) \/ MarkFails(w)
           \/ Cache(w) \/ CacheFails(w)

Next == \/ \E w \in Workers: Work(w) \/ Crash(w)
        \/ \E m \in Messages:
              LateAccept(m) \/ LateDrop(m) \/ CacheExpires(m) \/ Insert(m)

Spec == Init /\ [][Next]_vars

\* Every worker keeps working: each interval starts another batch, each call
\* returns.  Nobody is obliged to insert, to fail or to die.
FairSpec == Spec /\ \A w \in Workers: WF_vars(Work(w))

----------------------------------------------------------------------------
(* Properties                                                              *)

TypeOK == /\ rows \in [Messages -> Status]
          /\ cache \in [Messages -> Nat]
          /\ accepted \in [Messages -> Nat]
          /\ late \in [Messages -> Nat]
          /\ pc \in [Workers -> Locations]
          /\ batch \in [Workers -> Seq(Messages)]
          /\ delivery \in [Workers -> Nat]
          /\ marked \in [Messages -> Nat]
          /\ ahead \in [Messages -> SUBSET Messages]
          /\ faults \in 0..MaxFaults
          /\ \A w \in Workers: pc[w] \notin {"idle", "fetching"} => batch[w] # <<>>

\* No message is lost: a row is marked as sent only for a delivery that the
\* provider really accepted.
NoLoss == \A m \in Messages: rows[m] = "sent" => marked[m] \in 1..accepted[m]

\* The cache never names a delivery other than the one the row was marked for,
\* although several workers may have delivered the message.
CacheSound == \A m \in Messages:
                 cache[m] # 0 => rows[m] = "sent" /\ cache[m] = marked[m]

\* Copies of m the provider has, or may still get from an abandoned request,
\* beyond the first.
Extra(m) == IF accepted[m] + late[m] > 1 THEN accepted[m] + late[m] - 1 ELSE 0

\* Those of all messages, each by its message and number.
ExtraCopies == UNION {{m} \X (1..Extra(m)): m \in Messages}

\* Under the lock, every extra copy was paid for by a failure of its own:
\* without failures nothing is ever sent twice, and n failures cost at most n
\* copies, of all messages together.
DuplicatesCharged == Exclusive => Cardinality(ExtraCopies) <= faults

\* Under the lock a message marked as sent is never handed to the provider.
NoSendAfterSent ==
    [][Exclusive => \A w \in Workers:
         pc[w] = "send" /\ pc'[w] = "await" => rows[Current(w)] = "unsent"]_vars

\* README.md:133: as long as nothing fails, the provider gets no message before
\* one that is older and was there first.  A message that the provider rejects
\* is overtaken: nothing waits for it, see BatchUntilSuccess.
FIFO == Exclusive /\ faults = 0 =>
          \A m \in Messages: accepted[m] > 0 =>
             \A n \in ahead[m] \ (Poison \cup Malformed): accepted[n] > 0

\* Messages are delivered in spite of failures and of rejected messages, as
\* long as the rejected ones do not fill a batch.  So new messages are loaded
\* although a batch never succeeds, unlike BatchUntilSuccess says.
EventuallySent ==
    \A m \in Messages \ (Poison \cup Malformed):
        rows[m] = "unsent" ~> rows[m] = "sent"

\* Dispatching keeps the promise of an outbox.
Abstract == INSTANCE Outbox WITH
                queued <- {m \in Messages: rows[m] # "absent"},
                confirmed <- marked,
                note <- cache
KeepsOutbox == Abstract!Spec

\* A row that was left unsent when a later one of its batch was sent.
LeftOver == {n \in Messages: /\ Selectable(n)
                             /\ \E m \in Messages: n \in ahead[m] /\ rows[m] = "sent"}

\* QUICK_REFERENCE.md:23-24: after a batch that did not succeed, the same batch
\* is tried again, and no new messages are loaded until it succeeds.
BatchUntilSuccess ==
    [][Exclusive => \A w \in Workers:
         pc[w] = "idle" /\ pc'[w] = "fetching" /\ LeftOver # {} =>
            \A k \in DOMAIN batch'[w]: batch'[w][k] \in LeftOver]_vars

\* QUICK_REFERENCE.md:48-51: overlapping batches do not send a message twice.
NoDuplicateWithoutFault ==
    faults = 0 => \A m \in Messages: accepted[m] <= 1
=============================================================================
