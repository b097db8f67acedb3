------------------------ MODULE SerialDispatchProofs ------------------------
(***************************************************************************)
(* Proofs about Dispatch when the lock serialises the batches (Exclusive): *)
(* nothing is handed to the provider once its row is marked, deliveries    *)
(* keep the order of the rows as long as nothing fails, and every further  *)
(* copy of a message is paid for by a failure.                             *)
(*                                                                         *)
(* At most one worker is in ProcessMessages, so the rows it has selected   *)
(* stay unsent until it marks them itself, and the rows that were selected *)
(* first are the oldest ones.                                              *)
(***************************************************************************)
EXTENDS DispatchProofs, FiniteSetTheorems

Served == Messages \ (Poison \cup Malformed)

\* At most one worker is in ProcessMessages.
Alone == \A v, w \in Workers: pc[v] # "idle" /\ pc[w] # "idle" => v = w

\* A batch has no message twice.
Apart(w) == \A j, k \in DOMAIN batch[w]: batch[w][j] = batch[w][k] => j = k

\* Its rows are unsent, but for the one the worker has just marked.
Untouched(w) == \A k \in DOMAIN batch[w]:
                   k > 1 \/ pc[w] # "cache" => rows[batch[w][k]] = "unsent"

\* As long as nothing fails, what precedes a message of the batch was accepted,
\* or comes earlier in the batch.
InOrder(w) == faults = 0 =>
                 \A k \in DOMAIN batch[w]: \A n \in ahead[batch[w][k]] \cap Served:
                    accepted[n] > 0 \/ \E j \in 1..(k - 1): batch[w][j] = n

BatchesSound == \A w \in Workers: pc[w] # "idle" => Apart(w) /\ Untouched(w) /\ InOrder(w)

\* What was ahead of a row existed; a row that does not exist was not sent.
HistorySound == /\ \A m \in Messages: \A n \in ahead[m]: n \in queue /\ n < m
                /\ \A m \in Messages \ queue: accepted[m] = 0

\* Worker w, or some worker, has an accepted copy of m that is not marked yet.
Holds(w, m) == pc[w] \in {"answered", "mark"} /\ Current(w) = m
InFlight(m) == \E w \in Workers: Holds(w, m)

\* The copies of m that the provider has or may get; the one among them that is
\* due to its mark.
Copies(m) == accepted[m] + late[m]
Due(m) == IF rows[m] = "sent" \/ InFlight(m) THEN 1 ELSE 0

\* Every other copy of a message is for a failure ...
Paid == \A m \in Messages: Copies(m) <= faults + Due(m)

\* ... and no two copies, of whatever messages, are for the same one.
Debts == {d \in Messages \X Nat: 1 <= d[2] /\ d[2] + Due(d[1]) <= Copies(d[1])}
PaidInAll == IsFiniteSet(Debts) /\ Cardinality(Debts) <= faults

SerialInv == /\ Inv /\ Known /\ Alone /\ BatchesSound /\ HistorySound
             /\ Paid /\ PaidInAll /\ FIFO

----------------------------------------------------------------------------
\* The message at hand is the first of the batch.
LEMMA First ==
  ASSUME TypeOK, NEW w \in Workers, pc[w] \notin {"idle", "fetching"}
  PROVE  1 \in DOMAIN batch[w] /\ Current(w) = batch[w][1] /\ Current(w) \in Messages
<1>1. batch[w] \in Seq(Messages) /\ batch[w] # <<>>
  BY DEF TypeOK
<1>2. Len(batch[w]) \in Nat \ {0} /\ DOMAIN batch[w] = 1..Len(batch[w])
  BY <1>1, EmptySeq, LenProperties
<1> QED
  BY <1>1, <1>2, ElementOfSeq DEF Current

\* The messages left are those of the batch, one place further on.
LEMMA TailAt ==
  ASSUME TypeOK, NEW w \in Workers, batch[w] # <<>>, NEW k \in DOMAIN Tail(batch[w])
  PROVE  k \in Nat \ {0} /\ k + 1 \in DOMAIN batch[w] /\ Tail(batch[w])[k] = batch[w][k + 1]
<1>1. batch[w] \in Seq(Messages)
  BY DEF TypeOK
<1>2. /\ Len(batch[w]) \in Nat /\ DOMAIN batch[w] = 1..Len(batch[w])
      /\ Len(Tail(batch[w])) = Len(batch[w]) - 1
      /\ DOMAIN Tail(batch[w]) = 1..Len(Tail(batch[w]))
  BY <1>1, LenProperties, HeadTailProperties
<1> QED
  BY <1>1, <1>2, HeadTailProperties

\* The members of a batch are messages.
LEMMA MemberType ==
  ASSUME TypeOK, NEW w \in Workers, NEW k \in DOMAIN batch[w]
  PROVE  k \in Nat \ {0} /\ batch[w][k] \in Messages
<1>1. batch[w] \in Seq(Messages)
  BY DEF TypeOK
<1> QED
  BY <1>1, ElementOfSeq, LenProperties

\* A worker's step leaves the others where they are.
LEMMA WorkFrame ==
  ASSUME TypeOK, NEW w \in Workers, Work(w) \/ Crash(w)
  PROVE  Others(w)
BY DEF Work, BeginBatch, Fetched, FetchFails, Send, Accept, Answer, AnswerLost, Reject,
       Timeout, Mark, MarkNone, MarkFails, Cache, CacheFails, Crash, NextMessage, Go,
       stores, provider, TypeOK, Others

\* After a worker's step, the others are idle.
LEMMA AloneStep ==
  ASSUME TypeOK, Alone, Exclusive, NEW w \in Workers, Work(w) \/ Crash(w)
  PROVE  Alone' /\ \A v \in Workers \ {w}: pc[v] = "idle" /\ pc'[v] = "idle"
<1>1. CASE BeginBatch(w)
  BY <1>1, WorkFrame DEF BeginBatch, Others, Alone
<1>2. CASE ~BeginBatch(w)
  <2>1. pc[w] # "idle"
    BY <1>2 DEF Work, Fetched, FetchFails, Send, Accept, Answer, AnswerLost, Reject,
                Timeout, Mark, MarkNone, MarkFails, Cache, CacheFails, Crash, Go
  <2> QED
    BY <2>1, WorkFrame DEF Others, Alone
<1> QED
  BY <1>1, <1>2

----------------------------------------------------------------------------
(* What a step of w does to its batch.                                     *)

\* The query returns the oldest rows: what is older than one of them comes
\* before it.
LEMMA OldestFirst ==
  ASSUME NEW s \in UpTo(batchSize), IsFirstOf(s, batchSize),
         NEW k \in DOMAIN s, NEW n \in Available, n < s[k]
  PROVE  \E j \in 1..(k - 1): s[j] = n
<1> USE DispatchAssumption
<1>1. PICK l \in 0..2: s \in [1..l -> Messages]
  BY DEF UpTo, batchSize
<1>2. k \in 1..2 /\ s[k] \in Messages /\ n \in Messages /\ DOMAIN s = 1..l
  BY <1>1 DEF Available
<1>3. \A m \in Messages: IsFiniteSet(Precede(Available, m))
  <2> SUFFICES ASSUME NEW m \in Messages PROVE IsFiniteSet(Precede(Available, m))
    OBVIOUS
  <2>1. Precede(Available, m) \in SUBSET Messages
    BY DEF Precede, Available
  <2> QED
    BY <2>1, FS_Subset
<1>4. \A j \in DOMAIN s: s[j] \in Available /\ Cardinality(Precede(Available, s[j])) = j - 1
  BY DEF IsFirstOf
<1>5. n \in Precede(Available, s[k])
  BY DEF Precede
<1>6. 1 \in DOMAIN s /\ s[1] \in Messages
  BY <1>1, <1>2
<1>7. Precede(Available, s[1]) = {}
  <2> DEFINE P == Precede(Available, s[1])
  <2>1. Cardinality(P) = 1 - 1 /\ IsFiniteSet(P)
    BY <1>3, <1>4, <1>6
  <2> HIDE DEF P
  <2>2. P = {}
    BY <2>1, 1 - 1 = 0, FS_EmptySet
  <2> QED
    BY <2>2 DEF P
<1>8. k = 2
  BY <1>2, <1>5, <1>7
<1>9. PICK x: Precede(Available, s[2]) = {x}
  <2> DEFINE P == Precede(Available, s[2])
  <2>1. Cardinality(P) = 2 - 1 /\ IsFiniteSet(P)
    BY <1>2, <1>3, <1>4, <1>8
  <2> HIDE DEF P
  <2>2. \E x: P = {x}
    BY <2>1, 2 - 1 = 1, FS_Singleton
  <2> QED
    BY <2>2 DEF P
<1>10. s[1] \in Precede(Available, s[2])
  <2>1. s[2] \in Available /\ s[1] \in Available
    BY <1>2, <1>4, <1>6, <1>8
  <2>2. ~ (s[2] < s[1])
    BY <1>7, <2>1 DEF Precede
  <2>3. s[1] # s[2]
    BY <1>5, <1>7, <1>8
  <2>4. s[1] \in Nat /\ s[2] \in Nat
    BY <1>2, <1>6, <1>8
  <2>5. s[1] < s[2]
    BY <2>2, <2>3, <2>4
  <2> QED
    BY <2>1, <2>5 DEF Precede
<1> QED
  BY <1>5, <1>8, <1>9, <1>10

\* A batch that begins is sound.
LEMMA BeginSound ==
  ASSUME Inv, Known, HistorySound, Exclusive, NEW w \in Workers, BeginBatch(w)
  PROVE  Apart(w)' /\ Untouched(w)' /\ InOrder(w)'
<1>1. PICK s \in UpTo(batchSize): IsFirstOf(s, batchSize) /\ batch' = [batch EXCEPT ![w] = s]
  BY DEF BeginBatch
<1>2. batch'[w] = s /\ UNCHANGED <<rows, ahead, accepted, faults>>
  BY <1>1 DEF BeginBatch, stores, provider, Inv, TypeOK
<1>3. PICK l \in 0..2: s \in [1..l -> Messages]
  BY DEF UpTo, batchSize
<1>4. \A k \in DOMAIN s: s[k] \in Available /\ Cardinality(Precede(Available, s[k])) = k - 1
  BY <1>1 DEF IsFirstOf
<1>5. Apart(w)'
  BY <1>2, <1>3, <1>4 DEF Apart
<1>6. Untouched(w)'
  BY <1>2, <1>4 DEF Untouched, Available, Selectable
<1>7. InOrder(w)'
  <2> SUFFICES ASSUME faults = 0, NEW k \in DOMAIN s, NEW n \in ahead[s[k]] \cap Served,
                      ~ (accepted[n] > 0)
               PROVE  \E j \in 1..(k - 1): s[j] = n
    BY <1>2 DEF InOrder
  <2>1. s[k] \in Messages /\ n \in queue /\ n < s[k] /\ n \in Messages
    BY <1>3 DEF HistorySound, Served, queue
  <2>2. rows[n] # "sent"
    BY <2>1 DEF Inv, MarkedSound, TypeOK
  <2>3. rows[n] = "unsent"
    BY <2>1, <2>2 DEF queue, Inv, TypeOK, Status
  <2>4. n \in Available
    BY <2>1, <2>3 DEF Available, Selectable, Served, RowLocked, BeginBatch
  <2> QED
    BY <1>1, <2>1, <2>4, OldestFirst
<1> QED
  BY <1>5, <1>6, <1>7

\* A step along the same message keeps the batch sound.
LEMMA SameSound ==
  ASSUME Inv, TypeOK', NEW w \in Workers, pc[w] \notin {"idle", "cache"},
         Apart(w), Untouched(w), InOrder(w), Monotone,
         UNCHANGED <<batch, ahead, faults>>,
         \/ rows' = rows /\ pc'[w] # "cache"
         \/ pc[w] = "mark" /\ rows' = [rows EXCEPT ![Current(w)] = "sent"] /\ pc'[w] = "cache"
  PROVE  Apart(w)' /\ Untouched(w)' /\ InOrder(w)'
<1>1. Apart(w)'
  BY DEF Apart
<1>2. Untouched(w)'
  <2>1. CASE rows' = rows
    BY <2>1 DEF Untouched
  <2>2. CASE pc[w] = "mark" /\ rows' = [rows EXCEPT ![Current(w)] = "sent"] /\ pc'[w] = "cache"
    <3> SUFFICES ASSUME NEW k \in DOMAIN batch[w], k > 1 PROVE rows'[batch[w][k]] = "unsent"
      BY <2>2 DEF Untouched
    <3>1. batch[w][k] # Current(w) /\ batch[w][k] \in Messages
      BY <2>2, First, MemberType DEF Apart, Inv
    <3> QED
      BY <2>2, <3>1 DEF Untouched, Inv, TypeOK
  <2> QED
    BY <2>1, <2>2
<1>3. InOrder(w)'
  <2> SUFFICES ASSUME faults = 0, NEW k \in DOMAIN batch[w],
                      NEW n \in ahead[batch[w][k]] \cap Served
               PROVE  accepted'[n] > 0 \/ \E j \in 1..(k - 1): batch[w][j] = n
    BY DEF InOrder
  <2>1. n \in Messages
    BY DEF Served
  <2>2. accepted[n] \in Nat /\ accepted'[n] \in Nat /\ accepted'[n] >= accepted[n]
    BY <2>1 DEF Monotone, Inv, TypeOK
  <2>3. accepted[n] > 0 \/ \E j \in 1..(k - 1): batch[w][j] = n
    BY DEF InOrder
  <2>4. accepted[n] > 0 => accepted'[n] > 0
    BY <2>2
  <2> QED
    BY <2>3, <2>4
<1> QED
  BY <1>1, <1>2, <1>3

\* Going on to the next message keeps the batch sound.
LEMMA TailSound ==
  ASSUME Inv, NEW w \in Workers, pc[w] \notin {"idle", "fetching"}, NextMessage(w),
         Apart(w), Untouched(w), InOrder(w), UNCHANGED <<ahead, accepted>>,
         rows' = rows \/ rows' = [rows EXCEPT ![Current(w)] = "sent"],
         faults' = 0 => faults = 0 /\ (Current(w) \in Poison \/ accepted[Current(w)] > 0)
  PROVE  Apart(w)' /\ Untouched(w)' /\ InOrder(w)'
<1>1. /\ 1 \in DOMAIN batch[w] /\ Current(w) = batch[w][1] /\ Current(w) \in Messages
      /\ batch[w] # <<>>
  BY First DEF Inv, TypeOK
<1>2. batch'[w] = Tail(batch[w]) /\ pc'[w] # "cache"
  BY DEF NextMessage, Inv, TypeOK
<1>3. ASSUME NEW k \in DOMAIN batch'[w]
      PROVE  /\ k \in Nat \ {0} /\ k + 1 \in DOMAIN batch[w]
             /\ batch'[w][k] = batch[w][k + 1]
  BY <1>1, <1>2, <1>3, TailAt DEF Inv
<1>4. Apart(w)'
  <2> SUFFICES ASSUME NEW j \in DOMAIN batch'[w], NEW k \in DOMAIN batch'[w],
                      batch'[w][j] = batch'[w][k]
               PROVE  j = k
    BY DEF Apart
  <2>1. j + 1 = k + 1
    BY <1>3 DEF Apart
  <2> QED
    BY <1>3, <2>1
<1>5. Untouched(w)'
  <2> SUFFICES ASSUME NEW k \in DOMAIN batch'[w] PROVE rows'[batch'[w][k]] = "unsent"
    BY DEF Untouched
  <2>1. k + 1 > 1 /\ k + 1 # 1 /\ k + 1 \in DOMAIN batch[w]
    BY <1>3
  <2>2. rows[batch[w][k + 1]] = "unsent"
    BY <2>1 DEF Untouched
  <2>3. batch[w][k + 1] # Current(w) /\ batch[w][k + 1] \in Messages
    BY <1>1, <2>1, MemberType DEF Apart, Inv
  <2> QED
    BY <1>3, <2>2, <2>3 DEF Inv, TypeOK
<1>6. InOrder(w)'
  <2> SUFFICES ASSUME faults' = 0, NEW k \in DOMAIN batch'[w],
                      NEW n \in ahead[batch'[w][k]] \cap Served, ~ (accepted[n] > 0)
               PROVE  \E j \in 1..(k - 1): batch'[w][j] = n
    BY DEF InOrder
  <2>1. k \in Nat \ {0} /\ k + 1 \in DOMAIN batch[w] /\ batch'[w][k] = batch[w][k + 1]
    BY <1>3
  <2>2. PICK j \in 1..((k + 1) - 1): batch[w][j] = n
    BY <2>1 DEF InOrder
  <2>3. n # Current(w)
    BY DEF Served
  <2>4. j # 1 /\ j \in Nat
    BY <1>1, <2>1, <2>2, <2>3
  <2>5. j - 1 \in 1..(k - 1) /\ j - 1 \in DOMAIN batch'[w]
    <3>1. /\ Len(batch'[w]) \in Nat /\ DOMAIN batch'[w] = 1..Len(batch'[w])
      <4>1. Tail(batch[w]) \in Seq(Messages)
        BY <1>1, HeadTailProperties DEF Inv, TypeOK
      <4> QED
        BY <1>2, <4>1, LenProperties
    <3> QED
      BY <2>1, <2>2, <2>4, <3>1
  <2>6. batch'[w][j - 1] = batch[w][(j - 1) + 1] /\ (j - 1) + 1 = j
    BY <1>3, <2>4, <2>5
  <2> QED
    BY <2>2, <2>5, <2>6
<1> QED
  BY <1>4, <1>5, <1>6

\* Each step of the one worker keeps its batch sound.
LEMMA WorkerSound ==
  ASSUME Inv, TypeOK', Monotone, Known, HistorySound, BatchesSound, Exclusive,
         NEW w \in Workers, Work(w) \/ Crash(w), pc'[w] # "idle"
  PROVE  Apart(w)' /\ Untouched(w)' /\ InOrder(w)'
<1>0. pc[w] # "idle" => Apart(w) /\ Untouched(w) /\ InOrder(w)
  BY DEF BatchesSound
<1>1. CASE BeginBatch(w)
  BY <1>1, BeginSound
<1>2. CASE Fetched(w) \/ Send(w) \/ Accept(w) \/ Answer(w)
  BY <1>0, <1>2, SameSound DEF Fetched, Send, Accept, Answer, Go, stores, Inv, TypeOK
<1>3. CASE Mark(w)
  BY <1>0, <1>3, SameSound DEF Mark, UpdateRow, Go, Inv, TypeOK
<1>4. CASE AnswerLost(w) \/ Reject(w) \/ Timeout(w) \/ MarkFails(w) \/ CacheFails(w)
  <2>1. /\ pc[w] \notin {"idle", "fetching"} /\ NextMessage(w)
        /\ UNCHANGED <<ahead, accepted>>
        /\ rows' = rows \/ rows' = [rows EXCEPT ![Current(w)] = "sent"]
    BY <1>4 DEF AnswerLost, Reject, Timeout, MarkFails, CacheFails, UpdateRow, stores, provider
  <2>2. faults' = 0 => faults = 0 /\ Current(w) \in Poison
    BY <1>4 DEF AnswerLost, Reject, Timeout, MarkFails, CacheFails, Fault, Inv, TypeOK
  <2> QED
    BY <1>0, <2>1, <2>2, TailSound
<1>5. CASE MarkNone(w) \/ Cache(w)
  <2>1. /\ pc[w] \in {"mark", "cache"} /\ NextMessage(w)
        /\ UNCHANGED <<rows, ahead, accepted, faults>>
    BY <1>5 DEF MarkNone, Cache, stores, provider
  <2>2. delivery[w] \in 1..accepted[Current(w)] /\ accepted[Current(w)] \in Nat
    BY <2>1, First DEF Inv, Carried, TypeOK
  <2>3. accepted[Current(w)] > 0
    BY <2>2
  <2> QED
    BY <1>0, <2>1, <2>3, TailSound
<1>6. CASE FetchFails(w) \/ Crash(w)
  BY <1>6 DEF FetchFails, Crash, Go, Inv, TypeOK
<1> QED
  BY <1>1, <1>2, <1>3, <1>4, <1>5, <1>6 DEF Work

----------------------------------------------------------------------------
(* The invariant under each step.                                          *)

\* A step of a worker only adds deliveries, and keeps the marks.
LEMMA WorkMonotone ==
  ASSUME TypeOK, TypeOK', NEW w \in Workers, Work(w) \/ Crash(w)
  PROVE  Monotone
<1>1. CASE Accept(w)
  <2>1. /\ Current(w) \in Messages /\ UNCHANGED <<rows, marked>>
        /\ accepted' = [accepted EXCEPT ![Current(w)] = @ + 1]
    BY <1>1, First DEF Accept, Go, stores
  <2>2. \A m \in Messages: accepted'[m] = accepted[m] \/ accepted'[m] = accepted[m] + 1
    BY <2>1 DEF TypeOK
  <2>3. \A m \in Messages: accepted[m] \in Nat
    BY DEF TypeOK
  <2> QED
    BY <2>1, <2>2, <2>3 DEF Monotone
<1>2. CASE ~Accept(w)
  <2>1. accepted' = accepted
    BY <1>2 DEF Work, BeginBatch, Fetched, FetchFails, Send, Answer, AnswerLost, Reject,
                Timeout, Mark, MarkNone, MarkFails, Cache, CacheFails, Crash, provider
  <2>2. \/ rows' = rows /\ marked' = marked
        \/ pc[w] = "mark" /\ UpdateRow(w)
    BY <1>2 DEF Work, BeginBatch, Fetched, FetchFails, Send, Answer, AnswerLost, Reject,
                Timeout, Mark, MarkNone, MarkFails, Cache, CacheFails, Crash, stores, Go
  <2>3. \A m \in Messages: accepted'[m] >= accepted[m]
    BY <2>1 DEF TypeOK
  <2>4. \A m \in Messages:
           rows[m] = "sent" => rows'[m] = "sent" /\ marked'[m] = marked[m]
    BY <2>2 DEF UpdateRow, TypeOK
  <2> QED
    BY <2>3, <2>4 DEF Monotone
<1> QED
  BY <1>1, <1>2

\* Work by anybody keeps every batch sound.
LEMMA BatchesWork ==
  ASSUME Inv, TypeOK', Known, HistorySound, BatchesSound, Alone, Exclusive,
         NEW w \in Workers, Work(w) \/ Crash(w)
  PROVE  BatchesSound'
<1>1. Monotone
  BY WorkMonotone DEF Inv
<1>2. \A v \in Workers \ {w}: pc'[v] = "idle"
  BY AloneStep DEF Inv
<1> QED
  BY <1>1, <1>2, WorkerSound DEF BatchesSound

\* So does what happens at the stores.
LEMMA BatchesStores ==
  ASSUME Inv, TypeOK', Known, HistorySound, BatchesSound, UNCHANGED workers,
         NEW m \in Messages,
         \/ LateAccept(m) \/ LateDrop(m) \/ CacheExpires(m) \/ Insert(m)
  PROVE  BatchesSound'
<1> SUFFICES ASSUME NEW w \in Workers, pc[w] # "idle"
             PROVE  Apart(w)' /\ Untouched(w)' /\ InOrder(w)'
  BY DEF BatchesSound, workers
<1>1. UNCHANGED <<pc, batch>> /\ faults' = faults /\ Apart(w) /\ Untouched(w) /\ InOrder(w)
  BY DEF workers, BatchesSound, LateAccept, LateDrop, LateRequest, CacheExpires, Insert
<1>2. \A k \in DOMAIN batch[w]: batch[w][k] \in queue /\ batch[w][k] \in Messages
  BY DEF Known, queue
<1>3. \A n \in queue: rows'[n] = rows[n] /\ ahead'[n] = ahead[n]
  <2>1. CASE Insert(m)
    <3>1. /\ rows[m] = "absent"
          /\ \A n \in Messages \ {m}: rows'[n] = rows[n] /\ ahead'[n] = ahead[n]
      BY <2>1 DEF Insert, Inv, TypeOK
    <3> QED
      BY <3>1 DEF queue
  <2>2. CASE ~Insert(m)
    BY <2>2 DEF LateAccept, LateDrop, LateRequest, CacheExpires, stores
  <2> QED
    BY <2>1, <2>2
<1>4. \A n \in Messages: accepted[n] > 0 => accepted'[n] > 0
  <2>1. CASE LateAccept(m)
    BY <2>1 DEF LateAccept, Inv, TypeOK
  <2>2. CASE LateDrop(m) \/ CacheExpires(m) \/ Insert(m)
    BY <2>2 DEF LateDrop, CacheExpires, Insert, provider
  <2> QED
    BY <2>1, <2>2
<1>5. Apart(w)' /\ Untouched(w)'
  BY <1>1, <1>2, <1>3 DEF Apart, Untouched
<1>6. InOrder(w)'
  BY <1>1, <1>2, <1>3, <1>4 DEF InOrder, Served
<1> QED
  BY <1>5, <1>6

\* Rows are only added, and ahead of a new row are rows that exist.
LEMMA HistoryStep ==
  ASSUME TypeOK, Known, HistorySound, [Next]_vars
  PROVE  HistorySound'
<1> USE DispatchAssumption
<1>1. queue \subseteq queue'
  BY QueueGrows
<1>2. ASSUME UNCHANGED ahead,
             \A m \in Messages: accepted'[m] = accepted[m] \/ m \in queue
      PROVE  HistorySound'
  BY <1>1, <1>2 DEF HistorySound
<1>3. ASSUME NEW w \in Workers, Work(w) \/ Crash(w) PROVE HistorySound'
  <2>1. CASE Accept(w)
    <3>1. Current(w) \in queue /\ accepted' = [accepted EXCEPT ![Current(w)] = @ + 1]
      BY <2>1, KnownCurrent DEF Accept, Go
    <3> QED
      BY <1>2, <2>1, <3>1 DEF Accept, stores, TypeOK
  <2>2. CASE ~Accept(w)
    BY <1>2, <1>3, <2>2
       DEF Work, BeginBatch, Fetched, FetchFails, Send, Answer, AnswerLost, Reject, Timeout,
           Mark, MarkNone, MarkFails, Cache, CacheFails, Crash, stores, provider
  <2> QED
    BY <2>1, <2>2
<1>4. ASSUME NEW m \in Messages, LateAccept(m) \/ LateDrop(m) \/ CacheExpires(m)
      PROVE  HistorySound'
  <2>1. UNCHANGED ahead
    BY <1>4 DEF LateAccept, LateDrop, LateRequest, CacheExpires, stores
  <2>2. ASSUME NEW n \in Messages PROVE accepted'[n] = accepted[n] \/ n \in queue
    BY <1>4 DEF LateAccept, LateDrop, LateRequest, CacheExpires, provider, Known, TypeOK
  <2> QED
    BY <1>2, <2>1, <2>2
<1>5. ASSUME NEW m \in Messages, Insert(m) PROVE HistorySound'
  <2>1. \A n \in Messages: \A l \in ahead'[n]: l \in ahead[n] \/ (l \in queue /\ l < n)
    BY <1>5 DEF Insert, Precede, queue, TypeOK
  <2>2. accepted' = accepted
    BY <1>5 DEF Insert, provider
  <2> QED
    BY <1>1, <2>1, <2>2 DEF HistorySound
<1>6. CASE UNCHANGED vars
  BY <1>2, <1>6 DEF vars, stores, provider
<1> QED
  BY <1>3, <1>4, <1>5, <1>6 DEF Next

\* What a step adds to the copies of m beyond the one that is due, it adds to
\* the failures.
Covered(m) == Copies(m)' + Due(m) + faults <= Copies(m) + Due(m)' + faults'

\* Only the worker at work can have a copy in flight.
LEMMA StepCovered ==
  ASSUME TypeOK, TypeOK', NEW w \in Workers,
         \A v \in Workers \ {w}: pc[v] = "idle" /\ pc'[v] = "idle",
         \A m \in Messages:
            \/ /\ accepted'[m] + late'[m] = accepted[m] + late[m]
               /\ \/ faults' = faults + 1
                  \/ /\ faults' = faults
                     /\ rows[m] = "sent" \/ Holds(w, m) => rows'[m] = "sent" \/ Holds(w, m)'
            \/ /\ accepted'[m] + late'[m] = accepted[m] + late[m] + 1
               /\ ~ (rows[m] = "sent" \/ Holds(w, m))
               /\ faults' = faults + 1 \/ (faults' = faults /\ Holds(w, m)')
  PROVE  \A m \in Messages: Covered(m)
<1> SUFFICES ASSUME NEW m \in Messages PROVE Covered(m)
  OBVIOUS
<1>1. (InFlight(m) <=> Holds(w, m)) /\ (InFlight(m)' <=> Holds(w, m)')
  BY DEF InFlight, Holds
<1>2. /\ accepted[m] \in Nat /\ late[m] \in Nat /\ faults \in Nat
      /\ accepted'[m] \in Nat /\ late'[m] \in Nat /\ faults' \in Nat
  BY DEF TypeOK
<1> QED
  BY <1>1, <1>2 DEF Covered, Copies, Due

\* Whatever the worker does, no copy is added that is not covered.
LEMMA WorkCovered ==
  ASSUME Inv, TypeOK', BatchesSound, Alone, Exclusive,
         NEW w \in Workers, Work(w) \/ Crash(w)
  PROVE  \A m \in Messages: Covered(m)
<1> DEFINE c == Current(w)
<1> USE DEF Inv
<1>0. \A v \in Workers \ {w}: pc[v] = "idle" /\ pc'[v] = "idle"
  BY AloneStep
<1>1. pc[w] \notin {"idle", "fetching"} => c \in Messages
  BY First
<1>2. pc[w] \in {"send", "await", "answered", "mark"} => rows[c] = "unsent"
  BY First DEF BatchesSound, Untouched
<1>3. CASE BeginBatch(w) \/ Fetched(w) \/ Send(w)
  BY <1>0, <1>3, StepCovered DEF BeginBatch, Fetched, Send, Go, Holds, stores, provider
<1>4. CASE Answer(w)
  BY <1>0, <1>4, StepCovered DEF Answer, Go, Holds, Current, stores, provider, TypeOK
<1>5. CASE Accept(w)
  <2>1. /\ pc[w] = "await" /\ c \in Messages /\ rows[c] = "unsent"
        /\ UNCHANGED <<rows, late, faults>>
    BY <1>1, <1>2, <1>5 DEF Accept, Go, stores
  <2>2. \A m \in Messages: ~Holds(w, m) /\ (Holds(w, m)' <=> m = c)
    BY <1>5, <2>1 DEF Accept, Go, Holds, Current, TypeOK
  <2>3. \A m \in Messages: accepted'[m] = IF m = c THEN accepted[m] + 1 ELSE accepted[m]
    BY <1>5, <2>1 DEF Accept, TypeOK
  <2>4. \A m \in Messages: accepted[m] \in Nat /\ late[m] \in Nat
    BY DEF TypeOK
  <2> HIDE DEF c
  <2>5. \A m \in Messages:
           \/ accepted'[m] + late'[m] = accepted[m] + late[m] /\ m # c
           \/ accepted'[m] + late'[m] = accepted[m] + late[m] + 1 /\ m = c
    BY <2>1, <2>3, <2>4
  <2> QED
    BY <1>0, <2>1, <2>2, <2>5, StepCovered
<1>6. CASE AnswerLost(w) \/ MarkFails(w) \/ CacheFails(w) \/ FetchFails(w)
  <2>1. faults' = faults + 1 /\ UNCHANGED <<accepted, late>>
    BY <1>6 DEF AnswerLost, MarkFails, CacheFails, FetchFails, Fault, provider
  <2> QED
    BY <1>0, <2>1, StepCovered
<1>7. CASE Reject(w) \/ Cache(w)
  <2>1. /\ UNCHANGED <<rows, accepted, late>>
        /\ faults' = faults \/ faults' = faults + 1
        /\ \A m \in Messages: ~Holds(w, m)
    BY <1>7 DEF Reject, Cache, Fault, Holds, stores, provider
  <2> QED
    BY <1>0, <2>1, StepCovered
<1>8. CASE Timeout(w) \/ (Crash(w) /\ pc[w] = "await")
  <2>1. /\ pc[w] = "await" /\ c \in Messages /\ rows[c] = "unsent"
        /\ UNCHANGED <<rows, accepted>> /\ faults' = faults + 1
        /\ late' = [late EXCEPT ![c] = @ + 1]
    BY <1>1, <1>2, <1>8 DEF Timeout, Crash, Fault, stores
  <2>2. \A m \in Messages: ~Holds(w, m)
    BY <2>1 DEF Holds
  <2>3. \A m \in Messages: late'[m] = IF m = c THEN late[m] + 1 ELSE late[m]
    BY <2>1 DEF TypeOK
  <2>4. \A m \in Messages: accepted[m] \in Nat /\ late[m] \in Nat
    BY DEF TypeOK
  <2> HIDE DEF c
  <2>5. \A m \in Messages:
           \/ accepted'[m] + late'[m] = accepted[m] + late[m] /\ m # c
           \/ accepted'[m] + late'[m] = accepted[m] + late[m] + 1 /\ m = c
    BY <2>1, <2>3, <2>4
  <2> QED
    BY <1>0, <2>1, <2>2, <2>5, StepCovered
<1>9. CASE Crash(w) /\ pc[w] # "await"
  BY <1>0, <1>9, StepCovered DEF Crash, Fault
<1>10. CASE Mark(w)
  <2>1. /\ pc[w] = "mark" /\ c \in Messages
        /\ rows' = [rows EXCEPT ![c] = "sent"] /\ UNCHANGED <<accepted, late, faults>>
    BY <1>1, <1>10 DEF Mark, Go, UpdateRow, provider
  <2>2. \A m \in Messages: rows[m] = "sent" \/ Holds(w, m) => rows'[m] = "sent"
    BY <2>1 DEF Holds, TypeOK
  <2> QED
    BY <1>0, <2>1, <2>2, StepCovered
<1>11. CASE MarkNone(w)
  BY <1>2, <1>11 DEF MarkNone
<1> QED
  BY <1>3, <1>4, <1>5, <1>6, <1>7, <1>8, <1>9, <1>10, <1>11 DEF Work

\* Late requests were paid for when their callers gave up.
LEMMA StoresCovered ==
  ASSUME Inv, TypeOK', UNCHANGED workers, NEW m \in Messages,
         \/ LateAccept(m) \/ LateDrop(m) \/ CacheExpires(m) \/ Insert(m)
  PROVE  faults' = faults /\ \A n \in Messages: Covered(n)
<1>0. faults' = faults
  BY DEF LateAccept, LateDrop, LateRequest, CacheExpires, Insert
<1> SUFFICES ASSUME NEW n \in Messages PROVE Covered(n)
  BY <1>0
<1>1. InFlight(n)' <=> InFlight(n)
  BY DEF InFlight, Holds, Current, workers
<1>2. rows'[n] = "sent" <=> rows[n] = "sent"
  BY DEF LateAccept, LateDrop, LateRequest, CacheExpires, Insert, stores, Inv, TypeOK
<1>3. accepted'[n] + late'[n] <= accepted[n] + late[n]
  <2>1. /\ accepted[n] \in Nat /\ late[n] \in Nat
        /\ accepted \in [Messages -> Nat] /\ late \in [Messages -> Nat]
    BY DEF Inv, TypeOK
  <2>2. CASE LateAccept(m) \/ LateDrop(m)
    <3>1. /\ late[m] > 0 /\ late' = [late EXCEPT ![m] = late[m] - 1]
          /\ accepted' = accepted \/ accepted' = [accepted EXCEPT ![m] = accepted[m] + 1]
      BY <2>2 DEF LateAccept, LateDrop, LateRequest
    <3>2. CASE n = m
      BY <2>1, <3>1, <3>2
    <3>3. CASE n # m
      BY <2>1, <3>1, <3>3
    <3> QED
      BY <3>2, <3>3
  <2>3. CASE CacheExpires(m) \/ Insert(m)
    BY <2>1, <2>3 DEF CacheExpires, Insert, provider
  <2> QED
    BY <2>2, <2>3
<1>4. /\ accepted[n] \in Nat /\ late[n] \in Nat /\ faults \in Nat
      /\ accepted'[n] \in Nat /\ late'[n] \in Nat
  BY DEF Inv, TypeOK
<1> QED
  BY <1>0, <1>1, <1>2, <1>3, <1>4 DEF Covered, Copies, Due

\* What is covered stays paid.
LEMMA PaidStep ==
  ASSUME TypeOK, TypeOK', Paid, \A m \in Messages: Covered(m)
  PROVE  Paid'
<1> SUFFICES ASSUME NEW m \in Messages PROVE Copies(m)' <= faults' + Due(m)'
  BY DEF Paid
<1>1. /\ Copies(m) \in Nat /\ Due(m) \in {0, 1} /\ faults \in Nat
      /\ Copies(m)' \in Nat /\ Due(m)' \in {0, 1} /\ faults' \in Nat
  BY DispatchAssumption DEF TypeOK, Copies, Due
<1>2. Copies(m) <= faults + Due(m) /\ Covered(m)
  BY DEF Paid
<1> QED
  BY <1>1, <1>2 DEF Covered

\* A worker adds no copies but of the message at hand, with a failure at most.
LEMMA OnlyCurrent ==
  ASSUME TypeOK, NEW w \in Workers, Work(w) \/ Crash(w),
         \A v \in Workers \ {w}: pc[v] = "idle" /\ pc'[v] = "idle",
         NEW m \in Messages, m # Current(w)
  PROVE  Copies(m)' = Copies(m) /\ (Due(m) = 1 => Due(m)' = 1)
<1>1. accepted'[m] = accepted[m] /\ late'[m] = late[m] /\ (rows[m] = "sent" => rows'[m] = "sent")
  BY DEF TypeOK, Work, BeginBatch, Fetched, FetchFails, Send, Accept, Answer, AnswerLost,
         Reject, Timeout, Mark, MarkNone, MarkFails, UpdateRow, Cache, CacheFails, Crash,
         stores, provider
<1>2. ~InFlight(m)
  BY DEF InFlight, Holds
<1> QED
  BY <1>1, <1>2 DEF Copies, Due

\* A step fails once at most.
LEMMA OneFault ==
  ASSUME NEW w \in Workers, Work(w) \/ Crash(w)
  PROVE  faults' \in {faults, faults + 1}
BY DEF Work, BeginBatch, Fetched, FetchFails, Send, Accept, Answer, AnswerLost, Reject,
       Timeout, Mark, MarkNone, MarkFails, Cache, CacheFails, Crash, Fault

\* Without a failure no debt is added.
LEMMA DebtsSame ==
  ASSUME TypeOK, TypeOK', PaidInAll, faults' = faults, \A m \in Messages: Covered(m)
  PROVE  PaidInAll'
<1>1. ASSUME NEW m \in Messages
      PROVE  /\ Copies(m) \in Nat /\ Due(m) \in {0, 1} /\ faults \in Nat
             /\ Copies(m)' \in Nat /\ Due(m)' \in {0, 1} /\ faults' \in Nat
  BY DispatchAssumption DEF TypeOK, Copies, Due
<1>2. IsFiniteSet(Debts) /\ Cardinality(Debts) <= faults /\ faults \in Nat
  BY DispatchAssumption DEF PaidInAll, TypeOK
<1>3. ASSUME NEW d \in Debts' PROVE d \in Debts
  <2>1. /\ d \in Messages \X Nat /\ d[1] \in Messages /\ d[2] \in Nat
        /\ 1 <= d[2] /\ d[2] + Due(d[1])' <= Copies(d[1])'
    BY DEF Debts
  <2>2. Copies(d[1])' + Due(d[1]) + faults <= Copies(d[1]) + Due(d[1])' + faults
    BY <2>1 DEF Covered
  <2> QED
    BY <1>1, <2>1, <2>2 DEF Debts
<1>4. Debts' \in SUBSET Debts
  BY <1>3
<1>5. /\ IsFiniteSet(Debts') /\ Cardinality(Debts') <= Cardinality(Debts)
      /\ Cardinality(Debts') \in Nat /\ Cardinality(Debts) \in Nat
  BY <1>2, <1>4, FS_Subset, FS_CardinalityType
<1> QED
  BY <1>2, <1>5 DEF PaidInAll

\* A debt more is a failure more.
LEMMA DebtsStep ==
  ASSUME TypeOK, TypeOK', PaidInAll, faults' \in {faults, faults + 1},
         \A m \in Messages: Covered(m), NEW c,
         \A m \in Messages \ {c}: Copies(m)' = Copies(m) /\ (Due(m) = 1 => Due(m)' = 1)
  PROVE  PaidInAll'
<1>1. ASSUME NEW m \in Messages
      PROVE  /\ Copies(m) \in Nat /\ Due(m) \in {0, 1} /\ faults \in Nat
             /\ Copies(m)' \in Nat /\ Due(m)' \in {0, 1} /\ faults' \in Nat
  BY DispatchAssumption DEF TypeOK, Copies, Due
<1>2. IsFiniteSet(Debts) /\ Cardinality(Debts) <= faults /\ faults \in Nat
  BY DispatchAssumption DEF PaidInAll, TypeOK
<1>3. CASE faults' = faults
  BY <1>3, DebtsSame
<1>4. CASE faults' = faults + 1
  <2> DEFINE last == <<c, Copies(c)' - Due(c)'>>
             Up == Debts \cup {last}
  <2>1. ASSUME NEW d \in Debts' PROVE d \in Up
    <3>1. /\ d \in Messages \X Nat /\ d[1] \in Messages /\ d[2] \in Nat
          /\ 1 <= d[2] /\ d[2] + Due(d[1])' <= Copies(d[1])'
      BY DEF Debts
    <3>2. CASE d[1] # c
      <4>1. Copies(d[1])' = Copies(d[1]) /\ (Due(d[1]) = 1 => Due(d[1])' = 1)
        BY <3>1, <3>2
      <4> QED
        BY <1>1, <3>1, <4>1 DEF Debts
    <3>3. CASE d[1] = c /\ d[2] = Copies(c)' - Due(c)'
      BY <3>1, <3>3
    <3>4. CASE d[1] = c /\ d[2] # Copies(c)' - Due(c)'
      <4>1. Copies(c)' + Due(c) + faults <= Copies(c) + Due(c)' + (faults + 1)
        BY <1>4, <3>1, <3>4 DEF Covered
      <4>2. d[2] + Due(c) <= Copies(c)
        BY <1>1, <3>1, <3>4, <4>1
      <4> QED
        BY <3>1, <3>4, <4>2 DEF Debts
    <3> QED
      BY <3>2, <3>3, <3>4
  <2> HIDE DEF last
  <2>2. /\ IsFiniteSet(Up) /\ Cardinality(Up) <= Cardinality(Debts) + 1
        /\ Cardinality(Up) \in Nat /\ Cardinality(Debts) \in Nat
    <3>1. /\ IsFiniteSet(Up)
          /\ Cardinality(Up) = IF last \in Debts THEN Cardinality(Debts) ELSE Cardinality(Debts) + 1
      BY <1>2, FS_AddElement
    <3> HIDE DEF Up
    <3> QED
      BY <1>2, <3>1, FS_CardinalityType
  <2>3. Debts' \in SUBSET Up
    BY <2>1
  <2> HIDE DEF Up
  <2>4. /\ IsFiniteSet(Debts') /\ Cardinality(Debts') <= Cardinality(Up)
        /\ Cardinality(Debts') \in Nat
    BY <2>2, <2>3, FS_Subset, FS_CardinalityType
  <2> QED
    BY <1>2, <1>4, <2>2, <2>4 DEF PaidInAll
<1> QED
  BY <1>3, <1>4

\* Each step of a worker stays paid for.
LEMMA PaidWork ==
  ASSUME Inv, TypeOK', BatchesSound, Alone, Exclusive, Paid, PaidInAll,
         NEW w \in Workers, Work(w) \/ Crash(w)
  PROVE  Paid' /\ PaidInAll'
<1>1. \A v \in Workers \ {w}: pc[v] = "idle" /\ pc'[v] = "idle"
  BY AloneStep DEF Inv
<1>2. \A m \in Messages: Covered(m)
  BY WorkCovered
<1>3. \A m \in Messages \ {Current(w)}:
         Copies(m)' = Copies(m) /\ (Due(m) = 1 => Due(m)' = 1)
  BY <1>1, OnlyCurrent DEF Inv
<1> QED
  BY <1>2, <1>3, OneFault, PaidStep, DebtsStep DEF Inv

\* So does each step at the stores.
LEMMA PaidStores ==
  ASSUME Inv, TypeOK', Paid, PaidInAll, UNCHANGED workers, NEW m \in Messages,
         \/ LateAccept(m) \/ LateDrop(m) \/ CacheExpires(m) \/ Insert(m)
  PROVE  Paid' /\ PaidInAll'
<1>1. faults' = faults /\ \A n \in Messages: Covered(n)
  BY StoresCovered
<1> QED
  BY <1>1, PaidStep, DebtsSame DEF Inv

\* A message is accepted when all that was ahead of it has been.
LEMMA FIFOStep ==
  ASSUME SerialInv, Exclusive, TypeOK', [Next]_vars
  PROVE  FIFO'
<1> USE DEF SerialInv, Inv
<1>1. faults' = 0 => faults = 0
  BY DEF Next, Work, BeginBatch, Fetched, FetchFails, Send, Accept, Answer, AnswerLost, Reject,
         Timeout, Mark, MarkNone, MarkFails, Cache, CacheFails, Crash, Fault, LateAccept,
         LateDrop, LateRequest, CacheExpires, Insert, vars, TypeOK
<1> SUFFICES ASSUME faults' = 0, NEW m \in Messages, accepted'[m] > 0,
                    NEW n \in ahead'[m] \cap Served
             PROVE  accepted'[n] > 0
  BY DEF FIFO, Served, TypeOK
<1>2. /\ faults = 0 /\ n \in Messages
      /\ accepted[m] \in Nat /\ accepted[n] \in Nat /\ accepted'[n] \in Nat
  BY <1>1 DEF Served, TypeOK
<1>3. ASSUME ahead'[m] = ahead[m], accepted' = accepted PROVE accepted'[n] > 0
  BY <1>2, <1>3 DEF FIFO, Served
<1>4. ASSUME NEW w \in Workers, Accept(w) PROVE accepted'[n] > 0
  <2>1. /\ pc[w] = "await" /\ UNCHANGED ahead
        /\ accepted' = [accepted EXCEPT ![Current(w)] = @ + 1]
    BY <1>4 DEF Accept, Go, stores
  <2>2. 1 \in DOMAIN batch[w] /\ Current(w) = batch[w][1] /\ Current(w) \in Messages
    BY <2>1, First
  <2>3. CASE m = Current(w)
    <3>1. InOrder(w)
      BY <2>1 DEF BatchesSound
    <3>2. accepted[n] > 0
      BY <1>2, <2>1, <2>2, <2>3, <3>1 DEF InOrder
    <3> QED
      BY <1>2, <2>1, <2>2, <3>2 DEF TypeOK
  <2>4. CASE m # Current(w)
    <3>1. accepted[n] > 0
      BY <1>2, <2>1, <2>2, <2>4 DEF FIFO, Served, TypeOK
    <3> QED
      BY <1>2, <2>1, <2>2, <3>1 DEF TypeOK
  <2> QED
    BY <2>3, <2>4
<1>5. ASSUME NEW w \in Workers, Work(w) \/ Crash(w), ~Accept(w) PROVE accepted'[n] > 0
  BY <1>3, <1>5
     DEF Work, BeginBatch, Fetched, FetchFails, Send, Answer, AnswerLost, Reject, Timeout,
         Mark, MarkNone, MarkFails, Cache, CacheFails, Crash, stores, provider
<1>6. ASSUME NEW k \in Messages, LateAccept(k) \/ LateDrop(k) PROVE accepted'[n] > 0
  <2>1. late[k] \in Nat \ {0} /\ accepted[k] \in Nat /\ UNCHANGED workers
    BY <1>6 DEF LateAccept, LateDrop, LateRequest, TypeOK
  <2>2. CASE LateDrop(k)
    BY <1>3, <2>2 DEF LateDrop, LateRequest, stores
  <2>3. CASE LateAccept(k)
    <3>1. accepted[k] + late[k] <= 0 + (IF rows[k] = "sent" \/ InFlight(k) THEN 1 ELSE 0)
      BY <1>2 DEF Paid, Copies, Due
    <3>2. rows[k] = "sent" => accepted[k] >= 1
      BY DEF MarkedSound, TypeOK
    <3>3. ASSUME InFlight(k) PROVE accepted[k] >= 1
      <4>1. PICK w \in Workers: pc[w] \in {"answered", "mark"} /\ Current(w) = k
        BY <3>3 DEF InFlight, Holds
      <4>2. delivery[w] \in 1..accepted[k]
        BY <4>1 DEF Carried
      <4> QED
        BY <2>1, <4>2
    <3> QED
      BY <2>1, <3>1, <3>2, <3>3
  <2> QED
    BY <1>6, <2>2, <2>3
<1>7. ASSUME NEW k \in Messages, CacheExpires(k) PROVE accepted'[n] > 0
  BY <1>3, <1>7 DEF CacheExpires, provider
<1>8. ASSUME NEW k \in Messages, Insert(k) PROVE accepted'[n] > 0
  <2>1. CASE k = m
    <3>1. accepted[m] = 0
      BY <1>8, <2>1 DEF Insert, HistorySound, queue
    <3> QED
      BY <1>8, <3>1 DEF Insert, provider
  <2>2. CASE k # m
    BY <1>3, <1>8, <2>2 DEF Insert, provider, TypeOK
  <2> QED
    BY <2>1, <2>2
<1>9. CASE UNCHANGED vars
  BY <1>3, <1>9 DEF vars, stores, provider
<1> QED
  BY <1>4, <1>5, <1>6, <1>7, <1>8, <1>9 DEF Next

\* The invariant holds initially ...
LEMMA SerialInit == Init => SerialInv
<1> SUFFICES ASSUME Init PROVE SerialInv
  OBVIOUS
<1>1. Inv /\ Known
  BY InvInit, KnownInit
<1>2. Alone /\ BatchesSound /\ HistorySound /\ FIFO
  BY DEF Init, Alone, BatchesSound, HistorySound, FIFO
<1>3. Paid
  BY DispatchAssumption DEF Init, Paid, Copies, Due
<1>4. Debts = {}
  BY DEF Init, Debts, Copies, Due
<1>5. PaidInAll
  BY <1>4, FS_EmptySet DEF Init, PaidInAll
<1> QED
  BY <1>1, <1>2, <1>3, <1>5 DEF SerialInv

\* ... and is kept, if the lock serialises the batches.
LEMMA SerialStep == Exclusive /\ SerialInv /\ [Next]_vars => SerialInv'
<1> SUFFICES ASSUME Exclusive, SerialInv, [Next]_vars PROVE SerialInv'
  OBVIOUS
<1>1. TypeOK' /\ Inv' /\ Known' /\ HistorySound'
  BY TypeStep, InvStep, KnownStep, HistoryStep DEF SerialInv, Inv
<1>2. FIFO'
  BY <1>1, FIFOStep
<1>3. ASSUME NEW w \in Workers, Work(w) \/ Crash(w)
      PROVE  Alone' /\ BatchesSound' /\ Paid' /\ PaidInAll'
  BY <1>1, <1>3, AloneStep, BatchesWork, PaidWork DEF SerialInv, Inv
<1>4. ASSUME NEW m \in Messages,
             LateAccept(m) \/ LateDrop(m) \/ CacheExpires(m) \/ Insert(m)
      PROVE  Alone' /\ BatchesSound' /\ Paid' /\ PaidInAll'
  <2>1. UNCHANGED workers
    BY <1>4 DEF LateAccept, LateDrop, LateRequest, CacheExpires, Insert
  <2>2. Alone'
    BY <2>1 DEF workers, Alone, SerialInv
  <2> QED
    BY <1>1, <1>4, <2>1, <2>2, BatchesStores, PaidStores DEF SerialInv
<1>5. ASSUME UNCHANGED vars PROVE Alone' /\ BatchesSound' /\ Paid' /\ PaidInAll'
  <2>1. Alone'
    BY <1>5 DEF vars, workers, Alone, SerialInv
  <2>2. BatchesSound'
    BY <1>5 DEF vars, stores, provider, workers, BatchesSound, Apart, Untouched, InOrder, SerialInv
  <2>3. Paid' /\ PaidInAll'
    BY <1>5 DEF vars, stores, provider, workers, Paid, PaidInAll, Debts, Copies, Due,
                InFlight, Holds, Current, SerialInv
  <2> QED
    BY <2>1, <2>2, <2>3
<1> QED
  BY <1>1, <1>2, <1>3, <1>4, <1>5 DEF SerialInv, Next

\* All of this holds in every reachable state.
LEMMA SerialInvariance == Spec => [](Exclusive => SerialInv)
<1>1. Init => (Exclusive => SerialInv)
  BY SerialInit
<1>2. (Exclusive => SerialInv) /\ [Next]_vars => (Exclusive => SerialInv)'
  BY SerialStep
<1> QED
  BY <1>1, <1>2, PTL DEF Spec

(***************************************************************************)
(* A message that is marked as sent is not handed to the provider.         *)
(***************************************************************************)
THEOREM NotSentTwice == Spec => NoSendAfterSent
<1>1. SerialInv => \A w \in Workers: pc[w] = "send" => rows[Current(w)] = "unsent"
  BY First DEF SerialInv, Inv, BatchesSound, Untouched
<1>2. (Exclusive => SerialInv) /\ [Next]_vars =>
         [Exclusive => \A w \in Workers:
            pc[w] = "send" /\ pc'[w] = "await" => rows[Current(w)] = "unsent"]_vars
  BY <1>1
<1> QED
  BY <1>2, SerialInvariance, PTL DEF Spec, NoSendAfterSent

(***************************************************************************)
(* Messages reach the provider in the order of the rows, as long as        *)
(* nothing fails.                                                          *)
(***************************************************************************)
THEOREM OldestFirstSent == Spec => []FIFO
<1>1. (Exclusive => SerialInv) => FIFO
  BY DEF SerialInv, FIFO
<1> QED
  BY <1>1, SerialInvariance, PTL

\* What the invariant says of the copies of one message.
LEMMA CopiesOfOne ==
  ASSUME SerialInv, NEW m \in Messages
  PROVE  /\ accepted[m] \in Nat /\ late[m] \in Nat /\ faults \in Nat
         /\ accepted[m] + late[m] <= faults + 1
<1>1. accepted[m] \in Nat /\ late[m] \in Nat /\ faults \in Nat
  BY DEF SerialInv, Inv, TypeOK
<1>2. accepted[m] + late[m] <= faults + (IF rows[m] = "sent" \/ InFlight(m) THEN 1 ELSE 0)
  BY DEF SerialInv, Paid, Copies, Due
<1>3. CASE rows[m] = "sent" \/ InFlight(m)
  BY <1>1, <1>2, <1>3
<1>4. CASE ~ (rows[m] = "sent" \/ InFlight(m))
  BY <1>1, <1>2, <1>4
<1> QED
  BY <1>3, <1>4

(***************************************************************************)
(* n failures cost at most n further copies of each message.               *)
(***************************************************************************)
THEOREM CopiesPaid == Spec => [](Exclusive => \A m \in Messages: Extra(m) <= faults)
<1>1. SerialInv => \A m \in Messages: Extra(m) <= faults
  <2> SUFFICES ASSUME SerialInv, NEW m \in Messages PROVE Extra(m) <= faults
    OBVIOUS
  <2> QED
    BY CopiesOfOne DEF Extra
<1>2. (Exclusive => SerialInv) => (Exclusive => \A m \in Messages: Extra(m) <= faults)
  BY <1>1
<1> QED
  BY <1>2, SerialInvariance, PTL

(***************************************************************************)
(* n failures cost at most n further copies of all messages together:      *)
(* ProcessMessages, message_service.go:38-188, with MarkAsSent after the   *)
(* provider's answer and no retry within a batch.                          *)
(***************************************************************************)
THEOREM DuplicatesPaid == Spec => []DuplicatesCharged
<1>1. SerialInv => Cardinality(ExtraCopies) <= faults
  <2> SUFFICES ASSUME SerialInv PROVE Cardinality(ExtraCopies) <= faults
    OBVIOUS
  <2>1. IsFiniteSet(Debts) /\ Cardinality(Debts) <= faults /\ faults \in Nat
    BY DispatchAssumption DEF SerialInv, PaidInAll, Inv, TypeOK
  <2>2. ASSUME NEW d \in ExtraCopies PROVE d \in Debts
    <3>1. PICK m \in Messages: d \in {m} \X (1..Extra(m))
      BY DEF ExtraCopies
    <3>2. accepted[m] \in Nat /\ late[m] \in Nat /\ Due(m) \in {0, 1}
      BY CopiesOfOne DEF Due
    <3>3. d = <<m, d[2]>> /\ d[1] = m /\ d[2] \in Nat /\ 1 <= d[2] /\ d[2] <= Extra(m)
      BY <3>1, <3>2 DEF Extra
    <3>4. d[2] + Due(m) <= Copies(m)
      BY <3>2, <3>3 DEF Extra, Copies
    <3> QED
      BY <3>3, <3>4 DEF Debts
  <2>3. ExtraCopies \in SUBSET Debts
    BY <2>2
  <2>4. /\ Cardinality(ExtraCopies) <= Cardinality(Debts)
        /\ Cardinality(ExtraCopies) \in Nat /\ Cardinality(Debts) \in Nat
    BY <2>1, <2>3, FS_Subset, FS_CardinalityType
  <2> QED
    BY <2>1, <2>4
<1>2. (Exclusive => SerialInv) => DuplicatesCharged
  BY <1>1 DEF DuplicatesCharged
<1> QED
  BY <1>2, SerialInvariance, PTL

(***************************************************************************)
(* Under the lock, what QUICK_REFERENCE.md:48-51 says without it is true.  *)
(***************************************************************************)
THEOREM OnceWithoutFault == Spec => [](Exclusive => NoDuplicateWithoutFault)
<1>1. SerialInv => NoDuplicateWithoutFault
  <2> SUFFICES ASSUME SerialInv, faults = 0, NEW m \in Messages PROVE accepted[m] <= 1
    BY DEF NoDuplicateWithoutFault
  <2>1. accepted[m] \in Nat /\ late[m] \in Nat /\ accepted[m] + late[m] <= 0 + 1
    BY CopiesOfOne
  <2> QED
    BY <2>1
<1>2. (Exclusive => SerialInv) => (Exclusive => NoDuplicateWithoutFault)
  BY <1>1
<1> QED
  BY <1>2, SerialInvariance, PTL
=============================================================================
