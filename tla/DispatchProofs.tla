--------------------------- MODULE DispatchProofs ---------------------------
(***************************************************************************)
(* Proofs about Dispatch, for any sets of workers and messages, any number *)
(* of failures, and with or without the lock: no message is lost, the      *)
(* cache is sound, and dispatching implements Outbox.                      *)
(*                                                                         *)
(* The inductive invariant follows a delivery from the answer to the row   *)
(* to the cache: the number a worker carries is one the provider gave out, *)
(* and a worker on its way to the cache carries the number the row was     *)
(* marked for.  A row that is marked is never marked again, so the number  *)
(* is still right however late the cache is written.                       *)
(***************************************************************************)
EXTENDS Dispatch, SequenceTheorems, TLAPS

\* A worker that knows of a delivery knows of a real one.
Carried == \A w \in Workers:
              pc[w] \in {"answered", "mark", "cache"} =>
                 delivery[w] \in 1..accepted[Current(w)]

\* A row is marked, for a real delivery, exactly when it is sent.
MarkedSound == \A m \in Messages:
                  /\ rows[m] = "sent" => marked[m] \in 1..accepted[m]
                  /\ rows[m] # "sent" => marked[m] = 0

\* The worker on its way to the cache is the one that marked the row.
CachingSound == \A w \in Workers:
                   pc[w] = "cache" => /\ rows[Current(w)] = "sent"
                                      /\ marked[Current(w)] = delivery[w]

Inv == TypeOK /\ Carried /\ MarkedSound /\ CachingSound /\ CacheSound

(***************************************************************************)
(* Types                                                                   *)
(***************************************************************************)
\* TypeOK, split into what it says of the stores and of the workers.
DataOK == /\ rows \in [Messages -> Status]
          /\ cache \in [Messages -> Nat]
          /\ accepted \in [Messages -> Nat]
          /\ late \in [Messages -> Nat]
          /\ marked \in [Messages -> Nat]
          /\ ahead \in [Messages -> SUBSET Messages]
          /\ faults \in 0..MaxFaults

WorkersOK == /\ pc \in [Workers -> Locations]
             /\ batch \in [Workers -> Seq(Messages)]
             /\ delivery \in [Workers -> Nat]
             /\ \A w \in Workers: pc[w] \notin {"idle", "fetching"} => batch[w] # <<>>

\* A counter of deliveries or requests counts one up.
LEMMA CountUp ==
  ASSUME NEW f \in [Messages -> Nat], NEW m \in Messages
  PROVE  f[m] + 1 \in Nat /\ [f EXCEPT ![m] = f[m] + 1] \in [Messages -> Nat]
  OBVIOUS

\* What is left of a batch that is not empty.
LEMMA Parts ==
  ASSUME NEW s \in Seq(Messages), s # <<>>
  PROVE  /\ Head(s) \in Messages
         /\ Tail(s) \in Seq(Messages)
         /\ Len(s) # 1 => Tail(s) # <<>>
<1>1. Len(Tail(s)) = Len(s) - 1 /\ Len(s) \in Nat
  BY HeadTailProperties, LenProperties
<1>2. Len(s) # 1 => Len(Tail(s)) # 0
  BY <1>1
<1> QED
  BY <1>2, HeadTailProperties, EmptySeq

\* A worker past the fetch has a message at hand.
LEMMA CurrentType ==
  ASSUME WorkersOK, NEW w \in Workers, pc[w] \notin {"idle", "fetching"}
  PROVE  Current(w) \in Messages
  BY Parts DEF WorkersOK, Current

\* What the query returns is a sequence of messages.
LEMMA SelectedType ==
  ASSUME NEW s \in UpTo(batchSize)
  PROVE  s \in Seq(Messages)
<1>1. PICK k \in 0..batchSize: s \in [1..k -> Messages]
  BY DEF UpTo
<1>2. k \in Nat
  BY DEF batchSize
<1> QED
  BY <1>1, <1>2, SeqDef

\* Worker w moves on along the same message.
LEMMA GoType ==
  ASSUME WorkersOK, NEW w \in Workers, NEW from, NEW to \in Locations,
         Go(w, from, to), UNCHANGED <<batch, delivery>>,
         to = "idle" \/ batch[w] # <<>>
  PROVE  WorkersOK'
  BY DEF WorkersOK, Go

\* Going on to the next message keeps the workers well typed.
LEMMA NextMessageType ==
  ASSUME WorkersOK, NEW w \in Workers, pc[w] \notin {"idle", "fetching"}, NextMessage(w)
  PROVE  WorkersOK'
<1>1. batch[w] \in Seq(Messages) /\ batch[w] # <<>>
  BY DEF WorkersOK
<1>2. Tail(batch[w]) \in Seq(Messages) /\ (Len(batch[w]) # 1 => Tail(batch[w]) # <<>>)
  BY <1>1, Parts
<1>3. pc' \in [Workers -> Locations] /\ delivery' \in [Workers -> Nat]
  BY DEF WorkersOK, NextMessage, Locations
<1>4. batch' \in [Workers -> Seq(Messages)]
  BY <1>2 DEF WorkersOK, NextMessage
<1>5. ASSUME NEW v \in Workers, pc'[v] \notin {"idle", "fetching"} PROVE batch'[v] # <<>>
  BY <1>2, <1>5 DEF WorkersOK, NextMessage
<1> QED
  BY <1>3, <1>4, <1>5 DEF WorkersOK

\* So does giving the batch up.
LEMMA EmptyBatchType ==
  ASSUME WorkersOK, NEW w \in Workers,
         pc' = [pc EXCEPT ![w] = "idle"],
         batch' = [batch EXCEPT ![w] = <<>>],
         delivery' = delivery \/ delivery' = [delivery EXCEPT ![w] = 0]
  PROVE  WorkersOK'
<1>1. <<>> \in Seq(Messages)
  BY EmptySeq
<1> QED
  BY <1>1 DEF WorkersOK, Locations

\* The initial state is well typed.
LEMMA TypeInit == Init => TypeOK
<1>1. <<>> \in Seq(Messages)
  BY EmptySeq
<1> QED
  BY <1>1, DispatchAssumption DEF Init, TypeOK, Status, Locations

\* Each step of a worker keeps the types.
LEMMA WorkStepTypes ==
  ASSUME DataOK, WorkersOK, NEW w \in Workers, Work(w)
  PROVE  DataOK' /\ WorkersOK'
<1> USE DispatchAssumption
<1>1. CASE BeginBatch(w)
  <2>1. PICK s \in UpTo(batchSize): batch' = [batch EXCEPT ![w] = s]
    BY <1>1 DEF BeginBatch
  <2>2. WorkersOK'
    BY <1>1, <2>1, SelectedType DEF BeginBatch, Go, WorkersOK, Locations
  <2> QED
    BY <1>1, <2>2 DEF BeginBatch, stores, provider, DataOK
<1>2. CASE Fetched(w)
  <2>1. WorkersOK'
    BY <1>2, GoType DEF Fetched, Locations
  <2> QED
    BY <1>2, <2>1 DEF Fetched, stores, provider, DataOK
<1>3. CASE FetchFails(w)
  <2>1. WorkersOK'
    BY <1>3, EmptyBatchType DEF FetchFails, Go
  <2> QED
    BY <1>3, <2>1 DEF FetchFails, Fault, stores, provider, DataOK
<1>4. CASE Send(w) \/ Answer(w)
  <2>1. batch[w] # <<>>
    BY <1>4 DEF Send, Answer, Go, WorkersOK
  <2>2. WorkersOK'
    BY <1>4, <2>1, GoType DEF Send, Answer, Locations
  <2> QED
    BY <1>4, <2>2 DEF Send, Answer, stores, provider, DataOK
<1>5. CASE Accept(w)
  <2>1. Current(w) \in Messages
    BY <1>5, CurrentType DEF Accept, Go
  <2>2. /\ accepted[Current(w)] + 1 \in Nat
        /\ accepted' \in [Messages -> Nat]
    BY <1>5, <2>1, CountUp DEF Accept, DataOK
  <2>3. delivery' \in [Workers -> Nat]
    BY <1>5, <2>2 DEF Accept, WorkersOK
  <2>4. WorkersOK'
    BY <1>5, <2>3 DEF Accept, Go, WorkersOK, Locations
  <2> QED
    BY <1>5, <2>2, <2>4 DEF Accept, stores, DataOK
<1>6. CASE AnswerLost(w) \/ Reject(w) \/ MarkNone(w) \/ CacheFails(w)
  <2>1. WorkersOK'
    BY <1>6, NextMessageType DEF AnswerLost, Reject, MarkNone, CacheFails
  <2>2. faults' \in 0..MaxFaults
    BY <1>6 DEF AnswerLost, Reject, MarkNone, CacheFails, Fault, DataOK
  <2> QED
    BY <1>6, <2>1, <2>2
       DEF AnswerLost, Reject, MarkNone, CacheFails, stores, provider, DataOK
<1>7. CASE Timeout(w)
  <2>1. WorkersOK' /\ Current(w) \in Messages
    BY <1>7, NextMessageType, CurrentType DEF Timeout
  <2>2. late' \in [Messages -> Nat]
    BY <1>7, <2>1, CountUp DEF Timeout, DataOK
  <2> QED
    BY <1>7, <2>1, <2>2 DEF Timeout, Fault, stores, DataOK
<1>8. CASE Mark(w)
  <2>1. Current(w) \in Messages /\ batch[w] # <<>>
    BY <1>8, CurrentType DEF Mark, Go, WorkersOK
  <2>2. WorkersOK'
    BY <1>8, <2>1, GoType DEF Mark, Locations
  <2>3. rows' \in [Messages -> Status] /\ marked' \in [Messages -> Nat]
    BY <1>8, <2>1 DEF Mark, UpdateRow, DataOK, WorkersOK, Status
  <2> QED
    BY <1>8, <2>2, <2>3 DEF Mark, provider, DataOK
<1>9. CASE MarkFails(w)
  <2>1. WorkersOK' /\ Current(w) \in Messages
    BY <1>9, NextMessageType, CurrentType DEF MarkFails
  <2>2. rows' \in [Messages -> Status] /\ marked' \in [Messages -> Nat]
    BY <1>9, <2>1 DEF MarkFails, UpdateRow, DataOK, WorkersOK, Status
  <2> QED
    BY <1>9, <2>1, <2>2 DEF MarkFails, Fault, provider, DataOK
<1>10. CASE Cache(w)
  <2>1. WorkersOK' /\ Current(w) \in Messages
    BY <1>10, NextMessageType, CurrentType DEF Cache
  <2> QED
    BY <1>10, <2>1 DEF Cache, provider, DataOK, WorkersOK
<1> QED
  BY <1>1, <1>2, <1>3, <1>4, <1>5, <1>6, <1>7, <1>8, <1>9, <1>10 DEF Work

\* Every step keeps the types.
LEMMA TypeStep == TypeOK /\ [Next]_vars => TypeOK'
<1> SUFFICES ASSUME DataOK, WorkersOK, [Next]_vars PROVE DataOK' /\ WorkersOK'
  BY DEF TypeOK, DataOK, WorkersOK
<1> USE DispatchAssumption
<1>0. UNCHANGED workers => WorkersOK'
  BY DEF workers, WorkersOK
<1>1. ASSUME NEW w \in Workers, Work(w) PROVE DataOK' /\ WorkersOK'
  BY <1>1, WorkStepTypes
<1>2. ASSUME NEW w \in Workers, Crash(w) PROVE DataOK' /\ WorkersOK'
  <2>1. late' \in [Messages -> Nat]
    <3>1. CASE pc[w] = "await"
      BY <1>2, <3>1, CurrentType, CountUp DEF Crash, DataOK
    <3>2. CASE pc[w] # "await"
      BY <1>2, <3>2 DEF Crash, DataOK
    <3> QED
      BY <3>1, <3>2
  <2>2. WorkersOK'
    BY <1>2, EmptyBatchType DEF Crash
  <2> QED
    BY <1>2, <2>1, <2>2 DEF Crash, Fault, stores, DataOK
<1>3. ASSUME NEW m \in Messages, LateAccept(m) \/ LateDrop(m) PROVE DataOK' /\ WorkersOK'
  BY <1>3, <1>0 DEF LateAccept, LateDrop, LateRequest, stores, DataOK
<1>4. ASSUME NEW m \in Messages, CacheExpires(m) PROVE DataOK' /\ WorkersOK'
  BY <1>4, <1>0 DEF CacheExpires, provider, DataOK
<1>5. ASSUME NEW m \in Messages, Insert(m) PROVE DataOK' /\ WorkersOK'
  BY <1>5, <1>0 DEF Insert, Precede, provider, DataOK, Status
<1>6. CASE UNCHANGED vars
  BY <1>6, <1>0 DEF vars, stores, provider, DataOK
<1> QED
  BY <1>1, <1>2, <1>3, <1>4, <1>5, <1>6 DEF Next

\* Every reachable state is well typed; a worker past the fetch has a batch.
THEOREM TypeCorrect == Spec => []TypeOK
  BY TypeInit, TypeStep, PTL DEF Spec

(***************************************************************************)
(* The invariant.  What a step of worker w must do to keep each part.      *)
(***************************************************************************)
Informed == {"answered", "mark", "cache"}

\* The other workers do nothing.
Others(w) == \A v \in Workers \ {w}: /\ pc'[v] = pc[v]
                                     /\ batch'[v] = batch[v]
                                     /\ delivery'[v] = delivery[v]

\* Deliveries are not taken back and a marked row stays as it is.
Monotone == /\ \A m \in Messages: accepted'[m] >= accepted[m]
            /\ \A m \in Messages: rows[m] = "sent" => rows'[m] = "sent" /\ marked'[m] = marked[m]

\* The answer a worker carries stays an accepted one, if its own step sees to that.
LEMMA CarriedKept ==
  ASSUME TypeOK, TypeOK', Carried, Monotone, NEW w \in Workers, Others(w),
         pc'[w] \in Informed => delivery'[w] \in 1..accepted'[Current(w)']
  PROVE  Carried'
<1> SUFFICES ASSUME NEW v \in Workers, pc'[v] \in Informed
             PROVE  delivery'[v] \in 1..accepted'[Current(v)']
  BY DEF Carried, Informed
<1>1. CASE v = w
  BY <1>1
<1>2. CASE v # w
  <2>1. pc[v] \in Informed /\ Current(v)' = Current(v) /\ delivery'[v] = delivery[v]
    BY <1>2 DEF Others, Current
  <2>2. Current(v) \in Messages
    BY <2>1, CurrentType DEF TypeOK, WorkersOK, Informed
  <2>3. delivery[v] \in 1..accepted[Current(v)]
    BY <2>1 DEF Carried, Informed
  <2>4. /\ accepted[Current(v)] \in Nat
        /\ accepted'[Current(v)] \in Nat
        /\ accepted'[Current(v)] >= accepted[Current(v)]
    BY <2>2 DEF TypeOK, Monotone
  <2> QED
    BY <2>1, <2>3, <2>4
<1> QED
  BY <1>1, <1>2

\* A worker about to cache has marked its message, if its own step sees to that.
LEMMA CachingKept ==
  ASSUME TypeOK, CachingSound, Monotone, NEW w \in Workers, Others(w),
         pc'[w] = "cache" => /\ rows'[Current(w)'] = "sent"
                             /\ marked'[Current(w)'] = delivery'[w]
  PROVE  CachingSound'
<1> SUFFICES ASSUME NEW v \in Workers, pc'[v] = "cache"
             PROVE  rows'[Current(v)'] = "sent" /\ marked'[Current(v)'] = delivery'[v]
  BY DEF CachingSound
<1>1. CASE v = w
  BY <1>1
<1>2. CASE v # w
  <2>1. pc[v] = "cache" /\ Current(v)' = Current(v) /\ delivery'[v] = delivery[v]
    BY <1>2 DEF Others, Current
  <2>2. Current(v) \in Messages
    BY <2>1, CurrentType DEF TypeOK, WorkersOK
  <2> QED
    BY <2>1, <2>2 DEF CachingSound, Monotone
<1> QED
  BY <1>1, <1>2

\* Deliveries are only added, so the marks stay sound.
LEMMA MarkedKept ==
  ASSUME TypeOK, TypeOK', MarkedSound, Monotone,
         \A m \in Messages: /\ rows'[m] = "sent" <=> rows[m] = "sent"
                            /\ marked'[m] = marked[m]
  PROVE  MarkedSound'
  BY DEF TypeOK, MarkedSound, Monotone

\* Marks stay as they are, so the cache stays sound while nothing is added to it.
LEMMA CacheKept ==
  ASSUME CacheSound, Monotone,
         \A m \in Messages: cache'[m] \in {0, cache[m]}
  PROVE  CacheSound'
  BY DEF CacheSound, Monotone

\* A step of w that leaves the stores and the provider's count alone.
LEMMA WorkerStep ==
  ASSUME Inv, TypeOK', NEW w \in Workers, Others(w),
         UNCHANGED <<rows, marked, cache, accepted>>,
         pc'[w] \in Informed => delivery'[w] \in 1..accepted[Current(w)'],
         pc'[w] # "cache"
  PROVE  Inv'
<1>1. Monotone
  BY DEF Monotone, Inv, TypeOK
<1> QED
  BY <1>1, CarriedKept, CachingKept, MarkedKept, CacheKept DEF Inv

\* Going on to the next message touches no other worker and carries nothing.
LEMMA NextMessageFrame ==
  ASSUME TypeOK, NEW w \in Workers, NextMessage(w)
  PROVE  Others(w) /\ pc'[w] \notin Informed
  BY DEF TypeOK, NextMessage, Others, Informed

\* Marking a row that is not sent for the delivery the worker carries.
LEMMA UpdateKeeps ==
  ASSUME Inv, TypeOK', NEW w \in Workers, pc[w] = "mark", UpdateRow(w),
         UNCHANGED accepted
  PROVE  /\ Monotone
         /\ MarkedSound'
         /\ rows'[Current(w)] = "sent" /\ marked'[Current(w)] = delivery[w]
<1>1. Current(w) \in Messages
  BY CurrentType DEF Inv, TypeOK, WorkersOK
<1>2. delivery[w] \in 1..accepted[Current(w)]
  BY DEF Inv, Carried
<1>3. Monotone
  <2>1. \A m \in Messages: accepted'[m] >= accepted[m]
    BY DEF Inv, TypeOK
  <2>2. ASSUME NEW m \in Messages, rows[m] = "sent"
        PROVE  rows'[m] = "sent" /\ marked'[m] = marked[m]
    <3>1. m # Current(w)
      BY <2>2 DEF UpdateRow
    <3> QED
      BY <1>1, <2>2, <3>1 DEF UpdateRow, Inv, TypeOK
  <2> QED
    BY <2>1, <2>2 DEF Monotone
<1>4. \A m \in Messages \ {Current(w)}: rows'[m] = rows[m] /\ marked'[m] = marked[m]
  BY <1>1 DEF UpdateRow, Inv, TypeOK
<1>5. rows'[Current(w)] = "sent" /\ marked'[Current(w)] = delivery[w]
  BY <1>1 DEF UpdateRow, Inv, TypeOK
<1> QED
  BY <1>2, <1>3, <1>4, <1>5 DEF Inv, MarkedSound

\* The inductive invariant holds initially.
LEMMA InvInit == Init => Inv
  BY TypeInit DEF Init, Inv, Carried, MarkedSound, CachingSound, CacheSound

\* Each step of a worker keeps the invariant.
LEMMA WorkKeepsInv ==
  ASSUME Inv, TypeOK', NEW w \in Workers, Work(w)
  PROVE  Inv'
<1> USE DEF Informed
<1>1. CASE BeginBatch(w) \/ Fetched(w) \/ FetchFails(w) \/ Send(w)
  <2>1. Others(w) /\ pc'[w] \notin Informed
    BY <1>1 DEF BeginBatch, Fetched, FetchFails, Send, Go, Others, Inv, TypeOK
  <2>2. UNCHANGED <<rows, marked, cache, accepted>>
    BY <1>1 DEF BeginBatch, Fetched, FetchFails, Send, stores, provider
  <2> QED
    BY <2>1, <2>2, WorkerStep
<1>2. CASE Answer(w)
  <2>1. Others(w) /\ pc'[w] = "mark" /\ pc[w] = "answered"
    BY <1>2 DEF Answer, Go, Others, Inv, TypeOK
  <2>2. Current(w)' = Current(w) /\ delivery'[w] = delivery[w]
    BY <1>2 DEF Answer, Current
  <2>3. delivery[w] \in 1..accepted[Current(w)]
    BY <2>1 DEF Inv, Carried
  <2>4. UNCHANGED <<rows, marked, cache, accepted>>
    BY <1>2 DEF Answer, stores, provider
  <2> QED
    BY <2>1, <2>2, <2>3, <2>4, WorkerStep
<1>3. CASE AnswerLost(w) \/ Reject(w) \/ Timeout(w) \/ MarkNone(w) \/ CacheFails(w)
  <2>1. Others(w) /\ pc'[w] \notin Informed
    BY <1>3, NextMessageFrame
       DEF AnswerLost, Reject, Timeout, MarkNone, CacheFails, Inv
  <2>2. UNCHANGED <<rows, marked, cache, accepted>>
    BY <1>3 DEF AnswerLost, Reject, Timeout, MarkNone, CacheFails, stores, provider
  <2> QED
    BY <2>1, <2>2, WorkerStep
<1>4. CASE Accept(w)
  <2>1. Others(w) /\ pc'[w] = "answered" /\ pc[w] = "await"
    BY <1>4 DEF Accept, Go, Others, Inv, TypeOK
  <2>2. Current(w) \in Messages
    BY <2>1, CurrentType DEF Inv, TypeOK, WorkersOK
  <2>3. Current(w)' = Current(w)
    BY <1>4 DEF Accept, Current
  <2>4. /\ accepted[Current(w)] \in Nat
        /\ accepted'[Current(w)] = accepted[Current(w)] + 1
        /\ delivery'[w] = accepted[Current(w)] + 1
        /\ \A m \in Messages \ {Current(w)}: accepted'[m] = accepted[m]
    BY <1>4, <2>2 DEF Accept, Inv, TypeOK
  <2>5. UNCHANGED <<rows, marked, cache>>
    BY <1>4 DEF Accept, stores
  <2>6. Monotone
    <3>1. \A m \in Messages: accepted[m] \in Nat
      BY DEF Inv, TypeOK
    <3>2. ASSUME NEW m \in Messages PROVE accepted'[m] >= accepted[m]
      BY <2>4, <3>1
    <3> QED
      BY <2>5, <3>2 DEF Monotone
  <2>7. delivery'[w] \in 1..accepted'[Current(w)']
    BY <2>3, <2>4
  <2>8. Carried' /\ CachingSound'
    BY <2>1, <2>6, <2>7, CarriedKept, CachingKept DEF Inv
  <2>9. MarkedSound' /\ CacheSound'
    BY <2>5, <2>6, MarkedKept, CacheKept DEF Inv
  <2> QED
    BY <2>8, <2>9 DEF Inv
<1>5. CASE Mark(w)
  <2>1. Others(w) /\ pc'[w] = "cache" /\ pc[w] = "mark"
    BY <1>5 DEF Mark, Go, Others, Inv, TypeOK
  <2>2. Current(w)' = Current(w) /\ delivery'[w] = delivery[w]
    BY <1>5 DEF Mark, Current
  <2>3. UNCHANGED <<cache, accepted>>
    BY <1>5 DEF Mark, provider
  <2>4. /\ Monotone
        /\ MarkedSound'
        /\ rows'[Current(w)] = "sent" /\ marked'[Current(w)] = delivery[w]
    BY <1>5, <2>1, <2>3, UpdateKeeps DEF Mark
  <2>5. delivery[w] \in 1..accepted[Current(w)]
    BY <2>1 DEF Inv, Carried
  <2>6. Carried' /\ CachingSound'
    BY <2>1, <2>2, <2>3, <2>4, <2>5, CarriedKept, CachingKept DEF Inv
  <2> QED
    BY <2>3, <2>4, <2>6, CacheKept DEF Inv
<1>6. CASE MarkFails(w)
  <2>1. Others(w) /\ pc'[w] \notin Informed /\ pc[w] = "mark"
    BY <1>6, NextMessageFrame DEF MarkFails, Inv
  <2>2. UNCHANGED <<cache, accepted>>
    BY <1>6 DEF MarkFails, provider
  <2>3. CASE UNCHANGED <<rows, marked>>
    BY <2>1, <2>2, <2>3, WorkerStep
  <2>4. CASE UpdateRow(w)
    <3>1. Monotone /\ MarkedSound'
      BY <2>1, <2>2, <2>4, UpdateKeeps
    <3> QED
      BY <2>1, <2>2, <3>1, CarriedKept, CachingKept, CacheKept DEF Inv
  <2> QED
    BY <1>6, <2>3, <2>4 DEF MarkFails
<1>7. CASE Cache(w)
  <2>1. Others(w) /\ pc'[w] \notin Informed /\ pc[w] = "cache"
    BY <1>7, NextMessageFrame DEF Cache, Inv
  <2>2. UNCHANGED <<rows, marked, accepted>>
    BY <1>7 DEF Cache, provider
  <2>3. Monotone
    BY <2>2 DEF Monotone, Inv, TypeOK
  <2>4. rows[Current(w)] = "sent" /\ marked[Current(w)] = delivery[w]
    BY <2>1 DEF Inv, CachingSound
  <2>5. \A m \in Messages: cache'[m] = IF m = Current(w) THEN delivery[w] ELSE cache[m]
    BY <1>7 DEF Cache, Inv, TypeOK
  <2>6. CacheSound'
    BY <2>2, <2>4, <2>5 DEF Inv, CacheSound
  <2> QED
    BY <2>1, <2>2, <2>3, <2>6, CarriedKept, CachingKept, MarkedKept DEF Inv
<1> QED
  BY <1>1, <1>2, <1>3, <1>4, <1>5, <1>6, <1>7 DEF Work

\* A step in which no worker takes part.
LEMMA OutsideStep ==
  ASSUME Inv, TypeOK', Monotone, UNCHANGED workers, MarkedSound',
         \A m \in Messages: cache'[m] \in {0, cache[m]}
  PROVE  Inv'
<1>1. ASSUME NEW w \in Workers
      PROVE  Others(w) /\ Current(w)' = Current(w) /\ pc'[w] = pc[w] /\ delivery'[w] = delivery[w]
  BY DEF workers, Others, Current
<1>2. Carried'
  <2> SUFFICES ASSUME NEW w \in Workers, pc[w] \in Informed
               PROVE  delivery[w] \in 1..accepted'[Current(w)]
    BY <1>1 DEF Carried, Informed
  <2>1. Current(w) \in Messages
    BY CurrentType DEF Informed, Inv, TypeOK, WorkersOK
  <2>2. delivery[w] \in 1..accepted[Current(w)]
    BY DEF Inv, Carried, Informed
  <2> QED
    BY <2>1, <2>2 DEF Monotone, Inv, TypeOK
<1>3. CachingSound'
  <2> SUFFICES ASSUME NEW w \in Workers, pc[w] = "cache"
               PROVE  rows'[Current(w)] = "sent" /\ marked'[Current(w)] = delivery[w]
    BY <1>1 DEF CachingSound
  <2>1. Current(w) \in Messages
    BY CurrentType DEF Inv, TypeOK, WorkersOK
  <2> QED
    BY <2>1 DEF Monotone, Inv, CachingSound
<1> QED
  BY <1>2, <1>3, CacheKept DEF Inv

\* Every step keeps the invariant.
LEMMA InvStep == Inv /\ [Next]_vars => Inv'
<1> SUFFICES ASSUME Inv, [Next]_vars PROVE Inv'
  OBVIOUS
<1>0. TypeOK'
  BY TypeStep DEF Inv
<1>1. ASSUME NEW w \in Workers, Work(w) PROVE Inv'
  BY <1>0, <1>1, WorkKeepsInv
<1>2. ASSUME NEW w \in Workers, Crash(w) PROVE Inv'
  <2>1. Others(w) /\ pc'[w] = "idle"
    BY <1>2 DEF Crash, Others, Inv, TypeOK
  <2>2. UNCHANGED <<rows, marked, cache, accepted>>
    BY <1>2 DEF Crash, stores
  <2> QED
    BY <1>0, <2>1, <2>2, WorkerStep DEF Informed
<1>3. ASSUME NEW m \in Messages, LateAccept(m) \/ LateDrop(m) PROVE Inv'
  <2>1. UNCHANGED <<rows, marked, cache>> /\ UNCHANGED workers
    BY <1>3 DEF LateAccept, LateDrop, LateRequest, stores
  <2>2. Monotone
    <3>1. accepted \in [Messages -> Nat]
      BY DEF Inv, TypeOK
    <3>2. accepted' = accepted \/ accepted' = [accepted EXCEPT ![m] = accepted[m] + 1]
      BY <1>3 DEF LateAccept, LateDrop
    <3>3. ASSUME NEW n \in Messages PROVE accepted'[n] >= accepted[n]
      <4>1. accepted[n] \in Nat /\ accepted'[n] \in {accepted[n], accepted[n] + 1}
        BY <3>1, <3>2
      <4> QED
        BY <4>1
    <3> QED
      BY <2>1, <3>3 DEF Monotone
  <2> QED
    BY <1>0, <2>1, <2>2, MarkedKept, OutsideStep DEF Inv
<1>4. ASSUME NEW m \in Messages, CacheExpires(m) PROVE Inv'
  <2>1. UNCHANGED <<rows, marked, accepted>> /\ UNCHANGED workers
    BY <1>4 DEF CacheExpires, provider
  <2>2. Monotone
    BY <2>1 DEF Monotone, Inv, TypeOK
  <2>3. \A n \in Messages: cache'[n] \in {0, cache[n]}
    BY <1>4 DEF CacheExpires, Inv, TypeOK
  <2> QED
    BY <1>0, <2>1, <2>2, <2>3, MarkedKept, OutsideStep DEF Inv
<1>5. ASSUME NEW m \in Messages, Insert(m) PROVE Inv'
  <2>1. UNCHANGED <<marked, cache, accepted>> /\ UNCHANGED workers
    BY <1>5 DEF Insert, provider
  <2>2. \A n \in Messages: rows'[n] = "sent" <=> rows[n] = "sent"
    BY <1>5 DEF Insert, Inv, TypeOK
  <2>3. Monotone
    BY <2>1, <2>2 DEF Monotone, Inv, TypeOK
  <2> QED
    BY <1>0, <2>1, <2>2, <2>3, MarkedKept, OutsideStep DEF Inv
<1>6. CASE UNCHANGED vars
  <2>1. UNCHANGED <<rows, marked, cache, accepted>> /\ UNCHANGED workers
    BY <1>6 DEF vars, stores, provider
  <2>2. Monotone
    BY <2>1 DEF Monotone, Inv, TypeOK
  <2> QED
    BY <1>0, <2>1, <2>2, MarkedKept, OutsideStep DEF Inv
<1> QED
  BY <1>1, <1>2, <1>3, <1>4, <1>5, <1>6 DEF Next

\* The inductive invariant holds throughout.
LEMMA Invariance == Spec => []Inv
  BY InvInit, InvStep, PTL DEF Spec

(***************************************************************************)
(* No message is lost: whatever fails, and however many workers overlap, a *)
(* row marked as sent was accepted by the provider.                        *)
(***************************************************************************)
THEOREM NothingLost == Spec => []NoLoss
<1>1. Inv => NoLoss
  BY DEF Inv, MarkedSound, NoLoss
<1> QED
  BY <1>1, Invariance, PTL

(***************************************************************************)
(* The cache names the delivery the row was marked for.                    *)
(***************************************************************************)
THEOREM CacheIsSound == Spec => []CacheSound
<1>1. Inv => CacheSound
  BY DEF Inv
<1> QED
  BY <1>1, Invariance, PTL

(***************************************************************************)
(* Dispatch implements Outbox.  A message is delivered by Accept or        *)
(* LateAccept, confirmed by the UPDATE, noted by SetDeliveryCache.         *)
(***************************************************************************)
queue == {m \in Messages: rows[m] # "absent"}

OutboxStep == [Abstract!Next]_<<queue, accepted, marked, cache>>

\* Only rows that exist are fetched, sent, or on their way to the provider.
Known == /\ \A w \in Workers: \A k \in DOMAIN batch[w]: batch[w][k] \in queue
         /\ \A m \in Messages: late[m] > 0 => m \in queue

\* Initially nothing is fetched and nothing is on its way.
LEMMA KnownInit == Init => Known
  BY DEF Init, Known

\* The message at hand is one that was queued.
LEMMA KnownCurrent ==
  ASSUME TypeOK, Known, NEW w \in Workers, pc[w] \notin {"idle", "fetching"}
  PROVE  Current(w) \in queue
<1>1. batch[w] \in Seq(Messages) /\ batch[w] # <<>>
  BY DEF TypeOK
<1>2. Len(batch[w]) \in Nat \ {0} /\ DOMAIN batch[w] = 1..Len(batch[w])
  BY <1>1, EmptySeq, LenProperties
<1>3. 1 \in DOMAIN batch[w]
  BY <1>2
<1> QED
  BY <1>3 DEF Known, Current

\* Worker w's batch holds known messages after the step, the others keep theirs.
LEMMA KnownKept ==
  ASSUME Known, queue \subseteq queue', NEW w \in Workers,
         \A v \in Workers \ {w}: batch'[v] = batch[v],
         \A k \in DOMAIN batch'[w]: batch'[w][k] \in queue,
         \A m \in Messages: late'[m] > 0 => late[m] > 0 \/ m \in queue
  PROVE  Known'
<1>1. \A v \in Workers: \A k \in DOMAIN batch'[v]: batch'[v][k] \in queue'
  BY DEF Known
<1>2. \A m \in Messages: late'[m] > 0 => m \in queue'
  BY DEF Known
<1> QED
  BY <1>1, <1>2 DEF Known

\* So are those that are left.
LEMMA TailKnown ==
  ASSUME TypeOK, Known, NEW w \in Workers, batch[w] # <<>>,
         batch' = [batch EXCEPT ![w] = Tail(batch[w])]
  PROVE  \A k \in DOMAIN batch'[w]: batch'[w][k] \in queue
<1>1. batch[w] \in Seq(Messages) /\ batch'[w] = Tail(batch[w])
  BY DEF TypeOK
<1>2. Tail(batch[w]) \in Seq(Messages)
  BY <1>1, HeadTailProperties
<1>3. /\ Len(batch[w]) \in Nat /\ DOMAIN batch[w] = 1..Len(batch[w])
      /\ Len(Tail(batch[w])) = Len(batch[w]) - 1
      /\ DOMAIN Tail(batch[w]) = 1..Len(Tail(batch[w]))
  BY <1>1, <1>2, LenProperties, HeadTailProperties
<1> SUFFICES ASSUME NEW k \in DOMAIN Tail(batch[w]) PROVE Tail(batch[w])[k] \in queue
  BY <1>1
<1>4. k + 1 \in DOMAIN batch[w]
  BY <1>3
<1>5. Tail(batch[w])[k] = batch[w][k + 1]
  BY <1>1, <1>3, HeadTailProperties
<1> QED
  BY <1>4, <1>5 DEF Known

\* No row disappears.
LEMMA QueueGrows ==
  ASSUME TypeOK, [Next]_vars
  PROVE  queue \subseteq queue'
<1>1. ASSUME NEW w \in Workers, Work(w) \/ Crash(w)
      PROVE  \A m \in Messages: rows'[m] = rows[m] \/ rows'[m] = "sent"
  BY <1>1 DEF Work, BeginBatch, Fetched, FetchFails, Send, Accept, Answer, AnswerLost, Reject,
              Timeout, Mark, MarkNone, MarkFails, Cache, CacheFails, Crash, UpdateRow, stores, TypeOK
<1>2. ASSUME NEW m \in Messages,
             LateAccept(m) \/ LateDrop(m) \/ CacheExpires(m) \/ Insert(m)
      PROVE  \A n \in Messages: rows'[n] = rows[n] \/ rows'[n] = "unsent"
  BY <1>2 DEF LateAccept, LateDrop, LateRequest, CacheExpires, Insert, stores, TypeOK
<1>3. UNCHANGED vars => rows' = rows
  BY DEF vars, stores
<1> QED
  BY <1>1, <1>2, <1>3 DEF Next, queue

\* Every step keeps the batches and late requests among the queued messages.
LEMMA KnownStep == TypeOK /\ Known /\ [Next]_vars => Known'
<1> SUFFICES ASSUME TypeOK, Known, [Next]_vars PROVE Known'
  OBVIOUS
<1>0. queue \subseteq queue'
  BY QueueGrows
<1>1. ASSUME UNCHANGED batch, \A m \in Messages: late'[m] > 0 => late[m] > 0 \/ m \in queue
      PROVE  Known'
  <2>1. \A w \in Workers: \A k \in DOMAIN batch'[w]: batch'[w][k] \in queue'
    BY <1>0, <1>1 DEF Known
  <2>2. \A m \in Messages: late'[m] > 0 => m \in queue'
    BY <1>0, <1>1 DEF Known
  <2> QED
    BY <2>1, <2>2 DEF Known
<1>2. ASSUME NEW w \in Workers, BeginBatch(w) PROVE Known'
  <2>1. PICK s \in UpTo(batchSize): IsFirstOf(s, batchSize) /\ batch' = [batch EXCEPT ![w] = s]
    BY <1>2 DEF BeginBatch
  <2>2. \A k \in DOMAIN s: s[k] \in queue
    BY <2>1 DEF IsFirstOf, Available, Selectable, queue
  <2>3. batch'[w] = s /\ \A v \in Workers \ {w}: batch'[v] = batch[v]
    BY <2>1 DEF TypeOK
  <2>4. late' = late
    BY <1>2 DEF BeginBatch, provider
  <2> QED
    BY <1>0, <2>2, <2>3, <2>4, KnownKept
<1>3. ASSUME NEW w \in Workers,
             Fetched(w) \/ Send(w) \/ Accept(w) \/ Answer(w) \/ Mark(w)
      PROVE  Known'
  BY <1>1, <1>3 DEF Fetched, Send, Accept, Answer, Mark, provider
<1>4. ASSUME NEW w \in Workers,
             \/ AnswerLost(w) \/ Reject(w) \/ Timeout(w) \/ MarkNone(w) \/ MarkFails(w)
             \/ Cache(w) \/ CacheFails(w)
      PROVE  Known'
  <2>1. pc[w] \notin {"idle", "fetching"} /\ NextMessage(w)
    BY <1>4 DEF AnswerLost, Reject, Timeout, MarkNone, MarkFails, Cache, CacheFails
  <2>2. batch[w] # <<>> /\ Current(w) \in queue /\ Current(w) \in Messages
    BY <2>1, KnownCurrent DEF TypeOK, queue
  <2>3. \A k \in DOMAIN batch'[w]: batch'[w][k] \in queue
    BY <2>1, <2>2, TailKnown DEF NextMessage
  <2>4. \A v \in Workers \ {w}: batch'[v] = batch[v]
    BY <2>1 DEF NextMessage, TypeOK
  <2>5. \A m \in Messages: late'[m] = late[m] \/ m = Current(w)
    BY <1>4, <2>2
       DEF AnswerLost, Reject, Timeout, MarkNone, MarkFails, Cache, CacheFails, provider, TypeOK
  <2> QED
    BY <1>0, <2>2, <2>3, <2>4, <2>5, KnownKept
<1>5. ASSUME NEW w \in Workers, FetchFails(w) \/ Crash(w) PROVE Known'
  <2>1. batch'[w] = <<>> /\ \A v \in Workers \ {w}: batch'[v] = batch[v]
    BY <1>5 DEF FetchFails, Crash, TypeOK
  <2>2. \A m \in Messages: late'[m] > 0 => late[m] > 0 \/ m \in queue
    <3>1. CASE Crash(w) /\ pc[w] = "await"
      BY <3>1, KnownCurrent DEF Crash, TypeOK
    <3>2. CASE Crash(w) /\ pc[w] # "await"
      BY <3>2 DEF Crash
    <3>3. CASE FetchFails(w)
      BY <3>3 DEF FetchFails, provider
    <3> QED
      BY <1>5, <3>1, <3>2, <3>3
  <2>3. \A k \in DOMAIN batch'[w]: batch'[w][k] \in queue
    BY <2>1
  <2> QED
    BY <1>0, <2>1, <2>2, <2>3, KnownKept
<1>6. ASSUME NEW m \in Messages, LateAccept(m) \/ LateDrop(m) PROVE Known'
  <2>1. late[m] > 0 /\ late' = [late EXCEPT ![m] = late[m] - 1] /\ UNCHANGED batch
    BY <1>6 DEF LateAccept, LateDrop, LateRequest, workers
  <2>2. \A n \in Messages: late'[n] > 0 => late[n] > 0
    BY <2>1 DEF TypeOK
  <2> QED
    BY <1>1, <2>1, <2>2
<1>7. ASSUME NEW m \in Messages, CacheExpires(m) \/ Insert(m) PROVE Known'
  BY <1>1, <1>7 DEF CacheExpires, Insert, provider, workers
<1>8. CASE UNCHANGED vars
  BY <1>1, <1>8 DEF vars, provider, workers
<1> QED
  BY <1>2, <1>3, <1>4, <1>5, <1>6, <1>7, <1>8 DEF Next, Work

\* What a step does to the outbox, whoever takes it.
LEMMA Stutters ==
  ASSUME UNCHANGED <<rows, accepted, marked, cache>>
  PROVE  OutboxStep
  BY DEF OutboxStep, queue

\* A delivery is a step of the outbox.
LEMMA Delivers ==
  ASSUME NEW m \in Messages, m \in queue, UNCHANGED <<rows, marked, cache>>,
         accepted' = [accepted EXCEPT ![m] = accepted[m] + 1]
  PROVE  OutboxStep
<1>1. Abstract!Deliver(m)
  BY DEF Abstract!Deliver, queue
<1> QED
  BY <1>1 DEF OutboxStep, Abstract!Next

\* Marking a message is a step of the outbox: the delivery was accepted.
LEMMA Confirms ==
  ASSUME Inv, NEW w \in Workers, pc[w] = "mark", UpdateRow(w), UNCHANGED <<accepted, cache>>
  PROVE  OutboxStep
<1>1. Current(w) \in Messages
  BY CurrentType DEF Inv, TypeOK, WorkersOK
<1>2. marked[Current(w)] = 0
  BY <1>1 DEF UpdateRow, Inv, MarkedSound
<1>3. delivery[w] \in 1..accepted[Current(w)]
  BY DEF Inv, Carried
<1>4. queue' = queue
  BY <1>1 DEF queue, UpdateRow, Inv, TypeOK
<1>5. marked' = [marked EXCEPT ![Current(w)] = delivery[w]]
  BY DEF UpdateRow
<1>6. Abstract!Confirm(Current(w))
  BY <1>2, <1>3, <1>4, <1>5 DEF Abstract!Confirm, queue
<1> QED
  BY <1>1, <1>6 DEF OutboxStep, Abstract!Next

\* Each step of a worker is a step of the outbox, or none.
LEMMA WorkRefines ==
  ASSUME Inv, Known, NEW w \in Workers, Work(w)
  PROVE  OutboxStep
<1>1. CASE \/ BeginBatch(w) \/ Fetched(w) \/ FetchFails(w) \/ Send(w) \/ Answer(w)
           \/ AnswerLost(w) \/ Reject(w) \/ Timeout(w) \/ MarkNone(w) \/ CacheFails(w)
  BY <1>1, Stutters
     DEF BeginBatch, Fetched, FetchFails, Send, Answer, AnswerLost, Reject, Timeout,
         MarkNone, CacheFails, stores, provider
<1>2. CASE Accept(w)
  <2>1. Current(w) \in queue /\ Current(w) \in Messages
    BY <1>2, KnownCurrent DEF Accept, Go, Inv, queue
  <2> QED
    BY <1>2, <2>1, Delivers DEF Accept, stores
<1>3. CASE Mark(w) \/ MarkFails(w)
  <2>1. UNCHANGED <<cache, accepted>> /\ pc[w] = "mark"
    BY <1>3 DEF Mark, MarkFails, Go, provider
  <2>2. UpdateRow(w) \/ UNCHANGED <<rows, marked>>
    BY <1>3 DEF Mark, MarkFails
  <2> QED
    BY <2>1, <2>2, Confirms, Stutters
<1>4. CASE Cache(w)
  <2>1. Current(w) \in Messages
    BY <1>4, CurrentType DEF Cache, Inv, TypeOK, WorkersOK
  <2>2. rows[Current(w)] = "sent" /\ marked[Current(w)] = delivery[w]
    BY <1>4 DEF Cache, Inv, CachingSound
  <2>3. marked[Current(w)] # 0
    BY <2>1, <2>2 DEF Inv, TypeOK, MarkedSound
  <2>4. UNCHANGED <<rows, accepted, marked>>
    BY <1>4 DEF Cache, provider
  <2>5. Abstract!Note(Current(w))
    BY <1>4, <2>2, <2>3, <2>4 DEF Cache, Abstract!Note
  <2> QED
    BY <2>1, <2>5 DEF OutboxStep, Abstract!Next
<1> QED
  BY <1>1, <1>2, <1>3, <1>4 DEF Work

\* So is every step.
LEMMA Refines == Inv /\ Known /\ [Next]_vars => OutboxStep
<1> SUFFICES ASSUME Inv, Known, [Next]_vars PROVE OutboxStep
  OBVIOUS
<1>1. ASSUME NEW w \in Workers, Work(w) PROVE OutboxStep
  BY <1>1, WorkRefines
<1>2. ASSUME NEW w \in Workers, Crash(w) PROVE OutboxStep
  BY <1>2, Stutters DEF Crash, stores
<1>3. ASSUME NEW m \in Messages, LateAccept(m) PROVE OutboxStep
  <2>1. m \in queue
    BY <1>3 DEF LateAccept, LateRequest, Known
  <2> QED
    BY <1>3, <2>1, Delivers DEF LateAccept, LateRequest, stores
<1>4. ASSUME NEW m \in Messages, LateDrop(m) PROVE OutboxStep
  BY <1>4, Stutters DEF LateDrop, LateRequest, stores
<1>5. ASSUME NEW m \in Messages, CacheExpires(m) PROVE OutboxStep
  <2>1. Abstract!Forget(m)
    BY <1>5 DEF CacheExpires, provider, Abstract!Forget
  <2> QED
    BY <2>1 DEF OutboxStep, Abstract!Next
<1>6. ASSUME NEW m \in Messages, Insert(m) PROVE OutboxStep
  <2>1. m \notin queue /\ queue' = queue \cup {m}
    BY <1>6 DEF Insert, queue, Inv, TypeOK
  <2>2. UNCHANGED <<accepted, marked, cache>>
    BY <1>6 DEF Insert, provider
  <2>3. Abstract!Submit(m)
    BY <2>1, <2>2 DEF Abstract!Submit, queue
  <2> QED
    BY <2>3 DEF OutboxStep, Abstract!Next
<1>7. CASE UNCHANGED vars
  BY <1>7, Stutters DEF vars, stores, provider
<1> QED
  BY <1>1, <1>2, <1>3, <1>4, <1>5, <1>6, <1>7 DEF Next

\* Dispatching implements the outbox.
THEOREM OutboxRefined == Spec => KeepsOutbox
<1>1. Init => Abstract!Init
  BY DEF Init, Abstract!Init
<1>2. Inv /\ Known /\ [Next]_vars => [Abstract!Next]_Abstract!outboxVars
  BY Refines DEF OutboxStep, queue, Abstract!outboxVars
<1>3. Spec => []Known
  <2>1. TypeOK /\ Known /\ [Next]_vars => Known'
    BY KnownStep
  <2> QED
    BY <2>1, KnownInit, TypeCorrect, PTL DEF Spec
<1> QED
  BY <1>1, <1>2, <1>3, Invariance, PTL DEF Spec, KeepsOutbox, Abstract!Spec
=============================================================================
