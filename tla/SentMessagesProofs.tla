------------------------- MODULE SentMessagesProofs -------------------------
(***************************************************************************)
(* Proofs about SentMessages, for any number of workers, rows, failures    *)
(* and runs of the tools: what a response shows while the table is not     *)
(* cleared, what clearing it can cost, and how long the cache is wrong     *)
(* afterwards.                                                             *)
(*                                                                         *)
(* The invariant of DispatchProofs does not survive clear-messages: a      *)
(* worker carries on with rows that are gone.  What does is that a worker  *)
(* carries an accepted delivery (Carried), and that all that was in hand   *)
(* at the time is in atRisk (InHandAtRisk).                                *)
(***************************************************************************)
EXTENDS SentMessages, SerialDispatchProofs

\* A batch is of the present table, or its messages are counted as at risk.
InHandAtRisk == \A w \in Workers:
                   pc[w] # "idle" /\ bornIn[w] # clears =>
                      \A k \in DOMAIN batch[w]: batch[w][k] \in atRisk

ToolsInv == TypeOK /\ SentTypeOK /\ Carried /\ InHandAtRisk /\ LossCharged

----------------------------------------------------------------------------
\* The steps that are not steps of Dispatch, or nothing to it.
LEMMA DispatchOrTool == SentNext => [Next]_vars \/ Clear \/ Migrate
  BY DEF SentNext, Dispatching, AddSingleMessage, List, Get, GetFails, Next

\* clear-messages keeps the stores well typed, and workers as they are.
LEMMA ClearTypes ==
  ASSUME TypeOK, Clear
  PROVE  TypeOK' /\ \A m \in Messages: rows'[m] = "absent" /\ marked'[m] = 0
  BY DEF TypeOK, Clear, provider, workers, Status

\* The rows that migrate inserts were not there, and nothing else changes.
LEMMA MigrateTypes ==
  ASSUME TypeOK, Migrate
  PROVE  /\ TypeOK'
         /\ \A m \in Messages: rows'[m] = rows[m] \/ (rows[m] = "absent" /\ rows'[m] = "unsent")
         /\ UNCHANGED <<cache, marked, provider, workers, faults, reader, clears, history, atRisk>>
<1>1. PICK S \in SUBSET Messages:
         /\ \A m \in S: rows[m] = "absent"
         /\ rows' = [m \in Messages |-> IF m \in S THEN "unsent" ELSE rows[m]]
         /\ ahead' = [m \in Messages |->
               IF m \in S THEN {n \in Precede(Messages, m): rows'[n] # "absent"}
               ELSE ahead[m]]
  BY DEF Migrate, kSubset
<1>2. UNCHANGED <<cache, marked, provider, workers, faults, reader, clears, history, atRisk>>
  BY DEF Migrate
<1>3. ahead' \in [Messages -> SUBSET Messages]
  BY <1>1 DEF TypeOK, Precede
<1> QED
  BY <1>1, <1>2, <1>3 DEF TypeOK, Status, provider, workers

\* Every step keeps what Dispatch calls its types.
LEMMA StoresTypes ==
  ASSUME TypeOK, SentNext
  PROVE  TypeOK'
  BY DispatchOrTool, TypeStep, ClearTypes, MigrateTypes

\* Work on the present table starts with the present number of clears.
LEMMA RememberTypes ==
  ASSUME TypeOK, TypeOK', SentTypeOK, Remember, UNCHANGED clears,
         NEW w \in Workers, Others(w) \/ UNCHANGED workers
  PROVE  /\ bornIn' \in [Workers -> 0..clears]
         /\ foreign' \subseteq Messages
         /\ \A v \in Workers: pc[v] # "idle" /\ pc'[v] # "idle" => bornIn'[v] = bornIn[v]
         /\ \A v \in Workers: pc[v] = "idle" /\ pc'[v] # "idle" => bornIn'[v] = clears
<1>1. clears \in Nat /\ bornIn \in [Workers -> 0..clears] /\ foreign \subseteq Messages
  BY SentAssumption DEF SentTypeOK
<1>2. ASSUME NEW v \in Workers
      PROVE  /\ bornIn'[v] \in 0..clears
             /\ pc'[v] # "idle" => bornIn'[v] = IF pc[v] = "idle" THEN clears ELSE bornIn[v]
  <2>1. CASE pc'[v] = "idle"
    BY <1>1, <2>1 DEF Remember
  <2>2. CASE pc'[v] # "idle" /\ pc[v] = "idle"
    BY <1>1, <2>2 DEF Remember
  <2>3. CASE pc'[v] # "idle" /\ pc[v] # "idle"
    BY <1>1, <2>3 DEF Remember
  <2> QED
    BY <2>1, <2>2, <2>3
<1>3. DOMAIN bornIn' = Workers /\ bornIn' = [v \in Workers |-> bornIn'[v]]
  BY DEF Remember
<1>4. foreign' \subseteq Messages
  BY <1>1, First DEF Remember
<1> QED
  BY <1>2, <1>3, <1>4

----------------------------------------------------------------------------
(* Carried, without the rest of the invariant of DispatchProofs.           *)

\* A step of a worker keeps what workers carry.
LEMMA CarriedWork ==
  ASSUME TypeOK, TypeOK', Carried, NEW w \in Workers, Work(w) \/ Crash(w)
  PROVE  Carried'
<1>1. Monotone /\ Others(w)
  BY WorkMonotone, WorkFrame
<1>2. pc'[w] \in Informed => delivery'[w] \in 1..accepted'[Current(w)']
  <2>1. CASE Accept(w)
    <3>1. /\ pc[w] = "await" /\ Current(w)' = Current(w)
          /\ accepted' = [accepted EXCEPT ![Current(w)] = @ + 1]
          /\ delivery' = [delivery EXCEPT ![w] = accepted[Current(w)] + 1]
      BY <2>1 DEF Accept, Go, Current
    <3>2. Current(w) \in Messages
      BY <3>1, First
    <3>3. /\ accepted'[Current(w)] = accepted[Current(w)] + 1
          /\ delivery'[w] = accepted[Current(w)] + 1
          /\ accepted[Current(w)] \in Nat
      BY <3>1, <3>2 DEF TypeOK
    <3> QED
      BY <3>1, <3>3
  <2>2. CASE Answer(w) \/ Mark(w)
    BY <2>2 DEF Answer, Mark, Go, Current, Carried, provider
  <2>3. CASE \/ AnswerLost(w) \/ Reject(w) \/ Timeout(w) \/ MarkNone(w) \/ MarkFails(w)
             \/ Cache(w) \/ CacheFails(w)
    <3>1. NextMessage(w)
      BY <2>3 DEF AnswerLost, Reject, Timeout, MarkNone, MarkFails, Cache, CacheFails
    <3> QED
      BY <3>1, NextMessageFrame
  <2>4. CASE BeginBatch(w) \/ Fetched(w) \/ FetchFails(w) \/ Send(w) \/ Crash(w)
    BY <2>4 DEF BeginBatch, Fetched, FetchFails, Send, Crash, Go, Informed, TypeOK
  <2> QED
    BY <2>1, <2>2, <2>3, <2>4 DEF Work
<1> QED
  BY <1>1, <1>2, CarriedKept

\* What happens at the stores keeps it too: the provider only adds deliveries.
LEMMA CarriedStores ==
  ASSUME TypeOK, TypeOK', Carried, UNCHANGED workers,
         \A m \in Messages: accepted'[m] >= accepted[m]
  PROVE  Carried'
<1> SUFFICES ASSUME NEW w \in Workers, pc[w] \in Informed
             PROVE  delivery[w] \in 1..accepted'[Current(w)]
  BY DEF Carried, Informed, workers, Current
<1>1. Current(w) \in Messages
  BY First DEF Informed
<1>2. accepted[Current(w)] \in Nat /\ accepted'[Current(w)] \in Nat
  BY <1>1 DEF TypeOK
<1>3. delivery[w] \in 1..accepted[Current(w)]
  BY DEF Carried, Informed
<1> QED
  BY <1>1, <1>2, <1>3

\* The deliveries the provider counts are never taken back.
LEMMA StoresMonotone ==
  ASSUME TypeOK, NEW m \in Messages,
         LateAccept(m) \/ LateDrop(m) \/ CacheExpires(m) \/ Insert(m)
  PROVE  Monotone
<1>1. \A n \in Messages: rows[n] = "sent" => rows'[n] = "sent" /\ marked'[n] = marked[n]
  BY DEF LateAccept, LateDrop, LateRequest, CacheExpires, Insert, stores, TypeOK
<1>2. \A n \in Messages: accepted'[n] = accepted[n] \/ accepted'[n] = accepted[n] + 1
  BY DEF LateAccept, LateDrop, LateRequest, CacheExpires, Insert, provider, TypeOK
<1>3. \A n \in Messages: accepted[n] \in Nat
  BY DEF TypeOK
<1> QED
  BY <1>1, <1>2, <1>3 DEF Monotone

\* Every step of SentMessages keeps it.
LEMMA CarriedStep ==
  ASSUME TypeOK, TypeOK', Carried, SentNext
  PROVE  Carried'
<1>1. \A m \in Messages: accepted[m] \in Nat
  BY DEF TypeOK
<1>2. CASE Clear \/ Migrate
  <2>1. UNCHANGED workers /\ accepted' = accepted
    BY <1>2, MigrateTypes DEF Clear, provider
  <2> QED
    BY <1>1, <2>1, CarriedStores
<1>3. ASSUME NEW w \in Workers, Work(w) \/ Crash(w) PROVE Carried'
  BY <1>3, CarriedWork
<1>4. ASSUME NEW m \in Messages,
             LateAccept(m) \/ LateDrop(m) \/ CacheExpires(m) \/ Insert(m)
      PROVE  Carried'
  <2>1. UNCHANGED workers
    BY <1>4 DEF LateAccept, LateDrop, LateRequest, CacheExpires, Insert
  <2> QED
    BY <1>4, <2>1, StoresMonotone, CarriedStores DEF Monotone
<1>5. CASE UNCHANGED vars
  BY <1>1, <1>5, CarriedStores DEF vars, provider
<1> QED
  BY <1>2, <1>3, <1>4, <1>5, DispatchOrTool DEF Next

----------------------------------------------------------------------------
(* What clearing the table costs.                                          *)

\* A worker's batch is what it was, or what is left of it.
LEMMA BatchShrinks ==
  ASSUME TypeOK, NEW w \in Workers, Work(w) \/ Crash(w), pc[w] # "idle", pc'[w] # "idle"
  PROVE  \A k \in DOMAIN batch'[w]: \E j \in DOMAIN batch[w]: batch'[w][k] = batch[w][j]
<1>1. CASE NextMessage(w) /\ pc[w] \notin {"idle", "fetching"}
  <2>1. batch'[w] = Tail(batch[w]) /\ batch[w] # <<>>
    BY <1>1 DEF NextMessage, TypeOK
  <2> QED
    BY <2>1, TailAt
<1>2. CASE batch' = batch
  BY <1>2
<1> QED
  BY <1>1, <1>2
     DEF Work, BeginBatch, Fetched, FetchFails, Send, Accept, Answer, AnswerLost, Reject,
         Timeout, Mark, MarkNone, MarkFails, Cache, CacheFails, Crash, Go, TypeOK

\* Dispatching keeps the promise of what is at risk.
LEMMA RiskDispatch ==
  ASSUME ToolsInv, TypeOK', Dispatching
  PROVE  SentTypeOK' /\ InHandAtRisk' /\ LossCharged'
<1> USE DEF ToolsInv
<1>1. Remember /\ UNCHANGED <<reader, clears, atRisk>>
  BY DEF Dispatching
<1>2. foreign' \subseteq atRisk
  <2> SUFFICES ASSUME NEW v \in Workers, pc[v] = "mark",
                      bornIn[v] # clears \/ delivery[v] \notin 1..accepted[Current(v)]
               PROVE  Current(v) \in atRisk
    BY <1>1 DEF Remember, LossCharged
  <2>1. delivery[v] \in 1..accepted[Current(v)]
    BY DEF Carried
  <2> QED
    BY <2>1, First DEF InHandAtRisk
<1>3. ASSUME NEW w \in Workers, Work(w) \/ Crash(w)
      PROVE  SentTypeOK' /\ InHandAtRisk'
  <2>1. Others(w)
    BY <1>3, WorkFrame
  <2>2. /\ bornIn' \in [Workers -> 0..clears] /\ foreign' \subseteq Messages
        /\ \A v \in Workers: pc[v] # "idle" /\ pc'[v] # "idle" => bornIn'[v] = bornIn[v]
        /\ \A v \in Workers: pc[v] = "idle" /\ pc'[v] # "idle" => bornIn'[v] = clears
    BY <1>1, <2>1, RememberTypes
  <2>3. SentTypeOK'
    BY <1>1, <2>2 DEF SentTypeOK, reader
  <2>4. ASSUME NEW v \in Workers, pc'[v] # "idle", bornIn'[v] # clears,
               NEW k \in DOMAIN batch'[v]
        PROVE  batch'[v][k] \in atRisk
    <3>1. pc[v] # "idle" /\ bornIn[v] # clears
      BY <2>2, <2>4
    <3>2. PICK j \in DOMAIN batch[v]: batch'[v][k] = batch[v][j]
      BY <1>3, <2>1, <2>4, <3>1, BatchShrinks DEF Others
    <3> QED
      BY <3>1, <3>2 DEF InHandAtRisk
  <2> QED
    BY <1>1, <2>3, <2>4 DEF InHandAtRisk
<1>4. ASSUME NEW m \in Messages, LateAccept(m) \/ LateDrop(m) \/ CacheExpires(m)
      PROVE  SentTypeOK' /\ InHandAtRisk'
  <2>1. UNCHANGED workers
    BY <1>4 DEF LateAccept, LateDrop, LateRequest, CacheExpires
  <2>2. CASE Workers = {}
    BY <1>1, <2>2 DEF SentTypeOK, reader, Remember, InHandAtRisk
  <2>3. CASE Workers # {}
    <3>1. /\ bornIn' \in [Workers -> 0..clears] /\ foreign' \subseteq Messages
          /\ \A v \in Workers: pc[v] # "idle" /\ pc'[v] # "idle" => bornIn'[v] = bornIn[v]
      BY <1>1, <2>1, <2>3, RememberTypes
    <3> QED
      BY <1>1, <2>1, <3>1 DEF SentTypeOK, reader, InHandAtRisk, workers
  <2> QED
    BY <2>2, <2>3
<1> QED
  BY <1>1, <1>2, <1>3, <1>4 DEF Dispatching, LossCharged

\* clear-messages puts everything in hand at risk.
LEMMA RiskClear ==
  ASSUME ToolsInv, Clear
  PROVE  SentTypeOK' /\ InHandAtRisk' /\ LossCharged'
<1> USE DEF ToolsInv
<1>1. /\ clears' = clears + 1 /\ clears < MaxClears /\ foreign' = {}
      /\ atRisk' = atRisk \cup InHand
      /\ UNCHANGED <<batch, pc, listed, left, entry, bornIn>>
  BY DEF Clear, workers, reader
<1>2. InHand \subseteq Messages
  BY MemberType DEF InHand, Range
<1>3. /\ clears \in Nat /\ clears + 1 \in 0..MaxClears
      /\ \A w \in Workers: bornIn[w] \in 0..(clears + 1)
  BY <1>1, SentAssumption DEF SentTypeOK
<1>4. SentTypeOK'
  BY <1>1, <1>2, <1>3 DEF SentTypeOK
<1>5. \A w \in Workers: \A k \in DOMAIN batch[w]: batch[w][k] \in InHand
  BY DEF InHand, Range
<1> QED
  BY <1>1, <1>4, <1>5 DEF InHandAtRisk, LossCharged

\* The other steps have no part in it.
LEMMA RiskOther ==
  ASSUME ToolsInv, SentNext, ~Dispatching, ~Clear
  PROVE  SentTypeOK' /\ InHandAtRisk' /\ LossCharged'
<1> USE DEF ToolsInv
<1>1. UNCHANGED <<pc, batch, clears, bornIn, foreign, atRisk>>
  BY MigrateTypes DEF SentNext, List, Get, GetFails, AddSingleMessage, Insert, vars, workers, history
<1>2. listed' \subseteq Messages /\ left' \subseteq listed' /\ entry' \in [Messages -> Nat]
  <2>1. CASE List
    BY <2>1 DEF List, RowsSent, NoEntries
  <2>2. CASE GetFails
    BY <2>2 DEF GetFails, NoEntries, SentTypeOK
  <2>3. ASSUME NEW m \in Messages, Get(m)
        PROVE  listed' \subseteq Messages /\ left' \subseteq listed' /\ entry' \in [Messages -> Nat]
    BY <2>3 DEF Get, EntryOf, SentTypeOK, TypeOK
  <2>4. CASE Migrate \/ \E m \in Messages: AddSingleMessage(m)
    BY <2>4, MigrateTypes DEF AddSingleMessage, reader, SentTypeOK
  <2> QED
    BY <2>1, <2>2, <2>3, <2>4 DEF SentNext
<1> QED
  BY <1>1, <1>2 DEF SentTypeOK, InHandAtRisk, LossCharged

\* Initially the table was never cleared.
LEMMA ToolsInit == SentInit => ToolsInv
<1> SUFFICES ASSUME SentInit PROVE ToolsInv
  OBVIOUS
<1>1. TypeOK /\ Carried
  BY InvInit DEF SentInit, Inv
<1>2. SentTypeOK
  BY SentAssumption DEF SentInit, SentTypeOK, NoEntries
<1> QED
  BY <1>1, <1>2 DEF SentInit, ToolsInv, InHandAtRisk, LossCharged

\* Every step keeps the invariant.
LEMMA ToolsStep == ToolsInv /\ [SentNext]_sentVars => ToolsInv'
<1> SUFFICES ASSUME ToolsInv, [SentNext]_sentVars PROVE ToolsInv'
  OBVIOUS
<1>1. CASE SentNext
  <2>1. TypeOK' /\ Carried'
    BY <1>1, StoresTypes, CarriedStep DEF ToolsInv
  <2> QED
    BY <1>1, <2>1, RiskDispatch, RiskClear, RiskOther DEF ToolsInv
<1>2. CASE UNCHANGED sentVars
  BY <1>2 DEF sentVars, vars, stores, provider, workers, reader, history, ToolsInv, TypeOK,
              SentTypeOK, Carried, Current, InHandAtRisk, LossCharged
<1> QED
  BY <1>1, <1>2

\* It holds in every reachable state.
LEMMA ToolsInvariance == SentSpec => []ToolsInv
  BY ToolsInit, ToolsStep, PTL DEF SentSpec

\* The variables have the types that the two modules give them.
THEOREM SentTypeCorrect == SentSpec => [](TypeOK /\ SentTypeOK)
<1>1. ToolsInv => TypeOK /\ SentTypeOK
  BY DEF ToolsInv
<1> QED
  BY <1>1, ToolsInvariance, PTL

(***************************************************************************)
(* A row is marked without a delivery of its own only if its id was in a   *)
(* batch when the table was cleared.                                       *)
(***************************************************************************)
THEOREM LossesCharged == SentSpec => []LossCharged
<1>1. ToolsInv => LossCharged
  BY DEF ToolsInv
<1> QED
  BY <1>1, ToolsInvariance, PTL

----------------------------------------------------------------------------
(* What a response shows as long as the table was not cleared.             *)

\* A listed row stays sent, and its entry is that of its mark.
ReaderSound == \A m \in listed: rows[m] = "sent" /\ entry[m] \in {0, marked[m]}

FreshInv == clears = 0 => Inv /\ ReaderSound /\ foreign = {}

\* migrate adds rows that nobody has dealt with.
LEMMA MigrateInv == Inv /\ Migrate => Inv'
<1> SUFFICES ASSUME Inv, Migrate PROVE Inv'
  OBVIOUS
<1>1. /\ TypeOK'
      /\ \A m \in Messages: rows'[m] = rows[m] \/ (rows[m] = "absent" /\ rows'[m] = "unsent")
      /\ UNCHANGED <<cache, marked, accepted, pc, batch, delivery>>
  BY MigrateTypes DEF Inv, provider, workers
<1>2. Carried' /\ MarkedSound'
  BY <1>1 DEF Inv, Carried, MarkedSound, Current
<1>3. CachingSound'
  <2> SUFFICES ASSUME NEW w \in Workers, pc[w] = "cache"
               PROVE  rows'[Current(w)] = "sent" /\ marked[Current(w)] = delivery[w]
    BY <1>1 DEF CachingSound, Current
  <2>1. Current(w) \in Messages /\ rows[Current(w)] = "sent" /\ marked[Current(w)] = delivery[w]
    BY First DEF Inv, CachingSound
  <2> QED
    BY <1>1, <2>1
<1>4. CacheSound'
  BY <1>1 DEF Inv, CacheSound
<1> QED
  BY <1>1, <1>2, <1>3, <1>4 DEF Inv

\* A step that keeps the marks leaves the reader's list sound.
LEMMA ReaderKept ==
  ASSUME ReaderSound, listed \subseteq Messages, Monotone, UNCHANGED <<listed, entry>>
  PROVE  ReaderSound'
  BY DEF ReaderSound, Monotone

\* Dispatching keeps the list sound, and no row is marked without its delivery.
LEMMA FreshDispatch ==
  ASSUME ToolsInv, clears = 0, Inv, ReaderSound, foreign = {}, Dispatching, TypeOK'
  PROVE  Inv' /\ ReaderSound' /\ foreign' = {}
<1>1. Remember /\ UNCHANGED <<listed, entry>>
  BY DEF Dispatching, reader
<1>2. Monotone
  BY WorkMonotone, StoresMonotone DEF Dispatching, Inv
<1>3. Inv'
  BY InvStep DEF Dispatching, Next
<1>4. ASSUME NEW v \in Workers, pc[v] = "mark"
      PROVE  bornIn[v] = clears /\ delivery[v] \in 1..accepted[Current(v)]
  BY <1>4 DEF ToolsInv, SentTypeOK, Inv, Carried
<1>5. foreign' = {}
  BY <1>1, <1>4 DEF Remember
<1> QED
  BY <1>1, <1>2, <1>3, <1>5, ReaderKept DEF ToolsInv, SentTypeOK

\* So do the reader's own steps and the tools that add rows.
LEMMA FreshOther ==
  ASSUME ToolsInv, Inv, ReaderSound, foreign = {}, SentNext, ~Dispatching, ~Clear
  PROVE  Inv' /\ ReaderSound' /\ foreign' = {}
<1>1. foreign' = foreign
  BY MigrateTypes DEF SentNext, List, Get, GetFails, AddSingleMessage, history, Inv
<1>2. Inv'
  BY DispatchOrTool, InvStep, MigrateInv
<1>3. ReaderSound'
  <2>1. CASE List
    BY <2>1 DEF List, RowsSent, NoEntries, ReaderSound, vars, stores
  <2>2. CASE GetFails
    BY <2>2 DEF GetFails, NoEntries, ReaderSound, vars, stores, ToolsInv, SentTypeOK
  <2>3. ASSUME NEW m \in Messages, Get(m) PROVE ReaderSound'
    <3>1. cache[m] \in {0, marked[m]}
      BY DEF Inv, CacheSound
    <3>2. /\ entry' = [entry EXCEPT ![m] = cache[m]]
          /\ UNCHANGED <<rows, marked, listed>>
      BY <2>3 DEF Get, EntryOf, vars, stores
    <3> QED
      BY <3>1, <3>2 DEF ReaderSound, ToolsInv, SentTypeOK
  <2>4. CASE Migrate \/ \E m \in Messages: AddSingleMessage(m)
    <3>1. Monotone
      <4>1. CASE Migrate
        <5>1. \A m \in Messages: accepted'[m] >= accepted[m]
          BY <4>1, MigrateTypes DEF provider, Inv, TypeOK
        <5> QED
          BY <4>1, <5>1, MigrateTypes DEF Monotone, Inv
      <4>2. CASE \E m \in Messages: AddSingleMessage(m)
        BY <4>2, StoresMonotone DEF AddSingleMessage, Inv
      <4> QED
        BY <2>4, <4>1, <4>2
    <3>2. UNCHANGED <<listed, entry>> /\ listed \subseteq Messages
      BY <2>4, MigrateTypes DEF AddSingleMessage, reader, ToolsInv, SentTypeOK, Inv
    <3> QED
      BY <3>1, <3>2, ReaderKept
  <2> QED
    BY <2>1, <2>2, <2>3, <2>4 DEF SentNext
<1> QED
  BY <1>1, <1>2, <1>3

\* Every step keeps the invariant, while the table is not cleared.
LEMMA FreshStep == ToolsInv /\ FreshInv /\ [SentNext]_sentVars => FreshInv'
<1> SUFFICES ASSUME ToolsInv, FreshInv, [SentNext]_sentVars, clears' = 0
             PROVE  Inv' /\ ReaderSound' /\ foreign' = {}
  BY DEF FreshInv
<1>1. CASE SentNext
  <2>1. clears = 0 /\ ~Clear
    <3>1. clears \in Nat
      BY SentAssumption DEF ToolsInv, SentTypeOK
    <3>2. ~Clear
      BY <3>1 DEF Clear
    <3>3. UNCHANGED clears
      BY <1>1, <3>2, MigrateTypes
         DEF SentNext, Dispatching, List, Get, GetFails, AddSingleMessage, ToolsInv
    <3> QED
      BY <3>2, <3>3
  <2>2. TypeOK'
    BY <1>1, StoresTypes DEF ToolsInv
  <2> QED
    BY <1>1, <2>1, <2>2, FreshDispatch, FreshOther DEF FreshInv
<1>2. CASE UNCHANGED sentVars
  <2>1. Inv'
    BY <1>2, InvStep DEF FreshInv, sentVars, vars
  <2> QED
    BY <1>2, <2>1 DEF sentVars, vars, stores, reader, history, FreshInv, ReaderSound
<1> QED
  BY <1>1, <1>2

(***************************************************************************)
(* Unless the table was cleared, a response lists delivered messages only, *)
(* each with the delivery of its mark or with none.                        *)
(***************************************************************************)
THEOREM ResponsesSound == SentSpec => []ResponseSound
<1>1. SentInit => FreshInv
  BY InvInit DEF SentInit, FreshInv, ReaderSound
<1>2. ToolsInv /\ FreshInv => ResponseSound
  <2> SUFFICES ASSUME FreshInv, clears = 0, NEW m \in listed, ToolsInv
               PROVE  /\ marked[m] \in 1..accepted[m] /\ m \notin foreign
                      /\ entry[m] \in {0, marked[m]}
    BY DEF ResponseSound, Shown, Response
  <2> QED
    BY DEF FreshInv, ReaderSound, Inv, MarkedSound, ToolsInv, SentTypeOK
<1> QED
  BY <1>1, <1>2, FreshStep, ToolsInvariance, PTL DEF SentSpec

----------------------------------------------------------------------------
(* How long the entry of a former message lasts.                           *)

\* If no batch met a clearing, a worker about to cache has marked the row.
StaleInv == /\ atRisk = {} => CachingSound
            /\ StaleOnlyInPassing

\* No other worker loses its place by a worker's step.
LEMMA OthersCache ==
  ASSUME NEW w \in Workers, Others(w), NEW v \in Workers, v # w, pc[v] = "cache"
  PROVE  pc'[v] = "cache" /\ Current(v)' = Current(v)
  BY DEF Others, Current

\* A worker marks the row it is about to cache, and writes what it marked.
LEMMA StaleWork ==
  ASSUME TypeOK, TypeOK', CachingSound, StaleOnlyInPassing, UNCHANGED atRisk, atRisk = {},
         NEW w \in Workers, Work(w) \/ Crash(w)
  PROVE  CachingSound' /\ StaleOnlyInPassing'
<1>1. Others(w) /\ Monotone
  BY WorkFrame, WorkMonotone
<1>2. CASE Mark(w)
  <2>1. /\ pc[w] = "mark" /\ pc'[w] = "cache" /\ Current(w)' = Current(w)
        /\ delivery' = delivery /\ cache' = cache /\ faults' = faults
        /\ rows' = [rows EXCEPT ![Current(w)] = "sent"]
        /\ marked' = [marked EXCEPT ![Current(w)] = delivery[w]]
    BY <1>2 DEF Mark, Go, UpdateRow, Current, TypeOK
  <2>2. Current(w) \in Messages
    BY <2>1, First
  <2>3. rows'[Current(w)] = "sent" /\ marked'[Current(w)] = delivery[w]
    BY <2>1, <2>2 DEF TypeOK
  <2>4. CachingSound'
    BY <1>1, <2>1, <2>3, CachingKept
  <2>5. ASSUME faults' = 0, NEW m \in Messages, rows'[m] = "sent", cache'[m] \notin {0, marked'[m]}
        PROVE  \E v \in Workers: pc'[v] = "cache" /\ Current(v)' = m
    <3>1. CASE m = Current(w)
      BY <2>1, <3>1
    <3>2. CASE m # Current(w)
      <4>1. rows[m] = "sent" /\ marked'[m] = marked[m]
        BY <2>1, <2>5, <3>2 DEF TypeOK
      <4>2. PICK v \in Workers: pc[v] = "cache" /\ Current(v) = m
        BY <2>1, <2>5, <4>1 DEF StaleOnlyInPassing, RowsSent
      <4> QED
        BY <1>1, <2>1, <4>2, OthersCache
    <3> QED
      BY <3>1, <3>2
  <2> QED
    BY <2>4, <2>5 DEF StaleOnlyInPassing, RowsSent
<1>3. CASE Cache(w)
  <2>1. /\ pc[w] = "cache" /\ NextMessage(w)
        /\ cache' = [cache EXCEPT ![Current(w)] = delivery[w]]
        /\ UNCHANGED <<rows, marked, faults>>
    BY <1>3 DEF Cache
  <2>2. pc'[w] # "cache" /\ Current(w) \in Messages
    BY <2>1, NextMessageFrame, First DEF Informed
  <2>3. CachingSound'
    BY <1>1, <2>2, CachingKept
  <2>4. ASSUME faults' = 0, NEW m \in Messages, rows'[m] = "sent", cache'[m] \notin {0, marked'[m]}
        PROVE  \E v \in Workers: pc'[v] = "cache" /\ Current(v)' = m
    <3>1. m # Current(w)
      <4>1. CASE m = Current(w)
        <5>1. cache'[m] = delivery[w]
          BY <2>1, <2>2, <4>1 DEF TypeOK
        <5>2. marked'[m] = delivery[w]
          BY <2>1, <4>1 DEF CachingSound
        <5> QED
          BY <2>4, <5>1, <5>2
      <4> QED
        BY <4>1
    <3>2. cache'[m] = cache[m]
      BY <2>1, <3>1 DEF TypeOK
    <3>3. PICK v \in Workers: pc[v] = "cache" /\ Current(v) = m
      BY <2>1, <2>4, <3>2 DEF StaleOnlyInPassing, RowsSent
    <3> QED
      BY <1>1, <3>1, <3>3, OthersCache
  <2> QED
    BY <2>3, <2>4 DEF StaleOnlyInPassing, RowsSent
<1>4. CASE MarkFails(w) \/ CacheFails(w) \/ Crash(w)
  <2>1. faults' # 0 /\ pc'[w] # "cache"
    <3>1. Fault
      BY <1>4 DEF MarkFails, CacheFails, Crash
    <3>2. faults' # 0
      BY <3>1 DEF Fault, TypeOK
    <3>3. CASE Crash(w)
      BY <3>2, <3>3 DEF Crash, TypeOK
    <3>4. CASE NextMessage(w)
      BY <3>2, <3>4, NextMessageFrame DEF Informed
    <3> QED
      BY <1>4, <3>3, <3>4 DEF MarkFails, CacheFails
  <2> QED
    BY <1>1, <2>1, CachingKept DEF StaleOnlyInPassing
<1>5. CASE /\ pc[w] # "cache" /\ pc'[w] # "cache"
           /\ UNCHANGED <<rows, marked, cache>>
           /\ faults' = faults \/ faults' # 0
  <2>1. CachingSound'
    BY <1>1, <1>5, CachingKept
  <2>2. ASSUME faults' = 0, NEW m \in Messages, rows'[m] = "sent", cache'[m] \notin {0, marked'[m]}
        PROVE  \E v \in Workers: pc'[v] = "cache" /\ Current(v)' = m
    <3>1. PICK v \in Workers: pc[v] = "cache" /\ Current(v) = m
      BY <1>5, <2>2 DEF StaleOnlyInPassing, RowsSent
    <3> QED
      BY <1>1, <1>5, <3>1, OthersCache
  <2> QED
    BY <2>1, <2>2 DEF StaleOnlyInPassing, RowsSent
<1>6. CASE \/ BeginBatch(w) \/ Fetched(w) \/ FetchFails(w) \/ Send(w) \/ Accept(w) \/ Answer(w)
  <2>1. /\ pc[w] # "cache" /\ pc'[w] # "cache"
        /\ UNCHANGED <<rows, marked, cache>>
        /\ faults' = faults \/ faults' # 0
    BY <1>6 DEF BeginBatch, Fetched, FetchFails, Send, Accept, Answer, Go, Fault, stores, TypeOK
  <2> QED
    BY <1>5, <2>1
<1>7. CASE \/ AnswerLost(w) \/ Reject(w) \/ Timeout(w) \/ MarkNone(w)
  <2>1. /\ pc[w] # "cache" /\ NextMessage(w)
        /\ UNCHANGED <<rows, marked, cache>>
        /\ faults' = faults \/ faults' # 0
    BY <1>7 DEF AnswerLost, Reject, Timeout, MarkNone, Fault, stores, TypeOK
  <2>2. pc'[w] # "cache"
    BY <2>1, NextMessageFrame DEF Informed
  <2> QED
    BY <1>5, <2>1, <2>2
<1> QED
  BY <1>2, <1>3, <1>4, <1>6, <1>7 DEF Work

\* A step that leaves the workers alone, and no sent row or entry changed
\* except by an entry that expires.
LEMMA StaleStores ==
  ASSUME TypeOK, CachingSound, StaleOnlyInPassing, atRisk = {}, UNCHANGED <<workers, faults, marked>>,
         \A m \in Messages: rows'[m] = "sent" <=> rows[m] = "sent",
         \A m \in Messages: cache'[m] \in {0, cache[m]}
  PROVE  CachingSound' /\ StaleOnlyInPassing'
<1>1. \A w \in Workers: pc'[w] = pc[w] /\ Current(w)' = Current(w) /\ delivery'[w] = delivery[w]
  BY DEF workers, Current
<1>2. CachingSound'
  <2> SUFFICES ASSUME NEW w \in Workers, pc[w] = "cache"
               PROVE  rows'[Current(w)] = "sent" /\ marked[Current(w)] = delivery[w]
    BY <1>1 DEF CachingSound
  <2>1. Current(w) \in Messages
    BY First
  <2> QED
    BY <2>1 DEF CachingSound
<1>3. ASSUME faults = 0, NEW m \in Messages, rows'[m] = "sent", cache'[m] \notin {0, marked[m]}
      PROVE  \E v \in Workers: pc'[v] = "cache" /\ Current(v)' = m
  <2>1. rows[m] = "sent" /\ cache[m] \notin {0, marked[m]}
    BY <1>3
  <2>2. PICK v \in Workers: pc[v] = "cache" /\ Current(v) = m
    BY <1>3, <2>1 DEF StaleOnlyInPassing, RowsSent
  <2> QED
    BY <1>1, <2>2
<1> QED
  BY <1>2, <1>3 DEF StaleOnlyInPassing, RowsSent

\* After a clearing there is no sent row, and no worker to cache if none was
\* in a batch.
LEMMA StaleClear ==
  ASSUME TypeOK, Clear, atRisk' = {}
  PROVE  CachingSound' /\ StaleOnlyInPassing'
<1>1. \A m \in Messages: rows'[m] = "absent"
  BY ClearTypes
<1>2. InHand = {} /\ UNCHANGED workers
  BY DEF Clear
<1>3. ASSUME NEW w \in Workers, pc'[w] = "cache" PROVE FALSE
  <2>1. pc[w] = "cache"
    BY <1>2, <1>3 DEF workers
  <2>2. batch[w][1] \in Range(batch[w])
    BY <2>1, First DEF Range
  <2> QED
    BY <1>2, <2>2 DEF InHand
<1> QED
  BY <1>1, <1>3 DEF CachingSound, StaleOnlyInPassing, RowsSent

\* Every step keeps the invariant.
LEMMA StaleStep == ToolsInv /\ StaleInv /\ [SentNext]_sentVars => StaleInv'
<1> SUFFICES ASSUME ToolsInv, StaleInv, [SentNext]_sentVars, atRisk' = {}
             PROVE  CachingSound' /\ StaleOnlyInPassing'
  BY DEF StaleInv, StaleOnlyInPassing
<1>1. TypeOK
  BY DEF ToolsInv
<1>2. CASE Clear
  BY <1>1, <1>2, StaleClear
<1>3. CASE SentNext /\ ~Clear
  <2>1. atRisk = {} /\ CachingSound /\ StaleOnlyInPassing
    BY <1>1, <1>3, MigrateTypes
       DEF SentNext, Dispatching, List, Get, GetFails, AddSingleMessage, StaleInv
  <2>2. TypeOK'
    BY <1>1, <1>3, StoresTypes
  <2>3. ASSUME NEW w \in Workers, Work(w) \/ Crash(w)
        PROVE  CachingSound' /\ StaleOnlyInPassing'
    BY <1>1, <2>1, <2>2, <2>3, StaleWork
  <2>4. ASSUME NEW m \in Messages, LateAccept(m) \/ LateDrop(m) \/ CacheExpires(m) \/ Insert(m)
        PROVE  CachingSound' /\ StaleOnlyInPassing'
    <3>1. /\ UNCHANGED <<workers, faults, marked>>
          /\ \A n \in Messages: rows'[n] = "sent" <=> rows[n] = "sent"
          /\ \A n \in Messages: cache'[n] \in {0, cache[n]}
      BY <1>1, <2>4 DEF LateAccept, LateDrop, LateRequest, CacheExpires, Insert, stores, TypeOK
    <3> QED
      BY <1>1, <2>1, <3>1, StaleStores
  <2>5. CASE Migrate \/ UNCHANGED vars
    <3>1. /\ UNCHANGED <<workers, faults, marked>>
          /\ \A n \in Messages: rows'[n] = "sent" <=> rows[n] = "sent"
          /\ \A n \in Messages: cache'[n] \in {0, cache[n]}
      BY <1>1, <2>5, MigrateTypes DEF vars, stores
    <3> QED
      BY <1>1, <2>1, <3>1, StaleStores
  <2> QED
    BY <1>3, <2>3, <2>4, <2>5, DispatchOrTool DEF Next
<1>4. CASE UNCHANGED sentVars
  <2>1. /\ UNCHANGED <<workers, faults, marked, rows, cache, atRisk>>
    BY <1>4 DEF sentVars, vars, stores
  <2>2. atRisk = {} /\ CachingSound /\ StaleOnlyInPassing
    BY <2>1 DEF StaleInv
  <2> QED
    BY <1>1, <2>1, <2>2, StaleStores
<1> QED
  BY <1>2, <1>3, <1>4

(***************************************************************************)
(* If no batch met a clearing and nothing failed, the cache names a wrong  *)
(* delivery of a sent row only while the worker that marked it is about to *)
(* write the right one.                                                    *)
(***************************************************************************)
THEOREM StaleIsPassing == SentSpec => []StaleOnlyInPassing
<1>1. SentInit => StaleInv
  BY InvInit DEF SentInit, Init, StaleInv, StaleOnlyInPassing, Inv, RowsSent
<1>2. StaleInv => StaleOnlyInPassing
  BY DEF StaleInv
<1> QED
  BY <1>1, <1>2, StaleStep, ToolsInvariance, PTL DEF SentSpec
=============================================================================
