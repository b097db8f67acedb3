----------------------------- MODULE InputProofs -----------------------------
(***************************************************************************)
(* Proofs about what the program makes of its input: the texts of the      *)
(* messages (Validation) and the settings (Configuration).                 *)
(***************************************************************************)
EXTENDS Validation, Configuration, TLAPS

----------------------------------------------------------------------------
(* Messages                                                                *)

\* The three checks of models.go agree: nothing passes one entrance and is
\* stopped at another.
THEOREM ValidatorsAgree ==
    ASSUME NEW m \in Message
    PROVE  IsValid(m) <=> ValidatePhoneNumber(m) /\ ValidateContent(m, 160)
  BY DEF Message, Text, IsValid, ValidatePhoneNumber, ValidateContent

\* README.md:168: a message that passed IsValid, with an ASCII phone number, is
\* accepted by CreateMessage, fits the table, is selected for sending and is
\* complete for the provider, although one side counts bytes and the other
\* characters.
THEOREM ValidIsSent ==
    ASSUME NEW m \in Message, IsValid(m), Ascii(m.phone)
    PROVE  CreateAccepts(m) /\ Storable(m) /\ Selected(m) /\ ProviderBinds(m)
  BY DEF Message, Text, IsValid, Ascii, CreateAccepts, Storable, Selected, ProviderBinds

\* A row that CreateMessage inserted waits for ever exactly if its phone number
\* is too short: of all that the query demands, this alone is not checked when
\* the row is made.  These rows are the set Malformed of Dispatch.
THEOREM CreatedIsSelected ==
    ASSUME NEW m \in Message, CreateAccepts(m), Storable(m)
    PROVE  Selected(m) <=> m.phone.chars >= 10
  BY DEF Message, Text, CreateAccepts, Storable, Selected

\* What is selected is complete for the provider: no row is fetched that the
\* provider must answer with 400 for ever.
THEOREM SelectedIsComplete ==
    ASSUME NEW m \in Message, Selected(m)
    PROVE  ProviderBinds(m)
  BY DEF Message, Text, Selected, ProviderBinds

\* Without the ASCII condition ValidIsSent is false: ten bytes can be five
\* characters.
THEOREM ValidMayWait == \E m \in Message: IsValid(m) /\ Storable(m) /\ ~Selected(m)
<1> DEFINE m == [phone |-> [bytes |-> 10, chars |-> 5], content |-> [bytes |-> 1, chars |-> 1]]
<1>1. m \in Message
  BY DEF Message, Text
<1>2. IsValid(m) /\ Storable(m) /\ ~Selected(m)
  BY DEF IsValid, Storable, Selected
<1> QED
  BY <1>1, <1>2

----------------------------------------------------------------------------
(* Settings                                                                *)

\* The only settings that Load rejects are three numbers that are not positive:
\* an empty name falls back to its default before validate sees it.
THEOREM OnlyNumbersRejected ==
    ASSUME NEW env \in Environment
    PROVE  Loads(env) <=> /\ getEnv(env.BATCH_SIZE, 2) > 0
                          /\ getEnv(env.PROCESSING_INTERVAL, Seconds(120)) > 0
                          /\ getEnv(env.MAX_CONTENT_LENGTH, 160) > 0
<1>1. \A s \in Setting({"text"}): getEnv(s, "text") # ""
  BY DEF Setting, getEnv
<1>2. env.DB_NAME \in Setting({"text"}) /\ env.DB_USER \in Setting({"text"})
      /\ env.SMS_API_URL \in Setting({"text"})
  BY DEF Environment
<1> QED
  BY <1>1, <1>2 DEF Loads, validate, Settings

\* Whatever the other settings, the default expiry covers acquisition and
\* batch: the instances exclude each other (MutualExclusion).
THEOREM DefaultTTLCovers ==
    ASSUME NEW env \in Environment, ~env.DISTRIBUTED_LOCK_TTL.usable
    PROVE  CoversBatch(Settings(env))
  BY DEF CoversBatch, Settings, getEnv, Seconds, lockTimeout, batchTimeout

\* The documented rule is enough if the interval is at least as long as the
\* acquisition may take, 5 seconds; the code does not ask for the rule.
THEOREM RuleCovers ==
    ASSUME NEW env \in Environment, DocumentedRule(Settings(env)),
           Settings(env).ProcessingInterval >= lockTimeout
    PROVE  CoversBatch(Settings(env))
<1>1. getEnv(env.DISTRIBUTED_LOCK_TTL, Seconds(180)) \in Int
      /\ getEnv(env.PROCESSING_INTERVAL, Seconds(120)) \in Int
  BY DEF Environment, Setting, getEnv, Seconds
<1> QED
  BY <1>1 DEF DocumentedRule, CoversBatch, Settings, Seconds, lockTimeout, batchTimeout

\* Load accepts an expiry with which instances overlap, and one with which no
\* batch ever runs.
THEOREM UncheckedTTL ==
    /\ \E env \in Environment: Loads(env) /\ ~CoversBatch(Settings(env))
    /\ \E env \in Environment: Loads(env) /\ LockNeverGranted(Settings(env))
<1> DEFINE text == [usable |-> FALSE, value |-> "text"]
           with(ttl) == [DB_NAME |-> text, DB_USER |-> text, SMS_API_URL |-> text,
                BATCH_SIZE |-> Unset, MAX_CONTENT_LENGTH |-> Unset,
                PROCESSING_INTERVAL |-> Unset, SHUTDOWN_TIMEOUT |-> Unset,
                DISTRIBUTED_LOCK_ENABLED |-> [usable |-> TRUE, value |-> TRUE],
                DISTRIBUTED_LOCK_TTL |-> [usable |-> TRUE, value |-> ttl]]
<1>1. \A ttl \in Int: with(ttl) \in Environment
  BY DEF Environment, Setting, Unset
<1>2. \A ttl \in Int: Loads(with(ttl))
  BY DEF Loads, validate, Settings, getEnv, Unset, Seconds
<1>3. ~CoversBatch(Settings(with(1)))
  BY DEF CoversBatch, Settings, getEnv, lockTimeout, batchTimeout, Seconds
<1>4. LockNeverGranted(Settings(with(-1)))
  BY DEF LockNeverGranted, Settings, getEnv
<1> QED
  BY <1>1, <1>2, <1>3, <1>4
=============================================================================
