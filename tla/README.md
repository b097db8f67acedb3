# Verification of the message dispatcher

A TLA+ model of the server in this repository: the Redis lock, the scheduler,
the dispatch of messages through PostgreSQL, the SMS provider and the delivery
cache, and the control of all that by HTTP requests and signals. TLC checks it
on small instances; TLAPS proves the main properties for every instance.

## 1. The system

| Part | State | Operations | Code |
|---|---|---|---|
| Distributed lock | Redis key with expiry; the object's value and `acquired` flag | Acquire, Release, Extend, IsHeld | `internal/lock/distributed_lock.go` |
| Scheduler loop | position of the goroutine, two tickers | processMessages, processBatch | `internal/scheduler/scheduler.go:109-192` |
| Scheduler control | `running`, `ctx`/`cancel`, the WaitGroup | Start, Stop, IsRunning | `scheduler.go:50-107` |
| Message dispatch | the batch in memory | ProcessMessages, processSingleMessage | `internal/service/message_service.go:104-162` |
| SMS client | none (6 s timeout) | SendMessage | `message_service.go:23-81` |
| Repository | rows of `messages` | GetUnsentMessages, MarkAsSent, CreateMessage, GetSentMessages | `internal/repository/postgres.go` |
| Delivery cache | `delivery:<id>` keys, 24 h | SetDeliveryCache, Get..., GetMultiple... | `internal/repository/redis.go` |
| Read path | none | GetSentMessagesWithCache | `message_service.go:164-199` |
| HTTP handlers | none | start, stop, sent, health, version | `internal/handler/message_handler.go` |
| Process | clients, server | NewApplication with initDatabase and initRedis, waitForShutdown | `cmd/server/main.go` |
| Configuration, validation | none | Load, validate, IsValid... | `internal/config`, `internal/domain` |
| Tools | none | add, clear, migrate, mock API | `cmd/*` |

A process has one goroutine per Start (normally one). Every interval it calls
`processBatch`: Acquire the lock if locking is enabled, ProcessMessages, Release.
ProcessMessages selects up to two unsent rows, and for each calls the provider,
marks the row and caches the answer. Handlers and `waitForShutdown` call Start
and Stop from other goroutines. Processes meet only in Redis (the lock, the
cache) and in PostgreSQL (the rows); each remote call can fail before or after
it has taken effect, and a process can die between any two.

What makes each part correct, and what is hard about it:

* **Lock**: at most one instance processes; nobody touches another's key; the
  key of a dead holder goes away. Hard: lost replies, a flag that disagrees
  with Redis, an expiry shorter than the work, a batch during which nothing
  extends the lock.
* **Dispatch**: nothing is marked that was not accepted; duplicates only where
  something failed; order; the cache agrees with the row. Hard: the calls are
  not atomic, the provider may accept what the caller has given up, batches
  overlap when locking is off.
* **Read path and tools**: a response lists what was really delivered. Hard: rows
  and cache are read one after the other; clear-messages uses ids again while
  batches and cache entries with the old ones are about.
* **Control**: Stop stops everything that runs, IsRunning is right, shutdown
  waits for the batch. Hard: handlers check and act in separate steps, Stop
  unlocks before it waits, the goroutine reads a context field that Start
  replaces.
* **Process**: it gives up on its stores no earlier and no later than it says, ends
  when it is told to, and then finishes its batch and leaves no lock. Hard: the
  scheduler runs before the port is bound, and both before signals are caught; the
  deadline of the shutdown starts before Stop.
* **Validation, configuration**: what passes one check passes the next. Hard: one
  counts bytes, the other characters; no check looks at the lock's expiry.

`PROJECT.json` lists each hazard at its line with the properties about it.

## 2. The modules

| Module | Models |
|---|---|
| `RedisLock` | the key, its expiry, and the lock object's flag: one operator per Redis command and per way the client takes the reply |
| `LockedScheduler` | extends it: several processes with one scheduler loop each, in discrete time |
| `BatchMutex` | what the lock promises: at most one instance active |
| `Dispatch` | ProcessMessages by several workers over rows, provider and cache |
| `Outbox` | what dispatching promises per message |
| `System` | extends `LockedScheduler` and takes `Dispatch` as what a batch does |
| `SentMessages` | extends `Dispatch`: the request for sent messages, and the tools that clear, migrate and add |
| `SchedulerControl` | Start, Stop, handlers and shutdown of one process |
| `Process` | extends it: start-up with its retries, the port, and signals from the first line of main on |
| `Validation`, `Configuration` | pure functions: the checks of a message at every entrance, the settings and what the lock makes of them |
| `MC...` | the values of the constants for TLC |
| `...Proofs` | the theorems about the component of that name; `SerialDispatchProofs` those about `Dispatch` under the lock, `InputProofs` those about `Validation` and `Configuration` |

How they fit together: `Dispatch` with `Exclusive = TRUE` assumes that a batch
begins only when no other is running; with `FALSE` it does not, which is
`DISTRIBUTED_LOCK_ENABLED=false` with several instances. `System` puts
`Dispatch` without the assumption into the loops of `LockedScheduler`, where
only the lock keeps batches apart, and SystemDispatches says that it then is
`Dispatch` with the assumption. So what is checked and proved of `Dispatch`
under `Exclusive` is about the instances. `LockedScheduler` itself knows a
batch as a length of time only. `SchedulerControl` takes one process and lets
its threads overlap; the lock there is free, its own or another's. The times of
`LockedScheduler` in TLC are computed from `Configuration`'s defaults, and the
rows `Malformed` of `Dispatch` are those that `Validation` shows to be
insertable and never selected; `MCLockedScheduler` and `MCDispatch` assert both.

### RedisLock and LockedScheduler

`holder` is the instance whose random value the key has: a lock object keeps its
value for its life (line 39), so the instance names it, and a dead process's key
is `Gone`. `ttl` counts units down; 0 is no expiry. `acquired[i]` is the flag.
`pc` follows the goroutine: `acquire`, `granted` (SETNX has set the key and the
reply is under way), `batch`, `release`, `select`, then `drain` and `stopped` in
Stop, `down` without a process. `tickReady` and `extReady` are the one-place
channels of the two tickers, `phase` the time since the batch ticker fired.
Each Redis call has three results: reply, error with no effect, error after the
effect (`...Returns`, `...Fails`/`...Errs`, `AcquireReplyLost`).

`Tick` is urgent in two places only. It waits for a SETNX reply after
`AcquireTimeout` (the 5 s of `lockCtx`) and for a batch after `ProcessingTimeout`
(the context of 30 s). These are the times `processBatch` asks for. The clients may
take longer: go-redis ignores a context's deadline in favour of its own socket
timeouts, since `ContextTimeoutEnabled` is not set (main.go:251), and lib/pq may
block past one. So the theorems are stated for any AcquireTimeout and
ProcessingTimeout, and the default expiry of 180 s leaves them more than two
minutes beyond the 35 s. Everything else, Release included (its context has no
deadline), may take any time. go-redis retries a command by itself; a retried SETNX that finds its own
key is AcquireRefused after AcquireSets, which is what AcquireReplyLost does.
A command that Redis executes only after its caller has given up is not
modelled. Stop's `lockExtendTicker.Stop()` is merged with its cancel; with
Go 1.23 or later it also discards a waiting tick.

### Dispatch

A message is the position of its row in `(created_at, id)`. `rows` says absent,
unsent or sent, `accepted[m]` counts the deliveries, and the n-th has number n,
for the MessageID the provider returns. A worker's `pc` stands before each of
its calls; `fetching` holds the row locks of the SELECT, which end with it
because it runs outside a transaction. `late[m]` are requests whose caller timed
out or died; the provider may accept or never see them. `marked` and `ahead` are
history: the delivery a row was marked for, and the rows before m that were
there when m appeared. A failure of any call, and the death of a process, count
as one of `MaxFaults`. The deadline of the batch's context shows as failing
calls. An UPDATE under way when the process dies is MarkFails (applied) and then
Crash, so two faults.

### SchedulerControl

Context n and goroutine n belong to the n-th Start that started anything.
`current` is what `s.ctx` refers to, `watch[n]` the context whose Done channel
goroutine n evaluated when it last entered its select: the field is read anew
each time round (line 126). `call[c]` follows each request and main through the
handler's test of IsRunning, Start, the part of Stop under `runningMux`, and the
part after it, `waiting` and `woken` being inside `wg.Wait`. If wg.Add comes
between wake-up and return, Wait panics, which the router recovers in a handler
and nothing recovers in main. WaitGroup.Done, with the wake-up, is one step; an
Add in the middle of it is not modelled. The lock has no failures or expiry
here and there is no extension ticker. Main ends in one of two ways: `closed`, when
httpServer.Shutdown has seen every handler finish, or `abandoned`, when its
deadline came first and clients are closed under a handler; that it may come at
once is because its context is made before Stop (main.go:351), whose time it
includes.

### System

Begin joins Acquire's return with the query, InBatch is a step of
ProcessMessages, End is possible once it has returned, and Killed is the death
of a process in both at once. The two modules share no variable: `place` is
`Dispatch!pc`. A call that fails in the batch counts in `losses`, one of the
lock in `faults`; MaxFailures bounds both together.

### SentMessages

List takes the rows, Get executes one GET of the pipeline, and batches, expiry
and tools come in between; Shown is what the handler has answered. One request
is followed at a time, as requests change nothing. Clear is `TRUNCATE ...
RESTART IDENTITY`, which waits for statements and nothing else: batches in memory
and the cache stay, and a row inserted later has an id that was in use. `bornIn`,
`foreign` and `atRisk` are history: the clearing a batch belongs to, the rows
marked for no delivery of their own, the messages in hand at a clearing.

### Process

`stage` follows NewApplication and main. Startup covers sql.Open and the five pings
of each store, refused at once or after `PingTime` (the 5 s of their context, which
the client may not honour exactly) with the pause between; Launch is the first
Start. GoListen spawns the server's goroutine, which binds the port (Bound) or not
(BindFails, logger.Fatal) in its own time, and Notify is signal.Notify, at which
main arrives in its own: in stage `spawned` the process may listen, handle
requests and be in its first batch while a signal still has its default effect,
KilledEarly. After Notify a signal is `Signal` of `SchedulerControl`. Start and stop
requests are accepted from Bound until Shutdown.

### Validation and Configuration

A text is its numbers of bytes and of characters, since the code counts the
former and the query and the columns the latter. A setting is usable, with its
value, or falls back to its default without a word. Hosts, ports and passwords
are left out.

## 3. What TLC checks

| Run (`cfg`) | Bounds | Shows |
|---|---|---|
| `lock_safety` (`LockSafety`) | 2 instances, default times in units of 30 s (TTL 6, interval 4, batch 1), 2 failed calls of any kind, 1 crash; 814 k states | the key outlives the batch; the flag outlives it only after a failure; no step of one instance touches the key of another; a key nobody believes in expires in time; batches implement `BatchMutex` |
| `system` (`System`) | 2 instances, 1 row, the shortest times that meet LongTTL, 1 crash, 1 failure of any kind (Acquire, Release, Extend or a call of the batch); 400 k states | batches are serialised as `Dispatch` assumes; a message is delivered if some instance stays up and no flag stays set for ever |
| `lock_stuck` (`LockStuck`) | one failed Release | **violated**: Failover |
| `system_short_ttl` (`SystemShortTTL`) | TTL 2, batch 3 (units of 10 s), no failures | **violated**: NoDuplicateInSystem |
| `dispatch_exclusive` (`DispatchExclusive`) | 2 workers, 4 rows, row 1 always rejected, row 2 malformed, 2 faults | every extra copy is paid for by a fault; nothing is sent after it was marked; FIFO without faults; every other message is sent in the end |
| `dispatch_concurrent` (`DispatchConcurrent`) | 2 workers (symmetric), 3 rows, 1 fault, no lock | no loss; the cache agrees with the mark; refinement of `Outbox` |
| `dispatch_moves_on` (`DispatchMovesOn`) | 2 workers, 3 rows, 1 fault, under the lock | **violated**: BatchUntilSuccess |
| `sent_messages` (`SentMessages`) | 2 workers (symmetric), no lock, 2 rows, 1 clearing, no faults; 4.1 M states | what a response shows is sound while the table is not cleared; a clearing costs at most the messages in hand; an old entry lasts only until the new one is written |
| `process` (`Process`) | from the first line of main; 2 requests to start or stop, 3 starts, another process, pings of 5 s, signals at any time; 153 k states | stores are awaited for 30 s; Stop reaches every goroutine; IsRunning is right; nobody waits for goroutines that have ended; a stopped scheduler comes to rest; Stop returns; the lock does not outlive the goroutines; clients are closed after the last batch; the shutdown ends |
| `early_signal` (`EarlySignal`) | no requests | **violated**: SignalFinishesBatch |
| `control_exit_overlap` (`ControlExitOverlap`) | start and stop requests | **violated**: BatchFinishedAtExit |
| `control_release` (`ControlRelease`) | start and stop requests | **violated**: KeyHeldInBatch |

Deadlock is checked except in the runs of `Process` and `SchedulerControl`, where
the process exits.

**Bounds.** Two instances are what every property about pairs needs; a third
one would only be another contender for the same key. In `lock_safety` two
faults and one crash combine: a stale flag, an expired key, another owner, and a
second failure of Extend or of Stop's Release. Four rows against a batch of two
give two full batches, the first with a rejected row; two faults give a late
copy after a retry. Three starts let two goroutines live beside a third. In
`system` both state spaces multiply, so its times are the shortest with which
the expiry, the batch and the interval still differ in the order that matters,
and one row is enough for two instances to meet on it; one failure covers
each single fault together with a crash. `sent_messages` has no faults, as one
would multiply its 4 M states by ten: a clearing, two overlapping batches and an
expiry are what its properties are about. The proofs have no such bounds and
cover any number of failures and clearings there.
`EventuallySent` has one rejected message on purpose: two would fill every
batch for ever (`message_service.go:105`, hazard list). It holds because new
messages are loaded beside a rejected one; QUICK_REFERENCE.md:23-24 says that they
are not, which is `dispatch_moves_on`. For the same reason FIFO exempts the
rejected ones.

**Fairness.** Goroutines that can run do, and calls return with one result or
another: all have deadlines, except that Release and Extend use
`context.Background()` and rely on the client's own socket timeouts. A select takes a case that is ready. In
`LockedScheduler` that is weak fairness per case, as ticks are rare compared
with the loop. In `SchedulerControl`, where ticks may be always ready, the case
of the cancelled context gets strong fairness, since Go picks among ready cases
at random. In `System` time passes, each goroutine's calls
return and a waiting batch tick is taken; the extension and the stop need no
fairness for Delivered. In `Process` main goes on with its start-up; the port
may be bound late or never. Nothing
obliges anybody to start, stop, signal, crash or insert.

Failover, as TIER2_IMPLEMENTATION.md:500 would have it, fails on one failed
Release (`lock_stuck`). Two weaker statements do hold. Delivered is one: under any
failure, provided that no instance's flag stays set for ever, which is what the
failed Release of `lock_stuck` brings about. OrphanExpires is the other: a key
whose process is dead, or whose owner never learnt that he has it, runs out within
the configured time, and nobody prolongs it. The key of `lock_stuck` is no such key,
since its owner's flag says that he holds it.

StopReturns, Quiesces and ShutdownEnds suppose that the scheduler is stopped for
good (`<>[]~running`). Without that the code gives no such promise: main has left
IsRunning behind and waits in wg.Wait, a request that is still served starts the
scheduler again, and main waits for that goroutine as well, for ever if nobody
stops it.

CleanExit is about an exit in which Shutdown saw every handler finish (`closed`). If
its deadline comes first (`abandoned`), a handler may be in Stop and the batch it
waits for under way. That nobody's lock outlives the last goroutine
(IdleHasNoLock) holds either way as long as the process lives.

DuplicatesCharged counts the copies as a set of pairs, message and number, and
so for all messages together: one failure cannot pay for copies of two.

**Seeded faults.** Beside some definitions stands a faulty variant under a
comment "Seeded fault". No specification uses them. Each replaces its
neighbour to confirm that a property notices (`PROJECT.json`, "mutants").

## 4. Disagreements between code and documents

* `lock_stuck`: Release that fails leaves `acquired` set
  (`distributed_lock.go:77-80`); the extension ticker (`scheduler.go:132`) then
  prolongs the key for ever, and the process itself is refused too.
  TIER2_IMPLEMENTATION.md:500 promises expiry.
* `system_short_ttl`, two claims. The lock is never extended during a batch, since
  one goroutine does both; README.md:161 says it is. Harmless as long as the expiry
  exceeds 35 s (theorem LockSerialises); the rule of
  QUICK_START_MULTI_INSTANCE.md:252 implies that. And once two instances are in a
  batch, SKIP LOCKED does not keep them apart, as README.md:169 and
  QUICK_REFERENCE.md:48 expect: the row locks are gone before the first message is
  sent. Only the distributed lock, off by default, does it.
* `dispatch_moves_on`: QUICK_REFERENCE.md:23-24 says that a batch is retried until
  it succeeds and that no new messages are loaded before. Each batch is selected
  anew (`postgres.go:25-34`), so what is left of a failed one comes with new
  messages. EventuallySent depends on it.
* `early_signal`: the scheduler (main.go:155) and the server (main.go:87) are
  started before signal.Notify (main.go:346). A SIGTERM in between kills a
  process that listens in its first batch, and the key stays until it expires;
  README.md:171, QUICK_REFERENCE.md:229.
* `control_exit_overlap`: a start request handled during the shutdown outlives
  main's Stop; README.md:171.
* `control_release`: Stop releases the lock of a goroutine started after it
  finished waiting; README.md:158.

Others that were met and need no run:

* BATCH_SIZE and MAX_CONTENT_LENGTH are read and validated (`config.go:86-121`)
  and then not used: the batch is 2 (`message_service.go:105`), the length 160.
  README.md:446 calls the latter configurable.
* README.md:152 calls the start-up back-off exponential; it is quadratic.
* `add-test-messages` inserts into a column `scheduled_at` that the migration
  does not create, so every INSERT fails.
* README.md:170 and QUICK_REFERENCE.md:154 ("Redis down: Messages still sent, caching
  skipped") treat Redis as optional for sending. With the lock enabled nothing is
  sent while Redis does not answer (`scheduler.go:157`), and without it a process
  that is started while Redis is down gives up after five pings (main.go:282).
* A start request that is handled while main waits in Stop can keep the process
  from ending (section 3, ShutdownEnds).
* A start request between the wake-up of wg.Wait and its return makes it panic
  (`scheduler.go:85`). The router recovers that in a handler, and Stop then does
  not release the lock, which IdleHasNoLock shows to be harmless. In main nothing
  recovers it and the process dies, with the lock if the new goroutine has it.
* The migration's `ON CONFLICT DO NOTHING` meets no conflict: a second run
  inserts the sample messages again, and they are sent.

## 5. What TLAPS proves

For every set of instances, workers, messages and requests, and all values of
times and bounds that satisfy the `ASSUME`s (numbers are natural, a second has a
unit, the names differ, the set of messages is finite), 50 theorems in eight
modules. Every safety invariant and action property of the passing runs is stated
by one of them.

### The lock (`LockedSchedulerProofs`)

TypeCorrect; **KeyOutlives**, **MutualExclusion** and **BatchesRefine** under
`LongTTL` (no expiry, or TTL > AcquireTimeout + ProcessingTimeout);
**ForeignKeys**, **FlagOnlyAfterFault** and **OrphansExpire** without it.

* Mutex is not inductive: two instances in a batch are excluded because each
  would own the one key. The invariant is KeyOutlivesBatch, which says how long
  the key must still live in `granted` and in `batch`; only Tick shortens that,
  and it shortens the time the batch has left as well.
* OrphansExpire rests on `KeyHasExpiry` (a key that is there has time left, never
  more than configured) and on OneKeyStep, the list of all that a step of one
  instance may do to key and flags: what prolongs or takes over a key needs the
  flag of its owner or an absent key, and an orphaned key offers neither. That
  an extension never exceeds the configured expiry is ExtensionIsCut, which says
  what the whole seconds of EXPIRE take away.

### Dispatch (`DispatchProofs`, `SerialDispatchProofs`)

With or without the lock: TypeCorrect, **NothingLost**, **CacheIsSound**,
**OutboxRefined**. NoLoss needs what a worker carries: the delivery it was
answered with is one that was accepted (`Carried`), and a worker about to cache
has itself marked the row for that very delivery (`CachingSound`). Marks never
change, and deliveries are only added (`Monotone`). The refinement also needs
that only queued messages are fetched or on their way (`Known`).

Under `Exclusive`: **NotSentTwice**, **OldestFirstSent**, **CopiesPaid**,
**DuplicatesPaid**, **OnceWithoutFault**.

* One worker is at work (`Alone`); the rows of its batch stay unsent until it
  marks them itself (`Untouched`); what precedes one of them was accepted or
  comes earlier in the batch, unless something failed (`InOrder`).
* Of the copies of a message one is due: for its mark, or for the worker that has
  its answer. Each other one is for a failure (`Paid`). That bounds the
  copies of one message. For the sum, `Debts` is the set of all copies, of all
  messages, that are not due, and `PaidInAll` says it has at most as many members
  as there were failures. It is inductive because a step changes the debts of
  one message only (OnlyCurrent), by at most one, and then fails (WorkCovered).

### The system (`SystemProofs`)

LoopsRefined: the loops of `System` are those of `LockedScheduler`, so what is
proved of these (OrphansExpire and MutualExclusion too) holds of them.
**LockSerialises** (under LongTTL) and **DispatchRefined** (whatever the expiry):
what instances do in their batches is `Dispatch` with, or without, the
assumption that batches are serialised. The coupling invariant: an instance is
in ProcessMessages only while its loop is in `batch`. With KeyOutlives, the
instance whose Acquire returns is then the only one, which is the guard
`Dispatch` assumes.

The theorems about `Dispatch` are then cited for the system, from an instance of
their modules (`Ordered`, `Free`) whose assumptions System's own imply
(DispatchAssumed). Nothing is left to the reader:

* whatever the expiry: **SystemLosesNothing**, **SystemIsOutbox**;
* under LongTTL: **SystemDuplicates** (every further copy is paid for by a failure
  inside a batch; failures of the lock, expiries, stops and restarts cost none),
  **SystemOrder**, **SystemNoSendAfterSent**;
* **ConfiguredSystem**: with the default expiry, or one that follows the rule of
  QUICK_START_MULTI_INSTANCE.md:252, Mutex and DuplicatesCharged hold of the
  system. It starts from the environment that Load reads, with a millisecond
  as the unit of time.

### Starting and stopping (`SchedulerControlProofs`, `ProcessProofs`)

TypeCorrect, **StopReachesAll**, **RunningIsTrue**. The strengthening: every
context older than the current one is cancelled, the current one exactly when the
scheduler is not running; watches refer to contexts that exist; the newest
goroutine of a running scheduler has not ended. **WaitersAreWoken**: nobody is
blocked in wg.Wait when all goroutines have ended, the reason why StopReturns.

**ExitIsClean**: the lock does not outlive the last goroutine, and main that closes
the clients of a stopped scheduler does so after its last batch and without the
lock, however starts, stops, panics of wg.Wait and signals overlap. The invariant:
contexts beyond the current one have no goroutine (`Fresh`), the lock of this
process is held only while some goroutine is between Acquire and Release
(`LockKept`), and of a stopped scheduler whose goroutines live somebody who stopped
it is waiting for them, which no handler does once main is `closed` (`StopsSeen`).

Two findings have a positive side, for clients that do not ask to start
(`NoStarts`). **BatchHasKey**: a batch runs with the lock held (compare
`control_release`) and is finished before main closes the clients (compare
`control_exit_overlap`), whoever stops the scheduler and when. There is then one
goroutine (`OneLoop`), in a batch with the lock (`BatchLocked`), and whoever is past
the wait in Stop, main at exit included, finds it ended (`StopsWait`).

For the whole process: **ProcTypeCorrect**, **StoresGetTheirTime**,
**SchedulerSoundInProcess**, **ProcessExitsClean**, **ProcessBatchHasKey**. The
scheduler starts in the middle of the start-up, with the lock possibly another
process's, and the process may die at once; `ProcInv` says that until the
launch nothing of the scheduler has moved (`Dormant`), and that from the launch
on the invariants above hold, in death as in life. StoresGetTheirTime needs the exact
interval of `waited` for each attempt (`Awaited`): the bound of 30 is what the
first four pauses add up to, and a bound on the sum alone is not inductive.

### Readers and tools (`SentMessagesProofs`)

SentTypeCorrect, **LossesCharged**, **ResponsesSound**, **StaleIsPassing**. The
invariant of `DispatchProofs` does not survive a clearing. What does is
`Carried`, and that a batch older than the last clearing is in `atRisk`
(`InHandAtRisk`). Until the first clearing the whole invariant holds as well, and
the reader's list keeps to it (`ReaderSound`); if no batch met a clearing,
`CachingSound` still does.

### What comes in (`InputProofs`)

The checks of a message agree (ValidatorsAgree), what is valid is sent if its
phone number is ASCII (ValidIsSent) and may wait for ever if not (ValidMayWait),
an inserted row waits exactly if its number is too short (CreatedIsSelected), and
no selected row is one the provider must refuse (SelectedIsComplete). Of the
configuration: what Load rejects (OnlyNumbersRejected), that the default expiry
and the documented rule meet LongTTL (DefaultTTLCovers, RuleCovers), and that Load
accepts expiries that do not (UncheckedTTL).

### Only model-checked

The liveness properties: EventuallySent, Delivered, Quiesces, StopReturns,
ShutdownEnds, and Failover, which fails. They rest on fairness, and with it on
ENABLED, which this prover does not reason about.

## 6. Not modelled

Health and version handlers (they change nothing, and what they answer is about
no later moment), logging, routing and TLS, the contents of messages, hosts
and passwords of the configuration, `add-test-messages` (its INSERT always
fails), the mock API beyond what it accepts and rejects and its test client,
generated documentation, build files and scripts. A command that Redis or
PostgreSQL executes only after its caller has given up is not modelled, but for
requests to the provider. Data races on `s.ctx`, `lockExtendTicker` and
`acquired` appear as reads of an earlier or later value, not as torn ones.

## 7. Plan

Done: the lock and its scheduler, dispatch, control, their composition, the read
path and the tools, start-up and shutdown, validation and configuration, with
the abstract specifications BatchMutex and Outbox and the theorems above.

Left, in order of what they would add:

1. A request to Redis that is executed after its caller gave up, in `RedisLock`:
   a late SETNX sets a key that nobody owns, as AcquireReplyLost does now within
   the timeout. What OrphansExpire says is then to be proved anew.
2. The read path on top of `System`: ResponseSound for several instances that
   share the lock, by the same citation through an instance as in `SystemProofs`.
