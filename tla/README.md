# TLA+ models of the user push notification services

Three NestJS services talk only through RabbitMQ and keep their state in PostgreSQL. `users` stores a new user
together with an outbox row; `notifier` turns the published event into a notification row, claims it when it
is due, and calls a webhook until that succeeds or the attempts are used up; `scheduler` publishes the ticks
that drive both. Each service runs as several replicas, and almost every promise it makes is about what
happens when two replicas, a slow handler, a redelivered message or a dying process meet between two `await`s.
That is what the modules here model and TLC checks; the safety of all of them TLAPS proves.

## Inventory

| part | state | operations | works with |
|---|---|---|---|
| **Push delivery** (`notification.state-machine.ts`, `notifications.repository.ts`, `notifier-cron.consumer.ts`, `push-send.consumer.ts`) | `notifications` (status, attempts, redrive_count, processing_started_at), `notification_history`, messages in `notifier.push-send` and its retry queue, the read replica | ingest, tick (fail capped, recover stuck, claim, publish), handle push.send (look up, send, record, schedule retry), manual retry | ticks from the scheduler, the webhook, the admin API |
| **Webhook transport** | none | one HTTP call with a timeout | push-send handler |
| **Type catalog, send-side retry queue** (`type-catalog.ts`, `notifier-topology.service.ts`) | a constant table; messages with their TTLs | entry, schema, backoff; expiry at the head | push-send consumer, recovery |
| **Users outbox** (`users-outbox.repository.ts`, `claim-and-publish-users.command.ts`, `create-user.command.ts`) | `users_outbox` (published_at, publishing_started_at) | create, sweep, claim, publish, mark | the broker's confirms, ticks |
| **Ingest path** (`ingest.consumer.ts`, `consumer.base.ts`, `notifier-topology.service.ts`) | `notifier.ingest`, `.retry`, `.dlq`, the x-death header | deliver, validate, insert or dedupe, reject into the 5 s ring, dead-letter | outbox (at least once), push delivery (the row), admin drain |
| **Admin DLQ republish** | a drain's depth and its unacknowledged message | read the depth, get, republish or requeue, ack | `notifier.ingest.dlq`, other drains, ingest consumers |
| **Admin list** | the client's cursor | next page | the read replica |
| **RMQ consumer base and connection** | in-flight handlers, the connection | subscribe on every connection, dispatch, handle an error, cancel and drain, close | every consumer, Nest's shutdown, tracing's signal listener |
| **RMQ producer base** | a confirm channel, the messages not confirmed yet | publish, send again after a reconnect, log a return | every producer |
| **Scheduler** | two cron jobs | publish a tick | the two cron consumers |
| metrics, validation, database wiring, logging, health, configuration, infrastructure | none the program acts on | | |

What is hard about them:

- *Concurrency.* Two replicas run every consumer, ticks overlap, the push-send handler acts on a status it
  read from a lagging replica before an HTTP call, and the admin retries rows whose old deliveries are
  still in flight.
- *Failure.* The process may die between any two awaits; a statement, publish or confirm may be lost after
  it took effect; a lost channel redelivers a message whose first handler is still running, and takes the
  process down when that handler acknowledges.
- *Ordering.* History is written after the transition it records; publish precedes mark, DLX publish
  precedes ack; the consumers start beside the service that declares their retry queues; the connection is
  closed before the drain; a queue expires messages only at its head.
- *Time and load.* A threshold declares a slow publisher or a delayed delivery dead; a webhook answers late;
  a batch is many times what the handlers take at once.

What makes each part correct: a notification settles, leaves SENT only for FAILED, spends its budgets exactly,
and is claimed once per stay in PENDING; an event is ticked off only after a confirm and every extra copy has
a reason; an ingested event becomes a row or is shelved after exactly the configured failures; a drain loses
and invents nothing and ends; a walk through the list repeats and skips nothing; Nest comes to the end of a
shutdown it was told to begin, and others settle the messages; a row is settled before it is old enough to
pass for stuck, if the threshold has room for the load; and, over all services, a created user is notified, or
the failure is visible. `PROJECT.json` lists the hazards line by line with the properties that cover them.

## Modules

| module | models | MC module, runs |
|---|---|---|
| `NotificationLifecycle` | the life of a notification as admin and receiver see it | |
| `PushDelivery` | push delivery and the webhook call, shown to implement `NotificationLifecycle` | `MCPushDelivery`: `push_*` |
| `RetryQueue` | the time a claim lasts: wait for a handler, call, backoff, blocked heads, the recovery threshold | `MCRetryQueue`: `retry_queue` |
| `OutboxPromise` | what an outbox promises: created, sent at least once, then settled | |
| `UsersOutbox` | the outbox of `users`, shown to implement `OutboxPromise` | `MCUsersOutbox`: `outbox*` |
| `IngestPipeline` | the inbound path from the exchange to the row or the dead-letter queue | `MCIngestPipeline`: `ingest` |
| `DlqRepublish` | concurrent drains of the dead-letter queue | `MCDlqRepublish`: `dlq` |
| `AdminList` | the paged list | `MCAdminList`: `admin_list` |
| `ConsumerShutdown` | consumer processes that lose their connection, stop and are replaced | `MCConsumerShutdown`: `shutdown*` |
| `EndToEnd` | scheduler, `OutboxPromise`, `IngestPipeline` and `PushDelivery` composed | `MCEndToEnd`: `end_to_end` |
| `PushDeliveryProofs`, `RetryQueueProofs`, `UsersOutboxProofs`, `IngestPipelineProofs`, `DlqRepublishProofs`, `AdminListProofs`, `ConsumerShutdownProofs`, `EndToEndProofs` | theorems about those modules | |

An MC module extends its specification with the model values and, where it is used, the symmetry set; the
constants are given in the `.cfg`. Definitions whose names extend that of another (`ClaimableAgain` beside
`Claimable`) are marked *Mutant of*: they are a plausible mistake in the code, used to see that a property
notices it, and no specification refers to them.

### PushDelivery and NotificationLifecycle

One action is one statement or transaction, one publish or one webhook call, since the code awaits each.

| state | code |
|---|---|
| `row` | the four columns of `notifications` the transitions look at; `processingStartedAt` is null, within the recovery threshold (`fresh`) or past it (`stale`) |
| `replica`, `wal` | the status column on the read replica, and the commits it has still to replay |
| `work`, `retry` | copies of a row's message in `notifier.push-send` and its retry queue (bags: any order of delivery) |
| `handler[h]` | a `PushSendConsumer.handle` in progress: its program counter, its row, whether the broker still holds the message for it, the result of the webhook |
| `tick[t]` | a `NotifierCronConsumer.handle` in progress and the rows it has in hand |
| `history`, `done` | history rows per event type, and transitions committed: the code keeps only the first |

The tick is `FailCapped`, `RecoverStuck` (two statements, one after the other), `AppendRedriven`, `Claim`,
`AppendClaimed`, then one `PublishPush` per row in any order (`Promise.all`). `Claim` may pass over rows
that a transaction has locked (`SKIP LOCKED`). The handler is `Deliver` (look up on the replica; skip
unless PROCESSING), `Send`, `RecordSent` or `RecordFailure` (one transaction with its history entry),
`PublishRetry`, `Ack`. As in the code, no update of the handler looks at the status again. A handler that
throws loses its message, since `notifier.push-send` has no dead-letter exchange. Faults: `TickDies`,
`AdminDies`, `HandlerCrash` (message redelivered), `LoseChannel` (redelivered while the first handler runs
on), `HandlerThrow`, `LookupThrow`, `ConfirmLost`: the connection goes after the broker took a message and
before its confirm, and the producer's channel wrapper sends the message again on the next one.

`NotificationLifecycle` keeps status, redrives and acceptances alone. Its steps move any number of rows at
once, as a batch does, and say what each edge needs: a redrive one of `MaxRedrives`, SENT an acceptance by
the receiver, a retry by hand the status FAILED. The refinement maps `status` and `redrives` to the columns.

### RetryQueue

`PushDelivery` lets a retry expire and a message be delivered at any moment; here time counts.

| state | code |
|---|---|
| `row[n]` | where a notification is (`pending`, `claimed`, `queued` in `notifier.push-send`, `send`: in the webhook call, `record`: its result being stored, `wait` in the retry queue), its attempts, `age`: the time since the claim, which `recoverStuck` compares with the threshold and which no retry renews, and `spent`: the time in this stage |
| `work` | `notifier.push-send` in order: the messages no handler has yet |
| `retry` | `notifier.push-send.retry` in order, each message with what is left of its TTL; only the head expires |

`Slots` handlers work at a time: the prefetch of 10 on each replica. The broker delivers whenever one is free
(`Deliver`), so a message waits only while all are at work. A call may end at any time up to `HttpTimeout`
(`Answer`), and the statements and publishes that follow a claim or surround a call take up to `StepTime`.
`Pass` lets one unit of time pass for everything under way, never beyond what is due. A row that settles is
free for the next notification, so `Rows` is the number of notifications claimed at the same time.

Two facts of the code make a claim outlast its work: a retry waits behind longer backoffs, and a message waits
for a handler behind all others. `LongestBackoff` bounds the first (`BackoffAssumption`), `LongestQueue` the
second. `SettledBeforeRecovery` says what follows when the threshold leaves room for both before every attempt
(`HasRoom`), which is a condition of the property and not an assumption, because **nothing in the code ensures
it**: validation takes any threshold from 1 s up beside any batch, attempts and timeout. With the configured
values (300 s, 5 attempts, backoffs of 1 to 8 s, a timeout of 5 s, 2 replicas, statements taken for free)
it holds up to some 195 notifications under way, while a single tick claims 100 (`.env.example.dev`) or 500
(`.env.example.prod`). Beyond that, a webhook that answers none of them may get rows redriven whose messages are
still queued, the second chain of deliveries that `PushDelivery` has and `ChainsBounded` counts.

That no message is lost, copied or skipped is left to `PushDelivery`.

### UsersOutbox and OutboxPromise

`outbox[e]` has the row's two timestamps; `task[t][e]` is replica t's `publishOne` for that row, so the
publishes of a batch interleave freely. `Publish` is the confirmed publish: the broker confirms an unroutable
message too (`bound` says whether `notifier.ingest` exists yet). `ConfirmLost` is a connection that goes
between the broker's taking the message and its confirm: the channel wrapper of the producer sends it again,
and the publish is pending meanwhile, so one claim may leave several copies. `PublishFails` is a publish that
is given up, whether or not the broker took the message. `Age` passes the stuck threshold whether or not the
publisher lives. The refinement maps `sent` to the rows confirmed so far and `settled` to those with
`published_at`.

### IngestPipeline

Messages are told apart by event and by x-death count, so a queue is a bag of such pairs. `Deliver` parses
and looks up the catalog (a bad event fails at once), `Insert` is the transaction, `Dedupe` the lookup after
a unique violation. `Exhausted` is `deathCount + 1 >= maxAttempts`, `Reject` is nack without requeue into
the retry queue or, before `DeclareTopology`, into nothing, and `DeadLetter` is the DLX publish, after which
`Finish` is the ack. `Republish` is a drain seen from here: confirmed publish without headers, then ack.
The two bounds on failures weigh messages: `Ring` counts an event's messages by their deaths, `Carried` and
`Unspent` say what a delivery under way adds, and `Total` is the sum of a function over a finite set.

### DlqRepublish

The queue is a sequence, since the argument of the code is about head and tail. `Snapshot` is `checkQueue`,
`Take` is one `get` of the counted loop, then `Republish` or `Requeue` and `Ack`; `ConfirmLost` is
the producer's resend of a copy whose confirm did not come, `PublishFails` the
catch block, `Interrupted` an exception or a crash, after which the unacknowledged message returns to the
head. A request's `ids` are those of its filter, all messages for none.

### AdminList

`Fetched` is the query with `limit + 1`, `NextPage` the cut and the cursor. ULIDs are made before the
commit by several processes, so rows `Appear` in any order of their ids.

### ConsumerShutdown

SIGTERM starts two things. Nest runs `onModuleDestroy`, in which `RmqConnection` closes the connection
(`CloseConnection`), and then `onApplicationShutdown`, in which the consumer cancels and drains (`StartDrain`,
`DrainTimeout`). Nest then signals the process again, which reaches only tracing's signal listener: that one
exits the process when its exporter is shut down (`Exit`), wherever Nest is by then, and not before. Since the
exporter may never finish, nothing is assumed of `Exit`; a process that has drained is killed by the container
runtime after its grace period (`Kill`), if nothing else ends it. Handlers whose connection is gone are
`orphans`: the broker has their messages again, `ack` throws, `nack` throws in `handleError`, and nobody
awaits `dispatch`, so the process ends in an unhandled rejection (`FinishOrphan`). `Reconnect` is the
channel's setup run again by the connection manager, `Restart` the container's successor.

### EndToEnd

`O`, `I` and `P` are instances of the promise of the outbox, of the ingest path and of push delivery; the
refinement checked by `outbox` is what allows the promise to stand for the outbox. Most steps are a step of
one part (`OutboxAlone`, `IngestAlone`, `PushAlone`); two parts take together the outbox's publish, which
is a message of `notifier.ingest` once that is bound (`Publish`), and the ingest transaction, which
inserts the row (`IngestHandler`). A tick begins with a message of `notifier.cron` (`Fire`,
`NotifierTick`), is rejected and gone when it throws, and comes back when its process died
(`NotifierTickFails`). A publish or tick before the first boot's bindings reaches nobody (`LostOnFirstBoot`);
`InIngestPath` is where an event can be between its publish and its row.

## What the runs check

| run | instance | shows |
|---|---|---|
| `push_faults` | 1 row, 2 handlers, 1 replica, 2 attempts, 1 redrive, lag 1, 1 manual retry, 1 fault of any kind | budgets (`LiveHasBudget`, `FailedIsSpent`), reach of the sweep (`ProcessingIsRecoverable`), `SentWasAccepted`, `ChainsBounded`, and the refinement `KeepsLifecycle` |
| `push_replicas` | 2 rows, 1 handler, 2 replicas ticking, batches of 2, 2 attempts, no lag, no fault | `RedrivesCapped`, `ClaimedOncePerStay`, `HistoryOwed`, `DispatchInFlight` |
| `push_sent_terminal` | 1 row, 2 handlers, 1 attempt, 1 redrive | see *Disagreements* |
| `retry_queue` | 3 rows, 1 handler, 3 attempts, exponential backoff from 1, HTTP timeout and statements 1 each, threshold 24 | `WaitBounded`, `QueueWaitBounded`, `SettledBeforeRecovery` |
| `outbox` | 2 events, 2 replicas, batches of 2, 2 sweeps of a live claim, 2 faults | `PublishedIsAtRest`, `CopiesPaid`, and `KeepsPromise`: the refinement with its liveness, that a row is ticked off only after a confirm among it |
| `outbox_unbound` | 1 event | see *Disagreements* |
| `ingest` | a good and a bad event, 2 handlers, 2 attempts, 2 publications each, 1 republish, 1 fault | `NothingVanishes`, `ShelvedPaid`, `FailuresBounded` |
| `dlq` | 2 messages (1 invalid), 2 requests with any filter, 1 fault | `NoneLost`, `NoneCopied`, `InvalidStays`, `AloneVisitsOnce`, `DrainComplete`, `DrainEnds` |
| `admin_list` | 5 ids, pages of 2, 2 status changes | `NeverTwice`, `NothingSkipped` |
| `shutdown` | 2 messages, 2 replicas, prefetch 1, 2 SIGTERMs, 2 lost connections | `StartsBounded`, `Settles`, `ShutdownEnds` |
| `shutdown_drain` | 1 message, 1 replica, 1 SIGTERM | see *Disagreements* |
| `end_to_end` | 1 user, 1 handler of each kind, 2 attempts, 1 redrive, 1 fault anywhere | `SentIsKept`, `EveryUserIsServed` |

Every run whose invariants cover a whole module checks its type invariant too.

**Bounds.** Rows interact only in a batch (its limit and order), in the tick's loops and in the retry queue,
so two suffice, three in the queue, and one is enough where none of these matters. Two ticks interleave the
two recovery statements, and the cap's off-by-one, in `push_replicas`; `push_faults` has one tick and the
faults. `DispatchInFlight` is about ticks, retries and handlers without lag: with lag a lookup may skip
the only message, and `ProcessingIsRecoverable` and `EveryUserIsServed` say what follows. Two attempts and one
redrive make the first, the last and the forbidden next one all happen, and a second chain of deliveries needs
one redrive. `MaxLag` 1 lets the lookup see the state before the claim; `end_to_end` has no lag, because a
lookup that comes too early drops its message and so does `LookupThrow`, one of its faults. One fault can
strike every step; two are allowed where runs stay small. `MaxSent` 2 gives duplicate deliveries with distinct
death counts. `MaxSweeps` bounds only sweeps of a claim whose publisher still lives, the others are unbounded
until `MaxFaults` is used up. Pages of 2 of 5 ids give a full page, a page that is cut, and a last one. In
`retry_queue` time is scaled: a unit is the base of the backoff, the call and the statements take up to one
each, the backoff doubles once, and the threshold is the smallest for which `HasRoom` holds, so that the
property's condition is met with no margin left. Three rows for one handler make a message wait for two
others, and a short backoff come to stand behind a long one; several handlers are the theorem's. Two losses
and two stops let a successor lose its connection again and two processes be down at once. `MaxManual`,
`MaxRepublish` and `MaxChanges` bound what users ask for, `MaxBacklog` the ticks the scheduler leaves in the
queue. Deadlock is checked in the runs of `PushDelivery` and `UsersOutbox`, where ticks never stop; the other
systems really come to rest, or reach the bound of what is asked of them.

**Fairness.** In `UsersOutbox` weak fairness of each replica's tick stands for the scheduler, which publishes
a tick per cron interval, and for the broker, which delivers it to whichever replica is free; in `EndToEnd`
the notifier's ticks are messages and only their firing is fair. Handlers, the publishes of a tick, TTLs, the
clock and deliveries are weakly fair: the event loop and the broker starve none of them. `EveryUserIsServed`
asks of the outbox what its promise gives, and nothing of the webhook: attempts and redrives run out. In
`ConsumerShutdown` the supervisor restarts a stopped container, kills one that has drained and not exited, and
the connection manager reconnects; handlers on an open channel return, but an orphan may hang. Nothing is
assumed of the tracing exporter, on which the process's own exit waits: `ShutdownEnds` is about Nest's
shutdown, and goes no further than the drain. Delivery of a message is strongly fair there: the broker hands
it to some consumer although connections come and go. In `DlqRepublish` a request that runs is carried on
with. Creating, retrying, republishing, signals, losses and faults are never fair.

**Disagreements** with the repository's own words. Three are shown by a run that expects a violation:

- `push_sent_terminal`: SENT is treated as terminal, but the failure of a delivery that was already
  past its lookup turns SENT into FAILED, from where an admin may send it again.
- `outbox_unbound`: an event published before the notifier has ever declared its queue is returned,
  confirmed and ticked off; the PRD promises no data loss.
- `shutdown_drain`: the plan has the consumer cancel, drain and then close its channel; the connection is
  closed first, under the handlers at work.

Others are in the models without a run of their own. The state machine says (lines 49-51) that every
transition inserts its history row in the same transaction, but claims, recoveries and manual retries
insert it in a later statement; what does hold is `HistoryOwed`. The drain's comment (lines 31-33) says that
a pass visits nothing twice; it does when two requests run at once, and `AloneVisitsOnce` is what holds.

## What is proved

Every invariant that a passing run checks is a theorem, and so are the refinement `KeepsLifecycle` and the
safety part of `KeepsPromise`. The theorems hold for every number of users, rows, replicas, handlers, drains,
attempts, redrives and faults that meets the named assumptions on the constants: the sets are finite where the
properties count their members, events and rows are numbered, limits are positive. In `RetryQueue` nothing is
assumed of the threshold: that it has room for the load is a condition of `SettledBeforeRecovery`.

`PushDeliveryProofs`:

- `TypeCorrect`. `CommitType` says that a commit keeps the table, the log and the replica well typed; then
  one step per action.
- `BudgetsHold`, `FailuresAreSpent`, `RedrivesAreCapped`, `StuckRowsAreFound`. The argument looks at one row:
  `RowEdges` shows that whatever the actors do, a step takes each row along one edge (insert, age, claim,
  redrive, fail at the cap, record a result, retry), and `RowInv` (the four facts, and a whole budget for a
  row that is not inserted yet) is kept by every edge. The edges of a handler's result have no condition on
  the status, as in the code, so it is the budgets themselves that must carry the argument.
- `SentIsNoGuess` (`SentWasAccepted`): strengthened by what a handler with a successful result knows, that
  its row has been accepted; only such a handler turns a row SENT.
- `ClaimsAreExclusive` (`ClaimedOncePerStay`): by counting; a claim ends a stay, and only an insertion, a
  redrive or a manual retry begins one.
- `ChainsAreBounded` (`ChainsBounded`): inductive by itself. A chain is a copy in one of the two queues, a
  handler or a tick, and each action moves it from one to another; the lemmas say how the four numbers
  change when one handler or one tick does, and only a claim or a fault adds to their sum.
- `HistoryIsOwed` (`HistoryOwed`): event by event. What is owed is a number of ticks or of requests, and
  each statement of a tick writes what the one before made it owe; a fault may only forget an entry.
- `DispatchIsInFlight` (`DispatchInFlight`): with `Prompt`, that without lag the replica shows what is
  committed, so that a lookup does not take a claimed row for a pending one.
- `ImplementsLifecycle` (`KeepsLifecycle`): `RowEdges` again, each edge an edge of the abstract life
  (`RowRefines`), with the invariant that nothing refers to a row before it is inserted.

`RetryQueueProofs`: all four from one invariant, `TimingInv` (`TimingInductive`).

- `TypeCorrect`, with `RetryMatched` and `WorkMatched`: a row is in the queue its stage names, once, and
  nowhere else.
- `WaitsAreBounded` (`WaitBounded`): `BlockedBounded` is why a blocked head does no harm. What a message has
  waited and what any message ahead of it has left are together no more than the longest backoff, since the
  one ahead was there first.
- `QueueWaitsAreBounded` (`QueueWaitBounded`): no message overtakes and no handler is idle while one waits.
  `WorkBounded` says it with the time that is left: what a message has waited, times the handlers, and the
  handlers' time that the rows ahead of it and those at work may still take are together no more than all
  other rows may take. `Busy` counts that time as the cardinality of a set, one pair for each unit; while time
  passes, every handler uses up one unit.
- `SettledInTime` (`SettledBeforeRecovery`): `AgeBounded` counts a row's age by rounds of one wait for a
  handler, one call and one backoff; `HasRoom` is more than `maxAttempts` of them.

`UsersOutboxProofs`:

- `TypeCorrect`.
- `PublishedRowsRest` (`PublishedIsAtRest`). Inductive with `Causes`: a row is ticked off only after a
  confirm, a replica about to mark a row has seen its confirm, and one at work on it knows that it exists.
- `CopiesArePaid` (`CopiesPaid`): inductive with `Paid`: a row that is eligible for a claim has one sweep more
  than the bound needs, so the claim may add a copy; a copy that a resend adds is counted by it. Counting the
  publishers of a row (`SendingCount`) rests on the library's facts about finite sets.
- `ImplementsPromise`: `Spec => Promise!SafeSpec`, every step a step of the promise or a stutter.

`IngestPipelineProofs`:

- `TypeCorrect`: what a queue holds has deaths left, which needs `DeathsLeft`: a delivery that is under way
  was queued, so one more death is still a value of `Deaths`.
- `EventsAreKept` (`NothingVanishes`): inductive by itself. Each step takes a message from one place only
  to put it in another, and an acknowledgement follows the row (`PutKeeps`, `TakeKeeps`).
- `ShelvingIsPaid` (`ShelvedPaid`) and `FailuresAreBounded` (`FailuresBounded`): both inductive as stated,
  because they weigh every message with the deaths it carries or has left, and every delivery with what it
  adds to them. `Total` is a sum of the model's own, the cardinality of a set of pairs, so that the library's
  facts about finite sets give what a sum does when one of its terms changes.

`DlqRepublishProofs`:

- `TypeCorrect`, with `Holding`: a request about to pass a message on has taken one.
- `NothingIsLost` (`NoneLost`) and `InvalidIsKept` (`InvalidStays`). The properties count copies, the
  induction (`Kept`, `ValidOnly`) speaks of a copy that exists in the queue or in a request's hand:
  `AppendHolds`, `TailHolds` and `PrependHolds` say what the three edits of the queue leave in it, and
  `PresentCounts` that a copy that exists is counted.
- `NothingIsCopied` (`NoneCopied`): by counting places in the queue and hands that hold a message, with
  `EmptyHanded` (between two gets a request holds nothing) and `Unseen` (a message is nowhere before it is
  shelved).
- `AloneNeverRevisits` (`AloneVisitsOnce`) and `DrainIsComplete` (`DrainComplete`): the invariant `Sweeps` of
  a request that runs alone has the argument of the code's comment. What it has still to get is the front
  of the queue, as long as `remaining` says; what it passed over is behind; new messages queue up after that.

`AdminListProofs`: `TypeCorrect`, `WalkNeverTwice` (`NeverTwice`), `WalkSkipsNothing` (`NothingSkipped`).
Inductive with `CursorIsLast` (the cursor is the last id shown) and `SteadyAhead` (a row that has been in the
list all the time is shown already or lies below the cursor); `FindManyRows` is what a query returns.

`ConsumerShutdownProofs`: `TypeCorrect`, `StartsAreBounded` (`StartsBounded`). Inductive with `StartsPaid`: a
process that is stopping, or that has orphans and will go down with them, owes one more start of what it
holds; a SIGTERM makes one such debt, a lost connection gives the deliveries back and makes one.

`EndToEndProofs` carries the theorems of the parts over to the composition:

- `PartsAreIntact`: `Spec => I!Spec /\ P!Spec /\ O!SafeSpec`. Each step is a step or a stutter of each part
  (`IngestStep`, `PushStep`, `OutboxStep`). The one that needs an invariant is the insertion: push delivery's
  `Ingest` is taken for the event the ingest path has just stored (`InsertsItsOwn`).
- `IngestKeepsItsBudget`, `DeliveryKeepsItsPromises`: so what is proved of the parts holds here.
- `TypeCorrect`: with `TicksPaid`, a tick that comes back has cost a fault.
- `SentEventsAreKept` (`SentIsKept`): neither part can say this alone. `Ties` joins their states: an event is
  stored exactly when its row is there, and nothing has been rejected for want of a retry queue. With
  `NothingVanishes` of the ingest path an event that is no row yet is still on its way.

Only model-checked: liveness (`EveryUserIsServed`, `Settles`, `ShutdownEnds`, `DrainEnds`, and the liveness part
of `KeepsPromise`), which is out of TLAPS' reach. That the backoff of the configured policy stays below
`LongestBackoff` is an assumption TLC evaluates: its powers of two are recursive.

## What is not modelled

- Metrics (counters, gauges and the queue poller), logging, tracing but for its exit, health probes,
  validation and configuration: nothing the program acts on. The bodies of users, notifications and
  pushes are valid or not. That the read client lags is modelled, how the clients are built is not.
- The HTTP surface beyond `POST /users`, the admin list, retry and republish: reads of single rows.
- How the channel wrapper keeps what it has to send: a publish takes effect once the connection is back, and
  once more for each lost confirm.
- That a channel is asked for before `connect()`, and the order of Nest's module hooks but for the race of
  topology and consumer on the first boot.
- Registering and deleting the scheduler's two jobs (their effect is the fairness of ticks), and the ticks of
  `users` as messages: `UsersOutbox` has them as fair steps.
- `releaseClaim` of the outbox repository, which the service does not call.
- A bound on the load: how many notifications are under way at a time is a parameter of `RetryQueue`, since
  ticks go on claiming while earlier batches are queued.
- PostgreSQL, PgBouncer, RabbitMQ and the webhook's receiver are external: they do in the models what the
  code relies on.

## Where to go on

What would add most next: several users in `end_to_end`, whose ticks then share batches; the composition with
`UsersOutbox` itself in the place of its promise; redrives of rows that are merely queued, in `RetryQueue`'s
time; and the argument for liveness, step by step, as far as it has safety parts that can be proved.
