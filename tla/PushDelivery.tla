---------------------------- MODULE PushDelivery ----------------------------
(***************************************************************************)
(* The life of a notifications row, from its insertion to SENT or FAILED.  *)
(*                                                                         *)
(* Actors: the ingest consumer, which inserts the row; the notifier cron   *)
(* consumers (Tickers), which redrive stuck rows, claim due rows and       *)
(* publish push.send messages; the push-send consumers (Handlers), which   *)
(* look the row up on the read replica, call the webhook, record the       *)
(* attempt and schedule a retry; the admin API; the broker, which delivers,*)
(* redelivers and dead-letters expired messages; the replica, which        *)
(* replays the primary's commits with a delay.                             *)
(*                                                                         *)
(* One action is one database statement or transaction, one publish, or    *)
(* one webhook call: the code awaits each of them, so any two may have     *)
(* other actors' steps in between.                                         *)
(***************************************************************************)
EXTENDS Naturals, Sequences, FiniteSets

CONSTANTS
  Rows,         \* notifications; a number, smaller is scheduled earlier
  Handlers,     \* concurrent push-send handlers (prefetch 10, two replicas)
  Tickers,      \* notifier.cron consumers (prefetch 1, one per replica)
  MaxAttempts,  \* retryPolicy.maxAttempts of the type's catalog entry
  MaxRedrives,  \* retry.maxRedrives
  BatchSize,    \* notifier.batchSize
  MaxLag,       \* bound: commits the replica may be behind the primary
  MaxManual,    \* bound: admin retries of one row
  MaxFaults     \* bound: crashes, lost channels and confirms, failed statements

ASSUME RowsAssumption == Rows \subseteq Nat /\ IsFiniteSet(Rows)
ASSUME ActorsAssumption == IsFiniteSet(Handlers) /\ IsFiniteSet(Tickers)
ASSUME RetryAssumption ==
  /\ MaxAttempts \in Nat \ {0}
  /\ MaxRedrives \in Nat \ {0}
ASSUME BoundAssumption ==
  /\ BatchSize \in Nat \ {0}
  /\ MaxLag \in Nat
  /\ MaxManual \in Nat
  /\ MaxFaults \in Nat

VARIABLES
  row,       \* the notifications table on the primary
  due,       \* rows whose scheduled_for has passed
  replica,   \* the status column as the read replica shows it
  wal,       \* commits not replayed yet, each as the statuses after it
  work,      \* copies of a row's message ready in notifier.push-send
  retry,     \* copies waiting in notifier.push-send.retry
  handler,   \* what each push-send handler is doing
  tick,      \* what each cron consumer is doing
  admin,     \* manual retries applied whose history entry is not written yet
  history,   \* notification_history: rows per notification and event type
  done,      \* transitions committed, per notification and event type
  accepted,  \* rows the webhook has accepted at least once
  faults     \* faults so far

db == <<row, replica, wal>>
broker == <<work, retry>>
actors == <<handler, tick, admin>>
audit == <<history, done>>
vars == <<db, due, broker, actors, audit, accepted, faults>>

Status == {"ABSENT", "PENDING", "PROCESSING", "SENT", "FAILED"}
Clock == {"null", "fresh", "stale"}
Events == {"CREATED", "CLAIMED_BY_TICK", "PUSH_SENT", "PUSH_ATTEMPT",
           "REDRIVEN_FROM_STUCK", "MANUAL_RETRY"}

Row == [status: Status, attempts: Nat, redriveCount: Nat,
        processingStartedAt: Clock]

NoRow == [status |-> "ABSENT", attempts |-> 0, redriveCount |-> 0,
          processingStartedAt |-> "null"]
IdleHandler == [pc |-> "idle"]
IdleTick == [pc |-> "idle", failed |-> {}, recovered |-> {}, claimed |-> {}]

Busy == [pc: {"send", "record", "retry", "ack"}, msg: Rows, held: BOOLEAN,
         ok: BOOLEAN]
Tick == [pc: {"idle", "recover", "redriven", "claim", "claimed", "publish"},
         failed: SUBSET Rows, recovered: SUBSET Rows, claimed: SUBSET Rows]

(* The type invariant. *)
TypeOK ==
  /\ row \in [Rows -> Row]
  /\ due \in SUBSET Rows
  /\ replica \in [Rows -> Status]
  /\ wal \in Seq([Rows -> Status])
  /\ work \in [Rows -> Nat]
  /\ retry \in [Rows -> Nat]
  /\ handler \in [Handlers -> Busy \cup {IdleHandler}]
  /\ tick \in [Tickers -> Tick]
  /\ admin \in [Rows -> Nat]
  /\ history \in [Rows -> [Events -> Nat]]
  /\ done \in [Rows -> [Events -> Nat]]
  /\ accepted \in SUBSET Rows
  /\ faults \in Nat

Init ==
  /\ row = [n \in Rows |-> NoRow]
  /\ due = {}
  /\ replica = [n \in Rows |-> "ABSENT"]
  /\ wal = <<>>
  /\ work = [n \in Rows |-> 0]
  /\ retry = [n \in Rows |-> 0]
  /\ handler = [h \in Handlers |-> IdleHandler]
  /\ tick = [t \in Tickers |-> IdleTick]
  /\ admin = [n \in Rows |-> 0]
  /\ history = [n \in Rows |-> [e \in Events |-> 0]]
  /\ done = [n \in Rows |-> [e \in Events |-> 0]]
  /\ accepted = {}
  /\ faults = 0

-----------------------------------------------------------------------------
(* What each UPDATE does to a row. *)

Inserted(r) == [r EXCEPT !.status = "PENDING"]
\* Mutant of Claimed: the claim does not stamp processing_started_at.
ClaimedUnstamped(r) == [r EXCEPT !.status = "PROCESSING"]
Claimed(r) == [r EXCEPT !.status = "PROCESSING", !.processingStartedAt = "fresh"]
Sent(r) == [r EXCEPT !.status = "SENT"]
Failed(r) == [r EXCEPT !.status = "FAILED", !.processingStartedAt = "null"]
Attempted(r) == [r EXCEPT !.attempts = @ + 1]
\* Mutant of Redriven: the recovery does not count.
RedrivenFree(r) == [r EXCEPT !.status = "PENDING",
                             !.processingStartedAt = "null"]
\* Mutant of Redriven: the recovery counts down.
RedrivenDown(r) == [r EXCEPT !.status = "PENDING", !.redriveCount = @ - 1,
                             !.processingStartedAt = "null"]
Redriven(r) == [r EXCEPT !.status = "PENDING", !.redriveCount = @ + 1,
                         !.processingStartedAt = "null"]
\* Mutant of Retried: the attempts are not given back.
RetriedSpent(r) == [r EXCEPT !.status = "PENDING",
                             !.processingStartedAt = "null"]
Retried(r) == [r EXCEPT !.status = "PENDING", !.attempts = 0,
                        !.processingStartedAt = "null"]

\* incrementAttempt, then markFailed when the policy's attempts are used up.
\* Neither looks at the status the row has by now.
\* Mutant of AfterFailure: markSent on both branches.
AfterFailureSent(r) == Sent(Attempted(r))
\* Mutant of AfterFailure: gives up one attempt early.
AfterFailureEarly(r) ==
  IF Attempted(r).attempts + 1 >= MaxAttempts THEN Failed(Attempted(r))
                                              ELSE Attempted(r)
AfterFailure(r) ==
  IF Attempted(r).attempts >= MaxAttempts THEN Failed(Attempted(r))
                                          ELSE Attempted(r)

-----------------------------------------------------------------------------
(* Helpers *)

Statuses(table) == [n \in Rows |-> table[n].status]
InStatus(s) == {n \in Rows : row[n].status = s}
Log(f, S, e) == [n \in Rows |-> IF n \in S THEN [f[n] EXCEPT ![e] = @ + 1]
                                            ELSE f[n]]

\* A commit on the primary: the table changes at once, the replica after it
\* has replayed the commit. When the replica is MaxLag commits behind, it
\* replays its oldest one now.
Commit(table) ==
  LET log == Append(wal, Statuses(table)) IN
  /\ row' = table
  /\ \/ /\ Statuses(table) = Statuses(row)
        /\ UNCHANGED <<replica, wal>>
     \/ /\ Statuses(table) # Statuses(row)
        /\ Len(log) <= MaxLag
        /\ wal' = log
        /\ UNCHANGED replica
     \/ /\ Statuses(table) # Statuses(row)
        /\ Len(log) > MaxLag
        /\ wal' = Tail(log)
        /\ replica' = Head(log)

\* The table with the rows of S changed by F.
Update(S, F(_)) == [n \in Rows |-> IF n \in S THEN F(row[n]) ELSE row[n]]

\* One INSERT of an entry per row of S.
\* Mutant of AppendHistory: one entry per statement.
AppendFirst(S, e) ==
  history' = Log(history, {n \in S : \A m \in S : n <= m}, e)
AppendHistory(S, e) == history' = Log(history, S, e)

\* Mutant of Enqueue: the producer publishes twice.
EnqueueTwice(q, n) == [q EXCEPT ![n] = @ + 2]
Enqueue(q, n) == [q EXCEPT ![n] = @ + 1]

Replay ==
  /\ wal # <<>>
  /\ replica' = Head(wal)
  /\ wal' = Tail(wal)
  /\ UNCHANGED <<row, due, broker, actors, audit, accepted, faults>>

\* processing_started_at falls behind NOW() - recoveryThresholdMs.
Age(n) ==
  /\ row[n].status = "PROCESSING"
  /\ row[n].processingStartedAt = "fresh"
  /\ row' = [row EXCEPT ![n].processingStartedAt = "stale"]
  /\ UNCHANGED <<replica, wal, due, broker, actors, audit, accepted, faults>>

\* The clock reaches scheduled_for, which may be in the future or the past of
\* the insertion; a smaller number is scheduled earlier.
BecomeDue(n) ==
  /\ n \notin due
  /\ \A m \in Rows : m < n => m \in due
  /\ due' = due \cup {n}
  /\ UNCHANGED <<db, broker, actors, audit, accepted, faults>>

-----------------------------------------------------------------------------
(* The ingest consumer's transaction: the row and its CREATED entry. *)

Ingest(n) ==
  /\ row[n].status = "ABSENT"
  /\ Commit(Update({n}, Inserted))
  /\ AppendHistory({n}, "CREATED")
  /\ done' = Log(done, {n}, "CREATED")
  /\ UNCHANGED <<due, broker, actors, accepted, faults>>

-----------------------------------------------------------------------------
(* The cron tick: two recovery statements, their history, the claim, its   *)
(* history, then one publish per claimed row in any order (Promise.all).   *)

Stuck == {n \in InStatus("PROCESSING") : row[n].processingStartedAt = "stale"}

\* Mutant of Capped: a row at its cap is neither failed nor recovered.
CappedPast == {n \in Stuck : row[n].redriveCount > MaxRedrives}
Capped == {n \in Stuck : row[n].redriveCount >= MaxRedrives}
\* Mutant of Eligible: recovers a row at its cap that got stuck after the
\* first statement.
EligiblePast == {n \in Stuck : row[n].redriveCount <= MaxRedrives}
Eligible == {n \in Stuck : row[n].redriveCount < MaxRedrives}

FailCapped(t) ==
  /\ tick[t].pc = "idle"
  /\ Commit(Update(Capped, Failed))
  /\ tick' = [tick EXCEPT ![t] =
                [IdleTick EXCEPT !.pc = "recover", !.failed = Capped]]
  /\ done' = Log(done, Capped, "REDRIVEN_FROM_STUCK")
  /\ UNCHANGED <<due, broker, handler, admin, history, accepted, faults>>

RecoverStuck(t) ==
  /\ tick[t].pc = "recover"
  /\ Commit(Update(Eligible, Redriven))
  /\ tick' = [tick EXCEPT ![t].recovered = Eligible,
                          ![t].pc = IF tick[t].failed \cup Eligible = {}
                                    THEN "claim" ELSE "redriven"]
  /\ done' = Log(done, Eligible, "REDRIVEN_FROM_STUCK")
  /\ UNCHANGED <<due, broker, handler, admin, history, accepted, faults>>

AppendRedriven(t) ==
  /\ tick[t].pc = "redriven"
  /\ history' = Log(Log(history, tick[t].failed, "REDRIVEN_FROM_STUCK"),
                    tick[t].recovered, "REDRIVEN_FROM_STUCK")
  /\ tick' = [tick EXCEPT ![t] = [IdleTick EXCEPT !.pc = "claim"]]
  /\ UNCHANGED <<db, due, broker, handler, admin, done, accepted, faults>>

\* ORDER BY scheduled_for LIMIT k
Oldest(S, k) == {n \in S : Cardinality({m \in S : m < n}) < k}

\* Rows a recordAttempt transaction may have locked: SKIP LOCKED passes over
\* those that are.
Lockable == {n \in Rows : \E h \in Handlers : /\ handler[h].pc = "record"
                                              /\ handler[h].msg = n}

\* Mutant of Claimable: no status in the WHERE clause but a terminal one.
ClaimableAgain == InStatus("PENDING") \cup InStatus("PROCESSING")
Claimable == InStatus("PENDING")

Claim(t, locked) ==
  LET batch == Oldest((Claimable \cap due) \ locked, BatchSize) IN
  /\ tick[t].pc = "claim"
  /\ Commit(Update(batch, Claimed))
  /\ tick' = [tick EXCEPT ![t] =
                IF batch = {} THEN IdleTick
                ELSE [IdleTick EXCEPT !.pc = "claimed", !.claimed = batch]]
  /\ done' = Log(done, batch, "CLAIMED_BY_TICK")
  /\ UNCHANGED <<due, broker, handler, admin, history, accepted, faults>>

AppendClaimed(t) ==
  /\ tick[t].pc = "claimed"
  /\ AppendHistory(tick[t].claimed, "CLAIMED_BY_TICK")
  /\ tick' = [tick EXCEPT ![t].pc = "publish"]
  /\ UNCHANGED <<db, due, broker, handler, admin, done, accepted, faults>>

PublishPush(t, n) ==
  /\ tick[t].pc = "publish"
  /\ n \in tick[t].claimed
  /\ work' = Enqueue(work, n)
  /\ tick' = [tick EXCEPT ![t] =
                IF tick[t].claimed = {n} THEN IdleTick
                ELSE [tick[t] EXCEPT !.claimed = @ \ {n}]]
  /\ UNCHANGED <<db, due, retry, handler, admin, audit, accepted, faults>>

-----------------------------------------------------------------------------
(* The push-send handler. *)

\* Mutant of Sendable: the lookup expects a row that nobody has claimed.
SendablePending(n) == replica[n] = "PENDING"
Sendable(n) == replica[n] = "PROCESSING"

\* The message is delivered and the row looked up on the replica; only a row
\* seen PROCESSING is sent, any other message is acknowledged and forgotten.
Deliver(h, n) ==
  /\ handler[h] = IdleHandler
  /\ work[n] > 0
  /\ work' = [work EXCEPT ![n] = @ - 1]
  /\ handler' = IF Sendable(n)
                THEN [handler EXCEPT ![h] = [pc |-> "send", msg |-> n,
                                             held |-> TRUE, ok |-> FALSE]]
                ELSE handler
  /\ UNCHANGED <<db, due, retry, tick, admin, audit, accepted, faults>>

\* The webhook may have accepted a push whose answer was lost or late.
Send(h, ok, taken) ==
  /\ handler[h].pc = "send"
  /\ ok => taken
  /\ handler' = [handler EXCEPT ![h].pc = "record", ![h].ok = ok]
  /\ accepted' = IF taken THEN accepted \cup {handler[h].msg} ELSE accepted
  /\ UNCHANGED <<db, due, broker, tick, admin, audit, faults>>

RecordSent(h) ==
  LET n == handler[h].msg IN
  /\ handler[h].pc = "record"
  /\ handler[h].ok
  /\ Commit(Update({n}, Sent))
  /\ AppendHistory({n}, "PUSH_SENT")
  /\ done' = Log(done, {n}, "PUSH_SENT")
  /\ handler' = [handler EXCEPT ![h].pc = "ack"]
  /\ UNCHANGED <<due, broker, tick, admin, accepted, faults>>

RecordFailure(h) ==
  LET n == handler[h].msg IN
  /\ handler[h].pc = "record"
  /\ ~handler[h].ok
  /\ Commit(Update({n}, AfterFailure))
  /\ AppendHistory({n}, "PUSH_ATTEMPT")
  /\ done' = Log(done, {n}, "PUSH_ATTEMPT")
  /\ handler' = [handler EXCEPT ![h].pc =
                   IF Attempted(row[n]).attempts >= MaxAttempts
                   THEN "ack" ELSE "retry"]
  /\ UNCHANGED <<due, broker, tick, admin, accepted, faults>>

PublishRetry(h) ==
  /\ handler[h].pc = "retry"
  /\ retry' = Enqueue(retry, handler[h].msg)
  /\ handler' = [handler EXCEPT ![h].pc = "ack"]
  /\ UNCHANGED <<db, due, work, tick, admin, audit, accepted, faults>>

Ack(h) ==
  /\ handler[h].pc = "ack"
  /\ handler' = [handler EXCEPT ![h] = IdleHandler]
  /\ UNCHANGED <<db, due, broker, tick, admin, audit, accepted, faults>>

\* The per-message TTL runs out: dead-lettered back to notifications.work.
ExpireRetry(n) ==
  /\ retry[n] > 0
  /\ retry' = [retry EXCEPT ![n] = @ - 1]
  /\ work' = Enqueue(work, n)
  /\ UNCHANGED <<db, due, actors, audit, accepted, faults>>

-----------------------------------------------------------------------------
(* The admin API: the update and its history entry are two statements. *)

ManualRetry(n) ==
  /\ done[n]["MANUAL_RETRY"] < MaxManual
  /\ row[n].status = "FAILED"
  /\ Commit(Update({n}, Retried))
  /\ admin' = [admin EXCEPT ![n] = @ + 1]
  /\ done' = Log(done, {n}, "MANUAL_RETRY")
  /\ UNCHANGED <<due, broker, handler, tick, history, accepted, faults>>

AppendManualRetry(n) ==
  /\ admin[n] > 0
  /\ admin' = [admin EXCEPT ![n] = @ - 1]
  /\ AppendHistory({n}, "MANUAL_RETRY")
  /\ UNCHANGED <<db, due, broker, handler, tick, done, accepted, faults>>

-----------------------------------------------------------------------------
(* Faults *)

Fault == faults < MaxFaults /\ faults' = faults + 1

\* The process dies, or a statement or publish of the tick fails: the rest of
\* the tick is not run, by anyone.
TickDies(t) ==
  /\ tick[t].pc # "idle"
  /\ tick' = [tick EXCEPT ![t] = IdleTick]
  /\ Fault
  /\ UNCHANGED <<db, due, broker, handler, admin, audit, accepted>>

AdminDies(n) ==
  /\ admin[n] > 0
  /\ admin' = [admin EXCEPT ![n] = @ - 1]
  /\ Fault
  /\ UNCHANGED <<db, due, broker, handler, tick, audit, accepted>>

\* The broker requeues what an interrupted delivery had not acknowledged.
Requeued(h) ==
  IF handler[h].held THEN Enqueue(work, handler[h].msg) ELSE work

HandlerCrash(h) ==
  /\ handler[h] # IdleHandler
  /\ work' = Requeued(h)
  /\ handler' = [handler EXCEPT ![h] = IdleHandler]
  /\ Fault
  /\ UNCHANGED <<db, due, retry, tick, admin, audit, accepted>>

\* The channel is lost but the process lives: the handler runs on while the
\* broker delivers its message to another one.
LoseChannel(h) ==
  /\ handler[h] # IdleHandler
  /\ handler[h].held
  /\ work' = Requeued(h)
  /\ handler' = [handler EXCEPT ![h].held = FALSE]
  /\ Fault
  /\ UNCHANGED <<db, due, retry, tick, admin, audit, accepted>>

\* The connection goes after the broker took a message and before its confirm
\* came: the producer's ChannelWrapper will send it again, the publish pending
\* all the while. What the same connection had delivered is LoseChannel's fault.
PushConfirmLost(t, n) ==
  /\ tick[t].pc = "publish"
  /\ n \in tick[t].claimed
  /\ work' = Enqueue(work, n)
  /\ Fault
  /\ UNCHANGED <<db, due, retry, actors, audit, accepted>>

RetryConfirmLost(h) ==
  /\ handler[h].pc = "retry"
  /\ retry' = Enqueue(retry, handler[h].msg)
  /\ Fault
  /\ UNCHANGED <<db, due, work, actors, audit, accepted>>

\* A statement or a publish throws: nack without requeue on a queue that has
\* no dead-letter exchange, so the message is gone.
HandlerThrow(h) ==
  /\ handler[h].pc \in {"record", "retry"}
  /\ handler' = [handler EXCEPT ![h] = IdleHandler]
  /\ Fault
  /\ UNCHANGED <<db, due, broker, tick, admin, audit, accepted>>

LookupThrow(n) ==
  /\ work[n] > 0
  /\ work' = [work EXCEPT ![n] = @ - 1]
  /\ Fault
  /\ UNCHANGED <<db, due, retry, actors, audit, accepted>>

-----------------------------------------------------------------------------
TickStep(t) ==
  \/ FailCapped(t)
  \/ RecoverStuck(t)
  \/ AppendRedriven(t)
  \/ \E locked \in SUBSET Lockable : Claim(t, locked)
  \/ AppendClaimed(t)
  \/ \E n \in Rows : PublishPush(t, n)

HandlerStep(h) ==
  \/ \E ok, taken \in BOOLEAN : Send(h, ok, taken)
  \/ RecordSent(h)
  \/ RecordFailure(h)
  \/ PublishRetry(h)
  \/ Ack(h)

RowStep(n) ==
  \/ Ingest(n)
  \/ BecomeDue(n)
  \/ Age(n)
  \/ ExpireRetry(n)
  \/ ManualRetry(n)
  \/ AppendManualRetry(n)

ConfirmLost ==
  \/ \E t \in Tickers, n \in Rows : PushConfirmLost(t, n)
  \/ \E h \in Handlers : RetryConfirmLost(h)

FaultStep ==
  \/ ConfirmLost
  \/ \E t \in Tickers : TickDies(t)
  \/ \E n \in Rows : AdminDies(n) \/ LookupThrow(n)
  \/ \E h \in Handlers : HandlerCrash(h) \/ LoseChannel(h) \/ HandlerThrow(h)

Next ==
  \/ Replay
  \/ \E t \in Tickers : TickStep(t)
  \/ \E h \in Handlers : HandlerStep(h)
  \/ \E h \in Handlers, n \in Rows : Deliver(h, n)
  \/ \E n \in Rows : RowStep(n)
  \/ FaultStep

Spec == Init /\ [][Next]_vars

-----------------------------------------------------------------------------
(* Properties *)

Live == {"PENDING", "PROCESSING"}

(* A row that can still be claimed or sent has attempts left: the attempt     *)
(* that uses up the budget fails the row in the same transaction, and a       *)
(* manual retry gives the budget back before the row can be claimed.          *)
LiveHasBudget ==
  \A n \in Rows : row[n].status \in Live => row[n].attempts < MaxAttempts

(* FAILED is reached only with a spent budget: attempts or redrives.          *)
FailedIsSpent ==
  \A n \in Rows : row[n].status = "FAILED" =>
    \/ row[n].attempts >= MaxAttempts
    \/ row[n].redriveCount >= MaxRedrives

(* Redrives never pass their cap, although the two recovery statements run    *)
(* separately and two replicas run them at the same time.                     *)
RedrivesCapped == \A n \in Rows : row[n].redriveCount <= MaxRedrives

(* A PROCESSING row always carries the timestamp recoverStuck looks for: no   *)
(* interleaving of late handlers, ticks and retries leaves one out of reach.  *)
ProcessingIsRecoverable ==
  \A n \in Rows : row[n].status = "PROCESSING" =>
    row[n].processingStartedAt # "null"

(* SENT is never a guess: the webhook accepted the push at least once, and    *)
(* the history says so.                                                       *)
SentWasAccepted ==
  \A n \in Rows : row[n].status = "SENT" =>
    n \in accepted /\ history[n]["PUSH_SENT"] > 0

(* A stay in PENDING is claimed at most once, by whichever replica: a row is  *)
(* claimed no more often than it was created, redriven or retried by hand.    *)
ClaimedOncePerStay ==
  \A n \in Rows :
    done[n]["CLAIMED_BY_TICK"] + (IF row[n].status = "PENDING" THEN 1 ELSE 0)
      <= done[n]["CREATED"] + row[n].redriveCount + done[n]["MANUAL_RETRY"]

\* History entries an actor is still on its way to write.
Owed(n, e) ==
  LET failing == {t \in Tickers : tick[t].pc \in {"recover", "redriven"}
                                  /\ n \in tick[t].failed}
      redriving == {t \in Tickers : tick[t].pc = "redriven"
                                    /\ n \in tick[t].recovered}
      claiming == {t \in Tickers : tick[t].pc = "claimed"
                                   /\ n \in tick[t].claimed}
  IN  CASE e = "REDRIVEN_FROM_STUCK" ->
             Cardinality(failing) + Cardinality(redriving)
        [] e = "CLAIMED_BY_TICK" -> Cardinality(claiming)
        [] e = "MANUAL_RETRY" -> admin[n]
        [] OTHER -> 0

(* The history is never ahead of the table, and without a fault every entry   *)
(* it lacks is one that a running tick or admin request still owes.           *)
HistoryOwed ==
  \A n \in Rows, e \in Events :
    /\ history[n][e] + Owed(n, e) <= done[n][e]
    /\ faults = 0 => history[n][e] + Owed(n, e) = done[n][e]

\* Deliveries of a row that will still end in a lookup or a retry.
Chains(n) ==
  work[n] + retry[n]
    + Cardinality({h \in Handlers : handler[h].pc \in {"send", "record", "retry"}
                                    /\ handler[h].msg = n})
    + Cardinality({t \in Tickers : tick[t].pc \in {"claimed", "publish"}
                                   /\ n \in tick[t].claimed})

(* Every chain of deliveries goes back to one claim, to one interrupted       *)
(* delivery or to one lost confirm: retries never multiply messages.          *)
ChainsBounded ==
  \A n \in Rows : Chains(n) <= done[n]["CLAIMED_BY_TICK"] + faults

(* When the lookup sees what is committed and nothing fails, a PROCESSING row *)
(* always has a delivery on its way: no message is skipped for a row that was *)
(* waiting for it.                                                            *)
DispatchInFlight ==
  MaxLag = 0 /\ faults = 0 =>
    \A n \in Rows : row[n].status = "PROCESSING" => Chains(n) > 0

(* Every row lives the abstract life of a notification, many rows at a time:  *)
(* see NotificationLifecycle.                                                 *)
Lifecycle == INSTANCE NotificationLifecycle WITH
  status <- [n \in Rows |-> row[n].status],
  redrives <- [n \in Rows |-> row[n].redriveCount]

KeepsLifecycle == Lifecycle!Spec

(* push-send.consumer.ts treats SENT as "already terminal".                   *)
SentIsTerminal ==
  [][\A n \in Rows : row[n].status = "SENT" => row'[n].status = "SENT"]_vars
=============================================================================
