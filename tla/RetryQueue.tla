------------------------------ MODULE RetryQueue ------------------------------
(***************************************************************************)
(* The time a claimed notification takes: the wait in notifier.push-send   *)
(* for a free handler, the call of the webhook under its timeout, and      *)
(* between the calls stays in notifier.push-send.retry.  Every message has *)
(* its own TTL there, computed from its row's attempts, but RabbitMQ       *)
(* expires a queue's messages only at its head: a message with a short TTL *)
(* waits behind one with a long TTL.                                       *)
(*                                                                         *)
(* Meanwhile recoverStuck takes every row for stuck whose claim is older   *)
(* than RecoveryThreshold; no retry renews the claim.                      *)
(***************************************************************************)
EXTENDS Naturals, Sequences, FiniteSets

CONSTANTS
  Rows,               \* places for notifications: as many are claimed at a time
  Slots,              \* handlers at a time: the prefetch times the replicas
  Policy,             \* retryPolicy of the type's catalog entry
  LongestBackoff,     \* the longest delay the policy draws
  HttpTimeout,        \* push.httpTimeoutMs
  StepTime,           \* bound: time the statements and the publish take that
                      \* follow a claim, or surround a call
  RecoveryThreshold   \* notifier.recoveryThresholdMs

ASSUME RowsAssumption == IsFiniteSet(Rows)

\* Jitter is in percent; the only entry of the catalog has none.
ASSUME PolicyAssumption ==
  Policy \in [maxAttempts: Nat \ {0}, backoff: {"exponential", "fixed"},
              baseMs: Nat, jitter: 0..100]

ASSUME TimesAssumption ==
  /\ Slots \in Nat \ {0}
  /\ HttpTimeout \in Nat /\ StepTime \in Nat /\ RecoveryThreshold \in Nat

\* The catalog's entry: 5 attempts a second apart at first, scaled down.
UserWelcome == [maxAttempts |-> 3, backoff |-> "exponential", baseMs |-> 1, jitter |-> 0]

Larger(a, b) == IF a > b THEN a ELSE b

\* The delays the policy may draw after so many attempts.
computeBackoffMs(policy, attempts) ==
  LET base == IF policy.backoff = "exponential"
              THEN policy.baseMs * 2 ^ Larger(0, attempts - 1) ELSE policy.baseMs
      variance == (base * policy.jitter) \div 100
  IN  (base - variance)..(base + variance)

(* No retry is delayed longer than LongestBackoff.                            *)
ASSUME BackoffAssumption ==
  /\ LongestBackoff \in Nat
  /\ \A attempts \in 1..Policy.maxAttempts - 1 :
       computeBackoffMs(Policy, attempts) \subseteq 0..LongestBackoff

VARIABLES
  row,    \* where each notification is, and since when
  work,   \* notifier.push-send, head first: the messages no handler has yet
  retry   \* notifier.push-send.retry, head first, with what is left of each TTL

vars == <<row, work, retry>>

Stages == {"pending", "claimed", "queued", "send", "record", "wait"}

Row == [pc: Stages, attempts: 0..Policy.maxAttempts - 1,
        age: Nat,      \* time since the claim
        spent: Nat]    \* time in this stage

(* The type invariant. *)
TypeOK ==
  /\ row \in [Rows -> Row]
  /\ work \in Seq(Rows)
  /\ retry \in Seq([id: Rows, ttl: Nat])

Pending == [pc |-> "pending", attempts |-> 0, age |-> 0, spent |-> 0]

Init ==
  /\ row = [n \in Rows |-> Pending]
  /\ work = <<>>
  /\ retry = <<>>

-----------------------------------------------------------------------------
\* The next stage begins.
Moved(n, pc) == [row[n] EXCEPT !.pc = pc, !.spent = 0]

Claim(n) ==
  /\ row[n].pc = "pending"
  /\ row' = [row EXCEPT ![n] = Moved(n, "claimed")]
  /\ UNCHANGED <<work, retry>>

\* The claim's history is written and the message published.
Publish(n) ==
  /\ row[n].pc = "claimed"
  /\ row' = [row EXCEPT ![n] = Moved(n, "queued")]
  /\ work' = Append(work, n)
  /\ UNCHANGED retry

\* Mutant of InHandler: the handler waits out the backoff itself.
InHandlerWaiting == {n \in Rows : row[n].pc \in {"send", "record", "wait"}}
\* Rows that keep a handler busy, from the delivery to the ack.
InHandler == {n \in Rows : row[n].pc \in {"send", "record"}}

\* The broker delivers as soon as a handler is free.
Deliverable == work # <<>> /\ Cardinality(InHandler) < Slots

\* The next message of the queue is delivered, and the webhook called.
Deliver ==
  /\ Deliverable
  /\ row' = [row EXCEPT ![Head(work)] = Moved(Head(work), "send")]
  /\ work' = Tail(work)
  /\ UNCHANGED retry

\* The call ends: by an answer, an error, or its timeout.
Answer(n) ==
  /\ row[n].pc = "send"
  /\ row' = [row EXCEPT ![n] = Moved(n, "record")]
  /\ UNCHANGED <<work, retry>>

\* The push was accepted, or failed for the last time, and that is recorded.
\* Another notification takes the row's place.
Settle(n) ==
  /\ row[n].pc = "record"
  /\ row' = [row EXCEPT ![n] = Pending]
  /\ UNCHANGED <<work, retry>>

\* Mutant of Exhausted: one attempt more than the policy's.
ExhaustedLate(n) == row[n].attempts >= Policy.maxAttempts
Exhausted(n) == row[n].attempts + 1 >= Policy.maxAttempts

\* Mutant of Delays: the attempt is counted twice.
DelaysLater(n) == computeBackoffMs(Policy, row[n].attempts + 2)
\* The delays the next retry may have, this attempt being recorded.
Delays(n) == computeBackoffMs(Policy, row[n].attempts + 1)

\* The attempt is recorded and its retry published.
Fail(n) ==
  /\ row[n].pc = "record" /\ ~Exhausted(n)
  /\ row' = [row EXCEPT ![n] = [Moved(n, "wait") EXCEPT !.attempts = row[n].attempts + 1]]
  /\ \E ttl \in Delays(n) : retry' = Append(retry, [id |-> n, ttl |-> ttl])
  /\ UNCHANGED work

Expired == retry # <<>> /\ Head(retry).ttl = 0

\* Dead-lettered to notifications.work, behind what is in notifier.push-send.
Expire ==
  /\ Expired
  /\ row' = [row EXCEPT ![Head(retry).id] = Moved(Head(retry).id, "queued")]
  /\ work' = Append(work, Head(retry).id)
  /\ retry' = Tail(retry)

\* Mutant of TimedOut: the call carries no AbortSignal.
TimedOutNever(n) == FALSE
TimedOut(n) == row[n].pc = "send" /\ row[n].spent >= HttpTimeout

Overdue(n) == row[n].pc \in {"claimed", "record"} /\ row[n].spent >= StepTime

\* A claimed row, and a message's TTL, an instant later.
Aged(n) == IF row[n].pc # "pending"
           THEN [row[n] EXCEPT !.age = row[n].age + 1, !.spent = row[n].spent + 1]
           ELSE row[n]
Elapsed(ttl) == IF ttl > 0 THEN ttl - 1 ELSE 0

\* Time passes, not beyond what is due.
Pass ==
  /\ ~Expired /\ ~Deliverable
  /\ \A n \in Rows : ~TimedOut(n) /\ ~Overdue(n)
  /\ row' = [n \in Rows |-> Aged(n)]
  /\ retry' = [i \in DOMAIN retry |->
                 [id |-> retry[i].id, ttl |-> Elapsed(retry[i].ttl)]]
  /\ UNCHANGED work

Next ==
  \/ \E n \in Rows : Claim(n) \/ Publish(n) \/ Answer(n) \/ Settle(n) \/ Fail(n)
  \/ Deliver
  \/ Expire
  \/ Pass

Spec == Init /\ [][Next]_vars

-----------------------------------------------------------------------------
(* Properties *)

(* Whatever waits ahead of it, a retry waits no longer than the longest       *)
(* backoff: the messages ahead were published earlier.                        *)
WaitBounded ==
  \A n \in Rows : row[n].pc = "wait" => row[n].spent <= LongestBackoff

\* The handlers' time that all other rows together may take before a message's
\* turn comes, shared by the handlers.
LongestQueue == ((Cardinality(Rows) - 1) * (HttpTimeout + StepTime)) \div Slots

(* A message waits in notifier.push-send for no more than the calls of the    *)
(* other notifications under way, however they crowd the queue: the broker    *)
(* leaves no handler idle and lets no message overtake.                       *)
QueueWaitBounded ==
  \A n \in Rows : row[n].pc = "queued" => row[n].spent <= LongestQueue

\* The threshold leaves room for every attempt at its slowest.
HasRoom ==
  RecoveryThreshold > StepTime
                        + Policy.maxAttempts * (LongestQueue + HttpTimeout + StepTime)
                        + (Policy.maxAttempts - 1) * LongestBackoff

(* A row is settled before recoverStuck can take it for stuck and start a     *)
(* second chain of deliveries for it, blocked heads and crowded queues        *)
(* included: if the threshold has room for as many notifications as are under *)
(* way, statements and publishes keep to StepTime, and no message is lost,    *)
(* copied or skipped. Nothing in the code enforces the first two.             *)
SettledBeforeRecovery == HasRoom => \A n \in Rows : row[n].age < RecoveryThreshold
=============================================================================
