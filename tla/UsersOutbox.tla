----------------------------- MODULE UsersOutbox -----------------------------
(***************************************************************************)
(* The users service's transactional outbox: CreateUserCommand writes the  *)
(* user and its outbox row in one transaction; the cron consumers of the   *)
(* replicas (Tickers) sweep rows claimed too long ago, claim a batch, and  *)
(* for each claimed row, concurrently, publish with a confirm and then     *)
(* mark the row published.                                                 *)
(***************************************************************************)
EXTENDS Naturals, FiniteSets

CONSTANTS
  Events,     \* outbox rows; a number, smaller was created earlier
  Tickers,    \* users.outbox-cron consumers (prefetch 1, one per replica)
  BatchSize,  \* outbox.batchSize
  MaxSweeps,  \* bound: sweeps of a row while somebody still publishes it
  MaxFaults   \* bound: crashes, lost confirms, failed publishes and statements

ASSUME EventsAssumption == Events \subseteq Nat /\ IsFiniteSet(Events)
ASSUME TickersAssumption == IsFiniteSet(Tickers)
ASSUME SizeAssumption ==
  BatchSize \in Nat \ {0} /\ MaxSweeps \in Nat /\ MaxFaults \in Nat

VARIABLES
  created,    \* rows of users_outbox
  outbox,     \* published_at and publishing_started_at of each row
  task,       \* what each cron consumer is doing for each row
  ticking,    \* cron consumers between their sweep and their claim
  bound,      \* notifier.ingest is bound to the ingest exchange
  confirmed,  \* rows the broker has confirmed to a publisher or taken at all
  queued,     \* copies of each event routed to notifier.ingest so far
  sweeps,     \* sweeps of each row so far
  resends,    \* copies of each event that cost its publisher a resend
  faults      \* faults so far

claims == <<task, ticking>>
broker == <<bound, confirmed, queued>>
counts == <<sweeps, resends, faults>>
vars == <<created, outbox, claims, broker, counts>>

Clock == {"null", "fresh", "stale"}
OutboxRow == [publishedAt: {"null", "set"}, startedAt: Clock]

(* The type invariant. *)
TypeOK ==
  /\ created \in SUBSET Events
  /\ outbox \in [Events -> OutboxRow]
  /\ task \in [Tickers -> [Events -> {"none", "publish", "mark"}]]
  /\ ticking \in SUBSET Tickers
  /\ bound \in BOOLEAN
  /\ confirmed \in SUBSET Events
  /\ queued \in [Events -> Nat]
  /\ sweeps \in [Events -> Nat]
  /\ resends \in [Events -> Nat]
  /\ faults \in Nat

Init ==
  /\ created = {}
  /\ outbox = [e \in Events |-> [publishedAt |-> "null", startedAt |-> "null"]]
  /\ task = [t \in Tickers |-> [e \in Events |-> "none"]]
  /\ ticking = {}
  /\ bound \in BOOLEAN
  /\ confirmed = {}
  /\ queued = [e \in Events |-> 0]
  /\ sweeps = [e \in Events |-> 0]
  /\ resends = [e \in Events |-> 0]
  /\ faults = 0

-----------------------------------------------------------------------------
(* CreateUserCommand: the user and the outbox row in one transaction. *)
CreateUser(e) ==
  /\ e \notin created
  /\ created' = created \cup {e}
  /\ UNCHANGED <<outbox, claims, broker, counts>>

\* The cron consumers that have claimed the row and are not done with it.
Publishers(e) == {t \in Tickers : task[t][e] # "none"}

\* publishing_started_at falls behind NOW() - stuckThresholdMs, whether or not
\* the publisher is still alive.
Age(e) ==
  /\ outbox[e].startedAt = "fresh"
  /\ sweeps[e] < MaxSweeps \/ Publishers(e) = {}
  /\ outbox' = [outbox EXCEPT ![e].startedAt = "stale"]
  /\ UNCHANGED <<created, claims, broker, counts>>

Resting(t) == t \notin ticking /\ \A e \in Events : task[t][e] = "none"

\* Mutant of Stuck: the comparison is never true.
StuckNever == {e \in Events : FALSE}
Stuck == {e \in Events : outbox[e].publishedAt = "null" /\ outbox[e].startedAt = "stale"}

\* publishing_started_at of the rows of S is set.
Stamp(S, at) ==
  [e \in Events |-> IF e \in S THEN [outbox[e] EXCEPT !.startedAt = at] ELSE outbox[e]]

SweepStuck(t) ==
  /\ Resting(t)
  /\ ticking' = ticking \cup {t}
  /\ outbox' = Stamp(Stuck, "null")
  /\ sweeps' = [e \in Events |-> IF e \in Stuck THEN sweeps[e] + 1 ELSE sweeps[e]]
  /\ UNCHANGED <<created, task, broker, resends, faults>>

\* Mutant of Eligible: the claim ignores publishing_started_at.
EligibleAny == {e \in Events : e \in created /\ outbox[e].publishedAt = "null"}
Eligible == {e \in Events : /\ e \in created
                            /\ outbox[e].publishedAt = "null"
                            /\ outbox[e].startedAt = "null"}

\* ORDER BY created_at LIMIT k
Oldest(S, k) == {e \in S : Cardinality({d \in S : d < e}) < k}

\* Rows a markPublished may have locked: SKIP LOCKED passes over those that are.
Lockable == {e \in Events : \E t \in Tickers : task[t][e] = "mark"}

ClaimBatch(t, locked) ==
  LET batch == Oldest(Eligible \ locked, BatchSize) IN
  /\ t \in ticking
  /\ ticking' = ticking \ {t}
  /\ outbox' = Stamp(batch, "fresh")
  /\ task' = [task EXCEPT ![t] =
       [e \in Events |-> IF e \in batch THEN "publish" ELSE "none"]]
  /\ UNCHANGED <<created, broker, counts>>

\* The broker confirms what it has routed and what it could not route alike: an
\* unroutable message is returned, which the producer only logs.
Taken(e) ==
  /\ confirmed' = confirmed \cup {e}
  /\ queued' = IF bound THEN [queued EXCEPT ![e] = @ + 1] ELSE queued

Publish(t, e) ==
  /\ task[t][e] = "publish"
  /\ Taken(e)
  /\ task' = [task EXCEPT ![t][e] = "mark"]
  /\ UNCHANGED <<created, outbox, ticking, bound, counts>>

\* Mutant of Marked: the claim is left on the published row.
MarkedOnly == [publishedAt |-> "set", startedAt |-> "fresh"]
\* Mutant of Marked: the two columns are swapped.
MarkedSwapped == [publishedAt |-> "null", startedAt |-> "set"]
Marked == [publishedAt |-> "set", startedAt |-> "null"]

Confirmed(t, e) == task[t][e] = "mark"

MarkPublished(t, e) ==
  /\ Confirmed(t, e)
  /\ outbox' = [outbox EXCEPT ![e] = Marked]
  /\ task' = [task EXCEPT ![t][e] = "none"]
  /\ UNCHANGED <<created, ticking, broker, counts>>

-----------------------------------------------------------------------------
(* The environment: the notifier's first boot, and faults. *)

\* The notifier declares its durable queue and binding; they stay.
BindIngestQueue ==
  /\ ~bound
  /\ bound' = TRUE
  /\ UNCHANGED <<created, outbox, claims, confirmed, queued, counts>>

Fault == faults < MaxFaults /\ faults' = faults + 1

\* The connection goes after the broker took the message and before its confirm
\* came. The producer's ChannelWrapper keeps what was not confirmed and sends it
\* again on the next connection; the publish is pending all the while.
ConfirmLost(t, e) ==
  /\ task[t][e] = "publish"
  /\ Taken(e)
  /\ resends' = [resends EXCEPT ![e] = @ + 1]
  /\ Fault
  /\ UNCHANGED <<created, outbox, claims, bound, sweeps>>

\* publishOne catches a publish that is given up (a nack, a channel closed for
\* good) or a failed markPublished, and leaves the row claimed. The broker may
\* have taken the message all the same.
PublishFails(t, e) ==
  /\ task[t][e] = "publish"
  /\ Taken(e) \/ UNCHANGED <<confirmed, queued>>
  /\ task' = [task EXCEPT ![t][e] = "none"]
  /\ Fault
  /\ UNCHANGED <<created, outbox, ticking, bound, sweeps, resends>>

MarkFails(t, e) ==
  /\ task[t][e] = "mark"
  /\ task' = [task EXCEPT ![t][e] = "none"]
  /\ Fault
  /\ UNCHANGED <<created, outbox, ticking, broker, sweeps, resends>>

\* The replica dies, or the sweep or the claim throws.
TickDies(t) ==
  /\ ~Resting(t)
  /\ ticking' = ticking \ {t}
  /\ task' = [task EXCEPT ![t] = [e \in Events |-> "none"]]
  /\ Fault
  /\ UNCHANGED <<created, outbox, broker, sweeps, resends>>

-----------------------------------------------------------------------------
PublishOne(t, e) == Publish(t, e) \/ MarkPublished(t, e)

TickStep(t) ==
  \/ SweepStuck(t)
  \/ \E locked \in SUBSET Lockable : ClaimBatch(t, locked)
  \/ \E e \in Events : PublishOne(t, e)

Next ==
  \/ \E e \in Events : CreateUser(e) \/ Age(e)
  \/ \E t \in Tickers : TickStep(t) \/ TickDies(t)
  \/ \E t \in Tickers, e \in Events :
       ConfirmLost(t, e) \/ PublishFails(t, e) \/ MarkFails(t, e)
  \/ BindIngestQueue

Spec == Init /\ [][Next]_vars

(* Ticks keep coming, time passes, and a tick that is alive is not starved.   *)
Fairness ==
  /\ \A t \in Tickers : WF_vars(TickStep(t))
  /\ \A t \in Tickers, e \in Events : WF_vars(PublishOne(t, e))
  /\ \A e \in Events : WF_vars(Age(e))

FairSpec == Spec /\ Fairness

-----------------------------------------------------------------------------
(* Properties *)

(* A published row carries no claim, whoever else was publishing it: no sweep *)
(* will find it again.                                                        *)
PublishedIsAtRest ==
  \A e \in Events : outbox[e].publishedAt = "set" => outbox[e].startedAt = "null"

Sending(e) == {t \in Tickers : task[t][e] = "publish"}

(* Every copy of the event beyond the first, sent already or about to be,     *)
(* goes back to a sweep of its row, or to a confirm that was lost with the    *)
(* connection: two replicas never publish one claim.                          *)
CopiesPaid ==
  \A e \in Events :
    queued[e] + Cardinality(Sending(e)) <= 1 + sweeps[e] + resends[e]

(* The outbox keeps the abstract promise: created, then sent at least once,   *)
(* then settled; and no created event stays behind.                           *)
Promise == INSTANCE OutboxPromise WITH
  sent <- confirmed,
  settled <- {e \in Events : outbox[e].publishedAt = "set"}

KeepsPromise == Promise!Spec

(* prd-user-push-microservices.md: "No data loss". A row the outbox ticks off *)
(* has at least one copy in the notifier's queue.                             *)
PublishedIsQueued ==
  \A e \in Events : outbox[e].publishedAt = "set" => queued[e] > 0
=============================================================================
