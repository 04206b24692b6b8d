------------------------------- MODULE EndToEnd -------------------------------
(***************************************************************************)
(* The way of a user through the services.  The users service's outbox (O) *)
(* is here what UsersOutbox implements, OutboxPromise; what it publishes   *)
(* arrives in the ingest path (I); the row the ingest path inserts is      *)
(* delivered (P) at the ticks the scheduler puts into notifier.cron.  Each *)
(* part takes the steps of its own module; here are the steps that two     *)
(* parts take together.                                                    *)
(***************************************************************************)
EXTENDS Naturals, Sequences, FiniteSets

CONSTANTS
  Users,       \* users, by the number of their USER_WELCOME event
  IngestHandlers, PushHandlers, Tickers,
  MaxAttempts, MaxRedrives,
  MaxBacklog,  \* bound: ticks the scheduler leaves in notifier.cron
  MaxSent,
  MaxFaults    \* bound: faults, wherever they happen

ASSUME UsersAssumption == Users \subseteq Nat /\ IsFiniteSet(Users)
ASSUME ActorsAssumption ==
  IsFiniteSet(IngestHandlers) /\ IsFiniteSet(PushHandlers) /\ IsFiniteSet(Tickers)
ASSUME RetryAssumption == MaxAttempts \in Nat \ {0} /\ MaxRedrives \in Nat \ {0}
ASSUME BoundAssumption == MaxBacklog \in Nat /\ MaxSent \in Nat /\ MaxFaults \in Nat

VARIABLES
  created, sent,
  topology, ingest, ingestRetry, dlq, inserter, stored, count, dropped, ingestFaults,
  row, due, replica, wal, work, retry, handler, tick, admin, history, done,
  accepted, pushFaults,
  bound,       \* notifier.ingest and notifier.cron are bound
  ticks        \* ticks ready in notifier.cron

outboxVars == <<created, sent>>
ingestVars ==
  <<topology, ingest, ingestRetry, dlq, inserter, stored, count, dropped, ingestFaults>>
pushVars == <<row, due, replica, wal, work, retry, handler, tick, admin, history,
              done, accepted, pushFaults>>
vars == <<outboxVars, ingestVars, pushVars, bound, ticks>>

\* That the outbox ticks off what it has sent changes nothing downstream.
O == INSTANCE OutboxPromise WITH Events <- Users, settled <- {}

I == INSTANCE IngestPipeline WITH
  Events <- Users, Bad <- {}, Handlers <- IngestHandlers, handler <- inserter,
  retry <- ingestRetry, faults <- ingestFaults, MaxRepublish <- 0

\* The replica does not lag here: a lookup that comes too early drops its message,
\* and so does LookupThrow.
P == INSTANCE PushDelivery WITH
  Rows <- Users, Handlers <- PushHandlers, BatchSize <- 1, faults <- pushFaults,
  MaxManual <- 0, MaxLag <- 0

(* The type invariant. *)
TypeOK ==
  /\ I!TypeOK /\ P!TypeOK
  /\ bound \in BOOLEAN /\ ticks \in 0..MaxBacklog + MaxFaults

Init ==
  /\ O!Init /\ I!Init /\ P!Init
  /\ topology            \* for the race of the first boot see IngestPipeline
  /\ bound \in BOOLEAN /\ ticks = 0

-----------------------------------------------------------------------------
(* The scheduler publishes and forgets; a publish that fails is logged, as if *)
(* never fired.                                                               *)

\* A tick that finds no queue goes to the alternate exchange's queue unrouted,
\* which nobody reads.
Routed == IF bound THEN ticks + 1 ELSE ticks

Fire ==
  /\ ticks < MaxBacklog
  /\ ticks' = Routed
  /\ UNCHANGED <<outboxVars, ingestVars, pushVars, bound>>

\* The notifier's consumers declare their queues and bindings; they stay.
Bind ==
  /\ ~bound /\ bound' = TRUE
  /\ UNCHANGED <<outboxVars, ingestVars, pushVars, ticks>>

-----------------------------------------------------------------------------
(* Steps of one part, and steps of two *)

OutboxAlone(A) == A /\ UNCHANGED <<ingestVars, pushVars, bound, ticks>>
IngestAlone(A) == A /\ UNCHANGED <<outboxVars, pushVars, bound, ticks>>
PushAlone(A) == A /\ UNCHANGED <<outboxVars, ingestVars, bound, ticks>>

\* POST /users
CreateUser(e) == OutboxAlone(O!Create(e))

\* What the outbox publishes is a message of notifier.ingest, or lost when that
\* is not bound.
Publish(e) ==
  /\ O!Send(e)
  /\ IF bound THEN I!Publish(e) ELSE UNCHANGED ingestVars
  /\ UNCHANGED <<pushVars, bound, ticks>>

\* The transaction that stores the event inserts the notification.
IngestHandler(h) ==
  /\ I!HandlerStep(h)
  /\ IF stored' = stored THEN UNCHANGED pushVars ELSE P!Ingest(inserter[h].event)
  /\ UNCHANGED <<outboxVars, bound, ticks>>

IngestDeliver(e) ==
  IngestAlone(\E h \in IngestHandlers, d \in 0..MaxAttempts : I!Deliver(h, e, d))

IngestExpire(e) == IngestAlone(\E d \in 0..MaxAttempts : I!ExpireRetry(e, d))

\* A tick begins with a message of notifier.cron.
NotifierTick(t) ==
  \/ /\ ticks > 0 /\ ticks' = ticks - 1
     /\ P!FailCapped(t)
     /\ UNCHANGED <<outboxVars, ingestVars, bound>>
  \/ tick[t].pc # "idle" /\ PushAlone(P!TickStep(t))

\* A tick that throws is rejected and gone; one whose process died comes back.
NotifierTickFails(t) ==
  /\ P!TickDies(t)
  /\ ticks' \in {ticks, ticks + 1}
  /\ UNCHANGED <<outboxVars, ingestVars, bound>>

PushDeliver(e) == PushAlone(\E h \in PushHandlers : P!Deliver(h, e))

FaultStep ==
  \/ IngestAlone(\E h \in IngestHandlers : I!HandlerCrash(h) \/ I!LoseChannel(h))
  \/ PushAlone(\E h \in PushHandlers : \/ P!HandlerCrash(h) \/ P!LoseChannel(h)
                                       \/ P!HandlerThrow(h))
  \/ PushAlone(\E e \in Users : P!LookupThrow(e))
  \/ PushAlone(P!ConfirmLost)
  \/ \E t \in Tickers : NotifierTickFails(t)

-----------------------------------------------------------------------------
UserStep(e) ==
  \/ CreateUser(e)
  \/ Publish(e)
  \/ IngestDeliver(e) \/ PushDeliver(e)
  \/ IngestExpire(e)
  \/ PushAlone(P!BecomeDue(e) \/ P!Age(e) \/ P!ExpireRetry(e))

Next ==
  /\ \/ Fire \/ Bind
     \/ \E e \in Users : UserStep(e)
     \/ \E h \in IngestHandlers : IngestHandler(h)
     \/ \E t \in Tickers : NotifierTick(t)
     \/ \E h \in PushHandlers : PushAlone(P!HandlerStep(h))
     \/ FaultStep
  /\ ingestFaults' + pushFaults' <= MaxFaults

Spec == Init /\ [][Next]_vars

(* The outbox keeps its promise, the scheduler fires again and again, and no  *)
(* part that is alive is starved.                                             *)
Fairness ==
  /\ WF_vars(Fire)
  /\ \A h \in IngestHandlers : WF_vars(IngestHandler(h))
  /\ \A t \in Tickers : WF_vars(NotifierTick(t))
  /\ \A h \in PushHandlers : WF_vars(PushAlone(P!HandlerStep(h)))
  /\ \A e \in Users :
       /\ WF_vars(e \notin sent /\ Publish(e))
       /\ WF_vars(IngestDeliver(e)) /\ WF_vars(PushDeliver(e))
       /\ WF_vars(IngestExpire(e))
       /\ WF_vars(PushAlone(P!BecomeDue(e)))
       /\ WF_vars(PushAlone(P!Age(e)))
       /\ WF_vars(PushAlone(P!ExpireRetry(e)))

FairSpec == Spec /\ Fairness

-----------------------------------------------------------------------------
(* Properties *)

\* Published before notifier.ingest was bound, and never after.
LostOnFirstBoot(e) == e \in sent /\ count[e]["sent"] = 0

\* A message of notifier.ingest, of its retry ring or its dead-letter queue, or
\* a delivery that the broker will repeat or the consumer complete.
InIngestPath(e) ==
  \/ dlq[e] > 0
  \/ \E d \in 0..MaxAttempts : ingest[e][d] > 0 \/ ingestRetry[e][d] > 0
  \/ \E h \in IngestHandlers :
       /\ inserter[h].pc \notin {"idle", "ack"}
       /\ inserter[h].event = e /\ inserter[h].channel = "open"

(* An event whose publish the broker has confirmed is a notification, or a    *)
(* message of the ingest path, or was lost on the first boot.                 *)
SentIsKept ==
  \A e \in sent : LostOnFirstBoot(e) \/ row[e].status # "ABSENT" \/ InIngestPath(e)

(* Every user that was created is notified, or the notifier has given the     *)
(* push up, or the event waits for the admin in the dead-letter queue; only   *)
(* the first boot can lose it.                                                *)
EveryUserIsServed ==
  \A e \in Users : e \in created ~>
    row[e].status \in {"SENT", "FAILED"} \/ dlq[e] > 0 \/ LostOnFirstBoot(e)
=============================================================================
