---------------------------- MODULE IngestPipeline ----------------------------
(***************************************************************************)
(* The notifier's inbound path: notifier.ingest, its consumers (Handlers), *)
(* the retry ring that sends a rejected message back after its TTL, the    *)
(* dead-letter queue for messages that were rejected MaxAttempts times,    *)
(* and the admin's republish out of it.  The consumer is the base class's  *)
(* dispatch around IngestConsumer.handle.                                  *)
(*                                                                         *)
(* A message is told from another by its event and by how often            *)
(* notifier.ingest has dead-lettered it (x-death), so a queue is a bag of  *)
(* such pairs.                                                             *)
(***************************************************************************)
EXTENDS Naturals, FiniteSets

CONSTANTS
  Events,        \* (type, sourceEventId) pairs
  Bad,           \* those whose type or params the catalog rejects
  Handlers,      \* deliveries in progress (prefetch 10, two replicas)
  MaxAttempts,   \* dlq.maxAttempts
  MaxSent,       \* bound: times the outbox publishes one event
  MaxRepublish,  \* bound: admin republishes
  MaxFaults      \* bound: crashes and lost channels

ASSUME BadAssumption == Bad \subseteq Events
ASSUME AttemptsAssumption == MaxAttempts \in Nat \ {0}
ASSUME HandlersAssumption == IsFiniteSet(Handlers)
ASSUME BoundAssumption ==
  MaxSent \in Nat /\ MaxRepublish \in Nat /\ MaxFaults \in Nat

VARIABLES
  topology,  \* the retry queue and the dead-letter queue are declared
  ingest,    \* messages ready in notifier.ingest
  retry,     \* messages waiting in notifier.ingest.retry
  dlq,       \* messages in notifier.ingest.dlq, which nobody consumes
  handler,   \* what each delivery in progress is doing
  stored,    \* (type, source_event_id) of the rows in notifications
  count,     \* what has happened to each event how often
  dropped,   \* events rejected while the retry queue was not there yet
  faults     \* faults so far

db == <<stored, dropped>>
vars == <<topology, ingest, retry, dlq, handler, db, count, faults>>

\* Values x-death[notifier.ingest].count may take; the last is never queued.
Deaths == 0..MaxAttempts
Bag == [Events -> [Deaths -> Nat]]
Idle == [pc |-> "idle"]
Busy == [pc: {"insert", "dedupe", "fail", "ack"}, event: Events, deaths: Deaths,
         channel: {"open", "lost"}]
\* Published by the outbox, by the admin; deliveries failed; messages shelved.
Counted == {"sent", "again", "failures", "shelved"}

(* The type invariant. *)
TypeOK ==
  /\ topology \in BOOLEAN
  /\ ingest \in Bag /\ retry \in Bag
  /\ \A e \in Events : ingest[e][MaxAttempts] = 0 /\ retry[e][MaxAttempts] = 0
  /\ dlq \in [Events -> Nat]
  /\ handler \in [Handlers -> Busy \cup {Idle}]
  /\ stored \in SUBSET Events /\ dropped \in SUBSET Events
  /\ count \in [Events -> [Counted -> Nat]]
  /\ faults \in Nat

NoMessage == [e \in Events |-> [d \in Deaths |-> 0]]

Init ==
  /\ topology \in BOOLEAN
  /\ ingest = NoMessage /\ retry = NoMessage
  /\ dlq = [e \in Events |-> 0]
  /\ handler = [h \in Handlers |-> Idle]
  /\ stored = {} /\ dropped = {}
  /\ count = [e \in Events |-> [k \in Counted |-> 0]]
  /\ faults = 0

Put(bag, e, d) == [bag EXCEPT ![e][d] = @ + 1]
Take(bag, e, d) == [bag EXCEPT ![e][d] = @ - 1]
Count(e, k) == count' = [count EXCEPT ![e][k] = @ + 1]
Goto(h, pc) == handler' = [handler EXCEPT ![h].pc = pc]
Leave(h) == handler' = [handler EXCEPT ![h] = Idle]

-----------------------------------------------------------------------------
(* The outbox of the users service publishes, at least once. *)
Publish(e) ==
  /\ count[e]["sent"] < MaxSent
  /\ Count(e, "sent")
  /\ ingest' = Put(ingest, e, 0)
  /\ UNCHANGED <<topology, retry, dlq, handler, db, faults>>

\* NotifierTopologyService declares the retry ring; on the first boot the
\* consumer, whose module hook runs concurrently, may be ahead of it.
DeclareTopology ==
  /\ ~topology
  /\ topology' = TRUE
  /\ UNCHANGED <<ingest, retry, dlq, handler, db, count, faults>>

-----------------------------------------------------------------------------
(* IngestConsumer.handle *)

\* Parsing and the catalog lookup happen before the first await.
Deliver(h, e, d) ==
  /\ handler[h] = Idle
  /\ ingest[e][d] > 0
  /\ ingest' = Take(ingest, e, d)
  /\ \/ /\ e \in Bad
        /\ handler' = [handler EXCEPT ![h] =
             [pc |-> "fail", event |-> e, deaths |-> d, channel |-> "open"]]
        /\ Count(e, "failures")
     \/ /\ e \notin Bad
        /\ handler' = [handler EXCEPT ![h] =
             [pc |-> "insert", event |-> e, deaths |-> d, channel |-> "open"]]
        /\ UNCHANGED count
  /\ UNCHANGED <<topology, retry, dlq, db, faults>>

\* Mutant of Inserted: the transaction is not awaited, and rolls back.
InsertedLost(e) == stored
Inserted(e) == stored \cup {e}

\* The unique constraint on (type, source_event_id) is violated.
Duplicate(h) == handler[h].event \in stored

\* The row and its CREATED entry, or a violation of the unique constraint.
Insert(h) ==
  /\ handler[h].pc = "insert"
  /\ stored' = Inserted(handler[h].event)
  /\ Goto(h, IF Duplicate(h) THEN "dedupe" ELSE "ack")
  /\ UNCHANGED <<topology, ingest, retry, dlq, dropped, count, faults>>

\* findByIdempotencyKey on the primary, after the constraint was violated.
Dedupe(h) ==
  /\ handler[h].pc = "dedupe"
  /\ handler[h].event \in stored
  /\ Goto(h, "ack")
  /\ UNCHANGED <<topology, ingest, retry, dlq, db, count, faults>>

\* A statement throws; the transaction may have committed all the same.
StatementFails(h) ==
  /\ handler[h].pc \in {"insert", "dedupe"}
  /\ stored' \in {stored, Inserted(handler[h].event)}
  /\ Goto(h, "fail")
  /\ Count(handler[h].event, "failures")
  /\ UNCHANGED <<topology, ingest, retry, dlq, dropped, faults>>

-----------------------------------------------------------------------------
(* handleError *)

\* Mutant of Exhausted: one rejection short of the budget.
ExhaustedEarly(h) == handler[h].deaths + 2 >= MaxAttempts
\* Mutant of Exhausted: one rejection more than the budget.
ExhaustedLate(h) == handler[h].deaths >= MaxAttempts
Exhausted(h) == handler[h].deaths + 1 >= MaxAttempts

Failed(h) == handler[h].pc = "fail" /\ handler[h].channel = "open"

\* Mutant of Died: x-death is not carried round the ring.
DiedUncounted(d) == d
Died(d) == d + 1

\* nack without requeue: dead-lettered to the retry queue, if there is one.
Reject(h) ==
  /\ Failed(h) /\ ~Exhausted(h)
  /\ \/ /\ topology
        /\ retry' = Put(retry, handler[h].event, Died(handler[h].deaths))
        /\ UNCHANGED dropped
     \/ /\ ~topology
        /\ dropped' = dropped \cup {handler[h].event}
        /\ UNCHANGED retry
  /\ Leave(h)
  /\ UNCHANGED <<topology, ingest, dlq, stored, count, faults>>

\* Publish to the DLX, then acknowledge: two frames, the broker may see one.
\* Publishing on an open channel does not throw, on a lost one nor does nack
\* reach the broker: the fallback of the code changes nothing.
DeadLetter(h) ==
  /\ Failed(h) /\ Exhausted(h)
  /\ dlq' = [dlq EXCEPT ![handler[h].event] = @ + 1]
  /\ Count(handler[h].event, "shelved")
  /\ Goto(h, "ack")
  /\ UNCHANGED <<topology, ingest, retry, db, faults>>

\* The delivery is over: acknowledged, or on a channel that is gone, where ack
\* and nack throw and the broker has queued the message again.
Finish(h) ==
  /\ \/ handler[h].pc = "ack"
     \/ handler[h].pc = "fail" /\ handler[h].channel = "lost"
  /\ Leave(h)
  /\ UNCHANGED <<topology, ingest, retry, dlq, db, count, faults>>

\* The 5 s TTL of the retry queue: back to notifications.ingest under the
\* original routing key, with the x-death header kept.
ExpireRetry(e, d) ==
  /\ retry[e][d] > 0
  /\ retry' = Take(retry, e, d)
  /\ ingest' = Put(ingest, e, d)
  /\ UNCHANGED <<topology, dlq, handler, db, count, faults>>

\* The admin's drain: publish with a confirm and no headers, then ack.
Republish(e) ==
  /\ dlq[e] > 0 /\ count[e]["again"] < MaxRepublish
  /\ dlq' = [dlq EXCEPT ![e] = @ - 1]
  /\ ingest' = Put(ingest, e, 0)
  /\ Count(e, "again")
  /\ UNCHANGED <<topology, retry, handler, db, faults>>

-----------------------------------------------------------------------------
(* Faults *)

Fault == faults < MaxFaults /\ faults' = faults + 1

\* The broker requeues what an interrupted delivery had not acknowledged, with
\* its x-death as it was.
Requeued(h) ==
  IF handler[h].channel = "open"
  THEN Put(ingest, handler[h].event, handler[h].deaths) ELSE ingest

HandlerCrash(h) ==
  /\ handler[h] # Idle
  /\ ingest' = Requeued(h)
  /\ Leave(h)
  /\ Fault
  /\ UNCHANGED <<topology, retry, dlq, db, count>>

\* The handler runs on while the broker delivers its message to another one.
LoseChannel(h) ==
  /\ handler[h] # Idle /\ handler[h].channel = "open"
  /\ ingest' = Requeued(h)
  /\ handler' = [handler EXCEPT ![h].channel = "lost"]
  /\ Fault
  /\ UNCHANGED <<topology, retry, dlq, db, count>>

\* The drain dies after the confirm and before the ack; or its confirm is lost
\* and the producer sends the copy again, to the same effect.
RepublishDies(e) ==
  /\ dlq[e] > 0 /\ count[e]["again"] < MaxRepublish
  /\ ingest' = Put(ingest, e, 0)
  /\ Count(e, "again")
  /\ Fault
  /\ UNCHANGED <<topology, retry, dlq, handler, db>>

-----------------------------------------------------------------------------
HandlerStep(h) ==
  \/ Insert(h) \/ Dedupe(h) \/ StatementFails(h)
  \/ Reject(h) \/ DeadLetter(h) \/ Finish(h)

EventStep(e) ==
  \/ Publish(e) \/ Republish(e) \/ RepublishDies(e)
  \/ \E d \in Deaths : ExpireRetry(e, d)

Next ==
  \/ DeclareTopology
  \/ \E e \in Events : EventStep(e)
  \/ \E h \in Handlers, e \in Events, d \in Deaths : Deliver(h, e, d)
  \/ \E h \in Handlers : HandlerStep(h) \/ HandlerCrash(h) \/ LoseChannel(h)

Spec == Init /\ [][Next]_vars

-----------------------------------------------------------------------------
(* Properties *)

(* An event that was published is a row, or a message somewhere that is not   *)
(* dealt with, or was rejected before the retry queue existed:                *)
(* acknowledgements, rejections, crashes and lost channels leave no other hole. *)
NothingVanishes ==
  \A e \in Events : count[e]["sent"] > 0 =>
    \/ e \in stored \cup dropped
    \/ dlq[e] > 0
    \/ \E d \in Deaths : ingest[e][d] > 0 \/ retry[e][d] > 0
    \/ \E h \in Handlers : /\ handler[h] # Idle /\ handler[h].event = e
                           /\ handler[h].pc # "ack" /\ handler[h].channel = "open"

\* The sum of a function from a finite set to Nat: its value at x is a column
\* of so many pairs over x.
Column(w, x) == {x} \X (1..w[x])
Total(w) == Cardinality(UNION {Column(w, x) : x \in DOMAIN w})

\* How many messages of an event go round with how many deaths.
Ring(e) == [d \in Deaths |-> ingest[e][d] + retry[e][d]]
Weighed(r, w) == Total([d \in Deaths |-> r[d] * w[d]])
Dead == [d \in Deaths |-> d]
Left == [d \in Deaths |-> MaxAttempts - d]

Acting(e, m) == m # Idle /\ m.event = e

\* Failures an event's delivery m carries towards its shelving.
Carried(e, m) ==
  IF ~Acting(e, m) \/ m.channel = "lost" \/ m.pc = "ack" THEN 0
  ELSE IF m.pc = "fail" THEN m.deaths + 1 ELSE m.deaths

\* Failures an event's delivery m may still cause, its message included; a
\* lost acknowledgement gives one of them back.
Unspent(e, m) ==
  CASE ~Acting(e, m) -> 0
    [] Acting(e, m) /\ m.channel = "lost" -> IF m.pc \in {"fail", "ack"} THEN 0 ELSE 1
    [] Acting(e, m) /\ m.channel = "open" ->
         MaxAttempts - m.deaths - (IF m.pc \in {"fail", "ack"} THEN 1 ELSE 0)

(* A message is shelved only after MaxAttempts failed deliveries: every entry *)
(* of the dead-letter queue and every death a message carries was paid for by *)
(* a failure, but for what a lost acknowledgement repeats.                    *)
ShelvedPaid ==
  \A e \in Events :
    MaxAttempts * count[e]["shelved"] + Weighed(Ring(e), Dead)
        + Total([h \in Handlers |-> Carried(e, handler[h])])
      <= count[e]["failures"] + (MaxAttempts - 1) * faults

(* An event fails no more often than its publications allow, so a message     *)
(* that can never succeed does not circle: every publication gives it         *)
(* MaxAttempts deliveries, a fault one more.                                  *)
FailuresBounded ==
  \A e \in Events :
    count[e]["failures"] + Weighed(Ring(e), Left)
        + Total([h \in Handlers |-> Unspent(e, handler[h])])
      <= MaxAttempts * (count[e]["sent"] + count[e]["again"]) + faults
=============================================================================
