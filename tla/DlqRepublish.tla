----------------------------- MODULE DlqRepublish -----------------------------
(***************************************************************************)
(* RepublishInboxDlqCommand: an admin request drains notifier.ingest.dlq   *)
(* once.  It publishes the messages it wants to notifications.ingest and   *)
(* every other message to the dead-letter exchange, which puts it at the   *)
(* tail of the queue being drained.  Requests may run concurrently, and    *)
(* ingest consumers may shelve messages meanwhile.                         *)
(***************************************************************************)
EXTENDS Naturals, Sequences, FiniteSets

CONSTANTS
  Messages,   \* messages that are ever shelved
  Invalid,    \* those that are not JSON, or not an ingest event
  Drains,     \* admin requests
  MaxFaults   \* bound: failed publishes and interrupted requests

ASSUME InvalidAssumption == Invalid \subseteq Messages
ASSUME DrainsAssumption == IsFiniteSet(Drains)
ASSUME FaultsAssumption == MaxFaults \in Nat

VARIABLES
  dlq,          \* notifier.ingest.dlq, head first
  shelved,      \* messages shelved so far
  republished,  \* copies of each message published to notifications.ingest
  drain,        \* what each request is doing
  faults        \* faults so far

vars == <<dlq, shelved, republished, drain, faults>>

Drain == [pc: {"new", "next", "handle", "requeue", "ack", "done"},
          ids: SUBSET Messages,        \* what the request filters for
          remaining: Nat,              \* gets left
          unacked: Seq(Messages),      \* the message taken and not acked yet
          snapshot: SUBSET Messages,   \* what was queued when it began
          visits: [Messages -> Nat]]   \* times it took each message

NewDrain == [pc |-> "new", ids |-> {}, remaining |-> 0, unacked |-> <<>>,
             snapshot |-> {}, visits |-> [m \in Messages |-> 0]]

Queued == {dlq[i] : i \in DOMAIN dlq}

(* The type invariant. *)
TypeOK ==
  /\ dlq \in Seq(Messages)
  /\ shelved \in SUBSET Messages
  /\ republished \in [Messages -> Nat]
  /\ drain \in [Drains -> Drain]
  /\ \A r \in Drains : Len(drain[r].unacked) <= 1
  /\ faults \in Nat

Init ==
  /\ dlq = <<>>
  /\ shelved = {}
  /\ republished = [m \in Messages |-> 0]
  /\ drain = [r \in Drains |-> NewDrain]
  /\ faults = 0

\* The ingest consumer's DLX publish.
Shelve(m) ==
  /\ m \notin shelved
  /\ shelved' = shelved \cup {m}
  /\ dlq' = Append(dlq, m)
  /\ UNCHANGED <<republished, drain, faults>>

-----------------------------------------------------------------------------
(* The request *)

Goto(r, pc) == drain' = [drain EXCEPT ![r].pc = pc]
Taken(r) == Head(drain[r].unacked)

\* Mutant of Depth: one get too many.
DepthLonger == Len(dlq) + 1
\* Mutant of Depth: the last message is not reached.
DepthShorter == IF dlq = <<>> THEN 0 ELSE Len(dlq) - 1
\* checkQueue: "we drain at most this many messages".
Depth == Len(dlq)

Begun(ids) ==
  [NewDrain EXCEPT !.pc = "next", !.ids = ids, !.remaining = Depth, !.snapshot = Queued]

Snapshot(r, ids) ==
  /\ drain[r].pc = "new"
  /\ drain' = [drain EXCEPT ![r] = Begun(ids)]
  /\ UNCHANGED <<dlq, shelved, republished, faults>>

\* Mutant of MoreToGet: one get more than the counter allows.
MoreToGetUncounted(r) == dlq # <<>>
MoreToGet(r) == drain[r].remaining > 0 /\ dlq # <<>>

Visited(visits, m) == [visits EXCEPT ![m] = @ + 1]

Handling(r, m) ==
  [drain[r] EXCEPT !.pc = "handle", !.remaining = @ - 1, !.unacked = <<m>>,
                   !.visits = Visited(@, m)]

\* basic.get, when the loop goes on.
Take(r) ==
  /\ drain[r].pc = "next"
  /\ MoreToGet(r)
  /\ drain' = [drain EXCEPT ![r] = Handling(r, Head(dlq))]
  /\ dlq' = Tail(dlq)
  /\ UNCHANGED <<shelved, republished, faults>>

\* Mutant of Drained: waits for as many messages as it counted.
DrainedCounted(r) == drain[r].remaining = 0
Drained(r) == drain[r].remaining = 0 \/ dlq = <<>>

\* The loop is over, or the queue is empty: the channel is closed.
Close(r) ==
  /\ drain[r].pc = "next"
  /\ Drained(r)
  /\ Goto(r, "done")
  /\ UNCHANGED <<dlq, shelved, republished, faults>>

\* Mutant of Wanted: the schema is not checked.
WantedUnchecked(r) == drain[r].ids
Wanted(r) == {m \in Messages \ Invalid : m \in drain[r].ids}

\* The confirmed publish to notifications.ingest.
Republish(r) ==
  /\ drain[r].pc = "handle"
  /\ Taken(r) \in Wanted(r)
  /\ republished' = [republished EXCEPT ![Taken(r)] = @ + 1]
  /\ Goto(r, "ack")
  /\ UNCHANGED <<dlq, shelved, faults>>

\* Mutant of Requeued: the copy is never published.
RequeuedNothing(r) == dlq
\* Mutant of Requeued: nacked with requeue, after the copy was published.
RequeuedTwice(r) == Append(drain[r].unacked \o dlq, Taken(r))
Requeued(r) == Append(dlq, Taken(r))

\* requeueViaDlx: for what is invalid, filtered out, or failed to publish.
Requeue(r) ==
  /\ \/ drain[r].pc = "requeue"
     \/ drain[r].pc = "handle" /\ Taken(r) \notin Wanted(r)
  /\ dlq' = Requeued(r)
  /\ Goto(r, "ack")
  /\ UNCHANGED <<shelved, republished, faults>>

Settled(r, pc) == [drain[r] EXCEPT !.pc = pc, !.unacked = <<>>]

Ack(r) ==
  /\ drain[r].pc = "ack"
  /\ drain' = [drain EXCEPT ![r] = Settled(r, "next")]
  /\ UNCHANGED <<dlq, shelved, republished, faults>>

-----------------------------------------------------------------------------
(* Faults *)

Fault == faults < MaxFaults /\ faults' = faults + 1

\* The connection goes after the broker took the copy and before its confirm
\* came: the producer's ChannelWrapper will send it again. The delivery that the
\* same connection takes back is Interrupted's fault.
ConfirmLost(r) ==
  /\ drain[r].pc = "handle"
  /\ Taken(r) \in Wanted(r)
  /\ republished' = [republished EXCEPT ![Taken(r)] = @ + 1]
  /\ Fault
  /\ UNCHANGED <<dlq, shelved, drain>>

\* The publish throws; the broker may have taken the message all the same.
PublishFails(r) ==
  /\ drain[r].pc = "handle"
  /\ Taken(r) \in Wanted(r)
  /\ republished' \in {republished, [republished EXCEPT ![Taken(r)] = @ + 1]}
  /\ Goto(r, "requeue")
  /\ Fault
  /\ UNCHANGED <<dlq, shelved>>

\* The process dies, or the channel: what was not acknowledged returns to the
\* head of the queue.
Interrupted(r) ==
  /\ drain[r].pc \notin {"new", "done"}
  /\ dlq' = drain[r].unacked \o dlq
  /\ drain' = [drain EXCEPT ![r] = Settled(r, "done")]
  /\ Fault
  /\ UNCHANGED <<shelved, republished>>

-----------------------------------------------------------------------------
DrainStep(r) == Take(r) \/ Close(r) \/ Republish(r) \/ Requeue(r) \/ Ack(r)

Next ==
  \/ \E m \in Messages : Shelve(m)
  \/ \E r \in Drains :
       \/ \E ids \in SUBSET Messages : Snapshot(r, ids)
       \/ DrainStep(r)
       \/ ConfirmLost(r) \/ PublishFails(r)
       \/ Interrupted(r)

Spec == Init /\ [][Next]_vars

(* A request that was accepted is carried on with.                            *)
FairSpec == Spec /\ \A r \in Drains : WF_vars(DrainStep(r))

-----------------------------------------------------------------------------
(* Properties *)

\* Copies of a message in the queue, or taken from it and not passed on yet.
Copies(m) ==
  Cardinality({i \in DOMAIN dlq : dlq[i] = m})
    + Cardinality({r \in Drains : /\ drain[r].pc \in {"handle", "requeue"}
                                  /\ drain[r].unacked = <<m>>})

(* Whatever requests run at the same time, and wherever one is interrupted, a *)
(* shelved message stays shelved or has been republished.                     *)
NoneLost == \A m \in shelved : Copies(m) + republished[m] >= 1

(* There is one of each shelved message, plus at most one for each fault: a   *)
(* lost connection is a fault for the confirm and one for the delivery.       *)
NoneCopied == \A m \in shelved : Copies(m) + republished[m] <= 1 + faults

(* An invalid message never leaves the queue.                                 *)
InvalidStays ==
  \A m \in shelved \cap Invalid : Copies(m) >= 1 /\ republished[m] = 0

\* No other request has run beside it, and nothing has failed.
Alone(r) == faults = 0 /\ \A q \in Drains \ {r} : drain[q].pc = "new"

(* A request that runs alone takes nothing twice, although what it skips      *)
(* returns to the queue it drains.                                            *)
AloneVisitsOnce ==
  \A r \in Drains : Alone(r) => \A m \in Messages : drain[r].visits[m] <= 1

(* A request that runs alone republishes all it was asked to, although new    *)
(* messages arrive and the ones it skips return to the tail.                  *)
DrainComplete ==
  \A r \in Drains :
    Alone(r) /\ drain[r].pc = "done" =>
      \A m \in drain[r].snapshot \cap Wanted(r) : republished[m] = 1

(* Every request ends, although it feeds the queue it drains and others too.  *)
DrainEnds == \A r \in Drains : drain[r].pc # "new" ~> drain[r].pc = "done"
=============================================================================
