--------------------------- MODULE ConsumerShutdown ---------------------------
(***************************************************************************)
(* The life of a consumer process around one queue: deliveries under its   *)
(* prefetch, lost and restored connections, and SIGTERM, which starts two  *)
(* things at once.  Nest closes the connection (onModuleDestroy) and then  *)
(* lets the consumer cancel and drain (onApplicationShutdown); the tracing *)
(* library exits the process as soon as its exporter is shut down.         *)
(*                                                                         *)
(* A handler whose connection is gone is an orphan: its message is the     *)
(* broker's again, and its ack and nack throw out of dispatch, which       *)
(* nobody awaits, so the process ends in an unhandled rejection.           *)
(***************************************************************************)
EXTENDS Naturals, Functions, FiniteSets

CONSTANTS
  Messages,   \* messages ever put into the queue
  Replicas,   \* processes that consume it
  Prefetch,   \* of the consumer's channel
  MaxStops,   \* bound: SIGTERMs
  MaxLosses   \* bound: lost connections

ASSUME PrefetchAssumption == Prefetch \in Nat \ {0}
ASSUME FiniteAssumption == IsFiniteSet(Messages) /\ IsFiniteSet(Replicas)
ASSUME BoundAssumption == MaxStops \in Nat /\ MaxLosses \in Nat

VARIABLES
  proc,       \* where each process is in its life
  consuming,  \* processes with an open connection and a consumer on it
  ready,      \* messages ready in the queue
  unacked,    \* deliveries of each process the broker waits for
  orphans,    \* handlers of each process that run on a closed channel
  starts,     \* times a handler was started for each message
  stops,      \* SIGTERMs so far
  losses      \* lost connections so far

broker == <<ready, unacked>>
bounds == <<stops, losses>>
vars == <<proc, consuming, broker, orphans, starts, bounds>>

Phase == {"up", "stopping", "closed", "draining", "drained", "exited"}

(* The type invariant. *)
TypeOK ==
  /\ proc \in [Replicas -> Phase]
  /\ consuming \in SUBSET Replicas
  /\ ready \in SUBSET Messages
  /\ unacked \in [Replicas -> SUBSET Messages]
  /\ \A r \in Replicas : Cardinality(unacked[r]) <= Prefetch
  /\ orphans \in [Replicas -> [Messages -> Nat]]
  /\ starts \in [Messages -> Nat]
  /\ stops \in Nat /\ losses \in Nat

NoHandlers == [m \in Messages |-> 0]

Init ==
  /\ proc = [r \in Replicas |-> "up"]
  /\ consuming = Replicas
  /\ ready = Messages
  /\ unacked = [r \in Replicas |-> {}]
  /\ orphans = [r \in Replicas |-> NoHandlers]
  /\ starts = NoHandlers
  /\ stops = 0 /\ losses = 0

\* The consumer's inFlight.
InFlight(r) ==
  Cardinality(unacked[r]) + FoldFunction(LAMBDA x, y : x + y, 0, orphans[r])

\* The connection goes: the broker takes back what was not acknowledged.
Disconnect(r) ==
  /\ consuming' = consuming \ {r}
  /\ ready' = ready \cup unacked[r]
  /\ unacked' = [unacked EXCEPT ![r] = {}]

\* The handlers that were at work on the connection do not notice.
Orphan(r) ==
  orphans' = [orphans EXCEPT ![r] =
    [m \in Messages |-> orphans[r][m] + IF m \in unacked[r] THEN 1 ELSE 0]]

\* The process ends, and its handlers with it.
Die(r) ==
  /\ proc' = [proc EXCEPT ![r] = "exited"]
  /\ Disconnect(r)
  /\ orphans' = [orphans EXCEPT ![r] = NoHandlers]

-----------------------------------------------------------------------------
(* The consumer *)

\* Mutant of MayTake: one delivery more than the prefetch.
MayTakeOneMore(r) == r \in consuming /\ Cardinality(unacked[r]) <= Prefetch
MayTake(r) == r \in consuming /\ Cardinality(unacked[r]) < Prefetch

\* The flag that refuses deliveries is set after the connection was closed, so
\* the callback never sees it.
Deliver(r, m) ==
  /\ MayTake(r)
  /\ m \in ready
  /\ ready' = ready \ {m}
  /\ unacked' = [unacked EXCEPT ![r] = @ \cup {m}]
  /\ starts' = [starts EXCEPT ![m] = @ + 1]
  /\ UNCHANGED <<proc, consuming, orphans, bounds>>

\* Mutant of Settled: the message is not settled before the next one is taken.
SettledLate(r, m) == ready' = ready \cup {m}
Settled(r, m) == UNCHANGED ready

\* The handler returns and its message is acknowledged, or it throws and the
\* message is rejected without requeue: either way the queue is rid of it.
Finish(r, m) ==
  /\ m \in unacked[r]
  /\ unacked' = [unacked EXCEPT ![r] = @ \ {m}]
  /\ Settled(r, m)
  /\ UNCHANGED <<proc, consuming, orphans, starts, bounds>>

\* ack throws, nack throws in handleError, dispatch rejects.
FinishOrphan(r, m) ==
  /\ orphans[r][m] > 0
  /\ Die(r)
  /\ UNCHANGED <<starts, bounds>>

LoseConnection(r) ==
  /\ r \in consuming /\ proc[r] = "up"
  /\ losses < MaxLosses
  /\ losses' = losses + 1
  /\ Disconnect(r)
  /\ Orphan(r)
  /\ UNCHANGED <<proc, starts, stops>>

\* Mutant of Resubscribed: only the first connection runs the setup.
ResubscribedOnce(r) == consuming
Resubscribed(r) == consuming \cup {r}

\* The channel's setup runs again on the new connection: consumer and all.
Reconnect(r) ==
  /\ r \notin consuming /\ proc[r] = "up"
  /\ consuming' = Resubscribed(r)
  /\ UNCHANGED <<proc, broker, orphans, starts, bounds>>

-----------------------------------------------------------------------------
(* The end of a process and its successor *)

Signal(r) ==
  /\ proc[r] = "up"
  /\ stops < MaxStops
  /\ stops' = stops + 1
  /\ proc' = [proc EXCEPT ![r] = "stopping"]
  /\ UNCHANGED <<consuming, broker, orphans, starts, losses>>

\* RmqConnection.onModuleDestroy.
CloseConnection(r) ==
  /\ proc[r] = "stopping"
  /\ proc' = [proc EXCEPT ![r] = "closed"]
  /\ Disconnect(r)
  /\ Orphan(r)
  /\ UNCHANGED <<starts, bounds>>

\* Mutant of DrainTimer: armed when there is nothing to wait for.
DrainTimerIdle(r) == InFlight(r) = 0
DrainTimer(r) == InFlight(r) > 0

\* onApplicationShutdown. The cancel fails or does nothing: the channel is gone.
StartDrain(r) ==
  /\ proc[r] = "closed"
  /\ proc' = [proc EXCEPT ![r] = IF InFlight(r) > 0 THEN "draining" ELSE "drained"]
  /\ UNCHANGED <<consuming, broker, orphans, starts, bounds>>

\* No orphan can end the drain, since its end ends the process: the timer does,
\* and "drained cleanly" is written all the same.
DrainTimeout(r) ==
  /\ proc[r] = "draining"
  /\ DrainTimer(r)
  /\ proc' = [proc EXCEPT ![r] = "drained"]
  /\ UNCHANGED <<consuming, broker, orphans, starts, bounds>>

\* Tracing's own SIGTERM listener: process.exit once its exporter has shut down,
\* wherever Nest is by then, or never. Nest at its end sends the process the
\* signal again, but only for this listener to ask the exporter once more.
Exit(r) ==
  /\ proc[r] \in Phase \ {"up", "exited"}
  /\ Die(r)
  /\ UNCHANGED <<starts, bounds>>

\* The container runtime kills a process that outlives its grace period.
Kill(r) ==
  /\ proc[r] \in Phase \ {"up", "exited"}
  /\ Die(r)
  /\ UNCHANGED <<starts, bounds>>

Restart(r) ==
  /\ proc[r] = "exited"
  /\ proc' = [proc EXCEPT ![r] = "up"]
  /\ consuming' = consuming \cup {r}
  /\ UNCHANGED <<broker, orphans, starts, bounds>>

-----------------------------------------------------------------------------
ShutdownStep(r) == CloseConnection(r) \/ StartDrain(r) \/ DrainTimeout(r)

Next == \E r \in Replicas :
  \/ \E m \in Messages : Deliver(r, m) \/ Finish(r, m) \/ FinishOrphan(r, m)
  \/ LoseConnection(r) \/ Reconnect(r)
  \/ Signal(r) \/ ShutdownStep(r) \/ Exit(r) \/ Kill(r) \/ Restart(r)

Spec == Init /\ [][Next]_vars

(* Nest goes on with its shutdown, the runtime kills what is left when it is  *)
(* done, and starts stopped processes again; connections come back, and       *)
(* handlers on an open channel return. An orphan may hang, and the tracing    *)
(* exporter may never finish: nothing is asked of Exit.                       *)
Fairness ==
  /\ \A r \in Replicas :
       /\ WF_vars(ShutdownStep(r))
       /\ WF_vars(proc[r] = "drained" /\ Kill(r))
       /\ WF_vars(Restart(r))
       /\ WF_vars(Reconnect(r))
       /\ \A m \in Messages : WF_vars(Finish(r, m))
  /\ \A m \in Messages : SF_vars(\E r \in Replicas : Deliver(r, m))

FairSpec == Spec /\ Fairness

-----------------------------------------------------------------------------
(* Properties *)

(* A handler is started again for a message only because a process was        *)
(* stopped or its connection lost; a loss counts twice, since the orphans it  *)
(* leaves take the restored connection down with the process.                 *)
StartsBounded ==
  \A m \in Messages : starts[m] <= 1 + stops + 2 * losses

(* Every message is settled in the end, however processes stop and lose their *)
(* connections.                                                               *)
Settles == \A m \in Messages :
  <>[](m \notin ready /\ \A r \in Replicas : m \notin unacked[r])

(* Nest comes to the end of a shutdown it was told to begin, although its     *)
(* handlers may hang on a closed channel: the drain gives them up.            *)
ShutdownEnds ==
  \A r \in Replicas : proc[r] = "stopping" ~> proc[r] \in {"drained", "exited"}

(* docs/plans/user-push-microservices.md: the consumer "cancels the broker    *)
(* consumer, awaits in-flight handlers (10s drain timeout), then closes the   *)
(* channel". A process that is stopping closes its connection under no        *)
(* handler, unless the drain has timed out.                                   *)
ClosedAfterDrain ==
  [][\A r \in Replicas :
       /\ proc[r] # "up" /\ r \in consuming /\ r \notin consuming'
       => unacked[r] = {} \/ proc[r] = "drained"]_vars
=============================================================================
