---------------------------- MODULE OutboxPromise ----------------------------
(***************************************************************************)
(* What an outbox promises its readers: an event that was created is       *)
(* published at least once, and is ticked off only after that.             *)
(***************************************************************************)
CONSTANT Events

VARIABLES
  created,    \* events whose transaction has committed
  sent,       \* events the broker has confirmed at least once
  settled     \* events ticked off as published

Init == created = {} /\ sent = {} /\ settled = {}

Create(e) ==
  /\ e \notin created
  /\ created' = created \cup {e}
  /\ UNCHANGED <<sent, settled>>

Send(e) ==
  /\ e \in created
  /\ sent' = sent \cup {e}
  /\ UNCHANGED <<created, settled>>

Settle(e) ==
  /\ e \in sent
  /\ settled' = settled \cup {e}
  /\ UNCHANGED <<created, sent>>

Next == \E e \in Events : Create(e) \/ Send(e) \/ Settle(e)

vars == <<created, sent, settled>>

SafeSpec == Init /\ [][Next]_vars

Spec == /\ Init
        /\ [][Next]_vars
        /\ \A e \in Events : WF_vars(Send(e)) /\ WF_vars(Settle(e))
=============================================================================
