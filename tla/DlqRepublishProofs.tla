-------------------------- MODULE DlqRepublishProofs --------------------------
(***************************************************************************)
(* Draining the dead-letter queue loses and copies nothing, however many   *)
(* requests run at the same time and wherever they are interrupted, and a  *)
(* request alone is complete.  The properties count copies; the induction  *)
(* speaks of a copy that exists, of the places of a message, and of how    *)
(* far a request has come.                                                 *)
(***************************************************************************)
EXTENDS DlqRepublish, FiniteSetTheorems, TLAPS

InQueue(m) == \E i \in DOMAIN dlq : dlq[i] = m
InHand(r, m) == drain[r].pc \in {"handle", "requeue"} /\ drain[r].unacked = <<m>>
Present(m) == InQueue(m) \/ \E r \in Drains : InHand(r, m)

(* A request that is about to pass a message on has taken one.                *)
Holding ==
  \A r \in Drains : drain[r].pc \in {"handle", "requeue"} => drain[r].unacked # <<>>

(* A shelved message is in the queue, in hand or republished, the last never  *)
(* if it is invalid.                                                          *)
Kept == \A m \in shelved : Present(m) \/ republished[m] > 0
ValidOnly == \A m \in Invalid : republished[m] = 0

IInv == TypeOK /\ Holding

-----------------------------------------------------------------------------
(* Sequences *)

(* What a queue holds is still there with a message appended, which is, too.  *)
LEMMA AppendHolds ==
  ASSUME NEW S, NEW s \in Seq(S), NEW x \in S
  PROVE  /\ Append(s, x) \in Seq(S)
         /\ \E j \in DOMAIN Append(s, x) : Append(s, x)[j] = x
         /\ \A i \in DOMAIN s : \E j \in DOMAIN Append(s, x) : Append(s, x)[j] = s[i]
<1>1. Append(s, x) \in Seq(S) /\ Append(s, x)[Len(s) + 1] = x
      /\ Len(s) + 1 \in DOMAIN Append(s, x)
  OBVIOUS
<1>2. ASSUME NEW i \in DOMAIN s
      PROVE  i \in DOMAIN Append(s, x) /\ Append(s, x)[i] = s[i]
  OBVIOUS
<1> QED BY <1>1, <1>2

(* Without its head a queue holds everything else.                            *)
LEMMA TailHolds ==
  ASSUME NEW S, NEW s \in Seq(S), s # <<>>
  PROVE  /\ Head(s) \in S /\ Tail(s) \in Seq(S)
         /\ \A i \in DOMAIN s : s[i] = Head(s)
              \/ \E j \in DOMAIN Tail(s) : Tail(s)[j] = s[i]
<1>1. Head(s) \in S /\ Tail(s) \in Seq(S)
  OBVIOUS
<1>2. ASSUME NEW i \in DOMAIN s, s[i] # Head(s)
      PROVE  i - 1 \in DOMAIN Tail(s) /\ Tail(s)[i - 1] = s[i]
  <2>1. i \in 1..Len(s) /\ i # 1
    BY <1>2
  <2>2. Len(Tail(s)) = Len(s) - 1 /\ i - 1 \in 1..Len(Tail(s))
    BY <2>1
  <2> QED BY <2>1, <2>2
<1> QED BY <1>1, <1>2

(* Put before a queue, messages hide none of it.                              *)
LEMMA PrependHolds ==
  ASSUME NEW S, NEW s \in Seq(S), NEW t \in Seq(S)
  PROVE  /\ t \o s \in Seq(S)
         /\ \A i \in DOMAIN s : \E j \in DOMAIN (t \o s) : (t \o s)[j] = s[i]
         /\ \A i \in DOMAIN t : \E j \in DOMAIN (t \o s) : (t \o s)[j] = t[i]
<1>1. t \o s \in Seq(S)
  OBVIOUS
<1>2. ASSUME NEW i \in DOMAIN s
      PROVE  Len(t) + i \in DOMAIN (t \o s) /\ (t \o s)[Len(t) + i] = s[i]
  OBVIOUS
<1>3. ASSUME NEW i \in DOMAIN t
      PROVE  i \in DOMAIN (t \o s) /\ (t \o s)[i] = t[i]
  OBVIOUS
<1> QED BY <1>1, <1>2, <1>3

-----------------------------------------------------------------------------
(* Types *)

(* The fields of a request.                                                   *)
LEMMA DrainTyped ==
  ASSUME TypeOK, NEW r \in Drains
  PROVE  /\ drain[r].pc \in {"new", "next", "handle", "requeue", "ack", "done"}
         /\ drain[r].unacked \in Seq(Messages) /\ Len(drain[r].unacked) <= 1
         /\ drain[r].remaining \in Nat
         /\ drain[r].visits \in [Messages -> Nat]
BY DEF TypeOK, Drain

(* The states a request is given.                                             *)
LEMMA NewTyped ==
  NewDrain \in Drain /\ NewDrain.pc = "new" /\ NewDrain.unacked = <<>>
<1>1. [m \in Messages |-> 0] \in [Messages -> Nat] /\ <<>> \in Seq(Messages)
  OBVIOUS
<1> QED BY <1>1 DEF NewDrain, Drain

(* A request that has read the depth holds nothing.                           *)
LEMMA BegunTyped ==
  ASSUME TypeOK, NEW ids \in SUBSET Messages
  PROVE  Begun(ids) \in Drain /\ Begun(ids).pc = "next" /\ Begun(ids).unacked = <<>>
<1>1. Depth \in Nat /\ Queued \in SUBSET Messages
  BY DEF TypeOK, Depth, Queued
<1>2. PICK new \in Drain : new = NewDrain /\ new.unacked = <<>>
  BY NewTyped
<1>3. Begun(ids) \in Drain
  BY <1>1, <1>2 DEF Begun, Drain
<1>4. Begun(ids).pc = "next"
  BY <1>2 DEF Begun, Drain
<1>5. Begun(ids).unacked = <<>>
  BY <1>2 DEF Begun, Drain
<1> QED BY <1>3, <1>4, <1>5

(* A request that has got a message holds that one.                           *)
LEMMA HandlingTyped ==
  ASSUME TypeOK, NEW r \in Drains, NEW m \in Messages, drain[r].remaining > 0
  PROVE  /\ Handling(r, m) \in Drain
         /\ Handling(r, m).pc = "handle" /\ Handling(r, m).unacked = <<m>>
<1>1. drain[r] \in Drain
  BY DEF TypeOK
<1>2. drain[r].remaining - 1 \in Nat /\ <<m>> \in Seq(Messages)
  BY <1>1 DEF Drain
<1>3. Visited(drain[r].visits, m) \in [Messages -> Nat]
  BY <1>1 DEF Drain, Visited
<1>4. Handling(r, m) \in Drain
  BY <1>1, <1>2, <1>3 DEF Handling, Drain
<1>5. Handling(r, m).pc = "handle"
  BY <1>1 DEF Handling, Drain
<1>6. Handling(r, m).unacked = <<m>>
  BY <1>1 DEF Handling, Drain
<1> QED BY <1>4, <1>5, <1>6

(* A request that has dealt with its message holds nothing.                   *)
LEMMA SettledTyped ==
  ASSUME TypeOK, NEW r \in Drains, NEW pc \in {"next", "done"}
  PROVE  Settled(r, pc) \in Drain /\ Settled(r, pc).pc = pc
         /\ Settled(r, pc).unacked = <<>>
<1>1. drain[r] \in Drain /\ <<>> \in Seq(Messages)
  BY DEF TypeOK
<1>2. Settled(r, pc) \in Drain
  BY <1>1 DEF Settled, Drain
<1>3. Settled(r, pc).pc = pc
  BY <1>1 DEF Settled, Drain
<1>4. Settled(r, pc).unacked = <<>>
  BY <1>1 DEF Settled, Drain
<1> QED BY <1>2, <1>3, <1>4

(* A request that changes only its counter keeps its type.                    *)
LEMMA GotoTyped ==
  ASSUME TypeOK, NEW r \in Drains,
         NEW pc \in {"new", "next", "handle", "requeue", "ack", "done"}, Goto(r, pc)
  PROVE  /\ drain' \in [Drains -> Drain]
         /\ \A q \in Drains : drain'[q].unacked = drain[q].unacked
         /\ drain'[r].pc = pc /\ \A q \in Drains \ {r} : drain'[q] = drain[q]
BY DEF TypeOK, Goto, Drain

(* A message in hand that is the only one is the one taken.                   *)
LEMMA OneInHand ==
  ASSUME TypeOK, Holding, NEW r \in Drains, drain[r].pc \in {"handle", "requeue"}
  PROVE  Taken(r) \in Messages /\ drain[r].unacked = <<Taken(r)>>
<1> DEFINE u == drain[r].unacked
<1>1. u \in Seq(Messages) /\ Len(u) <= 1 /\ u # <<>>
  BY DrainTyped DEF Holding
<1> HIDE DEF u
<1>2. Len(u) = 1
  BY <1>1
<1>3. u[1] \in Messages /\ Head(u) = u[1]
  BY <1>1, <1>2
<1>4. u = <<u[1]>>
  BY <1>1, <1>2
<1> QED BY <1>3, <1>4 DEF Taken, u

-----------------------------------------------------------------------------
(* Type correctness *)

(* No request has begun at the start.                                         *)
LEMMA InitTyped == Init => IInv
<1> SUFFICES ASSUME Init PROVE IInv
  OBVIOUS
<1>1. NewDrain \in Drain /\ NewDrain.pc = "new" /\ NewDrain.unacked = <<>>
  BY NewTyped
<1>2. drain = [r \in Drains |-> NewDrain] /\ dlq = <<>>
  BY DEF Init
<1>3. drain \in [Drains -> Drain] /\ (\A r \in Drains : Len(drain[r].unacked) <= 1) /\ Holding
  BY <1>1, <1>2 DEF Holding
<1> QED BY <1>3 DEF Init, IInv, TypeOK

(* A request that is given another state keeps the requests well typed.       *)
LEMMA DrainEdit ==
  ASSUME IInv, NEW r \in Drains, NEW d \in Drain, drain' = [drain EXCEPT ![r] = d],
         \/ d.unacked = <<>> /\ d.pc \notin {"handle", "requeue"}
         \/ \E m \in Messages : d.unacked = <<m>>
  PROVE  /\ drain' \in [Drains -> Drain]
         /\ \A q \in Drains : Len(drain'[q].unacked) <= 1
         /\ Holding'
<1>1. Len(d.unacked) <= 1 /\ (d.pc \in {"handle", "requeue"} => d.unacked # <<>>)
  <2>1. CASE d.unacked = <<>> /\ d.pc \notin {"handle", "requeue"}
    BY <2>1
  <2>2. CASE \E m \in Messages : d.unacked = <<m>>
    BY <2>2
  <2> QED BY <2>1, <2>2
<1> QED BY <1>1 DEF IInv, TypeOK, Holding

(* So does one that only goes on.                                             *)
LEMMA GotoEdit ==
  ASSUME IInv, NEW r \in Drains,
         NEW pc \in {"new", "next", "handle", "requeue", "ack", "done"}, Goto(r, pc),
         pc \in {"handle", "requeue"} => drain[r].unacked # <<>>
  PROVE  /\ drain' \in [Drains -> Drain]
         /\ \A q \in Drains : Len(drain'[q].unacked) <= 1
         /\ Holding'
BY GotoTyped DEF IInv, TypeOK, Holding

(* Every step keeps the types and what a request holds.                       *)
LEMMA StepTyped ==
  ASSUME IInv, [Next]_vars PROVE IInv'
<1>0. TypeOK /\ Holding
  BY DEF IInv
<1>1. ASSUME NEW m \in Messages, Shelve(m) PROVE IInv'
  <2>1. dlq' \in Seq(Messages)
    BY <1>0, <1>1, AppendHolds DEF Shelve, TypeOK
  <2> QED BY <1>0, <1>1, <2>1 DEF Shelve, TypeOK, Holding, IInv
<1>2. ASSUME NEW r \in Drains, NEW ids \in SUBSET Messages, Snapshot(r, ids)
      PROVE  IInv'
  <2>1. drain' = [drain EXCEPT ![r] = Begun(ids)]
        /\ UNCHANGED <<dlq, shelved, republished, faults>>
    BY <1>2 DEF Snapshot
  <2>2. drain' \in [Drains -> Drain] /\ (\A q \in Drains : Len(drain'[q].unacked) <= 1)
        /\ Holding'
    BY <1>0, <2>1, BegunTyped, DrainEdit
  <2> QED BY <1>0, <2>1, <2>2 DEF TypeOK, IInv
<1>3. ASSUME NEW r \in Drains, Take(r) PROVE IInv'
  <2>1. Head(dlq) \in Messages /\ dlq' \in Seq(Messages)
    BY <1>0, <1>3, TailHolds DEF Take, MoreToGet, TypeOK
  <2>2. drain' = [drain EXCEPT ![r] = Handling(r, Head(dlq))]
        /\ drain[r].remaining > 0 /\ UNCHANGED <<shelved, republished, faults>>
    BY <1>3 DEF Take, MoreToGet
  <2>3. drain' \in [Drains -> Drain] /\ (\A q \in Drains : Len(drain'[q].unacked) <= 1)
        /\ Holding'
    BY <1>0, <2>1, <2>2, HandlingTyped, DrainEdit
  <2> QED BY <1>0, <2>1, <2>2, <2>3 DEF TypeOK, IInv
<1>4. ASSUME NEW r \in Drains, Close(r) PROVE IInv'
  BY <1>0, <1>4, GotoEdit DEF Close, TypeOK, IInv
<1>5. ASSUME NEW r \in Drains, Republish(r) PROVE IInv'
  <2>1. republished' \in [Messages -> Nat]
    <3>1. Taken(r) \in Messages
      BY <1>5 DEF Republish, Wanted
    <3> QED BY <1>0, <1>5, <3>1 DEF Republish, TypeOK
  <2> QED BY <1>0, <1>5, <2>1, GotoEdit DEF Republish, TypeOK, IInv
<1>6. ASSUME NEW r \in Drains, Requeue(r) PROVE IInv'
  <2>1. drain[r].pc \in {"handle", "requeue"} /\ dlq' = Append(dlq, Taken(r))
    BY <1>6 DEF Requeue, Requeued
  <2>2. dlq' \in Seq(Messages)
    BY <1>0, <2>1, OneInHand, AppendHolds DEF TypeOK
  <2> QED BY <1>0, <1>6, <2>2, GotoEdit DEF Requeue, TypeOK, IInv
<1>7. ASSUME NEW r \in Drains, Ack(r) PROVE IInv'
  <2>1. drain' = [drain EXCEPT ![r] = Settled(r, "next")]
        /\ UNCHANGED <<dlq, shelved, republished, faults>>
    BY <1>7 DEF Ack
  <2>2. drain' \in [Drains -> Drain] /\ (\A q \in Drains : Len(drain'[q].unacked) <= 1)
        /\ Holding'
    BY <1>0, <2>1, SettledTyped, DrainEdit
  <2> QED BY <1>0, <2>1, <2>2 DEF TypeOK, IInv
<1>8. ASSUME NEW r \in Drains, PublishFails(r) PROVE IInv'
  <2>1. republished' \in [Messages -> Nat] /\ faults' \in Nat
    BY <1>0, <1>8 DEF PublishFails, Fault, TypeOK
  <2>2. drain[r].unacked # <<>>
    BY <1>0, <1>8 DEF PublishFails, Holding
  <2> QED BY <1>0, <1>8, <2>1, <2>2, GotoEdit DEF PublishFails, TypeOK, IInv
<1>9. ASSUME NEW r \in Drains, Interrupted(r) PROVE IInv'
  <2>1. dlq' \in Seq(Messages)
    BY <1>0, <1>9, PrependHolds, DrainTyped DEF Interrupted, TypeOK
  <2>2. drain' = [drain EXCEPT ![r] = Settled(r, "done")]
        /\ UNCHANGED <<shelved, republished>> /\ faults' \in Nat
    BY <1>0, <1>9 DEF Interrupted, Fault, TypeOK
  <2>3. drain' \in [Drains -> Drain] /\ (\A q \in Drains : Len(drain'[q].unacked) <= 1)
        /\ Holding'
    BY <1>0, <2>2, SettledTyped, DrainEdit
  <2> QED BY <1>0, <2>1, <2>2, <2>3 DEF TypeOK, IInv
<1>10. ASSUME NEW r \in Drains, ConfirmLost(r) PROVE IInv'
  <2>0. Taken(r) \in Messages
    BY <1>10 DEF ConfirmLost, Wanted
  <2>1. republished' \in [Messages -> Nat] /\ faults' \in Nat
    BY <1>0, <1>10, <2>0 DEF ConfirmLost, Fault, TypeOK
  <2>2. UNCHANGED <<dlq, shelved, drain>>
    BY <1>10 DEF ConfirmLost
  <2> QED BY <1>0, <2>1, <2>2 DEF TypeOK, Holding, IInv
<1>11. CASE UNCHANGED vars
  BY <1>0, <1>11 DEF vars, TypeOK, Holding, IInv
<1> QED BY <1>1, <1>2, <1>3, <1>4, <1>5, <1>6, <1>7, <1>8, <1>9, <1>10, <1>11
        DEF Next, DrainStep

(* Every reachable state of the queue and the requests is well typed.         *)
THEOREM TypeCorrect == Spec => []TypeOK
<1>1. Spec => []IInv
  BY InitTyped, StepTyped, PTL DEF Spec
<1> QED BY <1>1, PTL DEF IInv

-----------------------------------------------------------------------------
(* Nothing is lost *)

(* A request that changes nothing but its counter drops nothing.              *)
LEMMA OthersKeep ==
  ASSUME NEW r \in Drains, NEW q \in Drains, NEW m, q # r, InHand(q, m),
         NEW d, drain \in [Drains -> Drain], drain' = [drain EXCEPT ![r] = d]
  PROVE  InHand(q, m)'
BY DEF InHand

(* What is in the queue or in somebody's hand is after any step still there,  *)
(* or has been republished.                                                   *)
LEMMA StepKeeps ==
  ASSUME IInv, [Next]_vars, NEW m \in Messages, Present(m)
  PROVE  Present(m)' \/ republished'[m] > 0
<1>0. TypeOK /\ Holding /\ drain \in [Drains -> Drain] /\ dlq \in Seq(Messages)
  BY DEF IInv, TypeOK
<1>1. ASSUME NEW n \in Messages, Shelve(n) PROVE Present(m)'
  <2>0. dlq' = Append(dlq, n)
    BY <1>1 DEF Shelve
  <2>1. InQueue(m) => InQueue(m)'
    BY <1>0, <2>0, AppendHolds DEF InQueue
  <2>2. ASSUME NEW q \in Drains, InHand(q, m) PROVE InHand(q, m)'
    BY <1>1, <2>2 DEF Shelve, InHand
  <2> QED BY <2>1, <2>2 DEF Present
<1>2. ASSUME NEW r \in Drains, NEW ids \in SUBSET Messages, Snapshot(r, ids)
      PROVE  Present(m)'
  <2>1. InQueue(m) => InQueue(m)'
    BY <1>2 DEF Snapshot, InQueue
  <2>2. ASSUME NEW q \in Drains, InHand(q, m) PROVE InHand(q, m)'
    BY <1>0, <1>2, <2>2, OthersKeep DEF Snapshot, InHand
  <2> QED BY <2>1, <2>2 DEF Present
<1>3. ASSUME NEW r \in Drains, Take(r) PROVE Present(m)'
  <2>1. dlq # <<>> /\ drain[r].remaining > 0 /\ Head(dlq) \in Messages
        /\ drain' = [drain EXCEPT ![r] = Handling(r, Head(dlq))] /\ dlq' = Tail(dlq)
    BY <1>0, <1>3, TailHolds DEF Take, MoreToGet
  <2>2. m = Head(dlq) => InHand(r, m)'
    <3>1. drain'[r] = Handling(r, Head(dlq))
      BY <1>0, <2>1
    <3>2. drain'[r].pc = "handle" /\ drain'[r].unacked = <<Head(dlq)>>
      BY <1>0, <2>1, <3>1, HandlingTyped
    <3> QED BY <3>2 DEF InHand
  <2>3. InQueue(m) => m = Head(dlq) \/ InQueue(m)'
    BY <1>0, <2>1, TailHolds DEF InQueue
  <2>4. ASSUME NEW q \in Drains, InHand(q, m) PROVE InHand(q, m)'
    BY <1>0, <1>3, <2>1, <2>4, OthersKeep DEF Take, InHand
  <2> QED BY <2>2, <2>3, <2>4 DEF Present
<1>4. ASSUME NEW r \in Drains, Close(r) \/ Ack(r) PROVE Present(m)'
  <2>1. InQueue(m) => InQueue(m)'
    BY <1>4 DEF Close, Ack, InQueue
  <2>2. PICK d : drain' = [drain EXCEPT ![r] = d]
    BY <1>4 DEF Close, Ack, Goto
  <2>3. ASSUME NEW q \in Drains, InHand(q, m) PROVE InHand(q, m)'
    <3>1. q # r
      BY <1>4, <2>3 DEF Close, Ack, InHand
    <3> QED BY <1>0, <2>2, <2>3, <3>1, OthersKeep
  <2> QED BY <2>1, <2>3 DEF Present
<1>5. ASSUME NEW r \in Drains, Republish(r) PROVE Present(m)' \/ republished'[m] > 0
  <2>1. InQueue(m) => InQueue(m)'
    BY <1>5 DEF Republish, InQueue
  <2>2. PICK d : drain' = [drain EXCEPT ![r] = d]
    BY <1>5 DEF Republish, Goto
  <2>3. InHand(r, m) => republished'[m] > 0
    <3>1. InHand(r, m) => Taken(r) = m
      BY DEF InHand, Taken
    <3> QED BY <1>0, <1>5, <3>1 DEF Republish, TypeOK
  <2>4. ASSUME NEW q \in Drains \ {r}, InHand(q, m) PROVE InHand(q, m)'
    BY <1>0, <2>2, <2>4, OthersKeep
  <2> QED BY <2>1, <2>3, <2>4 DEF Present
<1>6. ASSUME NEW r \in Drains, Requeue(r) PROVE Present(m)'
  <2>1. drain[r].pc \in {"handle", "requeue"} /\ dlq' = Append(dlq, Taken(r))
        /\ Taken(r) \in Messages
    BY <1>0, <1>6, OneInHand DEF Requeue, Requeued
  <2>0. /\ \A i \in DOMAIN dlq : \E j \in DOMAIN dlq' : dlq'[j] = dlq[i]
        /\ \E j \in DOMAIN dlq' : dlq'[j] = Taken(r)
    <3> DEFINE x == Taken(r)
    <3>1. x \in Messages /\ dlq' = Append(dlq, x)
      BY <2>1
    <3> HIDE DEF x
    <3>2. \E j \in DOMAIN Append(dlq, x) : Append(dlq, x)[j] = x
      BY <1>0, <3>1, AppendHolds
    <3>3. \A i \in DOMAIN dlq : \E j \in DOMAIN Append(dlq, x) : Append(dlq, x)[j] = dlq[i]
      BY <1>0, <3>1, AppendHolds
    <3>4. /\ \A i \in DOMAIN dlq : \E j \in DOMAIN dlq' : dlq'[j] = dlq[i]
          /\ \E j \in DOMAIN dlq' : dlq'[j] = x
      BY ONLY <3>1, <3>2, <3>3
    <3> QED BY <3>4 DEF x
  <2>2. InQueue(m) => InQueue(m)'
    BY <2>0 DEF InQueue
  <2>3. InHand(r, m) => InQueue(m)'
    <3>1. InHand(r, m) => Taken(r) = m
      BY DEF InHand, Taken
    <3> QED BY <2>0, <3>1 DEF InQueue
  <2>4. PICK d : drain' = [drain EXCEPT ![r] = d]
    BY <1>6 DEF Requeue, Goto
  <2>5. ASSUME NEW q \in Drains \ {r}, InHand(q, m) PROVE InHand(q, m)'
    BY <1>0, <2>4, <2>5, OthersKeep
  <2> QED BY <2>2, <2>3, <2>5 DEF Present
<1>7. ASSUME NEW r \in Drains, PublishFails(r) PROVE Present(m)'
  <2>1. InQueue(m) => InQueue(m)'
    BY <1>7 DEF PublishFails, InQueue
  <2>2. ASSUME NEW q \in Drains, InHand(q, m) PROVE InHand(q, m)'
    BY <1>0, <1>7, <2>2, GotoTyped DEF PublishFails, InHand
  <2> QED BY <2>1, <2>2 DEF Present
<1>8. ASSUME NEW r \in Drains, Interrupted(r) PROVE Present(m)'
  <2>1. drain[r].unacked \in Seq(Messages) /\ dlq' = drain[r].unacked \o dlq
        /\ drain' = [drain EXCEPT ![r] = Settled(r, "done")]
    BY <1>0, <1>8, DrainTyped DEF Interrupted
  <2>0. /\ \A i \in DOMAIN dlq : \E j \in DOMAIN dlq' : dlq'[j] = dlq[i]
        /\ \A i \in DOMAIN drain[r].unacked :
             \E j \in DOMAIN dlq' : dlq'[j] = drain[r].unacked[i]
    <3> DEFINE u == drain[r].unacked
    <3>1. u \in Seq(Messages) /\ dlq' = u \o dlq
      BY <2>1
    <3> HIDE DEF u
    <3>2. /\ \A i \in DOMAIN dlq : \E j \in DOMAIN dlq' : dlq'[j] = dlq[i]
          /\ \A i \in DOMAIN u : \E j \in DOMAIN dlq' : dlq'[j] = u[i]
      BY <1>0, <3>1, PrependHolds
    <3> QED BY <3>2 DEF u
  <2>2. InQueue(m) => InQueue(m)'
    BY <2>0 DEF InQueue
  <2>3. InHand(r, m) => InQueue(m)'
    <3>1. InHand(r, m) => 1 \in DOMAIN drain[r].unacked /\ drain[r].unacked[1] = m
      BY DEF InHand
    <3> QED BY <2>0, <3>1 DEF InQueue
  <2>4. ASSUME NEW q \in Drains \ {r}, InHand(q, m) PROVE InHand(q, m)'
    BY <1>0, <2>1, <2>4, OthersKeep
  <2> QED BY <2>2, <2>3, <2>4 DEF Present
<1>9. CASE UNCHANGED vars \/ \E r \in Drains : ConfirmLost(r)
  BY <1>9 DEF vars, ConfirmLost, Present, InQueue, InHand
<1> QED BY <1>1, <1>2, <1>3, <1>4, <1>5, <1>6, <1>7, <1>8, <1>9
        DEF Next, DrainStep

(* No count of republished copies ever falls, and an invalid message's stays. *)
LEMMA CountsGrow ==
  ASSUME IInv, [Next]_vars, NEW m \in Messages
  PROVE  /\ republished'[m] >= republished[m]
         /\ m \in Invalid => republished'[m] = republished[m]
<1>0. TypeOK
  BY DEF IInv
<1>1. CASE republished' = republished
  BY <1>0, <1>1 DEF TypeOK
<1>2. ASSUME NEW r \in Drains, Taken(r) \in Wanted(r),
             republished' = [republished EXCEPT ![Taken(r)] = @ + 1]
      PROVE  /\ republished'[m] >= republished[m]
             /\ m \in Invalid => republished'[m] = republished[m]
  BY <1>0, <1>2 DEF TypeOK, Wanted
<1> QED BY <1>1, <1>2 DEF Next, DrainStep, Shelve, Snapshot, Take, Close, Republish,
                          Requeue, Ack, ConfirmLost, PublishFails, Interrupted, vars

(* No step loses a message or lets an invalid one go.                         *)
LEMMA StepIsSafe ==
  ASSUME IInv, Kept, ValidOnly, [Next]_vars
  PROVE  Kept' /\ ValidOnly'
<1>0. TypeOK
  BY DEF IInv
<1>1. ValidOnly'
  BY CountsGrow, InvalidAssumption DEF ValidOnly
<1>2. ASSUME NEW m \in shelved PROVE Present(m)' \/ republished'[m] > 0
  <2>1. m \in Messages /\ republished[m] \in Nat
    BY <1>0 DEF TypeOK
  <2>2. CASE Present(m)
    BY <2>1, <2>2, StepKeeps
  <2>3. CASE republished[m] > 0
    <3>1. republished'[m] >= republished[m]
      BY <2>1, CountsGrow
    <3>2. IInv'
      BY StepTyped
    <3> QED BY <2>1, <2>3, <3>1, <3>2 DEF IInv, TypeOK
  <2> QED BY <2>2, <2>3 DEF Kept
<1>3. ASSUME NEW m \in shelved' \ shelved PROVE Present(m)'
  <2>1. PICK n \in Messages : Shelve(n)
    BY <1>3 DEF Next, DrainStep, Snapshot, Take, Close, Republish, Requeue, Ack,
                ConfirmLost, PublishFails, Interrupted, vars
  <2>2. m = n
    BY <1>3, <2>1 DEF Shelve
  <2>3. dlq \in Seq(Messages) /\ dlq' = Append(dlq, m) /\ m \in Messages
    BY <1>0, <2>1, <2>2 DEF Shelve, TypeOK
  <2>4. \E j \in DOMAIN Append(dlq, m) : Append(dlq, m)[j] = m
    BY <2>3, AppendHolds
  <2>5. InQueue(m)'
    BY <2>3, <2>4 DEF InQueue
  <2> QED BY <2>5 DEF Present
<1> QED BY <1>1, <1>2, <1>3 DEF Kept

(* The copies of a message that is present are counted, and there is one.     *)
LEMMA PresentCounts ==
  ASSUME TypeOK, NEW m \in Messages
  PROVE  Copies(m) \in Nat /\ (Present(m) => Copies(m) >= 1)
<1> DEFINE places == {i \in DOMAIN dlq : dlq[i] = m}
           hands == {r \in Drains : /\ drain[r].pc \in {"handle", "requeue"}
                                    /\ drain[r].unacked = <<m>>}
<1>1. IsFiniteSet(places)
  <2>1. IsFiniteSet(DOMAIN dlq)
    <3>1. DOMAIN dlq = 1..Len(dlq) /\ Len(dlq) \in Int /\ 1 \in Int
      BY DEF TypeOK
    <3> QED BY <3>1, FS_Interval
  <2>2. places \subseteq DOMAIN dlq
    OBVIOUS
  <2> QED BY <2>1, <2>2, FS_Subset
<1>2. IsFiniteSet(hands)
  <2>1. hands \subseteq Drains
    OBVIOUS
  <2> QED BY <2>1, DrainsAssumption, FS_Subset
<1>3. Cardinality(places) \in Nat /\ (places # {} => Cardinality(places) # 0)
  BY <1>1, FS_CardinalityType, FS_EmptySet
<1>4. Cardinality(hands) \in Nat /\ (hands # {} => Cardinality(hands) # 0)
  BY <1>2, FS_CardinalityType, FS_EmptySet
<1>5. Copies(m) = Cardinality(places) + Cardinality(hands)
  BY DEF Copies
<1>6. Present(m) => places # {} \/ hands # {}
  BY DEF Present, InQueue, InHand
<1> HIDE DEF places, hands
<1> QED BY <1>3, <1>4, <1>5, <1>6

(* What the two promises rest on.                                             *)
LEMMA Safe == Spec => [](IInv /\ Kept /\ ValidOnly)
<1>1. Init => Kept /\ ValidOnly
  BY InvalidAssumption DEF Init, Kept, ValidOnly
<1> QED BY <1>1, InitTyped, StepTyped, StepIsSafe, PTL DEF Spec

(* Whatever requests run at the same time, fail or are interrupted, a shelved *)
(* message is still shelved or has been republished.                          *)
THEOREM NothingIsLost == Spec => []NoneLost
<1>1. IInv /\ Kept /\ ValidOnly => NoneLost
  <2> SUFFICES ASSUME IInv, Kept, NEW m \in shelved
               PROVE  Copies(m) + republished[m] >= 1
    BY DEF NoneLost
  <2>1. m \in Messages /\ republished[m] \in Nat
    BY DEF IInv, TypeOK
  <2>2. Copies(m) \in Nat /\ (Present(m) => Copies(m) >= 1)
    BY <2>1, PresentCounts DEF IInv
  <2> QED BY <2>1, <2>2 DEF Kept
<1> QED BY <1>1, Safe, PTL

(* An invalid message never leaves the dead-letter queue.                     *)
THEOREM InvalidIsKept == Spec => []InvalidStays
<1>1. IInv /\ Kept /\ ValidOnly => InvalidStays
  <2> SUFFICES ASSUME IInv, Kept, ValidOnly, NEW m \in shelved \cap Invalid
               PROVE  Copies(m) >= 1 /\ republished[m] = 0
    BY DEF InvalidStays
  <2>1. m \in Messages /\ republished[m] = 0
    BY InvalidAssumption DEF ValidOnly
  <2>2. Present(m) => Copies(m) >= 1
    BY <2>1, PresentCounts DEF IInv
  <2> QED BY <2>1, <2>2 DEF Kept
<1> QED BY <1>1, Safe, PTL

-----------------------------------------------------------------------------
(* Counting copies *)

PlacesIn(s, m) == {i \in DOMAIN s : s[i] = m}
Places(m) == PlacesIn(dlq, m)
Hands(m) == {r \in Drains : InHand(r, m)}
Hit(x, m) == IF x = m THEN 1 ELSE 0

(* A queue has finitely many places.                                          *)
LEMMA PlacesFinite ==
  ASSUME NEW S, NEW s \in Seq(S), NEW m
  PROVE  IsFiniteSet(PlacesIn(s, m)) /\ Cardinality(PlacesIn(s, m)) \in Nat
<1>1. DOMAIN s = 1..Len(s) /\ Len(s) \in Int /\ 1 \in Int
  OBVIOUS
<1>2. IsFiniteSet(DOMAIN s)
  BY <1>1, FS_Interval
<1>3. PlacesIn(s, m) \subseteq DOMAIN s
  BY DEF PlacesIn
<1>4. IsFiniteSet(PlacesIn(s, m))
  BY <1>2, <1>3, FS_Subset
<1> QED BY <1>4, FS_CardinalityType

(* At the tail, a message has one place more.                                 *)
LEMMA PlacesAppended ==
  ASSUME NEW S, NEW s \in Seq(S), NEW x \in S, NEW m
  PROVE  Cardinality(PlacesIn(Append(s, x), m)) = Cardinality(PlacesIn(s, m)) + Hit(x, m)
<1>1. IsFiniteSet(PlacesIn(s, m)) /\ Cardinality(PlacesIn(s, m)) \in Nat
  BY PlacesFinite
<1> DEFINE t == Append(s, x)
<1>2. /\ DOMAIN s = 1..Len(s) /\ Len(s) \in Nat
      /\ DOMAIN t = 1..(Len(s) + 1) /\ t[Len(s) + 1] = x
      /\ \A i \in 1..Len(s) : t[i] = s[i]
  OBVIOUS
<1> HIDE DEF t
<1>3. CASE x = m
  <2>1. PlacesIn(t, m) = PlacesIn(s, m) \cup {Len(s) + 1}
    BY <1>2, <1>3 DEF PlacesIn
  <2>2. Len(s) + 1 \notin PlacesIn(s, m)
    BY <1>2 DEF PlacesIn
  <2>3. Cardinality(PlacesIn(t, m)) = Cardinality(PlacesIn(s, m)) + 1
    BY <1>1, <2>1, <2>2, FS_AddElement
  <2> QED BY <1>3, <2>3 DEF Hit, t
<1>4. CASE x # m
  <2>1. PlacesIn(t, m) = PlacesIn(s, m)
    BY <1>2, <1>4 DEF PlacesIn
  <2> QED BY <1>1, <1>4, <2>1 DEF Hit, t
<1> QED BY <1>3, <1>4

(* At the head it has one more too: all other places move up by one.          *)
LEMMA PlacesPrepended ==
  ASSUME NEW S, NEW s \in Seq(S), NEW x \in S, NEW m
  PROVE  Cardinality(PlacesIn(<<x>> \o s, m)) = Cardinality(PlacesIn(s, m)) + Hit(x, m)
<1>1. IsFiniteSet(PlacesIn(s, m)) /\ Cardinality(PlacesIn(s, m)) \in Nat
  BY PlacesFinite
<1> DEFINE t == <<x>> \o s
<1>2. /\ DOMAIN s = 1..Len(s) /\ Len(s) \in Nat
      /\ DOMAIN t = 1..(Len(s) + 1) /\ t[1] = x
      /\ \A i \in 1..Len(s) : t[i + 1] = s[i]
  OBVIOUS
<1> HIDE DEF t
<1> DEFINE moved == {i \in 2..(Len(s) + 1) : t[i] = m}
<1>3. IsFiniteSet(moved) /\ Cardinality(moved) = Cardinality(PlacesIn(s, m))
  <2> DEFINE up == [i \in PlacesIn(s, m) |-> i + 1]
  <2>1. up \in [PlacesIn(s, m) -> moved]
    BY <1>2 DEF PlacesIn
  <2>2. \A i, j \in PlacesIn(s, m) : up[i] = up[j] => i = j
    BY <1>2 DEF PlacesIn
  <2>3. ASSUME NEW j \in moved PROVE \E i \in PlacesIn(s, m) : up[i] = j
    <3>1. j - 1 \in 1..Len(s) /\ (j - 1) + 1 = j
      BY <1>2
    <3>2. j - 1 \in PlacesIn(s, m)
      BY <1>2, <3>1 DEF PlacesIn
    <3> QED BY <3>1, <3>2
  <2>4. up \in Bijection(PlacesIn(s, m), moved)
    BY <2>1, <2>2, <2>3 DEF Bijection, Injection, Surjection, IsInjective
  <2>5. ExistsBijection(PlacesIn(s, m), moved)
    BY <2>4 DEF ExistsBijection
  <2> QED BY <1>1, <2>5, FS_Bijection
<1>4. CASE x = m
  <2>1. PlacesIn(t, m) = moved \cup {1}
    BY <1>2, <1>4 DEF PlacesIn
  <2>2. 1 \notin moved
    OBVIOUS
  <2> HIDE DEF moved
  <2>3. Cardinality(PlacesIn(t, m)) = Cardinality(moved) + 1
    BY <1>3, <2>1, <2>2, FS_AddElement
  <2> QED BY <1>3, <1>4, <2>3 DEF Hit, t
<1>5. CASE x # m
  <2>1. PlacesIn(t, m) = moved
    BY <1>2, <1>5 DEF PlacesIn
  <2> HIDE DEF moved
  <2> QED BY <1>1, <1>3, <1>5, <2>1 DEF Hit, t
<1> QED BY <1>4, <1>5

(* Taking the head takes its place.                                           *)
LEMMA PlacesTaken ==
  ASSUME NEW S, NEW s \in Seq(S), s # <<>>, NEW m
  PROVE  Cardinality(PlacesIn(Tail(s), m)) + Hit(Head(s), m) = Cardinality(PlacesIn(s, m))
<1>1. Head(s) \in S /\ Tail(s) \in Seq(S) /\ s = <<Head(s)>> \o Tail(s)
  OBVIOUS
<1>2. PICK x \in S, t \in Seq(S) : x = Head(s) /\ t = Tail(s) /\ s = <<x>> \o t
  BY <1>1
<1> QED BY <1>2, PlacesPrepended

Counts(x, S) == IF x \in S THEN 1 ELSE 0

(* A set of requests in which only x may have come or gone.                   *)
LEMMA CountEdited ==
  ASSUME NEW S, NEW T, NEW x, IsFiniteSet(S), IsFiniteSet(T), S \ {x} = T \ {x}
  PROVE  /\ Cardinality(S) \in Nat /\ Cardinality(T) \in Nat
         /\ Cardinality(T) + Counts(x, S) = Cardinality(S) + Counts(x, T)
<1>1. Cardinality(S) \in Nat /\ Cardinality(T) \in Nat
  BY FS_CardinalityType
<1>2. Cardinality(S \ {x}) = IF x \in S THEN Cardinality(S) - 1 ELSE Cardinality(S)
  BY FS_RemoveElement
<1>3. Cardinality(T \ {x}) = IF x \in T THEN Cardinality(T) - 1 ELSE Cardinality(T)
  BY FS_RemoveElement
<1>4. Cardinality(S \ {x}) + Counts(x, S) = Cardinality(S)
  BY <1>1, <1>2 DEF Counts
<1>5. Cardinality(S \ {x}) + Counts(x, T) = Cardinality(T)
  BY <1>1, <1>3 DEF Counts
<1>6. Cardinality(S \ {x}) \in Int /\ Counts(x, S) \in Int /\ Counts(x, T) \in Int
  BY <1>1, <1>2 DEF Counts
<1> QED BY <1>1, <1>4, <1>5, <1>6

(* A step of one request changes who has a message in hand by that request.   *)
LEMMA HandsEdited ==
  ASSUME NEW r \in Drains, NEW m, \A q \in Drains \ {r} : drain'[q] = drain[q]
  PROVE  /\ Cardinality(Hands(m)) \in Nat /\ Cardinality(Hands(m)') \in Nat
         /\ Cardinality(Hands(m)') + Counts(r, Hands(m))
              = Cardinality(Hands(m)) + Counts(r, Hands(m)')
<1>1. Hands(m) \subseteq Drains /\ Hands(m)' \subseteq Drains
  BY DEF Hands
<1>2. IsFiniteSet(Hands(m)) /\ IsFiniteSet(Hands(m)')
  BY <1>1, DrainsAssumption, FS_Subset
<1>3. Hands(m) \ {r} = Hands(m)' \ {r}
  BY DEF Hands, InHand
<1> QED BY <1>2, <1>3, CountEdited

-----------------------------------------------------------------------------
(* At most one copy, and one for each fault *)

Total(m) == Cardinality(Places(m)) + Cardinality(Hands(m)) + republished[m]
Single == \A m \in shelved : Total(m) <= 1 + faults

(* Nothing is anywhere before it is shelved, and nobody holds a message       *)
(* between two gets.                                                          *)
Unseen ==
  \A m \in Messages \ shelved :
    ~InQueue(m) /\ republished[m] = 0 /\ \A r \in Drains : drain[r].unacked # <<m>>
EmptyHanded ==
  \A r \in Drains : drain[r].pc \in {"new", "next", "done"} => drain[r].unacked = <<>>

(* The total is a number, and what the property counts.                       *)
LEMMA TotalParts ==
  ASSUME TypeOK, NEW m \in Messages
  PROVE  /\ Cardinality(Places(m)) \in Nat /\ Cardinality(Hands(m)) \in Nat
         /\ republished[m] \in Nat /\ Total(m) \in Nat
         /\ Copies(m) + republished[m] = Total(m)
<1>1. Cardinality(Places(m)) \in Nat
  BY PlacesFinite DEF Places, TypeOK
<1>2. Cardinality(Hands(m)) \in Nat
  <2>1. Hands(m) \subseteq Drains
    BY DEF Hands
  <2> QED BY <2>1, DrainsAssumption, FS_Subset, FS_CardinalityType
<1>3. republished[m] \in Nat
  BY DEF TypeOK
<1>4. Copies(m) = Cardinality(Places(m)) + Cardinality(Hands(m))
  BY DEF Copies, Places, PlacesIn, Hands, InHand
<1>5. Total(m) = Cardinality(Places(m)) + Cardinality(Hands(m)) + republished[m]
  BY DEF Total
<1>6. Total(m) \in Nat
  BY <1>1, <1>2, <1>3, <1>5
<1> QED BY <1>1, <1>2, <1>3, <1>4, <1>5, <1>6

(* Nobody's hands are empty between a get and its ack, or they were not full. *)
LEMMA EmptyHandedStep ==
  ASSUME IInv, EmptyHanded, [Next]_vars
  PROVE  EmptyHanded'
<1>0. TypeOK /\ drain \in [Drains -> Drain]
  BY DEF IInv, TypeOK
<1>1. ASSUME NEW r \in Drains, NEW pc \in {"handle", "requeue", "ack"}, drain[r].pc # "next",
             Goto(r, pc)
      PROVE  EmptyHanded'
  BY <1>0, <1>1, GotoTyped DEF EmptyHanded
<1>2. ASSUME NEW r \in Drains, NEW d \in Drain, drain' = [drain EXCEPT ![r] = d],
             d.pc \in {"new", "next", "done"} => d.unacked = <<>>
      PROVE  EmptyHanded'
  BY <1>0, <1>2 DEF EmptyHanded
<1>3. ASSUME NEW r \in Drains, NEW ids \in SUBSET Messages, Snapshot(r, ids)
      PROVE  EmptyHanded'
  BY <1>0, <1>2, <1>3, BegunTyped DEF Snapshot
<1>4. ASSUME NEW r \in Drains, Take(r) PROVE EmptyHanded'
  <2>1. /\ drain' = [drain EXCEPT ![r] = Handling(r, Head(dlq))]
        /\ Head(dlq) \in Messages /\ drain[r].remaining > 0
    BY <1>0, <1>4, TailHolds DEF Take, MoreToGet, TypeOK
  <2> QED BY <1>0, <1>2, <2>1, HandlingTyped
<1>5. ASSUME NEW r \in Drains, Close(r) PROVE EmptyHanded'
  BY <1>0, <1>5, GotoTyped DEF EmptyHanded, Close
<1>6. ASSUME NEW r \in Drains, Ack(r) \/ Interrupted(r) PROVE EmptyHanded'
  BY <1>0, <1>2, <1>6, SettledTyped DEF Ack, Interrupted
<1>7. ASSUME NEW r \in Drains, Republish(r) \/ Requeue(r) \/ PublishFails(r)
      PROVE  EmptyHanded'
  BY <1>1, <1>7 DEF Republish, Requeue, PublishFails
<1>8. CASE \/ UNCHANGED vars
           \/ \E m \in Messages : Shelve(m)
           \/ \E r \in Drains : ConfirmLost(r)
  BY <1>8 DEF vars, Shelve, ConfirmLost, EmptyHanded
<1> QED BY <1>3, <1>4, <1>5, <1>6, <1>7, <1>8 DEF Next, DrainStep

(* What one step does to the copies of one message.                           *)
LEMMA CopiesMove ==
  ASSUME IInv, IInv', EmptyHanded, [Next]_vars, NEW m \in Messages
  PROVE  \/ Total(m)' + faults <= Total(m) + faults'
         \/ Shelve(m) /\ Total(m)' = Total(m) + 1 /\ faults' = faults
<1>0. /\ TypeOK /\ Holding /\ drain \in [Drains -> Drain] /\ dlq \in Seq(Messages)
      /\ TypeOK'
  BY DEF IInv, TypeOK
<1>p. /\ Cardinality(Places(m)) \in Nat /\ Cardinality(Hands(m)) \in Nat
      /\ republished[m] \in Nat
      /\ Cardinality(Places(m)') \in Nat /\ Cardinality(Hands(m)') \in Nat
      /\ republished'[m] \in Nat
  <2>1. Cardinality(Places(m)') \in Nat
    BY <1>0, PlacesFinite DEF Places, TypeOK
  <2>2. Cardinality(Hands(m)') \in Nat
    <3>1. Hands(m)' \subseteq Drains
      BY DEF Hands
    <3> QED BY <3>1, DrainsAssumption, FS_Subset, FS_CardinalityType
  <2>3. republished'[m] \in Nat
    BY <1>0 DEF TypeOK
  <2> QED BY <1>0, <2>1, <2>2, <2>3, TotalParts
<1>n. PICK P, H, K, Pn, Hn, Kn \in Nat :
        /\ P = Cardinality(Places(m)) /\ H = Cardinality(Hands(m)) /\ K = republished[m]
        /\ Pn = Cardinality(Places(m)') /\ Hn = Cardinality(Hands(m)') /\ Kn = republished'[m]
  BY <1>p
<1>b. /\ Total(m) = P + H + K /\ Total(m)' = Pn + Hn + Kn
      /\ faults \in Nat /\ faults' \in Nat
  BY <1>0, <1>n DEF Total, TypeOK
<1>g. ASSUME Pn + Hn + Kn + faults <= P + H + K + faults'
      PROVE  Total(m)' + faults <= Total(m) + faults'
  BY <1>b, <1>g
<1>c. dlq' = dlq => Pn = P
  BY <1>n DEF Places, PlacesIn
<1>d. ASSUME NEW x \in Messages, dlq' = Append(dlq, x)
      PROVE  Pn = P + Hit(x, m)
  BY <1>n, <1>0, <1>d, PlacesAppended DEF Places
<1>e. drain' = drain => Hn = H
  BY <1>n DEF Hands, InHand
<1>f. \A x, y : Hit(x, y) \in {0, 1}
  BY DEF Hit
<1>1. ASSUME NEW x \in Messages, Shelve(x)
      PROVE  \/ Total(m)' + faults <= Total(m) + faults'
             \/ Shelve(m) /\ Total(m)' = Total(m) + 1 /\ faults' = faults
  <2>1. Pn = P + Hit(x, m) /\ Hn = H /\ Kn = K /\ faults' = faults
    BY <1>n, <1>1, <1>d, <1>e DEF Shelve
  <2>2. CASE x = m
    BY <1>b, <1>1, <2>1, <2>2 DEF Hit
  <2>3. CASE x # m
    BY <1>b, <2>1, <2>3 DEF Hit
  <2> QED BY <2>2, <2>3
<1>2. ASSUME NEW r \in Drains,
             \/ \E ids \in SUBSET Messages : Snapshot(r, ids)
             \/ Close(r) \/ Ack(r)
      PROVE  Total(m)' + faults <= Total(m) + faults'
  <2>1. dlq' = dlq /\ republished' = republished /\ faults' = faults
    BY <1>2 DEF Snapshot, Close, Ack
  <2>2. ~InHand(r, m) /\ ~InHand(r, m)'
    BY <1>0, <1>2, BegunTyped, SettledTyped, GotoTyped DEF Snapshot, Close, Ack, InHand
  <2>3. \A q \in Drains \ {r} : drain'[q] = drain[q]
    BY <1>0, <1>2 DEF Snapshot, Close, Ack, Goto
  <2>4. Hands(m)' = Hands(m)
    BY <2>2, <2>3 DEF Hands, InHand
  <2>5. Pn = P /\ Hn = H /\ Kn = K
    BY <1>n, <1>c, <2>1, <2>4
  <2> QED BY <1>b, <2>1, <2>5
<1>3. ASSUME NEW r \in Drains, Take(r)
      PROVE  Total(m)' + faults <= Total(m) + faults'
  <2>1. /\ dlq # <<>> /\ dlq' = Tail(dlq) /\ Head(dlq) \in Messages
        /\ drain' = [drain EXCEPT ![r] = Handling(r, Head(dlq))]
        /\ republished' = republished /\ faults' = faults
        /\ drain[r].pc = "next" /\ drain[r].remaining > 0
    BY <1>0, <1>3, TailHolds DEF Take, MoreToGet
  <2>2. Pn + Hit(Head(dlq), m) = P
    BY <1>n, <1>0, <2>1, PlacesTaken DEF Places
  <2>3. drain'[r].unacked = <<Head(dlq)>> /\ \A q \in Drains \ {r} : drain'[q] = drain[q]
    BY <1>0, <2>1, HandlingTyped
  <2>4. ~InHand(r, m) /\ (InHand(r, m)' => Head(dlq) = m)
    BY <2>1, <2>3 DEF InHand
  <2>5. Hn + Counts(r, Hands(m)) = H + Counts(r, Hands(m)')
    BY <1>n, <2>3, HandsEdited
  <2>6. Counts(r, Hands(m)) = 0 /\ Counts(r, Hands(m)') <= Hit(Head(dlq), m)
        /\ Counts(r, Hands(m)') \in Nat
    BY <2>4 DEF Counts, Hands, Hit
  <2>7. Kn = K /\ Hit(Head(dlq), m) \in Nat
    <3>1. Kn = K
      BY <1>n, <2>1
    <3>2. Hit(Head(dlq), m) \in {0, 1}
      BY <1>f
    <3> QED BY <3>1, <3>2
  <2>8. faults' = faults
    BY <2>1
  <2>9. Pn + Hn <= P + H
    BY <2>2, <2>5, <2>6, <2>7
  <2> QED BY <1>b, <1>g, <2>7, <2>8, <2>9
<1>4. ASSUME NEW r \in Drains, Republish(r)
      PROVE  Total(m)' + faults <= Total(m) + faults'
  <2>1. /\ drain[r].pc = "handle" /\ Taken(r) \in Messages /\ drain[r].unacked = <<Taken(r)>>
        /\ republished' = [republished EXCEPT ![Taken(r)] = republished[Taken(r)] + 1]
        /\ dlq' = dlq /\ faults' = faults /\ Goto(r, "ack")
    BY <1>0, <1>4, OneInHand DEF Republish
  <2>2. drain'[r].pc = "ack" /\ \A q \in Drains \ {r} : drain'[q] = drain[q]
    BY <1>0, <2>1, GotoTyped
  <2>3. ~InHand(r, m)' /\ (InHand(r, m) <=> Taken(r) = m)
    BY <2>1, <2>2 DEF InHand
  <2>4. Hn + Counts(r, Hands(m)) = H + Counts(r, Hands(m)')
    BY <1>n, <2>2, HandsEdited
  <2>5. Counts(r, Hands(m)') = 0 /\ Counts(r, Hands(m)) = Hit(Taken(r), m)
    BY <2>3 DEF Counts, Hands, Hit
  <2>6. Kn = K + Hit(Taken(r), m)
    BY <1>n, <1>0, <2>1 DEF Hit, TypeOK
  <2> QED BY <1>b, <1>c, <1>f, <2>1, <2>4, <2>5, <2>6
<1>5. ASSUME NEW r \in Drains, Requeue(r)
      PROVE  Total(m)' + faults <= Total(m) + faults'
  <2>1. /\ drain[r].pc \in {"handle", "requeue"}
        /\ Taken(r) \in Messages /\ drain[r].unacked = <<Taken(r)>>
        /\ republished' = republished /\ faults' = faults /\ Goto(r, "ack")
        /\ dlq' = Append(dlq, Taken(r))
    BY <1>0, <1>5, OneInHand DEF Requeue, Requeued
  <2>2. drain'[r].pc = "ack" /\ \A q \in Drains \ {r} : drain'[q] = drain[q]
    BY <1>0, <2>1, GotoTyped
  <2>3. ~InHand(r, m)' /\ (InHand(r, m) <=> Taken(r) = m)
    BY <2>1, <2>2 DEF InHand
  <2>4. Hn + Counts(r, Hands(m)) = H + Counts(r, Hands(m)')
    BY <1>n, <2>2, HandsEdited
  <2>5. Counts(r, Hands(m)') = 0 /\ Counts(r, Hands(m)) = Hit(Taken(r), m)
    BY <2>3 DEF Counts, Hands, Hit
  <2>6. Pn = P + Hit(Taken(r), m)
    <3> DEFINE x == Taken(r)
    <3>1. x \in Messages /\ dlq' = Append(dlq, x)
      BY <2>1
    <3> HIDE DEF x
    <3>2. Pn = P + Hit(x, m)
      BY <1>d, <3>1
    <3> QED BY <3>2 DEF x
  <2>7. Kn = K /\ faults' = faults /\ Hit(Taken(r), m) \in {0, 1}
    BY <1>n, <1>f, <2>1
  <2> QED BY <1>b, <2>4, <2>5, <2>6, <2>7
<1>6. ASSUME NEW r \in Drains, PublishFails(r)
      PROVE  Total(m)' + faults <= Total(m) + faults'
  <2>1. /\ drain[r].pc = "handle" /\ Taken(r) \in Messages /\ drain[r].unacked = <<Taken(r)>>
        /\ \/ republished' = republished
           \/ republished' = [republished EXCEPT ![Taken(r)] = republished[Taken(r)] + 1]
        /\ dlq' = dlq /\ faults' = faults + 1 /\ Goto(r, "requeue")
    BY <1>0, <1>6, OneInHand DEF PublishFails, Fault
  <2>2. /\ drain'[r].pc = "requeue" /\ drain'[r].unacked = drain[r].unacked
        /\ \A q \in Drains \ {r} : drain'[q] = drain[q]
    BY <1>0, <2>1, GotoTyped
  <2>3. Hands(m)' = Hands(m)
    BY <2>1, <2>2 DEF Hands, InHand
  <2>4. Hn = H /\ Pn = P
    BY <1>n, <1>c, <2>1, <2>3
  <2>5. Kn <= K + 1
    <3>1. Kn = K \/ Kn = K + 1
      BY <1>n, <1>0, <2>1 DEF TypeOK
    <3> QED BY <3>1
  <2>6. faults' = faults + 1
    BY <2>1
  <2>7. Pn + Hn + Kn <= P + H + K + 1
    BY <2>4, <2>5
  <2> QED BY <1>b, <1>g, <2>6, <2>7
<1>7. ASSUME NEW r \in Drains, Interrupted(r)
      PROVE  Total(m)' + faults <= Total(m) + faults'
  <2>1. /\ drain[r].unacked \in Seq(Messages) /\ Len(drain[r].unacked) <= 1
        /\ dlq' = drain[r].unacked \o dlq
        /\ drain' = [drain EXCEPT ![r] = Settled(r, "done")]
        /\ republished' = republished /\ faults' = faults + 1
    BY <1>0, <1>7, DrainTyped DEF Interrupted, Fault
  <2>2. Pn <= P + 1
    <3>1. PICK u \in Seq(Messages) : u = drain[r].unacked /\ Len(u) <= 1 /\ dlq' = u \o dlq
      BY <2>1
    <3>2. CASE u = <<>>
      <4>1. dlq' = dlq
        BY <1>0, <3>1, <3>2
      <4> QED BY <1>c, <4>1
    <3>3. CASE u # <<>>
      <4>1. u = <<u[1]>> /\ u[1] \in Messages
        BY <3>1, <3>3
      <4>2. PICK x \in Messages : dlq' = <<x>> \o dlq
        BY <3>1, <4>1
      <4>3. Pn = P + Hit(x, m)
        BY <1>n, <1>0, <4>2, PlacesPrepended DEF Places
      <4> QED BY <1>f, <4>3
    <3> QED BY <3>2, <3>3
  <2>3. drain'[r].pc = "done" /\ \A q \in Drains \ {r} : drain'[q] = drain[q]
    BY <1>0, <2>1, SettledTyped
  <2>4. Hn <= H
    <3>1. Hn + Counts(r, Hands(m)) = H + Counts(r, Hands(m)')
      BY <1>n, <2>3, HandsEdited
    <3>2. Counts(r, Hands(m)') = 0 /\ Counts(r, Hands(m)) \in Nat
      BY <2>3 DEF Counts, Hands, InHand
    <3> QED BY <3>1, <3>2
  <2>5. Kn = K /\ faults' = faults + 1
    BY <1>n, <2>1
  <2>6. Pn + Hn + Kn <= P + H + K + 1
    BY <2>2, <2>4, <2>5
  <2> QED BY <1>b, <1>g, <2>5, <2>6
<1>8. ASSUME NEW r \in Drains, ConfirmLost(r)
      PROVE  Total(m)' + faults <= Total(m) + faults'
  <2>1. /\ drain' = drain /\ dlq' = dlq /\ faults' = faults + 1
        /\ Taken(r) \in Messages
        /\ republished' = [republished EXCEPT ![Taken(r)] = republished[Taken(r)] + 1]
    BY <1>0, <1>8, OneInHand DEF ConfirmLost, Fault
  <2>2. Hands(m)' = Hands(m)
    BY <2>1 DEF Hands, InHand
  <2>3. Hn = H /\ Pn = P
    BY <1>n, <1>c, <2>1, <2>2
  <2>4. Kn <= K + 1
    <3>1. Kn = K \/ Kn = K + 1
      BY <1>n, <1>0, <2>1 DEF TypeOK
    <3> QED BY <3>1
  <2>5. Pn + Hn + Kn <= P + H + K + 1
    BY <2>3, <2>4
  <2>6. faults' = faults + 1
    BY <2>1
  <2> QED BY <1>b, <1>g, <2>5, <2>6
<1>9. CASE UNCHANGED vars
  <2>1. Pn = P /\ Hn = H /\ Kn = K /\ faults' = faults
    BY <1>n, <1>9, <1>c, <1>e DEF vars
  <2> QED BY <1>b, <2>1
<1> QED BY <1>1, <1>2, <1>3, <1>4, <1>5, <1>6, <1>7, <1>8, <1>9 DEF Next, DrainStep

(* Messages enter the exchange by being shelved only.                         *)
LEMMA UnseenStep ==
  ASSUME IInv, EmptyHanded, Unseen, [Next]_vars
  PROVE  Unseen'
<1>0. /\ TypeOK /\ Holding /\ drain \in [Drains -> Drain] /\ dlq \in Seq(Messages)
  BY DEF IInv, TypeOK
<1> SUFFICES ASSUME NEW m \in Messages, m \notin shelved'
             PROVE  ~InQueue(m)' /\ republished'[m] = 0 /\ \A q \in Drains : drain'[q].unacked # <<m>>
  BY DEF Unseen
<1>1. shelved \subseteq shelved'
  BY DEF Next, DrainStep, Shelve, Snapshot, Take, Close, Republish, Requeue, Ack,
         ConfirmLost, PublishFails, Interrupted, vars
<1>2. ~InQueue(m) /\ republished[m] = 0 /\ \A q \in Drains : drain[q].unacked # <<m>>
  BY <1>1 DEF Unseen
<1>3. ASSUME NEW x \in Messages, Shelve(x)
      PROVE  ~InQueue(m)' /\ republished'[m] = 0 /\ \A q \in Drains : drain'[q].unacked # <<m>>
  <2>1. x # m /\ dlq' = Append(dlq, x)
    BY <1>3 DEF Shelve
  <2>2. ~InQueue(m)'
    BY <1>0, <1>2, <2>1 DEF InQueue
  <2> QED BY <1>2, <1>3, <2>2 DEF Shelve
<1>4. ASSUME NEW r \in Drains, NEW ids \in SUBSET Messages, Snapshot(r, ids)
      PROVE  ~InQueue(m)' /\ republished'[m] = 0 /\ \A q \in Drains : drain'[q].unacked # <<m>>
  <2>1. drain'[r].unacked = <<>> /\ \A q \in Drains \ {r} : drain'[q] = drain[q]
    BY <1>0, <1>4, BegunTyped DEF Snapshot
  <2>2. \A q \in Drains : drain'[q].unacked # <<m>>
    BY <1>2, <2>1
  <2> QED BY <1>2, <1>4, <2>2 DEF Snapshot, InQueue
<1>5. ASSUME NEW r \in Drains, Take(r)
      PROVE  ~InQueue(m)' /\ republished'[m] = 0 /\ \A q \in Drains : drain'[q].unacked # <<m>>
  <2>1. /\ dlq # <<>> /\ dlq' = Tail(dlq) /\ Head(dlq) \in Messages
        /\ drain' = [drain EXCEPT ![r] = Handling(r, Head(dlq))] /\ drain[r].remaining > 0
    BY <1>0, <1>5, TailHolds DEF Take, MoreToGet
  <2>2. Head(dlq) # m
    BY <1>0, <1>2, <2>1 DEF InQueue
  <2>3. drain'[r].unacked = <<Head(dlq)>> /\ \A q \in Drains \ {r} : drain'[q] = drain[q]
    BY <1>0, <2>1, HandlingTyped
  <2>4. <<Head(dlq)>> # <<m>>
    BY <2>2
  <2>5. \A q \in Drains : drain'[q].unacked # <<m>>
    BY <1>2, <2>3, <2>4
  <2>6. ~InQueue(m)'
    <3>1. Len(dlq) \in Nat /\ DOMAIN Tail(dlq) = 1..(Len(dlq) - 1)
          /\ \A i \in 1..(Len(dlq) - 1) : Tail(dlq)[i] = dlq[i + 1] /\ i + 1 \in DOMAIN dlq
      BY <1>0, <2>1
    <3> QED BY <1>2, <2>1, <3>1 DEF InQueue
  <2> QED BY <1>2, <1>5, <2>5, <2>6 DEF Take
<1>6. ASSUME NEW r \in Drains, Close(r) \/ Ack(r)
      PROVE  ~InQueue(m)' /\ republished'[m] = 0 /\ \A q \in Drains : drain'[q].unacked # <<m>>
  <2>1. \A q \in Drains : drain'[q].unacked = drain[q].unacked \/ drain'[q].unacked = <<>>
    BY <1>0, <1>6, GotoTyped, SettledTyped DEF Close, Ack
  <2>2. <<>> # <<m>>
    OBVIOUS
  <2> QED BY <1>2, <1>6, <2>1, <2>2 DEF Close, Ack, InQueue
<1>7. ASSUME NEW r \in Drains, Republish(r) \/ PublishFails(r)
      PROVE  ~InQueue(m)' /\ republished'[m] = 0 /\ \A q \in Drains : drain'[q].unacked # <<m>>
  <2>1. /\ drain[r].unacked = <<Taken(r)>> /\ dlq' = dlq
        /\ \/ republished' = republished
           \/ republished' = [republished EXCEPT ![Taken(r)] = @ + 1]
    BY <1>0, <1>7, OneInHand DEF Republish, PublishFails
  <2>2. Taken(r) # m
    BY <1>2, <2>1
  <2>3. republished'[m] = 0
    BY <1>0, <1>2, <2>1, <2>2 DEF TypeOK
  <2>4. \A q \in Drains : drain'[q].unacked = drain[q].unacked
    BY <1>0, <1>7, GotoTyped DEF Republish, PublishFails
  <2> QED BY <1>2, <2>1, <2>3, <2>4 DEF InQueue
<1>8. ASSUME NEW r \in Drains, Requeue(r)
      PROVE  ~InQueue(m)' /\ republished'[m] = 0 /\ \A q \in Drains : drain'[q].unacked # <<m>>
  <2>1. /\ drain[r].unacked = <<Taken(r)>> /\ Taken(r) \in Messages
        /\ dlq' = Append(dlq, Taken(r)) /\ republished' = republished
    BY <1>0, <1>8, OneInHand DEF Requeue, Requeued
  <2>2. PICK x \in Messages : dlq' = Append(dlq, x) /\ x # m
    BY <1>2, <2>1
  <2>3. ~InQueue(m)'
    BY <1>0, <1>2, <2>2 DEF InQueue
  <2>4. \A q \in Drains : drain'[q].unacked = drain[q].unacked
    BY <1>0, <1>8, GotoTyped DEF Requeue
  <2> QED BY <1>2, <2>1, <2>3, <2>4
<1>9. ASSUME NEW r \in Drains, Interrupted(r)
      PROVE  ~InQueue(m)' /\ republished'[m] = 0 /\ \A q \in Drains : drain'[q].unacked # <<m>>
  <2>1. PICK u \in Seq(Messages) :
           Len(u) <= 1 /\ u # <<m>> /\ u = drain[r].unacked /\ dlq' = u \o dlq
    BY <1>0, <1>2, <1>9, DrainTyped DEF Interrupted
  <2>2. \A i \in DOMAIN u : u[i] # m
    <3>0. u \in Seq(Messages) /\ Len(u) <= 1
      BY <2>1
    <3>1. Len(u) \in {0, 1} /\ DOMAIN u = 1..Len(u)
      <4>1. Len(u) \in Nat /\ DOMAIN u = 1..Len(u)
        BY ONLY <3>0
      <4> QED BY ONLY <3>0, <4>1
    <3>2. ASSUME Len(u) = 1, u[1] = m PROVE u = <<m>>
      <4>0. u \in Seq(Messages) /\ Len(u) = 1
        BY <2>1, <3>2
      <4>1. u = <<u[1]>>
        BY ONLY <4>0
      <4> QED BY <3>2, <4>1
    <3> QED BY <2>1, <3>1, <3>2
  <2>3. ~InQueue(m)'
    <3>1. /\ Len(u) \in Nat /\ Len(dlq) \in Nat
          /\ DOMAIN (u \o dlq) = 1..(Len(u) + Len(dlq))
          /\ \A i \in 1..Len(u) : (u \o dlq)[i] = u[i] /\ i \in DOMAIN u
          /\ \A i \in (Len(u) + 1)..(Len(u) + Len(dlq)) :
                (u \o dlq)[i] = dlq[i - Len(u)] /\ i - Len(u) \in DOMAIN dlq
      BY <1>0
    <3> QED BY <1>2, <2>1, <2>2, <3>1 DEF InQueue
  <2>4. \A q \in Drains : drain'[q].unacked = drain[q].unacked \/ drain'[q].unacked = <<>>
    BY <1>0, <1>9, SettledTyped DEF Interrupted
  <2>5. <<>> # <<m>>
    OBVIOUS
  <2> QED BY <1>2, <1>9, <2>3, <2>4, <2>5 DEF Interrupted
<1>10. ASSUME NEW r \in Drains, ConfirmLost(r)
       PROVE  ~InQueue(m)' /\ republished'[m] = 0 /\ \A q \in Drains : drain'[q].unacked # <<m>>
  <2>1. /\ drain[r].unacked = <<Taken(r)>> /\ dlq' = dlq /\ drain' = drain
        /\ republished' = [republished EXCEPT ![Taken(r)] = @ + 1]
    BY <1>0, <1>10, OneInHand DEF ConfirmLost
  <2>2. Taken(r) # m
    BY <1>2, <2>1
  <2>3. republished'[m] = 0
    BY <1>0, <1>2, <2>1, <2>2 DEF TypeOK
  <2> QED BY <1>2, <2>1, <2>3 DEF InQueue
<1>11. CASE UNCHANGED vars
  BY <1>2, <1>11 DEF vars, InQueue
<1> QED BY <1>3, <1>4, <1>5, <1>6, <1>7, <1>8, <1>9, <1>10, <1>11 DEF Next, DrainStep

(* A shelved message starts with one copy and pays for any other.             *)
LEMMA SingleStep ==
  ASSUME IInv, IInv', EmptyHanded, Unseen, Single, [Next]_vars
  PROVE  Single'
<1> SUFFICES ASSUME NEW m \in shelved' PROVE Total(m)' <= 1 + faults'
  BY DEF Single
<1>1. TypeOK /\ TypeOK' /\ m \in Messages /\ faults \in Nat /\ faults' \in Nat
  BY DEF IInv, TypeOK
<1>2. Total(m) \in Nat
  BY <1>1, TotalParts
<1>3. Total(m)' \in Nat
  <2>1. Cardinality(Places(m))' \in Nat
    BY <1>1, PlacesFinite DEF Places, TypeOK
  <2>2. Cardinality(Hands(m))' \in Nat
    <3>1. Hands(m)' \subseteq Drains
      BY DEF Hands
    <3> QED BY <3>1, DrainsAssumption, FS_Subset, FS_CardinalityType
  <2>3. republished'[m] \in Nat
    BY <1>1 DEF TypeOK
  <2> QED BY <2>1, <2>2, <2>3 DEF Total
<1>4. CASE m \in shelved
  <2>1. Total(m) <= 1 + faults
    BY <1>4 DEF Single
  <2>2. ~Shelve(m)
    BY <1>4 DEF Shelve
  <2>3. Total(m)' + faults <= Total(m) + faults'
    BY <1>1, <2>2, CopiesMove
  <2> QED BY ONLY <1>1, <1>2, <1>3, <2>1, <2>3
<1>5. CASE m \notin shelved
  <2>1. Total(m) = 0
    <3>1. Places(m) = {} /\ Hands(m) = {} /\ republished[m] = 0
      BY <1>1, <1>5 DEF Unseen, Places, PlacesIn, InQueue, Hands, InHand
    <3>2. Cardinality({}) = 0
      BY FS_EmptySet
    <3> QED BY <3>1, <3>2 DEF Total
  <2>2. PICK x \in Messages : Shelve(x)
    BY <1>5 DEF Next, DrainStep, Snapshot, Take, Close, Republish, Requeue, Ack,
                ConfirmLost, PublishFails, Interrupted, vars
  <2>3. faults' = faults
    BY <2>2 DEF Shelve
  <2>4. Total(m)' <= Total(m) + 1
    <3>1. \/ Total(m)' + faults <= Total(m) + faults' \/ Total(m)' = Total(m) + 1
      BY <1>1, CopiesMove
    <3> QED BY ONLY <1>1, <1>2, <1>3, <2>3, <3>1
  <2> QED BY ONLY <1>1, <1>2, <1>3, <2>1, <2>4
<1> QED BY <1>4, <1>5

(* What the bound on the copies rests on.                                     *)
LEMMA Counted == Spec => [](IInv /\ EmptyHanded /\ Unseen /\ Single)
<1>1. Init => EmptyHanded /\ Unseen /\ Single
  <2> SUFFICES ASSUME Init PROVE EmptyHanded /\ Unseen /\ Single
    OBVIOUS
  <2>1. NewDrain.unacked = <<>>
    BY NewTyped
  <2>2. \A m : <<>> # <<m>>
    OBVIOUS
  <2>3. dlq = <<>> /\ shelved = {} /\ drain = [r \in Drains |-> NewDrain]
        /\ republished = [m \in Messages |-> 0]
    BY DEF Init
  <2>4. EmptyHanded /\ Single
    BY <2>1, <2>3 DEF EmptyHanded, Single
  <2>5. ASSUME NEW m \in Messages
        PROVE  ~InQueue(m) /\ republished[m] = 0
    BY <2>3 DEF InQueue
  <2>6. ASSUME NEW m, NEW r \in Drains PROVE drain[r].unacked # <<m>>
    BY <2>1, <2>2, <2>3
  <2> QED BY <2>4, <2>5, <2>6 DEF Unseen
<1>2. IInv /\ EmptyHanded /\ Unseen /\ Single /\ [Next]_vars
        => IInv' /\ EmptyHanded' /\ Unseen' /\ Single'
  BY StepTyped, EmptyHandedStep, UnseenStep, SingleStep
<1> QED BY <1>1, <1>2, InitTyped, PTL DEF Spec

(* There is one of each shelved message, and one more at most for each fault: *)
(* neither requests that overlap nor what they requeue copies anything.       *)
THEOREM NothingIsCopied == Spec => []NoneCopied
<1>1. IInv /\ Single => NoneCopied
  <2> SUFFICES ASSUME IInv, Single, NEW m \in shelved
               PROVE  Copies(m) + republished[m] <= 1 + faults
    BY DEF NoneCopied
  <2>1. m \in Messages /\ TypeOK
    BY DEF IInv, TypeOK
  <2> QED BY <2>1, TotalParts DEF Single
<1> QED BY <1>1, Counted, PTL

-----------------------------------------------------------------------------
(* A request alone *)

(* How far a request that runs alone has come: what it has still to get it    *)
(* has not taken before, and is all it is still to republish.                 *)
Ahead(r) == \A i \in 1..drain[r].remaining : drain[r].visits[dlq[i]] = 0
OnceEach(r) == \A m \in Messages : drain[r].visits[m] <= 1
Reached(r, m) ==
  \/ \E i \in 1..drain[r].remaining : dlq[i] = m
  \/ drain[r].pc = "handle" /\ drain[r].unacked = <<m>>
  \/ republished[m] >= 1
Covered(r) == \A m \in drain[r].snapshot \cap Wanted(r) : Reached(r, m)
NotBegun(r) == drain[r].snapshot = {} /\ \A m \in Messages : drain[r].visits[m] = 0

Sweep(r) ==
  /\ drain[r].pc = "new" => NotBegun(r)
  /\ drain[r].pc # "new" => drain[r].remaining <= Len(dlq) /\ Ahead(r) /\ Covered(r)
  /\ drain[r].pc = "done" => drain[r].remaining = 0
  /\ OnceEach(r)

Sweeps == \A r \in Drains : Alone(r) => Sweep(r)

(* Without a fault, a message that is queued twice has two copies.            *)
LEMMA QueuedOnce ==
  ASSUME IInv, Unseen, Single, faults = 0,
         NEW i \in DOMAIN dlq, NEW j \in DOMAIN dlq, dlq[i] = dlq[j]
  PROVE  i = j
<1> SUFFICES ASSUME i # j PROVE FALSE
  OBVIOUS
<1> DEFINE m == dlq[i]
<1>1. TypeOK /\ m \in Messages /\ dlq \in Seq(Messages)
  BY DEF IInv, TypeOK
<1>2. m \in shelved
  BY <1>1 DEF Unseen, InQueue
<1>3. Total(m) <= 1
  BY <1>2 DEF Single
<1>4. {i, j} \subseteq Places(m)
  BY DEF Places, PlacesIn
<1>5. IsFiniteSet(Places(m))
  BY <1>1, PlacesFinite DEF Places
<1>6. Cardinality({i, j}) = 2
  <2>1. Cardinality({i}) = 1 /\ IsFiniteSet({i})
    BY FS_Singleton
  <2>2. Cardinality({i} \cup {j}) = 2
    BY <2>1, FS_AddElement
  <2>3. {i} \cup {j} = {i, j}
    OBVIOUS
  <2> QED BY <2>2, <2>3
<1>7. Cardinality({i, j}) <= Cardinality(Places(m))
  BY <1>4, <1>5, FS_Subset
<1> HIDE DEF m
<1>8. /\ Cardinality(Places(m)) \in Nat /\ Cardinality(Hands(m)) \in Nat
      /\ republished[m] \in Nat
  BY <1>1, TotalParts
<1>9. Total(m) = Cardinality(Places(m)) + Cardinality(Hands(m)) + republished[m]
  BY DEF Total
<1> QED BY ONLY <1>3, <1>6, <1>7, <1>8, <1>9

(* A step that gets nothing leaves the request as far as it was.              *)
LEMMA SweepKept ==
  ASSUME IInv, IInv', NEW r \in Drains, Sweep(r),
         drain[r].pc # "new", drain'[r].pc # "new",
         drain'[r].pc = "done" => drain[r].remaining = 0,
         drain'[r].remaining = drain[r].remaining, drain'[r].visits = drain[r].visits,
         drain'[r].ids = drain[r].ids, drain'[r].snapshot = drain[r].snapshot,
         \/ dlq' = dlq \/ \E x \in Messages : dlq' = Append(dlq, x),
         \A m \in Messages : republished'[m] >= republished[m],
         \A m \in Wanted(r) :
           drain[r].pc = "handle" /\ drain[r].unacked = <<m>>
             => \/ drain'[r].pc = "handle" /\ drain'[r].unacked = <<m>>
                \/ republished'[m] >= 1
  PROVE  Sweep(r)'
<1>0. dlq \in Seq(Messages) /\ Len(dlq) \in Nat /\ drain[r].remaining \in Nat
  BY DrainTyped DEF IInv, TypeOK
<1>1. Len(dlq) <= Len(dlq') /\ Len(dlq') \in Nat /\ \A i \in 1..Len(dlq) : dlq'[i] = dlq[i]
  <2>1. CASE dlq' = dlq
    BY <1>0, <2>1
  <2>2. ASSUME NEW x \in Messages, dlq' = Append(dlq, x)
        PROVE  /\ Len(dlq) <= Len(dlq') /\ Len(dlq') \in Nat
               /\ \A i \in 1..Len(dlq) : dlq'[i] = dlq[i]
    BY <1>0, <2>2
  <2> QED BY <2>1, <2>2
<1>2. drain[r].remaining <= Len(dlq) /\ Ahead(r) /\ Covered(r) /\ OnceEach(r)
  BY DEF Sweep
<1>3. drain'[r].remaining <= Len(dlq')
  BY <1>0, <1>1, <1>2
<1>4. \A i \in 1..drain[r].remaining : i \in 1..Len(dlq) /\ dlq'[i] = dlq[i]
  BY <1>0, <1>1, <1>2
<1>5. Ahead(r)' /\ OnceEach(r)'
  BY <1>2, <1>4 DEF Ahead, OnceEach
<1>6. Covered(r)'
  <2> SUFFICES ASSUME NEW m \in drain[r].snapshot \cap Wanted(r) PROVE Reached(r, m)'
    BY DEF Covered, Wanted
  <2>1. Reached(r, m) /\ m \in Messages /\ m \in Wanted(r)
    BY <1>2 DEF Covered, Wanted
  <2>2. republished[m] \in Nat /\ republished'[m] \in Nat /\ republished'[m] >= republished[m]
    BY <2>1 DEF IInv, TypeOK
  <2>3. republished[m] >= 1 => republished'[m] >= 1
    BY <2>2
  <2> QED BY <1>4, <2>1, <2>3 DEF Reached
<1> QED BY <1>3, <1>5, <1>6 DEF Sweep

(* What a get does to the request.                                            *)
LEMMA HandlingFields ==
  ASSUME TypeOK, NEW r \in Drains, NEW m \in Messages, drain[r].remaining > 0
  PROVE  /\ Handling(r, m).remaining = drain[r].remaining - 1
         /\ Handling(r, m).visits = Visited(drain[r].visits, m)
         /\ Handling(r, m).ids = drain[r].ids
         /\ Handling(r, m).snapshot = drain[r].snapshot
<1>1. drain[r] \in Drain
  BY DEF TypeOK
<1>2. Handling(r, m).remaining = drain[r].remaining - 1
  BY <1>1 DEF Handling, Drain
<1>3. Handling(r, m).visits = Visited(drain[r].visits, m)
  BY <1>1 DEF Handling, Drain
<1>4. Handling(r, m).ids = drain[r].ids
  BY <1>1 DEF Handling, Drain
<1>5. Handling(r, m).snapshot = drain[r].snapshot
  BY <1>1 DEF Handling, Drain
<1> QED BY <1>2, <1>3, <1>4, <1>5

(* Going on changes the counter alone.                                        *)
LEMMA GotoFields ==
  ASSUME TypeOK, NEW r \in Drains, NEW pc, Goto(r, pc)
  PROVE  /\ drain'[r].pc = pc
         /\ drain'[r].remaining = drain[r].remaining /\ drain'[r].visits = drain[r].visits
         /\ drain'[r].ids = drain[r].ids /\ drain'[r].snapshot = drain[r].snapshot
<1>1. drain[r] \in Drain /\ drain \in [Drains -> Drain]
  BY DEF TypeOK
<1>2. drain'[r] = [drain[r] EXCEPT !.pc = pc]
  BY <1>1 DEF Goto
<1> QED BY <1>1, <1>2 DEF Drain

(* A step of the request itself, while it is alone.                           *)
LEMMA SweepOwn ==
  ASSUME IInv, IInv', Unseen, Single, NEW r \in Drains, Sweep(r), faults = 0,
         (\E ids \in SUBSET Messages : Snapshot(r, ids)) \/ DrainStep(r)
  PROVE  Sweep(r)'
<1>0. /\ TypeOK /\ Holding /\ drain \in [Drains -> Drain] /\ dlq \in Seq(Messages)
      /\ drain[r] \in Drain /\ Len(dlq) \in Nat /\ DOMAIN dlq = 1..Len(dlq)
      /\ drain[r].remaining \in Nat /\ drain[r].visits \in [Messages -> Nat]
  BY DrainTyped DEF IInv, TypeOK
<1>a. \A i \in 1..Len(dlq) : dlq[i] \in Messages
  BY <1>0
<1>b. republished \in [Messages -> Nat]
  BY <1>0 DEF TypeOK
<1>1. ASSUME NEW ids \in SUBSET Messages, Snapshot(r, ids)
      PROVE  Sweep(r)'
  <2>1. drain'[r] = Begun(ids) /\ dlq' = dlq
    BY <1>0, <1>1 DEF Snapshot
  <2>2. PICK new \in Drain : new = NewDrain
    BY NewTyped
  <2>3. NewDrain.visits = [m \in Messages |-> 0]
    BY DEF NewDrain
  <2>4. /\ Begun(ids).pc = "next" /\ Begun(ids).remaining = Len(dlq)
        /\ Begun(ids).snapshot = Queued /\ Begun(ids).visits = NewDrain.visits
    BY <2>2 DEF Begun, Drain, Depth
  <2>5. Ahead(r)' /\ OnceEach(r)'
    BY <1>0, <1>a, <2>1, <2>3, <2>4 DEF Ahead, OnceEach
  <2>6. Covered(r)'
    BY <1>0, <2>1, <2>4 DEF Covered, Reached, Queued
  <2> QED BY <1>0, <2>1, <2>4, <2>5, <2>6 DEF Sweep
<1>2. CASE Take(r)
  <2> DEFINE k == drain[r].remaining
  <2>1. /\ drain[r].pc = "next" /\ k > 0 /\ dlq # <<>> /\ dlq' = Tail(dlq)
        /\ drain' = [drain EXCEPT ![r] = Handling(r, Head(dlq))]
        /\ republished' = republished
    BY <1>2 DEF Take, MoreToGet
  <2>2. /\ Head(dlq) = dlq[1] /\ dlq[1] \in Messages /\ Len(dlq) >= 1
        /\ Len(Tail(dlq)) = Len(dlq) - 1
        /\ \A i \in 1..(Len(dlq) - 1) : Tail(dlq)[i] = dlq[i + 1]
    BY <1>0, <2>1
  <2>3. PICK x \in Messages : x = dlq[1]
    BY <2>2
  <2>4. /\ drain'[r].pc = "handle" /\ drain'[r].unacked = <<x>>
        /\ drain'[r].remaining = k - 1
        /\ drain'[r].visits = Visited(drain[r].visits, x)
        /\ drain'[r].ids = drain[r].ids /\ drain'[r].snapshot = drain[r].snapshot
    BY <1>0, <2>1, <2>2, <2>3, HandlingTyped, HandlingFields
  <2>5. k \in Nat /\ k <= Len(dlq) /\ Ahead(r) /\ Covered(r) /\ OnceEach(r)
    BY <1>0, <2>1 DEF Sweep
  <2>6. drain'[r].remaining <= Len(dlq')
    BY <1>0, <2>1, <2>2, <2>4, <2>5
  <2>7. \A i \in 2..k : i \in DOMAIN dlq /\ dlq[i] # x
    BY <1>0, <2>2, <2>3, <2>5, QueuedOnce
  <2>8. \A m \in Messages :
          drain'[r].visits[m] = IF m = x THEN drain[r].visits[m] + 1 ELSE drain[r].visits[m]
    BY <1>0, <2>4 DEF Visited
  <2>9. drain[r].visits[x] = 0
    BY <2>1, <2>3, <2>5 DEF Ahead
  <2>10. Ahead(r)'
    <3> SUFFICES ASSUME NEW i \in 1..(k - 1) PROVE drain'[r].visits[dlq'[i]] = 0
      BY <2>4 DEF Ahead
    <3>1. i + 1 \in 2..k /\ i \in 1..(Len(dlq) - 1) /\ i + 1 \in 1..Len(dlq)
      BY <1>0, <2>5
    <3>2. dlq'[i] = dlq[i + 1] /\ dlq[i + 1] # x /\ dlq[i + 1] \in Messages
      BY <1>a, <2>1, <2>2, <2>7, <3>1
    <3>3. drain[r].visits[dlq[i + 1]] = 0
      BY <2>5, <3>1 DEF Ahead
    <3> QED BY <2>8, <3>2, <3>3
  <2>11. OnceEach(r)'
    <3> SUFFICES ASSUME NEW m \in Messages PROVE drain'[r].visits[m] <= 1
      BY DEF OnceEach
    <3>1. drain[r].visits[m] <= 1
      BY <2>5 DEF OnceEach
    <3> QED BY <2>8, <2>9, <3>1
  <2>12. Covered(r)'
    <3> SUFFICES ASSUME NEW m \in drain[r].snapshot \cap Wanted(r) PROVE Reached(r, m)'
      BY <2>4 DEF Covered, Wanted
    <3>1. Reached(r, m)
      BY <2>5 DEF Covered
    <3>2. ASSUME NEW i \in 1..k, dlq[i] = m PROVE Reached(r, m)'
      <4>1. CASE i = 1
        BY <2>3, <2>4, <3>2, <4>1 DEF Reached
      <4>2. CASE i # 1
        <5>1. i - 1 \in 1..(k - 1) /\ i - 1 \in 1..(Len(dlq) - 1) /\ (i - 1) + 1 = i
          BY <1>0, <2>5, <4>2
        <5>2. dlq'[i - 1] = m
          BY <2>1, <2>2, <3>2, <5>1
        <5> QED BY <2>4, <5>1, <5>2 DEF Reached
      <4> QED BY <4>1, <4>2
    <3> QED BY <2>1, <3>1, <3>2 DEF Reached
  <2> QED BY <2>4, <2>6, <2>10, <2>11, <2>12 DEF Sweep
<1>3. CASE Close(r)
  <2>1. /\ drain[r].pc = "next" /\ Goto(r, "done") /\ dlq' = dlq
        /\ republished' = republished
    BY <1>3 DEF Close
  <2>2. \A m \in Messages : republished'[m] >= republished[m]
    BY <1>b, <2>1
  <2>3. drain[r].remaining = 0
    <3>1. drain[r].remaining <= Len(dlq) /\ (drain[r].remaining = 0 \/ dlq = <<>>)
      BY <1>3, <2>1 DEF Sweep, Close, Drained
    <3> QED BY <1>0, <3>1
  <2> QED BY <1>0, <2>1, <2>2, <2>3, GotoFields, SweepKept
<1>4. CASE Republish(r)
  <2>1. /\ drain[r].pc = "handle" /\ Goto(r, "ack") /\ dlq' = dlq
        /\ republished' = [republished EXCEPT ![Taken(r)] = @ + 1]
    BY <1>4 DEF Republish
  <2>2. \A m \in Messages : republished'[m] >= republished[m]
    BY <1>b, <2>1
  <2>3. ASSUME NEW m \in Wanted(r), drain[r].unacked = <<m>> PROVE republished'[m] >= 1
    <3>1. Taken(r) = m /\ m \in Messages
      BY <2>3 DEF Taken, Wanted
    <3> QED BY <1>b, <2>1, <3>1
  <2> QED BY <1>0, <2>1, <2>2, <2>3, GotoFields, SweepKept
<1>5. CASE Requeue(r)
  <2>1. /\ drain[r].pc \in {"handle", "requeue"} /\ Goto(r, "ack")
        /\ dlq' = Append(dlq, Taken(r)) /\ Taken(r) \in Messages
        /\ republished' = republished
        /\ drain[r].pc = "handle" => Taken(r) \notin Wanted(r)
    BY <1>0, <1>5, OneInHand DEF Requeue, Requeued
  <2>2. \A m \in Messages : republished'[m] >= republished[m]
    BY <1>b, <2>1
  <2>3. \A m \in Wanted(r) : ~(drain[r].pc = "handle" /\ drain[r].unacked = <<m>>)
    BY <2>1 DEF Taken
  <2>4. \E x \in Messages : dlq' = Append(dlq, x)
    BY <2>1
  <2>5. /\ drain[r].pc # "new" /\ drain'[r].pc # "new"
        /\ drain'[r].remaining = drain[r].remaining /\ drain'[r].visits = drain[r].visits
        /\ drain'[r].ids = drain[r].ids /\ drain'[r].snapshot = drain[r].snapshot
        /\ drain'[r].pc # "done"
    BY <1>0, <2>1, GotoFields
  <2> QED BY <2>2, <2>3, <2>4, <2>5, SweepKept
<1>6. CASE Ack(r)
  <2>1. /\ drain[r].pc = "ack" /\ drain'[r] = Settled(r, "next") /\ dlq' = dlq
        /\ republished' = republished
    BY <1>0, <1>6 DEF Ack
  <2>2. \A m \in Messages : republished'[m] >= republished[m]
    BY <1>b, <2>1
  <2>3. /\ drain'[r].pc = "next"
        /\ drain'[r].remaining = drain[r].remaining /\ drain'[r].visits = drain[r].visits
        /\ drain'[r].ids = drain[r].ids /\ drain'[r].snapshot = drain[r].snapshot
    BY <1>0, <2>1 DEF Settled, Drain
  <2> QED BY <2>1, <2>2, <2>3, SweepKept
<1> QED BY <1>1, <1>2, <1>3, <1>4, <1>5, <1>6 DEF DrainStep

(* A request that is alone after a step was alone before it.                  *)
LEMMA SweepsStep ==
  ASSUME IInv, IInv', Unseen, Single, Sweeps, [Next]_vars
  PROVE  Sweeps'
<1> SUFFICES ASSUME NEW r \in Drains, Alone(r)' PROVE Sweep(r)'
  BY DEF Sweeps
<1>0. /\ TypeOK /\ drain \in [Drains -> Drain] /\ faults \in Nat /\ faults' = 0
      /\ dlq \in Seq(Messages) /\ republished \in [Messages -> Nat]
  BY DEF IInv, TypeOK, Alone
<1>1. \A q \in Drains : ~ConfirmLost(q) /\ ~PublishFails(q) /\ ~Interrupted(q)
  BY <1>0 DEF ConfirmLost, PublishFails, Interrupted, Fault
<1>2. ASSUME NEW q \in Drains,
             (\E ids \in SUBSET Messages : Snapshot(q, ids)) \/ DrainStep(q)
      PROVE  drain'[q].pc # "new" /\ faults' = faults
             /\ \A p \in Drains \ {q} : drain'[p] = drain[p]
  <2>1. CASE \E ids \in SUBSET Messages : Snapshot(q, ids)
    BY <1>0, <2>1, BegunTyped DEF Snapshot
  <2>2. CASE Take(q)
    <3>1. Head(dlq) \in Messages /\ drain[q].remaining > 0
          /\ drain' = [drain EXCEPT ![q] = Handling(q, Head(dlq))] /\ faults' = faults
      BY <1>0, <2>2, TailHolds DEF Take, MoreToGet
    <3> QED BY <1>0, <3>1, HandlingTyped
  <2>3. CASE Close(q) \/ Republish(q) \/ Requeue(q)
    BY <1>0, <2>3, GotoTyped DEF Close, Republish, Requeue
  <2>4. CASE Ack(q)
    BY <1>0, <2>4, SettledTyped DEF Ack
  <2> QED BY <1>2, <2>1, <2>2, <2>3, <2>4 DEF DrainStep
<1>3. CASE UNCHANGED vars
  <2>1. Alone(r) /\ Sweep(r)
    BY <1>3 DEF Alone, Sweeps, vars
  <2> QED BY <1>3, <2>1 DEF Sweep, Ahead, Covered, Reached, OnceEach, NotBegun, Wanted, vars
<1>4. ASSUME NEW m \in Messages, Shelve(m) PROVE Sweep(r)'
  <2>1. Alone(r) /\ Sweep(r)
    BY <1>4 DEF Alone, Sweeps, Shelve
  <2>2. drain' = drain /\ republished' = republished /\ dlq' = Append(dlq, m)
    BY <1>4 DEF Shelve
  <2>3. CASE drain[r].pc = "new"
    BY <2>1, <2>2, <2>3 DEF Sweep, NotBegun, OnceEach
  <2>4. CASE drain[r].pc # "new"
    <3>1. \A x \in Messages : republished'[x] >= republished[x]
      BY <1>0, <2>2
    <3>2. drain[r].pc = "done" => drain[r].remaining = 0
      BY <2>1 DEF Sweep
    <3> QED BY <2>1, <2>2, <2>4, <3>1, <3>2, SweepKept
  <2> QED BY <2>3, <2>4
<1>5. ASSUME NEW q \in Drains,
             (\E ids \in SUBSET Messages : Snapshot(q, ids)) \/ DrainStep(q)
      PROVE  Sweep(r)'
  <2>1. q = r
    BY <1>2, <1>5 DEF Alone
  <2>2. Alone(r)
    BY <1>0, <1>2, <1>5, <2>1 DEF Alone
  <2> QED BY <1>0, <1>2, <1>5, <2>1, <2>2, SweepOwn DEF Sweeps
<1> QED BY <1>1, <1>3, <1>4, <1>5 DEF Next

(* What is known of a request that runs alone.                                *)
LEMMA Alongside == Spec => []Sweeps
<1>1. Init => Sweeps
  <2> SUFFICES ASSUME Init, NEW r \in Drains PROVE Sweep(r)
    BY DEF Sweeps
  <2>1. drain[r] = NewDrain
    BY DEF Init
  <2>2. NewDrain.pc = "new" /\ NewDrain.snapshot = {} /\ NewDrain.visits = [m \in Messages |-> 0]
    BY DEF NewDrain
  <2> QED BY <2>1, <2>2 DEF Sweep, NotBegun, OnceEach
<1>2. IInv /\ IInv' /\ Unseen /\ Single /\ Sweeps /\ [Next]_vars => Sweeps'
  BY SweepsStep
<1> QED BY <1>1, <1>2, Counted, PTL DEF Spec

(* A request that runs alone takes nothing twice, although what it skips      *)
(* goes back to the queue it drains.                                          *)
THEOREM AloneNeverRevisits == Spec => []AloneVisitsOnce
<1>1. Sweeps => AloneVisitsOnce
  BY DEF Sweeps, Sweep, OnceEach, AloneVisitsOnce
<1> QED BY <1>1, Alongside, PTL

(* A request that runs alone republishes all it was asked to, exactly once.   *)
THEOREM DrainIsComplete == Spec => []DrainComplete
<1>1. IInv /\ Unseen /\ Single /\ Sweeps => DrainComplete
  <2> SUFFICES ASSUME IInv, Unseen, Single, Sweeps, NEW r \in Drains,
                      Alone(r), drain[r].pc = "done",
                      NEW m \in drain[r].snapshot \cap Wanted(r)
               PROVE  republished[m] = 1
    BY DEF DrainComplete
  <2>1. /\ TypeOK /\ m \in Messages /\ faults = 0 /\ republished[m] \in Nat
        /\ Cardinality(Places(m)) \in Nat /\ Cardinality(Hands(m)) \in Nat
    BY TotalParts DEF IInv, TypeOK, Wanted, Alone
  <2>2. Reached(r, m) /\ drain[r].remaining = 0
    BY DEF Sweeps, Sweep, Covered
  <2>3. republished[m] >= 1
    BY <2>2 DEF Reached
  <2>4. m \in shelved
    BY <2>1, <2>3 DEF Unseen
  <2>5. Cardinality(Places(m)) + Cardinality(Hands(m)) + republished[m] <= 1
    BY <2>1, <2>4 DEF Single, Total
  <2> QED BY <2>1, <2>3, <2>5
<1> QED BY <1>1, Counted, Alongside, PTL
===============================================================================
