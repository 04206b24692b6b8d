------------------------ MODULE IngestPipelineProofs ------------------------
(***************************************************************************)
(* What holds of IngestPipeline for every number of events, handlers,      *)
(* attempts and faults: it stays typed, a message that is still alive has  *)
(* deaths left, no published event vanishes, a message is shelved only for *)
(* failures it had, and fails no more often than it was published.         *)
(***************************************************************************)
EXTENDS IngestPipeline, FiniteSetTheorems, TLAPS

USE BadAssumption, AttemptsAssumption

Deliveries == [Handlers -> Busy \cup {Idle}]

(* No delivery in progress has used up its deaths: this is what TypeOK lacks  *)
(* to be inductive, for a crash puts the delivery back into the queue.        *)
DeathsLeft == \A h \in Handlers : handler[h] # Idle => handler[h].deaths < MaxAttempts

\* A queue as TypeOK describes it.
InBudget(b) == b \in Bag /\ \A x \in Events : b[x][MaxAttempts] = 0

IInv == TypeOK /\ DeathsLeft

-----------------------------------------------------------------------------
(* Lemmas about the operators *)

(* One more message of one kind; all other kinds stay as they were.           *)
LEMMA PutEdit ==
  ASSUME NEW b \in Bag, NEW e \in Events, NEW d \in Deaths
  PROVE  /\ Put(b, e, d) \in Bag
         /\ \A x \in Events, k \in Deaths :
              Put(b, e, d)[x][k] = IF x = e /\ k = d THEN b[x][k] + 1 ELSE b[x][k]
  BY DEF Put, Bag

(* One message of one kind less, if there was one.                            *)
LEMMA TakeEdit ==
  ASSUME NEW b \in Bag, NEW e \in Events, NEW d \in Deaths, b[e][d] > 0
  PROVE  /\ Take(b, e, d) \in Bag
         /\ \A x \in Events, k \in Deaths :
              Take(b, e, d)[x][k] = IF x = e /\ k = d THEN b[x][k] - 1 ELSE b[x][k]
  BY DEF Take, Bag

(* Putting fills a place and empties none; taking can only empty its own.     *)
LEMMA PutFills ==
  ASSUME NEW b \in Bag, NEW e \in Events, NEW d \in Deaths
  PROVE  /\ Put(b, e, d)[e][d] > 0
         /\ \A x \in Events, k \in Deaths : b[x][k] > 0 => Put(b, e, d)[x][k] > 0
<1>1. \A x \in Events, k \in Deaths : b[x][k] \in Nat
  BY DEF Bag
<1> QED BY <1>1, PutEdit

(* Taking a message leaves every other one where it is.                       *)
LEMMA TakeEmptiesOne ==
  ASSUME NEW b \in Bag, NEW e \in Events, NEW d \in Deaths, b[e][d] > 0
  PROVE  \A x \in Events, k \in Deaths :
           b[x][k] > 0 /\ ~(x = e /\ k = d) => Take(b, e, d)[x][k] > 0
  BY TakeEdit

(* A counter goes up by one, the others stay.                                 *)
LEMMA CountEdit ==
  ASSUME count \in [Events -> [Counted -> Nat]], NEW e \in Events, NEW k \in Counted,
         Count(e, k)
  PROVE  /\ count' \in [Events -> [Counted -> Nat]]
         /\ \A x \in Events, l \in Counted :
              count'[x][l] = IF x = e /\ l = k THEN count[x][l] + 1 ELSE count[x][l]
  BY DEF Count

(* What is not Idle is a delivery, and Idle is none.                          *)
LEMMA IdleOrBusy ==
  ASSUME handler \in Deliveries, NEW h \in Handlers
  PROVE  /\ handler[h] = Idle \/ handler[h] \in Busy
         /\ handler[h].pc # "idle" => handler[h] \in Busy
         /\ handler[h] # Idle => handler[h] \in Busy
         /\ Idle \notin Busy
  BY DEF Deliveries, Busy, Idle

(* A delivery that goes on keeps its message, its deaths and its channel.     *)
LEMMA GotoEdit ==
  ASSUME handler \in Deliveries, NEW h \in Handlers, handler[h] \in Busy,
         NEW p \in {"insert", "dedupe", "fail", "ack"}, Goto(h, p)
  PROVE  /\ handler' \in Deliveries
         /\ handler'[h] \in Busy
         /\ handler'[h].pc = p /\ handler'[h].event = handler[h].event
         /\ handler'[h].deaths = handler[h].deaths
         /\ handler'[h].channel = handler[h].channel
         /\ \A g \in Handlers : g # h => handler'[g] = handler[g]
<1>1. handler' = [handler EXCEPT ![h] =
        [pc |-> p, event |-> handler[h].event, deaths |-> handler[h].deaths,
         channel |-> handler[h].channel]]
  <2>1. [handler[h] EXCEPT !.pc = p] =
          [pc |-> p, event |-> handler[h].event, deaths |-> handler[h].deaths,
           channel |-> handler[h].channel]
    BY DEF Busy
  <2> QED BY <2>1 DEF Goto, Deliveries
<1> QED BY <1>1 DEF Busy, Deliveries

(* A delivery that ends leaves its handler idle and the others alone.         *)
LEMMA LeaveEdit ==
  ASSUME handler \in Deliveries, NEW h \in Handlers, Leave(h)
  PROVE  /\ handler' \in Deliveries
         /\ handler'[h] = Idle
         /\ \A g \in Handlers : g # h => handler'[g] = handler[g]
  BY DEF Leave, Deliveries

(* A delivery whose channel is lost goes on with what it has.                 *)
LEMMA LostEdit ==
  ASSUME handler \in Deliveries, NEW h \in Handlers, handler[h] \in Busy,
         handler' = [handler EXCEPT ![h].channel = "lost"]
  PROVE  /\ handler' \in Deliveries
         /\ handler'[h] \in Busy
         /\ handler'[h].event = handler[h].event
         /\ handler'[h].deaths = handler[h].deaths
         /\ \A g \in Handlers : g # h => handler'[g] = handler[g]
<1>1. handler' = [handler EXCEPT ![h] =
        [pc |-> handler[h].pc, event |-> handler[h].event,
         deaths |-> handler[h].deaths, channel |-> "lost"]]
  <2>1. [handler[h] EXCEPT !.channel = "lost"] =
          [pc |-> handler[h].pc, event |-> handler[h].event,
           deaths |-> handler[h].deaths, channel |-> "lost"]
    BY DEF Busy
  <2> QED BY <2>1 DEF Deliveries
<1> QED BY <1>1 DEF Busy, Deliveries

(* A message with deaths left may be queued.                                  *)
LEMMA PutKeeps ==
  ASSUME NEW b, InBudget(b), NEW e \in Events, NEW d \in Deaths, d # MaxAttempts
  PROVE  InBudget(Put(b, e, d))
<1>1. MaxAttempts \in Deaths
  BY DEF Deaths
<1>2. b \in Bag /\ \A x \in Events : b[x][MaxAttempts] = 0
  BY DEF InBudget
<1>3. Put(b, e, d) \in Bag
  BY <1>2, PutEdit
<1>4. \A x \in Events : Put(b, e, d)[x][MaxAttempts] = 0
  BY <1>1, <1>2, PutEdit
<1> QED BY <1>3, <1>4 DEF InBudget

(* And what is taken has deaths left.                                         *)
LEMMA TakeKeeps ==
  ASSUME NEW b, InBudget(b), NEW e \in Events, NEW d \in Deaths, b[e][d] > 0
  PROVE  d # MaxAttempts /\ InBudget(Take(b, e, d))
<1>1. MaxAttempts \in Deaths
  BY DEF Deaths
<1>2. d # MaxAttempts
  BY DEF InBudget
<1>3. b \in Bag /\ \A x \in Events : b[x][MaxAttempts] = 0
  BY DEF InBudget
<1>4. Take(b, e, d) \in Bag
  BY <1>3, TakeEdit
<1>5. \A x \in Events : Take(b, e, d)[x][MaxAttempts] = 0
  BY <1>1, <1>2, <1>3, TakeEdit
<1> QED BY <1>2, <1>4, <1>5 DEF InBudget

-----------------------------------------------------------------------------
(* Every step keeps the types and leaves every delivery deaths to suffer.     *)
LEMMA TypeInductive == IInv /\ [Next]_vars => IInv'
<1> SUFFICES ASSUME IInv, [Next]_vars PROVE IInv'
  OBVIOUS
<1> DEFINE Queues == InBudget(ingest) /\ InBudget(retry)
<1>0. /\ Queues /\ handler \in Deliveries /\ DeathsLeft
      /\ dlq \in [Events -> Nat] /\ faults \in Nat
      /\ stored \in SUBSET Events /\ dropped \in SUBSET Events
      /\ count \in [Events -> [Counted -> Nat]] /\ topology \in BOOLEAN
      /\ 0 \in Deaths
  BY DEF IInv, TypeOK, InBudget, Deliveries, Deaths
<1>00. /\ Queues' /\ (handler \in Deliveries)' /\ DeathsLeft'
       /\ dlq' \in [Events -> Nat] /\ faults' \in Nat
       /\ stored' \in SUBSET Events /\ dropped' \in SUBSET Events
       /\ count' \in [Events -> [Counted -> Nat]] /\ topology' \in BOOLEAN
       => IInv'
  BY DEF IInv, TypeOK, InBudget, Deliveries
<1>k. ASSUME NEW h \in Handlers, handler[h] \in Busy
      PROVE  /\ handler[h].event \in Events /\ handler[h].deaths \in Deaths
             /\ handler[h].deaths \in Nat
             /\ handler[h].deaths < MaxAttempts
  BY <1>k, <1>0, IdleOrBusy DEF Busy, Deaths, DeathsLeft
<1> HIDE DEF Queues
<1>1. ASSUME NEW e \in Events, Publish(e) PROVE IInv'
  <2>1. Count(e, "sent") /\ ingest' = Put(ingest, e, 0)
    BY <1>1 DEF Publish
  <2>2. count' \in [Events -> [Counted -> Nat]]
    BY <2>1, <1>0, CountEdit DEF Counted
  <2>3. Queues'
    BY <1>1, <1>0, <2>1, PutKeeps DEF Queues, Publish
  <2> QED BY <1>1, <1>0, <1>00, <2>2, <2>3 DEF Publish, db, DeathsLeft
<1>2. CASE DeclareTopology
  BY <1>2, <1>0, <1>00 DEF DeclareTopology, db, DeathsLeft, Queues
<1>3. ASSUME NEW h \in Handlers, NEW e \in Events, NEW d \in Deaths, Deliver(h, e, d)
      PROVE IInv'
  <2>1. ingest[e][d] > 0 /\ ingest' = Take(ingest, e, d) /\ retry' = retry
    BY <1>3 DEF Deliver
  <2>2. Queues' /\ d # MaxAttempts
    BY <1>0, <2>1, TakeKeeps DEF Queues
  <2>3. PICK p \in {"fail", "insert"} : handler' = [handler EXCEPT ![h] =
          [pc |-> p, event |-> e, deaths |-> d, channel |-> "open"]]
    BY <1>3 DEF Deliver
  <2>4. (handler \in Deliveries)' /\ DeathsLeft'
    BY <2>2, <2>3, <1>0 DEF Deliveries, Busy, DeathsLeft, Deaths
  <2>5. count' \in [Events -> [Counted -> Nat]]
    BY <1>3, <1>0, CountEdit DEF Deliver, Counted
  <2> QED BY <1>3, <1>0, <1>00, <2>2, <2>4, <2>5 DEF Deliver, db
<1>4. ASSUME NEW h \in Handlers, Insert(h) \/ Dedupe(h) \/ StatementFails(h)
      PROVE IInv'
  <2>1. handler[h].pc # "idle"
    BY <1>4 DEF Insert, Duplicate, Dedupe, StatementFails
  <2>2. handler[h] \in Busy
    BY <2>1, <1>0, IdleOrBusy
  <2>3. PICK p \in {"ack", "dedupe", "fail"} : Goto(h, p)
    BY <1>4 DEF Insert, Duplicate, Dedupe, StatementFails
  <2>4. (handler \in Deliveries)' /\ DeathsLeft'
    BY <1>0, <1>k, <2>2, <2>3, GotoEdit DEF DeathsLeft
  <2>5. count' \in [Events -> [Counted -> Nat]]
    BY <1>4, <1>0, <1>k, <2>2, CountEdit DEF Insert, Duplicate, Dedupe, StatementFails, Counted, db
  <2>6. Queues' /\ stored' \in SUBSET Events
    BY <1>4, <1>0, <1>k, <2>2 DEF Queues, Insert, Duplicate, Dedupe, StatementFails, Inserted, db
  <2> QED BY <1>4, <1>0, <1>00, <2>4, <2>5, <2>6
          DEF Insert, Duplicate, Dedupe, StatementFails, db
<1>5. ASSUME NEW h \in Handlers, Reject(h) PROVE IInv'
  <2>1. handler[h].pc # "idle"
    BY <1>5 DEF Reject, Failed
  <2>2. handler[h] \in Busy
    BY <2>1, <1>0, IdleOrBusy
  <2>3. Died(handler[h].deaths) \in Deaths /\ Died(handler[h].deaths) # MaxAttempts
    BY <1>5, <1>k, <2>2 DEF Reject, Exhausted, Died, Deaths
  <2>4. Queues'
    BY <1>5, <1>0, <1>k, <2>2, <2>3, PutKeeps DEF Queues, Reject
  <2>5. (handler \in Deliveries)' /\ DeathsLeft'
    BY <1>5, <1>0, LeaveEdit DEF Reject, DeathsLeft
  <2>6. dropped' \in SUBSET Events
    BY <1>5, <1>0, <1>k, <2>2 DEF Reject
  <2> QED BY <1>5, <1>0, <1>00, <2>4, <2>5, <2>6 DEF Reject
<1>6. ASSUME NEW h \in Handlers, DeadLetter(h) PROVE IInv'
  <2>1. handler[h].pc # "idle"
    BY <1>6 DEF DeadLetter, Failed
  <2>2. handler[h] \in Busy
    BY <2>1, <1>0, IdleOrBusy
  <2>3. (handler \in Deliveries)' /\ DeathsLeft'
    BY <1>6, <1>0, <1>k, <2>2, GotoEdit DEF DeadLetter, DeathsLeft
  <2>4. count' \in [Events -> [Counted -> Nat]]
    BY <1>6, <1>0, <1>k, <2>2, CountEdit DEF DeadLetter, Counted
  <2>5. dlq' \in [Events -> Nat] /\ Queues'
    BY <1>6, <1>0, <1>k, <2>2 DEF DeadLetter, Queues
  <2> QED BY <1>6, <1>0, <1>00, <2>3, <2>4, <2>5 DEF DeadLetter, db
<1>7. ASSUME NEW h \in Handlers, Finish(h) PROVE IInv'
  <2>1. (handler \in Deliveries)' /\ DeathsLeft'
    BY <1>7, <1>0, LeaveEdit DEF Finish, DeathsLeft
  <2> QED BY <1>7, <1>0, <1>00, <2>1 DEF Finish, db, Queues
<1>8. ASSUME NEW e \in Events, NEW d \in Deaths, ExpireRetry(e, d) PROVE IInv'
  <2>1. /\ retry[e][d] > 0 /\ retry' = Take(retry, e, d)
        /\ ingest' = Put(ingest, e, d)
    BY <1>8 DEF ExpireRetry
  <2>2. d # MaxAttempts
    BY <2>1, <1>0, TakeKeeps DEF Queues
  <2>3. Queues'
    BY <1>0, <2>1, <2>2, TakeKeeps, PutKeeps DEF Queues
  <2> QED BY <1>8, <1>0, <1>00, <2>3 DEF ExpireRetry, db, DeathsLeft
<1>9. ASSUME NEW e \in Events, Republish(e) \/ RepublishDies(e) PROVE IInv'
  <2>1. /\ ingest' = Put(ingest, e, 0) /\ Count(e, "again") /\ retry' = retry
        /\ dlq[e] > 0 /\ dlq' \in {dlq, [dlq EXCEPT ![e] = @ - 1]}
    BY <1>9 DEF Republish, RepublishDies
  <2>2. count' \in [Events -> [Counted -> Nat]]
    BY <1>0, <2>1, CountEdit DEF Counted
  <2>3. Queues'
    BY <1>0, <2>1, PutKeeps DEF Queues
  <2>4. dlq' \in [Events -> Nat] /\ faults' \in Nat
    BY <1>9, <1>0, <2>1 DEF Republish, RepublishDies, Fault
  <2> QED BY <1>9, <1>0, <1>00, <2>2, <2>3, <2>4
          DEF Republish, RepublishDies, db, DeathsLeft
<1>10. ASSUME NEW h \in Handlers, HandlerCrash(h) \/ LoseChannel(h) PROVE IInv'
  <2>1. handler[h] \in Busy
    BY <1>10, <1>0, IdleOrBusy DEF HandlerCrash, LoseChannel
  <2>2. ingest' = Requeued(h) /\ retry' = retry
    BY <1>10 DEF HandlerCrash, LoseChannel
  <2>3. Queues'
    BY <1>0, <1>k, <2>1, <2>2, PutKeeps DEF Queues, Requeued
  <2>4. (handler \in Deliveries)' /\ DeathsLeft'
    BY <1>10, <1>0, <1>k, <2>1, LeaveEdit, LostEdit
    DEF HandlerCrash, LoseChannel, DeathsLeft
  <2> QED BY <1>10, <1>0, <1>00, <2>3, <2>4 DEF HandlerCrash, LoseChannel, Fault, db
<1>11. CASE UNCHANGED vars
  BY <1>11, <1>0, <1>00 DEF vars, db, DeathsLeft, Queues
<1> QED
  BY <1>1, <1>2, <1>3, <1>4, <1>5, <1>6, <1>7, <1>8, <1>9, <1>10, <1>11
  DEF Next, EventStep, HandlerStep

(* At first nothing is queued or held.                                        *)
LEMMA TypeInit == Init => IInv
  BY DEF Init, IInv, TypeOK, DeathsLeft, NoMessage, Bag, Deaths, Counted

(* Every reachable state is well typed: in particular no message is queued    *)
(* that has died MaxAttempts times, for the last rejection shelves it.        *)
THEOREM TypeCorrect == Spec => []TypeOK
<1>1. IInv => TypeOK
  BY DEF IInv
<1> QED BY <1>1, TypeInit, TypeInductive, PTL DEF Spec

-----------------------------------------------------------------------------
(* No event vanishes *)

InRing(e) == \E d \in Deaths : ingest[e][d] > 0 \/ retry[e][d] > 0
HeldBy(e, h) == /\ handler[h] # Idle /\ handler[h].event = e
                /\ handler[h].pc # "ack" /\ handler[h].channel = "open"
Kept(e) == \/ e \in stored \cup dropped
           \/ dlq[e] > 0
           \/ InRing(e)
           \/ \E h \in Handlers : HeldBy(e, h)

(* An event that was published is a row, a message somewhere, or was dropped  *)
(* on the first boot.  One of the four always takes the event over from the   *)
(* one that loses it: the step that removes a message from its last place     *)
(* puts the event into another, so the property is inductive by itself.       *)
THEOREM EventsAreKept == Spec => []NothingVanishes
<1>1. Init => NothingVanishes
  BY DEF Init, NothingVanishes, Counted
<1>2. TypeOK /\ NothingVanishes /\ [Next]_vars => NothingVanishes'
  <2> SUFFICES ASSUME TypeOK, NothingVanishes, [Next]_vars, NEW x \in Events,
                      count'[x]["sent"] > 0
               PROVE  Kept(x)'
    BY DEF NothingVanishes, Kept, InRing, HeldBy
  <2>0. /\ ingest \in Bag /\ retry \in Bag /\ handler \in Deliveries
        /\ dlq \in [Events -> Nat] /\ 0 \in Deaths
        /\ count \in [Events -> [Counted -> Nat]]
        /\ \A k \in Deaths : ingest[x][k] \in Nat /\ retry[x][k] \in Nat
    BY DEF TypeOK, Deliveries, Deaths, Bag
  <2>00. count[x]["sent"] > 0 => Kept(x)
    BY DEF NothingVanishes, Kept, InRing, HeldBy
  <2>k. ASSUME NEW h \in Handlers, handler[h] \in Busy
        PROVE  /\ handler[h].event \in Events /\ handler[h].deaths \in Deaths
               /\ handler[h].deaths \in Nat
    BY <2>k DEF Busy, Deaths
  \* Every counter but "sent" may move without touching the hypothesis.
  <2>c. ASSUME NEW e \in Events, NEW k \in Counted \ {"sent"},
               count' = count \/ Count(e, k)
        PROVE  Kept(x)
    BY <2>c, <2>0, <2>00, CountEdit DEF Counted
  <2>1. ASSUME NEW e \in Events, Publish(e) PROVE Kept(x)'
    <3>1. /\ Count(e, "sent") /\ ingest' = Put(ingest, e, 0)
          /\ UNCHANGED <<retry, dlq, handler, stored, dropped>>
      BY <2>1 DEF Publish, db
    <3>2. CASE x = e
      BY <3>1, <3>2, <2>0, PutFills DEF Kept, InRing
    <3>3. CASE x # e
      <4>1. count'[x]["sent"] = count[x]["sent"]
        BY <3>1, <3>3, <2>0, CountEdit DEF Counted
      <4>2. InRing(x) => InRing(x)'
        BY <3>1, <2>0, PutFills DEF InRing
      <4> QED BY <4>1, <4>2, <3>1, <2>00 DEF Kept, HeldBy
    <3> QED BY <3>2, <3>3
  <2>2. CASE DeclareTopology \/ UNCHANGED vars
    <3>1. UNCHANGED <<ingest, retry, dlq, handler, stored, dropped, count>>
      BY <2>2 DEF DeclareTopology, vars, db
    <3> QED BY <3>1, <2>00 DEF Kept, InRing, HeldBy
  <2>3. ASSUME NEW h \in Handlers, NEW e \in Events, NEW d \in Deaths, Deliver(h, e, d)
        PROVE Kept(x)'
    <3>1. /\ handler[h] = Idle /\ ingest[e][d] > 0 /\ ingest' = Take(ingest, e, d)
          /\ UNCHANGED <<retry, dlq, stored, dropped>>
          /\ count' = count \/ Count(e, "failures")
      BY <2>3 DEF Deliver, db
    <3>2. Kept(x)
      BY <3>1, <2>c DEF Counted
    <3>3. PICK p \in {"fail", "insert"} : handler' = [handler EXCEPT ![h] =
            [pc |-> p, event |-> e, deaths |-> d, channel |-> "open"]]
      BY <2>3 DEF Deliver
    <3>4. handler'[h] = [pc |-> p, event |-> e, deaths |-> d, channel |-> "open"]
      BY <3>3, <2>0 DEF Deliveries
    <3>5. \A g \in Handlers : g # h => handler'[g] = handler[g]
      BY <3>3, <2>0 DEF Deliveries
    <3>6. CASE x = e
      <4>1. HeldBy(x, h)'
        BY <3>4, <3>6 DEF HeldBy, Idle
      <4> QED BY <4>1 DEF Kept
    <3>7. CASE x # e
      <4>1. InRing(x) => InRing(x)'
        BY <3>1, <3>7, <2>0, TakeEmptiesOne DEF InRing
      <4>2. \A g \in Handlers : HeldBy(x, g) => HeldBy(x, g)'
        BY <3>1, <3>5 DEF HeldBy
      <4> QED BY <4>1, <4>2, <3>1, <3>2 DEF Kept
    <3> QED BY <3>6, <3>7
  \* What a delivery that goes on or ends leaves to the other deliveries.
  <2>d. ASSUME NEW h \in Handlers, Kept(x),
               \A g \in Handlers : g # h => handler'[g] = handler[g],
               stored \subseteq stored', dropped \subseteq dropped',
               dlq[x] > 0 => dlq'[x] > 0, InRing(x) => InRing(x)',
               HeldBy(x, h) => Kept(x)'
        PROVE  Kept(x)'
    BY <2>d DEF Kept, HeldBy
  <2>4. ASSUME NEW h \in Handlers, Insert(h) \/ Dedupe(h) \/ StatementFails(h)
        PROVE Kept(x)'
    <3>1. handler[h].pc # "idle" /\ UNCHANGED <<ingest, retry, dlq, dropped>>
      BY <2>4 DEF Insert, Duplicate, Dedupe, StatementFails, db
    <3>2. handler[h] \in Busy
      BY <3>1, <2>0, IdleOrBusy
    <3>3. PICK p \in {"ack", "dedupe", "fail"} :
            /\ Goto(h, p)
            /\ p = "ack" => handler[h].event \in stored'
      BY <2>4 DEF Insert, Duplicate, Dedupe, StatementFails, Inserted, db
    <3>4. Kept(x)
      BY <2>4, <2>k, <3>2, <2>c DEF Insert, Duplicate, Dedupe, StatementFails, Counted
    <3>5. HeldBy(x, h) => Kept(x)'
      BY <2>0, <3>2, <3>3, GotoEdit, IdleOrBusy DEF HeldBy, Kept
    <3>6. stored \subseteq stored'
      BY <2>4 DEF Insert, Duplicate, Dedupe, StatementFails, Inserted, db
    <3> QED BY <2>d, <2>0, <3>1, <3>2, <3>3, <3>4, <3>5, <3>6, GotoEdit DEF InRing
  <2>5. ASSUME NEW h \in Handlers, Reject(h) PROVE Kept(x)'
    <3>1. /\ handler[h].pc # "idle" /\ Leave(h)
          /\ UNCHANGED <<ingest, dlq, stored, count>>
      BY <2>5 DEF Reject, Failed
    <3>2. handler[h] \in Busy
      BY <3>1, <2>0, IdleOrBusy
    <3>3. Died(handler[h].deaths) \in Deaths
      BY <2>5, <2>k, <3>2 DEF Reject, Exhausted, Died, Deaths
    <3>4. \/ retry' = retry /\ dropped' = dropped \cup {handler[h].event}
          \/ /\ dropped' = dropped
             /\ retry' = Put(retry, handler[h].event, Died(handler[h].deaths))
      BY <2>5 DEF Reject
    <3>5. HeldBy(x, h) => Kept(x)'
      BY <2>0, <2>k, <3>2, <3>3, <3>4, PutFills DEF HeldBy, Kept, InRing
    <3>6. InRing(x) => InRing(x)'
      <4>1. \A k \in Deaths : retry[x][k] > 0 => retry'[x][k] > 0
        <5>1. handler[h].event \in Events
          BY <2>k, <3>2
        <5> QED BY <2>0, <3>3, <3>4, <5>1, PutFills
      <4> QED BY <3>1, <4>1 DEF InRing
    <3> QED BY <2>d, <2>0, <2>00, <3>1, <3>4, <3>5, <3>6, LeaveEdit
  <2>6. ASSUME NEW h \in Handlers, DeadLetter(h) PROVE Kept(x)'
    <3>1. /\ handler[h].pc # "idle" /\ Goto(h, "ack")
          /\ UNCHANGED <<ingest, retry, stored, dropped>>
          /\ dlq' = [dlq EXCEPT ![handler[h].event] = @ + 1]
          /\ Count(handler[h].event, "shelved")
      BY <2>6 DEF DeadLetter, Failed, db
    <3>2. handler[h] \in Busy
      BY <3>1, <2>0, IdleOrBusy
    <3>3. Kept(x)
      BY <3>1, <2>k, <3>2, <2>c DEF Counted
    <3>4. dlq[x] > 0 \/ handler[h].event = x => dlq'[x] > 0
      BY <3>1, <2>0
    <3>5. HeldBy(x, h) => Kept(x)'
      BY <3>4 DEF HeldBy, Kept
    <3> QED BY <2>d, <2>0, <3>1, <3>2, <3>3, <3>4, <3>5, GotoEdit DEF InRing
  <2>7. ASSUME NEW h \in Handlers, Finish(h) PROVE Kept(x)'
    <3>1. /\ Leave(h) /\ UNCHANGED <<ingest, retry, dlq, stored, dropped, count>>
          /\ ~HeldBy(x, h)
      BY <2>7 DEF Finish, db, HeldBy
    <3> QED BY <2>d, <2>0, <2>00, <3>1, LeaveEdit DEF InRing
  <2>8. ASSUME NEW e \in Events, NEW d \in Deaths, ExpireRetry(e, d) PROVE Kept(x)'
    <3>1. /\ retry[e][d] > 0 /\ retry' = Take(retry, e, d)
          /\ ingest' = Put(ingest, e, d)
          /\ UNCHANGED <<dlq, handler, stored, dropped, count>>
      BY <2>8 DEF ExpireRetry, db
    <3>2. InRing(x) => InRing(x)'
      BY <3>1, <2>0, PutFills, TakeEmptiesOne DEF InRing
    <3> QED BY <3>1, <3>2, <2>00 DEF Kept, HeldBy
  <2>9. ASSUME NEW e \in Events, Republish(e) \/ RepublishDies(e) PROVE Kept(x)'
    <3>1. /\ ingest' = Put(ingest, e, 0) /\ Count(e, "again")
          /\ UNCHANGED <<retry, handler, stored, dropped>>
          /\ x # e => dlq'[x] = dlq[x]
      BY <2>9, <2>0 DEF Republish, RepublishDies, db
    <3>2. Kept(x)
      BY <3>1, <2>c DEF Counted
    <3>3. (x = e \/ InRing(x)) => InRing(x)'
      BY <3>1, <2>0, PutFills DEF InRing
    <3> QED BY <3>1, <3>2, <3>3 DEF Kept, HeldBy
  <2>10. ASSUME NEW h \in Handlers, HandlerCrash(h) \/ LoseChannel(h) PROVE Kept(x)'
    <3>1. handler[h] \in Busy
      BY <2>10, <2>0, IdleOrBusy DEF HandlerCrash, LoseChannel
    <3>2. /\ ingest' = Requeued(h)
          /\ UNCHANGED <<retry, dlq, stored, dropped, count>>
      BY <2>10 DEF HandlerCrash, LoseChannel, db
    <3>3. InRing(x) => InRing(x)'
      BY <2>0, <2>k, <3>1, <3>2, PutFills DEF InRing, Requeued
    <3>4. HeldBy(x, h) => InRing(x)'
      BY <2>0, <2>k, <3>1, <3>2, PutFills DEF InRing, Requeued, HeldBy
    <3>5. HeldBy(x, h) => Kept(x)'
      BY <3>4 DEF Kept
    <3>6. \A g \in Handlers : g # h => handler'[g] = handler[g]
      BY <2>10, <2>0, <3>1, LeaveEdit, LostEdit DEF HandlerCrash, LoseChannel
    <3> QED BY <2>d, <2>00, <3>2, <3>3, <3>5, <3>6
  <2> QED
    BY <2>1, <2>2, <2>3, <2>4, <2>5, <2>6, <2>7, <2>8, <2>9, <2>10
    DEF Next, EventStep, HandlerStep
<1> QED BY <1>1, <1>2, TypeCorrect, PTL DEF Spec

(* A delivery stores at most the event of its own message.                    *)
LEMMA StoresItsOwn ==
  ASSUME TypeOK, NEW h \in Handlers, HandlerStep(h)
  PROVE  \/ stored' = stored
         \/ handler[h].event \in Events /\ stored' = stored \cup {handler[h].event}
<1>1. CASE Insert(h) \/ StatementFails(h)
  <2>1. handler[h].pc # "idle"
    BY <1>1 DEF Insert, StatementFails
  <2>2. handler[h] \in Busy
    BY <2>1, IdleOrBusy DEF TypeOK, Deliveries
  <2>3. stored' = stored \/ stored' = stored \cup {handler[h].event}
    BY <1>1 DEF Insert, StatementFails, Inserted
  <2> QED BY <2>2, <2>3 DEF Busy
<1>2. CASE Dedupe(h) \/ Reject(h) \/ DeadLetter(h) \/ Finish(h)
  BY <1>2 DEF Dedupe, Reject, DeadLetter, Finish, db
<1> QED BY <1>1, <1>2 DEF HandlerStep

(* Once the retry queue is there, no rejection drops a message.               *)
LEMMA NoneDropped ==
  ASSUME topology, [Next]_vars
  PROVE  topology' /\ dropped' = dropped
<1>1. CASE DeclareTopology \/ UNCHANGED vars
  BY <1>1 DEF DeclareTopology, vars, db
<1>2. ASSUME NEW e \in Events, EventStep(e) PROVE topology' = topology /\ dropped' = dropped
  BY <1>2 DEF EventStep, Publish, Republish, RepublishDies, ExpireRetry, db
<1>3. ASSUME NEW h \in Handlers, NEW e \in Events, NEW d \in Deaths, Deliver(h, e, d)
      PROVE topology' = topology /\ dropped' = dropped
  BY <1>3 DEF Deliver, db
<1>4. ASSUME NEW h \in Handlers, HandlerStep(h) \/ HandlerCrash(h) \/ LoseChannel(h)
      PROVE topology' = topology /\ dropped' = dropped
  BY <1>4 DEF HandlerStep, Insert, Dedupe, StatementFails, Reject, DeadLetter,
              Finish, HandlerCrash, LoseChannel, db
<1> QED BY <1>1, <1>2, <1>3, <1>4 DEF Next

-----------------------------------------------------------------------------
(* Sums *)

(* A column is as long as its value.                                          *)
LEMMA ColumnLength ==
  ASSUME NEW w, NEW x, w[x] \in Nat
  PROVE  IsFiniteSet(Column(w, x)) /\ Cardinality(Column(w, x)) = w[x]
<1>1. IsFiniteSet(1..w[x]) /\ Cardinality(1..w[x]) = w[x]
  <2>1. 1 \in Int /\ w[x] \in Int
    OBVIOUS
  <2>2. /\ IsFiniteSet(1..w[x])
        /\ Cardinality(1..w[x]) = IF 1 > w[x] THEN 0 ELSE w[x] - 1 + 1
    BY ONLY <2>1, FS_Interval
  <2> QED BY <2>2
<1>2. IsFiniteSet({x}) /\ Cardinality({x}) = 1
  BY FS_Singleton
<1>3. IsFiniteSet({x} \X (1..w[x]))
      /\ Cardinality({x} \X (1..w[x])) = Cardinality({x}) * Cardinality(1..w[x])
  BY <1>1, <1>2, FS_Product
<1>4. 1 * w[x] = w[x]
  OBVIOUS
<1> QED BY <1>1, <1>2, <1>3, <1>4 DEF Column

(* A sum is one value and the sum of the others.                              *)
LEMMA TotalSplit ==
  ASSUME NEW S, IsFiniteSet(S), NEW w \in [S -> Nat], NEW x \in S
  PROVE  /\ IsFiniteSet(UNION {Column(w, y) : y \in S \ {x}})
         /\ Total(w) = Cardinality(UNION {Column(w, y) : y \in S \ {x}}) + w[x]
<1> DEFINE R == UNION {Column(w, y) : y \in S \ {x}}
           C == Column(w, x)
<1>1. \A y \in S : IsFiniteSet(Column(w, y)) /\ Cardinality(Column(w, y)) = w[y]
  BY ColumnLength
<1>2. IsFiniteSet(S \ {x})
  BY FS_RemoveElement
<1>3. IsFiniteSet({Column(w, y) : y \in S \ {x}})
  <2> DEFINE T == {Column(w, y) : y \in S \ {x}}
             f == [y \in S \ {x} |-> Column(w, y)]
  <2>1. f \in Surjection(S \ {x}, T)
    BY DEF Surjection
  <2> QED BY <1>2, <2>1, FS_Surjection
<1>4. IsFiniteSet(R)
  BY <1>1, <1>3, FS_UNION
<1>5. R \cap C = {}
  BY DEF Column
<1>6. DOMAIN w = S
  OBVIOUS
<1>7. UNION {Column(w, y) : y \in DOMAIN w} = R \cup C
  BY <1>6
<1>8. w[x] \in Nat
  OBVIOUS
<1> HIDE DEF R, C
<1>9. IsFiniteSet(C) /\ Cardinality(C) = w[x]
  BY <1>1 DEF C
<1>10. Cardinality(R \cup C) = Cardinality(R) + Cardinality(C) - Cardinality(R \cap C)
  BY <1>4, <1>9, FS_Union
<1>11. Cardinality(R \cap C) = 0
  BY <1>5, FS_EmptySet
<1>12. Cardinality(R) \in Nat
  BY <1>4, FS_CardinalityType
<1>13. Total(w) = Cardinality(R \cup C)
  BY <1>7 DEF Total
<1>14. Total(w) = Cardinality(R) + w[x]
  BY <1>8, <1>9, <1>10, <1>11, <1>12, <1>13
<1> QED BY <1>4, <1>14 DEF R

(* A sum is a number.                                                         *)
LEMMA TotalType ==
  ASSUME NEW S, IsFiniteSet(S), NEW w \in [S -> Nat]
  PROVE  Total(w) \in Nat
<1>1. CASE S = {}
  <2>1. UNION {Column(w, y) : y \in DOMAIN w} = {}
    BY <1>1
  <2> QED BY <2>1, FS_EmptySet DEF Total
<1>2. ASSUME NEW x \in S PROVE Total(w) \in Nat
  <2> DEFINE R == UNION {Column(w, y) : y \in S \ {x}}
  <2>1. IsFiniteSet(R) /\ Total(w) = Cardinality(R) + w[x]
    BY TotalSplit
  <2>2. Cardinality(R) \in Nat /\ w[x] \in Nat
    BY <2>1, FS_CardinalityType
  <2> QED BY <2>1, <2>2
<1> QED BY <1>1, <1>2

(* When one value changes, the sum changes by as much.                        *)
LEMMA TotalEdit ==
  ASSUME NEW S, IsFiniteSet(S), NEW w \in [S -> Nat], NEW v \in [S -> Nat], NEW x \in S,
         \A y \in S : y # x => v[y] = w[y]
  PROVE  /\ Total(w) \in Nat /\ Total(v) \in Nat
         /\ Total(v) + w[x] = Total(w) + v[x]
<1> DEFINE R(f) == UNION {Column(f, y) : y \in S \ {x}}
<1>1. R(v) = R(w)
  BY DEF Column
<1>2. IsFiniteSet(R(w)) /\ Total(w) = Cardinality(R(w)) + w[x]
  BY TotalSplit
<1>3. Total(v) = Cardinality(R(v)) + v[x]
  BY TotalSplit
<1>4. Cardinality(R(w)) \in Nat
  BY <1>2, FS_CardinalityType
<1>5. w[x] \in Nat /\ v[x] \in Nat
  OBVIOUS
<1>6. Total(v) = Cardinality(R(w)) + v[x]
  BY <1>1, <1>3
<1> QED BY <1>2, <1>4, <1>5, <1>6

(* Nothing adds up to nothing.                                                *)
LEMMA TotalZero ==
  ASSUME NEW S, NEW w \in [S -> Nat], \A x \in S : w[x] = 0
  PROVE  Total(w) = 0
<1>1. UNION {Column(w, x) : x \in DOMAIN w} = {}
  BY DEF Column
<1> QED BY <1>1, FS_EmptySet DEF Total

(* One message more or less with d deaths weighs w[d] more or less.           *)
LEMMA WeighedEdit ==
  ASSUME NEW r \in [Deaths -> Nat], NEW s \in [Deaths -> Nat], NEW w \in [Deaths -> Nat],
         NEW d \in Deaths, s[d] = r[d] + 1, \A k \in Deaths : k # d => s[k] = r[k]
  PROVE  /\ Weighed(r, w) \in Nat
         /\ Weighed(s, w) = Weighed(r, w) + w[d]
<1> DEFINE R == [k \in Deaths |-> r[k] * w[k]]
           Q == [k \in Deaths |-> s[k] * w[k]]
<1>1. IsFiniteSet(Deaths)
  <2>1. 0 \in Int /\ MaxAttempts \in Int
    BY AttemptsAssumption
  <2> QED BY <2>1, FS_Interval DEF Deaths
<1>2. \A i, j \in Nat : i * j \in Nat /\ (i + 1) * j = i * j + j
  OBVIOUS
<1>3. \A k \in Deaths : r[k] * w[k] \in Nat /\ s[k] * w[k] \in Nat
  BY <1>2
<1>4. R \in [Deaths -> Nat] /\ Q \in [Deaths -> Nat]
  BY <1>3
<1>5. \A k \in Deaths : k # d => Q[k] = R[k]
  OBVIOUS
<1>6. Q[d] = R[d] + w[d] /\ R[d] \in Nat /\ w[d] \in Nat
  BY <1>2, <1>3
<1>7. Total(R) = Weighed(r, w) /\ Total(Q) = Weighed(s, w)
  BY DEF Weighed
<1> HIDE DEF R, Q
<1>8. /\ Total(R) \in Nat /\ Total(Q) \in Nat
      /\ Total(Q) + R[d] = Total(R) + Q[d]
  BY <1>1, <1>4, <1>5, TotalEdit
<1> QED BY <1>6, <1>7, <1>8

(* A weighed sum is a number.                                                 *)
LEMMA WeighedType ==
  ASSUME NEW r \in [Deaths -> Nat], NEW w \in [Deaths -> Nat]
  PROVE  Weighed(r, w) \in Nat
<1> DEFINE R == [k \in Deaths |-> r[k] * w[k]]
<1>1. \A i, j \in Nat : i * j \in Nat
  OBVIOUS
<1>2. R \in [Deaths -> Nat]
  BY <1>1
<1>3. IsFiniteSet(Deaths)
  <2>1. 0 \in Int /\ MaxAttempts \in Int
    BY AttemptsAssumption
  <2> QED BY <2>1, FS_Interval DEF Deaths
<1> HIDE DEF R
<1>4. Total(R) \in Nat
  BY <1>2, <1>3, TotalType
<1> QED BY <1>4 DEF Weighed, R

-----------------------------------------------------------------------------
(* The accounts of an event *)

\* Failures its queued messages have suffered, and may still suffer.
Suffered(e) == Weighed(Ring(e), Dead)
Remaining(e) == Weighed(Ring(e), Left)
\* The same of its deliveries in progress.
CarriedNow(e) == Total([h \in Handlers |-> Carried(e, handler[h])])
UnspentNow(e) == Total([h \in Handlers |-> Unspent(e, handler[h])])
\* Failures that its shelved copies cost, that its publications allow, and that
\* faults may have repeated.
Price(e) == MaxAttempts * count[e]["shelved"]
Granted(e) == MaxAttempts * (count[e]["sent"] + count[e]["again"])
Lost == (MaxAttempts - 1) * faults

Paid(e) == Price(e) + Suffered(e) + CarriedNow(e) <= count[e]["failures"] + Lost
Bounded(e) == count[e]["failures"] + Remaining(e) + UnspentNow(e) <= Granted(e) + faults

(* A message that enters a queue brings its deaths into the accounts.         *)
LEMMA RingGains ==
  ASSUME ingest \in Bag, retry \in Bag, NEW e \in Events, NEW d \in Deaths,
         NEW x \in Events,
         \/ ingest' = Put(ingest, e, d) /\ retry' = retry
         \/ retry' = Put(retry, e, d) /\ ingest' = ingest
  PROVE  /\ Suffered(x) \in Nat /\ Remaining(x) \in Nat
         /\ Suffered(x)' = Suffered(x) + (IF x = e THEN d ELSE 0)
         /\ Remaining(x)' = Remaining(x) + (IF x = e THEN MaxAttempts - d ELSE 0)
<1>1. \A b \in Bag, k \in Deaths : b[x][k] \in Nat
  BY DEF Bag
<1>2. Ring(x) \in [Deaths -> Nat] /\ \A k \in Deaths : Ring(x)[k] = ingest[x][k] + retry[x][k]
  BY <1>1 DEF Ring
<1>3. ingest' \in Bag /\ retry' \in Bag
  BY PutEdit
<1>4. Ring(x)' \in [Deaths -> Nat]
      /\ \A k \in Deaths : Ring(x)'[k] = ingest'[x][k] + retry'[x][k]
  BY <1>1, <1>3 DEF Ring
<1>5. \A k \in Deaths : Ring(x)'[k] = IF x = e /\ k = d THEN Ring(x)[k] + 1 ELSE Ring(x)[k]
  <2> SUFFICES ASSUME NEW k \in Deaths
               PROVE  Ring(x)'[k] = IF x = e /\ k = d THEN Ring(x)[k] + 1 ELSE Ring(x)[k]
    OBVIOUS
  <2>1. ingest[x][k] \in Nat /\ retry[x][k] \in Nat
    BY <1>1
  <2>2. CASE ingest' = Put(ingest, e, d) /\ retry' = retry
    <3>1. ingest'[x][k] = IF x = e /\ k = d THEN ingest[x][k] + 1 ELSE ingest[x][k]
      BY <2>2, PutEdit
    <3> QED BY <2>1, <2>2, <3>1, <1>2, <1>4
  <2>3. CASE retry' = Put(retry, e, d) /\ ingest' = ingest
    <3>1. retry'[x][k] = IF x = e /\ k = d THEN retry[x][k] + 1 ELSE retry[x][k]
      BY <2>3, PutEdit
    <3> QED BY <2>1, <2>3, <3>1, <1>2, <1>4
  <2> QED BY <2>2, <2>3
<1>6. /\ Dead \in [Deaths -> Nat] /\ Dead[d] = d
      /\ Left \in [Deaths -> Nat] /\ Left[d] = MaxAttempts - d
  BY AttemptsAssumption DEF Dead, Left, Deaths
<1>7. Weighed(Ring(x), Dead) \in Nat /\ Weighed(Ring(x), Left) \in Nat
  BY <1>2, <1>6, WeighedType
<1>8. CASE x = e
  <2>1. Ring(x)'[d] = Ring(x)[d] + 1 /\ \A k \in Deaths : k # d => Ring(x)'[k] = Ring(x)[k]
    BY <1>5, <1>8
  <2>2. Weighed(Ring(x)', Dead) = Weighed(Ring(x), Dead) + Dead[d]
    BY <1>2, <1>4, <1>6, <2>1, WeighedEdit
  <2>3. Weighed(Ring(x)', Left) = Weighed(Ring(x), Left) + Left[d]
    BY <1>2, <1>4, <1>6, <2>1, WeighedEdit
  <2> QED BY <1>6, <1>7, <1>8, <2>2, <2>3 DEF Suffered, Remaining
<1>9. CASE x # e
  <2>1. Ring(x)' = Ring(x)
    BY <1>2, <1>4, <1>5, <1>9
  <2> QED BY <1>7, <1>9, <2>1 DEF Suffered, Remaining
<1> QED BY <1>8, <1>9


(* A message that is delivered takes its deaths out of them.                  *)
LEMMA RingLoses ==
  ASSUME ingest \in Bag, retry \in Bag, NEW e \in Events, NEW d \in Deaths,
         NEW x \in Events, ingest[e][d] > 0,
         ingest' = Take(ingest, e, d) /\ retry' = retry
  PROVE  /\ Suffered(x)' \in Nat /\ Remaining(x)' \in Nat
         /\ Suffered(x) = Suffered(x)' + (IF x = e THEN d ELSE 0)
         /\ Remaining(x) = Remaining(x)' + (IF x = e THEN MaxAttempts - d ELSE 0)
<1>1. \A b \in Bag, k \in Deaths : b[x][k] \in Nat
  BY DEF Bag
<1>2. Ring(x) \in [Deaths -> Nat] /\ \A k \in Deaths : Ring(x)[k] = ingest[x][k] + retry[x][k]
  BY <1>1 DEF Ring
<1>3. ingest' \in Bag /\ retry' \in Bag
  BY TakeEdit
<1>4. Ring(x)' \in [Deaths -> Nat]
      /\ \A k \in Deaths : Ring(x)'[k] = ingest'[x][k] + retry'[x][k]
  BY <1>1, <1>3 DEF Ring
<1>5. \A k \in Deaths : Ring(x)[k] = IF x = e /\ k = d THEN Ring(x)'[k] + 1 ELSE Ring(x)'[k]
  <2> SUFFICES ASSUME NEW k \in Deaths
               PROVE  Ring(x)[k] = IF x = e /\ k = d THEN Ring(x)'[k] + 1 ELSE Ring(x)'[k]
    OBVIOUS
  <2>1. ingest[x][k] \in Nat /\ retry[x][k] \in Nat
    BY <1>1
  <2>2. ingest'[x][k] = IF x = e /\ k = d THEN ingest[x][k] - 1 ELSE ingest[x][k]
    BY TakeEdit
  <2> QED BY <2>1, <2>2, <1>2, <1>4
<1>6. /\ Dead \in [Deaths -> Nat] /\ Dead[d] = d
      /\ Left \in [Deaths -> Nat] /\ Left[d] = MaxAttempts - d
  BY AttemptsAssumption DEF Dead, Left, Deaths
<1>7. Weighed(Ring(x)', Dead) \in Nat /\ Weighed(Ring(x)', Left) \in Nat
  BY <1>4, <1>6, WeighedType
<1>8. CASE x = e
  <2>1. Ring(x)[d] = Ring(x)'[d] + 1 /\ \A k \in Deaths : k # d => Ring(x)[k] = Ring(x)'[k]
    BY <1>5, <1>8
  <2>2. Weighed(Ring(x), Dead) = Weighed(Ring(x)', Dead) + Dead[d]
    BY <1>2, <1>4, <1>6, <2>1, WeighedEdit
  <2>3. Weighed(Ring(x), Left) = Weighed(Ring(x)', Left) + Left[d]
    BY <1>2, <1>4, <1>6, <2>1, WeighedEdit
  <2> QED BY <1>6, <1>7, <1>8, <2>2, <2>3 DEF Suffered, Remaining
<1>9. CASE x # e
  <2>1. Ring(x)' = Ring(x)
    BY <1>2, <1>4, <1>5, <1>9
  <2> QED BY <1>7, <1>9, <2>1 DEF Suffered, Remaining
<1> QED BY <1>8, <1>9

(* A message that moves from one queue to the other leaves them as they were. *)
LEMMA RingRests ==
  ASSUME ingest \in Bag, retry \in Bag, NEW x \in Events,
         \/ UNCHANGED <<ingest, retry>>
         \/ \E e \in Events, d \in Deaths : ExpireRetry(e, d)
  PROVE  /\ Suffered(x) \in Nat /\ Remaining(x) \in Nat
         /\ Suffered(x)' = Suffered(x) /\ Remaining(x)' = Remaining(x)
<1>1. \A b \in Bag, k \in Deaths : b[x][k] \in Nat
  BY DEF Bag
<1>2. Ring(x) \in [Deaths -> Nat]
  BY <1>1 DEF Ring
<1>3. Ring(x)' = Ring(x)
  <2>1. CASE UNCHANGED <<ingest, retry>>
    BY <2>1 DEF Ring
  <2>2. ASSUME NEW e \in Events, NEW d \in Deaths, ExpireRetry(e, d)
        PROVE  Ring(x)' = Ring(x)
    <3>1. /\ retry[e][d] > 0 /\ retry' = Take(retry, e, d)
          /\ ingest' = Put(ingest, e, d)
      BY <2>2 DEF ExpireRetry
    <3>2. ASSUME NEW k \in Deaths
          PROVE  ingest'[x][k] + retry'[x][k] = ingest[x][k] + retry[x][k]
      <4>0. Put(ingest, e, d)[x][k] = IF x = e /\ k = d THEN ingest[x][k] + 1 ELSE ingest[x][k]
        BY PutEdit
      <4>1. ingest'[x][k] = IF x = e /\ k = d THEN ingest[x][k] + 1 ELSE ingest[x][k]
        BY <3>1, <4>0
      <4>2. retry'[x][k] = IF x = e /\ k = d THEN retry[x][k] - 1 ELSE retry[x][k]
        BY <3>1, TakeEdit
      <4> QED BY <4>1, <4>2, <1>1
    <3> QED BY <3>2 DEF Ring
  <2> QED BY <2>1, <2>2
<1>4. Dead \in [Deaths -> Nat] /\ Left \in [Deaths -> Nat]
  BY AttemptsAssumption DEF Dead, Left, Deaths
<1>5. Weighed(Ring(x), Dead) \in Nat /\ Weighed(Ring(x), Left) \in Nat
  BY <1>2, <1>4, WeighedType
<1> QED BY <1>3, <1>5 DEF Suffered, Remaining

(* What a delivery carries is a number, and so is what it may still spend.    *)
LEMMA CarriedType ==
  ASSUME NEW m \in Busy \cup {Idle}, m # Idle => m.deaths < MaxAttempts, NEW x \in Events
  PROVE  Carried(x, m) \in Nat /\ Unspent(x, m) \in Nat
<1>1. CASE m = Idle
  BY <1>1 DEF Carried, Unspent, Acting
<1>2. CASE m \in Busy /\ m # Idle
  <2>1. m.deaths \in Nat /\ m.deaths < MaxAttempts /\ m.channel \in {"open", "lost"}
    BY <1>2 DEF Busy, Deaths
  <2>2. /\ MaxAttempts - m.deaths \in Nat /\ MaxAttempts - m.deaths - 1 \in Nat
        /\ m.deaths + 1 \in Nat
    BY <2>1, AttemptsAssumption
  <2>3. Carried(x, m) \in {0, m.deaths, m.deaths + 1}
    BY DEF Carried
  <2>4. Unspent(x, m) \in {0, 1, MaxAttempts - m.deaths, MaxAttempts - m.deaths - 1}
    <3>1. MaxAttempts - m.deaths - 0 = MaxAttempts - m.deaths
      BY <2>1, AttemptsAssumption
    <3> QED BY <2>1, <3>1 DEF Unspent
  <2> QED BY <2>1, <2>2, <2>3, <2>4
<1> QED BY <1>1, <1>2

(* A step of one delivery changes the accounts by what it carries.            *)
LEMMA HandSettles ==
  ASSUME IInv, IInv', NEW h \in Handlers,
         \A g \in Handlers : g # h => handler'[g] = handler[g], NEW x \in Events
  PROVE  /\ CarriedNow(x) \in Nat /\ CarriedNow(x)' \in Nat
         /\ UnspentNow(x) \in Nat /\ UnspentNow(x)' \in Nat
         /\ Carried(x, handler[h]) \in Nat /\ Carried(x, handler'[h]) \in Nat
         /\ Unspent(x, handler[h]) \in Nat /\ Unspent(x, handler'[h]) \in Nat
         /\ CarriedNow(x)' + Carried(x, handler[h])
              = CarriedNow(x) + Carried(x, handler'[h])
         /\ UnspentNow(x)' + Unspent(x, handler[h])
              = UnspentNow(x) + Unspent(x, handler'[h])
<1> DEFINE C == [g \in Handlers |-> Carried(x, handler[g])]
           D == [g \in Handlers |-> Carried(x, handler'[g])]
           U == [g \in Handlers |-> Unspent(x, handler[g])]
           V == [g \in Handlers |-> Unspent(x, handler'[g])]
<1>1. \A g \in Handlers : handler[g] \in Busy \cup {Idle} /\ handler'[g] \in Busy \cup {Idle}
  BY DEF IInv, TypeOK
<1>2. \A g \in Handlers : /\ handler[g] # Idle => handler[g].deaths < MaxAttempts
                          /\ handler'[g] # Idle => handler'[g].deaths < MaxAttempts
  BY DEF IInv, DeathsLeft
<1>3. \A g \in Handlers :
        /\ Carried(x, handler[g]) \in Nat /\ Carried(x, handler'[g]) \in Nat
        /\ Unspent(x, handler[g]) \in Nat /\ Unspent(x, handler'[g]) \in Nat
  BY <1>1, <1>2, CarriedType
<1>4. /\ C \in [Handlers -> Nat] /\ D \in [Handlers -> Nat]
      /\ U \in [Handlers -> Nat] /\ V \in [Handlers -> Nat]
  BY <1>3
<1>5. \A g \in Handlers : g # h => D[g] = C[g] /\ V[g] = U[g]
  OBVIOUS
<1>6. /\ C[h] = Carried(x, handler[h]) /\ D[h] = Carried(x, handler'[h])
      /\ U[h] = Unspent(x, handler[h]) /\ V[h] = Unspent(x, handler'[h])
  OBVIOUS
<1>7. /\ CarriedNow(x) = Total(C) /\ CarriedNow(x)' = Total(D)
      /\ UnspentNow(x) = Total(U) /\ UnspentNow(x)' = Total(V)
  BY DEF CarriedNow, UnspentNow
<1> HIDE DEF C, D, U, V
<1>8. /\ Total(C) \in Nat /\ Total(D) \in Nat
      /\ Total(D) + C[h] = Total(C) + D[h]
  BY <1>4, <1>5, HandlersAssumption, TotalEdit
<1>9. /\ Total(U) \in Nat /\ Total(V) \in Nat
      /\ Total(V) + U[h] = Total(U) + V[h]
  BY <1>4, <1>5, HandlersAssumption, TotalEdit
<1> QED BY <1>3, <1>6, <1>7, <1>8, <1>9

(* While no delivery moves, what the deliveries carry stays.                  *)
LEMMA HandRests ==
  ASSUME IInv, handler' = handler, NEW x \in Events
  PROVE  /\ CarriedNow(x) \in Nat /\ CarriedNow(x)' = CarriedNow(x)
         /\ UnspentNow(x) \in Nat /\ UnspentNow(x)' = UnspentNow(x)
<1> DEFINE C == [g \in Handlers |-> Carried(x, handler[g])]
           U == [g \in Handlers |-> Unspent(x, handler[g])]
<1>1. \A g \in Handlers : /\ handler[g] \in Busy \cup {Idle}
                          /\ handler[g] # Idle => handler[g].deaths < MaxAttempts
  BY DEF IInv, TypeOK, DeathsLeft
<1>2. \A g \in Handlers : Carried(x, handler[g]) \in Nat /\ Unspent(x, handler[g]) \in Nat
  BY <1>1, CarriedType
<1>3. C \in [Handlers -> Nat] /\ U \in [Handlers -> Nat]
  BY <1>2
<1>4. CarriedNow(x) = Total(C) /\ UnspentNow(x) = Total(U)
  BY DEF CarriedNow, UnspentNow
<1>5. CarriedNow(x)' = CarriedNow(x) /\ UnspentNow(x)' = UnspentNow(x)
  BY DEF CarriedNow, UnspentNow
<1> HIDE DEF C, U
<1> QED BY <1>3, <1>4, <1>5, HandlersAssumption, TotalType

(* A counter that goes up by one settles its own account.                     *)
LEMMA CountersMove ==
  ASSUME count \in [Events -> [Counted -> Nat]], NEW e \in Events, NEW k \in Counted,
         Count(e, k), NEW x \in Events
  PROVE  /\ Price(x) \in Nat /\ Granted(x) \in Nat /\ count[x]["failures"] \in Nat
         /\ Price(x)' = Price(x) + (IF x = e /\ k = "shelved" THEN MaxAttempts ELSE 0)
         /\ Granted(x)' = Granted(x)
              + (IF x = e /\ k \in {"sent", "again"} THEN MaxAttempts ELSE 0)
         /\ count'[x]["failures"] = count[x]["failures"]
              + (IF x = e /\ k = "failures" THEN 1 ELSE 0)
<1> DEFINE a == count[x]["shelved"]
           b == count[x]["sent"]
           c == count[x]["again"]
<1>1. \A l \in Counted : count[x][l] \in Nat /\ count'[x][l]
        = count[x][l] + (IF x = e /\ k = l THEN 1 ELSE 0)
  BY CountEdit
<1>2. a \in Nat /\ b \in Nat /\ c \in Nat /\ count[x]["failures"] \in Nat
  BY <1>1 DEF Counted
<1>3. /\ count'[x]["shelved"] = a + (IF x = e /\ k = "shelved" THEN 1 ELSE 0)
      /\ count'[x]["sent"] = b + (IF x = e /\ k = "sent" THEN 1 ELSE 0)
      /\ count'[x]["again"] = c + (IF x = e /\ k = "again" THEN 1 ELSE 0)
      /\ count'[x]["failures"] = count[x]["failures"]
           + (IF x = e /\ k = "failures" THEN 1 ELSE 0)
  BY <1>1 DEF Counted
<1>4. \A i \in Nat : MaxAttempts * i \in Nat /\ MaxAttempts * (i + 1) = MaxAttempts * i + MaxAttempts
  BY AttemptsAssumption
<1>5. /\ Price(x) = MaxAttempts * a /\ Granted(x) = MaxAttempts * (b + c)
      /\ Price(x)' = MaxAttempts * count'[x]["shelved"]
      /\ Granted(x)' = MaxAttempts * (count'[x]["sent"] + count'[x]["again"])
  BY DEF Price, Granted
<1> HIDE DEF a, b, c
<1>6. b + c \in Nat /\ (b + 1) + c = (b + c) + 1 /\ b + (c + 1) = (b + c) + 1
      /\ a + 0 = a /\ (b + 0) + (c + 0) = b + c
  BY <1>2
<1>7. Price(x) \in Nat /\ Granted(x) \in Nat
  BY <1>2, <1>4, <1>5, <1>6
<1>8. Price(x)' = Price(x) + (IF x = e /\ k = "shelved" THEN MaxAttempts ELSE 0)
  <2>1. count'[x]["shelved"] = IF x = e /\ k = "shelved" THEN a + 1 ELSE a
    BY <1>2, <1>3
  <2> QED BY <2>1, <1>2, <1>4, <1>5, <1>7, AttemptsAssumption
<1>9. Granted(x)' = Granted(x) + (IF x = e /\ k \in {"sent", "again"} THEN MaxAttempts ELSE 0)
  <2>1. count'[x]["sent"] + count'[x]["again"]
          = IF x = e /\ k \in {"sent", "again"} THEN (b + c) + 1 ELSE b + c
    BY <1>2, <1>3
  <2> DEFINE n == b + c
  <2>2. n \in Nat /\ Granted(x) = MaxAttempts * n
        /\ Granted(x)' = MaxAttempts * (IF x = e /\ k \in {"sent", "again"} THEN n + 1 ELSE n)
    BY <2>1, <1>5, <1>6
  <2> HIDE DEF n
  <2>3. MaxAttempts * (n + 1) = MaxAttempts * n + MaxAttempts
    BY <1>4, <2>2
  <2> QED BY <2>2, <2>3, <1>7, AttemptsAssumption
<1> QED BY <1>2, <1>3, <1>7, <1>8, <1>9

(* While no counter moves, no account but the queues' and handlers' does.     *)
LEMMA CountersRest ==
  ASSUME count \in [Events -> [Counted -> Nat]], count' = count, NEW x \in Events
  PROVE  /\ Price(x) \in Nat /\ Granted(x) \in Nat /\ count[x]["failures"] \in Nat
         /\ Price(x)' = Price(x) /\ Granted(x)' = Granted(x)
         /\ count'[x]["failures"] = count[x]["failures"]
<1>1. \A i, j \in Nat : MaxAttempts * i \in Nat /\ i + j \in Nat
  BY AttemptsAssumption
<1>2. count[x]["shelved"] \in Nat /\ count[x]["sent"] \in Nat /\ count[x]["again"] \in Nat
      /\ count[x]["failures"] \in Nat
  BY DEF Counted
<1> QED BY <1>1, <1>2 DEF Price, Granted

(* A fault repeats what one message may have failed before.                   *)
LEMMA FaultsCount ==
  ASSUME faults \in Nat
  PROVE  /\ Lost \in Nat
         /\ faults' = faults => Lost' = Lost
         /\ Fault => faults' = faults + 1 /\ Lost' = Lost + (MaxAttempts - 1)
<1>1. MaxAttempts - 1 \in Nat
  BY AttemptsAssumption
<1>2. \A i, j \in Nat : i * j \in Nat /\ i * (j + 1) = i * j + i
  OBVIOUS
<1> QED BY <1>1, <1>2 DEF Lost, Fault

(* Every step balances the accounts of every event: what a message gains in   *)
(* deaths a failure pays, what is shelved had them, and what a fault repeats  *)
(* it is charged for.                                                         *)
LEMMA AccountsInductive ==
  ASSUME IInv, [Next]_vars, NEW x \in Events, Paid(x), Bounded(x)
  PROVE  Paid(x)' /\ Bounded(x)'
<1>0. IInv'
  BY TypeInductive
<1>t. /\ ingest \in Bag /\ retry \in Bag /\ handler \in Deliveries
      /\ count \in [Events -> [Counted -> Nat]] /\ faults \in Nat
      /\ 0 \in Deaths /\ MaxAttempts \in Nat /\ MaxAttempts >= 1
  BY AttemptsAssumption DEF IInv, TypeOK, Deliveries, Deaths
<1>k. ASSUME NEW h \in Handlers, handler[h] \in Busy
      PROVE  /\ handler[h].event \in Events /\ handler[h].deaths \in Deaths
             /\ handler[h].deaths \in Nat /\ handler[h].deaths < MaxAttempts
             /\ handler[h].channel \in {"open", "lost"}
             /\ handler[h].pc \in {"insert", "dedupe", "fail", "ack"}
             /\ handler[h] # Idle
  BY <1>k, <1>t, IdleOrBusy DEF Busy, Deaths, IInv, DeathsLeft
<1>f. /\ Lost \in Nat
      /\ faults' = faults => Lost' = Lost
      /\ Fault => faults' = faults + 1 /\ Lost' = Lost + (MaxAttempts - 1)
  BY <1>t, FaultsCount
<1>i. Carried(x, Idle) = 0 /\ Unspent(x, Idle) = 0
  BY DEF Carried, Unspent, Acting
<1>1. ASSUME NEW e \in Events, Publish(e) PROVE Paid(x)' /\ Bounded(x)'
  <2>1. /\ Count(e, "sent") /\ ingest' = Put(ingest, e, 0)
        /\ UNCHANGED <<retry, handler, faults>>
    BY <1>1 DEF Publish
  <2>2. /\ Suffered(x) \in Nat /\ Remaining(x) \in Nat
        /\ Suffered(x)' = Suffered(x) + (IF x = e THEN 0 ELSE 0)
        /\ Remaining(x)' = Remaining(x) + (IF x = e THEN MaxAttempts - 0 ELSE 0)
    BY <2>1, <1>t, RingGains
  <2>3. /\ CarriedNow(x) \in Nat /\ CarriedNow(x)' = CarriedNow(x)
        /\ UnspentNow(x) \in Nat /\ UnspentNow(x)' = UnspentNow(x)
    BY <2>1, HandRests
  <2>4. /\ Price(x) \in Nat /\ Granted(x) \in Nat /\ count[x]["failures"] \in Nat
        /\ Price(x)' = Price(x) /\ count'[x]["failures"] = count[x]["failures"]
        /\ Granted(x)' = Granted(x) + (IF x = e THEN MaxAttempts ELSE 0)
    BY <2>1, <1>t, CountersMove DEF Counted
  <2>5. faults' = faults /\ Lost' = Lost
    BY <2>1, <1>f
  <2> QED BY ONLY <2>2, <2>3, <2>4, <2>5, <1>t, <1>f, Paid(x), Bounded(x) DEF Paid, Bounded
<1>2. ASSUME \/ DeclareTopology \/ UNCHANGED vars
             \/ \E e \in Events, d \in Deaths : ExpireRetry(e, d)
      PROVE Paid(x)' /\ Bounded(x)'
  <2>1. UNCHANGED <<handler, count, faults>>
    BY <1>2 DEF DeclareTopology, vars, db, ExpireRetry
  <2>2. /\ Suffered(x) \in Nat /\ Remaining(x) \in Nat
        /\ Suffered(x)' = Suffered(x) /\ Remaining(x)' = Remaining(x)
    <3>1. \/ UNCHANGED <<ingest, retry>>
          \/ \E e \in Events, d \in Deaths : ExpireRetry(e, d)
      BY <1>2 DEF DeclareTopology, vars
    <3> QED BY <3>1, <1>t, RingRests
  <2>3. /\ CarriedNow(x) \in Nat /\ CarriedNow(x)' = CarriedNow(x)
        /\ UnspentNow(x) \in Nat /\ UnspentNow(x)' = UnspentNow(x)
    BY <2>1, HandRests
  <2>4. /\ Price(x) \in Nat /\ Granted(x) \in Nat /\ count[x]["failures"] \in Nat
        /\ Price(x)' = Price(x) /\ Granted(x)' = Granted(x)
        /\ count'[x]["failures"] = count[x]["failures"]
    BY <2>1, <1>t, CountersRest
  <2>5. faults' = faults /\ Lost' = Lost
    BY <2>1, <1>f
  <2> QED BY ONLY <2>2, <2>3, <2>4, <2>5, <1>t, <1>f, Paid(x), Bounded(x) DEF Paid, Bounded
<1>3. ASSUME NEW h \in Handlers, NEW e \in Events, NEW d \in Deaths, Deliver(h, e, d)
      PROVE Paid(x)' /\ Bounded(x)'
  <2>1. /\ ingest[e][d] > 0 /\ ingest' = Take(ingest, e, d)
        /\ UNCHANGED <<retry, faults>> /\ handler[h] = Idle
    BY <1>3 DEF Deliver, db
  <2>2. /\ Suffered(x)' \in Nat /\ Remaining(x)' \in Nat
        /\ Suffered(x) = Suffered(x)' + (IF x = e THEN d ELSE 0)
        /\ Remaining(x) = Remaining(x)' + (IF x = e THEN MaxAttempts - d ELSE 0)
    BY <2>1, <1>t, RingLoses
  <2>3. PICK p \in {"fail", "insert"} :
          /\ handler' = [handler EXCEPT ![h] =
               [pc |-> p, event |-> e, deaths |-> d, channel |-> "open"]]
          /\ IF p = "fail" THEN Count(e, "failures") ELSE count' = count
    BY <1>3 DEF Deliver
  <2> DEFINE n == [pc |-> p, event |-> e, deaths |-> d, channel |-> "open"]
             one == IF p = "fail" THEN 1 ELSE 0
  <2>4. handler'[h] = n /\ \A g \in Handlers : g # h => handler'[g] = handler[g]
    BY <2>3, <1>t DEF Deliveries
  <2>5. /\ Carried(x, n) = (IF x = e THEN d + one ELSE 0)
        /\ Unspent(x, n) = (IF x = e THEN MaxAttempts - d - one ELSE 0)
    <3>1. n # Idle /\ n.pc = p /\ n.event = e /\ n.deaths = d /\ n.channel = "open"
      BY DEF Idle
    <3>2. d \in Nat
      BY DEF Deaths
    <3> HIDE DEF n
    <3> QED BY <3>1, <3>2 DEF Carried, Unspent, Acting
  <2> HIDE DEF n
  <2>6. /\ CarriedNow(x) \in Nat /\ CarriedNow(x)' \in Nat
        /\ UnspentNow(x) \in Nat /\ UnspentNow(x)' \in Nat
        /\ CarriedNow(x)' = CarriedNow(x) + Carried(x, n)
        /\ UnspentNow(x)' = UnspentNow(x) + Unspent(x, n)
    BY <1>0, <1>i, <2>1, <2>4, HandSettles
  <2>7. /\ Price(x) \in Nat /\ Granted(x) \in Nat /\ count[x]["failures"] \in Nat
        /\ Price(x)' = Price(x) /\ Granted(x)' = Granted(x)
        /\ count'[x]["failures"] = count[x]["failures"] + (IF x = e THEN one ELSE 0)
    <3>1. CASE p = "fail"
      BY <3>1, <2>3, <1>t, CountersMove DEF Counted
    <3>2. CASE p # "fail"
      BY <3>2, <2>3, <1>t, CountersRest
    <3> QED BY <3>1, <3>2
  <2>8. faults' = faults /\ Lost' = Lost
    BY <2>1, <1>f
  <2>9. one \in {0, 1} /\ d \in Nat
    BY DEF Deaths
  <2> HIDE DEF one
  <2> QED BY ONLY <2>2, <2>5, <2>6, <2>7, <2>8, <2>9, <1>t, <1>f, Paid(x), Bounded(x)
          DEF Paid, Bounded
\* What a step of a busy handler does to the accounts of x, but for the queues.
<1>h. ASSUME NEW h \in Handlers, handler[h] \in Busy,
             \A g \in Handlers : g # h => handler'[g] = handler[g]
      PROVE  /\ CarriedNow(x) \in Nat /\ CarriedNow(x)' \in Nat
             /\ UnspentNow(x) \in Nat /\ UnspentNow(x)' \in Nat
             /\ Carried(x, handler[h]) \in Nat /\ Carried(x, handler'[h]) \in Nat
             /\ Unspent(x, handler[h]) \in Nat /\ Unspent(x, handler'[h]) \in Nat
             /\ CarriedNow(x)' + Carried(x, handler[h])
                  = CarriedNow(x) + Carried(x, handler'[h])
             /\ UnspentNow(x)' + Unspent(x, handler[h])
                  = UnspentNow(x) + Unspent(x, handler'[h])
  BY <1>h, <1>0, HandSettles
<1>4. ASSUME NEW h \in Handlers, Insert(h) \/ Dedupe(h) \/ StatementFails(h)
      PROVE Paid(x)' /\ Bounded(x)'
  <2>1. handler[h].pc \in {"insert", "dedupe"} /\ UNCHANGED <<ingest, retry, faults>>
    BY <1>4 DEF Insert, Duplicate, Dedupe, StatementFails, db
  <2>2. handler[h] \in Busy
    BY <2>1, <1>t, IdleOrBusy
  <2>3. PICK p \in {"ack", "dedupe", "fail"} :
          /\ Goto(h, p)
          /\ IF p = "fail" THEN Count(handler[h].event, "failures") ELSE count' = count
    BY <1>4 DEF Insert, Duplicate, Dedupe, StatementFails, db
  <2> DEFINE m == handler[h]
             n == handler'[h]
             one == IF p = "fail" /\ m.event = x THEN 1 ELSE 0
  <2>4. /\ n \in Busy /\ n.pc = p /\ n.event = m.event /\ n.deaths = m.deaths
        /\ n.channel = m.channel
        /\ \A g \in Handlers : g # h => handler'[g] = handler[g]
    BY <2>2, <2>3, <1>t, GotoEdit
  <2>5. n # Idle /\ m # Idle
    BY <2>2, <2>4, <1>t, IdleOrBusy
  <2>6. Carried(x, n) <= Carried(x, m) + one /\ Unspent(x, n) + one <= Unspent(x, m)
    <3>1. m.deaths \in Nat /\ m.deaths < MaxAttempts /\ m.channel \in {"open", "lost"}
          /\ m.pc \in {"insert", "dedupe"}
      BY <1>k, <2>1, <2>2
    <3> HIDE DEF m, n
    <3>2. CASE m.event = x
      BY <3>1, <3>2, <2>4, <2>5, <1>t DEF Carried, Unspent, Acting, one
    <3>3. CASE m.event # x
      BY <3>3, <2>4 DEF Carried, Unspent, Acting, one
    <3> QED BY <3>2, <3>3
  <2>7. /\ CarriedNow(x) \in Nat /\ CarriedNow(x)' \in Nat
        /\ UnspentNow(x) \in Nat /\ UnspentNow(x)' \in Nat
        /\ Carried(x, m) \in Nat /\ Carried(x, n) \in Nat
        /\ Unspent(x, m) \in Nat /\ Unspent(x, n) \in Nat
        /\ CarriedNow(x)' + Carried(x, m) = CarriedNow(x) + Carried(x, n)
        /\ UnspentNow(x)' + Unspent(x, m) = UnspentNow(x) + Unspent(x, n)
    BY <1>h, <2>2, <2>4
  <2>8. /\ Price(x) \in Nat /\ Granted(x) \in Nat /\ count[x]["failures"] \in Nat
        /\ Price(x)' = Price(x) /\ Granted(x)' = Granted(x)
        /\ count'[x]["failures"] = count[x]["failures"] + one
    <3>1. CASE p = "fail"
      <4>1. m.event \in Events /\ "failures" \in Counted /\ Count(m.event, "failures")
        BY <3>1, <1>k, <2>2, <2>3 DEF Counted
      <4> QED BY <3>1, <4>1, <1>t, CountersMove
    <3>2. CASE p # "fail"
      BY <3>2, <2>3, <1>t, CountersRest
    <3> QED BY <3>1, <3>2
  <2>9. /\ Suffered(x) \in Nat /\ Remaining(x) \in Nat
        /\ Suffered(x)' = Suffered(x) /\ Remaining(x)' = Remaining(x)
    BY <2>1, <1>t, RingRests
  <2>10. faults' = faults /\ Lost' = Lost /\ one \in {0, 1}
    BY <2>1, <1>f
  <2> HIDE DEF m, n, one
  <2> QED BY ONLY <2>6, <2>7, <2>8, <2>9, <2>10, <1>t, <1>f, Paid(x), Bounded(x)
          DEF Paid, Bounded
<1>5. ASSUME NEW h \in Handlers, Reject(h) PROVE Paid(x)' /\ Bounded(x)'
  <2>1. /\ handler[h].pc = "fail" /\ handler[h].channel = "open" /\ ~Exhausted(h)
        /\ Leave(h) /\ UNCHANGED <<ingest, count, faults>>
    BY <1>5 DEF Reject, Failed
  <2>2. handler[h] \in Busy
    BY <2>1, <1>t, IdleOrBusy
  <2> DEFINE m == handler[h]
             s == Died(m.deaths)
  <2>3. m.event \in Events /\ m.deaths \in Nat /\ s = m.deaths + 1 /\ s \in Deaths
        /\ s < MaxAttempts /\ m # Idle
    <3>1. m.event \in Events /\ m.deaths \in Nat /\ m.deaths < MaxAttempts /\ m # Idle
      BY <1>k, <2>2
    <3> QED BY <2>1, <3>1, <1>t DEF Exhausted, Died, Deaths
  <2>4. handler'[h] = Idle /\ \A g \in Handlers : g # h => handler'[g] = handler[g]
    BY <2>1, <1>t, LeaveEdit
  <2>5. /\ Carried(x, m) = (IF x = m.event THEN s ELSE 0)
        /\ Unspent(x, m) = (IF x = m.event THEN MaxAttempts - s ELSE 0)
    BY <2>1, <2>3, <1>t DEF Carried, Unspent, Acting
  <2>6. /\ Suffered(x) \in Nat /\ Remaining(x) \in Nat
        /\ Suffered(x)' \in Nat /\ Remaining(x)' \in Nat
        /\ Suffered(x)' <= Suffered(x) + (IF x = m.event THEN s ELSE 0)
        /\ Remaining(x)' <= Remaining(x) + (IF x = m.event THEN MaxAttempts - s ELSE 0)
    <3>1. CASE retry' = Put(retry, m.event, s)
      <4>1. /\ Suffered(x) \in Nat /\ Remaining(x) \in Nat
            /\ Suffered(x)' = Suffered(x) + (IF x = m.event THEN s ELSE 0)
            /\ Remaining(x)' = Remaining(x) + (IF x = m.event THEN MaxAttempts - s ELSE 0)
        BY <2>1, <2>3, <3>1, <1>t, RingGains
      <4> HIDE DEF m, s
      <4> QED BY <4>1, <2>3, <1>t
    <3>2. CASE retry' = retry
      <4>1. /\ Suffered(x) \in Nat /\ Remaining(x) \in Nat
            /\ Suffered(x)' = Suffered(x) /\ Remaining(x)' = Remaining(x)
        BY <2>1, <3>2, <1>t, RingRests
      <4> HIDE DEF m, s
      <4> QED BY <4>1, <2>3, <1>t
    <3> QED BY <1>5, <3>1, <3>2 DEF Reject
  <2>7. /\ CarriedNow(x) \in Nat /\ CarriedNow(x)' \in Nat
        /\ UnspentNow(x) \in Nat /\ UnspentNow(x)' \in Nat
        /\ CarriedNow(x)' + Carried(x, m) = CarriedNow(x) + 0
        /\ UnspentNow(x)' + Unspent(x, m) = UnspentNow(x) + 0
    BY <1>h, <1>i, <2>2, <2>4
  <2>8. /\ Price(x) \in Nat /\ Granted(x) \in Nat /\ count[x]["failures"] \in Nat
        /\ Price(x)' = Price(x) /\ Granted(x)' = Granted(x)
        /\ count'[x]["failures"] = count[x]["failures"]
    BY <2>1, <1>t, CountersRest
  <2>9. faults' = faults /\ Lost' = Lost
    BY <2>1, <1>f
  <2> HIDE DEF m, s
  <2> QED BY ONLY <2>3, <2>5, <2>6, <2>7, <2>8, <2>9, <1>t, <1>f, Paid(x), Bounded(x)
          DEF Paid, Bounded
<1>6. ASSUME NEW h \in Handlers, DeadLetter(h) PROVE Paid(x)' /\ Bounded(x)'
  <2>1. /\ handler[h].pc = "fail" /\ handler[h].channel = "open" /\ Exhausted(h)
        /\ Goto(h, "ack") /\ Count(handler[h].event, "shelved")
        /\ UNCHANGED <<ingest, retry, faults>>
    BY <1>6 DEF DeadLetter, Failed
  <2>2. handler[h] \in Busy
    BY <2>1, <1>t, IdleOrBusy
  <2> DEFINE m == handler[h]
             n == handler'[h]
  <2>3. m.event \in Events /\ m.deaths \in Nat /\ m.deaths + 1 = MaxAttempts /\ m # Idle
    <3>1. m.event \in Events /\ m.deaths \in Nat /\ m.deaths < MaxAttempts /\ m # Idle
      BY <1>k, <2>2
    <3>2. m.deaths + 1 >= MaxAttempts
      BY <2>1 DEF Exhausted
    <3> HIDE DEF m
    <3>3. m.deaths + 1 = MaxAttempts
      BY ONLY <3>1, <3>2, <1>t
    <3> QED BY <3>1, <3>3
  <2>4. /\ n \in Busy /\ n.pc = "ack" /\ n.event = m.event /\ n.deaths = m.deaths
        /\ n.channel = m.channel
        /\ \A g \in Handlers : g # h => handler'[g] = handler[g]
    BY <2>1, <2>2, <1>t, GotoEdit
  <2>5. n # Idle
    BY <2>4, <1>t, IdleOrBusy
  <2>6. /\ Carried(x, m) = (IF x = m.event THEN MaxAttempts ELSE 0) /\ Carried(x, n) = 0
        /\ Unspent(x, m) = 0 /\ Unspent(x, n) = 0
    <3>1. MaxAttempts - m.deaths - 1 = 0 /\ m.deaths + 1 = MaxAttempts
      BY <2>3, <1>t
    <3>2. /\ m.pc = "fail" /\ m.channel = "open"
          /\ n.pc = "ack" /\ n.channel = "open" /\ n.deaths = m.deaths /\ n.event = m.event
      BY <2>1, <2>4
    <3>3. m # Idle /\ n # Idle
      BY <2>3, <2>5
    <3> HIDE DEF m, n
    <3> QED BY <3>1, <3>2, <3>3 DEF Carried, Unspent, Acting
  <2>7. /\ CarriedNow(x) \in Nat /\ CarriedNow(x)' \in Nat
        /\ UnspentNow(x) \in Nat /\ UnspentNow(x)' \in Nat
        /\ CarriedNow(x)' + Carried(x, m) = CarriedNow(x) + Carried(x, n)
        /\ UnspentNow(x)' + Unspent(x, m) = UnspentNow(x) + Unspent(x, n)
    BY <1>h, <2>2, <2>4
  <2>8. /\ Price(x) \in Nat /\ Granted(x) \in Nat /\ count[x]["failures"] \in Nat
        /\ Price(x)' = Price(x) + (IF x = m.event THEN MaxAttempts ELSE 0)
        /\ Granted(x)' = Granted(x) /\ count'[x]["failures"] = count[x]["failures"]
    <3>1. m.event \in Events /\ "shelved" \in Counted /\ Count(m.event, "shelved")
      BY <2>1, <2>3 DEF Counted
    <3> HIDE DEF m
    <3> QED BY <3>1, <1>t, CountersMove
  <2>9. /\ Suffered(x) \in Nat /\ Remaining(x) \in Nat
        /\ Suffered(x)' = Suffered(x) /\ Remaining(x)' = Remaining(x)
    BY <2>1, <1>t, RingRests
  <2>10. faults' = faults /\ Lost' = Lost
    BY <2>1, <1>f
  <2> HIDE DEF m, n
  <2> QED BY ONLY <2>6, <2>7, <2>8, <2>9, <2>10, <1>t, <1>f, Paid(x), Bounded(x)
          DEF Paid, Bounded
<1>7. ASSUME NEW h \in Handlers, Finish(h) PROVE Paid(x)' /\ Bounded(x)'
  <2>1. handler[h].pc # "idle" /\ Leave(h) /\ UNCHANGED <<ingest, retry, count, faults>>
    BY <1>7 DEF Finish, db
  <2>2. handler[h] \in Busy
    BY <2>1, <1>t, IdleOrBusy
  <2>4. handler'[h] = Idle /\ \A g \in Handlers : g # h => handler'[g] = handler[g]
    BY <2>1, <1>t, LeaveEdit
  <2>7. /\ CarriedNow(x) \in Nat /\ CarriedNow(x)' \in Nat
        /\ UnspentNow(x) \in Nat /\ UnspentNow(x)' \in Nat
        /\ Carried(x, handler[h]) \in Nat /\ Unspent(x, handler[h]) \in Nat
        /\ CarriedNow(x)' + Carried(x, handler[h]) = CarriedNow(x) + 0
        /\ UnspentNow(x)' + Unspent(x, handler[h]) = UnspentNow(x) + 0
    BY <1>h, <1>i, <2>2, <2>4
  <2>8. /\ Price(x) \in Nat /\ Granted(x) \in Nat /\ count[x]["failures"] \in Nat
        /\ Price(x)' = Price(x) /\ Granted(x)' = Granted(x)
        /\ count'[x]["failures"] = count[x]["failures"]
    BY <2>1, <1>t, CountersRest
  <2>9. /\ Suffered(x) \in Nat /\ Remaining(x) \in Nat
        /\ Suffered(x)' = Suffered(x) /\ Remaining(x)' = Remaining(x)
    BY <2>1, <1>t, RingRests
  <2>10. faults' = faults /\ Lost' = Lost
    BY <2>1, <1>f
  <2> QED BY ONLY <2>7, <2>8, <2>9, <2>10, <1>t, <1>f, Paid(x), Bounded(x)
          DEF Paid, Bounded
<1>8. ASSUME NEW e \in Events, Republish(e) \/ RepublishDies(e) PROVE Paid(x)' /\ Bounded(x)'
  <2>1. /\ Count(e, "again") /\ ingest' = Put(ingest, e, 0)
        /\ UNCHANGED <<retry, handler>> /\ (faults' = faults \/ Fault)
    BY <1>8 DEF Republish, RepublishDies
  <2>2. /\ Suffered(x) \in Nat /\ Remaining(x) \in Nat
        /\ Suffered(x)' = Suffered(x) + (IF x = e THEN 0 ELSE 0)
        /\ Remaining(x)' = Remaining(x) + (IF x = e THEN MaxAttempts - 0 ELSE 0)
    BY <2>1, <1>t, RingGains
  <2>3. /\ CarriedNow(x) \in Nat /\ CarriedNow(x)' = CarriedNow(x)
        /\ UnspentNow(x) \in Nat /\ UnspentNow(x)' = UnspentNow(x)
    BY <2>1, HandRests
  <2>4. /\ Price(x) \in Nat /\ Granted(x) \in Nat /\ count[x]["failures"] \in Nat
        /\ Price(x)' = Price(x) /\ count'[x]["failures"] = count[x]["failures"]
        /\ Granted(x)' = Granted(x) + (IF x = e THEN MaxAttempts ELSE 0)
    BY <2>1, <1>t, CountersMove DEF Counted
  <2>5. \/ faults' = faults /\ Lost' = Lost
        \/ faults' = faults + 1 /\ Lost' = Lost + (MaxAttempts - 1)
    BY <2>1, <1>f
  <2> QED BY ONLY <2>2, <2>3, <2>4, <2>5, <1>t, <1>f, Paid(x), Bounded(x) DEF Paid, Bounded
<1>9. ASSUME NEW h \in Handlers, HandlerCrash(h) \/ LoseChannel(h)
      PROVE Paid(x)' /\ Bounded(x)'
  <2>1. /\ handler[h] # Idle /\ ingest' = Requeued(h) /\ Fault
        /\ UNCHANGED <<retry, count>>
        /\ \/ Leave(h)
           \/ /\ handler[h].channel = "open"
              /\ handler' = [handler EXCEPT ![h].channel = "lost"]
    BY <1>9 DEF HandlerCrash, LoseChannel
  <2>2. handler[h] \in Busy
    BY <2>1, <1>t, IdleOrBusy
  <2> DEFINE m == handler[h]
             n == handler'[h]
             back == m.channel = "open" /\ m.event = x
  <2>3. /\ m.event \in Events /\ m.deaths \in Deaths /\ m.deaths \in Nat
        /\ m.deaths < MaxAttempts /\ m.channel \in {"open", "lost"} /\ m # Idle
        /\ m.pc \in {"insert", "dedupe", "fail", "ack"}
    BY <1>k, <2>2
  <2>4. /\ n = Idle \/ (n # Idle /\ n.channel = "lost" /\ m.channel = "open"
                        /\ n.pc = m.pc /\ n.event = m.event)
        /\ \A g \in Handlers : g # h => handler'[g] = handler[g]
    <3>1. CASE Leave(h)
      BY <3>1, <1>t, LeaveEdit
    <3>2. CASE /\ handler[h].channel = "open"
               /\ handler' = [handler EXCEPT ![h].channel = "lost"]
      <4>1. n = [handler[h] EXCEPT !.channel = "lost"]
        BY <3>2, <1>t DEF Deliveries
      <4>2. n.channel = "lost" /\ n.pc = m.pc /\ n.event = m.event
        BY <4>1, <2>2 DEF Busy
      <4>3. n \in Busy /\ \A g \in Handlers : g # h => handler'[g] = handler[g]
        BY <3>2, <2>2, <1>t, LostEdit
      <4>4. n # Idle
        BY <4>3, <1>t, IdleOrBusy
      <4> QED BY <3>2, <4>2, <4>3, <4>4
    <3> QED BY <2>1, <3>1, <3>2
  <2>5. /\ Carried(x, n) = 0
        /\ Unspent(x, n) + (IF back THEN MaxAttempts - m.deaths ELSE 0) <= Unspent(x, m) + 1
    <3>1. Carried(x, n) = 0
      BY <2>4 DEF Carried, Acting
    <3>2. Unspent(x, m) \in Nat
      BY <1>h, <2>2, <2>4
    <3>3. CASE ~back
      <4>1. Unspent(x, n) = 0
        <5>1. CASE n = Idle
          BY <5>1, <1>i
        <5>2. CASE n # Idle
          <6>1. n.event # x
            BY <2>4, <3>3, <5>2
          <6> QED BY <6>1 DEF Unspent, Acting
        <5> QED BY <5>1, <5>2
      <4> QED BY <3>1, <3>2, <3>3, <4>1
    <3>4. CASE back
      <4>1. Unspent(x, m) = MaxAttempts - m.deaths - (IF m.pc \in {"fail", "ack"} THEN 1 ELSE 0)
        BY <2>3, <3>4 DEF Unspent, Acting
      <4>2. Unspent(x, n) = 0 \/ (Unspent(x, n) = 1 /\ m.pc \notin {"fail", "ack"})
        BY <2>4 DEF Unspent, Acting
      <4> HIDE DEF n, m, back
      <4> QED BY <2>3, <3>1, <3>4, <4>1, <4>2, <1>t
    <3> QED BY <3>3, <3>4
  <2>6. /\ Suffered(x) \in Nat /\ Remaining(x) \in Nat
        /\ Suffered(x)' = Suffered(x) + (IF back THEN m.deaths ELSE 0)
        /\ Remaining(x)' = Remaining(x) + (IF back THEN MaxAttempts - m.deaths ELSE 0)
    <3>1. CASE m.channel = "open"
      <4>1. ingest' = Put(ingest, m.event, m.deaths) /\ retry' = retry
        BY <2>1, <3>1 DEF Requeued
      <4>2. /\ Suffered(x) \in Nat /\ Remaining(x) \in Nat
            /\ Suffered(x)' = Suffered(x) + (IF x = m.event THEN m.deaths ELSE 0)
            /\ Remaining(x)' = Remaining(x) + (IF x = m.event THEN MaxAttempts - m.deaths ELSE 0)
        BY <2>3, <4>1, <1>t, RingGains
      <4>3. back <=> x = m.event
        BY <3>1
      <4> HIDE DEF back, m
      <4> QED BY <4>2, <4>3
    <3>2. CASE m.channel # "open"
      <4>1. UNCHANGED <<ingest, retry>>
        BY <2>1, <3>2 DEF Requeued
      <4>2. /\ Suffered(x) \in Nat /\ Remaining(x) \in Nat
            /\ Suffered(x)' = Suffered(x) /\ Remaining(x)' = Remaining(x)
        BY <4>1, <1>t, RingRests
      <4> QED BY <3>2, <4>2
    <3> QED BY <3>1, <3>2
  <2>7. /\ CarriedNow(x) \in Nat /\ CarriedNow(x)' \in Nat
        /\ UnspentNow(x) \in Nat /\ UnspentNow(x)' \in Nat
        /\ Carried(x, m) \in Nat /\ Carried(x, n) \in Nat
        /\ Unspent(x, m) \in Nat /\ Unspent(x, n) \in Nat
        /\ CarriedNow(x)' + Carried(x, m) = CarriedNow(x) + Carried(x, n)
        /\ UnspentNow(x)' + Unspent(x, m) = UnspentNow(x) + Unspent(x, n)
    BY <1>h, <2>2, <2>4
  <2>8. /\ Price(x) \in Nat /\ Granted(x) \in Nat /\ count[x]["failures"] \in Nat
        /\ Price(x)' = Price(x) /\ Granted(x)' = Granted(x)
        /\ count'[x]["failures"] = count[x]["failures"]
    BY <2>1, <1>t, CountersRest
  <2>9. faults' = faults + 1 /\ Lost' = Lost + (MaxAttempts - 1)
    BY <2>1, <1>f
  <2> HIDE DEF m, n, back
  <2>10. Paid(x)'
    BY ONLY <2>3, <2>5, <2>6, <2>7, <2>8, <2>9, <1>t, <1>f, Paid(x) DEF Paid
  <2>11. Bounded(x)'
    BY ONLY <2>3, <2>5, <2>6, <2>7, <2>8, <2>9, <1>t, <1>f, Bounded(x) DEF Bounded
  <2> QED BY <2>10, <2>11
<1> QED
  BY <1>1, <1>2, <1>3, <1>4, <1>5, <1>6, <1>7, <1>8, <1>9 DEF Next, EventStep, HandlerStep

(* At first there is nothing on either side.                                  *)
LEMMA AccountsInit == Init => \A x \in Events : Paid(x) /\ Bounded(x)
<1> SUFFICES ASSUME Init, NEW x \in Events PROVE Paid(x) /\ Bounded(x)
  OBVIOUS
<1>1. /\ \A d \in Deaths : ingest[x][d] = 0 /\ retry[x][d] = 0
      /\ \A h \in Handlers : handler[h] = Idle
      /\ \A k \in Counted : count[x][k] = 0
      /\ faults = 0
  BY DEF Init, NoMessage
<1>2. Total([d \in Deaths |-> Ring(x)[d] * Dead[d]]) = 0
  <2>1. \A d \in Deaths : Ring(x)[d] * Dead[d] = 0
    BY <1>1 DEF Ring, Dead, Deaths
  <2> QED BY <2>1, TotalZero
<1>3. Total([d \in Deaths |-> Ring(x)[d] * Left[d]]) = 0
  <2>1. \A d \in Deaths : Ring(x)[d] * Left[d] = 0
    BY <1>1, AttemptsAssumption DEF Ring, Left, Deaths
  <2> QED BY <2>1, TotalZero
<1>4. CarriedNow(x) = 0 /\ UnspentNow(x) = 0
  <2>1. \A h \in Handlers : Carried(x, handler[h]) = 0 /\ Unspent(x, handler[h]) = 0
    BY <1>1 DEF Carried, Unspent, Acting
  <2> QED BY <2>1, TotalZero DEF CarriedNow, UnspentNow
<1>5. Price(x) = 0 /\ Granted(x) = 0 /\ count[x]["failures"] = 0 /\ Lost = 0
  BY <1>1, AttemptsAssumption DEF Price, Granted, Counted, Lost
<1>6. Suffered(x) = 0 /\ Remaining(x) = 0
  BY <1>2, <1>3 DEF Suffered, Remaining, Weighed
<1> QED BY <1>1, <1>4, <1>5, <1>6 DEF Paid, Bounded

(* So the accounts balance in every reachable state.                          *)
LEMMA AccountsInvariant == Spec => [](\A x \in Events : Paid(x) /\ Bounded(x))
<1> DEFINE Inv == IInv /\ \A x \in Events : Paid(x) /\ Bounded(x)
<1>1. Init => Inv
  BY TypeInit, AccountsInit
<1>2. Inv /\ [Next]_vars => Inv'
  BY TypeInductive, AccountsInductive
<1>3. Inv => \A x \in Events : Paid(x) /\ Bounded(x)
  OBVIOUS
<1> QED BY <1>1, <1>2, <1>3, PTL DEF Spec

(* No message is shelved before MaxAttempts deliveries of it have failed: for *)
(* any number of handlers, messages and faults, what is in the dead-letter    *)
(* queue and the deaths of what still circles were paid for by failures.      *)
THEOREM ShelvingIsPaid == Spec => []ShelvedPaid
<1>1. (\A x \in Events : Paid(x) /\ Bounded(x)) => ShelvedPaid
  BY DEF Paid, ShelvedPaid, Price, Suffered, CarriedNow, Lost
<1> QED BY <1>1, AccountsInvariant, PTL

(* A message that can never succeed does not circle for ever: an event fails  *)
(* at most MaxAttempts times per publication, and once more per fault.        *)
THEOREM FailuresAreBounded == Spec => []FailuresBounded
<1>1. (\A x \in Events : Paid(x) /\ Bounded(x)) => FailuresBounded
  BY DEF Bounded, FailuresBounded, Granted, Remaining, UnspentNow
<1> QED BY <1>1, AccountsInvariant, PTL
=============================================================================
