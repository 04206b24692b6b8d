--------------------------- MODULE EndToEndProofs ---------------------------
(***************************************************************************)
(* What the parts are proved to do alone they do together: every step of   *)
(* the composition is a step, or no step, of the ingest path, of push      *)
(* delivery and of the outbox, so their theorems hold here.  With that, a  *)
(* user's event is kept from the publish to the notification.              *)
(***************************************************************************)
EXTENDS EndToEnd, TLAPS

IP == INSTANCE IngestPipelineProofs WITH
  Events <- Users, Bad <- {}, Handlers <- IngestHandlers, handler <- inserter,
  retry <- ingestRetry, faults <- ingestFaults, MaxRepublish <- 0

PP == INSTANCE PushDeliveryProofs WITH
  Rows <- Users, Handlers <- PushHandlers, BatchSize <- 1, faults <- pushFaults,
  MaxManual <- 0, MaxLag <- 0

-----------------------------------------------------------------------------
(* The parts, and the modules that prove about them *)

(* The assumptions of the ingest path hold of the constants it has here.      *)
LEMMA IngestAssumptions ==
  /\ {} \subseteq Users
  /\ MaxAttempts \in Nat \ {0}
  /\ IP!IsFiniteSet(IngestHandlers)
  /\ MaxSent \in Nat /\ 0 \in Nat /\ MaxFaults \in Nat
  BY RetryAssumption, ActorsAssumption, BoundAssumption DEF IsFiniteSet, IP!IsFiniteSet

(* And so do those of push delivery.                                          *)
LEMMA PushAssumptions ==
  /\ Users \subseteq Nat /\ PP!IsFiniteSet(Users)
  /\ PP!IsFiniteSet(PushHandlers) /\ PP!IsFiniteSet(Tickers)
  /\ MaxAttempts \in Nat \ {0} /\ MaxRedrives \in Nat \ {0}
  /\ 1 \in Nat \ {0} /\ 0 \in Nat /\ MaxFaults \in Nat
  BY UsersAssumption, RetryAssumption, ActorsAssumption, BoundAssumption
  DEF IsFiniteSet, PP!IsFiniteSet

(* The ingest path here is the one that IngestPipelineProofs is about.        *)
LEMMA SameIngest ==
  /\ I!Init => IP!Init
  /\ I!vars = IP!vars
  /\ I!Next => IP!Next
  /\ I!TypeOK <=> IP!TypeOK
  /\ I!NothingVanishes <=> IP!NothingVanishes
  /\ \A h \in IngestHandlers : I!HandlerStep(h) => IP!HandlerStep(h)
<1> USE DEF I!Count, IP!Count, I!Put, IP!Put, I!Take, IP!Take, I!db, IP!db,
      I!Deaths, IP!Deaths, I!Idle, IP!Idle, I!Goto, IP!Goto, I!Leave, IP!Leave,
      I!Bag, IP!Bag, I!Busy, IP!Busy, I!Counted, IP!Counted
<1>1. I!Init => IP!Init
  BY DEF I!Init, IP!Init, I!NoMessage, IP!NoMessage
<1>2. I!vars = IP!vars
  BY DEF I!vars, IP!vars
<1>3. \A h \in IngestHandlers : I!HandlerStep(h) => IP!HandlerStep(h)
  BY DEF I!HandlerStep, IP!HandlerStep, I!Insert, IP!Insert, I!Dedupe, IP!Dedupe,
         I!StatementFails, IP!StatementFails, I!Reject, IP!Reject, I!DeadLetter,
         IP!DeadLetter, I!Finish, IP!Finish, I!Inserted, IP!Inserted, I!Duplicate,
         IP!Duplicate, I!Failed, IP!Failed, I!Exhausted, IP!Exhausted, I!Died, IP!Died
<1>4. \A e \in Users : I!EventStep(e) => IP!EventStep(e)
  BY DEF I!EventStep, IP!EventStep, I!Publish, IP!Publish, I!Republish, IP!Republish,
         I!RepublishDies, IP!RepublishDies, I!ExpireRetry, IP!ExpireRetry, I!Fault, IP!Fault
<1>5. I!DeclareTopology => IP!DeclareTopology
  BY DEF I!DeclareTopology, IP!DeclareTopology
<1>6. \A h \in IngestHandlers, e \in Users, d \in IP!Deaths :
        I!Deliver(h, e, d) => IP!Deliver(h, e, d)
  BY DEF I!Deliver, IP!Deliver
<1>7. \A h \in IngestHandlers : /\ I!HandlerCrash(h) => IP!HandlerCrash(h)
                                /\ I!LoseChannel(h) => IP!LoseChannel(h)
  BY DEF I!HandlerCrash, IP!HandlerCrash, I!LoseChannel, IP!LoseChannel,
         I!Requeued, IP!Requeued, I!Fault, IP!Fault
<1>8. I!Next => IP!Next
  BY <1>3, <1>4, <1>5, <1>6, <1>7 DEF I!Next, IP!Next
<1>9. I!TypeOK <=> IP!TypeOK
  BY DEF I!TypeOK, IP!TypeOK
<1>10. I!NothingVanishes <=> IP!NothingVanishes
  BY DEF I!NothingVanishes, IP!NothingVanishes
<1> QED BY <1>1, <1>2, <1>3, <1>8, <1>9, <1>10

(* Push delivery here is the one that PushDeliveryProofs is about.            *)
LEMMA SamePush ==
  /\ P!Init => PP!Init
  /\ P!vars = PP!vars
  /\ P!Next => PP!Next
  /\ P!TypeOK <=> PP!TypeOK
  /\ \A t \in Tickers : /\ P!TickStep(t) => PP!TickStep(t)
                        /\ P!TickDies(t) => PP!TickDies(t)
  /\ \A h \in PushHandlers : /\ P!HandlerStep(h) => PP!HandlerStep(h)
                             /\ P!HandlerCrash(h) => PP!HandlerCrash(h)
                             /\ P!LoseChannel(h) => PP!LoseChannel(h)
                             /\ P!HandlerThrow(h) => PP!HandlerThrow(h)
  /\ \A h \in PushHandlers, n \in Users : P!Deliver(h, n) => PP!Deliver(h, n)
  /\ \A n \in Users : /\ P!Ingest(n) => PP!Ingest(n)
                      /\ P!BecomeDue(n) => PP!BecomeDue(n)
                      /\ P!Age(n) => PP!Age(n)
                      /\ P!ExpireRetry(n) => PP!ExpireRetry(n)
                      /\ P!LookupThrow(n) => PP!LookupThrow(n)
  /\ P!ConfirmLost => PP!ConfirmLost
<1> USE DEF P!db, PP!db, P!broker, PP!broker, P!actors, PP!actors, P!audit,
    PP!audit, P!Commit, PP!Commit, P!Statuses, PP!Statuses, P!Update,
    PP!Update, P!InStatus, PP!InStatus, P!Log, PP!Log, P!AppendHistory,
    PP!AppendHistory, P!Enqueue, PP!Enqueue, P!IdleHandler, PP!IdleHandler,
    P!IdleTick, PP!IdleTick, P!Fault, PP!Fault, P!Requeued, PP!Requeued
<1>1. P!Init => PP!Init
  BY DEF P!Init, PP!Init, P!NoRow, PP!NoRow, P!Events, PP!Events
<1>2. P!vars = PP!vars
  BY DEF P!vars, PP!vars
<1>3. P!TypeOK <=> PP!TypeOK
  BY DEF P!TypeOK, PP!TypeOK, P!Row, PP!Row, P!Status, PP!Status, P!Clock,
      PP!Clock, P!Events, PP!Events, P!Busy, PP!Busy, P!Tick, PP!Tick
<1>4. \A t \in Tickers : P!TickStep(t) => PP!TickStep(t)
  <2> SUFFICES ASSUME NEW t \in Tickers PROVE P!TickStep(t) => PP!TickStep(t)
    OBVIOUS
  <2>1. P!FailCapped(t) => PP!FailCapped(t)
    BY DEF P!FailCapped, PP!FailCapped, P!Capped, PP!Capped, P!Stuck,
        PP!Stuck, P!Failed, PP!Failed
  <2>2. P!RecoverStuck(t) => PP!RecoverStuck(t)
    BY DEF P!RecoverStuck, PP!RecoverStuck, P!Eligible, PP!Eligible, P!Stuck,
        PP!Stuck, P!Redriven, PP!Redriven
  <2>3. P!AppendRedriven(t) \/ P!AppendClaimed(t) => PP!AppendRedriven(t) \/ PP!AppendClaimed(t)
    BY DEF P!AppendRedriven, PP!AppendRedriven, P!AppendClaimed,
        PP!AppendClaimed
  <2>4. (\E locked \in SUBSET P!Lockable : P!Claim(t, locked))
          => \E locked \in SUBSET PP!Lockable : PP!Claim(t, locked)
    BY DEF P!Claim, PP!Claim, P!Oldest, PP!Oldest, P!Lockable, PP!Lockable,
        P!Claimable, PP!Claimable, P!Claimed, PP!Claimed, P!Cardinality,
        PP!Cardinality
  <2>5. \A n \in Users : P!PublishPush(t, n) => PP!PublishPush(t, n)
    BY DEF P!PublishPush, PP!PublishPush
  <2> QED BY <2>1, <2>2, <2>3, <2>4, <2>5 DEF P!TickStep, PP!TickStep
<1>5. \A h \in PushHandlers : P!HandlerStep(h) => PP!HandlerStep(h)
  BY DEF P!HandlerStep, PP!HandlerStep, P!Send, PP!Send, P!RecordSent,
      PP!RecordSent, P!RecordFailure, PP!RecordFailure, P!PublishRetry,
      PP!PublishRetry, P!Ack, PP!Ack, P!Sent, PP!Sent, P!Failed, PP!Failed,
      P!Attempted, PP!Attempted, P!AfterFailure, PP!AfterFailure
<1>6. \A h \in PushHandlers, n \in Users : P!Deliver(h, n) => PP!Deliver(h, n)
  BY DEF P!Deliver, PP!Deliver, P!Sendable, PP!Sendable
<1>7. \A n \in Users : /\ P!Ingest(n) => PP!Ingest(n)
                       /\ P!BecomeDue(n) => PP!BecomeDue(n)
                       /\ P!Age(n) => PP!Age(n)
                       /\ P!ExpireRetry(n) => PP!ExpireRetry(n)
                       /\ P!LookupThrow(n) => PP!LookupThrow(n)
  BY DEF P!Ingest, PP!Ingest, P!BecomeDue, PP!BecomeDue, P!Age, PP!Age,
      P!ExpireRetry, PP!ExpireRetry, P!LookupThrow, PP!LookupThrow,
      P!Inserted, PP!Inserted
<1>8. /\ \A t \in Tickers : P!TickDies(t) => PP!TickDies(t)
      /\ \A h \in PushHandlers : /\ P!HandlerCrash(h) => PP!HandlerCrash(h)
                                 /\ P!LoseChannel(h) => PP!LoseChannel(h)
                                 /\ P!HandlerThrow(h) => PP!HandlerThrow(h)
  BY DEF P!TickDies, PP!TickDies, P!HandlerCrash, PP!HandlerCrash,
      P!LoseChannel, PP!LoseChannel, P!HandlerThrow, PP!HandlerThrow
<1>9. /\ P!Replay => PP!Replay
      /\ \A n \in Users : /\ P!ManualRetry(n) => PP!ManualRetry(n)
                          /\ P!AppendManualRetry(n) => PP!AppendManualRetry(n)
                          /\ P!AdminDies(n) => PP!AdminDies(n)
  BY DEF P!Replay, PP!Replay, P!ManualRetry, PP!ManualRetry,
      P!AppendManualRetry, PP!AppendManualRetry, P!AdminDies, PP!AdminDies,
      P!Retried, PP!Retried
<1>10. P!ConfirmLost => PP!ConfirmLost
  BY DEF P!ConfirmLost, PP!ConfirmLost, P!PushConfirmLost, PP!PushConfirmLost,
      P!RetryConfirmLost, PP!RetryConfirmLost
<1>11. P!Next => PP!Next
  BY <1>4, <1>5, <1>6, <1>7, <1>8, <1>9, <1>10
  DEF P!Next, PP!Next, P!RowStep, PP!RowStep, P!FaultStep, PP!FaultStep
<1> QED BY <1>1, <1>2, <1>3, <1>4, <1>5, <1>6, <1>7, <1>8, <1>10, <1>11

-----------------------------------------------------------------------------
(* Every step of the composition, seen from one part *)

(* The ingest path takes its own steps only, or rests.                        *)
LEMMA IngestStep == [Next]_vars => [I!Next]_(I!vars)
<1> SUFFICES ASSUME [Next]_vars PROVE I!Next \/ UNCHANGED ingestVars
  BY DEF ingestVars, I!vars, I!db
<1>1. CASE Fire \/ Bind \/ UNCHANGED vars
  BY <1>1 DEF Fire, Bind, vars
<1>2. ASSUME NEW e \in Users, UserStep(e) PROVE I!Next \/ UNCHANGED ingestVars
  <2>1. CASE \/ CreateUser(e) \/ PushDeliver(e)
             \/ PushAlone(P!BecomeDue(e) \/ P!Age(e) \/ P!ExpireRetry(e))
    BY <2>1 DEF CreateUser, PushDeliver, OutboxAlone, PushAlone
  <2>2. CASE Publish(e)
    BY <2>2 DEF Publish, I!Next, I!EventStep
  <2>3. CASE IngestDeliver(e)
    BY <2>3 DEF IngestDeliver, IngestAlone, I!Next, I!Deaths
  <2>4. CASE IngestExpire(e)
    BY <2>4 DEF IngestExpire, IngestAlone, I!Next, I!EventStep, I!Deaths
  <2> QED BY <1>2, <2>1, <2>2, <2>3, <2>4 DEF UserStep
<1>3. ASSUME NEW h \in IngestHandlers, IngestHandler(h) PROVE I!Next
  BY <1>3 DEF IngestHandler, I!Next
<1>4. ASSUME NEW t \in Tickers, NotifierTick(t) \/ NotifierTickFails(t)
      PROVE UNCHANGED ingestVars
  BY <1>4 DEF NotifierTick, NotifierTickFails, PushAlone
<1>5. ASSUME NEW h \in PushHandlers, PushAlone(P!HandlerStep(h)) PROVE UNCHANGED ingestVars
  BY <1>5 DEF PushAlone
<1>6. CASE FaultStep
  BY <1>4, <1>6 DEF FaultStep, IngestAlone, PushAlone, I!Next
<1> QED BY <1>1, <1>2, <1>3, <1>4, <1>5, <1>6 DEF Next

(* The event whose row an ingest step inserts is its delivery's own.          *)
LEMMA InsertsItsOwn ==
  ASSUME I!TypeOK, NEW h \in IngestHandlers, IngestHandler(h)
  PROVE  \/ stored' = stored /\ UNCHANGED pushVars
         \/ \E e \in Users : stored' = stored \cup {e} /\ P!Ingest(e)
<1>1. \/ stored' = stored
      \/ inserter[h].event \in Users /\ stored' = stored \cup {inserter[h].event}
  BY SameIngest, IngestAssumptions, IP!StoresItsOwn DEF IngestHandler
<1> QED BY <1>1 DEF IngestHandler

(* Push delivery takes its own steps only, or rests.                          *)
LEMMA PushStep == I!TypeOK /\ [Next]_vars => [P!Next]_(P!vars)
<1> SUFFICES ASSUME I!TypeOK, [Next]_vars PROVE P!Next \/ UNCHANGED pushVars
  BY DEF pushVars, P!vars, P!db, P!broker, P!actors, P!audit
<1>1. CASE Fire \/ Bind \/ UNCHANGED vars
  BY <1>1 DEF Fire, Bind, vars
<1>2. ASSUME NEW e \in Users, UserStep(e) PROVE P!Next \/ UNCHANGED pushVars
  <2>1. CASE CreateUser(e) \/ Publish(e) \/ IngestDeliver(e) \/ IngestExpire(e)
    BY <2>1 DEF CreateUser, Publish, IngestDeliver, IngestExpire, OutboxAlone, IngestAlone
  <2>2. CASE PushDeliver(e)
    BY <2>2 DEF PushDeliver, PushAlone, P!Next
  <2>3. CASE PushAlone(P!BecomeDue(e) \/ P!Age(e) \/ P!ExpireRetry(e))
    BY <2>3 DEF PushAlone, P!Next, P!RowStep
  <2> QED BY <1>2, <2>1, <2>2, <2>3 DEF UserStep
<1>3. ASSUME NEW h \in IngestHandlers, IngestHandler(h) PROVE P!Next \/ UNCHANGED pushVars
  BY <1>3, InsertsItsOwn DEF P!Next, P!RowStep
<1>4. ASSUME NEW t \in Tickers, NotifierTick(t) PROVE P!Next
  BY <1>4 DEF NotifierTick, PushAlone, P!Next, P!TickStep
<1>5. ASSUME NEW t \in Tickers, NotifierTickFails(t) PROVE P!Next
  BY <1>5 DEF NotifierTickFails, P!Next, P!FaultStep
<1>6. ASSUME NEW h \in PushHandlers, PushAlone(P!HandlerStep(h)) PROVE P!Next
  BY <1>6 DEF PushAlone, P!Next
<1>7. CASE FaultStep
  BY <1>5, <1>7 DEF FaultStep, IngestAlone, PushAlone, P!Next, P!FaultStep
<1> QED BY <1>1, <1>2, <1>3, <1>4, <1>5, <1>6, <1>7 DEF Next

(* The outbox creates and sends, or rests.                                    *)
LEMMA OutboxStep == [Next]_vars => [O!Next]_(O!vars)
<1> SUFFICES ASSUME [Next]_vars PROVE O!Next \/ UNCHANGED outboxVars
  BY DEF outboxVars, O!vars
<1>1. CASE Fire \/ Bind \/ UNCHANGED vars
  BY <1>1 DEF Fire, Bind, vars
<1>2. ASSUME NEW e \in Users, UserStep(e) PROVE O!Next \/ UNCHANGED outboxVars
  BY <1>2 DEF UserStep, CreateUser, Publish, IngestDeliver, IngestExpire, PushDeliver,
              OutboxAlone, IngestAlone, PushAlone, O!Next
<1>3. CASE \/ \E h \in IngestHandlers : IngestHandler(h)
           \/ \E t \in Tickers : NotifierTick(t)
           \/ \E h \in PushHandlers : PushAlone(P!HandlerStep(h))
           \/ FaultStep
  BY <1>3 DEF IngestHandler, NotifierTick, FaultStep, NotifierTickFails, IngestAlone, PushAlone
<1> QED BY <1>1, <1>2, <1>3 DEF Next

-----------------------------------------------------------------------------
(* What the parts prove holds here *)

(* An ingest path here is one there; its theorems hold under its assumptions. *)
LEMMA IngestSpec == I!Spec => IP!Spec
<1>1. [I!Next]_(I!vars) => [IP!Next]_(IP!vars)
  BY SameIngest DEF I!vars, IP!vars, I!db, IP!db
<1>2. I!Init => IP!Init
  BY SameIngest
<1> QED BY <1>1, <1>2, PTL DEF I!Spec, IP!Spec

(* What is used of them below.                                                *)
LEMMA IngestTheorems ==
  I!Spec => [](I!TypeOK /\ I!NothingVanishes)
<1>1. IP!Spec => []IP!TypeOK
  BY IP!TypeCorrect, IngestAssumptions
<1>2. IP!Spec => []IP!NothingVanishes
  BY IP!EventsAreKept, IngestAssumptions
<1>3. IP!TypeOK /\ IP!NothingVanishes => I!TypeOK /\ I!NothingVanishes
  BY SameIngest
<1> QED BY IngestSpec, <1>1, <1>2, <1>3, PTL

(* The same for push delivery.                                                *)
LEMMA PushSpec == P!Spec => PP!Spec
<1>1. [P!Next]_(P!vars) => [PP!Next]_(PP!vars)
  BY SamePush DEF P!vars, PP!vars, P!db, PP!db, P!broker, PP!broker, P!actors,
     PP!actors, P!audit, PP!audit
<1>2. P!Init => PP!Init
  BY SamePush
<1> QED BY <1>1, <1>2, PTL DEF P!Spec, PP!Spec

(* What is used of them below.                                                *)
LEMMA PushTheorems ==
  P!Spec => [](P!TypeOK /\ PP!OnlyInserted)
<1>1. PP!Spec => []PP!TypeOK
  BY PP!TypeCorrect, PushAssumptions
<1>2. PP!Spec => []PP!OnlyInserted
  BY PP!OnlyInsertedInvariant, PushAssumptions
<1>3. PP!TypeOK => P!TypeOK
  BY SamePush
<1> QED BY PushSpec, <1>1, <1>2, <1>3, PTL

(* The composition runs the ingest path, push delivery and the outbox as      *)
(* they are: no step of it, with all parts failing and restarting, is one     *)
(* that a part's own module does not allow.                                   *)
THEOREM PartsAreIntact == Spec => I!Spec /\ P!Spec /\ O!SafeSpec
<1>1. Init => I!Init /\ P!Init /\ O!Init
  BY DEF Init
<1>2. Spec => I!Spec
  BY <1>1, IngestStep, PTL DEF Spec, I!Spec
<1>3. Spec => P!Spec
  BY <1>1, <1>2, IngestTheorems, PushStep, PTL DEF Spec, P!Spec
<1>4. Spec => O!SafeSpec
  BY <1>1, OutboxStep, PTL DEF Spec, O!SafeSpec
<1> QED BY <1>2, <1>3, <1>4

-----------------------------------------------------------------------------
(* Faults and ticks *)

(* A tick that comes back was paid for by a fault; others wait for the cap.   *)
TicksPaid == ticks \in 0..MaxBacklog + pushFaults /\ pushFaults <= MaxFaults

(* What a step may do to the ticks that wait.                                 *)
TicksMove ==
  \/ ticks' = ticks
  \/ ticks' = ticks - 1 /\ ticks > 0
  \/ ticks' = ticks + 1 /\ (ticks < MaxBacklog \/ pushFaults' = pushFaults + 1)

(* No step brings back a tick for nothing.                                    *)
LEMMA TicksStayPaid ==
  ASSUME I!TypeOK, I!TypeOK', P!TypeOK, P!TypeOK', TicksPaid, bound \in BOOLEAN, [Next]_vars
  PROVE  TicksPaid' /\ bound' \in BOOLEAN
<1>1. /\ pushFaults \in Nat /\ pushFaults' \in Nat
      /\ ingestFaults \in Nat /\ ingestFaults' \in Nat
  BY DEF P!TypeOK, I!TypeOK
<1>2. pushFaults <= pushFaults'
  <2>1. [P!Next]_(P!vars)
    BY PushStep
  <2>2. [PP!Next]_(PP!vars)
    BY <2>1, SamePush DEF P!vars, PP!vars, P!db, PP!db, P!broker, PP!broker, P!actors,
       PP!actors, P!audit, PP!audit
  <2> QED BY <2>2, PP!FaultsGrow, PushAssumptions, SamePush
<1>3. pushFaults' <= MaxFaults
  <2>1. CASE Next
    <3>1. ingestFaults' + pushFaults' <= MaxFaults
      BY <2>1 DEF Next
    <3>2. \A i, p \in Nat : i + p <= MaxFaults => p <= MaxFaults
      BY BoundAssumption
    <3> QED BY <1>1, <3>1, <3>2
  <2>2. CASE UNCHANGED vars
    BY <2>2 DEF vars, pushVars, TicksPaid
  <2> QED BY <2>1, <2>2
<1>4. TicksMove /\ bound' \in BOOLEAN
  <2> USE DEF TicksMove
  <2>1. CASE Fire \/ Bind \/ UNCHANGED vars
    BY <2>1 DEF Fire, Routed, Bind, vars
  <2>2. CASE \E e \in Users : UserStep(e)
    BY <2>2 DEF UserStep, CreateUser, Publish, IngestDeliver, IngestExpire, PushDeliver,
                OutboxAlone, IngestAlone, PushAlone
  <2>3. CASE \/ \E h \in IngestHandlers : IngestHandler(h)
             \/ \E h \in PushHandlers : PushAlone(P!HandlerStep(h))
    BY <2>3 DEF IngestHandler, PushAlone
  <2>4. ASSUME NEW t \in Tickers, NotifierTick(t)
        PROVE  (ticks' = ticks \/ (ticks' = ticks - 1 /\ ticks > 0)) /\ bound' = bound
    <3>1. \/ ticks > 0 /\ ticks' = ticks - 1 /\ bound' = bound
          \/ PushAlone(P!TickStep(t))
      BY <2>4 DEF NotifierTick
    <3>2. CASE PushAlone(P!TickStep(t))
      BY <3>2 DEF PushAlone
    <3> QED BY <3>1, <3>2
  <2>5. ASSUME NEW t \in Tickers, NotifierTickFails(t)
        PROVE  ticks' \in {ticks, ticks + 1} /\ pushFaults' = pushFaults + 1 /\ bound' = bound
    BY <2>5 DEF NotifierTickFails, P!TickDies, P!Fault
  <2>6. CASE FaultStep
    BY <2>5, <2>6 DEF FaultStep, IngestAlone, PushAlone
  <2> QED BY <2>1, <2>2, <2>3, <2>4, <2>6 DEF Next
<1>5. ticks' \in 0..MaxBacklog + pushFaults'
  BY ONLY <1>1, <1>2, <1>4, TicksPaid, BoundAssumption DEF TicksPaid, TicksMove
<1> QED BY <1>3, <1>4, <1>5 DEF TicksPaid

(* Every variable keeps its type in the composition; the ticks that wait are  *)
(* no more than the scheduler leaves and the faults bring back.               *)
THEOREM TypeCorrect == Spec => []TypeOK
<1>1. Spec => [](I!TypeOK /\ P!TypeOK)
  BY PartsAreIntact, IngestTheorems, PushTheorems, PTL
<1>2. Init => TicksPaid /\ bound \in BOOLEAN
  BY BoundAssumption DEF Init, TicksPaid, P!Init
<1>3. /\ I!TypeOK /\ P!TypeOK /\ (I!TypeOK /\ P!TypeOK)'
      /\ TicksPaid /\ bound \in BOOLEAN /\ [Next]_vars
      => (TicksPaid /\ bound \in BOOLEAN)'
  BY TicksStayPaid
<1>4. I!TypeOK /\ P!TypeOK /\ TicksPaid /\ bound \in BOOLEAN => TypeOK
  BY BoundAssumption DEF TypeOK, TicksPaid, P!TypeOK
<1> QED BY <1>1, <1>2, <1>3, <1>4, PTL DEF Spec

-----------------------------------------------------------------------------
(* The row and the event it is inserted for *)

(* The ingest path stores an event exactly when push delivery has its row,    *)
(* rejects nothing for want of a retry queue, and counts publishes of users   *)
(* only.                                                                      *)
Ties ==
  /\ topology /\ dropped = {} /\ sent \subseteq Users
  /\ \A e \in Users : e \in stored <=> row[e].status # "ABSENT"

(* The steps of push delivery that insert no row.                             *)
Delivers ==
  \/ \E t \in Tickers : PP!TickStep(t)
  \/ \E h \in PushHandlers : PP!HandlerStep(h)
  \/ \E h \in PushHandlers, m \in Users : PP!Deliver(h, m)
  \/ \E m \in Users : \/ PP!BecomeDue(m) \/ PP!Age(m) \/ PP!ExpireRetry(m)
                       \/ PP!ManualRetry(m) \/ PP!AppendManualRetry(m)
  \/ PP!FaultStep \/ PP!Replay \/ UNCHANGED PP!vars

(* Only the insertion of a row stores an event, and it inserts that row.      *)
LEMMA StoreStep ==
  ASSUME I!TypeOK, [Next]_vars
  PROVE  \/ stored' = stored /\ Delivers
         \/ \E e \in Users : stored' = stored \cup {e} /\ PP!Ingest(e)
<1>1. UNCHANGED pushVars => Delivers
  BY DEF Delivers, pushVars, PP!vars, PP!db, PP!broker, PP!actors, PP!audit
<1>2. UNCHANGED ingestVars => stored' = stored
  BY DEF ingestVars
<1>3. CASE Fire \/ Bind \/ UNCHANGED vars
  BY <1>1, <1>2, <1>3 DEF Fire, Bind, vars
<1>4. ASSUME NEW e \in Users, UserStep(e) PROVE stored' = stored /\ Delivers
  <2>1. CASE CreateUser(e)
    BY <1>1, <1>2, <2>1 DEF CreateUser, OutboxAlone
  <2>2. CASE Publish(e)
    BY <1>1, <1>2, <2>2 DEF Publish, I!Publish, I!db
  <2>3. CASE IngestDeliver(e) \/ IngestExpire(e)
    BY <1>1, <2>3 DEF IngestDeliver, IngestExpire, IngestAlone, I!Deliver, I!ExpireRetry, I!db
  <2>4. CASE PushDeliver(e)
    BY <1>2, <2>4, SamePush DEF PushDeliver, PushAlone, Delivers
  <2>5. CASE PushAlone(P!BecomeDue(e) \/ P!Age(e) \/ P!ExpireRetry(e))
    BY <1>2, <2>5, SamePush DEF PushAlone, Delivers
  <2> QED BY <1>4, <2>1, <2>2, <2>3, <2>4, <2>5 DEF UserStep
<1>5. ASSUME NEW h \in IngestHandlers, IngestHandler(h)
      PROVE  \/ stored' = stored /\ Delivers
             \/ \E e \in Users : stored' = stored \cup {e} /\ PP!Ingest(e)
  BY <1>1, <1>5, InsertsItsOwn, SamePush
<1>6. ASSUME NEW t \in Tickers, NotifierTick(t) PROVE stored' = stored /\ Delivers
  <2>1. P!TickStep(t) /\ UNCHANGED ingestVars
    BY <1>6 DEF NotifierTick, PushAlone, P!TickStep
  <2> QED BY <1>2, <2>1, SamePush DEF Delivers
<1>7. ASSUME NEW t \in Tickers, NotifierTickFails(t) PROVE stored' = stored /\ Delivers
  BY <1>2, <1>7, SamePush DEF NotifierTickFails, Delivers, PP!FaultStep
<1>8. ASSUME NEW h \in PushHandlers, PushAlone(P!HandlerStep(h))
      PROVE  stored' = stored /\ Delivers
  BY <1>2, <1>8, SamePush DEF PushAlone, Delivers
<1>9. CASE FaultStep
  <2>1. CASE IngestAlone(\E h \in IngestHandlers : I!HandlerCrash(h) \/ I!LoseChannel(h))
    BY <1>1, <2>1 DEF IngestAlone, I!HandlerCrash, I!LoseChannel, I!db
  <2>2. CASE \/ PushAlone(\E h \in PushHandlers : \/ P!HandlerCrash(h) \/ P!LoseChannel(h)
                                                  \/ P!HandlerThrow(h))
             \/ PushAlone(\E e \in Users : P!LookupThrow(e))
             \/ PushAlone(P!ConfirmLost)
    BY <1>2, <2>2, SamePush DEF PushAlone, Delivers, PP!FaultStep
  <2> QED BY <1>7, <1>9, <2>1, <2>2 DEF FaultStep
<1> QED BY <1>3, <1>4, <1>5, <1>6, <1>7, <1>8, <1>9 DEF Next

(* The two tables stay in step.                                               *)
LEMMA TiesHold ==
  ASSUME I!TypeOK, P!TypeOK, PP!OnlyInserted, Ties, [Next]_vars
  PROVE  Ties'
<1>1. topology' /\ dropped' = {}
  <2>1. [IP!Next]_(IP!vars)
    BY IngestStep, SameIngest DEF I!vars, IP!vars, I!db, IP!db
  <2> QED BY <2>1, IP!NoneDropped, IngestAssumptions DEF Ties
<1>2. sent' \subseteq Users
  <2>1. O!Next \/ UNCHANGED outboxVars
    BY OutboxStep DEF O!vars, outboxVars
  <2> QED BY <2>1 DEF Ties, outboxVars, O!Next, O!Create, O!Send, O!Settle
<1>3. ASSUME NEW e \in Users PROVE (e \in stored <=> row[e].status # "ABSENT")'
  <2> USE DEF Ties
  <2>1. CASE row[e].status # "ABSENT"
    <3>1. row'[e].status # "ABSENT"
      <4>1. [PP!Next]_(PP!vars)
        BY PushStep, SamePush DEF P!vars, PP!vars, P!db, PP!db, P!broker, PP!broker,
           P!actors, PP!actors, P!audit, PP!audit
      <4> QED BY <2>1, <4>1, SamePush, PushAssumptions, PP!RowsRemain
    <3> QED BY <2>1, <3>1, StoreStep
  <2>2. CASE row[e].status = "ABSENT" /\ stored' = stored /\ Delivers
    <3>1. PP!Quiet(e)
      BY <2>2 DEF PP!OnlyInserted
    <3>2. row'[e] = row[e]
      BY <2>2, <3>1, SamePush, PushAssumptions, PP!AbsentStays DEF Delivers
    <3> QED BY <2>2, <3>2
  <2>3. ASSUME NEW n \in Users, row[e].status = "ABSENT",
               stored' = stored \cup {n}, PP!Ingest(n)
        PROVE  (e \in stored <=> row[e].status # "ABSENT")'
    <3>1. row' = [m \in Users |-> IF m \in {n} THEN PP!Inserted(row[m]) ELSE row[m]]
      BY <2>3 DEF PP!Ingest, PP!Commit, PP!Update
    <3>2. row[n] \in P!Row
      BY DEF P!TypeOK
    <3> QED BY <2>3, <3>1, <3>2 DEF PP!Inserted, P!Row, P!Status
  <2> QED BY <2>1, <2>2, <2>3, StoreStep
<1> QED BY <1>1, <1>2, <1>3 DEF Ties

(* The parts' invariants that the ties rest on.                               *)
PartsInv ==
  /\ I!TypeOK /\ I!NothingVanishes
  /\ P!TypeOK /\ PP!OnlyInserted

(* They hold because the parts are intact.                                    *)
LEMMA PartsInvHolds == Spec => []PartsInv
  BY PartsAreIntact, IngestTheorems, PushTheorems, PTL DEF PartsInv

(* The tables are in step in every reachable state.                           *)
LEMMA TiesInvariant == Spec => []Ties
<1>1. Init => Ties
  BY DEF Init, Ties, I!Init, P!Init, P!NoRow, O!Init
<1>2. PartsInv /\ Ties /\ [Next]_vars => Ties'
  BY TiesHold DEF PartsInv
<1> QED BY <1>1, <1>2, PartsInvHolds, PTL DEF Spec

(* A confirmed event is a notification, a message of the ingest path, or was  *)
(* published before the queue was bound: no crash, lost channel, full budget  *)
(* or redelivery between the outbox's confirm and the row loses it.           *)
THEOREM SentEventsAreKept == Spec => []SentIsKept
<1>1. PartsInv /\ Ties => SentIsKept
  <2> SUFFICES ASSUME PartsInv, Ties, NEW e \in sent, ~LostOnFirstBoot(e),
                      row[e].status = "ABSENT"
               PROVE  InIngestPath(e)
    BY DEF SentIsKept
  <2>1. e \in Users /\ e \notin stored /\ e \notin dropped
    BY DEF Ties
  <2>2. count[e]["sent"] \in Nat /\ count[e]["sent"] # 0
    BY <2>1 DEF LostOnFirstBoot, PartsInv, I!TypeOK, I!Counted
  <2>3. \/ dlq[e] > 0
        \/ \E d \in I!Deaths : ingest[e][d] > 0 \/ ingestRetry[e][d] > 0
        \/ \E h \in IngestHandlers : /\ inserter[h] # I!Idle /\ inserter[h].event = e
                                     /\ inserter[h].pc # "ack" /\ inserter[h].channel = "open"
    BY <2>1, <2>2 DEF PartsInv, I!NothingVanishes
  <2>4. ASSUME NEW h \in IngestHandlers, inserter[h] # I!Idle PROVE inserter[h].pc # "idle"
    BY <2>4 DEF PartsInv, I!TypeOK, I!Busy
  <2> QED BY <2>3, <2>4 DEF InIngestPath, I!Deaths
<1> QED BY <1>1, PartsInvHolds, TiesInvariant, PTL

-----------------------------------------------------------------------------
(* The promises of the parts *)

(* What the ingest path promises means the same here and there.               *)
LEMMA SameIngestPromises ==
  /\ I!ShelvedPaid <=> IP!ShelvedPaid
  /\ I!FailuresBounded <=> IP!FailuresBounded
<1> USE DEF I!Total, IP!Total, I!Column, IP!Column, I!Cardinality, IP!Cardinality,
        I!Weighed, IP!Weighed, I!Ring, IP!Ring, I!Deaths, IP!Deaths, I!Acting, IP!Acting,
        I!Idle, IP!Idle
<1>1. I!ShelvedPaid <=> IP!ShelvedPaid
  BY DEF I!ShelvedPaid, IP!ShelvedPaid, I!Dead, IP!Dead, I!Carried, IP!Carried
<1>2. I!FailuresBounded <=> IP!FailuresBounded
  BY DEF I!FailuresBounded, IP!FailuresBounded, I!Left, IP!Left, I!Unspent, IP!Unspent
<1> QED BY <1>1, <1>2

(* And what push delivery promises.                                           *)
LEMMA SamePushPromises ==
  /\ P!LiveHasBudget <=> PP!LiveHasBudget
  /\ P!FailedIsSpent <=> PP!FailedIsSpent
  /\ P!ProcessingIsRecoverable <=> PP!ProcessingIsRecoverable
  /\ P!SentWasAccepted <=> PP!SentWasAccepted
  /\ P!ClaimedOncePerStay <=> PP!ClaimedOncePerStay
  /\ P!ChainsBounded <=> PP!ChainsBounded
  /\ P!DispatchInFlight <=> PP!DispatchInFlight
<1> USE DEF P!Live, PP!Live, P!Chains, PP!Chains, P!Cardinality, PP!Cardinality
<1>1. /\ P!LiveHasBudget <=> PP!LiveHasBudget
      /\ P!FailedIsSpent <=> PP!FailedIsSpent
  BY DEF P!LiveHasBudget, PP!LiveHasBudget, P!FailedIsSpent, PP!FailedIsSpent
<1>2. /\ P!ProcessingIsRecoverable <=> PP!ProcessingIsRecoverable
      /\ P!SentWasAccepted <=> PP!SentWasAccepted
  BY DEF P!ProcessingIsRecoverable, PP!ProcessingIsRecoverable, P!SentWasAccepted,
         PP!SentWasAccepted
<1>3. P!ClaimedOncePerStay <=> PP!ClaimedOncePerStay
  BY DEF P!ClaimedOncePerStay, PP!ClaimedOncePerStay
<1>4. P!ChainsBounded <=> PP!ChainsBounded
  BY DEF P!ChainsBounded, PP!ChainsBounded
<1>5. P!DispatchInFlight <=> PP!DispatchInFlight
  BY DEF P!DispatchInFlight, PP!DispatchInFlight
<1> QED BY <1>1, <1>2, <1>3, <1>4, <1>5

(* No crash of one service spends another's budget: messages are shelved only *)
(* for failures, failures stay within the budget of the publications.         *)
THEOREM IngestKeepsItsBudget == Spec => [](I!ShelvedPaid /\ I!FailuresBounded)
<1>1. IP!Spec => []IP!ShelvedPaid
  BY IP!ShelvingIsPaid, IngestAssumptions
<1>2. IP!Spec => []IP!FailuresBounded
  BY IP!FailuresAreBounded, IngestAssumptions
<1>3. IP!ShelvedPaid /\ IP!FailuresBounded => I!ShelvedPaid /\ I!FailuresBounded
  BY SameIngestPromises
<1> QED BY PartsAreIntact, IngestSpec, <1>1, <1>2, <1>3, PTL

(* What push delivery promises a row.                                         *)
DeliveryPromises ==
  /\ P!LiveHasBudget /\ P!FailedIsSpent /\ P!ProcessingIsRecoverable
  /\ P!SentWasAccepted /\ P!ClaimedOncePerStay
  /\ P!ChainsBounded /\ P!DispatchInFlight

(* Once a user's row is there, it is SENT only if the webhook accepted it,    *)
(* given up only for a spent budget, found when stuck, claimed once a stay,   *)
(* and its deliveries do not multiply, whatever the other services do.        *)
THEOREM DeliveryKeepsItsPromises == Spec => []DeliveryPromises
<1>1. PP!Spec => [](PP!LiveHasBudget /\ PP!FailedIsSpent /\ PP!ProcessingIsRecoverable)
  <2>1. PP!Spec => []PP!LiveHasBudget
    BY PP!BudgetsHold, PushAssumptions
  <2>2. PP!Spec => []PP!FailedIsSpent
    BY PP!FailuresAreSpent, PushAssumptions
  <2>3. PP!Spec => []PP!ProcessingIsRecoverable
    BY PP!StuckRowsAreFound, PushAssumptions
  <2> QED BY <2>1, <2>2, <2>3, PTL
<1>2. PP!Spec => [](PP!SentWasAccepted /\ PP!ClaimedOncePerStay)
  <2>1. PP!Spec => []PP!SentWasAccepted
    BY PP!SentIsNoGuess, PushAssumptions
  <2>2. PP!Spec => []PP!ClaimedOncePerStay
    BY PP!ClaimsAreExclusive, PushAssumptions
  <2> QED BY <2>1, <2>2, PTL
<1>3. PP!Spec => [](PP!ChainsBounded /\ PP!DispatchInFlight)
  <2>1. PP!Spec => []PP!ChainsBounded
    BY PP!ChainsAreBounded, PushAssumptions
  <2>2. PP!Spec => []PP!DispatchInFlight
    BY PP!DispatchIsInFlight, PushAssumptions
  <2> QED BY <2>1, <2>2, PTL
<1>4. /\ PP!LiveHasBudget /\ PP!FailedIsSpent /\ PP!ProcessingIsRecoverable
      /\ PP!SentWasAccepted /\ PP!ClaimedOncePerStay
      /\ PP!ChainsBounded /\ PP!DispatchInFlight
      => DeliveryPromises
  BY SamePushPromises DEF DeliveryPromises
<1> QED BY PartsAreIntact, PushSpec, <1>1, <1>2, <1>3, <1>4, PTL
=============================================================================
