------------------------- MODULE PushDeliveryProofs -------------------------
(***************************************************************************)
(* What holds of PushDelivery for every number of rows, handlers and       *)
(* tickers, every retry policy and every bound.                            *)
(***************************************************************************)
EXTENDS PushDelivery, FiniteSetTheorems, SequenceTheorems, TLAPS

USE RetryAssumption, BoundAssumption
USE DEF db, broker, actors, audit, AppendHistory

(* A queue with one copy more is a queue.                                    *)
LEMMA EnqueueType ==
  ASSUME NEW q \in [Rows -> Nat], NEW n \in Rows
  PROVE  Enqueue(q, n) \in [Rows -> Nat]
  BY DEF Enqueue

(* Logging events keeps a table of event counters one.                       *)
LEMMA LogType ==
  ASSUME NEW f \in [Rows -> [Events -> Nat]], NEW S, NEW e \in Events
  PROVE  Log(f, S, e) \in [Rows -> [Events -> Nat]]
<1>1. \A n \in Rows : [f[n] EXCEPT ![e] = @ + 1] \in [Events -> Nat]
  OBVIOUS
<1> QED BY <1>1 DEF Log

(* Logging event e raises that counter of the rows of S and no other.        *)
LEMMA LogValue ==
  ASSUME NEW f \in [Rows -> [Events -> Nat]], NEW S, NEW e \in Events,
         NEW n \in Rows, NEW x \in Events
  PROVE  Log(f, S, e)[n][x] = IF n \in S /\ x = e THEN f[n][x] + 1 ELSE f[n][x]
  BY DEF Log

(* Every UPDATE of the code turns a row into a row.                          *)
LEMMA RowOps ==
  ASSUME NEW r \in Row
  PROVE  /\ Inserted(r) \in Row
         /\ Claimed(r) \in Row
         /\ Sent(r) \in Row
         /\ Failed(r) \in Row
         /\ Attempted(r) \in Row
         /\ Redriven(r) \in Row
         /\ Retried(r) \in Row
         /\ AfterFailure(r) \in Row
<1> USE DEF Row, Status, Clock
<1>1. \A q \in Row : Failed(q) \in Row
  BY DEF Failed
<1>2. Attempted(r) \in Row
  BY DEF Attempted
<1>3. AfterFailure(r) \in Row
  BY <1>1, <1>2 DEF AfterFailure
<1>4. Inserted(r) \in Row /\ Claimed(r) \in Row /\ Sent(r) \in Row
  BY DEF Inserted, Claimed, Sent
<1>5. Redriven(r) \in Row
  <2> DEFINE k == r.redriveCount + 1
  <2>1. k \in Nat
    OBVIOUS
  <2> HIDE DEF k
  <2>2. [r EXCEPT !.status = "PENDING", !.redriveCount = k,
                  !.processingStartedAt = "null"] \in Row
    BY <2>1
  <2> QED BY <2>2 DEF Redriven, k
<1>6. Retried(r) \in Row
  BY DEF Retried
<1> QED BY <1>1, <1>2, <1>3, <1>4, <1>5, <1>6

(* ... and sets its status.                                                  *)
LEMMA StatusAfter ==
  ASSUME NEW r \in Row
  PROVE  /\ Inserted(r).status = "PENDING"
         /\ Claimed(r).status = "PROCESSING"
         /\ Sent(r).status = "SENT"
         /\ Failed(r).status = "FAILED"
         /\ Redriven(r).status = "PENDING"
         /\ Retried(r).status = "PENDING"
         /\ AfterFailure(r).status \in {r.status, "FAILED"}
  BY DEF Row, Inserted, Claimed, Sent, Failed, Redriven, Retried, AfterFailure,
         Attempted

(* Only a redrive changes redriveCount.                                      *)
LEMMA RedrivesAfter ==
  ASSUME NEW r \in Row
  PROVE  /\ Inserted(r).redriveCount = r.redriveCount
         /\ Claimed(r).redriveCount = r.redriveCount
         /\ Sent(r).redriveCount = r.redriveCount
         /\ Failed(r).redriveCount = r.redriveCount
         /\ Redriven(r).redriveCount = r.redriveCount + 1
         /\ Retried(r).redriveCount = r.redriveCount
         /\ AfterFailure(r).redriveCount = r.redriveCount
  BY DEF Row, Inserted, Claimed, Sent, Failed, Redriven, Retried, AfterFailure,
         Attempted

(* A commit of a well-typed table leaves the primary, the log of commits and *)
(* the replica well typed.                                                   *)
LEMMA CommitType ==
  ASSUME TypeOK, NEW table \in [Rows -> Row], Commit(table)
  PROVE  /\ row' \in [Rows -> Row]
         /\ wal' \in Seq([Rows -> Status])
         /\ replica' \in [Rows -> Status]
<1> DEFINE S == [Rows -> Status]
<1> DEFINE log == Append(wal, Statuses(table))
<1> SUFFICES wal' \in Seq(S) /\ replica' \in S
  BY DEF Commit
<1>1. Statuses(table) \in S
  BY DEF Statuses, Row
<1>2. wal \in Seq(S) /\ replica \in S
  BY DEF TypeOK
<1> HIDE DEF S
<1>3. log \in Seq(S) /\ log # <<>>
  BY <1>1, <1>2, AppendProperties
<1>4. Head(log) \in S /\ Tail(log) \in Seq(S)
  BY <1>3, HeadTailProperties
<1> QED BY <1>2, <1>3, <1>4 DEF Commit

-----------------------------------------------------------------------------
(* Type correctness *)

(* The steps of the cron tick keep every variable well typed.                *)
LEMMA TickType ==
  ASSUME TypeOK, NEW t \in Tickers, TickStep(t)
  PROVE  TypeOK'
<1> USE DEF TypeOK
<1>1. CASE FailCapped(t)
  <2> DEFINE capped == Capped
  <2> DEFINE table == Update(capped, Failed)
  <2>1. capped \in SUBSET Rows
    BY DEF Capped, Stuck, InStatus
  <2>2. table \in [Rows -> Row] /\ Commit(table)
    BY <1>1, RowOps DEF FailCapped, Update
  <2>3. tick' \in [Tickers -> Tick]
    BY <1>1, <2>1 DEF FailCapped, Tick, IdleTick
  <2>4. done' \in [Rows -> [Events -> Nat]]
    BY <1>1, LogType DEF FailCapped, Events
  <2> HIDE DEF table, capped
  <2> QED BY <1>1, <2>2, <2>3, <2>4, CommitType DEF FailCapped
<1>2. CASE RecoverStuck(t)
  <2> DEFINE eligible == Eligible
  <2> DEFINE table == Update(eligible, Redriven)
  <2>1. eligible \in SUBSET Rows
    BY DEF Eligible, Stuck, InStatus
  <2>2. table \in [Rows -> Row] /\ Commit(table)
    BY <1>2, RowOps DEF RecoverStuck, Update
  <2>3. tick' \in [Tickers -> Tick]
    <3>1. [tick[t] EXCEPT !.recovered = eligible, !.pc = IF tick[t].failed \cup eligible = {}
                                    THEN "claim" ELSE "redriven"] \in Tick
      <4>1. tick[t] \in Tick
        OBVIOUS
      <4>2. \A p \in {"claim", "redriven"} :
              [tick[t] EXCEPT !.recovered = eligible, !.pc = p] \in Tick
        BY ONLY <2>1, <4>1 DEF Tick
      <4> QED BY <4>2
    <3> QED BY <1>2, <3>1 DEF RecoverStuck
  <2>4. done' \in [Rows -> [Events -> Nat]]
    BY <1>2, LogType DEF RecoverStuck, Events
  <2> HIDE DEF table, eligible
  <2> QED BY <1>2, <2>2, <2>3, <2>4, CommitType DEF RecoverStuck
<1>3. CASE AppendRedriven(t)
  <2>1. history' \in [Rows -> [Events -> Nat]]
    BY <1>3, LogType DEF AppendRedriven, Events
  <2>2. tick' \in [Tickers -> Tick]
    BY <1>3 DEF AppendRedriven, Tick, IdleTick
  <2> QED BY <1>3, <2>1, <2>2 DEF AppendRedriven
<1>4. ASSUME NEW locked \in SUBSET Lockable, Claim(t, locked)
      PROVE  TypeOK'
  <2> DEFINE batch == Oldest((Claimable \cap due) \ locked, BatchSize)
  <2> DEFINE table == Update(batch, Claimed)
  <2>1. batch \in SUBSET Rows
    BY DEF Oldest, Claimable, InStatus
  <2>2. table \in [Rows -> Row] /\ Commit(table)
    BY <1>4, RowOps DEF Claim, Update
  <2>3. tick' \in [Tickers -> Tick]
    BY <1>4, <2>1 DEF Claim, Tick, IdleTick
  <2>4. done' \in [Rows -> [Events -> Nat]]
    BY <1>4, LogType DEF Claim, Events
  <2> HIDE DEF table, batch
  <2> QED BY <1>4, <2>2, <2>3, <2>4, CommitType DEF Claim
<1>5. CASE AppendClaimed(t)
  <2>1. history' \in [Rows -> [Events -> Nat]]
    BY <1>5, LogType DEF AppendClaimed, Events
  <2>2. tick' \in [Tickers -> Tick]
    <3>1. [tick[t] EXCEPT !.pc = "publish"] \in Tick
      <4>1. tick[t] \in Tick
        OBVIOUS
      <4> HIDE DEF TypeOK
      <4> QED BY <4>1 DEF Tick
    <3> QED BY <1>5, <3>1 DEF AppendClaimed
  <2> QED BY <1>5, <2>1, <2>2 DEF AppendClaimed
<1>6. ASSUME NEW n \in Rows, PublishPush(t, n)
      PROVE  TypeOK'
  <2>1. work' \in [Rows -> Nat]
    BY <1>6, EnqueueType DEF PublishPush
  <2>2. tick' \in [Tickers -> Tick]
    <3>1. IdleTick \in Tick /\ [tick[t] EXCEPT !.claimed = @ \ {n}] \in Tick
      BY DEF Tick, IdleTick
    <3> QED BY <1>6, <3>1 DEF PublishPush
  <2> QED BY <1>6, <2>1, <2>2 DEF PublishPush
<1> QED BY <1>1, <1>2, <1>3, <1>4, <1>5, <1>6 DEF TickStep

(* A handler that is not idle has a message.                                 *)
LEMMA BusyHandler ==
  ASSUME TypeOK, NEW h \in Handlers, handler[h].pc # "idle"
  PROVE  handler[h] \in Busy
  BY DEF TypeOK, IdleHandler

(* The push-send handlers keep every variable well typed.                    *)
LEMMA HandlerType ==
  ASSUME TypeOK, NEW h \in Handlers, HandlerStep(h)
  PROVE  TypeOK'
<1> USE DEF TypeOK
<1>0. handler[h] \in Busy
  BY BusyHandler DEF HandlerStep, Send, RecordSent, RecordFailure, PublishRetry,
                     Ack
<1>1. ASSUME NEW ok \in BOOLEAN, NEW taken \in BOOLEAN, Send(h, ok, taken)
      PROVE  TypeOK'
  <2>1. handler' \in [Handlers -> Busy \cup {IdleHandler}]
    BY <1>0, <1>1 DEF Send, Busy
  <2>2. accepted' \in SUBSET Rows
    BY <1>0, <1>1 DEF Send, Busy
  <2> QED BY <1>1, <2>1, <2>2 DEF Send
<1>2. CASE RecordSent(h)
  <2> DEFINE table == Update({handler[h].msg}, Sent)
  <2>1. table \in [Rows -> Row] /\ Commit(table)
    BY <1>0, <1>2, RowOps DEF RecordSent, Update, Busy
  <2>2. handler' \in [Handlers -> Busy \cup {IdleHandler}]
    BY <1>0, <1>2 DEF RecordSent, Busy
  <2>3. /\ history' \in [Rows -> [Events -> Nat]]
        /\ done' \in [Rows -> [Events -> Nat]]
    BY <1>2, LogType DEF RecordSent, Events
  <2> HIDE DEF table
  <2> QED BY <1>2, <2>1, <2>2, <2>3, CommitType DEF RecordSent
<1>3. CASE RecordFailure(h)
  <2> DEFINE table == Update({handler[h].msg}, AfterFailure)
  <2>2. table \in [Rows -> Row] /\ Commit(table)
    BY <1>0, <1>3, RowOps DEF RecordFailure, Update, Busy
  <2>3. handler' \in [Handlers -> Busy \cup {IdleHandler}]
    BY <1>0, <1>3 DEF RecordFailure, Busy
  <2>4. /\ history' \in [Rows -> [Events -> Nat]]
        /\ done' \in [Rows -> [Events -> Nat]]
    BY <1>3, LogType DEF RecordFailure, Events
  <2> HIDE DEF table
  <2> QED BY <1>3, <2>2, <2>3, <2>4, CommitType DEF RecordFailure
<1>4. CASE PublishRetry(h)
  <2>1. handler' \in [Handlers -> Busy \cup {IdleHandler}]
    BY <1>0, <1>4 DEF PublishRetry, Busy
  <2>2. retry' \in [Rows -> Nat]
    BY <1>0, <1>4, EnqueueType DEF PublishRetry, Busy
  <2> QED BY <1>4, <2>1, <2>2 DEF PublishRetry
<1>5. CASE Ack(h)
  BY <1>5 DEF Ack
<1> QED BY <1>1, <1>2, <1>3, <1>4, <1>5 DEF HandlerStep

(* So do a delivery, ...                                                     *)
LEMMA DeliverType ==
  ASSUME TypeOK, NEW h \in Handlers, NEW n \in Rows, Deliver(h, n)
  PROVE  TypeOK'
<1>1. work' \in [Rows -> Nat]
  BY DEF TypeOK, Deliver
<1>2. handler' \in [Handlers -> Busy \cup {IdleHandler}]
  BY DEF TypeOK, Deliver, Busy
<1> QED BY <1>1, <1>2 DEF TypeOK, Deliver

(* ... of the clock, the ingest consumer, the retry queue and the admin ...  *)
LEMMA RowType ==
  ASSUME TypeOK, NEW n \in Rows, RowStep(n)
  PROVE  TypeOK'
<1> USE DEF TypeOK
<1>1. CASE Ingest(n)
  <2> DEFINE table == Update({n}, Inserted)
  <2>1. table \in [Rows -> Row] /\ Commit(table)
    BY <1>1, RowOps DEF Ingest, Update
  <2>2. /\ history' \in [Rows -> [Events -> Nat]]
        /\ done' \in [Rows -> [Events -> Nat]]
    BY <1>1, LogType DEF Ingest, Events
  <2> HIDE DEF table
  <2> QED BY <1>1, <2>1, <2>2, CommitType DEF Ingest
<1>2. CASE BecomeDue(n)
  BY <1>2 DEF BecomeDue
<1>3. CASE Age(n)
  <2>1. row' \in [Rows -> Row]
    BY <1>3 DEF Age, Row, Clock
  <2> QED BY <1>3, <2>1 DEF Age
<1>4. CASE ExpireRetry(n)
  <2>1. retry' \in [Rows -> Nat]
    BY <1>4 DEF ExpireRetry
  <2> QED BY <1>4, <2>1, EnqueueType DEF ExpireRetry
<1>5. CASE ManualRetry(n)
  <2> DEFINE table == Update({n}, Retried)
  <2>1. table \in [Rows -> Row] /\ Commit(table)
    BY <1>5, RowOps DEF ManualRetry, Update
  <2>2. done' \in [Rows -> [Events -> Nat]]
    BY <1>5, LogType DEF ManualRetry, Events
  <2>3. admin' \in [Rows -> Nat]
    BY <1>5 DEF ManualRetry
  <2> HIDE DEF table
  <2> QED BY <1>5, <2>1, <2>2, <2>3, CommitType DEF ManualRetry
<1>6. CASE AppendManualRetry(n)
  <2>1. history' \in [Rows -> [Events -> Nat]]
    BY <1>6, LogType DEF AppendManualRetry, Events
  <2>2. admin' \in [Rows -> Nat]
    BY <1>6 DEF AppendManualRetry
  <2> QED BY <1>6, <2>1, <2>2 DEF AppendManualRetry
<1> QED BY <1>1, <1>2, <1>3, <1>4, <1>5, <1>6 DEF RowStep

(* ... the replica's replay ...                                              *)
LEMMA ReplayType ==
  ASSUME TypeOK, Replay
  PROVE  TypeOK'
<1> DEFINE S == [Rows -> Status]
<1>1. wal \in Seq(S) /\ wal # <<>>
  BY DEF TypeOK, Replay
<1> SUFFICES wal' \in Seq(S) /\ replica' \in S
  BY DEF TypeOK, Replay
<1> HIDE DEF S
<1> QED BY <1>1, HeadTailProperties DEF Replay

(* A message whose confirm is lost is queued once more, and nothing but the   *)
(* count of the faults changes with it; a tick or a handler has it in hand.   *)
LEMMA LostConfirm ==
  ASSUME TypeOK, ConfirmLost
  PROVE  /\ UNCHANGED <<db, due, actors, audit, accepted>> /\ faults' = faults + 1
         /\ \E m \in Rows :
              /\ \/ work' = Enqueue(work, m) /\ retry' = retry
                 \/ retry' = Enqueue(retry, m) /\ work' = work
              /\ \/ \E t \in Tickers : m \in tick[t].claimed
                 \/ \E h \in Handlers : handler[h] # IdleHandler /\ handler[h].msg = m
<1>1. ASSUME NEW t \in Tickers, NEW m \in Rows, PushConfirmLost(t, m)
      PROVE  /\ UNCHANGED <<db, due, actors, audit, accepted>> /\ faults' = faults + 1
             /\ work' = Enqueue(work, m) /\ retry' = retry /\ m \in tick[t].claimed
  BY <1>1 DEF PushConfirmLost, Fault
<1>2. ASSUME NEW h \in Handlers, RetryConfirmLost(h)
      PROVE  /\ UNCHANGED <<db, due, actors, audit, accepted>> /\ faults' = faults + 1
             /\ retry' = Enqueue(retry, handler[h].msg) /\ work' = work
             /\ handler[h] # IdleHandler /\ handler[h].msg \in Rows
  <2>1. handler[h] \in Busy /\ handler[h] # IdleHandler
    BY <1>2, BusyHandler DEF RetryConfirmLost, IdleHandler
  <2>2. handler[h].msg \in Rows
    BY <2>1 DEF Busy
  <2> QED BY <1>2, <2>1, <2>2 DEF RetryConfirmLost, Fault
<1> QED BY <1>1, <1>2 DEF ConfirmLost

(* ... and the faults: what is lost or requeued leaves all in its type.      *)
LEMMA FaultType ==
  ASSUME TypeOK, FaultStep
  PROVE  TypeOK'
<1> USE DEF TypeOK, Fault
<1>1. ASSUME NEW t \in Tickers, TickDies(t)
      PROVE  TypeOK'
  BY <1>1 DEF TickDies, Tick, IdleTick
<1>2. ASSUME NEW n \in Rows, AdminDies(n)
      PROVE  TypeOK'
  BY <1>2 DEF AdminDies
<1>3. ASSUME NEW n \in Rows, LookupThrow(n)
      PROVE  TypeOK'
  BY <1>3 DEF LookupThrow
<1>4. ASSUME NEW h \in Handlers, HandlerCrash(h)
      PROVE  TypeOK'
  <2>1. work' \in [Rows -> Nat]
    BY <1>4, EnqueueType DEF HandlerCrash, Requeued, Busy
  <2>2. handler' \in [Handlers -> Busy \cup {IdleHandler}]
    BY <1>4 DEF HandlerCrash
  <2> QED BY <1>4, <2>1, <2>2 DEF HandlerCrash
<1>5. ASSUME NEW h \in Handlers, LoseChannel(h)
      PROVE  TypeOK'
  <2>1. handler' \in [Handlers -> Busy \cup {IdleHandler}]
    BY <1>5 DEF LoseChannel, Busy
  <2>2. work' \in [Rows -> Nat]
    BY <1>5, EnqueueType DEF LoseChannel, Requeued, Busy
  <2> QED BY <1>5, <2>1, <2>2 DEF LoseChannel
<1>6. ASSUME NEW h \in Handlers, HandlerThrow(h)
      PROVE  TypeOK'
  BY <1>6 DEF HandlerThrow
<1>7. CASE ConfirmLost
  <2>1. work' \in [Rows -> Nat] /\ retry' \in [Rows -> Nat]
    <3>1. work \in [Rows -> Nat] /\ retry \in [Rows -> Nat]
      OBVIOUS
    <3>2. PICK m \in Rows : \/ work' = Enqueue(work, m) /\ retry' = retry
                            \/ retry' = Enqueue(retry, m) /\ work' = work
      BY <1>7, LostConfirm
    <3>3. Enqueue(work, m) \in [Rows -> Nat]
      BY <3>1, EnqueueType
    <3>4. Enqueue(retry, m) \in [Rows -> Nat]
      BY <3>1, EnqueueType
    <3> QED BY ONLY <3>1, <3>2, <3>3, <3>4
  <2>2. /\ UNCHANGED <<row, replica, wal, due, handler, tick, admin>>
        /\ UNCHANGED <<history, done, accepted>> /\ faults' = faults + 1
    BY <1>7, LostConfirm DEF db, actors, audit
  <2> QED BY ONLY TypeOK, <2>1, <2>2 DEF TypeOK
<1> QED BY <1>1, <1>2, <1>3, <1>4, <1>5, <1>6, <1>7 DEF FaultStep

(* Every reachable state is well typed, whatever actors interleave, fail or  *)
(* lag behind.                                                               *)
THEOREM TypeCorrect == Spec => []TypeOK
<1>1. Init => TypeOK
  <2> SUFFICES ASSUME Init PROVE TypeOK
    OBVIOUS
  <2>1. wal \in Seq([Rows -> Status])
    BY EmptySeq DEF Init
  <2> QED BY <2>1 DEF Init, TypeOK, Row, NoRow, Status, Clock, Tick, IdleTick
<1>2. TypeOK /\ [Next]_vars => TypeOK'
  <2> SUFFICES ASSUME TypeOK, [Next]_vars PROVE TypeOK'
    OBVIOUS
  <2>1. CASE UNCHANGED vars
    BY <2>1 DEF TypeOK, vars
  <2> QED BY <2>1, ReplayType, TickType, HandlerType, DeliverType, RowType,
             FaultType DEF Next
<1> QED BY <1>1, <1>2, PTL DEF Spec

-----------------------------------------------------------------------------
(* What a step may do to one row *)

Edge(r, s) ==
  \/ s = r
  \/ r.status = "ABSENT" /\ s = Inserted(r)
  \/ r.status = "PENDING" /\ s = Claimed(r)
  \/ r.status = "PROCESSING" /\ r.redriveCount < MaxRedrives /\ s = Redriven(r)
  \/ r.status = "PROCESSING" /\ r.redriveCount >= MaxRedrives /\ s = Failed(r)
  \/ r.status = "PROCESSING" /\ s = [r EXCEPT !.processingStartedAt = "stale"]
  \/ r.status = "FAILED" /\ s = Retried(r)
  \/ s = Sent(r)
  \/ s = AfterFailure(r)

(* However actors interleave, a step takes each row along one edge.          *)
LEMMA RowEdges ==
  ASSUME TypeOK, [Next]_vars
  PROVE  \A n \in Rows : Edge(row[n], row'[n])
<1> USE DEF TypeOK
<1> SUFFICES ASSUME NEW n \in Rows, row' # row
             PROVE  Edge(row[n], row'[n])
  BY DEF Edge
<1>1. ASSUME NEW t \in Tickers, TickStep(t)
      PROVE  Edge(row[n], row'[n])
  <2>1. CASE FailCapped(t)
    BY <2>1 DEF FailCapped, Commit, Update, Capped, Stuck, InStatus, Edge
  <2>2. CASE RecoverStuck(t)
    BY <2>2 DEF RecoverStuck, Commit, Update, Eligible, Stuck, InStatus,
                   Edge
  <2>3. ASSUME NEW locked \in SUBSET Lockable, Claim(t, locked)
        PROVE  Edge(row[n], row'[n])
    BY <2>3 DEF Claim, Commit, Update, Oldest, Claimable, InStatus, Edge
  <2> QED BY <1>1, <2>1, <2>2, <2>3
          DEF TickStep, AppendRedriven, AppendClaimed, PublishPush
<1>2. ASSUME NEW h \in Handlers, HandlerStep(h)
      PROVE  Edge(row[n], row'[n])
  <2>1. CASE RecordSent(h)
    BY <2>1 DEF RecordSent, Commit, Update, Edge
  <2>2. CASE RecordFailure(h)
    BY <2>2 DEF RecordFailure, Commit, Update, Edge
  <2> QED BY <1>2, <2>1, <2>2 DEF HandlerStep, Send, PublishRetry, Ack
<1>3. ASSUME NEW m \in Rows, RowStep(m)
      PROVE  Edge(row[n], row'[n])
  <2>1. CASE Ingest(m)
    BY <2>1 DEF Ingest, Commit, Update, Edge
  <2>2. CASE Age(m)
    BY <2>2 DEF Age, Edge
  <2>3. CASE ManualRetry(m)
    BY <2>3 DEF ManualRetry, Commit, Update, Edge
  <2> QED BY <1>3, <2>1, <2>2, <2>3
          DEF RowStep, BecomeDue, ExpireRetry, AppendManualRetry
<1>4. ~Replay /\ ~UNCHANGED vars
  BY DEF Replay, vars
<1>5. ~FaultStep
  BY DEF FaultStep, ConfirmLost, PushConfirmLost, RetryConfirmLost,
         TickDies, AdminDies, LookupThrow, HandlerCrash,
         LoseChannel, HandlerThrow
<1>6. ~\E h \in Handlers, m \in Rows : Deliver(h, m)
  BY DEF Deliver
<1> QED BY <1>1, <1>2, <1>3, <1>4, <1>5, <1>6 DEF Next

(* What is invariant of a row, whichever edge it takes. A row not inserted   *)
(* yet has its whole budget.                                                 *)
RowInv(r) ==
  /\ r.status \in Live \cup {"ABSENT"} => r.attempts < MaxAttempts
  /\ r.status = "FAILED" => \/ r.attempts >= MaxAttempts
                            \/ r.redriveCount >= MaxRedrives
  /\ r.redriveCount <= MaxRedrives
  /\ r.status = "PROCESSING" => r.processingStartedAt # "null"

(* A row that keeps its budgets keeps them along every edge.                 *)
LEMMA EdgeKeepsRowInv ==
  ASSUME NEW r \in Row, NEW s \in Row, RowInv(r), Edge(r, s)
  PROVE  RowInv(s)
<1> USE DEF Row, RowInv, Live
<1>1. CASE r.status = "ABSENT" /\ s = Inserted(r)
  BY <1>1 DEF Inserted
<1>2. CASE r.status = "PENDING" /\ s = Claimed(r)
  BY <1>2 DEF Claimed
<1>3. CASE r.status = "PROCESSING" /\ r.redriveCount < MaxRedrives
           /\ s = Redriven(r)
  BY <1>3 DEF Redriven
<1>4. CASE r.status = "PROCESSING" /\ r.redriveCount >= MaxRedrives
           /\ s = Failed(r)
  BY <1>4 DEF Failed
<1>5. CASE s = [r EXCEPT !.processingStartedAt = "stale"]
  BY <1>5
<1>6. CASE r.status = "FAILED" /\ s = Retried(r)
  BY <1>6 DEF Retried
<1>7. CASE s = Sent(r)
  BY <1>7 DEF Sent
<1>8. CASE s = AfterFailure(r)
  BY <1>8 DEF AfterFailure, Failed, Attempted
<1> QED BY <1>1, <1>2, <1>3, <1>4, <1>5, <1>6, <1>7, <1>8 DEF Edge

RowsInv == \A n \in Rows : RowInv(row[n])

(* So every row of every reachable state keeps its budgets.                  *)
LEMMA RowsInvariant == Spec => []RowsInv
<1>1. Init => RowsInv
  BY DEF Init, NoRow, RowInv, RowsInv, Live
<1>2. TypeOK /\ TypeOK' /\ RowsInv /\ [Next]_vars => RowsInv'
  <2> SUFFICES ASSUME TypeOK, TypeOK', RowsInv, [Next]_vars, NEW n \in Rows
               PROVE  RowInv(row[n])'
    BY DEF RowsInv
  <2>1. row[n] \in Row /\ row'[n] \in Row
    BY DEF TypeOK
  <2>2. RowInv(row'[n])
    BY <2>1, RowEdges, EdgeKeepsRowInv DEF RowsInv
  <2> QED BY <2>2 DEF RowInv
<1> QED BY <1>1, <1>2, TypeCorrect, PTL DEF Spec

(* A live row has attempts left, whatever retries and redeliveries count     *)
(* against it.                                                               *)
THEOREM BudgetsHold == Spec => []LiveHasBudget
<1>1. RowsInv => LiveHasBudget
  BY DEF RowsInv, RowInv, LiveHasBudget
<1> QED BY <1>1, RowsInvariant, PTL

(* A failed row has used up its attempts or its redrives.                    *)
THEOREM FailuresAreSpent == Spec => []FailedIsSpent
<1>1. RowsInv => FailedIsSpent
  BY DEF RowsInv, RowInv, FailedIsSpent
<1> QED BY <1>1, RowsInvariant, PTL

(* Redrives stay under their cap, however many replicas run the sweep.       *)
THEOREM RedrivesAreCapped == Spec => []RedrivesCapped
<1>1. RowsInv => RedrivesCapped
  BY DEF RowsInv, RowInv, RedrivesCapped
<1> QED BY <1>1, RowsInvariant, PTL

(* A PROCESSING row always carries the timestamp the sweep needs.            *)
THEOREM StuckRowsAreFound == Spec => []ProcessingIsRecoverable
<1>1. RowsInv => ProcessingIsRecoverable
  BY DEF RowsInv, RowInv, ProcessingIsRecoverable
<1> QED BY <1>1, RowsInvariant, PTL

-----------------------------------------------------------------------------
(* SENT means sent *)

\* A handler about to record success has had the webhook accept its push.
OkWasAccepted ==
  \A h \in Handlers : handler[h].pc = "record" /\ handler[h].ok
                        => handler[h].msg \in accepted

(* Only a handler's success turns a row SENT, its own.                       *)
LEMMA OnlySuccessSends ==
  ASSUME TypeOK, [Next]_vars, NEW n \in Rows,
         row[n].status # "SENT", row'[n].status = "SENT"
  PROVE  \E h \in Handlers : RecordSent(h) /\ handler[h].msg = n
<1>0. row[n] \in Row
  BY DEF TypeOK
<1>1. row' # row /\ ~UNCHANGED vars /\ ~Replay
  BY DEF vars, Replay
<1>2. ASSUME NEW t \in Tickers
      PROVE  ~TickStep(t)
  <2>1. ~FailCapped(t)
    BY <1>0, <1>1, StatusAfter DEF FailCapped, Commit, Update
  <2>2. ~RecoverStuck(t)
    BY <1>0, <1>1, StatusAfter DEF RecoverStuck, Commit, Update
  <2>3. ~\E locked \in SUBSET Lockable : Claim(t, locked)
    BY <1>0, <1>1, StatusAfter DEF Claim, Commit, Update
  <2> QED BY <1>1, <2>1, <2>2, <2>3
          DEF TickStep, AppendRedriven, AppendClaimed, PublishPush
<1>3. ASSUME NEW m \in Rows
      PROVE  ~RowStep(m)
  <2>1. ~Ingest(m) /\ ~ManualRetry(m)
    BY <1>0, <1>1, StatusAfter DEF Ingest, ManualRetry, Commit, Update
  <2>2. ~Age(m)
    <3>1. Age(m) => row'[n].status = row[n].status
      BY <1>0 DEF Age, TypeOK, Row
    <3> QED BY <1>1, <3>1
  <2> QED BY <1>1, <2>1, <2>2
          DEF RowStep, BecomeDue, ExpireRetry, AppendManualRetry
<1>4. ~FaultStep /\ ~\E h \in Handlers, m \in Rows : Deliver(h, m)
  BY <1>1 DEF FaultStep, ConfirmLost, PushConfirmLost, RetryConfirmLost,
         TickDies, AdminDies, LookupThrow, HandlerCrash,
     LoseChannel, HandlerThrow, Deliver
<1>5. PICK h \in Handlers : HandlerStep(h)
  BY <1>1, <1>2, <1>3, <1>4 DEF Next
<1>6. ~RecordFailure(h)
  BY <1>0, <1>1, StatusAfter DEF RecordFailure, Commit, Update
<1>7. RecordSent(h)
  BY <1>1, <1>5, <1>6 DEF HandlerStep, Send, PublishRetry, Ack
<1>8. handler[h].msg = n
  BY <1>7 DEF RecordSent, Commit, Update
<1> QED BY <1>7, <1>8

(* The history only grows.                                                   *)
LEMMA HistoryGrows ==
  ASSUME TypeOK, [Next]_vars, NEW n \in Rows, NEW e \in Events
  PROVE  history[n][e] <= history'[n][e]
<1>1. history \in [Rows -> [Events -> Nat]]
  BY DEF TypeOK
<1>2. CASE history' = history
  BY <1>1, <1>2
<1>3. ASSUME NEW S, NEW x \in Events, history' = Log(history, S, x)
      PROVE  history[n][e] <= history'[n][e]
  BY <1>1, <1>3, LogValue
<1>4. ASSUME NEW t \in Tickers, AppendRedriven(t)
      PROVE  history[n][e] <= history'[n][e]
  <2> DEFINE x == "REDRIVEN_FROM_STUCK"
  <2>1. x \in Events
    BY DEF Events
  <2>2. Log(history, tick[t].failed, x) \in [Rows -> [Events -> Nat]]
    BY <1>1, <2>1, LogType
  <2>3. history[n][e] <= Log(history, tick[t].failed, x)[n][e]
    BY <1>1, <2>1, LogValue
  <2> DEFINE mid == Log(history, tick[t].failed, x)
  <2>4. /\ mid[n][e] <= history'[n][e]
        /\ history' \in [Rows -> [Events -> Nat]]
    <3>1. history' = Log(mid, tick[t].recovered, x)
      BY <1>4 DEF AppendRedriven
    <3>2. mid \in [Rows -> [Events -> Nat]]
      BY <2>2
    <3> HIDE DEF mid, x
    <3>3. history' \in [Rows -> [Events -> Nat]]
      BY <2>1, <3>1, <3>2, LogType
    <3>4. mid[n][e] \in Nat
      BY <3>2
    <3>5. \/ history'[n][e] = mid[n][e] + 1
          \/ history'[n][e] = mid[n][e]
      BY <2>1, <3>1, <3>2, LogValue
    <3> QED BY <3>3, <3>4, <3>5
  <2>5. /\ history[n][e] \in Nat /\ history'[n][e] \in Nat
        /\ Log(history, tick[t].failed, x)[n][e] \in Nat
    BY <1>1, <2>2, <2>4
  <2> QED BY <2>3, <2>4, <2>5
<1>5. /\ "CLAIMED_BY_TICK" \in Events /\ "CREATED" \in Events
      /\ "PUSH_SENT" \in Events /\ "PUSH_ATTEMPT" \in Events
      /\ "MANUAL_RETRY" \in Events
  BY DEF Events
<1>6. ASSUME NEW t \in Tickers, TickStep(t)
      PROVE  history[n][e] <= history'[n][e]
  BY <1>2, <1>3, <1>4, <1>5, <1>6
  DEF TickStep, FailCapped, RecoverStuck, Claim, AppendClaimed, PublishPush
<1>7. ASSUME NEW h \in Handlers, HandlerStep(h)
      PROVE  history[n][e] <= history'[n][e]
  BY <1>2, <1>3, <1>5, <1>7
  DEF HandlerStep, Send, RecordSent, RecordFailure, PublishRetry, Ack
<1>8. ASSUME NEW m \in Rows, RowStep(m)
      PROVE  history[n][e] <= history'[n][e]
  BY <1>2, <1>3, <1>5, <1>8
  DEF RowStep, Ingest, BecomeDue, Age, ExpireRetry, ManualRetry,
      AppendManualRetry
<1>9. CASE Replay \/ FaultStep \/ UNCHANGED vars
           \/ \E h \in Handlers, m \in Rows : Deliver(h, m)
  BY <1>2, <1>9 DEF Replay, vars, Deliver, FaultStep, ConfirmLost, PushConfirmLost,
                    RetryConfirmLost, TickDies, AdminDies,
                    LookupThrow, HandlerCrash, LoseChannel, HandlerThrow
<1> QED BY <1>6, <1>7, <1>8, <1>9 DEF Next

(* What the webhook has accepted stays accepted.                             *)
LEMMA AcceptedGrows ==
  ASSUME [Next]_vars
  PROVE  accepted \subseteq accepted'
<1>1. ASSUME NEW h \in Handlers, HandlerStep(h)
      PROVE  accepted \subseteq accepted'
  BY <1>1 DEF HandlerStep, Send, RecordSent, RecordFailure, PublishRetry, Ack
<1>2. ASSUME NEW t \in Tickers, TickStep(t)
      PROVE  accepted' = accepted
  BY <1>2 DEF TickStep, FailCapped, RecoverStuck, AppendRedriven, Claim,
              AppendClaimed, PublishPush
<1>3. ASSUME NEW m \in Rows, RowStep(m)
      PROVE  accepted' = accepted
  BY <1>3 DEF RowStep, Ingest, BecomeDue, Age, ExpireRetry, ManualRetry,
              AppendManualRetry
<1>4. CASE Replay \/ FaultStep \/ UNCHANGED vars
           \/ \E h \in Handlers, m \in Rows : Deliver(h, m)
  BY <1>4 DEF Replay, vars, Deliver, FaultStep, ConfirmLost, PushConfirmLost,
                    RetryConfirmLost, TickDies, AdminDies,
              LookupThrow, HandlerCrash, LoseChannel, HandlerThrow
<1> QED BY <1>1, <1>2, <1>3, <1>4 DEF Next

(* A handler holds a success only after its own webhook call returned one.   *)
LEMMA OkInductive ==
  ASSUME TypeOK, OkWasAccepted, [Next]_vars
  PROVE  OkWasAccepted'
<1> USE DEF OkWasAccepted
<1> SUFFICES ASSUME NEW g \in Handlers,
                    handler'[g].pc = "record", handler'[g].ok
             PROVE  handler'[g].msg \in accepted'
  OBVIOUS
<1>0. handler \in [Handlers -> Busy \cup {IdleHandler}]
  BY DEF TypeOK
<1>1. CASE handler'[g] = handler[g]
  BY <1>1, AcceptedGrows
<1>2. ASSUME NEW ok \in BOOLEAN, NEW taken \in BOOLEAN, Send(g, ok, taken)
      PROVE  handler'[g].msg \in accepted'
  <2>1. handler[g] \in Busy
    BY <1>2, BusyHandler DEF Send
  <2>2. /\ handler'[g].msg = handler[g].msg
        /\ handler'[g].ok = ok
    BY <1>0, <1>2, <2>1 DEF Send, Busy
  <2> QED BY <1>2, <2>2 DEF Send
<1>3. ASSUME NEW h \in Handlers, HandlerStep(h)
      PROVE  handler'[g].msg \in accepted'
  <2>1. CASE h # g
    BY <1>0, <1>1, <1>3, <2>1
    DEF HandlerStep, Send, RecordSent, RecordFailure, PublishRetry, Ack
  <2>2. CASE h = g
    <3>1. handler[g] \in Busy
      BY <1>3, <2>2, BusyHandler
      DEF HandlerStep, Send, RecordSent, RecordFailure, PublishRetry, Ack
    <3>2. ~RecordSent(g) /\ ~RecordFailure(g) /\ ~PublishRetry(g) /\ ~Ack(g)
      BY <1>0, <3>1 DEF RecordSent, RecordFailure, PublishRetry, Ack, Busy,
                        IdleHandler
    <3> QED BY <1>2, <1>3, <2>2, <3>2 DEF HandlerStep
  <2> QED BY <2>1, <2>2
<1>4. ASSUME NEW h \in Handlers, NEW m \in Rows, Deliver(h, m)
      PROVE  handler'[g].msg \in accepted'
  BY <1>0, <1>1, <1>4 DEF Deliver
<1>5. CASE FaultStep
  <2>1. ASSUME NEW h \in Handlers, HandlerCrash(h) \/ HandlerThrow(h)
        PROVE  handler'[g] = handler[g]
    BY <1>0, <2>1 DEF HandlerCrash, HandlerThrow, IdleHandler
  <2>2. ASSUME NEW h \in Handlers, LoseChannel(h)
        PROVE  handler'[g].msg \in accepted'
    <3>1. handler[h] \in Busy
      BY <1>0, <2>2 DEF LoseChannel
    <3>2. /\ handler'[g].pc = handler[g].pc
          /\ handler'[g].msg = handler[g].msg
          /\ handler'[g].ok = handler[g].ok
      BY <1>0, <2>2, <3>1 DEF LoseChannel, Busy
    <3> QED BY <3>2, AcceptedGrows
  <2> QED BY <1>1, <1>5, <2>1, <2>2 DEF FaultStep, TickDies, AdminDies, LookupThrow,
         ConfirmLost, PushConfirmLost, RetryConfirmLost
<1>6. ASSUME NEW t \in Tickers, TickStep(t)
      PROVE  handler' = handler
  BY <1>6 DEF TickStep, FailCapped, RecoverStuck, AppendRedriven, Claim,
              AppendClaimed, PublishPush
<1>7. ASSUME NEW m \in Rows, RowStep(m)
      PROVE  handler' = handler
  BY <1>7 DEF RowStep, Ingest, BecomeDue, Age, ExpireRetry, ManualRetry,
              AppendManualRetry
<1>8. CASE Replay \/ UNCHANGED vars
  BY <1>1, <1>8 DEF Replay, vars
<1> QED BY <1>1, <1>3, <1>4, <1>5, <1>6, <1>7, <1>8 DEF Next

(* A SENT row was accepted by the webhook and is in the history as such,     *)
(* whatever is redelivered, retried or lost on the way.                      *)
THEOREM SentIsNoGuess == Spec => []SentWasAccepted
<1>1. Init => OkWasAccepted /\ SentWasAccepted
  BY DEF Init, OkWasAccepted, SentWasAccepted, NoRow, IdleHandler
<1>2. TypeOK /\ TypeOK' /\ OkWasAccepted /\ SentWasAccepted /\ [Next]_vars
        => OkWasAccepted' /\ SentWasAccepted'
  <2> SUFFICES ASSUME TypeOK, TypeOK', OkWasAccepted, SentWasAccepted, [Next]_vars,
                      NEW n \in Rows, row'[n].status = "SENT"
               PROVE  n \in accepted' /\ history'[n]["PUSH_SENT"] > 0
    BY OkInductive DEF SentWasAccepted
  <2>0. /\ history \in [Rows -> [Events -> Nat]]
        /\ history' \in [Rows -> [Events -> Nat]]
        /\ "PUSH_SENT" \in Events
    BY DEF TypeOK, Events
  <2>1. CASE row[n].status = "SENT"
    <3>1. n \in accepted /\ history[n]["PUSH_SENT"] > 0
      BY <2>1 DEF SentWasAccepted
    <3>2. history[n]["PUSH_SENT"] <= history'[n]["PUSH_SENT"]
      BY <2>0, HistoryGrows
    <3> QED BY <2>0, <3>1, <3>2, AcceptedGrows
  <2>2. CASE row[n].status # "SENT"
    <3>1. PICK h \in Handlers : RecordSent(h) /\ handler[h].msg = n
      BY <2>2, OnlySuccessSends
    <3>2. n \in accepted'
      BY <3>1 DEF RecordSent, OkWasAccepted
    <3>3. history'[n]["PUSH_SENT"] = history[n]["PUSH_SENT"] + 1
      BY <2>0, <3>1, LogValue DEF RecordSent
    <3> QED BY <2>0, <3>2, <3>3
  <2> QED BY <2>1, <2>2
<1> QED BY <1>1, <1>2, TypeCorrect, PTL DEF Spec

-----------------------------------------------------------------------------
(* PushDelivery implements NotificationLifecycle *)

\* Nobody has the row in hand: no message, no handler, no claim.
Quiet(n) ==
  /\ work[n] = 0 /\ retry[n] = 0
  /\ \A h \in Handlers : handler[h] # IdleHandler => handler[h].msg # n
  /\ \A t \in Tickers : n \notin tick[t].claimed

\* Only rows that have been inserted are claimed, queued and sent.
OnlyInserted == \A n \in Rows : row[n].status = "ABSENT" => Quiet(n)

(* A row that is not there and that nobody has in hand stays away, whatever   *)
(* else happens.                                                              *)
LEMMA AbsentStays ==
  ASSUME TypeOK, NEW n \in Rows, row[n].status = "ABSENT", Quiet(n),
         \/ \E t \in Tickers : TickStep(t)
         \/ \E h \in Handlers : HandlerStep(h)
         \/ \E h \in Handlers, m \in Rows : Deliver(h, m)
         \/ \E m \in Rows : \/ BecomeDue(m) \/ Age(m) \/ ExpireRetry(m)
                            \/ ManualRetry(m) \/ AppendManualRetry(m)
         \/ FaultStep \/ Replay \/ UNCHANGED vars
  PROVE  row'[n] = row[n]
<1> USE DEF TypeOK
<1> SUFFICES ASSUME row' # row
             PROVE  row'[n] = row[n]
  OBVIOUS
<1>1. ASSUME NEW t \in Tickers, TickStep(t)
      PROVE  row'[n] = row[n]
  <2>1. CASE FailCapped(t)
    BY <2>1 DEF FailCapped, Commit, Update, Capped, Stuck, InStatus
  <2>2. CASE RecoverStuck(t)
    BY <2>2 DEF RecoverStuck, Commit, Update, Eligible, Stuck, InStatus
  <2>3. ASSUME NEW locked \in SUBSET Lockable, Claim(t, locked)
        PROVE  row'[n] = row[n]
    BY <2>3 DEF Claim, Commit, Update, Oldest, Claimable, InStatus
  <2> QED BY <1>1, <2>1, <2>2, <2>3
          DEF TickStep, AppendRedriven, AppendClaimed, PublishPush
<1>2. ASSUME NEW h \in Handlers, HandlerStep(h)
      PROVE  row'[n] = row[n]
  <2>1. CASE RecordSent(h)
    BY <2>1 DEF RecordSent, Commit, Update, Quiet, IdleHandler
  <2>2. CASE RecordFailure(h)
    BY <2>2 DEF RecordFailure, Commit, Update, Quiet, IdleHandler
  <2> QED BY <1>2, <2>1, <2>2 DEF HandlerStep, Send, PublishRetry, Ack
<1>3. ASSUME NEW m \in Rows, Age(m) \/ ManualRetry(m)
      PROVE  row'[n] = row[n]
  <2>1. CASE Age(m)
    BY <2>1 DEF Age
  <2>2. CASE ManualRetry(m)
    BY <2>2 DEF ManualRetry, Commit, Update
  <2> QED BY <1>3, <2>1, <2>2
<1>4. /\ ~Replay /\ ~UNCHANGED vars
      /\ ~\E m \in Rows : BecomeDue(m) \/ ExpireRetry(m) \/ AppendManualRetry(m)
  BY DEF Replay, vars, BecomeDue, ExpireRetry, AppendManualRetry
<1>5. ~FaultStep /\ ~\E h \in Handlers, m \in Rows : Deliver(h, m)
  BY DEF FaultStep, ConfirmLost, PushConfirmLost, RetryConfirmLost,
         TickDies, AdminDies, LookupThrow, HandlerCrash,
         LoseChannel, HandlerThrow, Deliver
<1> QED BY <1>1, <1>2, <1>3, <1>4, <1>5

(* So it can only be inserted.                                                *)
LEMMA AbsentRow ==
  ASSUME TypeOK, [Next]_vars, NEW n \in Rows,
         row[n].status = "ABSENT", Quiet(n)
  PROVE  row'[n] = row[n] \/ row'[n] = Inserted(row[n])
<1>1. ASSUME NEW m \in Rows, Ingest(m)
      PROVE  row'[n] = row[n] \/ row'[n] = Inserted(row[n])
  BY <1>1 DEF TypeOK, Ingest, Commit, Update
<1>2. CASE ~\E m \in Rows : Ingest(m)
  BY <1>2, AbsentStays DEF Next, RowStep
<1> QED BY <1>1, <1>2

(* And a row that is there is never removed.                                  *)
LEMMA RowsRemain ==
  ASSUME TypeOK, [Next]_vars, NEW n \in Rows, row[n].status # "ABSENT"
  PROVE  row'[n].status # "ABSENT"
<1>1. row[n] \in Row /\ Edge(row[n], row'[n])
  BY RowEdges DEF TypeOK
<1> QED BY <1>1, StatusAfter DEF Edge, Row

(* Faults are not taken back.                                                 *)
LEMMA FaultsGrow ==
  ASSUME TypeOK, [Next]_vars
  PROVE  faults <= faults'
<1> USE DEF TypeOK
<1>1. ASSUME NEW t \in Tickers, TickStep(t) PROVE faults' = faults
  BY <1>1 DEF TickStep, FailCapped, RecoverStuck, AppendRedriven, Claim,
              AppendClaimed, PublishPush
<1>2. ASSUME NEW h \in Handlers, HandlerStep(h) PROVE faults' = faults
  BY <1>2 DEF HandlerStep, Send, RecordSent, RecordFailure, PublishRetry, Ack
<1>3. ASSUME NEW m \in Rows, RowStep(m) PROVE faults' = faults
  BY <1>3 DEF RowStep, Ingest, BecomeDue, Age, ExpireRetry, ManualRetry,
              AppendManualRetry
<1>4. CASE FaultStep
  BY <1>4 DEF FaultStep, ConfirmLost, PushConfirmLost, RetryConfirmLost,
         TickDies, AdminDies, LookupThrow, HandlerCrash,
              LoseChannel, HandlerThrow, Fault
<1>5. Replay \/ (\E h \in Handlers, m \in Rows : Deliver(h, m)) \/ UNCHANGED vars
        => faults' = faults
  BY DEF Replay, Deliver, vars
<1> QED BY <1>1, <1>2, <1>3, <1>4, <1>5 DEF Next

(* No step takes a row in hand that is not there.                            *)
LEMMA StaysQuiet ==
  ASSUME TypeOK, [Next]_vars, NEW n \in Rows,
         row[n].status = "ABSENT", Quiet(n)
  PROVE  Quiet(n)'
<1> USE DEF TypeOK
<1>0. IdleTick.claimed = {}
  BY DEF IdleTick
<1>1. ASSUME NEW t \in Tickers, TickStep(t)
      PROVE  Quiet(n)'
  <2>1. CASE FailCapped(t)
    BY <2>1, <1>0 DEF FailCapped, Quiet, IdleTick
  <2>2. CASE RecoverStuck(t)
    <3>1. \A u \in Tickers : tick'[u].claimed = tick[u].claimed
      BY <2>2 DEF RecoverStuck, Tick
    <3> QED BY <2>2, <3>1 DEF RecoverStuck, Quiet
  <2>3. CASE AppendRedriven(t)
    BY <2>3, <1>0 DEF AppendRedriven, Quiet, IdleTick
  <2>4. ASSUME NEW locked \in SUBSET Lockable, Claim(t, locked)
        PROVE  Quiet(n)'
    <3> DEFINE batch == Oldest((Claimable \cap due) \ locked, BatchSize)
    <3>1. n \notin batch
      BY DEF Oldest, Claimable, InStatus
    <3>2. tick' = [tick EXCEPT ![t] =
                     IF batch = {} THEN IdleTick
                     ELSE [IdleTick EXCEPT !.pc = "claimed", !.claimed = batch]]
      BY <2>4 DEF Claim
    <3> HIDE DEF batch
    <3>3. \A u \in Tickers : n \in tick'[u].claimed => n \in tick[u].claimed
      BY <3>1, <3>2 DEF IdleTick
    <3>4. work' = work /\ retry' = retry /\ handler' = handler
      BY <2>4 DEF Claim
    <3> QED BY <3>3, <3>4 DEF Quiet
  <2>5. CASE AppendClaimed(t)
    <3>1. \A u \in Tickers : tick'[u].claimed = tick[u].claimed
      BY <2>5 DEF AppendClaimed, Tick
    <3> QED BY <2>5, <3>1 DEF AppendClaimed, Quiet
  <2>6. ASSUME NEW m \in Rows, PublishPush(t, m)
        PROVE  Quiet(n)'
    <3>1. m # n
      BY <2>6 DEF PublishPush, Quiet
    <3>2. work'[n] = work[n]
      BY <2>6, <3>1 DEF PublishPush, Enqueue
    <3>3. \A u \in Tickers : tick'[u].claimed \subseteq tick[u].claimed
      BY <2>6, <1>0 DEF PublishPush, Tick
    <3> QED BY <2>6, <3>2, <3>3 DEF PublishPush, Quiet
  <2> QED BY <1>1, <2>1, <2>2, <2>3, <2>4, <2>5, <2>6 DEF TickStep
<1>2. ASSUME NEW h \in Handlers, HandlerStep(h)
      PROVE  Quiet(n)'
  <2>1. handler[h] \in Busy /\ handler[h] # IdleHandler /\ handler[h].msg # n
    BY <1>2, BusyHandler DEF HandlerStep, Send, RecordSent, RecordFailure,
       PublishRetry, Ack, Quiet, IdleHandler
  <2>2. \A g \in Handlers :
          handler'[g] # IdleHandler => handler[g] # IdleHandler
                                       /\ handler'[g].msg = handler[g].msg
    <3>1. CASE Ack(h)
      BY <3>1 DEF Ack
    <3>2. ASSUME NEW pc, handler' = [handler EXCEPT ![h].pc = pc]
          PROVE  handler'[h].msg = handler[h].msg
                 /\ \A g \in Handlers : g # h => handler'[g] = handler[g]
      BY <2>1, <3>2 DEF Busy
    <3>3. RecordSent(h) \/ RecordFailure(h) \/ PublishRetry(h)
            => \E pc : handler' = [handler EXCEPT ![h].pc = pc]
      BY DEF RecordSent, RecordFailure, PublishRetry
    <3>4. ASSUME NEW ok \in BOOLEAN, NEW taken \in BOOLEAN, Send(h, ok, taken)
          PROVE  handler' = [handler EXCEPT ![h].pc = "record", ![h].ok = ok]
      BY <3>4 DEF Send
    <3>5. ASSUME NEW ok \in BOOLEAN,
                 handler' = [handler EXCEPT ![h].pc = "record", ![h].ok = ok]
          PROVE  \A g \in Handlers : g # h => handler'[g] = handler[g]
      BY <3>5
    <3>6. ASSUME NEW ok \in BOOLEAN,
                 handler' = [handler EXCEPT ![h].pc = "record", ![h].ok = ok]
          PROVE  handler'[h].msg = handler[h].msg
      BY <2>1, <3>6 DEF Busy
    <3> QED BY <1>2, <2>1, <3>1, <3>2, <3>3, <3>4, <3>5, <3>6 DEF HandlerStep
  <2>3. work' = work /\ tick' = tick /\ retry'[n] = retry[n]
    BY <1>2, <2>1 DEF HandlerStep, Send, RecordSent, RecordFailure,
       PublishRetry, Ack, Enqueue, Busy
  <2> QED BY <2>2, <2>3 DEF Quiet
<1>3. ASSUME NEW h \in Handlers, NEW m \in Rows, Deliver(h, m)
      PROVE  Quiet(n)'
  <2>1. m # n /\ work'[n] = work[n]
    BY <1>3 DEF Deliver, Quiet
  <2> QED BY <1>3, <2>1 DEF Deliver, Quiet
<1>4. ASSUME NEW m \in Rows, RowStep(m)
      PROVE  Quiet(n)'
  <2>1. work'[n] = work[n] /\ retry'[n] = retry[n]
    BY <1>4 DEF RowStep, Ingest, BecomeDue, Age, ExpireRetry, ManualRetry,
                AppendManualRetry, Quiet, Enqueue
  <2>2. handler' = handler /\ tick' = tick
    BY <1>4 DEF RowStep, Ingest, BecomeDue, Age, ExpireRetry, ManualRetry,
                AppendManualRetry
  <2> QED BY <2>1, <2>2 DEF Quiet
<1>5. CASE FaultStep
  <2>1. ASSUME NEW t \in Tickers, TickDies(t)
        PROVE  Quiet(n)'
    BY <2>1, <1>0 DEF TickDies, Quiet
  <2>2. ASSUME NEW m \in Rows, AdminDies(m) \/ LookupThrow(m)
        PROVE  Quiet(n)'
    <3>1. work'[n] = work[n]
      BY <2>2 DEF AdminDies, LookupThrow, Quiet
    <3> QED BY <2>2, <3>1 DEF AdminDies, LookupThrow, Quiet
  <2>3. ASSUME NEW h \in Handlers, HandlerCrash(h) \/ LoseChannel(h) \/ HandlerThrow(h)
        PROVE  Quiet(n)'
    <3>1. handler[h] \in Busy /\ handler[h] # IdleHandler /\ handler[h].msg # n
      BY <2>3, BusyHandler DEF HandlerCrash, LoseChannel, HandlerThrow, Quiet,
         IdleHandler
    <3>2. \A g \in Handlers :
            handler'[g] # IdleHandler => handler[g] # IdleHandler
                                         /\ handler'[g].msg = handler[g].msg
      <4>1. CASE HandlerCrash(h) \/ HandlerThrow(h)
        BY <4>1 DEF HandlerCrash, HandlerThrow
      <4>2. CASE LoseChannel(h)
        <5>1. \A g \in Handlers : g # h => handler'[g] = handler[g]
          BY <4>2 DEF LoseChannel
        <5>2. handler'[h].msg = handler[h].msg
          BY <3>1, <4>2 DEF LoseChannel, Busy
        <5> QED BY <3>1, <5>1, <5>2
      <4> QED BY <2>3, <4>1, <4>2
    <3>3. work'[n] = work[n] /\ tick' = tick /\ retry' = retry
      BY <2>3, <3>1 DEF HandlerCrash, LoseChannel, HandlerThrow, Requeued,
         Enqueue, Busy
    <3> QED BY <3>2, <3>3 DEF Quiet
  <2>4. CASE ConfirmLost
    <3>1. work'[n] = work[n] /\ retry'[n] = retry[n]
      BY <2>4, LostConfirm DEF Quiet, Enqueue
    <3>2. handler' = handler /\ tick' = tick
      BY <2>4, LostConfirm DEF actors
    <3> QED BY <3>1, <3>2 DEF Quiet
  <2> QED BY <1>5, <2>1, <2>2, <2>3, <2>4 DEF FaultStep
<1>6. CASE Replay \/ UNCHANGED vars
  BY <1>6 DEF Replay, vars, Quiet
<1> QED BY <1>1, <1>2, <1>3, <1>4, <1>5, <1>6 DEF Next

(* Nothing is ever done for a row that is not there.                         *)
LEMMA OnlyInsertedInvariant == Spec => []OnlyInserted
<1>1. Init => OnlyInserted
  BY DEF Init, OnlyInserted, Quiet, IdleHandler, IdleTick
<1>2. TypeOK /\ OnlyInserted /\ [Next]_vars => OnlyInserted'
  <2> SUFFICES ASSUME TypeOK, OnlyInserted, [Next]_vars, NEW n \in Rows,
                      row'[n].status = "ABSENT"
               PROVE  Quiet(n)'
    BY DEF OnlyInserted
  <2>1. row[n].status = "ABSENT"
    BY RowsRemain
  <2> QED BY <2>1, StaysQuiet DEF OnlyInserted
<1> QED BY <1>1, <1>2, TypeCorrect, PTL DEF Spec

LifecycleInv == RowsInv /\ OnlyInserted /\ OkWasAccepted

(* Each row moves as the abstract notification may.                          *)
LEMMA RowRefines ==
  ASSUME TypeOK, LifecycleInv, [Next]_vars, NEW n \in Rows
  PROVE  Lifecycle!RowNext(n)
<1> USE DEF LifecycleInv
<1>1. row[n] \in Row /\ Edge(row[n], row'[n])
  BY RowEdges DEF TypeOK
<1> USE DEF Lifecycle!RowNext, Lifecycle!Create, Lifecycle!Claim,
            Lifecycle!Succeed, Lifecycle!Fail, Lifecycle!RetryByHand,
            Lifecycle!Redrive, Lifecycle!Moves, Lifecycle!Created
<1>2. CASE row[n].status = "ABSENT"
  <2>1. row'[n] = row[n] \/ row'[n] = Inserted(row[n])
    BY <1>2, AbsentRow DEF OnlyInserted
  <2> QED BY <1>1, <1>2, <2>1, StatusAfter, RedrivesAfter
<1>3. CASE row[n].status # "ABSENT"
  <2>0. row[n].status \in Lifecycle!Created
    BY <1>1, <1>3 DEF Row, Status
  <2>1. CASE row'[n] = row[n]
    BY <2>1
  <2>2. CASE row[n].status = "PENDING" /\ row'[n] = Claimed(row[n])
    BY <1>1, <2>2, StatusAfter, RedrivesAfter
  <2>3. CASE row[n].status = "PROCESSING" /\ row[n].redriveCount < MaxRedrives
             /\ row'[n] = Redriven(row[n])
    BY <1>1, <2>3, StatusAfter, RedrivesAfter
  <2>4. CASE row'[n] = Failed(row[n])
    BY <1>1, <2>0, <2>4, StatusAfter, RedrivesAfter
  <2>5. CASE row'[n] = [row[n] EXCEPT !.processingStartedAt = "stale"]
    BY <1>1, <2>5 DEF Row
  <2>6. CASE row[n].status = "FAILED" /\ row'[n] = Retried(row[n])
    BY <1>1, <2>6, StatusAfter, RedrivesAfter
  <2>7. CASE row'[n] = Sent(row[n])
    <3>1. row'[n].status = "SENT" /\ row'[n].redriveCount = row[n].redriveCount
      BY <1>1, <2>7, StatusAfter, RedrivesAfter
    <3>2. CASE row[n].status = "SENT"
      BY <3>1, <3>2
    <3>3. CASE row[n].status # "SENT"
      <4>1. PICK h \in Handlers : RecordSent(h) /\ handler[h].msg = n
        BY <3>1, <3>3, OnlySuccessSends
      <4>2. n \in accepted
        BY <4>1 DEF RecordSent, OkWasAccepted
      <4> QED BY <2>0, <3>1, <4>2
    <3> QED BY <3>2, <3>3
  <2>8. CASE row'[n] = AfterFailure(row[n])
    BY <1>1, <2>0, <2>8, StatusAfter, RedrivesAfter
  <2> QED BY <1>1, <1>3, <2>1, <2>2, <2>3, <2>4, <2>5, <2>6, <2>7, <2>8 DEF Edge
<1> QED BY <1>2, <1>3

(* Only a row that is there is accepted by the webhook.                      *)
LEMMA AcceptsInserted ==
  ASSUME TypeOK, OnlyInserted, [Next]_vars, NEW n \in accepted' \ accepted
  PROVE  n \in Rows /\ row[n].status # "ABSENT"
<1>1. PICK h \in Handlers, ok \in BOOLEAN, taken \in BOOLEAN : Send(h, ok, taken)
  <2>1. ~\E t \in Tickers : TickStep(t)
    BY DEF TickStep, FailCapped, RecoverStuck, AppendRedriven, Claim,
           AppendClaimed, PublishPush
  <2>2. ~\E m \in Rows : RowStep(m)
    BY DEF RowStep, Ingest, BecomeDue, Age, ExpireRetry, ManualRetry,
           AppendManualRetry
  <2>3. /\ ~Replay /\ ~FaultStep /\ ~UNCHANGED vars
        /\ ~\E h \in Handlers, m \in Rows : Deliver(h, m)
    BY DEF Replay, vars, Deliver, FaultStep, ConfirmLost, PushConfirmLost,
                    RetryConfirmLost, TickDies, AdminDies, LookupThrow,
           HandlerCrash, LoseChannel, HandlerThrow
  <2>4. PICK h \in Handlers : HandlerStep(h)
    BY <2>1, <2>2, <2>3 DEF Next
  <2> QED BY <2>4 DEF HandlerStep, RecordSent, RecordFailure, PublishRetry, Ack
<1>2. handler[h] \in Busy /\ handler[h] # IdleHandler
  BY <1>1, BusyHandler DEF Send, IdleHandler
<1>3. n = handler[h].msg
  BY <1>1 DEF Send
<1> QED BY <1>2, <1>3 DEF OnlyInserted, Quiet, Busy

(* Push delivery implements the abstract life of a notification: whatever    *)
(* fails, lags or is delivered twice, a row waits again only at the price of *)
(* a redrive or by hand, and is SENT only after it was accepted.             *)
THEOREM ImplementsLifecycle == Spec => KeepsLifecycle
<1>1. Init => Lifecycle!Init
  BY DEF Init, Lifecycle!Init, NoRow
<1>2. TypeOK /\ LifecycleInv /\ [Next]_vars
        => [Lifecycle!Next]_<<[n \in Rows |-> row[n].status],
                              [n \in Rows |-> row[n].redriveCount], accepted>>
  <2> SUFFICES ASSUME TypeOK, LifecycleInv, [Next]_vars PROVE Lifecycle!Next
    OBVIOUS
  <2>1. \A n \in Rows : Lifecycle!RowNext(n)
    BY RowRefines
  <2>2. accepted \subseteq accepted'
    BY AcceptedGrows
  <2>3. ASSUME NEW n \in accepted' \ accepted
        PROVE  [m \in Rows |-> row[m].status][n] \in Lifecycle!Created
    BY AcceptsInserted DEF LifecycleInv, Lifecycle!Created, TypeOK, Row, Status
  <2> QED BY <2>1, <2>2, <2>3 DEF Lifecycle!Next
<1>3. Init => OkWasAccepted
  BY DEF Init, OkWasAccepted, IdleHandler
<1>4. TypeOK /\ OkWasAccepted /\ [Next]_vars => OkWasAccepted'
  BY OkInductive
<1> QED BY <1>1, <1>2, <1>3, <1>4, TypeCorrect, RowsInvariant,
           OnlyInsertedInvariant, PTL
        DEF Spec, KeepsLifecycle, Lifecycle!Spec, LifecycleInv

-----------------------------------------------------------------------------
(* No stay in PENDING is claimed twice *)

\* The right of a row to be claimed: what brought it to PENDING so far, less
\* what claimed it, less the stay it may be in now.
Stay(n) ==
  done[n]["CLAIMED_BY_TICK"] + (IF row[n].status = "PENDING" THEN 1 ELSE 0)
    <= done[n]["CREATED"] + row[n].redriveCount + done[n]["MANUAL_RETRY"]

(* A row's account of claims is inductive: a claim ends the stay it uses,    *)
(* and a stay begins only with an insertion, a redrive or a manual retry.    *)
LEMMA StayInductive ==
  ASSUME TypeOK, TypeOK', [Next]_vars, NEW n \in Rows, Stay(n)
  PROVE  Stay(n)'
<1>0. /\ row \in [Rows -> Row] /\ row[n] \in Row /\ row'[n] \in Row
      /\ row[n].redriveCount \in Nat /\ row'[n].redriveCount \in Nat
      /\ done \in [Rows -> [Events -> Nat]]
      /\ \A e \in Events : done[n][e] \in Nat
  BY DEF TypeOK, Row
<1>e. /\ "CREATED" \in Events /\ "CLAIMED_BY_TICK" \in Events
      /\ "MANUAL_RETRY" \in Events /\ "PUSH_SENT" \in Events
      /\ "PUSH_ATTEMPT" \in Events /\ "REDRIVEN_FROM_STUCK" \in Events
  BY DEF Events
<1>a. ASSUME done' = done, row'[n].redriveCount = row[n].redriveCount,
             row'[n].status = "PENDING" => row[n].status = "PENDING"
      PROVE  Stay(n)'
  BY <1>0, <1>e, <1>a DEF Stay
<1>b. ASSUME NEW S,
             NEW x \in {"PUSH_SENT", "PUSH_ATTEMPT", "REDRIVEN_FROM_STUCK"},
             done' = Log(done, S, x)
      PROVE  /\ done'[n]["CLAIMED_BY_TICK"] = done[n]["CLAIMED_BY_TICK"]
             /\ done'[n]["CREATED"] = done[n]["CREATED"]
             /\ done'[n]["MANUAL_RETRY"] = done[n]["MANUAL_RETRY"]
  BY <1>0, <1>e, <1>b, LogValue
<1>1. ASSUME NEW t \in Tickers, FailCapped(t)
      PROVE  Stay(n)'
  <2>1. /\ row'[n].redriveCount = row[n].redriveCount
        /\ row'[n].status = "PENDING" => row[n].status = "PENDING"
    BY <1>0, <1>1, StatusAfter, RedrivesAfter DEF FailCapped, Commit, Update
  <2>2. PICK S : done' = Log(done, S, "REDRIVEN_FROM_STUCK")
    BY <1>1 DEF FailCapped
  <2>3. /\ done'[n]["CLAIMED_BY_TICK"] = done[n]["CLAIMED_BY_TICK"]
        /\ done'[n]["CREATED"] = done[n]["CREATED"]
        /\ done'[n]["MANUAL_RETRY"] = done[n]["MANUAL_RETRY"]
    BY <1>b, <2>2
  <2> QED BY <1>0, <1>e, <2>1, <2>3 DEF Stay
<1>2. ASSUME NEW t \in Tickers, RecoverStuck(t)
      PROVE  Stay(n)'
  <2>1. \/ row'[n] = row[n]
        \/ /\ row'[n].redriveCount = row[n].redriveCount + 1
           /\ row[n].status # "PENDING"
    BY <1>0, <1>2, RedrivesAfter
    DEF RecoverStuck, Commit, Update, Eligible, Stuck, InStatus
  <2>2. PICK S : done' = Log(done, S, "REDRIVEN_FROM_STUCK")
    BY <1>2 DEF RecoverStuck
  <2>3. /\ done'[n]["CLAIMED_BY_TICK"] = done[n]["CLAIMED_BY_TICK"]
        /\ done'[n]["CREATED"] = done[n]["CREATED"]
        /\ done'[n]["MANUAL_RETRY"] = done[n]["MANUAL_RETRY"]
    BY <1>b, <2>2
  <2> QED BY <1>0, <1>e, <2>1, <2>3 DEF Stay
<1>3. ASSUME NEW t \in Tickers, NEW locked \in SUBSET Lockable,
             Claim(t, locked)
      PROVE  Stay(n)'
  <2> DEFINE batch == Oldest((Claimable \cap due) \ locked, BatchSize)
  <2>1. n \in batch => row[n].status = "PENDING"
    BY DEF Oldest, Claimable, InStatus
  <2>2. /\ row' = Update(batch, Claimed)
        /\ done' = Log(done, batch, "CLAIMED_BY_TICK")
    BY <1>3 DEF Claim, Commit
  <2> HIDE DEF batch
  <2>3. /\ done'[n]["CREATED"] = done[n]["CREATED"]
        /\ done'[n]["MANUAL_RETRY"] = done[n]["MANUAL_RETRY"]
        /\ done'[n]["CLAIMED_BY_TICK"] = IF n \in batch
              THEN done[n]["CLAIMED_BY_TICK"] + 1 ELSE done[n]["CLAIMED_BY_TICK"]
    BY <1>0, <1>e, <2>2, LogValue
  <2>4. /\ row'[n].redriveCount = row[n].redriveCount
        /\ row'[n].status = IF n \in batch THEN "PROCESSING" ELSE row[n].status
    BY <1>0, <2>2, StatusAfter, RedrivesAfter DEF Update
  <2> QED BY <1>0, <1>e, <2>1, <2>3, <2>4 DEF Stay
<1>4. ASSUME NEW h \in Handlers, RecordSent(h)
      PROVE  Stay(n)'
  <2>1. /\ row'[n].redriveCount = row[n].redriveCount
        /\ row'[n].status = "PENDING" => row[n].status = "PENDING"
    BY <1>0, <1>4, StatusAfter, RedrivesAfter DEF RecordSent, Commit, Update
  <2>2. PICK S : done' = Log(done, S, "PUSH_SENT")
    BY <1>4 DEF RecordSent
  <2>3. /\ done'[n]["CLAIMED_BY_TICK"] = done[n]["CLAIMED_BY_TICK"]
        /\ done'[n]["CREATED"] = done[n]["CREATED"]
        /\ done'[n]["MANUAL_RETRY"] = done[n]["MANUAL_RETRY"]
    BY <1>b, <2>2
  <2> QED BY <1>0, <1>e, <2>1, <2>3 DEF Stay
<1>5. ASSUME NEW h \in Handlers, RecordFailure(h)
      PROVE  Stay(n)'
  <2>1. /\ row'[n].redriveCount = row[n].redriveCount
        /\ row'[n].status = "PENDING" => row[n].status = "PENDING"
    BY <1>0, <1>5, StatusAfter, RedrivesAfter DEF RecordFailure, Commit, Update
  <2>2. PICK S : done' = Log(done, S, "PUSH_ATTEMPT")
    BY <1>5 DEF RecordFailure
  <2>3. /\ done'[n]["CLAIMED_BY_TICK"] = done[n]["CLAIMED_BY_TICK"]
        /\ done'[n]["CREATED"] = done[n]["CREATED"]
        /\ done'[n]["MANUAL_RETRY"] = done[n]["MANUAL_RETRY"]
    BY <1>b, <2>2
  <2> QED BY <1>0, <1>e, <2>1, <2>3 DEF Stay
<1>6. ASSUME NEW m \in Rows, Ingest(m) \/ ManualRetry(m)
      PROVE  Stay(n)'
  <2>1. CASE m # n
    <3>1. row'[n] = row[n]
      BY <1>0, <1>6, <2>1 DEF Ingest, ManualRetry, Commit, Update
    <3>2. \A e \in Events : done'[n][e] = done[n][e]
      BY <1>0, <1>e, <1>6, <2>1, LogValue DEF Ingest, ManualRetry
    <3> QED BY <1>e, <3>1, <3>2 DEF Stay
  <2>2. CASE m = n
    <3>1. /\ row[n].status # "PENDING"
          /\ row'[n].redriveCount = row[n].redriveCount
      BY <1>0, <1>6, <2>2, RedrivesAfter
      DEF Ingest, ManualRetry, Commit, Update
    <3>2. /\ done'[n]["CLAIMED_BY_TICK"] = done[n]["CLAIMED_BY_TICK"]
          /\ done'[n]["CREATED"] + done'[n]["MANUAL_RETRY"]
               = done[n]["CREATED"] + done[n]["MANUAL_RETRY"] + 1
      <4>1. PICK x \in {"CREATED", "MANUAL_RETRY"} : done' = Log(done, {n}, x)
        BY <1>6, <2>2 DEF Ingest, ManualRetry
      <4>2. \A e \in Events :
              done'[n][e] = IF n \in {n} /\ e = x THEN done[n][e] + 1 ELSE done[n][e]
        BY <1>0, <1>e, <4>1, LogValue
      <4> DEFINE Now(e) == done'[n][e]  Was(e) == done[n][e]
      <4>3. \A e \in Events : Now(e) = IF e = x THEN Was(e) + 1 ELSE Was(e)
        BY <4>2
      <4>4. \A e \in Events : Was(e) \in Nat
        BY <1>0
      <4> HIDE DEF Now, Was
      <4>5. /\ Now("CLAIMED_BY_TICK") = Was("CLAIMED_BY_TICK")
            /\ Now("CREATED") + Now("MANUAL_RETRY")
                 = Was("CREATED") + Was("MANUAL_RETRY") + 1
        BY <1>e, <4>1, <4>3, <4>4
      <4> QED BY <4>5 DEF Now, Was
    <3>3. \A e \in Events : done'[n][e] \in Nat
      BY DEF TypeOK
    <3> QED BY <1>0, <1>e, <3>1, <3>2, <3>3 DEF Stay
  <2> QED BY <2>1, <2>2
<1>7. ASSUME NEW m \in Rows, Age(m)
      PROVE  Stay(n)'
  <2>1. /\ row'[n].redriveCount = row[n].redriveCount
        /\ row'[n].status = row[n].status
    BY <1>0, <1>7 DEF Age, Row
  <2> QED BY <1>a, <1>7, <2>1 DEF Age
<1>8. CASE row' = row /\ done' = done
  BY <1>a, <1>8
<1>9. ASSUME NEW t \in Tickers, TickStep(t)
      PROVE  Stay(n)'
  BY <1>1, <1>2, <1>3, <1>8, <1>9
  DEF TickStep, AppendRedriven, AppendClaimed, PublishPush
<1>10. ASSUME NEW h \in Handlers, HandlerStep(h)
       PROVE  Stay(n)'
  BY <1>4, <1>5, <1>8, <1>10 DEF HandlerStep, Send, PublishRetry, Ack
<1>11. ASSUME NEW m \in Rows, RowStep(m)
       PROVE  Stay(n)'
  BY <1>6, <1>7, <1>8, <1>11
  DEF RowStep, BecomeDue, ExpireRetry, AppendManualRetry
<1>12. CASE Replay \/ FaultStep \/ UNCHANGED vars
            \/ \E h \in Handlers, m \in Rows : Deliver(h, m)
  BY <1>8, <1>12 DEF Replay, vars, Deliver, FaultStep, ConfirmLost, PushConfirmLost,
                    RetryConfirmLost, TickDies, AdminDies,
                     LookupThrow, HandlerCrash, LoseChannel, HandlerThrow
<1> QED BY <1>9, <1>10, <1>11, <1>12 DEF Next

(* However many replicas tick, a stay in PENDING is claimed at most once.    *)
THEOREM ClaimsAreExclusive == Spec => []ClaimedOncePerStay
<1>1. Init => \A n \in Rows : Stay(n)
  BY DEF Init, NoRow, Stay, Events
<1>2. TypeOK /\ TypeOK' /\ (\A n \in Rows : Stay(n)) /\ [Next]_vars
        => (\A n \in Rows : Stay(n))'
  BY StayInductive
<1>3. (\A n \in Rows : Stay(n)) => ClaimedOncePerStay
  BY DEF Stay, ClaimedOncePerStay
<1> QED BY <1>1, <1>2, <1>3, TypeCorrect, PTL DEF Spec

-----------------------------------------------------------------------------
(* Counting actors *)

Counts(x, S) == IF x \in S THEN 1 ELSE 0

(* A set of actors in which only x may have come or gone.                    *)
LEMMA CountEdited ==
  ASSUME NEW S, NEW T, NEW x, IsFiniteSet(S), IsFiniteSet(T), S \ {x} = T \ {x}
  PROVE  /\ Cardinality(S) \in Nat /\ Cardinality(T) \in Nat
         /\ Cardinality(T) + Counts(x, S) = Cardinality(S) + Counts(x, T)
<1>1. Cardinality(S) \in Nat /\ Cardinality(T) \in Nat
  BY FS_CardinalityType
<1>2. Cardinality(S \ {x}) = IF x \in S THEN Cardinality(S) - 1 ELSE Cardinality(S)
  BY FS_RemoveElement
<1>3. Cardinality(T \ {x}) = IF x \in T THEN Cardinality(T) - 1 ELSE Cardinality(T)
  BY FS_RemoveElement
<1>4. Cardinality(S \ {x}) + Counts(x, S) = Cardinality(S)
  BY <1>1, <1>2 DEF Counts
<1>5. Cardinality(S \ {x}) + Counts(x, T) = Cardinality(T)
  BY <1>1, <1>3 DEF Counts
<1>6. Cardinality(S \ {x}) \in Int /\ Counts(x, S) \in Int /\ Counts(x, T) \in Int
  BY <1>1, <1>2 DEF Counts
<1> QED BY <1>1, <1>4, <1>5, <1>6

\* Handlers and tickers that still have a delivery of n to make.
Sending(n) == {h \in Handlers : handler[h].pc \in {"send", "record", "retry"}
                                /\ handler[h].msg = n}
Publishing(n) == {t \in Tickers : tick[t].pc \in {"claimed", "publish"}
                                  /\ n \in tick[t].claimed}
\* Tickers that still have an entry of n to write: one per statement.
Failing(n) == {t \in Tickers : tick[t].pc \in {"recover", "redriven"}
                               /\ n \in tick[t].failed}
Redriving(n) == {t \in Tickers : tick[t].pc = "redriven" /\ n \in tick[t].recovered}
Claiming(n) == {t \in Tickers : tick[t].pc = "claimed" /\ n \in tick[t].claimed}

(* A step of one handler changes the count by that handler alone.            *)
LEMMA CountHandler ==
  ASSUME NEW h \in Handlers, NEW n,
         \A g \in Handlers \ {h} : handler'[g] = handler[g]
  PROVE  /\ Cardinality(Sending(n)) \in Nat /\ Cardinality(Sending(n)') \in Nat
         /\ Cardinality(Sending(n)') + Counts(h, Sending(n))
              = Cardinality(Sending(n)) + Counts(h, Sending(n)')
<1>1. Sending(n) \subseteq Handlers /\ Sending(n)' \subseteq Handlers
  BY DEF Sending
<1>2. IsFiniteSet(Sending(n)) /\ IsFiniteSet(Sending(n)')
  BY <1>1, ActorsAssumption, FS_Subset
<1>3. Sending(n) \ {h} = Sending(n)' \ {h}
  BY DEF Sending
<1> QED BY <1>2, <1>3, CountEdited

(* So does a step of one ticker, in each of its parts.                       *)
LEMMA CountTicker ==
  ASSUME NEW t \in Tickers, NEW n,
         \A s \in Tickers \ {t} : tick'[s] = tick[s]
  PROVE  /\ Cardinality(Publishing(n)) \in Nat /\ Cardinality(Publishing(n)') \in Nat
         /\ Cardinality(Failing(n)) \in Nat /\ Cardinality(Failing(n)') \in Nat
         /\ Cardinality(Redriving(n)) \in Nat /\ Cardinality(Redriving(n)') \in Nat
         /\ Cardinality(Claiming(n)) \in Nat /\ Cardinality(Claiming(n)') \in Nat
         /\ Cardinality(Publishing(n)') + Counts(t, Publishing(n))
              = Cardinality(Publishing(n)) + Counts(t, Publishing(n)')
         /\ Cardinality(Failing(n)') + Counts(t, Failing(n))
              = Cardinality(Failing(n)) + Counts(t, Failing(n)')
         /\ Cardinality(Redriving(n)') + Counts(t, Redriving(n))
              = Cardinality(Redriving(n)) + Counts(t, Redriving(n)')
         /\ Cardinality(Claiming(n)') + Counts(t, Claiming(n))
              = Cardinality(Claiming(n)) + Counts(t, Claiming(n)')
<1>1. ASSUME NEW S, NEW T, S \subseteq Tickers, T \subseteq Tickers, S \ {t} = T \ {t}
      PROVE  /\ Cardinality(S) \in Nat /\ Cardinality(T) \in Nat
             /\ Cardinality(T) + Counts(t, S) = Cardinality(S) + Counts(t, T)
  <2>1. IsFiniteSet(S) /\ IsFiniteSet(T)
    BY <1>1, ActorsAssumption, FS_Subset
  <2> QED BY <1>1, <2>1, CountEdited
<1>2. /\ Publishing(n) \subseteq Tickers /\ Publishing(n)' \subseteq Tickers
      /\ Publishing(n) \ {t} = Publishing(n)' \ {t}
  BY DEF Publishing
<1>3. /\ Failing(n) \subseteq Tickers /\ Failing(n)' \subseteq Tickers
      /\ Failing(n) \ {t} = Failing(n)' \ {t}
  BY DEF Failing
<1>4. /\ Redriving(n) \subseteq Tickers /\ Redriving(n)' \subseteq Tickers
      /\ Redriving(n) \ {t} = Redriving(n)' \ {t}
  BY DEF Redriving
<1>5. /\ Claiming(n) \subseteq Tickers /\ Claiming(n)' \subseteq Tickers
      /\ Claiming(n) \ {t} = Claiming(n)' \ {t}
  BY DEF Claiming
<1>6. /\ Cardinality(Publishing(n)) \in Nat /\ Cardinality(Publishing(n)') \in Nat
      /\ Cardinality(Publishing(n)') + Counts(t, Publishing(n))
           = Cardinality(Publishing(n)) + Counts(t, Publishing(n)')
  BY <1>1, <1>2
<1>7. /\ Cardinality(Failing(n)) \in Nat /\ Cardinality(Failing(n)') \in Nat
      /\ Cardinality(Failing(n)') + Counts(t, Failing(n))
           = Cardinality(Failing(n)) + Counts(t, Failing(n)')
  BY <1>1, <1>3
<1>8. /\ Cardinality(Redriving(n)) \in Nat /\ Cardinality(Redriving(n)') \in Nat
      /\ Cardinality(Redriving(n)') + Counts(t, Redriving(n))
           = Cardinality(Redriving(n)) + Counts(t, Redriving(n)')
  BY <1>1, <1>4
<1>9. /\ Cardinality(Claiming(n)) \in Nat /\ Cardinality(Claiming(n)') \in Nat
      /\ Cardinality(Claiming(n)') + Counts(t, Claiming(n))
           = Cardinality(Claiming(n)) + Counts(t, Claiming(n)')
  BY <1>1, <1>5
<1> QED BY <1>6, <1>7, <1>8, <1>9

(* Where each step of a tick leaves its ticker.                              *)
LEMMA TickerAfter ==
  ASSUME TypeOK, NEW t \in Tickers
  PROVE  /\ FailCapped(t) =>
              /\ tick[t].pc = "idle"
              /\ tick'[t].pc = "recover" /\ tick'[t].failed = Capped
         /\ RecoverStuck(t) =>
              /\ tick[t].pc = "recover"
              /\ tick'[t].failed = tick[t].failed /\ tick'[t].recovered = Eligible
              /\ \/ tick'[t].pc = "redriven"
                 \/ tick'[t].pc = "claim" /\ tick[t].failed = {} /\ Eligible = {}
         /\ AppendRedriven(t) =>
              tick[t].pc = "redriven" /\ tick'[t].pc = "claim"
         /\ AppendClaimed(t) =>
              /\ tick[t].pc = "claimed" /\ tick'[t].pc = "publish"
              /\ tick'[t].claimed = tick[t].claimed
         /\ \A n \in Rows : PublishPush(t, n) =>
              /\ tick[t].pc = "publish" /\ n \in tick[t].claimed
              /\ \/ tick'[t].pc = "idle" /\ tick[t].claimed = {n}
                 \/ tick'[t].pc = "publish" /\ tick'[t].claimed = tick[t].claimed \ {n}
         /\ TickDies(t) => tick'[t].pc = "idle"
         /\ TickStep(t) \/ TickDies(t) => \A s \in Tickers \ {t} : tick'[s] = tick[s]
<1>0. tick \in [Tickers -> Tick] /\ tick[t] \in Tick
  BY DEF TypeOK
<1>1. ASSUME FailCapped(t)
      PROVE  /\ tick[t].pc = "idle"
             /\ tick'[t].pc = "recover" /\ tick'[t].failed = Capped
  BY <1>0, <1>1 DEF FailCapped, IdleTick
<1>2. ASSUME RecoverStuck(t)
      PROVE  /\ tick[t].pc = "recover"
             /\ tick'[t].failed = tick[t].failed /\ tick'[t].recovered = Eligible
             /\ \/ tick'[t].pc = "redriven"
                \/ tick'[t].pc = "claim" /\ tick[t].failed = {} /\ Eligible = {}
  <2> DEFINE pc == IF tick[t].failed \cup Eligible = {} THEN "claim" ELSE "redriven"
  <2> DEFINE after == [tick[t] EXCEPT !.recovered = Eligible, !.pc = pc]
  <2>1. tick[t].pc = "recover" /\ tick' = [tick EXCEPT ![t] = after]
    BY <1>0, <1>2 DEF RecoverStuck
  <2>2. tick'[t] = after
    BY <1>0, <2>1
  <2>3. after.failed = tick[t].failed /\ after.recovered = Eligible /\ after.pc = pc
    BY <1>0 DEF Tick
  <2> QED BY <2>1, <2>2, <2>3
<1>3. ASSUME AppendRedriven(t)
      PROVE  tick[t].pc = "redriven" /\ tick'[t].pc = "claim"
  BY <1>0, <1>3 DEF AppendRedriven, IdleTick
<1>4. ASSUME AppendClaimed(t)
      PROVE  /\ tick[t].pc = "claimed" /\ tick'[t].pc = "publish"
             /\ tick'[t].claimed = tick[t].claimed
  BY <1>0, <1>4 DEF AppendClaimed, Tick
<1>5. ASSUME NEW n \in Rows, PublishPush(t, n)
      PROVE  /\ tick[t].pc = "publish" /\ n \in tick[t].claimed
             /\ \/ tick'[t].pc = "idle" /\ tick[t].claimed = {n}
                \/ tick'[t].pc = "publish" /\ tick'[t].claimed = tick[t].claimed \ {n}
  BY <1>0, <1>5 DEF PublishPush, IdleTick, Tick
<1>6. ASSUME TickDies(t) PROVE tick'[t].pc = "idle"
  BY <1>0, <1>6 DEF TickDies, IdleTick
<1>7. ASSUME TickStep(t) \/ TickDies(t), NEW s \in Tickers \ {t} PROVE tick'[s] = tick[s]
  BY <1>0, <1>7 DEF TickStep, TickDies, FailCapped, RecoverStuck, AppendRedriven,
     Claim, AppendClaimed, PublishPush
<1> QED BY <1>1, <1>2, <1>3, <1>4, <1>5, <1>6, <1>7

(* A claim stamps a batch, which its tick then has in hand.                   *)
LEMMA ClaimAfter ==
  ASSUME TypeOK, NEW t \in Tickers, NEW locked, Claim(t, locked)
  PROVE  \E batch \in SUBSET Rows :
           /\ tick[t].pc = "claim"
           /\ row' = Update(batch, Claimed)
           /\ done' = Log(done, batch, "CLAIMED_BY_TICK")
           /\ \/ batch = {} /\ tick'[t].pc = "idle"
              \/ tick'[t].pc = "claimed" /\ tick'[t].claimed = batch
<1> DEFINE batch == Oldest((Claimable \cap due) \ locked, BatchSize)
<1>1. batch \in SUBSET Rows
  BY DEF Oldest, Claimable, InStatus
<1>2. /\ tick[t].pc = "claim"
      /\ row' = Update(batch, Claimed)
      /\ done' = Log(done, batch, "CLAIMED_BY_TICK")
      /\ tick' = [tick EXCEPT ![t] =
                    IF batch = {} THEN IdleTick
                    ELSE [IdleTick EXCEPT !.pc = "claimed", !.claimed = batch]]
  BY DEF Claim, Commit
<1> HIDE DEF batch
<1>3. tick \in [Tickers -> Tick]
  BY DEF TypeOK
<1>4. \/ batch = {} /\ tick'[t].pc = "idle"
      \/ tick'[t].pc = "claimed" /\ tick'[t].claimed = batch
  BY <1>2, <1>3 DEF IdleTick
<1> QED BY <1>1, <1>2, <1>4

(* Where each step of a push-send handler leaves it.                         *)
LEMMA HandlerAfter ==
  ASSUME TypeOK, NEW h \in Handlers
  PROVE  /\ \A n \in Rows : Deliver(h, n) =>
              /\ handler[h].pc = "idle"
              /\ \/ Sendable(n) /\ handler'[h].pc = "send" /\ handler'[h].msg = n
                 \/ ~Sendable(n) /\ handler'[h].pc = "idle"
         /\ (\E ok, taken \in BOOLEAN : Send(h, ok, taken)) =>
              /\ handler[h].pc = "send" /\ handler'[h].pc = "record"
              /\ handler'[h].msg = handler[h].msg
         /\ RecordSent(h) => handler[h].pc = "record" /\ handler'[h].pc = "ack"
         /\ RecordFailure(h) =>
              /\ handler[h].pc = "record"
              /\ handler'[h].msg = handler[h].msg
              /\ handler'[h].pc = IF Attempted(row[handler[h].msg]).attempts >= MaxAttempts
                                  THEN "ack" ELSE "retry"
         /\ PublishRetry(h) => handler[h].pc = "retry" /\ handler'[h].pc = "ack"
         /\ Ack(h) => handler[h].pc = "ack" /\ handler'[h].pc = "idle"
         /\ HandlerCrash(h) \/ HandlerThrow(h) => handler'[h].pc = "idle"
         /\ LoseChannel(h) =>
              handler'[h].pc = handler[h].pc /\ handler'[h].msg = handler[h].msg
<1>0. handler \in [Handlers -> Busy \cup {IdleHandler}]
  BY DEF TypeOK
<1>1. ASSUME NEW n \in Rows, Deliver(h, n)
      PROVE  /\ handler[h].pc = "idle"
             /\ \/ Sendable(n) /\ handler'[h].pc = "send" /\ handler'[h].msg = n
                \/ ~Sendable(n) /\ handler'[h].pc = "idle"
  BY <1>0, <1>1 DEF Deliver, IdleHandler
<1>2. ASSUME NEW ok \in BOOLEAN, NEW taken \in BOOLEAN, Send(h, ok, taken)
      PROVE  /\ handler[h].pc = "send" /\ handler'[h].pc = "record"
             /\ handler'[h].msg = handler[h].msg
  <2>1. handler[h] \in Busy
    BY <1>2, BusyHandler DEF Send
  <2> QED BY <1>0, <1>2, <2>1 DEF Send, Busy
<1>3. ASSUME RecordSent(h)
      PROVE  handler[h].pc = "record" /\ handler'[h].pc = "ack"
  <2>1. handler[h] \in Busy
    BY <1>3, BusyHandler DEF RecordSent
  <2> QED BY <1>0, <1>3, <2>1 DEF RecordSent, Busy
<1>4. ASSUME RecordFailure(h)
      PROVE  /\ handler[h].pc = "record"
             /\ handler'[h].msg = handler[h].msg
             /\ handler'[h].pc = IF Attempted(row[handler[h].msg]).attempts >= MaxAttempts
                                 THEN "ack" ELSE "retry"
  <2> DEFINE pc == IF Attempted(row[handler[h].msg]).attempts >= MaxAttempts
                   THEN "ack" ELSE "retry"
  <2>1. handler[h] \in Busy
    BY <1>4, BusyHandler DEF RecordFailure
  <2>2. handler[h].pc = "record" /\ handler' = [handler EXCEPT ![h].pc = pc]
    BY <1>4 DEF RecordFailure
  <2> HIDE DEF pc
  <2>3. handler'[h].msg = handler[h].msg /\ handler'[h].pc = pc
    BY <1>0, <2>1, <2>2 DEF Busy
  <2> QED BY <2>2, <2>3 DEF pc
<1>5. ASSUME PublishRetry(h)
      PROVE  handler[h].pc = "retry" /\ handler'[h].pc = "ack"
  <2>1. handler[h] \in Busy
    BY <1>5, BusyHandler DEF PublishRetry
  <2> QED BY <1>0, <1>5, <2>1 DEF PublishRetry, Busy
<1>6. ASSUME Ack(h) PROVE handler[h].pc = "ack" /\ handler'[h].pc = "idle"
  BY <1>0, <1>6 DEF Ack, IdleHandler
<1>7. ASSUME HandlerCrash(h) \/ HandlerThrow(h) PROVE handler'[h].pc = "idle"
  BY <1>0, <1>7 DEF HandlerCrash, HandlerThrow, IdleHandler
<1>8. ASSUME LoseChannel(h)
      PROVE  handler'[h].pc = handler[h].pc /\ handler'[h].msg = handler[h].msg
  <2>1. handler[h] \in Busy
    BY <1>0, <1>8 DEF LoseChannel
  <2> QED BY <1>0, <1>8, <2>1 DEF LoseChannel, Busy
<1> QED BY <1>1, <1>2, <1>3, <1>4, <1>5, <1>6, <1>7, <1>8

(* A handler's step is no other handler's business.                           *)
LEMMA OtherHandlers ==
  ASSUME TypeOK, NEW h \in Handlers, NEW g \in Handlers \ {h},
         \/ HandlerStep(h) \/ \E n \in Rows : Deliver(h, n)
         \/ HandlerCrash(h) \/ LoseChannel(h) \/ HandlerThrow(h)
  PROVE  handler'[g] = handler[g]
<1>0. handler \in [Handlers -> Busy \cup {IdleHandler}]
  BY DEF TypeOK
<1> QED BY <1>0 DEF HandlerStep, Send, RecordSent, RecordFailure, PublishRetry, Ack,
        Deliver, HandlerCrash, LoseChannel, HandlerThrow

-----------------------------------------------------------------------------
(* Deliveries never multiply *)

ChainsPaid(n) == Chains(n) <= done[n]["CLAIMED_BY_TICK"] + faults

\* What ChainsPaid counts.
ChainParts(n) ==
  work[n] + retry[n] + Cardinality(Sending(n)) + Cardinality(Publishing(n))

(* Only a claim is logged as one.                                            *)
LEMMA ClaimsLogged ==
  ASSUME TypeOK, NEW n \in Rows, NEW S,
         \/ done' = done
         \/ \E e \in Events : e # "CLAIMED_BY_TICK" /\ done' = Log(done, S, e)
  PROVE  done'[n]["CLAIMED_BY_TICK"] = done[n]["CLAIMED_BY_TICK"]
<1>1. done \in [Rows -> [Events -> Nat]] /\ "CLAIMED_BY_TICK" \in Events
  BY DEF TypeOK, Events
<1> QED BY <1>1, LogValue

(* The account of one step: what it adds to a row's deliveries it has paid   *)
(* with a claim or a fault.                                                  *)
LEMMA ChainsStep ==
  ASSUME TypeOK, TypeOK', NEW n \in Rows, ChainsPaid(n),
         Cardinality(Sending(n)) \in Nat, Cardinality(Publishing(n)) \in Nat,
         Cardinality(Sending(n)') \in Nat, Cardinality(Publishing(n)') \in Nat,
         ChainParts(n)' + done[n]["CLAIMED_BY_TICK"] + faults
           <= ChainParts(n) + done'[n]["CLAIMED_BY_TICK"] + faults'
  PROVE  ChainsPaid(n)'
<1>1. Chains(n) = ChainParts(n) /\ Chains(n)' = ChainParts(n)'
  BY DEF Chains, ChainParts, Sending, Publishing
<1>2. /\ work[n] \in Nat /\ retry[n] \in Nat /\ work'[n] \in Nat /\ retry'[n] \in Nat
      /\ done[n]["CLAIMED_BY_TICK"] \in Nat /\ done'[n]["CLAIMED_BY_TICK"] \in Nat
      /\ faults \in Nat /\ faults' \in Nat
  BY DEF TypeOK, Events
<1>3. ChainParts(n) \in Nat /\ ChainParts(n)' \in Nat
  BY <1>2 DEF ChainParts
<1>4. ChainParts(n) <= done[n]["CLAIMED_BY_TICK"] + faults
  BY <1>1 DEF ChainsPaid
<1>5. ChainParts(n)' <= done'[n]["CLAIMED_BY_TICK"] + faults'
  BY <1>2, <1>3, <1>4
<1> QED BY <1>1, <1>5 DEF ChainsPaid

(* While no handler moves, the same deliveries are going to be sent.          *)
LEMMA SameHandlers ==
  ASSUME handler' = handler, NEW n
  PROVE  Sending(n)' = Sending(n) /\ Cardinality(Sending(n)) \in Nat
<1>1. Sending(n) \subseteq Handlers
  BY DEF Sending
<1>2. IsFiniteSet(Sending(n))
  BY <1>1, ActorsAssumption, FS_Subset
<1> QED BY <1>2, FS_CardinalityType DEF Sending

(* While no tick moves, the ticks have the same work in hand.                 *)
LEMMA SameTickers ==
  ASSUME tick' = tick, NEW n
  PROVE  /\ Publishing(n)' = Publishing(n) /\ Cardinality(Publishing(n)) \in Nat
         /\ Failing(n)' = Failing(n) /\ Cardinality(Failing(n)) \in Nat
         /\ Redriving(n)' = Redriving(n) /\ Cardinality(Redriving(n)) \in Nat
         /\ Claiming(n)' = Claiming(n) /\ Cardinality(Claiming(n)) \in Nat
<1>1. /\ Publishing(n) \subseteq Tickers /\ Failing(n) \subseteq Tickers
      /\ Redriving(n) \subseteq Tickers /\ Claiming(n) \subseteq Tickers
  BY DEF Publishing, Failing, Redriving, Claiming
<1>2. \A S \in SUBSET Tickers : Cardinality(S) \in Nat
  BY ActorsAssumption, FS_Subset, FS_CardinalityType
<1> QED BY <1>1, <1>2 DEF Publishing, Failing, Redriving, Claiming

(* The quantities of the account are numbers.                                *)
LEMMA ChainNumbers ==
  ASSUME TypeOK, NEW n \in Rows
  PROVE  /\ work[n] \in Nat /\ retry[n] \in Nat /\ faults \in Nat
         /\ done[n]["CLAIMED_BY_TICK"] \in Nat
  BY DEF TypeOK, Events

(* A tick begins a chain only with a claim, which pays for it.                *)
LEMMA ChainsTick ==
  ASSUME TypeOK, TypeOK', NEW n \in Rows, ChainsPaid(n), NEW t \in Tickers,
         TickStep(t) \/ TickDies(t)
  PROVE  ChainsPaid(n)'
<1>0. /\ Cardinality(Publishing(n)) \in Nat /\ Cardinality(Publishing(n)') \in Nat
      /\ Cardinality(Publishing(n)') + Counts(t, Publishing(n))
           = Cardinality(Publishing(n)) + Counts(t, Publishing(n)')
  BY TickerAfter, CountTicker
<1>1. handler' = handler /\ retry' = retry
  BY DEF TickStep, TickDies, FailCapped, RecoverStuck, AppendRedriven, Claim,
         AppendClaimed, PublishPush
<1>2. Sending(n)' = Sending(n) /\ Cardinality(Sending(n)) \in Nat
  BY <1>1, SameHandlers
<1>3. /\ work[n] \in Nat /\ retry[n] \in Nat /\ faults \in Nat
      /\ done[n]["CLAIMED_BY_TICK"] \in Nat
  BY ChainNumbers
<1>4. ASSUME ~(t \in Publishing(n)' /\ t \notin Publishing(n)), work'[n] = work[n],
             done'[n]["CLAIMED_BY_TICK"] = done[n]["CLAIMED_BY_TICK"],
             faults' = faults \/ faults' = faults + 1
      PROVE  ChainsPaid(n)'
  <2>1. Cardinality(Publishing(n)') <= Cardinality(Publishing(n))
    BY <1>0, <1>4 DEF Counts
  <2>2. ChainParts(n)' <= ChainParts(n)
    BY <1>0, <1>1, <1>2, <1>3, <1>4, <2>1 DEF ChainParts
  <2>3. ChainParts(n) \in Nat /\ ChainParts(n)' \in Nat
    BY <1>0, <1>1, <1>2, <1>3, <1>4 DEF ChainParts
  <2>4. ChainParts(n)' + done[n]["CLAIMED_BY_TICK"] + faults
           <= ChainParts(n) + done'[n]["CLAIMED_BY_TICK"] + faults'
    BY <1>3, <1>4, <2>2, <2>3
  <2> QED BY <1>0, <1>2, <2>4, ChainsStep
<1>5. ASSUME FailCapped(t) \/ RecoverStuck(t) \/ AppendRedriven(t) \/ AppendClaimed(t)
             \/ TickDies(t)
      PROVE  ChainsPaid(n)'
  <2>1. ~(t \in Publishing(n)' /\ t \notin Publishing(n))
    BY <1>5, TickerAfter DEF Publishing
  <2>2. work' = work /\ (faults' = faults \/ faults' = faults + 1)
    BY <1>5 DEF FailCapped, RecoverStuck, AppendRedriven, AppendClaimed, TickDies, Fault
  <2>3. done'[n]["CLAIMED_BY_TICK"] = done[n]["CLAIMED_BY_TICK"]
    <3>1. \/ done' = done
          \/ \E S : done' = Log(done, S, "REDRIVEN_FROM_STUCK")
      BY <1>5 DEF FailCapped, RecoverStuck, AppendRedriven, AppendClaimed, TickDies
    <3>2. "REDRIVEN_FROM_STUCK" \in Events
      BY DEF Events
    <3> QED BY <3>1, <3>2, ClaimsLogged
  <2> QED BY <1>4, <2>1, <2>2, <2>3
<1>6. ASSUME NEW locked, Claim(t, locked)
      PROVE  ChainsPaid(n)'
  <2>1. PICK batch \in SUBSET Rows :
           /\ tick[t].pc = "claim"
           /\ done' = Log(done, batch, "CLAIMED_BY_TICK")
           /\ \/ batch = {} /\ tick'[t].pc = "idle"
              \/ tick'[t].pc = "claimed" /\ tick'[t].claimed = batch
    BY <1>6, ClaimAfter
  <2>2. done \in [Rows -> [Events -> Nat]] /\ "CLAIMED_BY_TICK" \in Events
    BY DEF TypeOK, Events
  <2>3. done'[n]["CLAIMED_BY_TICK"] = done[n]["CLAIMED_BY_TICK"] + Counts(n, batch)
    BY <1>3, <2>1, <2>2, LogValue DEF Counts
  <2>4. work' = work /\ faults' = faults
    BY <1>6 DEF Claim
  <2>5. Counts(t, Publishing(n)) = 0 /\ Counts(t, Publishing(n)') = Counts(n, batch)
    BY <2>1 DEF Publishing, Counts
  <2>6. Counts(n, batch) \in Nat
    BY DEF Counts
  <2>7. Cardinality(Publishing(n)') = Cardinality(Publishing(n)) + Counts(n, batch)
    BY <1>0, <2>5, <2>6
  <2>8. ChainParts(n)' = ChainParts(n) + Counts(n, batch) /\ ChainParts(n) \in Nat
    BY <1>0, <1>1, <1>2, <1>3, <2>4, <2>6, <2>7 DEF ChainParts
  <2>9. ChainParts(n)' + done[n]["CLAIMED_BY_TICK"] + faults
           <= ChainParts(n) + done'[n]["CLAIMED_BY_TICK"] + faults'
    BY <1>3, <2>3, <2>4, <2>6, <2>8
  <2> QED BY <1>0, <1>2, <2>9, ChainsStep
<1>7. ASSUME NEW m \in Rows, PublishPush(t, m)
      PROVE  ChainsPaid(n)'
  <2>1. /\ tick[t].pc = "publish" /\ m \in tick[t].claimed
        /\ \/ tick'[t].pc = "idle" /\ tick[t].claimed = {m}
           \/ tick'[t].pc = "publish" /\ tick'[t].claimed = tick[t].claimed \ {m}
    BY <1>7, TickerAfter
  <2>2. done' = done /\ faults' = faults /\ work' = [work EXCEPT ![m] = work[m] + 1]
    BY <1>7 DEF PublishPush, Enqueue
  <2>3. work \in [Rows -> Nat]
    BY DEF TypeOK
  <2>4. CASE m = n
    <3>1. Counts(t, Publishing(n)) = 1 /\ Counts(t, Publishing(n)') = 0
      BY <2>1, <2>4 DEF Publishing, Counts
    <3>2. work'[n] = work[n] + 1
      BY <2>2, <2>3, <2>4
    <3>3. Cardinality(Publishing(n)') + 1 = Cardinality(Publishing(n))
      BY <1>0, <3>1
    <3>4. ChainParts(n)' = ChainParts(n) /\ ChainParts(n) \in Nat
      BY <1>0, <1>1, <1>2, <1>3, <3>2, <3>3 DEF ChainParts
    <3>5. ChainParts(n)' + done[n]["CLAIMED_BY_TICK"] + faults
           <= ChainParts(n) + done'[n]["CLAIMED_BY_TICK"] + faults'
      BY <1>3, <2>2, <3>4
    <3> QED BY <1>0, <1>2, <3>5, ChainsStep
  <2>5. CASE m # n
    <3>1. ~(t \in Publishing(n)' /\ t \notin Publishing(n))
      BY <2>1, <2>5 DEF Publishing
    <3>2. work'[n] = work[n]
      BY <2>2, <2>3, <2>5
    <3> QED BY <1>4, <2>2, <3>1, <3>2
  <2> QED BY <2>4, <2>5
<1> QED BY <1>5, <1>6, <1>7 DEF TickStep

(* A handler carries a chain on, and a second only for a fault.               *)
LEMMA ChainsHandler ==
  ASSUME TypeOK, TypeOK', NEW n \in Rows, ChainsPaid(n), NEW h \in Handlers,
         \/ HandlerStep(h) \/ \E m \in Rows : Deliver(h, m)
         \/ HandlerCrash(h) \/ LoseChannel(h) \/ HandlerThrow(h)
  PROVE  ChainsPaid(n)'
<1>0. /\ Cardinality(Sending(n)) \in Nat /\ Cardinality(Sending(n)') \in Nat
      /\ Cardinality(Sending(n)') + Counts(h, Sending(n))
           = Cardinality(Sending(n)) + Counts(h, Sending(n)')
  BY OtherHandlers, CountHandler
<1>1. tick' = tick
  BY DEF HandlerStep, Send, RecordSent, RecordFailure, PublishRetry, Ack,
         Deliver, HandlerCrash, LoseChannel, HandlerThrow
<1>2. Publishing(n)' = Publishing(n) /\ Cardinality(Publishing(n)) \in Nat
  BY <1>1, SameTickers
<1>3. /\ work[n] \in Nat /\ retry[n] \in Nat /\ faults \in Nat
      /\ work'[n] \in Nat /\ retry'[n] \in Nat
      /\ done[n]["CLAIMED_BY_TICK"] \in Nat
  BY ChainNumbers DEF TypeOK
<1>4. done'[n]["CLAIMED_BY_TICK"] = done[n]["CLAIMED_BY_TICK"]
  <2>1. \/ done' = done
        \/ \E S : done' = Log(done, S, "PUSH_SENT")
        \/ \E S : done' = Log(done, S, "PUSH_ATTEMPT")
    BY DEF HandlerStep, Send, RecordSent, RecordFailure, PublishRetry, Ack,
           Deliver, HandlerCrash, LoseChannel, HandlerThrow
  <2>2. "PUSH_SENT" \in Events /\ "PUSH_ATTEMPT" \in Events
    BY DEF Events
  <2> QED BY <2>1, <2>2, ClaimsLogged
<1>5. ASSUME NEW paid \in Nat,
             work'[n] + retry'[n] + Counts(h, Sending(n)')
               <= work[n] + retry[n] + Counts(h, Sending(n)) + paid,
             faults' = faults + paid
      PROVE  ChainsPaid(n)'
  <2>1. Counts(h, Sending(n)) \in Nat /\ Counts(h, Sending(n)') \in Nat
    BY DEF Counts
  <2>2. work'[n] + retry'[n] + Cardinality(Sending(n)')
          <= work[n] + retry[n] + Cardinality(Sending(n)) + paid
    BY <1>0, <1>3, <1>5, <2>1
  <2>3. ChainParts(n)' <= ChainParts(n) + paid
    BY <1>0, <1>2, <1>3, <2>2 DEF ChainParts
  <2>4. ChainParts(n) \in Nat /\ ChainParts(n)' \in Nat
    BY <1>0, <1>2, <1>3 DEF ChainParts
  <2>5. ChainParts(n)' + done[n]["CLAIMED_BY_TICK"] + faults
           <= ChainParts(n) + done'[n]["CLAIMED_BY_TICK"] + faults'
    BY <1>3, <1>4, <1>5, <2>3, <2>4
  <2> QED BY <1>0, <1>2, <2>5, ChainsStep
<1>6. work \in [Rows -> Nat] /\ retry \in [Rows -> Nat]
  BY DEF TypeOK
<1>7. ASSUME NEW m \in Rows, Deliver(h, m)
      PROVE  ChainsPaid(n)'
  <2>1. /\ handler[h].pc = "idle"
        /\ \/ handler'[h].pc = "send" /\ handler'[h].msg = m
           \/ handler'[h].pc = "idle"
    BY <1>7, HandlerAfter
  <2>2. /\ work[m] > 0 /\ work' = [work EXCEPT ![m] = work[m] - 1]
        /\ retry' = retry /\ faults' = faults
    BY <1>7 DEF Deliver
  <2>3. CASE m = n
    <3>1. Counts(h, Sending(n)) = 0 /\ Counts(h, Sending(n)') \in {0, 1}
      BY <2>1 DEF Sending, Counts
    <3>2. work'[n] = work[n] - 1
      BY <1>6, <2>2, <2>3
    <3> QED BY <1>3, <1>5, <2>2, <3>1, <3>2
  <2>4. CASE m # n
    <3>1. Counts(h, Sending(n)) = 0 /\ Counts(h, Sending(n)') = 0
      BY <2>1, <2>4 DEF Sending, Counts
    <3>2. work'[n] = work[n]
      BY <1>6, <2>2, <2>4
    <3> QED BY <1>3, <1>5, <2>2, <3>1, <3>2
  <2> QED BY <2>3, <2>4
<1>8. ASSUME \/ \E ok, taken \in BOOLEAN : Send(h, ok, taken)
             \/ RecordSent(h) \/ RecordFailure(h) \/ Ack(h)
      PROVE  ChainsPaid(n)'
  <2>1. Counts(h, Sending(n)') <= Counts(h, Sending(n))
        /\ Counts(h, Sending(n)) \in Nat /\ Counts(h, Sending(n)') \in Nat
    BY <1>8, HandlerAfter DEF Sending, Counts
  <2>2. work' = work /\ retry' = retry /\ faults' = faults
    BY <1>8 DEF Send, RecordSent, RecordFailure, Ack
  <2> QED BY <1>3, <1>5, <2>1, <2>2
<1>9. ASSUME PublishRetry(h)
      PROVE  ChainsPaid(n)'
  <2>1. handler[h].pc = "retry" /\ handler'[h].pc = "ack"
    BY <1>9, HandlerAfter
  <2>2. work' = work /\ faults' = faults /\ retry' = Enqueue(retry, handler[h].msg)
    BY <1>9 DEF PublishRetry
  <2>3. Counts(h, Sending(n)') = 0
    BY <2>1 DEF Sending, Counts
  <2>4. CASE handler[h].msg = n
    <3>1. Counts(h, Sending(n)) = 1
      BY <2>1, <2>4 DEF Sending, Counts
    <3>2. retry'[n] = retry[n] + 1
      BY <1>6, <2>2, <2>4 DEF Enqueue
    <3> QED BY <1>3, <1>5, <2>2, <2>3, <3>1, <3>2
  <2>5. CASE handler[h].msg # n
    <3>1. Counts(h, Sending(n)) = 0
      BY <2>5 DEF Sending, Counts
    <3>2. retry'[n] = retry[n]
      BY <1>6, <2>2, <2>5 DEF Enqueue
    <3> QED BY <1>3, <1>5, <2>2, <2>3, <3>1, <3>2
  <2> QED BY <2>4, <2>5
<1>10. ASSUME HandlerCrash(h) \/ LoseChannel(h)
       PROVE  ChainsPaid(n)'
  <2>1. \/ handler'[h].pc = "idle"
        \/ handler'[h].pc = handler[h].pc /\ handler'[h].msg = handler[h].msg
    BY <1>10, HandlerAfter
  <2>2. Counts(h, Sending(n)') <= Counts(h, Sending(n))
        /\ Counts(h, Sending(n)) \in Nat /\ Counts(h, Sending(n)') \in Nat
    BY <2>1 DEF Sending, Counts
  <2>3. retry' = retry /\ faults' = faults + 1 /\ work' = Requeued(h)
    BY <1>10 DEF HandlerCrash, LoseChannel, Fault
  <2>4. work'[n] <= work[n] + 1
    BY <1>3, <1>6, <2>3 DEF Requeued, Enqueue
  <2> QED BY <1>3, <1>5, <2>2, <2>3, <2>4
<1>11. ASSUME HandlerThrow(h)
       PROVE  ChainsPaid(n)'
  <2>1. handler'[h].pc = "idle"
    BY <1>11, HandlerAfter
  <2>2. Counts(h, Sending(n)') = 0 /\ Counts(h, Sending(n)) \in Nat
    BY <2>1 DEF Sending, Counts
  <2>3. work' = work /\ retry' = retry /\ faults' = faults + 1
    BY <1>11 DEF HandlerThrow, Fault
  <2> QED BY <1>3, <1>5, <2>2, <2>3
<1> QED BY <1>7, <1>8, <1>9, <1>10, <1>11 DEF HandlerStep

(* Nobody else begins a chain.                                                *)
LEMMA ChainsOther ==
  ASSUME TypeOK, TypeOK', NEW n \in Rows, ChainsPaid(n),
         \/ Replay \/ UNCHANGED vars
         \/ \E m \in Rows : RowStep(m) \/ AdminDies(m) \/ LookupThrow(m)
  PROVE  ChainsPaid(n)'
<1>1. handler' = handler /\ tick' = tick
  BY DEF Replay, vars, RowStep, AdminDies, LookupThrow, Ingest, BecomeDue, Age,
         ExpireRetry, ManualRetry, AppendManualRetry
<1>2. /\ Sending(n)' = Sending(n) /\ Cardinality(Sending(n)) \in Nat
      /\ Publishing(n)' = Publishing(n) /\ Cardinality(Publishing(n)) \in Nat
  BY <1>1, SameHandlers, SameTickers
<1>3. /\ work[n] \in Nat /\ retry[n] \in Nat /\ faults \in Nat
      /\ work'[n] \in Nat /\ retry'[n] \in Nat
      /\ done[n]["CLAIMED_BY_TICK"] \in Nat
  BY ChainNumbers DEF TypeOK
<1>4. done'[n]["CLAIMED_BY_TICK"] = done[n]["CLAIMED_BY_TICK"]
  <2>1. \/ done' = done
        \/ \E S : done' = Log(done, S, "CREATED")
        \/ \E S : done' = Log(done, S, "MANUAL_RETRY")
    BY DEF Replay, vars, RowStep, AdminDies, LookupThrow, Ingest, BecomeDue, Age,
         ExpireRetry, ManualRetry, AppendManualRetry
  <2>2. "CREATED" \in Events /\ "MANUAL_RETRY" \in Events
    BY DEF Events
  <2> QED BY <2>1, <2>2, ClaimsLogged
<1>5. faults' = faults \/ faults' = faults + 1
  BY DEF Replay, vars, RowStep, AdminDies, LookupThrow, Ingest, BecomeDue, Age,
         ExpireRetry, ManualRetry, AppendManualRetry, Fault
<1>6. work'[n] + retry'[n] <= work[n] + retry[n]
  <2>0. work \in [Rows -> Nat] /\ retry \in [Rows -> Nat]
    BY DEF TypeOK
  <2>1. ASSUME NEW m \in Rows, ExpireRetry(m)
        PROVE  work'[n] + retry'[n] <= work[n] + retry[n]
    <3>1. CASE m = n
      <4>1. work'[n] = work[n] + 1 /\ retry'[n] = retry[n] - 1
        BY <2>0, <2>1, <3>1 DEF ExpireRetry, Enqueue
      <4> QED BY <1>3, <4>1
    <3>2. CASE m # n
      <4>1. work'[n] = work[n] /\ retry'[n] = retry[n]
        BY <2>0, <2>1, <3>2 DEF ExpireRetry, Enqueue
      <4> QED BY <1>3, <4>1
    <3> QED BY <3>1, <3>2
  <2>2. ASSUME NEW m \in Rows, LookupThrow(m)
        PROVE  work'[n] + retry'[n] <= work[n] + retry[n]
    <3>1. work'[n] <= work[n] /\ retry' = retry
      BY <1>3, <2>0, <2>2 DEF LookupThrow
    <3> QED BY <1>3, <3>1
  <2>3. CASE work' = work /\ retry' = retry
    BY <1>3, <2>3
  <2> QED BY <2>1, <2>2, <2>3 DEF Replay, vars, RowStep, AdminDies, Ingest, BecomeDue,
          Age, ManualRetry, AppendManualRetry
<1>7. ChainParts(n)' <= ChainParts(n)
  BY <1>2, <1>3, <1>6 DEF ChainParts
<1>8. ChainParts(n) \in Nat /\ ChainParts(n)' \in Nat
  BY <1>2, <1>3 DEF ChainParts
<1>9. ChainParts(n)' + done[n]["CLAIMED_BY_TICK"] + faults
           <= ChainParts(n) + done'[n]["CLAIMED_BY_TICK"] + faults'
  BY <1>3, <1>4, <1>5, <1>7, <1>8
<1> QED BY <1>2, <1>9, ChainsStep

(* A lost confirm lengthens one chain by one, and is a fault.                 *)
LEMMA ChainsResent ==
  ASSUME TypeOK, TypeOK', NEW n \in Rows, ChainsPaid(n), ConfirmLost
  PROVE  ChainsPaid(n)'
<1>1. handler' = handler /\ tick' = tick /\ done' = done /\ faults' = faults + 1
  BY LostConfirm DEF actors, audit
<1>2. /\ Sending(n)' = Sending(n) /\ Cardinality(Sending(n)) \in Nat
      /\ Publishing(n)' = Publishing(n) /\ Cardinality(Publishing(n)) \in Nat
  BY <1>1, SameHandlers, SameTickers
<1>3. /\ work \in [Rows -> Nat] /\ retry \in [Rows -> Nat] /\ faults \in Nat
      /\ done[n]["CLAIMED_BY_TICK"] \in Nat
  BY ChainNumbers DEF TypeOK
<1>4. \/ work'[n] <= work[n] + 1 /\ retry'[n] = retry[n]
      \/ retry'[n] <= retry[n] + 1 /\ work'[n] = work[n]
  BY <1>3, LostConfirm DEF Enqueue
<1>5. work'[n] \in Nat /\ retry'[n] \in Nat
  BY DEF TypeOK
<1>6. ChainParts(n)' <= ChainParts(n) + 1
  BY <1>2, <1>3, <1>4, <1>5 DEF ChainParts
<1>7. ChainParts(n) \in Nat /\ ChainParts(n)' \in Nat
  BY <1>2, <1>3, <1>5 DEF ChainParts
<1>8. ChainParts(n)' + done[n]["CLAIMED_BY_TICK"] + faults
           <= ChainParts(n) + done'[n]["CLAIMED_BY_TICK"] + faults'
  BY <1>1, <1>3, <1>6, <1>7
<1> QED BY <1>2, <1>8, ChainsStep

-----------------------------------------------------------------------------
(* The history and the table *)

Ledger(n, e) ==
  /\ history[n][e] + Owed(n, e) <= done[n][e]
  /\ faults = 0 => history[n][e] + Owed(n, e) = done[n][e]

(* What is owed, by kind of event.                                           *)
LEMMA OwedParts ==
  ASSUME NEW n
  PROVE  /\ Owed(n, "REDRIVEN_FROM_STUCK") = Cardinality(Failing(n)) + Cardinality(Redriving(n))
         /\ Owed(n, "CLAIMED_BY_TICK") = Cardinality(Claiming(n))
         /\ Owed(n, "MANUAL_RETRY") = admin[n]
         /\ \A e \in {"CREATED", "PUSH_SENT", "PUSH_ATTEMPT"} : Owed(n, e) = 0
         /\ Owed(n, "REDRIVEN_FROM_STUCK")' = Cardinality(Failing(n)') + Cardinality(Redriving(n)')
         /\ Owed(n, "CLAIMED_BY_TICK")' = Cardinality(Claiming(n)')
         /\ Owed(n, "MANUAL_RETRY")' = admin'[n]
         /\ \A e \in {"CREATED", "PUSH_SENT", "PUSH_ATTEMPT"} : Owed(n, e)' = 0
BY DEF Owed, Failing, Redriving, Claiming

(* A step keeps the ledger when it writes what it owed, or owes what it did, *)
(* or forgets some at the price of a fault.                                  *)
LEMMA LedgerStep ==
  ASSUME TypeOK, TypeOK', NEW n \in Rows, NEW e \in Events, Ledger(n, e),
         Owed(n, e) \in Nat, Owed(n, e)' \in Nat,
         \/ /\ faults' = faults
            /\ history'[n][e] + Owed(n, e)' + done[n][e]
                 = history[n][e] + Owed(n, e) + done'[n][e]
         \/ /\ faults' = faults + 1
            /\ history'[n][e] = history[n][e] /\ done'[n][e] = done[n][e]
            /\ Owed(n, e)' <= Owed(n, e)
  PROVE  Ledger(n, e)'
<1>1. /\ history[n][e] \in Nat /\ history'[n][e] \in Nat
      /\ done[n][e] \in Nat /\ done'[n][e] \in Nat
      /\ faults \in Nat
  BY DEF TypeOK
<1> QED BY <1>1 DEF Ledger

(* The counters of a row change only where a statement names it.             *)
LEMMA Logged ==
  ASSUME TypeOK, NEW n \in Rows, NEW e \in Events
  PROVE  /\ history[n][e] \in Nat /\ done[n][e] \in Nat
         /\ \A S, x : x \in Events /\ history' = Log(history, S, x)
              => history'[n][e] = IF e = x THEN history[n][e] + Counts(n, S)
                                           ELSE history[n][e]
         /\ \A S, x : x \in Events /\ done' = Log(done, S, x)
              => done'[n][e] = IF e = x THEN done[n][e] + Counts(n, S) ELSE done[n][e]
<1>0. history \in [Rows -> [Events -> Nat]] /\ done \in [Rows -> [Events -> Nat]]
  BY DEF TypeOK
<1>1. history[n][e] \in Nat /\ done[n][e] \in Nat
  BY <1>0
<1>2. ASSUME NEW S, NEW x \in Events, history' = Log(history, S, x)
      PROVE  history'[n][e] = IF e = x THEN history[n][e] + Counts(n, S)
                                       ELSE history[n][e]
  BY <1>0, <1>1, <1>2, LogValue DEF Counts
<1>3. ASSUME NEW S, NEW x \in Events, done' = Log(done, S, x)
      PROVE  done'[n][e] = IF e = x THEN done[n][e] + Counts(n, S) ELSE done[n][e]
  BY <1>0, <1>1, <1>3, LogValue DEF Counts
<1> QED BY <1>1, <1>2, <1>3

(* A tick owes the entries of its transitions until it writes them, or dies.  *)
LEMMA LedgerTick ==
  ASSUME TypeOK, TypeOK', NEW n \in Rows, NEW e \in Events, Ledger(n, e),
         NEW t \in Tickers, TickStep(t) \/ TickDies(t)
  PROVE  Ledger(n, e)'
<1> DEFINE R == "REDRIVEN_FROM_STUCK"  C == "CLAIMED_BY_TICK"
<1>0. /\ Cardinality(Failing(n)) \in Nat /\ Cardinality(Failing(n)') \in Nat
      /\ Cardinality(Redriving(n)) \in Nat /\ Cardinality(Redriving(n)') \in Nat
      /\ Cardinality(Claiming(n)) \in Nat /\ Cardinality(Claiming(n)') \in Nat
      /\ Cardinality(Failing(n)') + Counts(t, Failing(n))
           = Cardinality(Failing(n)) + Counts(t, Failing(n)')
      /\ Cardinality(Redriving(n)') + Counts(t, Redriving(n))
           = Cardinality(Redriving(n)) + Counts(t, Redriving(n)')
      /\ Cardinality(Claiming(n)') + Counts(t, Claiming(n))
           = Cardinality(Claiming(n)) + Counts(t, Claiming(n)')
  BY TickerAfter, CountTicker
<1>1. admin' = admin /\ admin[n] \in Nat
  BY DEF TypeOK, TickStep, TickDies, FailCapped, RecoverStuck, AppendRedriven, Claim,
         AppendClaimed, PublishPush
<1>2. R \in Events /\ C \in Events
  BY DEF Events
<1>3. history[n][e] \in Nat /\ done[n][e] \in Nat
  BY Logged
<1>4. \A S : Counts(t, S) \in Nat /\ Counts(n, S) \in Nat
  BY DEF Counts
<1>5. Owed(n, e) \in Nat /\ Owed(n, e)' \in Nat
  BY <1>0, <1>1, OwedParts DEF Events
<1>6. ASSUME history'[n][e] = history[n][e], done'[n][e] = done[n][e],
             Owed(n, e)' = Owed(n, e), faults' = faults
      PROVE  Ledger(n, e)'
  BY <1>3, <1>5, <1>6, LedgerStep
<1>7. ASSUME e \notin {R, C}
      PROVE  Owed(n, e)' = Owed(n, e)
  BY <1>1, <1>7, OwedParts DEF Events
<1>8. ASSUME FailCapped(t)
      PROVE  Ledger(n, e)'
  <2>1. /\ tick[t].pc = "idle"
        /\ tick'[t].pc = "recover" /\ tick'[t].failed = Capped
    BY <1>8, TickerAfter
  <2>2. history' = history /\ faults' = faults /\ done' = Log(done, Capped, R)
    BY <1>8 DEF FailCapped
  <2>3. done'[n][e] = IF e = R THEN done[n][e] + Counts(n, Capped) ELSE done[n][e]
    BY <1>2, <2>2, Logged
  <2>4. /\ Counts(t, Failing(n)) = 0 /\ Counts(t, Failing(n)') = Counts(n, Capped)
        /\ Counts(t, Redriving(n)) = 0 /\ Counts(t, Redriving(n)') = 0
        /\ Counts(t, Claiming(n)) = 0 /\ Counts(t, Claiming(n)') = 0
    BY <2>1 DEF Counts, Failing, Redriving, Claiming
  <2>5. CASE e = R
    <3>1. Owed(n, e)' = Owed(n, e) + Counts(n, Capped)
      BY <1>0, <1>4, <2>4, <2>5, OwedParts
    <3> QED BY <1>3, <1>4, <1>5, <2>2, <2>3, <2>5, <3>1, LedgerStep
  <2>6. CASE e = C
    <3>1. Owed(n, e)' = Owed(n, e)
      BY <1>0, <2>4, <2>6, OwedParts
    <3> QED BY <1>6, <2>2, <2>3, <2>6, <3>1
  <2> QED BY <1>6, <1>7, <2>2, <2>3, <2>5, <2>6
<1>9. ASSUME RecoverStuck(t)
      PROVE  Ledger(n, e)'
  <2>1. /\ tick[t].pc = "recover"
        /\ tick'[t].failed = tick[t].failed /\ tick'[t].recovered = Eligible
        /\ \/ tick'[t].pc = "redriven"
           \/ tick'[t].pc = "claim" /\ tick[t].failed = {} /\ Eligible = {}
    BY <1>9, TickerAfter
  <2>2. history' = history /\ faults' = faults /\ done' = Log(done, Eligible, R)
    BY <1>9 DEF RecoverStuck
  <2>3. done'[n][e] = IF e = R THEN done[n][e] + Counts(n, Eligible) ELSE done[n][e]
    BY <1>2, <2>2, Logged
  <2>4. /\ Counts(t, Failing(n)) = Counts(t, Failing(n)')
        /\ Counts(t, Redriving(n)) = 0 /\ Counts(t, Redriving(n)') = Counts(n, Eligible)
        /\ Counts(t, Claiming(n)) = 0 /\ Counts(t, Claiming(n)') = 0
    BY <2>1 DEF Counts, Failing, Redriving, Claiming
  <2>5. CASE e = R
    <3>1. Owed(n, e)' = Owed(n, e) + Counts(n, Eligible)
      BY <1>0, <1>4, <2>4, <2>5, OwedParts
    <3> QED BY <1>3, <1>4, <1>5, <2>2, <2>3, <2>5, <3>1, LedgerStep
  <2>6. CASE e = C
    <3>1. Owed(n, e)' = Owed(n, e)
      BY <1>0, <2>4, <2>6, OwedParts
    <3> QED BY <1>6, <2>2, <2>3, <2>6, <3>1
  <2> QED BY <1>6, <1>7, <2>2, <2>3, <2>5, <2>6
<1>10. ASSUME AppendRedriven(t)
       PROVE  Ledger(n, e)'
  <2> DEFINE failed == tick[t].failed  recovered == tick[t].recovered
  <2>1. tick[t].pc = "redriven" /\ tick'[t].pc = "claim"
    BY <1>10, TickerAfter
  <2>2. /\ history' = Log(Log(history, failed, R), recovered, R)
        /\ faults' = faults /\ done' = done
    BY <1>10 DEF AppendRedriven
  <2>3. history'[n][e] = IF e = R THEN history[n][e] + Counts(n, failed) + Counts(n, recovered)
                                  ELSE history[n][e]
    <3> DEFINE first == Log(history, failed, R)
    <3>1. first \in [Rows -> [Events -> Nat]]
      BY <1>2, LogType DEF TypeOK
    <3>a. history \in [Rows -> [Events -> Nat]]
      BY DEF TypeOK
    <3>b. first[n][e] = IF n \in failed /\ e = R THEN history[n][e] + 1 ELSE history[n][e]
      BY <1>2, <3>a, LogValue
    <3>2. first[n][e] = IF e = R THEN history[n][e] + Counts(n, failed) ELSE history[n][e]
      BY <1>3, <3>b DEF Counts
    <3>3. history' = Log(first, recovered, R)
      BY <2>2
    <3> HIDE DEF first
    <3>4. history'[n][e] = IF e = R THEN first[n][e] + Counts(n, recovered) ELSE first[n][e]
      BY <1>2, <3>1, <3>3, LogValue DEF Counts
    <3> QED BY <3>2, <3>4
  <2>4. /\ Counts(t, Failing(n)) = Counts(n, failed) /\ Counts(t, Failing(n)') = 0
        /\ Counts(t, Redriving(n)) = Counts(n, recovered) /\ Counts(t, Redriving(n)') = 0
        /\ Counts(t, Claiming(n)) = 0 /\ Counts(t, Claiming(n)') = 0
    BY <2>1 DEF Counts, Failing, Redriving, Claiming
  <2>5. CASE e = R
    <3>1. Owed(n, e)' + Counts(n, failed) + Counts(n, recovered) = Owed(n, e)
      BY <1>0, <1>4, <2>4, <2>5, OwedParts
    <3> QED BY <1>3, <1>4, <1>5, <2>2, <2>3, <2>5, <3>1, LedgerStep
  <2>6. CASE e = C
    <3>1. Owed(n, e)' = Owed(n, e)
      BY <1>0, <2>4, <2>6, OwedParts
    <3> QED BY <1>6, <2>2, <2>3, <2>6, <3>1
  <2> QED BY <1>6, <1>7, <2>2, <2>3, <2>5, <2>6
<1>11. ASSUME NEW locked, Claim(t, locked)
       PROVE  Ledger(n, e)'
  <2>1. PICK batch \in SUBSET Rows :
           /\ tick[t].pc = "claim"
           /\ done' = Log(done, batch, C)
           /\ \/ batch = {} /\ tick'[t].pc = "idle"
              \/ tick'[t].pc = "claimed" /\ tick'[t].claimed = batch
    BY <1>11, ClaimAfter
  <2>2. history' = history /\ faults' = faults
    BY <1>11 DEF Claim
  <2>3. done'[n][e] = IF e = C THEN done[n][e] + Counts(n, batch) ELSE done[n][e]
    BY <1>2, <2>1, Logged
  <2>4. /\ Counts(t, Failing(n)) = 0 /\ Counts(t, Failing(n)') = 0
        /\ Counts(t, Redriving(n)) = 0 /\ Counts(t, Redriving(n)') = 0
        /\ Counts(t, Claiming(n)) = 0 /\ Counts(t, Claiming(n)') = Counts(n, batch)
    BY <2>1 DEF Counts, Failing, Redriving, Claiming
  <2>5. CASE e = R
    <3>1. Owed(n, e)' = Owed(n, e)
      BY <1>0, <2>4, <2>5, OwedParts
    <3> QED BY <1>6, <2>2, <2>3, <2>5, <3>1
  <2>6. CASE e = C
    <3>1. Owed(n, e)' = Owed(n, e) + Counts(n, batch)
      BY <1>0, <1>4, <2>4, <2>6, OwedParts
    <3> QED BY <1>3, <1>4, <1>5, <2>2, <2>3, <2>6, <3>1, LedgerStep
  <2> QED BY <1>6, <1>7, <2>2, <2>3, <2>5, <2>6
<1>12. ASSUME AppendClaimed(t)
       PROVE  Ledger(n, e)'
  <2> DEFINE claimed == tick[t].claimed
  <2>1. tick[t].pc = "claimed" /\ tick'[t].pc = "publish"
    BY <1>12, TickerAfter
  <2>2. history' = Log(history, claimed, C) /\ faults' = faults /\ done' = done
    BY <1>12 DEF AppendClaimed
  <2>3. history'[n][e] = IF e = C THEN history[n][e] + Counts(n, claimed) ELSE history[n][e]
    BY <1>2, <2>2, Logged
  <2>4. /\ Counts(t, Failing(n)) = 0 /\ Counts(t, Failing(n)') = 0
        /\ Counts(t, Redriving(n)) = 0 /\ Counts(t, Redriving(n)') = 0
        /\ Counts(t, Claiming(n)) = Counts(n, claimed) /\ Counts(t, Claiming(n)') = 0
    BY <2>1 DEF Counts, Failing, Redriving, Claiming
  <2>5. CASE e = R
    <3>1. Owed(n, e)' = Owed(n, e)
      BY <1>0, <2>4, <2>5, OwedParts
    <3> QED BY <1>6, <2>2, <2>3, <2>5, <3>1
  <2>6. CASE e = C
    <3>1. Owed(n, e)' + Counts(n, claimed) = Owed(n, e)
      BY <1>0, <1>4, <2>4, <2>6, OwedParts
    <3> QED BY <1>3, <1>4, <1>5, <2>2, <2>3, <2>6, <3>1, LedgerStep
  <2> QED BY <1>6, <1>7, <2>2, <2>3, <2>5, <2>6
<1>13. ASSUME NEW m \in Rows, PublishPush(t, m)
       PROVE  Ledger(n, e)'
  <2>1. tick[t].pc = "publish" /\ tick'[t].pc \in {"idle", "publish"}
    BY <1>13, TickerAfter
  <2>2. history' = history /\ faults' = faults /\ done' = done
    BY <1>13 DEF PublishPush
  <2>4. /\ Counts(t, Failing(n)) = 0 /\ Counts(t, Failing(n)') = 0
        /\ Counts(t, Redriving(n)) = 0 /\ Counts(t, Redriving(n)') = 0
        /\ Counts(t, Claiming(n)) = 0 /\ Counts(t, Claiming(n)') = 0
    BY <2>1 DEF Counts, Failing, Redriving, Claiming
  <2>5. Owed(n, e)' = Owed(n, e)
    BY <1>0, <1>1, <2>4, OwedParts DEF Events
  <2> QED BY <1>6, <2>2, <2>5
<1>14. ASSUME TickDies(t)
       PROVE  Ledger(n, e)'
  <2>1. tick'[t].pc = "idle"
    BY <1>14, TickerAfter
  <2>2. history' = history /\ faults' = faults + 1 /\ done' = done
    BY <1>14 DEF TickDies, Fault
  <2>4. /\ Counts(t, Failing(n)') = 0 /\ Counts(t, Redriving(n)') = 0
        /\ Counts(t, Claiming(n)') = 0
    BY <2>1 DEF Counts, Failing, Redriving, Claiming
  <2>5. /\ Cardinality(Failing(n)') <= Cardinality(Failing(n))
        /\ Cardinality(Redriving(n)') <= Cardinality(Redriving(n))
        /\ Cardinality(Claiming(n)') <= Cardinality(Claiming(n))
    BY <1>0, <1>4, <2>4
  <2>6. Owed(n, e)' <= Owed(n, e)
    BY <1>0, <1>1, <2>5, OwedParts DEF Events
  <2> QED BY <1>5, <2>2, <2>6, LedgerStep
<1> QED BY <1>8, <1>9, <1>10, <1>11, <1>12, <1>13, <1>14 DEF TickStep

(* Every other transition is logged at once, or owed by the admin.            *)
LEMMA LedgerOther ==
  ASSUME TypeOK, TypeOK', NEW n \in Rows, NEW e \in Events, Ledger(n, e),
         \/ Replay \/ UNCHANGED vars \/ ConfirmLost
         \/ \E m \in Rows : RowStep(m) \/ AdminDies(m) \/ LookupThrow(m)
         \/ \E h \in Handlers : \/ HandlerStep(h) \/ \E m \in Rows : Deliver(h, m)
                                \/ HandlerCrash(h) \/ LoseChannel(h) \/ HandlerThrow(h)
  PROVE  Ledger(n, e)'
<1>1. tick' = tick
  BY DEF Replay, vars, RowStep, AdminDies, LookupThrow, Ingest, BecomeDue, Age,
         ExpireRetry, ManualRetry, AppendManualRetry,
         HandlerStep, Send, RecordSent, RecordFailure, PublishRetry, Ack,
         Deliver, HandlerCrash, LoseChannel, HandlerThrow,
         ConfirmLost, PushConfirmLost, RetryConfirmLost
<1>2. /\ Failing(n)' = Failing(n) /\ Cardinality(Failing(n)) \in Nat
      /\ Redriving(n)' = Redriving(n) /\ Cardinality(Redriving(n)) \in Nat
      /\ Claiming(n)' = Claiming(n) /\ Cardinality(Claiming(n)) \in Nat
  BY <1>1, SameTickers
<1>3. /\ history[n][e] \in Nat /\ done[n][e] \in Nat
      /\ admin \in [Rows -> Nat] /\ admin[n] \in Nat /\ admin'[n] \in Nat
  BY Logged DEF TypeOK
<1>4. Owed(n, e) \in Nat /\ Owed(n, e)' \in Nat
  BY <1>2, <1>3, OwedParts DEF Events
<1>5. e # "MANUAL_RETRY" => Owed(n, e)' = Owed(n, e)
  BY <1>2, OwedParts DEF Events
<1>6. e = "MANUAL_RETRY" => Owed(n, e) = admin[n] /\ Owed(n, e)' = admin'[n]
  BY OwedParts
<1>7. \A S : Counts(n, S) \in Nat
  BY DEF Counts
<1>8. ASSUME NEW S, NEW x \in Events, history' = Log(history, S, x),
             done' = Log(done, S, x), admin' = admin, faults' = faults
      PROVE  Ledger(n, e)'
  <2>1. Owed(n, e)' = Owed(n, e)
    BY <1>5, <1>6, <1>8
  <2>2. /\ history'[n][e] = IF e = x THEN history[n][e] + Counts(n, S) ELSE history[n][e]
        /\ done'[n][e] = IF e = x THEN done[n][e] + Counts(n, S) ELSE done[n][e]
    BY <1>8, Logged
  <2> QED BY <1>3, <1>4, <1>7, <1>8, <2>1, <2>2, LedgerStep
<1>9. ASSUME history' = history, done' = done, admin' = admin,
             faults' = faults \/ faults' = faults + 1
      PROVE  Ledger(n, e)'
  <2>1. Owed(n, e)' = Owed(n, e)
    BY <1>5, <1>6, <1>9
  <2> QED BY <1>3, <1>4, <1>9, <2>1, LedgerStep
<1>10. ASSUME NEW m \in Rows, ManualRetry(m)
       PROVE  Ledger(n, e)'
  <2>1. /\ history' = history /\ faults' = faults
        /\ done' = Log(done, {m}, "MANUAL_RETRY")
        /\ admin' = [admin EXCEPT ![m] = admin[m] + 1]
    BY <1>10 DEF ManualRetry
  <2>2. "MANUAL_RETRY" \in Events
    BY DEF Events
  <2>3. done'[n][e] = IF e = "MANUAL_RETRY" THEN done[n][e] + Counts(n, {m}) ELSE done[n][e]
    <3> DEFINE S == {m}
    <3>1. done' = Log(done, S, "MANUAL_RETRY")
      BY <2>1
    <3> HIDE DEF S
    <3>2. done'[n][e] = IF e = "MANUAL_RETRY" THEN done[n][e] + Counts(n, S) ELSE done[n][e]
      BY <2>2, <3>1, Logged
    <3> QED BY <3>2 DEF S
  <2>4. admin'[n] = admin[n] + Counts(n, {m})
    BY <1>3, <2>1 DEF Counts
  <2>5. CASE e = "MANUAL_RETRY"
    <3>1. done'[n][e] = done[n][e] + Counts(n, {m}) /\ history'[n][e] = history[n][e]
      BY <2>1, <2>3, <2>5
    <3>2. Owed(n, e)' = Owed(n, e) + Counts(n, {m})
      BY <1>6, <2>4, <2>5
    <3>3. Counts(n, {m}) \in Nat
      BY <1>7
    <3>4. history'[n][e] + Owed(n, e)' + done[n][e]
            = history[n][e] + Owed(n, e) + done'[n][e]
      BY ONLY <1>3, <1>4, <3>1, <3>2, <3>3
    <3> QED BY <1>4, <2>1, <3>4, LedgerStep
  <2>6. CASE e # "MANUAL_RETRY"
    BY <1>3, <1>4, <1>5, <2>1, <2>3, <2>6, LedgerStep
  <2> QED BY <2>5, <2>6
<1>11. ASSUME NEW m \in Rows, AppendManualRetry(m)
       PROVE  Ledger(n, e)'
  <2>1. /\ history' = Log(history, {m}, "MANUAL_RETRY") /\ faults' = faults
        /\ done' = done /\ admin[m] > 0
        /\ admin' = [admin EXCEPT ![m] = admin[m] - 1]
    BY <1>11 DEF AppendManualRetry
  <2>2. "MANUAL_RETRY" \in Events
    BY DEF Events
  <2>3. history'[n][e] = IF e = "MANUAL_RETRY" THEN history[n][e] + Counts(n, {m})
                                               ELSE history[n][e]
    <3> DEFINE S == {m}
    <3>1. history' = Log(history, S, "MANUAL_RETRY")
      BY <2>1
    <3> HIDE DEF S
    <3>2. history'[n][e] = IF e = "MANUAL_RETRY" THEN history[n][e] + Counts(n, S)
                                                 ELSE history[n][e]
      BY <2>2, <3>1, Logged
    <3> QED BY <3>2 DEF S
  <2>4. admin'[n] + Counts(n, {m}) = admin[n]
    BY <1>3, <2>1 DEF Counts
  <2>5. CASE e = "MANUAL_RETRY"
    <3>1. history'[n][e] = history[n][e] + Counts(n, {m}) /\ done'[n][e] = done[n][e]
      BY <2>1, <2>3, <2>5
    <3>2. Owed(n, e)' + Counts(n, {m}) = Owed(n, e)
      BY <1>6, <2>4, <2>5
    <3>3. Counts(n, {m}) \in Nat
      BY <1>7
    <3>4. history'[n][e] + Owed(n, e)' + done[n][e]
            = history[n][e] + Owed(n, e) + done'[n][e]
      BY ONLY <1>3, <1>4, <3>1, <3>2, <3>3
    <3> QED BY <1>4, <2>1, <3>4, LedgerStep
  <2>6. CASE e # "MANUAL_RETRY"
    BY <1>3, <1>4, <1>5, <2>1, <2>3, <2>6, LedgerStep
  <2> QED BY <2>5, <2>6
<1>12. ASSUME NEW m \in Rows, AdminDies(m)
       PROVE  Ledger(n, e)'
  <2>1. /\ history' = history /\ faults' = faults + 1 /\ done' = done /\ admin[m] > 0
        /\ admin' = [admin EXCEPT ![m] = admin[m] - 1]
    BY <1>12 DEF AdminDies, Fault
  <2>2. admin'[n] <= admin[n]
    BY <1>3, <2>1
  <2>3. Owed(n, e)' <= Owed(n, e)
    BY <1>4, <1>5, <1>6, <2>2
  <2> QED BY <1>4, <2>1, <2>3, LedgerStep
<1>13. ASSUME NEW m \in Rows, Ingest(m)
       PROVE  Ledger(n, e)'
  <2>1. /\ history' = Log(history, {m}, "CREATED") /\ done' = Log(done, {m}, "CREATED")
        /\ admin' = admin /\ faults' = faults /\ "CREATED" \in Events
    BY <1>13 DEF Ingest, Events
  <2> QED BY <1>8, <2>1
<1>14. ASSUME NEW h \in Handlers, RecordSent(h)
       PROVE  Ledger(n, e)'
  <2>1. \E S : history' = Log(history, S, "PUSH_SENT") /\ done' = Log(done, S, "PUSH_SENT")
    BY <1>14 DEF RecordSent
  <2>2. admin' = admin /\ faults' = faults /\ "PUSH_SENT" \in Events
    BY <1>14 DEF RecordSent, Events
  <2> QED BY <1>8, <2>1, <2>2
<1>15. ASSUME NEW h \in Handlers, RecordFailure(h)
       PROVE  Ledger(n, e)'
  <2>1. \E S : /\ history' = Log(history, S, "PUSH_ATTEMPT")
               /\ done' = Log(done, S, "PUSH_ATTEMPT")
    BY <1>15 DEF RecordFailure
  <2>2. admin' = admin /\ faults' = faults /\ "PUSH_ATTEMPT" \in Events
    BY <1>15 DEF RecordFailure, Events
  <2> QED BY <1>8, <2>1, <2>2
<1>16. ASSUME NEW m \in Rows, BecomeDue(m) \/ Age(m) \/ ExpireRetry(m) \/ LookupThrow(m)
       PROVE  Ledger(n, e)'
  BY <1>9, <1>16 DEF BecomeDue, Age, ExpireRetry, LookupThrow, Fault
<1>17. ASSUME NEW h \in Handlers,
              \/ \E ok, taken \in BOOLEAN : Send(h, ok, taken)
              \/ PublishRetry(h) \/ Ack(h) \/ \E m \in Rows : Deliver(h, m)
              \/ HandlerCrash(h) \/ LoseChannel(h) \/ HandlerThrow(h)
       PROVE  Ledger(n, e)'
  <2>1. history' = history /\ done' = done /\ admin' = admin
    BY <1>17 DEF Send, PublishRetry, Ack, Deliver, HandlerCrash, LoseChannel, HandlerThrow
  <2>2. faults' = faults \/ faults' = faults + 1
    BY <1>17 DEF Send, PublishRetry, Ack, Deliver, HandlerCrash, LoseChannel, HandlerThrow,
       Fault
  <2> QED BY <1>9, <2>1, <2>2
<1>18. CASE Replay \/ UNCHANGED vars
  BY <1>9, <1>18 DEF Replay, vars
<1>19. CASE ConfirmLost
  BY <1>9, <1>19, LostConfirm DEF actors, audit
<1> QED BY <1>10, <1>11, <1>12, <1>13, <1>14, <1>15, <1>16, <1>17, <1>18, <1>19
        DEF RowStep, HandlerStep

-----------------------------------------------------------------------------
(* A PROCESSING row has a delivery on its way *)

\* Without a lag the replica shows what is committed.
Prompt == MaxLag = 0 => wal = <<>> /\ replica = Statuses(row)

OnItsWay(n) ==
  work[n] > 0 \/ retry[n] > 0 \/ Sending(n) # {} \/ Publishing(n) # {}

Dispatched(n) ==
  MaxLag = 0 /\ faults = 0 /\ row[n].status = "PROCESSING" => OnItsWay(n)

(* Without lag the replica is up to date after every commit.                  *)
LEMMA CommitPrompt ==
  ASSUME Prompt, NEW table, Commit(table)
  PROVE  Prompt'
<1> SUFFICES ASSUME MaxLag = 0 PROVE wal' = <<>> /\ replica' = Statuses(row)'
  BY DEF Prompt
<1>1. wal = <<>> /\ replica = Statuses(row) /\ row' = table
  BY DEF Prompt, Commit
<1>2. Statuses(row)' = Statuses(table)
  BY <1>1 DEF Statuses
<1> DEFINE log == Append(wal, Statuses(table))
<1>3. Len(log) = 1 /\ Head(log) = Statuses(table) /\ Tail(log) = <<>>
  BY <1>1
<1> HIDE DEF log
<1>4. \/ Statuses(table) = Statuses(row) /\ wal' = wal /\ replica' = replica
      \/ Len(log) <= MaxLag
      \/ wal' = Tail(log) /\ replica' = Head(log)
  BY DEF Commit, log
<1> QED BY <1>1, <1>2, <1>3, <1>4

(* And stays so until the next.                                               *)
LEMMA PromptStep ==
  ASSUME TypeOK, Prompt, [Next]_vars
  PROVE  Prompt'
<1>1. ASSUME row' = row, wal' = wal, replica' = replica
      PROVE  Prompt'
  BY <1>1 DEF Prompt, Statuses
<1>2. ASSUME NEW m \in Rows, Age(m)
      PROVE  Prompt'
  <2>1. \A n \in Rows : row'[n].status = row[n].status
    BY <1>2 DEF Age, TypeOK, Row
  <2>2. Statuses(row)' = Statuses(row)
    BY <2>1 DEF Statuses
  <2> QED BY <1>2, <2>2 DEF Age, Prompt
<1>3. ASSUME NEW t \in Tickers, TickStep(t)
      PROVE  Prompt'
  BY <1>1, <1>3, CommitPrompt DEF TickStep, FailCapped, RecoverStuck, AppendRedriven,
     Claim, AppendClaimed, PublishPush
<1>4. ASSUME NEW h \in Handlers, HandlerStep(h) \/ \E m \in Rows : Deliver(h, m)
      PROVE  Prompt'
  BY <1>1, <1>4, CommitPrompt DEF HandlerStep, Send, RecordSent, RecordFailure,
     PublishRetry, Ack, Deliver
<1>5. ASSUME NEW m \in Rows, RowStep(m)
      PROVE  Prompt'
  BY <1>1, <1>2, <1>5, CommitPrompt DEF RowStep, Ingest, BecomeDue, ExpireRetry,
     ManualRetry, AppendManualRetry
<1>6. CASE FaultStep \/ UNCHANGED vars
  BY <1>1, <1>6 DEF FaultStep, vars, ConfirmLost, PushConfirmLost, RetryConfirmLost,
     TickDies, AdminDies, LookupThrow, HandlerCrash,
     LoseChannel, HandlerThrow
<1>7. CASE Replay
  BY <1>7 DEF Replay, Prompt, Statuses
<1> QED BY <1>3, <1>4, <1>5, <1>6, <1>7 DEF Next

(* A claim is followed by a publish of each row it claimed.                  *)
LEMMA DispatchTick ==
  ASSUME TypeOK, TypeOK', NEW n \in Rows, NEW t \in Tickers, TickStep(t),
         row[n].status = "PROCESSING" => OnItsWay(n),
         row'[n].status = "PROCESSING"
  PROVE  OnItsWay(n)'
<1>0. /\ row[n] \in Row /\ work \in [Rows -> Nat] /\ retry \in [Rows -> Nat]
      /\ work' \in [Rows -> Nat]
  BY DEF TypeOK
<1>1. Sending(n)' = Sending(n) /\ retry' = retry
  BY DEF TickStep, FailCapped, RecoverStuck, AppendRedriven, Claim, AppendClaimed,
     PublishPush, Sending
<1>2. \A s \in Tickers \ {t} : s \in Publishing(n) => s \in Publishing(n)'
  BY TickerAfter DEF Publishing
<1>3. ASSUME work' = work, row[n].status = "PROCESSING", t \notin Publishing(n)
      PROVE  OnItsWay(n)'
  <2>1. Publishing(n) \subseteq Publishing(n)'
    BY <1>2, <1>3 DEF Publishing
  <2> QED BY <1>1, <1>3, <2>1 DEF OnItsWay
<1>4. CASE FailCapped(t)
  <2>1. row' = Update(Capped, Failed) /\ work' = work
    BY <1>4 DEF FailCapped, Commit
  <2>2. row[n].status = "PROCESSING"
    BY <1>0, <2>1, StatusAfter DEF Update
  <2>3. t \notin Publishing(n)
    BY <1>4, TickerAfter DEF Publishing
  <2> QED BY <1>3, <2>1, <2>2, <2>3
<1>5. CASE RecoverStuck(t)
  <2>1. row' = Update(Eligible, Redriven) /\ work' = work
    BY <1>5 DEF RecoverStuck, Commit
  <2>2. row[n].status = "PROCESSING"
    BY <1>0, <2>1, StatusAfter DEF Update
  <2>3. t \notin Publishing(n)
    BY <1>5, TickerAfter DEF Publishing
  <2> QED BY <1>3, <2>1, <2>2, <2>3
<1>6. CASE AppendRedriven(t)
  <2>1. row' = row /\ work' = work
    BY <1>6 DEF AppendRedriven
  <2>3. t \notin Publishing(n)
    BY <1>6, TickerAfter DEF Publishing
  <2> QED BY <1>3, <2>1, <2>3
<1>7. ASSUME NEW locked \in SUBSET Lockable, Claim(t, locked)
      PROVE  OnItsWay(n)'
  <2>1. PICK batch \in SUBSET Rows :
           /\ tick[t].pc = "claim"
           /\ row' = Update(batch, Claimed)
           /\ \/ batch = {} /\ tick'[t].pc = "idle"
              \/ tick'[t].pc = "claimed" /\ tick'[t].claimed = batch
    BY <1>7, ClaimAfter
  <2>2. work' = work
    BY <1>7 DEF Claim
  <2>3. CASE n \in batch
    <3>1. t \in Publishing(n)'
      BY <2>1, <2>3 DEF Publishing
    <3> QED BY <3>1 DEF OnItsWay
  <2>4. CASE n \notin batch
    <3>1. row[n].status = "PROCESSING"
      BY <2>1, <2>4 DEF Update
    <3>2. t \notin Publishing(n)
      BY <2>1 DEF Publishing
    <3> QED BY <1>3, <2>2, <3>1, <3>2
  <2> QED BY <2>3, <2>4
<1>8. CASE AppendClaimed(t)
  <2>1. row' = row /\ work' = work
    BY <1>8 DEF AppendClaimed
  <2>2. t \in Publishing(n) => t \in Publishing(n)'
    BY <1>8, TickerAfter DEF Publishing
  <2>3. Publishing(n) \subseteq Publishing(n)'
    BY <1>2, <2>2 DEF Publishing
  <2> QED BY <1>1, <2>1, <2>3 DEF OnItsWay
<1>9. ASSUME NEW m \in Rows, PublishPush(t, m)
      PROVE  OnItsWay(n)'
  <2>1. row' = row /\ work' = [work EXCEPT ![m] = work[m] + 1]
    BY <1>9 DEF PublishPush, Enqueue
  <2>2. CASE m = n
    <3>1. work'[n] > 0
      BY <1>0, <2>1, <2>2
    <3> QED BY <3>1 DEF OnItsWay
  <2>3. CASE m # n
    <3>1. work'[n] = work[n]
      BY <1>0, <2>1, <2>3
    <3>2. t \in Publishing(n) => t \in Publishing(n)'
      BY <1>9, <2>3, TickerAfter DEF Publishing
    <3>3. Publishing(n) \subseteq Publishing(n)'
      BY <1>2, <3>2 DEF Publishing
    <3> QED BY <1>1, <2>1, <3>1, <3>3 DEF OnItsWay
  <2> QED BY <2>2, <2>3
<1> QED BY <1>4, <1>5, <1>6, <1>7, <1>8, <1>9 DEF TickStep

(* A handler lets go of a PROCESSING row only for the retry queue.           *)
LEMMA DispatchHandler ==
  ASSUME TypeOK, TypeOK', Prompt, MaxLag = 0, NEW n \in Rows, NEW h \in Handlers,
         HandlerStep(h) \/ \E m \in Rows : Deliver(h, m),
         row[n].status = "PROCESSING" => OnItsWay(n),
         row'[n].status = "PROCESSING"
  PROVE  OnItsWay(n)'
<1>0. /\ row \in [Rows -> Row] /\ row[n] \in Row
      /\ work \in [Rows -> Nat] /\ retry \in [Rows -> Nat]
  BY DEF TypeOK
<1>1. Publishing(n)' = Publishing(n)
  BY DEF HandlerStep, Send, RecordSent, RecordFailure, PublishRetry, Ack, Deliver,
     Publishing
<1>2. \A g \in Handlers \ {h} : g \in Sending(n) => g \in Sending(n)'
  BY OtherHandlers DEF Sending
<1>3. ASSUME work' = work, retry' = retry, row[n].status = "PROCESSING",
             h \in Sending(n) => h \in Sending(n)'
      PROVE  OnItsWay(n)'
  <2>1. Sending(n) \subseteq Sending(n)'
    BY <1>2, <1>3 DEF Sending
  <2> QED BY <1>1, <1>3, <2>1 DEF OnItsWay
<1>4. ASSUME NEW m \in Rows, Deliver(h, m)
      PROVE  OnItsWay(n)'
  <2>1. row' = row /\ retry' = retry /\ work' = [work EXCEPT ![m] = work[m] - 1]
    BY <1>4 DEF Deliver
  <2>2. CASE m = n
    <3>1. Sendable(n)
      BY <2>1 DEF Prompt, Statuses, Sendable
    <3>2. h \in Sending(n)'
      BY <1>4, <2>2, <3>1, HandlerAfter DEF Sending
    <3> QED BY <3>2 DEF OnItsWay
  <2>3. CASE m # n
    <3>1. work'[n] = work[n]
      BY <1>0, <2>1, <2>3
    <3>2. h \notin Sending(n)
      BY <1>4, HandlerAfter DEF Sending
    <3>3. Sending(n) \subseteq Sending(n)'
      BY <1>2, <3>2 DEF Sending
    <3> QED BY <1>1, <2>1, <3>1, <3>3 DEF OnItsWay
  <2> QED BY <2>2, <2>3
<1>5. ASSUME NEW ok \in BOOLEAN, NEW taken \in BOOLEAN, Send(h, ok, taken)
      PROVE  OnItsWay(n)'
  <2>1. row' = row /\ work' = work /\ retry' = retry
    BY <1>5 DEF Send
  <2>2. h \in Sending(n) => h \in Sending(n)'
    BY <1>5, HandlerAfter DEF Sending
  <2> QED BY <1>3, <2>1, <2>2
<1>6. CASE RecordSent(h)
  <2> DEFINE m == handler[h].msg
  <2>1. row' = Update({m}, Sent) /\ work' = work /\ retry' = retry
    BY <1>6 DEF RecordSent, Commit
  <2>2. n # m /\ row[n].status = "PROCESSING"
    BY <1>0, <2>1, StatusAfter DEF Update
  <2>3. h \notin Sending(n)
    BY <2>2 DEF Sending
  <2> QED BY <1>3, <2>1, <2>2, <2>3
<1>7. CASE RecordFailure(h)
  <2> DEFINE m == handler[h].msg
  <2>1. row' = Update({m}, AfterFailure) /\ work' = work /\ retry' = retry
    BY <1>7 DEF RecordFailure, Commit
  <2>2. row[n].status = "PROCESSING"
    BY <1>0, <2>1, StatusAfter DEF Update
  <2>3. CASE n # m
    <3>1. h \notin Sending(n)
      BY <2>3 DEF Sending
    <3> QED BY <1>3, <2>1, <2>2, <3>1
  <2>4. CASE n = m
    <3>1. row'[n] = AfterFailure(row[n])
      BY <2>1, <2>4 DEF Update
    <3>2. ~(Attempted(row[n]).attempts >= MaxAttempts)
      <4>1. Failed(Attempted(row[n])).status = "FAILED"
        BY <1>0 DEF Failed, Attempted, Row
      <4> QED BY <3>1, <4>1 DEF AfterFailure
    <3>3. handler'[h].pc = "retry" /\ handler'[h].msg = n
      BY <1>7, <2>4, <3>2, HandlerAfter
    <3>4. h \in Sending(n)'
      BY <3>3 DEF Sending
    <3> QED BY <3>4 DEF OnItsWay
  <2> QED BY <2>3, <2>4
<1>8. CASE PublishRetry(h)
  <2> DEFINE m == handler[h].msg
  <2>1. row' = row /\ work' = work /\ retry' = [retry EXCEPT ![m] = retry[m] + 1]
    BY <1>8 DEF PublishRetry, Enqueue
  <2>2. CASE m = n
    <3>1. retry'[n] > 0
      BY <1>0, <2>1, <2>2
    <3> QED BY <3>1 DEF OnItsWay
  <2>3. CASE m # n
    <3>1. retry'[n] = retry[n]
      BY <1>0, <2>1, <2>3
    <3>2. h \notin Sending(n)
      BY <2>3 DEF Sending
    <3>3. Sending(n) \subseteq Sending(n)'
      BY <1>2, <3>2 DEF Sending
    <3> QED BY <1>1, <2>1, <3>1, <3>3 DEF OnItsWay
  <2> QED BY <2>2, <2>3
<1>9. CASE Ack(h)
  <2>1. row' = row /\ work' = work /\ retry' = retry
    BY <1>9 DEF Ack
  <2>2. h \notin Sending(n)
    BY <1>9, HandlerAfter DEF Sending
  <2> QED BY <1>3, <2>1, <2>2
<1> QED BY <1>4, <1>5, <1>6, <1>7, <1>8, <1>9 DEF HandlerStep

(* Nobody else takes a delivery away but a fault.                            *)
LEMMA DispatchStep ==
  ASSUME TypeOK, TypeOK', Prompt, NEW n \in Rows, Dispatched(n), [Next]_vars
  PROVE  Dispatched(n)'
<1> SUFFICES ASSUME MaxLag = 0, faults' = 0, row'[n].status = "PROCESSING"
             PROVE  OnItsWay(n)'
  BY DEF Dispatched
<1>1. faults \in Nat
  BY DEF TypeOK
<1>2. ~FaultStep
  BY <1>1 DEF FaultStep, Fault, ConfirmLost, PushConfirmLost, RetryConfirmLost,
     TickDies, AdminDies, LookupThrow, HandlerCrash,
     LoseChannel, HandlerThrow
<1>3. faults = 0
  BY <1>1, <1>2 DEF Next, Replay, TickStep, FailCapped, RecoverStuck, AppendRedriven, Claim,
     AppendClaimed, PublishPush, HandlerStep, Send, RecordSent, RecordFailure,
     PublishRetry, Ack, Deliver, RowStep, Ingest, BecomeDue, Age, ExpireRetry,
     ManualRetry, AppendManualRetry, vars
<1>4. row[n].status = "PROCESSING" => OnItsWay(n)
  BY <1>3 DEF Dispatched
<1>5. ASSUME row[n].status = "PROCESSING", work' = work, retry' = retry,
             handler' = handler, tick' = tick
      PROVE  OnItsWay(n)'
  BY <1>4, <1>5 DEF OnItsWay, Sending, Publishing
<1>6. ASSUME NEW m \in Rows, RowStep(m)
      PROVE  OnItsWay(n)'
  <2>0. /\ row[n] \in Row /\ work \in [Rows -> Nat] /\ retry \in [Rows -> Nat]
        /\ work' \in [Rows -> Nat]
    BY DEF TypeOK
  <2>1. row[n].status = "PROCESSING"
    <3>1. Ingest(m) \/ ManualRetry(m) => row[n].status = "PROCESSING"
      BY <2>0, StatusAfter DEF Ingest, ManualRetry, Commit, Update
    <3>2. Age(m) => row'[n].status = row[n].status
      BY DEF Age, TypeOK, Row
    <3> QED BY <1>6, <3>1, <3>2 DEF RowStep, BecomeDue, ExpireRetry, AppendManualRetry
  <2>2. CASE ExpireRetry(m)
    <3>1. /\ retry' = [retry EXCEPT ![m] = retry[m] - 1]
          /\ work' = [work EXCEPT ![m] = work[m] + 1]
          /\ handler' = handler /\ tick' = tick
      BY <2>2 DEF ExpireRetry, Enqueue
    <3>2. (work'[n] = work[n] /\ retry'[n] = retry[n]) \/ work'[n] > 0
      BY <2>0, <3>1
    <3>3. Sending(n)' = Sending(n) /\ Publishing(n)' = Publishing(n)
      BY <3>1 DEF Sending, Publishing
    <3> QED BY <1>4, <2>1, <3>2, <3>3 DEF OnItsWay
  <2> QED BY <1>5, <1>6, <2>1, <2>2
          DEF RowStep, Ingest, BecomeDue, Age, ManualRetry, AppendManualRetry
<1>7. CASE Replay \/ UNCHANGED vars
  BY <1>5, <1>7 DEF Replay, vars
<1> QED BY <1>2, <1>4, <1>6, <1>7, DispatchTick, DispatchHandler DEF Next

-----------------------------------------------------------------------------
(* What the counts and the ledger show *)

Accounts ==
  \A n \in Rows : /\ ChainsPaid(n) /\ Dispatched(n)
                  /\ \A e \in Events : Ledger(n, e)

(* Every account is kept by every step.                                      *)
LEMMA AccountsInductive ==
  ASSUME TypeOK, TypeOK', Prompt, Accounts, [Next]_vars
  PROVE  Accounts'
<1> SUFFICES ASSUME NEW n \in Rows
             PROVE  /\ ChainsPaid(n)' /\ Dispatched(n)'
                    /\ \A e \in Events : Ledger(n, e)'
  BY DEF Accounts
<1>1. ChainsPaid(n) /\ Dispatched(n) /\ \A e \in Events : Ledger(n, e)
  BY DEF Accounts
<1>2. ChainsPaid(n)'
  BY <1>1, ChainsTick, ChainsHandler, ChainsOther, ChainsResent DEF Next, FaultStep
<1>3. Dispatched(n)'
  BY <1>1, DispatchStep
<1>4. ASSUME NEW e \in Events
      PROVE  Ledger(n, e)'
  <2>1. Ledger(n, e)
    BY <1>1
  <2> QED BY <2>1, LedgerTick, LedgerOther DEF Next, FaultStep
<1> QED BY <1>2, <1>3, <1>4

(* Nothing is counted or owed at the start.                                  *)
LEMMA AccountsInit ==
  ASSUME Init
  PROVE  Prompt /\ Accounts
<1>1. Prompt
  BY DEF Init, Prompt, Statuses, NoRow
<1>2. ASSUME NEW n \in Rows
      PROVE  /\ Sending(n) = {} /\ Publishing(n) = {}
             /\ Failing(n) = {} /\ Redriving(n) = {} /\ Claiming(n) = {}
  BY DEF Init, IdleHandler, IdleTick, Sending, Publishing, Failing, Redriving, Claiming
<1>3. ASSUME NEW n \in Rows
      PROVE  /\ Cardinality(Sending(n)) = 0 /\ Cardinality(Publishing(n)) = 0
             /\ Cardinality(Failing(n)) = 0 /\ Cardinality(Redriving(n)) = 0
             /\ Cardinality(Claiming(n)) = 0
             /\ work[n] = 0 /\ retry[n] = 0 /\ admin[n] = 0
  <2>1. Cardinality({}) = 0
    BY FS_EmptySet
  <2>2. work[n] = 0 /\ retry[n] = 0 /\ admin[n] = 0
    BY DEF Init
  <2> QED BY <1>2, <2>1, <2>2
<1>4. ASSUME NEW n \in Rows
      PROVE  ChainsPaid(n)
  <2>1. Chains(n) = ChainParts(n)
    BY DEF Chains, ChainParts, Sending, Publishing
  <2>2. ChainParts(n) = 0
    BY <1>3 DEF ChainParts
  <2>3. done[n]["CLAIMED_BY_TICK"] = 0 /\ faults = 0
    BY DEF Init, Events
  <2> QED BY <2>1, <2>2, <2>3 DEF ChainsPaid
<1>5. ASSUME NEW n \in Rows
      PROVE  Dispatched(n)
  BY DEF Init, NoRow, Dispatched
<1>6. ASSUME NEW n \in Rows, NEW e \in Events
      PROVE  Ledger(n, e)
  <2>1. Owed(n, e) = 0
    BY <1>3, OwedParts DEF Events
  <2>2. history[n][e] = 0 /\ done[n][e] = 0
    BY DEF Init
  <2> QED BY <2>1, <2>2 DEF Ledger
<1> QED BY <1>1, <1>4, <1>5, <1>6 DEF Accounts

(* So every reachable state keeps its accounts.                             *)
LEMMA AccountsInvariant == Spec => [](Prompt /\ Accounts)
<1>1. Init => Prompt /\ Accounts
  BY AccountsInit
<1>2. TypeOK /\ TypeOK' /\ Prompt /\ Accounts /\ [Next]_vars => Prompt' /\ Accounts'
  BY PromptStep, AccountsInductive
<1> QED BY <1>1, <1>2, TypeCorrect, PTL DEF Spec

(* Retries, expiries and redeliveries never multiply messages: a row has no  *)
(* more deliveries going round than it was claimed or interrupted.           *)
THEOREM ChainsAreBounded == Spec => []ChainsBounded
<1>1. Accounts => ChainsBounded
  BY DEF Accounts, ChainsPaid, ChainsBounded
<1> QED BY <1>1, AccountsInvariant, PTL

(* The history is never ahead of the table, and falls behind for good only   *)
(* by a fault.                                                               *)
THEOREM HistoryIsOwed == Spec => []HistoryOwed
<1>1. Accounts => HistoryOwed
  BY DEF Accounts, Ledger, HistoryOwed
<1> QED BY <1>1, AccountsInvariant, PTL

(* With an up-to-date replica and no fault, a PROCESSING row always has a    *)
(* delivery on its way: no lookup throws away the message it waits for.      *)
THEOREM DispatchIsInFlight == Spec => []DispatchInFlight
<1>1. TypeOK /\ Accounts => DispatchInFlight
  <2> SUFFICES ASSUME TypeOK, Accounts, MaxLag = 0, faults = 0,
                      NEW n \in Rows, row[n].status = "PROCESSING"
               PROVE  Chains(n) > 0
    BY DEF DispatchInFlight
  <2>1. OnItsWay(n)
    BY DEF Accounts, Dispatched
  <2>2. Sending(n) \subseteq Handlers /\ Publishing(n) \subseteq Tickers
    BY DEF Sending, Publishing
  <2>3. IsFiniteSet(Sending(n)) /\ IsFiniteSet(Publishing(n))
    BY <2>2, ActorsAssumption, FS_Subset
  <2>4. /\ Cardinality(Sending(n)) \in Nat /\ Cardinality(Publishing(n)) \in Nat
        /\ Sending(n) # {} => Cardinality(Sending(n)) # 0
        /\ Publishing(n) # {} => Cardinality(Publishing(n)) # 0
    BY <2>3, FS_CardinalityType, FS_EmptySet
  <2>5. work[n] \in Nat /\ retry[n] \in Nat
    BY DEF TypeOK
  <2>6. ChainParts(n) > 0
    <3> DEFINE s == Cardinality(Sending(n))  p == Cardinality(Publishing(n))
    <3>1. s \in Nat /\ p \in Nat /\ (work[n] > 0 \/ retry[n] > 0 \/ s # 0 \/ p # 0)
      BY <2>1, <2>4 DEF OnItsWay
    <3> HIDE DEF s, p
    <3>2. work[n] + retry[n] + s + p > 0
      BY <2>5, <3>1
    <3> QED BY <3>2 DEF ChainParts, s, p
  <2>7. Chains(n) = ChainParts(n)
    BY DEF Chains, ChainParts, Sending, Publishing
  <2> QED BY <2>6, <2>7
<1> QED BY <1>1, AccountsInvariant, TypeCorrect, PTL
=============================================================================
