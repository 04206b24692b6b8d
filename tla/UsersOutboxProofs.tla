-------------------------- MODULE UsersOutboxProofs --------------------------
(***************************************************************************)
(* What holds of UsersOutbox for every number of events and replicas and   *)
(* every bound: the outbox's safety, and that its steps are steps of the   *)
(* abstract promise.                                                       *)
(***************************************************************************)
EXTENDS UsersOutbox, FiniteSetTheorems, TLAPS

USE SizeAssumption
USE DEF claims, broker, counts, Stamp, Marked, Confirmed

Tasks == [Tickers -> [Events -> {"none", "publish", "mark"}]]

(* One publisher's progress on one row leaves all others where they were.     *)
LEMMA TaskEdit ==
  ASSUME NEW f \in Tasks, NEW t \in Tickers, NEW e \in Events,
         NEW x \in {"none", "publish", "mark"}
  PROVE  /\ [f EXCEPT ![t][e] = x] \in Tasks
         /\ \A u \in Tickers, d \in Events :
              [f EXCEPT ![t][e] = x][u][d]
                = IF u = t /\ d = e THEN x ELSE f[u][d]
  BY DEF Tasks

(* A markPublished that succeeds writes both columns of its row and of no     *)
(* other; one that fails writes nothing.                                      *)
LEMMA MarkEdit ==
  ASSUME outbox \in [Events -> OutboxRow], NEW t \in Tickers, NEW e \in Events,
         MarkPublished(t, e) \/ MarkFails(t, e)
  PROVE  /\ outbox' \in [Events -> OutboxRow]
         /\ \A d \in Events :
              \/ outbox'[d] = outbox[d]
              \/ /\ d = e
                 /\ outbox'[d].publishedAt = "set" /\ outbox'[d].startedAt = "null"
<1>1. /\ Marked \in OutboxRow
      /\ Marked.publishedAt = "set" /\ Marked.startedAt = "null"
  BY DEF OutboxRow, Clock
<1>2. CASE MarkPublished(t, e)
  <2>1. outbox' = [outbox EXCEPT ![e] = Marked]
    BY <1>2 DEF MarkPublished
  <2> HIDE DEF Marked
  <2> QED BY <1>1, <2>1
<1>3. CASE MarkFails(t, e)
  BY <1>3 DEF MarkFails
<1> QED BY <1>2, <1>3

(* Type correctness: no column, counter or program state leaves its range.   *)
THEOREM TypeCorrect == Spec => []TypeOK
<1>1. Init => TypeOK
  BY DEF Init, TypeOK, OutboxRow, Clock
<1>2. TypeOK /\ [Next]_vars => TypeOK'
  <2> SUFFICES ASSUME TypeOK, [Next]_vars PROVE TypeOK'
    OBVIOUS
  <2> USE DEF TypeOK, OutboxRow, Clock
  <2>1. ASSUME NEW e \in Events, CreateUser(e) \/ Age(e) PROVE TypeOK'
    <3>1. CASE CreateUser(e)
      BY <3>1 DEF CreateUser, claims, broker
    <3>2. CASE Age(e)
      <4>1. outbox' = [outbox EXCEPT ![e] = [outbox[e] EXCEPT !.startedAt = "stale"]]
        BY <3>2 DEF Age
      <4>2. [outbox[e] EXCEPT !.startedAt = "stale"] \in OutboxRow
        OBVIOUS
      <4>3. outbox' \in [Events -> OutboxRow]
        BY <4>1, <4>2
      <4> QED BY <3>2, <4>3 DEF Age, claims, broker
    <3> QED BY <2>1, <3>1, <3>2
  <2>2. ASSUME NEW t \in Tickers, SweepStuck(t) PROVE TypeOK'
    BY <2>2 DEF SweepStuck
  <2>3. ASSUME NEW t \in Tickers, NEW locked, ClaimBatch(t, locked)
        PROVE TypeOK'
    <3> DEFINE batch == Oldest(Eligible \ locked, BatchSize)
    <3> HIDE DEF batch
    <3>1. outbox' = [e \in Events |->
            IF e \in batch THEN [outbox[e] EXCEPT !.startedAt = "fresh"]
                           ELSE outbox[e]]
      BY <2>3 DEF ClaimBatch, batch
    <3>2. task' = [task EXCEPT ![t] =
            [e \in Events |-> IF e \in batch THEN "publish" ELSE "none"]]
      BY <2>3 DEF ClaimBatch, batch
    <3>3. ticking' = ticking \ {t}
         /\ UNCHANGED <<created, bound, confirmed, queued, counts>>
      BY <2>3 DEF ClaimBatch
    <3> QED BY <3>1, <3>2, <3>3
  <2>4. ASSUME NEW t \in Tickers, NEW e \in Events,
               Publish(t, e) \/ PublishFails(t, e)
        PROVE TypeOK'
    <3>1. task' \in Tasks
      <4>1. PICK x \in {"none", "mark"} : task' = [task EXCEPT ![t][e] = x]
        BY <2>4 DEF Publish, PublishFails
      <4> QED BY <4>1, TaskEdit DEF Tasks
    <3>2. confirmed' \in SUBSET Events /\ queued' \in [Events -> Nat]
      <4>1. \/ UNCHANGED <<confirmed, queued>>
            \/ Taken(e)
        BY <2>4 DEF Publish, PublishFails
      <4> QED BY <4>1 DEF Taken
    <3>3. /\ UNCHANGED <<created, outbox, ticking, bound, sweeps, resends>>
          /\ faults' \in Nat
      BY <2>4 DEF Publish, PublishFails, Fault
    <3> QED BY <3>1, <3>2, <3>3 DEF Tasks
  <2>5. ASSUME NEW t \in Tickers, NEW e \in Events,
               MarkPublished(t, e) \/ MarkFails(t, e)
        PROVE TypeOK'
    <3>1. task' \in Tasks
      <4>1. task' = [task EXCEPT ![t][e] = "none"]
        BY <2>5 DEF MarkPublished, MarkFails
      <4> QED BY <4>1, TaskEdit DEF Tasks
    <3>2. outbox' \in [Events -> OutboxRow]
      BY <2>5, MarkEdit
    <3>3. /\ UNCHANGED <<created, ticking, bound, confirmed, queued, sweeps, resends>>
          /\ faults' \in Nat
      BY <2>5 DEF MarkPublished, MarkFails, Fault
    <3> QED BY <3>1, <3>2, <3>3 DEF Tasks
  <2>6. ASSUME NEW t \in Tickers, TickDies(t) PROVE TypeOK'
    BY <2>6 DEF TickDies, Fault
  <2>7. CASE BindIngestQueue
    BY <2>7 DEF BindIngestQueue
  <2>8. CASE UNCHANGED vars
    BY <2>8 DEF vars
  <2>9. ASSUME NEW t \in Tickers, NEW e \in Events, ConfirmLost(t, e)
        PROVE TypeOK'
    BY <2>9 DEF ConfirmLost, Taken, Fault
  <2> QED BY <2>1, <2>2, <2>3, <2>4, <2>5, <2>6, <2>7, <2>8, <2>9
          DEF Next, TickStep, PublishOne
<1> QED BY <1>1, <1>2, PTL DEF Spec

-----------------------------------------------------------------------------
\* A row is ticked off only after the broker confirmed it.
PublishedWasConfirmed ==
  \A e \in Events : outbox[e].publishedAt = "set" => e \in confirmed

(* A publisher works on a row that exists, marks only what was confirmed, and *)
(* is not at the start of a tick while it publishes.                          *)
Causes ==
  /\ \A t \in Tickers, e \in Events :
       /\ task[t][e] # "none" => e \in created /\ t \notin ticking
       /\ task[t][e] = "mark" => e \in confirmed
  /\ \A e \in Events : e \in confirmed => e \in created
  /\ PublishedWasConfirmed
  /\ PublishedIsAtRest

(* Causes is inductive: every step keeps the order exists, confirmed, marked. *)
LEMMA CausesInductive == TypeOK /\ Causes /\ [Next]_vars => Causes'
<1> SUFFICES ASSUME TypeOK, Causes, [Next]_vars PROVE Causes'
  OBVIOUS
<1> USE DEF Causes, TypeOK, OutboxRow, PublishedWasConfirmed, PublishedIsAtRest
<1>1. ASSUME NEW e \in Events, CreateUser(e) \/ Age(e) PROVE Causes'
  <2>1. CASE CreateUser(e)
    BY <2>1 DEF CreateUser
  <2>2. CASE Age(e)
    BY <2>2 DEF Age
  <2> QED BY <1>1, <2>1, <2>2
<1>2. ASSUME NEW t \in Tickers, SweepStuck(t) PROVE Causes'
  BY <1>2 DEF SweepStuck, Resting, Stuck
<1>3. ASSUME NEW t \in Tickers, NEW locked, ClaimBatch(t, locked)
      PROVE Causes'
  <2> DEFINE batch == Oldest(Eligible \ locked, BatchSize)
  <2>1. \A e \in batch : e \in created /\ outbox[e].publishedAt = "null"
    BY DEF Oldest, Eligible
  <2> HIDE DEF batch
  <2>2. outbox' = [e \in Events |->
          IF e \in batch THEN [outbox[e] EXCEPT !.startedAt = "fresh"]
                         ELSE outbox[e]]
    BY <1>3 DEF ClaimBatch, batch
  <2>3. task' = [task EXCEPT ![t] =
          [e \in Events |-> IF e \in batch THEN "publish" ELSE "none"]]
    BY <1>3 DEF ClaimBatch, batch
  <2>4. ticking' = ticking \ {t} /\ UNCHANGED <<created, confirmed>>
    BY <1>3 DEF ClaimBatch
  <2> QED BY <2>1, <2>2, <2>3, <2>4
<1>4. ASSUME NEW t \in Tickers, NEW e \in Events,
             Publish(t, e) \/ PublishFails(t, e)
      PROVE Causes'
  <2>1. PICK x \in {"none", "mark"} :
          /\ task' = [task EXCEPT ![t][e] = x]
          /\ x = "mark" => e \in confirmed'
    BY <1>4 DEF Publish, PublishFails, Taken
  <2>2. \A u \in Tickers, d \in Events :
          task'[u][d] = IF u = t /\ d = e THEN x ELSE task[u][d]
    BY <2>1, TaskEdit DEF Tasks
  <2>3. /\ UNCHANGED <<created, outbox, ticking>>
        /\ confirmed' \in {confirmed, confirmed \cup {e}}
        /\ task[t][e] = "publish"
    BY <1>4 DEF Publish, PublishFails, Taken
  <2> QED BY <2>1, <2>2, <2>3
<1>5. ASSUME NEW t \in Tickers, NEW e \in Events,
             MarkPublished(t, e) \/ MarkFails(t, e)
      PROVE Causes'
  <2>1. \A u \in Tickers, d \in Events :
          task'[u][d] = IF u = t /\ d = e THEN "none" ELSE task[u][d]
    BY <1>5, TaskEdit DEF Tasks, MarkPublished, MarkFails
  <2>2. UNCHANGED <<created, ticking, confirmed>> /\ task[t][e] = "mark"
    BY <1>5 DEF MarkPublished, MarkFails
  <2>3. \A d \in Events : \/ outbox'[d] = outbox[d]
                          \/ d = e /\ outbox'[d].startedAt = "null"
    BY <1>5, MarkEdit
  <2> QED BY <2>1, <2>2, <2>3
<1>6. ASSUME NEW t \in Tickers, TickDies(t) PROVE Causes'
  BY <1>6 DEF TickDies
<1>7. CASE BindIngestQueue
  BY <1>7 DEF BindIngestQueue
<1>8. CASE UNCHANGED vars
  BY <1>8 DEF vars
<1>9. ASSUME NEW t \in Tickers, NEW e \in Events, ConfirmLost(t, e)
      PROVE Causes'
  <2>1. /\ UNCHANGED <<created, outbox, task, ticking>>
        /\ confirmed' = confirmed \cup {e} /\ e \in created
    BY <1>9 DEF ConfirmLost, Taken
  <2> QED BY <2>1
<1> QED BY <1>1, <1>2, <1>3, <1>4, <1>5, <1>6, <1>7, <1>8, <1>9
        DEF Next, TickStep, PublishOne

(* Causes holds of every reachable state.                                     *)
LEMMA CausesHold == Spec => []Causes
<1>1. Init => Causes
  BY DEF Init, Causes, PublishedWasConfirmed, PublishedIsAtRest
<1> QED BY <1>1, CausesInductive, TypeCorrect, PTL DEF Spec

(* A published row carries no claim, although publishers whose claims were    *)
(* swept go on and mark it again.                                             *)
THEOREM PublishedRowsRest == Spec => []PublishedIsAtRest
<1>1. Causes => PublishedIsAtRest
  BY DEF Causes
<1> QED BY <1>1, CausesHold, PTL

-----------------------------------------------------------------------------
\* What pays for the copies of a row beyond the first.
Dues(e) == sweeps[e] + resends[e]

(* A row that can be claimed has a sweep or a resend left to pay for the next *)
(* copy.                                                                      *)
Paid ==
  \A e \in Events :
    /\ queued[e] + Cardinality(Sending(e)) <= 1 + Dues(e)
    /\ outbox[e].publishedAt = "null" /\ outbox[e].startedAt = "null"
         => queued[e] + Cardinality(Sending(e)) <= Dues(e)

(* The replicas publishing a row are finitely many, and there is one less     *)
(* when one of them is done.                                                  *)
LEMMA SendingCount ==
  ASSUME NEW S \in SUBSET Tickers
  PROVE  /\ IsFiniteSet(S)
         /\ Cardinality(S) \in Nat
         /\ \A T \in SUBSET S : Cardinality(T) \in Nat /\ Cardinality(T) <= Cardinality(S)
         /\ \A t \in S : Cardinality(S \ {t}) = Cardinality(S) - 1
         /\ \A t \in Tickers \ S : Cardinality(S \cup {t}) = Cardinality(S) + 1
<1>1. IsFiniteSet(S)
  BY TickersAssumption, FS_Subset
<1>2. \A T \in SUBSET S : IsFiniteSet(T) /\ Cardinality(T) <= Cardinality(S)
  BY <1>1, FS_Subset
<1>3. Cardinality(S) \in Nat /\ \A T \in SUBSET S : Cardinality(T) \in Nat
  BY <1>1, <1>2, FS_CardinalityType
<1>4. \A t \in S : Cardinality(S \ {t}) = Cardinality(S) - 1
  BY <1>1, FS_RemoveElement
<1>5. \A t \in Tickers \ S : Cardinality(S \cup {t}) = Cardinality(S) + 1
  BY <1>1, FS_AddElement
<1> QED BY <1>1, <1>2, <1>3, <1>4, <1>5

(* A step keeps a row's account unless it sends more copies than it pays for: *)
(* the account looks only at these five quantities.                           *)
LEMMA AccountKept ==
  ASSUME TypeOK, Paid, NEW e \in Events,
         Dues(e)' \in Nat, queued'[e] \in Nat, Cardinality(Sending(e)') \in Nat,
         queued'[e] + Cardinality(Sending(e)')
           <= queued[e] + Cardinality(Sending(e)),
         Dues(e)' >= Dues(e),
         \/ Dues(e)' > Dues(e)
         \/ outbox'[e] = outbox[e]
         \/ outbox'[e].publishedAt # "null"
         \/ outbox'[e].startedAt # "null"
  PROVE  /\ queued'[e] + Cardinality(Sending(e)') <= 1 + Dues(e)'
         /\ outbox'[e].publishedAt = "null" /\ outbox'[e].startedAt = "null"
              => queued'[e] + Cardinality(Sending(e)') <= Dues(e)'
<1> DEFINE c == Cardinality(Sending(e))
           d == Cardinality(Sending(e)')
<1>1. c \in Nat
  BY SendingCount DEF Sending
<1>2. /\ queued[e] \in Nat /\ Dues(e) \in Nat
      /\ queued[e] + c <= 1 + Dues(e)
      /\ outbox[e].publishedAt = "null" /\ outbox[e].startedAt = "null"
           => queued[e] + c <= Dues(e)
  BY DEF TypeOK, Paid, Dues
<1>3. d \in Nat /\ queued'[e] + d <= queued[e] + c
  OBVIOUS
<1> HIDE DEF c, d
<1> QED BY <1>1, <1>2, <1>3 DEF c, d

(* Paid is inductive.                                                         *)
LEMMA PaidInductive ==
  TypeOK /\ TypeOK' /\ Causes /\ Paid /\ [Next]_vars => Paid'
<1> SUFFICES ASSUME TypeOK, TypeOK', Causes, Paid, [Next]_vars, NEW e \in Events
             PROVE  /\ queued'[e] + Cardinality(Sending(e)') <= 1 + Dues(e)'
                    /\ outbox'[e].publishedAt = "null"
                         /\ outbox'[e].startedAt = "null"
                         => queued'[e] + Cardinality(Sending(e)') <= Dues(e)'
  BY DEF Paid
<1> DEFINE Goal == /\ queued'[e] + Cardinality(Sending(e)') <= 1 + Dues(e)'
                   /\ outbox'[e].publishedAt = "null"
                        /\ outbox'[e].startedAt = "null"
                        => queued'[e] + Cardinality(Sending(e)') <= Dues(e)'
<1>0. /\ Sending(e) \in SUBSET Tickers /\ Sending(e)' \in SUBSET Tickers
      /\ Cardinality(Sending(e)) \in Nat /\ Cardinality(Sending(e)') \in Nat
      /\ sweeps[e] \in Nat /\ sweeps'[e] \in Nat
      /\ resends[e] \in Nat /\ resends'[e] \in Nat
      /\ queued[e] \in Nat /\ queued'[e] \in Nat
  BY SendingCount DEF Sending, TypeOK
<1> USE DEF Dues
<1>1. ASSUME UNCHANGED <<task, queued, sweeps, resends>>,
             outbox'[e] = outbox[e] \/ outbox'[e].startedAt # "null"
      PROVE  Goal
  <2>1. Sending(e)' = Sending(e)
    BY <1>1 DEF Sending
  <2> QED BY <1>0, <1>1, <2>1, AccountKept
<1>2. ASSUME NEW d \in Events, CreateUser(d) \/ Age(d) PROVE Goal
  <2>1. /\ UNCHANGED <<task, queued, sweeps, resends>>
        /\ outbox'[e] = outbox[e] \/ outbox'[e].startedAt # "null"
    BY <1>2 DEF CreateUser, Age, TypeOK, OutboxRow
  <2> QED BY <2>1, <1>1
<1>3. ASSUME NEW t \in Tickers, SweepStuck(t) PROVE Goal
  <2>1. /\ Sending(e)' = Sending(e) /\ queued'[e] = queued[e]
        /\ \/ sweeps'[e] = sweeps[e] /\ outbox'[e] = outbox[e]
           \/ sweeps'[e] = sweeps[e] + 1
        /\ resends' = resends
    BY <1>3 DEF SweepStuck, Sending, TypeOK
  <2> QED BY <1>0, <2>1, AccountKept
<1>4. ASSUME NEW t \in Tickers, NEW locked, ClaimBatch(t, locked) PROVE Goal
  <2> DEFINE batch == Oldest(Eligible \ locked, BatchSize)
  <2>1. e \in batch => /\ outbox[e].publishedAt = "null"
                      /\ outbox[e].startedAt = "null"
    BY DEF Oldest, Eligible
  <2>2. t \notin Sending(e)
    BY <1>4 DEF ClaimBatch, Causes, Sending
  <2> HIDE DEF batch
  <2>3. /\ outbox'[e] = IF e \in batch
                        THEN [outbox[e] EXCEPT !.startedAt = "fresh"]
                        ELSE outbox[e]
        /\ UNCHANGED <<queued, sweeps, resends>>
    BY <1>4 DEF ClaimBatch, batch
  <2>4. task' = [task EXCEPT ![t] =
          [d \in Events |-> IF d \in batch THEN "publish" ELSE "none"]]
    BY <1>4 DEF ClaimBatch, batch
  <2>5. CASE e \in batch
    <3>1. Sending(e)' = Sending(e) \cup {t}
      BY <2>4, <2>5 DEF Sending, TypeOK
    <3>2. Cardinality(Sending(e)') = Cardinality(Sending(e)) + 1
      BY <3>1, <2>2, <1>0, SendingCount
    <3>3. outbox'[e].startedAt = "fresh"
      BY <2>3, <2>5 DEF TypeOK, OutboxRow
    <3>4. queued[e] + Cardinality(Sending(e)) <= Dues(e)
      BY <2>1, <2>5 DEF Paid
    <3> QED BY <1>0, <2>3, <3>2, <3>3, <3>4
  <2>6. CASE e \notin batch
    <3>1. Sending(e)' = Sending(e)
      BY <2>2, <2>4, <2>6 DEF Sending, TypeOK
    <3> QED BY <1>0, <2>3, <2>6, <3>1, AccountKept
  <2> QED BY <2>5, <2>6
<1>5. ASSUME NEW t \in Tickers, NEW d \in Events,
             Publish(t, d) \/ PublishFails(t, d)
      PROVE  Goal
  <2>1. PICK x \in {"none", "mark"} : task' = [task EXCEPT ![t][d] = x]
    BY <1>5 DEF Publish, PublishFails
  <2>2. /\ UNCHANGED <<outbox, sweeps, resends>>
        /\ task[t][d] = "publish"
    BY <1>5 DEF Publish, PublishFails
  <2>3. /\ queued' \in {queued, [queued EXCEPT ![d] = @ + 1]}
    BY <1>5 DEF Publish, PublishFails, Taken
  <2>4. CASE e = d
    <3>1. Sending(e)' = Sending(e) \ {t} /\ t \in Sending(e)
      BY <2>1, <2>2, <2>4, TaskEdit DEF Sending, TypeOK, Tasks
    <3>2. Cardinality(Sending(e)') = Cardinality(Sending(e)) - 1
      BY <3>1, <1>0, SendingCount
    <3>3. queued'[e] \in {queued[e], queued[e] + 1}
      BY <2>3, <2>4 DEF TypeOK
    <3> QED BY <1>0, <2>2, <3>2, <3>3, AccountKept
  <2>5. CASE e # d
    <3>1. Sending(e)' = Sending(e)
      BY <2>1, <2>5, TaskEdit DEF Sending, TypeOK, Tasks
    <3>2. queued'[e] = queued[e]
      BY <2>3, <2>5 DEF TypeOK
    <3> QED BY <1>0, <2>2, <3>1, <3>2, AccountKept
  <2> QED BY <2>4, <2>5
<1>6. ASSUME NEW t \in Tickers, NEW d \in Events,
             MarkPublished(t, d) \/ MarkFails(t, d)
      PROVE  Goal
  <2>1. /\ task' = [task EXCEPT ![t][d] = "none"] /\ task[t][d] = "mark"
        /\ UNCHANGED <<queued, sweeps, resends>>
    BY <1>6 DEF MarkPublished, MarkFails
  <2>3. outbox'[e] = outbox[e] \/ outbox'[e].publishedAt # "null"
    BY <1>6, MarkEdit DEF TypeOK
  <2>2. Sending(e)' = Sending(e)
    BY <2>1, TaskEdit DEF Sending, TypeOK, Tasks
  <2> QED BY <1>0, <2>1, <2>2, <2>3, AccountKept
<1>7. ASSUME NEW t \in Tickers, TickDies(t) PROVE Goal
  <2>1. Sending(e)' \in SUBSET Sending(e)
    BY <1>7 DEF TickDies, Sending, TypeOK
  <2>2. Cardinality(Sending(e)') <= Cardinality(Sending(e))
    BY <2>1, <1>0, SendingCount
  <2>3. UNCHANGED <<outbox, queued, sweeps, resends>>
    BY <1>7 DEF TickDies
  <2> QED BY <1>0, <2>2, <2>3, AccountKept
<1>8. CASE BindIngestQueue \/ UNCHANGED vars
  BY <1>8, <1>1 DEF BindIngestQueue, vars
<1>9. ASSUME NEW t \in Tickers, NEW d \in Events, ConfirmLost(t, d) PROVE Goal
  <2>1. UNCHANGED <<task, outbox, sweeps>>
    BY <1>9 DEF ConfirmLost
  <2>2. Sending(e)' = Sending(e)
    BY <2>1 DEF Sending
  <2>3. CASE e = d
    <3>1. queued'[e] \in {queued[e], queued[e] + 1} /\ resends'[e] = resends[e] + 1
      BY <1>9, <2>3 DEF ConfirmLost, Taken, TypeOK
    <3>2. /\ queued[e] + Cardinality(Sending(e)) <= 1 + Dues(e)
          /\ outbox[e].publishedAt = "null" /\ outbox[e].startedAt = "null"
               => queued[e] + Cardinality(Sending(e)) <= Dues(e)
      BY DEF Paid
    <3> QED BY <1>0, <2>1, <2>2, <3>1, <3>2
  <2>4. CASE e # d
    <3>1. queued'[e] = queued[e] /\ resends'[e] = resends[e]
      BY <1>9, <2>4 DEF ConfirmLost, Taken, TypeOK
    <3> QED BY <1>0, <2>1, <2>2, <3>1, AccountKept
  <2> QED BY <2>3, <2>4
<1> QED BY <1>2, <1>3, <1>4, <1>5, <1>6, <1>7, <1>8, <1>9
        DEF Next, TickStep, PublishOne

(* Every copy of an event in the notifier's queue or about to be sent there,  *)
(* beyond the first, goes back to a sweep of its row or to a lost confirm.    *)
THEOREM CopiesArePaid == Spec => []CopiesPaid
<1>1. Init => Paid
  <2> SUFFICES ASSUME Init, NEW e \in Events
               PROVE queued[e] + Cardinality(Sending(e)) <= Dues(e)
                     /\ queued[e] + Cardinality(Sending(e)) <= 1 + Dues(e)
    BY DEF Paid
  <2>1. Sending(e) = {}
    BY DEF Init, Sending
  <2> QED BY <2>1, FS_EmptySet DEF Init, Dues
<1>2. TypeOK /\ Paid => CopiesPaid
  BY DEF TypeOK, Paid, CopiesPaid, Dues
<1> QED BY <1>1, <1>2, PaidInductive, TypeCorrect, CausesHold, PTL DEF Spec

-----------------------------------------------------------------------------
(* Every step of the outbox is a step of the abstract promise or a stutter.   *)
LEMMA StepsKeepPromise ==
  TypeOK /\ Causes /\ [Next]_vars => [Promise!Next]_(Promise!vars)
<1> SUFFICES ASSUME TypeOK, Causes, [Next]_vars
             PROVE  [Promise!Next]_(Promise!vars)
  OBVIOUS
<1> DEFINE Settled == {e \in Events : outbox[e].publishedAt = "set"}
<1> USE DEF TypeOK, OutboxRow
<1>0. /\ Promise!vars = <<created, confirmed, Settled>>
      /\ Promise!vars' = <<created', confirmed', Settled'>>
  BY DEF Promise!vars
<1>1. ASSUME NEW e \in Events, CreateUser(e) PROVE Promise!Create(e)
  <2>1. created' = created \cup {e} /\ Settled' = Settled /\ e \notin created
    BY <1>1 DEF CreateUser
  <2> QED BY <2>1, <1>1 DEF CreateUser, Promise!Create
<1>2. ASSUME NEW t \in Tickers, NEW e \in Events,
             Publish(t, e) \/ ConfirmLost(t, e) \/ PublishFails(t, e)
      PROVE  Promise!Send(e) \/ UNCHANGED Promise!vars
  <2>1. UNCHANGED <<created, Settled>> /\ e \in created
    BY <1>2 DEF Publish, ConfirmLost, PublishFails, Causes
  <2>2. confirmed' \in {confirmed, confirmed \cup {e}}
    BY <1>2 DEF Publish, ConfirmLost, PublishFails, Taken
  <2> QED BY <2>1, <2>2, <1>0 DEF Promise!Send
<1>3. ASSUME NEW t \in Tickers, NEW e \in Events, MarkPublished(t, e)
      PROVE  Promise!Settle(e)
  <2>1. Settled' = Settled \cup {e} /\ created' = created
    BY <1>3 DEF MarkPublished
  <2> QED BY <2>1, <1>3 DEF MarkPublished, Causes, Promise!Settle
<1>4. ASSUME UNCHANGED <<created, confirmed, Settled>>
      PROVE  UNCHANGED Promise!vars
  BY <1>4, <1>0
<1>5. ASSUME NEW e \in Events, Age(e)
      PROVE  UNCHANGED <<created, confirmed, Settled>>
  BY <1>5 DEF Age
<1>6. ASSUME NEW t \in Tickers, SweepStuck(t)
      PROVE  UNCHANGED <<created, confirmed, Settled>>
  BY <1>6 DEF SweepStuck
<1>7. ASSUME NEW t \in Tickers, NEW locked, ClaimBatch(t, locked)
      PROVE  UNCHANGED <<created, confirmed, Settled>>
  BY <1>7 DEF ClaimBatch
<1>8. ASSUME NEW t \in Tickers, TickDies(t) \/ \E e \in Events : MarkFails(t, e)
      PROVE  UNCHANGED <<created, confirmed, Settled>>
  BY <1>8 DEF TickDies, MarkFails
<1>9. ASSUME BindIngestQueue \/ UNCHANGED vars
      PROVE  UNCHANGED <<created, confirmed, Settled>>
  BY <1>9 DEF BindIngestQueue, vars
<1> QED
  BY <1>1, <1>2, <1>3, <1>4, <1>5, <1>6, <1>7, <1>8, <1>9
     DEF Next, TickStep, PublishOne, Promise!Next

(* The outbox implements the safety part of its promise: an event is settled  *)
(* only after it was sent, and sent only after it was created.                *)
THEOREM ImplementsPromise == Spec => Promise!SafeSpec
<1>1. Init => Promise!Init
  BY DEF Init, Promise!Init
<1> QED BY <1>1, StepsKeepPromise, TypeCorrect, CausesHold, PTL
        DEF Spec, Promise!SafeSpec
=============================================================================
