-------------------------- MODULE RetryQueueProofs ---------------------------
(***************************************************************************)
(* The timing of a claimed notification, for every policy of the catalog,  *)
(* every number of notifications and handlers, and all timeouts.  In       *)
(* notifier.push-send.retry a message never waits longer for its turn than *)
(* the delay of a message published before it allows, so a blocked head    *)
(* costs nothing over LongestBackoff.  In notifier.push-send it never      *)
(* waits longer than the calls of all other rows, shared by the handlers:  *)
(* the time the handlers still need, and that of the messages ahead of it, *)
(* shrink as fast as it waits.  So a claim's age is bounded by its         *)
(* attempts.                                                               *)
(***************************************************************************)
EXTENDS RetryQueue, FiniteSetTheorems, FunctionTheorems, TLAPS

\* Every waiting row has its one message in notifier.push-send.retry.
RetryMatched ==
  /\ \A i, j \in DOMAIN retry : retry[i].id = retry[j].id => i = j
  /\ \A i \in DOMAIN retry : row[retry[i].id].pc = "wait"
  /\ \A n \in Rows : row[n].pc = "wait" => \E i \in DOMAIN retry : retry[i].id = n

\* What a row has waited and what is left of any TTL ahead of it.
BlockedBounded ==
  \A i, j \in DOMAIN retry :
    i <= j => row[retry[j].id].spent + retry[i].ttl <= LongestBackoff

\* Every queued row has its one message in notifier.push-send.
WorkMatched ==
  /\ \A i, j \in DOMAIN work : work[i] = work[j] => i = j
  /\ \A i \in DOMAIN work : row[work[i]].pc = "queued"
  /\ \A n \in Rows : row[n].pc = "queued" => \E i \in DOMAIN work : work[i] = n

\* The longest a row keeps a handler busy.
Turn == HttpTimeout + StepTime

\* How much longer a row may keep its handler busy.
Left(n) == IF row[n].pc = "send" THEN (HttpTimeout - row[n].spent) + StepTime
                                 ELSE StepTime - row[n].spent

\* The handlers' time that all rows but one may take.
Capacity == (Cardinality(Rows) - 1) * Turn

\* The busy time left in the handlers, one element for every unit of it.
Busy == {x \in InHandler \X (1..Turn) : x[2] <= Left(x[1])}

\* What a message has waited, what the handlers still need for theirs, and what
\* they will need for the messages ahead of it.
WorkBounded ==
  /\ Cardinality(InHandler) <= Slots
  /\ \A i \in DOMAIN work :
       Slots * row[work[i]].spent + Cardinality(Busy) + (i - 1) * Turn <= Capacity

\* One wait for a handler, the call, and the longest wait after it.
Round == LongestQueue + Turn + LongestBackoff

\* A row's age is the time of its attempts so far and of its stages in this one.
AgeBounded(n) ==
  /\ row[n].pc = "pending" => row[n].attempts = 0 /\ row[n].age = 0
  /\ row[n].pc = "claimed" => /\ row[n].attempts = 0
                              /\ row[n].age <= row[n].spent
                              /\ row[n].spent <= StepTime
  /\ row[n].pc = "queued" =>
       row[n].age <= StepTime + row[n].attempts * Round + row[n].spent
  /\ row[n].pc = "send" =>
       /\ row[n].age <= StepTime + row[n].attempts * Round + LongestQueue + row[n].spent
       /\ row[n].spent <= HttpTimeout
  /\ row[n].pc = "record" =>
       /\ row[n].age <= StepTime + row[n].attempts * Round + LongestQueue + HttpTimeout
                          + row[n].spent
       /\ row[n].spent <= StepTime
  /\ row[n].pc = "wait" =>
       /\ row[n].attempts > 0
       /\ row[n].age <= StepTime + (row[n].attempts - 1) * Round + LongestQueue + Turn
                          + row[n].spent

TimingInv ==
  /\ TypeOK
  /\ RetryMatched /\ BlockedBounded
  /\ WorkMatched /\ WorkBounded
  /\ \A n \in Rows : AgeBounded(n)

-----------------------------------------------------------------------------
(* The numbers of the policy and of the handlers.                             *)
LEMMA Constants ==
  /\ Policy.maxAttempts \in Nat /\ Policy.maxAttempts >= 1
  /\ HttpTimeout \in Nat /\ StepTime \in Nat /\ RecoveryThreshold \in Nat
  /\ LongestBackoff \in Nat /\ Slots \in Nat /\ Slots >= 1
  /\ Turn \in Nat /\ Cardinality(Rows) \in Nat
<1>1. Policy.maxAttempts \in Nat \ {0}  BY PolicyAssumption
<1>2. Cardinality(Rows) \in Nat  BY RowsAssumption, FS_CardinalityType
<1> QED  BY <1>1, <1>2, BackoffAssumption, TimesAssumption DEF Turn

(* The longest wait for a handler, if there is a row to wait.                 *)
LEMMA QueueConstants ==
  ASSUME Rows # {}
  PROVE  /\ Cardinality(Rows) - 1 \in Nat /\ Capacity \in Nat
         /\ LongestQueue \in Nat /\ Round \in Nat
         /\ \A s \in Nat : Slots * s <= Capacity => s <= LongestQueue
<1>1. Cardinality(Rows) # 0  BY RowsAssumption, FS_EmptySet
<1>2. Cardinality(Rows) - 1 \in Nat  BY <1>1, Constants
<1>3. \A a, b \in Nat : a * b \in Nat  OBVIOUS
<1>4. Capacity \in Nat  BY <1>2, <1>3, Constants DEF Capacity
<1>5. LongestQueue = Capacity \div Slots  BY DEF LongestQueue, Capacity, Turn
<1>6. \A a \in Nat, b \in Nat \ {0} : a \div b \in Nat  OBVIOUS
<1>7. \A a, s \in Nat, b \in Nat \ {0} : b * s <= a => s <= a \div b  OBVIOUS
<1>8. Slots \in Nat \ {0}  BY Constants
<1>9. LongestQueue \in Nat  BY <1>4, <1>5, <1>6, <1>8
<1>10. \A s \in Nat : Slots * s <= Capacity => s <= LongestQueue
  BY <1>4, <1>5, <1>7, <1>8
<1> QED  BY <1>2, <1>4, <1>9, <1>10, Constants DEF Round

(* Products of numbers grow with their factors.                               *)
LEMMA Products ==
  ASSUME NEW a \in Nat, NEW b \in Nat, NEW c \in Nat, a <= b
  PROVE  /\ a * c \in Nat /\ b * c \in Nat
         /\ a * c <= b * c
         /\ (a + 1) * c = a * c + c
         /\ c * (a + 1) = c * a + c
<1>1. b = a + (b - a) /\ b - a \in Nat  OBVIOUS
<1>2. PICK d \in Nat : b = a + d  BY <1>1
<1>3. b * c = a * c + d * c  BY <1>2
<1>4. a * c \in Nat /\ b * c \in Nat /\ d * c \in Nat  BY <1>2
<1>5. (a + 1) * c = a * c + c /\ c * (a + 1) = c * a + c  OBVIOUS
<1>6. a * c <= b * c  BY <1>3, <1>4
<1> QED  BY <1>4, <1>5, <1>6

(* The messages of notifier.push-send.retry.                                  *)
LEMMA RetryFields ==
  ASSUME retry \in Seq([id: Rows, ttl: Nat])
  PROVE  /\ Len(retry) \in Nat /\ DOMAIN retry = 1..Len(retry)
         /\ \A i \in DOMAIN retry : retry[i].id \in Rows /\ retry[i].ttl \in Nat
<1> DEFINE Message == [id: Rows, ttl: Nat]
<1>1. \A m \in Message : m.id \in Rows /\ m.ttl \in Nat  OBVIOUS
<1>2. retry \in Seq(Message)  OBVIOUS
<1> HIDE DEF Message
<1>3. Len(retry) \in Nat /\ DOMAIN retry = 1..Len(retry)  BY <1>2
<1>4. \A i \in DOMAIN retry : retry[i] \in Message  BY <1>2, <1>3
<1> QED  BY <1>1, <1>3, <1>4

(* The messages of notifier.push-send.                                        *)
LEMMA WorkFields ==
  ASSUME work \in Seq(Rows)
  PROVE  /\ Len(work) \in Nat /\ DOMAIN work = 1..Len(work)
         /\ \A i \in DOMAIN work : work[i] \in Rows /\ i \in Nat /\ i >= 1
OBVIOUS

(* What the records that the steps write hold.                                *)
LEMMA RowFields ==
  ASSUME NEW r \in Row
  PROVE  /\ r.pc \in Stages
         /\ r.attempts \in 0..Policy.maxAttempts - 1 /\ r.attempts \in Nat
         /\ r.age \in Nat /\ r.spent \in Nat
BY Constants DEF Row

(* A row whose next stage begins.                                             *)
LEMMA MovedRow ==
  ASSUME NEW n, row[n] \in Row, NEW pc \in Stages
  PROVE  /\ Moved(n, pc) \in Row
         /\ Moved(n, pc).pc = pc /\ Moved(n, pc).attempts = row[n].attempts
         /\ Moved(n, pc).age = row[n].age /\ Moved(n, pc).spent = 0
BY DEF Moved, Row

(* A place that no notification holds.                                        *)
LEMMA PendingRow ==
  /\ Pending \in Row
  /\ Pending.pc = "pending" /\ Pending.attempts = 0 /\ Pending.age = 0
  /\ Pending.spent = 0
BY Constants DEF Pending, Row, Stages

(* A row one unit of time later.                                              *)
LEMMA AgedRow ==
  ASSUME NEW n, row[n] \in Row
  PROVE  /\ Aged(n) \in Row
         /\ Aged(n).pc = row[n].pc /\ Aged(n).attempts = row[n].attempts
         /\ row[n].pc # "pending" =>
              Aged(n).age = row[n].age + 1 /\ Aged(n).spent = row[n].spent + 1
         /\ row[n].pc = "pending" => Aged(n).age = row[n].age
<1>1. CASE row[n].pc # "pending"
  <2>1. row[n].age + 1 \in Nat /\ row[n].spent + 1 \in Nat  BY DEF Row
  <2>2. Aged(n) = [row[n] EXCEPT !.age = row[n].age + 1, !.spent = row[n].spent + 1]
    BY <1>1 DEF Aged
  <2>3. Aged(n) \in Row  BY <2>1, <2>2 DEF Row
  <2>4. /\ Aged(n).pc = row[n].pc /\ Aged(n).attempts = row[n].attempts
        /\ Aged(n).age = row[n].age + 1 /\ Aged(n).spent = row[n].spent + 1
    BY <2>2 DEF Row
  <2> QED  BY <1>1, <2>3, <2>4
<1>2. CASE row[n].pc = "pending"  BY <1>2 DEF Aged, Row
<1> QED  BY <1>1, <1>2

(* A row that a step leaves alone keeps its bound.                            *)
LEMMA AgeKept ==
  ASSUME NEW n, AgeBounded(n), row'[n] = row[n]
  PROVE  AgeBounded(n)'
BY DEF AgeBounded

-----------------------------------------------------------------------------
(* What is left of a set without a part of it.                                *)
LEMMA Remaining ==
  ASSUME NEW S, IsFiniteSet(S), NEW T \in SUBSET S
  PROVE  IsFiniteSet(S \ T) /\ Cardinality(S \ T) = Cardinality(S) - Cardinality(T)
<1>1. Cardinality(S \ T) = Cardinality(S) - Cardinality(S \cap T) /\ IsFiniteSet(S \ T)
  BY FS_Difference
<1>2. S \cap T = T  OBVIOUS
<1> QED  BY <1>1, <1>2

(* The rows in handlers and their busy time are finite, and the time is no    *)
(* more than a turn for each.                                                 *)
LEMMA BusyFinite ==
  ASSUME NEW H \in SUBSET Rows, NEW B \in SUBSET (H \X (1..Turn))
  PROVE  /\ IsFiniteSet(H) /\ IsFiniteSet(B)
         /\ Cardinality(H) \in Nat /\ Cardinality(B) \in Nat
         /\ Cardinality(B) <= Cardinality(H) * Turn
<1>1. IsFiniteSet(H) /\ Cardinality(H) \in Nat
  BY RowsAssumption, FS_Subset, FS_CardinalityType
<1>2. IsFiniteSet(1..Turn) /\ Cardinality(1..Turn) = Turn
  <2>1. 1 \in Int /\ Turn \in Int /\ Turn \in Nat  BY Constants
  <2>2. /\ IsFiniteSet(1..Turn)
        /\ Cardinality(1..Turn) = IF 1 > Turn THEN 0 ELSE Turn - 1 + 1
    BY ONLY <2>1, FS_Interval
  <2> QED  BY <2>1, <2>2
<1>3. /\ IsFiniteSet(H \X (1..Turn))
      /\ Cardinality(H \X (1..Turn)) = Cardinality(H) * Turn
  BY <1>1, <1>2, FS_Product
<1>4. IsFiniteSet(B) /\ Cardinality(B) <= Cardinality(H) * Turn
  BY <1>3, FS_Subset
<1> QED  BY <1>1, <1>4, FS_CardinalityType

(* Where the handlers and their busy time are.                                *)
LEMMA BusyType ==
  /\ InHandler \in SUBSET Rows /\ Busy \in SUBSET (InHandler \X (1..Turn))
  /\ InHandler' \in SUBSET Rows /\ Busy' \in SUBSET (InHandler' \X (1..Turn))
BY DEF InHandler, Busy

(* Fewer rows in handlers, or less time left, is counted as such.             *)
LEMMA BusyLess ==
  ASSUME InHandler' \subseteq InHandler, Busy' \subseteq Busy
  PROVE  /\ Cardinality(InHandler') <= Cardinality(InHandler)
         /\ Cardinality(Busy') <= Cardinality(Busy)
<1>1. IsFiniteSet(InHandler) /\ IsFiniteSet(Busy)  BY BusyType, BusyFinite
<1> QED  BY <1>1, FS_Subset

-----------------------------------------------------------------------------
(* What a step that changes one row, and not notifier.push-send.retry, keeps  *)
(* there.                                                                     *)
LEMMA RetryKept ==
  ASSUME TimingInv, NEW n \in Rows, NEW r \in Row, row' = [row EXCEPT ![n] = r],
         retry' = retry, row[n].pc # "wait", r.pc # "wait"
  PROVE  RetryMatched' /\ BlockedBounded'
<1>0. row \in [Rows -> Row] /\ retry \in Seq([id: Rows, ttl: Nat])
  BY DEF TimingInv, TypeOK
<1>1. row'[n] = r /\ \A m \in Rows \ {n} : row'[m] = row[m]  BY <1>0
<1>2. \A i \in DOMAIN retry : retry[i].id \in Rows \ {n}
  <2>1. \A i \in DOMAIN retry : row[retry[i].id].pc = "wait"
    BY DEF TimingInv, RetryMatched
  <2> QED  BY <1>0, <2>1, RetryFields
<1>3. RetryMatched'  BY <1>1, <1>2 DEF TimingInv, RetryMatched
<1>4. BlockedBounded'  BY <1>1, <1>2 DEF TimingInv, BlockedBounded
<1> QED  BY <1>3, <1>4

(* Matched messages stay matched if neither they nor their rows change.       *)
LEMMA WorkMatchKept ==
  ASSUME TimingInv, NEW n \in Rows, NEW r \in Row, row' = [row EXCEPT ![n] = r],
         work' = work, row[n].pc # "queued", r.pc # "queued"
  PROVE  /\ WorkMatched'
         /\ \A i \in DOMAIN work' : i \in DOMAIN work /\ row'[work'[i]] = row[work[i]]
<1>0. row \in [Rows -> Row] /\ work \in Seq(Rows)  BY DEF TimingInv, TypeOK
<1>1. row'[n] = r /\ \A m \in Rows \ {n} : row'[m] = row[m]  BY <1>0
<1>2. \A i \in DOMAIN work : work[i] \in Rows \ {n}
  <2>1. \A i \in DOMAIN work : row[work[i]].pc = "queued"
    BY DEF TimingInv, WorkMatched
  <2> QED  BY <1>0, <2>1, WorkFields
<1>3. WorkMatched'  BY <1>1, <1>2 DEF TimingInv, WorkMatched
<1> QED  BY <1>1, <1>2, <1>3

(* What a step that changes one row, and not notifier.push-send, keeps there, *)
(* if the row keeps no handler busy for longer than before.                   *)
LEMMA WorkKept ==
  ASSUME TimingInv, NEW n \in Rows, NEW r \in Row, row' = [row EXCEPT ![n] = r],
         work' = work, row[n].pc # "queued", r.pc # "queued",
         InHandler' \subseteq InHandler, n \in InHandler' => Left(n)' <= Left(n)
  PROVE  WorkMatched' /\ WorkBounded'
<1>0. row \in [Rows -> Row] /\ work \in Seq(Rows)  BY DEF TimingInv, TypeOK
<1>1. row'[n] = r /\ \A m \in Rows \ {n} : row'[m] = row[m]  BY <1>0
<1>2. /\ WorkMatched'
      /\ \A i \in DOMAIN work' : i \in DOMAIN work /\ row'[work'[i]] = row[work[i]]
  BY WorkMatchKept
<1>3. \A m \in Rows : Left(m) \in Int /\ Left(m)' \in Int
  <2> SUFFICES ASSUME NEW m \in Rows PROVE Left(m) \in Int /\ Left(m)' \in Int
    OBVIOUS
  <2>1. row[m] \in Row /\ row'[m] \in Row  BY <1>0, <1>1
  <2>2. row[m].spent \in Nat /\ row'[m].spent \in Nat  BY <2>1, RowFields
  <2> QED  BY <2>2, Constants DEF Left
<1>4. Busy' \subseteq Busy
  <2> SUFFICES ASSUME NEW x \in Busy' PROVE x \in Busy  OBVIOUS
  <2>1. /\ x \in InHandler' \X (1..Turn) /\ x[2] <= Left(x[1])'
        /\ x[1] \in InHandler' /\ x[2] \in Int
    BY DEF Busy
  <2>2. x \in InHandler \X (1..Turn) /\ x[1] \in Rows  BY <2>1, BusyType
  <2>3. Left(x[1])' <= Left(x[1])
    <3>1. CASE x[1] = n  BY <2>1, <3>1
    <3>2. CASE x[1] # n
      <4>1. row'[x[1]] = row[x[1]]  BY <1>1, <2>2, <3>2
      <4>2. Left(x[1])' = Left(x[1])  BY <4>1 DEF Left
      <4> QED  BY <1>3, <2>2, <4>2
    <3> QED  BY <3>1, <3>2
  <2>4. x[2] <= Left(x[1])
    <3>1. \A a, b, c \in Int : a <= b /\ b <= c => a <= c  OBVIOUS
    <3> QED  BY <1>3, <2>1, <2>2, <2>3, <3>1
  <2> QED  BY <2>2, <2>4 DEF Busy
<1>5. /\ Cardinality(InHandler') <= Cardinality(InHandler)
      /\ Cardinality(Busy') <= Cardinality(Busy)
      /\ Cardinality(InHandler) \in Nat /\ Cardinality(InHandler') \in Nat
      /\ Cardinality(Busy) \in Nat /\ Cardinality(Busy') \in Nat
  BY <1>4, BusyLess, BusyType, BusyFinite
<1>6. WorkBounded'
  <2>1. Cardinality(InHandler') <= Slots
    BY <1>5, Constants DEF TimingInv, WorkBounded
  <2>2. ASSUME NEW i \in DOMAIN work'
        PROVE  Slots * row'[work'[i]].spent + Cardinality(Busy') + (i - 1) * Turn
                 <= Capacity
    <3>1. i \in DOMAIN work /\ row'[work'[i]] = row[work[i]]  BY <1>2
    <3>2. Slots * row[work[i]].spent + Cardinality(Busy) + (i - 1) * Turn <= Capacity
      BY <3>1 DEF TimingInv, WorkBounded
    <3>3. work[i] \in Rows /\ i - 1 \in Nat  BY <1>0, <3>1, WorkFields
    <3>4. row[work[i]] \in Row  BY <1>0, <3>3
    <3>5. row[work[i]].spent \in Nat  BY <3>4, RowFields
    <3>6. \A a, b \in Nat : a * b \in Nat  OBVIOUS
    <3>7. Slots * row[work[i]].spent \in Nat /\ (i - 1) * Turn \in Nat
      BY <3>3, <3>5, <3>6, Constants
    <3>8. Capacity \in Nat  BY <3>3, QueueConstants
    <3>9. \A a, b, c, d, e \in Nat : a + b + c <= d /\ e <= b => a + e + c <= d
      OBVIOUS
    <3> QED  BY <1>5, <3>1, <3>2, <3>7, <3>8, <3>9
  <2> QED  BY <2>1, <2>2 DEF WorkBounded
<1> QED  BY <1>2, <1>6

(* A row that leaves its claim or its wait, for the end of the queue: every   *)
(* other row is in a handler or ahead of it, or neither.                      *)
LEMMA WorkJoined ==
  ASSUME TimingInv, NEW n \in Rows, NEW r \in Row, row' = [row EXCEPT ![n] = r],
         work' = Append(work, n), row[n].pc \in {"claimed", "wait"},
         r.pc = "queued", r.spent = 0
  PROVE  WorkMatched' /\ WorkBounded'
<1>0. row \in [Rows -> Row] /\ work \in Seq(Rows)  BY DEF TimingInv, TypeOK
<1>1. row'[n] = r /\ \A m \in Rows \ {n} : row'[m] = row[m]  BY <1>0
<1>2. \A i \in DOMAIN work : work[i] \in Rows \ {n}
  <2>1. \A i \in DOMAIN work : row[work[i]].pc = "queued"
    BY DEF TimingInv, WorkMatched
  <2> QED  BY <1>0, <2>1, WorkFields
<1>3. /\ Len(work) \in Nat /\ DOMAIN work = 1..Len(work)
      /\ DOMAIN work' = 1..(Len(work) + 1)
      /\ \A i \in DOMAIN work : work'[i] = work[i]
      /\ work'[Len(work) + 1] = n
  BY <1>0
<1>4. \A i \in DOMAIN work' : i \in DOMAIN work \/ i = Len(work) + 1  BY <1>3
<1>5. WorkMatched'
  <2>1. ASSUME NEW i \in DOMAIN work', NEW j \in DOMAIN work', work'[i] = work'[j]
        PROVE  i = j
    <3>1. CASE i \in DOMAIN work /\ j \in DOMAIN work
      BY <1>3, <2>1, <3>1 DEF TimingInv, WorkMatched
    <3>2. CASE i \in DOMAIN work /\ j = Len(work) + 1  BY <1>2, <1>3, <2>1, <3>2
    <3>3. CASE i = Len(work) + 1 /\ j \in DOMAIN work  BY <1>2, <1>3, <2>1, <3>3
    <3> QED  BY <1>4, <3>1, <3>2, <3>3
  <2>2. ASSUME NEW i \in DOMAIN work' PROVE row'[work'[i]].pc = "queued"
    <3>1. CASE i \in DOMAIN work  BY <1>1, <1>2, <1>3, <3>1 DEF TimingInv, WorkMatched
    <3>2. CASE i = Len(work) + 1  BY <1>1, <1>3, <3>2
    <3> QED  BY <1>4, <3>1, <3>2
  <2>3. ASSUME NEW m \in Rows, row'[m].pc = "queued"
        PROVE  \E i \in DOMAIN work' : work'[i] = m
    <3>1. CASE m = n
      <4>1. Len(work) + 1 \in DOMAIN work'  BY <1>3
      <4> QED  BY <1>3, <3>1, <4>1
    <3>2. CASE m # n
      <4>1. PICK i \in DOMAIN work : work[i] = m
        BY <1>1, <2>3, <3>2 DEF TimingInv, WorkMatched
      <4>2. i \in DOMAIN work' /\ work'[i] = work[i]  BY <1>3
      <4> QED  BY <4>1, <4>2
    <3> QED  BY <3>1, <3>2
  <2> QED  BY <2>1, <2>2, <2>3 DEF WorkMatched
<1>6. InHandler' = InHandler /\ n \notin InHandler
  BY <1>1 DEF InHandler
<1>7. Busy' = Busy
  <2>1. \A m \in InHandler : Left(m)' = Left(m)
    <3> SUFFICES ASSUME NEW m \in InHandler PROVE Left(m)' = Left(m)  OBVIOUS
    <3>1. m \in Rows \ {n}  BY <1>6, BusyType
    <3>2. row'[m] = row[m]  BY <1>1, <3>1
    <3> QED  BY <3>2 DEF Left
  <2> QED  BY <1>6, <2>1 DEF Busy
<1>8. /\ IsFiniteSet(InHandler)
      /\ Cardinality(InHandler) \in Nat /\ Cardinality(Busy) \in Nat
      /\ Cardinality(Busy) <= Cardinality(InHandler) * Turn
  BY BusyType, BusyFinite
<1>9. Cardinality(InHandler) + Len(work) <= Cardinality(Rows) - 1
  <2> DEFINE Others == Rows \ {n}
             Free == Others \ InHandler
  <2>1. IsFiniteSet(Others) /\ Cardinality(Others) = Cardinality(Rows) - 1
    BY RowsAssumption, FS_RemoveElement
  <2>2. IsFiniteSet(Free) /\ Cardinality(Free) = Cardinality(Others) - Cardinality(InHandler)
    <3>1. InHandler \in SUBSET Others  BY <1>6, BusyType
    <3> HIDE DEF Others
    <3> QED  BY <2>1, <3>1, Remaining
  <2>3. work \in Injection(1..Len(work), Free)
    <3>1. \A i \in DOMAIN work : work[i] \in Free
      BY <1>2 DEF TimingInv, WorkMatched, InHandler
    <3>2. work \in [1..Len(work) -> Free]  BY <1>0, <1>3, <3>1
    <3> QED  BY <1>3, <3>2 DEF TimingInv, WorkMatched, Injection, IsInjective
  <2>4. Cardinality(1..Len(work)) <= Cardinality(Free)
    BY <2>2, <2>3, FS_Injection
  <2>5. Cardinality(1..Len(work)) = Len(work)
    <3>1. 1 \in Int /\ Len(work) \in Int  BY <1>3
    <3>2. Cardinality(1..Len(work)) = IF 1 > Len(work) THEN 0 ELSE Len(work) - 1 + 1
      BY ONLY <3>1, FS_Interval
    <3> QED  BY <1>3, <3>2
  <2>6. Cardinality(Free) \in Nat  BY <2>2, FS_CardinalityType
  <2> HIDE DEF Others, Free
  <2> QED  BY <1>3, <1>8, <2>1, <2>2, <2>4, <2>5, <2>6, Constants
<1>10. Cardinality(Busy) + Len(work) * Turn <= Capacity
  <2>1. Cardinality(Rows) - 1 \in Nat  BY QueueConstants
  <2>2. \A a, b, c \in Nat : (a + b) * c = a * c + b * c /\ a * c \in Nat  OBVIOUS
  <2>3. /\ (Cardinality(InHandler) + Len(work)) * Turn
             = Cardinality(InHandler) * Turn + Len(work) * Turn
        /\ Cardinality(InHandler) * Turn \in Nat /\ Len(work) * Turn \in Nat
    BY <1>3, <1>8, <2>2, Constants
  <2>4. Cardinality(InHandler) + Len(work) \in Nat  BY <1>3, <1>8
  <2>5. (Cardinality(InHandler) + Len(work)) * Turn <= Capacity
    BY <1>9, <2>1, <2>4, Products, Constants DEF Capacity
  <2>6. \A a, b, c, d \in Nat : a <= b /\ b + c <= d => a + c <= d  OBVIOUS
  <2>7. Capacity \in Nat  BY QueueConstants
  <2> QED  BY <1>8, <2>3, <2>5, <2>6, <2>7
<1>11. WorkBounded'
  <2>1. Cardinality(InHandler') <= Slots  BY <1>6 DEF TimingInv, WorkBounded
  <2>2. ASSUME NEW i \in DOMAIN work'
        PROVE  Slots * row'[work'[i]].spent + Cardinality(Busy') + (i - 1) * Turn
                 <= Capacity
    <3>1. CASE i \in DOMAIN work
      <4>1. row'[work'[i]] = row[work[i]]  BY <1>1, <1>2, <1>3, <3>1
      <4>2. Slots * row[work[i]].spent + Cardinality(Busy) + (i - 1) * Turn <= Capacity
        BY <3>1 DEF TimingInv, WorkBounded
      <4> QED  BY <1>7, <4>1, <4>2
    <3>2. CASE i = Len(work) + 1
      <4>1. row'[work'[i]].spent = 0  BY <1>1, <1>3, <3>2
      <4>2. i - 1 = Len(work)  BY <1>3, <3>2
      <4>3. Slots * 0 = 0  BY Constants
      <4>4. Len(work) * Turn \in Nat  BY <1>3, Constants, Products
      <4>5. \A a, b, c \in Nat : a + b <= c => 0 + a + b <= c  OBVIOUS
      <4>6. Capacity \in Nat  BY QueueConstants
      <4>7. 0 + Cardinality(Busy) + Len(work) * Turn <= Capacity
        BY <1>8, <1>10, <4>4, <4>5, <4>6
      <4> QED  BY <1>7, <4>1, <4>2, <4>3, <4>7
    <3> QED  BY <1>4, <3>1, <3>2
  <2> QED  BY <2>1, <2>2 DEF WorkBounded
<1> QED  BY <1>5, <1>11

(* The head gets a handler: what it may take there was counted as that of a   *)
(* message ahead of all others.                                               *)
LEMMA WorkDelivered ==
  ASSUME TimingInv, NEW n \in Rows, NEW r \in Row, row' = [row EXCEPT ![n] = r],
         Deliverable, n = Head(work), work' = Tail(work), r.pc = "send"
  PROVE  WorkMatched' /\ WorkBounded' /\ row[n].pc = "queued"
<1>0. row \in [Rows -> Row] /\ work \in Seq(Rows)  BY DEF TimingInv, TypeOK
<1>1. row'[n] = r /\ \A m \in Rows \ {n} : row'[m] = row[m]  BY <1>0
<1>2. /\ Len(work) \in Nat /\ Len(work) > 0 /\ DOMAIN work = 1..Len(work)
      /\ n = work[1] /\ 1 \in DOMAIN work
      /\ DOMAIN work' = 1..(Len(work) - 1)
      /\ \A i \in DOMAIN work' : work'[i] = work[i + 1]
  BY <1>0 DEF Deliverable
<1>3. row[n].pc = "queued"  BY <1>2 DEF TimingInv, WorkMatched
<1>4. \A i \in DOMAIN work' : i + 1 \in DOMAIN work /\ work[i + 1] \in Rows \ {n}
  <2> SUFFICES ASSUME NEW i \in DOMAIN work'
               PROVE  i + 1 \in DOMAIN work /\ work[i + 1] \in Rows \ {n}
    OBVIOUS
  <2>1. i + 1 \in DOMAIN work /\ i + 1 # 1  BY <1>2
  <2>2. work[i + 1] # work[1]  BY <1>2, <2>1 DEF TimingInv, WorkMatched
  <2> QED  BY <1>0, <1>2, <2>1, <2>2, WorkFields
<1>5. WorkMatched'
  <2>1. ASSUME NEW i \in DOMAIN work', NEW j \in DOMAIN work', work'[i] = work'[j]
        PROVE  i = j
    <3>1. i + 1 = j + 1  BY <1>2, <1>4, <2>1 DEF TimingInv, WorkMatched
    <3>2. i \in Nat /\ j \in Nat  BY <1>2
    <3> QED  BY <3>1, <3>2
  <2>2. ASSUME NEW i \in DOMAIN work' PROVE row'[work'[i]].pc = "queued"
    <3>1. row[work[i + 1]].pc = "queued"  BY <1>4 DEF TimingInv, WorkMatched
    <3> QED  BY <1>1, <1>2, <1>4, <3>1
  <2>3. ASSUME NEW m \in Rows, row'[m].pc = "queued"
        PROVE  \E i \in DOMAIN work' : work'[i] = m
    <3>1. m # n  BY <1>1, <2>3
    <3>2. PICK i \in DOMAIN work : work[i] = m
      BY <1>1, <2>3, <3>1 DEF TimingInv, WorkMatched
    <3>3. i # 1  BY <1>2, <3>1, <3>2
    <3>4. i - 1 \in DOMAIN work' /\ (i - 1) + 1 = i  BY <1>2, <3>3
    <3>5. work'[i - 1] = work[i]  BY <1>2, <3>4
    <3> QED  BY <3>2, <3>4, <3>5
  <2> QED  BY <2>1, <2>2, <2>3 DEF WorkMatched
<1>6. InHandler' = InHandler \cup {n} /\ n \notin InHandler
  BY <1>1, <1>3 DEF InHandler
<1>7. /\ IsFiniteSet(InHandler) /\ IsFiniteSet(Busy)
      /\ Cardinality(InHandler) \in Nat /\ Cardinality(Busy) \in Nat
      /\ Cardinality(Busy') \in Nat
  BY BusyType, BusyFinite
<1>8. Cardinality(InHandler') <= Slots
  <2>1. Cardinality(InHandler') = Cardinality(InHandler) + 1
    BY <1>6, <1>7, FS_AddElement
  <2> QED  BY <1>7, <2>1, Constants DEF Deliverable
<1>9. Cardinality(Busy') <= Cardinality(Busy) + Turn
  <2> DEFINE turn == {n} \X (1..Turn)
  <2>1. Busy' \subseteq Busy \cup turn
    <3> SUFFICES ASSUME NEW x \in Busy', x \notin turn PROVE x \in Busy  OBVIOUS
    <3>1. x \in InHandler' \X (1..Turn) /\ x[2] <= Left(x[1])'  BY DEF Busy
    <3>2. x[1] \in Rows \ {n} /\ x \in InHandler \X (1..Turn)
      BY <1>6, <3>1, BusyType
    <3>3. row'[x[1]] = row[x[1]]  BY <1>1, <3>2
    <3>4. Left(x[1])' = Left(x[1])  BY <3>3 DEF Left
    <3> QED  BY <3>1, <3>2, <3>4 DEF Busy
  <2>2. IsFiniteSet(turn) /\ Cardinality(turn) \in Nat /\ Cardinality(turn) <= Turn
    <3>1. {n} \in SUBSET Rows /\ turn \in SUBSET ({n} \X (1..Turn))  OBVIOUS
    <3>2. Cardinality({n}) = 1  BY FS_Singleton
    <3> HIDE DEF turn
    <3>3. /\ IsFiniteSet(turn) /\ Cardinality(turn) \in Nat
          /\ Cardinality(turn) <= Cardinality({n}) * Turn
      BY <3>1, BusyFinite
    <3>4. 1 * Turn = Turn  BY Constants
    <3> QED  BY <3>2, <3>3, <3>4
  <2> HIDE DEF turn
  <2>3. /\ IsFiniteSet(Busy \cup turn)
        /\ Cardinality(Busy \cup turn)
             = Cardinality(Busy) + Cardinality(turn) - Cardinality(Busy \cap turn)
    BY <1>7, <2>2, FS_Union
  <2>4. Cardinality(Busy') <= Cardinality(Busy \cup turn)
    BY <2>1, <2>3, FS_Subset
  <2>5. Cardinality(Busy \cap turn) \in Nat
    BY <1>7, FS_Intersection, FS_CardinalityType
  <2>6. \A a, b, c, d, e \in Nat : a <= b + c - d /\ c <= e => a <= b + e  OBVIOUS
  <2>7. Cardinality(Busy') <= Cardinality(Busy) + Cardinality(turn)
                                - Cardinality(Busy \cap turn)
    BY <2>3, <2>4
  <2> QED  BY <1>7, <2>2, <2>5, <2>6, <2>7, Constants
<1>10. ASSUME NEW i \in DOMAIN work'
       PROVE  Slots * row'[work'[i]].spent + Cardinality(Busy') + (i - 1) * Turn
                <= Capacity
  <2>1. i + 1 \in DOMAIN work /\ i - 1 \in Nat  BY <1>2, <1>4
  <2>2. work[i + 1] \in Rows \ {n} /\ work'[i] = work[i + 1]  BY <1>2, <1>4
  <2>3. row'[work'[i]] = row[work[i + 1]]  BY <1>1, <2>2
  <2>4. Slots * row[work[i + 1]].spent + Cardinality(Busy) + ((i + 1) - 1) * Turn
          <= Capacity
    BY <2>1 DEF TimingInv, WorkBounded
  <2>5. ((i + 1) - 1) * Turn = (i - 1) * Turn + Turn /\ (i - 1) * Turn \in Nat
    <3>1. (i + 1) - 1 = (i - 1) + 1  BY <2>1
    <3>2. \A a, c \in Nat : (a + 1) * c = a * c + c /\ a * c \in Nat  OBVIOUS
    <3> QED  BY <2>1, <3>1, <3>2, Constants
  <2>6. Slots * row[work[i + 1]].spent \in Nat
    <3>1. row[work[i + 1]] \in Row  BY <1>0, <2>2
    <3>2. row[work[i + 1]].spent \in Nat  BY <3>1, RowFields
    <3>3. \A a, b \in Nat : a * b \in Nat  OBVIOUS
    <3> QED  BY <3>2, <3>3, Constants
  <2>7. \A a, b, c, d, e, t \in Nat : a + b + (c + t) <= d /\ e <= b + t => a + e + c <= d
    OBVIOUS
  <2>8. Capacity \in Nat  BY QueueConstants
  <2>9. Slots * row[work[i + 1]].spent + Cardinality(Busy) + ((i - 1) * Turn + Turn)
          <= Capacity
    BY <2>4, <2>5
  <2>10. Slots * row[work[i + 1]].spent + Cardinality(Busy') + (i - 1) * Turn <= Capacity
    BY ONLY <1>7, <1>9, <2>5, <2>6, <2>7, <2>8, <2>9, Constants
  <2> QED  BY <2>3, <2>10
<1> QED  BY <1>3, <1>5, <1>8, <1>10 DEF WorkBounded

(* While a message waits all handlers are busy, so an instant takes from      *)
(* their busy time as much as it adds to the wait.                            *)
LEMMA WorkAged ==
  ASSUME TimingInv, Pass
  PROVE  WorkMatched' /\ WorkBounded'
<1>0. row \in [Rows -> Row] /\ work \in Seq(Rows)  BY DEF TimingInv, TypeOK
<1>1. /\ ~Deliverable /\ \A n \in Rows : ~TimedOut(n) /\ ~Overdue(n)
      /\ row' = [n \in Rows |-> Aged(n)] /\ work' = work
  BY DEF Pass
<1>2. \A n \in Rows :
        /\ row[n] \in Row /\ row[n].spent \in Nat
        /\ row'[n].pc = row[n].pc
        /\ row[n].pc # "pending" => row'[n].spent = row[n].spent + 1
  <2> SUFFICES ASSUME NEW n \in Rows
               PROVE  /\ row[n] \in Row /\ row[n].spent \in Nat
                      /\ row'[n].pc = row[n].pc
                      /\ row[n].pc # "pending" => row'[n].spent = row[n].spent + 1
    OBVIOUS
  <2>1. row[n] \in Row /\ row'[n] = Aged(n)  BY <1>0, <1>1
  <2>2. row[n].spent \in Nat  BY <2>1, RowFields
  <2> QED  BY <2>1, <2>2, AgedRow
<1>3. \A i \in DOMAIN work : work[i] \in Rows  BY <1>0, WorkFields
<1>4. WorkMatched'  BY <1>1, <1>2, <1>3 DEF TimingInv, WorkMatched
<1>5. InHandler' = InHandler  BY <1>2 DEF InHandler
<1>6. \A n \in InHandler : Left(n) >= 1
  <2> SUFFICES ASSUME NEW n \in InHandler PROVE Left(n) >= 1
    OBVIOUS
  <2>1. n \in Rows /\ row[n].pc \in {"send", "record"}  BY DEF InHandler
  <2>2. row[n].spent \in Nat /\ ~TimedOut(n) /\ ~Overdue(n)  BY <1>1, <1>2, <2>1
  <2>3. CASE row[n].pc = "send"
    <3>1. row[n].spent < HttpTimeout  BY <2>2, <2>3, Constants DEF TimedOut
    <3>2. Left(n) = (HttpTimeout - row[n].spent) + StepTime  BY <2>3 DEF Left
    <3> QED  BY <2>2, <3>1, <3>2, Constants DEF Turn
  <2>4. CASE row[n].pc = "record"
    <3>1. row[n].spent < StepTime  BY <2>2, <2>4, Constants DEF Overdue
    <3>2. Left(n) = StepTime - row[n].spent  BY <2>4 DEF Left
    <3> QED  BY <2>2, <3>1, <3>2, Constants DEF Turn
  <2> QED  BY <2>1, <2>3, <2>4
<1>7. \A n \in InHandler : Left(n) \in 1..Turn /\ Left(n)' = Left(n) - 1
  <2> SUFFICES ASSUME NEW n \in InHandler
               PROVE  Left(n) \in 1..Turn /\ Left(n)' = Left(n) - 1
    OBVIOUS
  <2>1. n \in Rows /\ row[n].pc \in {"send", "record"}  BY DEF InHandler
  <2>2. /\ row[n].spent \in Nat /\ row'[n].pc = row[n].pc
        /\ row'[n].spent = row[n].spent + 1
    BY <1>2, <2>1
  <2>3. Left(n) <= Turn
    BY <2>1, <2>2, Constants DEF Left, Turn
  <2>4. Left(n) \in Int  BY <2>2, Constants DEF Left
  <2>5. Left(n)' = Left(n) - 1  BY <2>2, Constants DEF Left
  <2> QED  BY <1>6, <2>3, <2>4, <2>5, Constants
<1>8. /\ IsFiniteSet(InHandler) /\ IsFiniteSet(Busy)
      /\ Cardinality(InHandler) \in Nat /\ Cardinality(Busy) \in Nat
      /\ Cardinality(Busy') \in Nat
  BY BusyType, BusyFinite
<1>9. Cardinality(Busy') + Cardinality(InHandler) <= Cardinality(Busy)
  <2> DEFINE last == {x \in InHandler \X (1..Turn) : x[2] = Left(x[1])}
  <2>1. last \in SUBSET Busy
    <3> SUFFICES ASSUME NEW x \in last PROVE x \in Busy  OBVIOUS
    <3>1. x \in InHandler \X (1..Turn) /\ x[2] = Left(x[1]) /\ x[2] \in Int  OBVIOUS
    <3> QED  BY <3>1 DEF Busy
  <2>2. Busy' \in SUBSET (Busy \ last)
    <3> SUFFICES ASSUME NEW x \in Busy' PROVE x \in Busy /\ x \notin last  OBVIOUS
    <3>1. x \in InHandler \X (1..Turn) /\ x[2] <= Left(x[1])' /\ x[2] \in Int
      BY <1>5 DEF Busy
    <3>2. Left(x[1]) \in 1..Turn /\ Left(x[1])' = Left(x[1]) - 1  BY <1>7, <3>1
    <3>3. x[2] < Left(x[1])  BY <3>1, <3>2, Constants
    <3> QED  BY <3>1, <3>2, <3>3, Constants DEF Busy
  <2>3. Cardinality(InHandler) <= Cardinality(last)
    <3> DEFINE f == [x \in last |-> x[1]]
    <3>1. f \in [last -> InHandler]  OBVIOUS
    <3>2. \A n \in InHandler : \E x \in last : f[x] = n
      <4> SUFFICES ASSUME NEW n \in InHandler PROVE \E x \in last : f[x] = n  OBVIOUS
      <4>1. <<n, Left(n)>> \in last  BY <1>7
      <4>2. f[<<n, Left(n)>>] = n  BY <4>1
      <4> QED  BY <4>1, <4>2
    <3> HIDE DEF f
    <3>3. f \in Surjection(last, InHandler)  BY <3>1, <3>2 DEF Surjection
    <3>4. IsFiniteSet(last)  BY <1>8, <2>1, FS_Subset
    <3> QED  BY <3>3, <3>4, FS_Surjection
  <2> HIDE DEF last
  <2>4. /\ IsFiniteSet(Busy \ last)
        /\ Cardinality(Busy \ last) = Cardinality(Busy) - Cardinality(last)
    BY <1>8, <2>1, Remaining
  <2>5. Cardinality(Busy') <= Cardinality(Busy \ last)  BY <2>2, <2>4, FS_Subset
  <2>6. Cardinality(last) \in Nat  BY <1>8, <2>1, FS_Subset, FS_CardinalityType
  <2> QED  BY <1>8, <2>3, <2>4, <2>5, <2>6
<1>10. ASSUME NEW i \in DOMAIN work'
       PROVE  Slots * row'[work'[i]].spent + Cardinality(Busy') + (i - 1) * Turn
                <= Capacity
  <2>1. i \in DOMAIN work /\ work[i] \in Rows /\ i - 1 \in Nat
    BY <1>0, <1>1, WorkFields
  <2>2. work # <<>>  BY <1>0, <2>1, WorkFields
  <2>3. Cardinality(InHandler) = Slots
    <3>1. Cardinality(InHandler) <= Slots  BY DEF TimingInv, WorkBounded
    <3>2. ~(Cardinality(InHandler) < Slots)  BY <1>1, <2>2 DEF Deliverable
    <3> QED  BY <1>8, <3>1, <3>2, Constants
  <2>4. row[work[i]].pc = "queued"  BY <2>1 DEF TimingInv, WorkMatched
  <2>5. row[work[i]].spent \in Nat /\ row'[work'[i]].spent = row[work[i]].spent + 1
    BY <1>1, <1>2, <2>1, <2>4
  <2>6. /\ Slots * (row[work[i]].spent + 1) = Slots * row[work[i]].spent + Slots
        /\ Slots * row[work[i]].spent \in Nat /\ (i - 1) * Turn \in Nat
    <3>1. \A a, b \in Nat : a * (b + 1) = a * b + a /\ a * b \in Nat  OBVIOUS
    <3> QED  BY <2>1, <2>5, <3>1, Constants
  <2>7. Slots * row[work[i]].spent + Cardinality(Busy) + (i - 1) * Turn <= Capacity
    BY <2>1 DEF TimingInv, WorkBounded
  <2>8. Cardinality(Busy') + Slots <= Cardinality(Busy)  BY <1>9, <2>3
  <2>9. \A a, b, c, d, e, s \in Nat : a + b + c <= d /\ e + s <= b => a + s + e + c <= d
    OBVIOUS
  <2>10. Capacity \in Nat  BY <2>1, QueueConstants
  <2>11. Slots * row[work[i]].spent + Slots + Cardinality(Busy') + (i - 1) * Turn
           <= Capacity
    BY ONLY <1>8, <2>6, <2>7, <2>8, <2>9, <2>10, Constants
  <2> QED  BY <2>5, <2>6, <2>11
<1>11. Cardinality(InHandler') <= Slots  BY <1>5 DEF TimingInv, WorkBounded
<1> QED  BY <1>4, <1>10, <1>11 DEF WorkBounded

-----------------------------------------------------------------------------
(* A failed attempt's message is last in its queue; those ahead of it are     *)
(* within the bound already, for their own rows.                              *)
LEMMA RetryJoined ==
  ASSUME TimingInv, NEW n \in Rows, NEW r \in Row, row' = [row EXCEPT ![n] = r],
         NEW ttl \in 0..LongestBackoff, retry' = Append(retry, [id |-> n, ttl |-> ttl]),
         row[n].pc = "record", r.pc = "wait", r.spent = 0
  PROVE  RetryMatched' /\ BlockedBounded' /\ retry' \in Seq([id: Rows, ttl: Nat])
<1> DEFINE Message == [id: Rows, ttl: Nat]
           msg == [id |-> n, ttl |-> ttl]
<1>0. row \in [Rows -> Row] /\ retry \in Seq(Message)  BY DEF TimingInv, TypeOK
<1>1. ttl \in Nat /\ ttl <= LongestBackoff  BY Constants
<1>2. msg \in Message /\ msg.id = n /\ msg.ttl = ttl /\ retry' = Append(retry, msg)
  BY <1>1
<1> HIDE DEF msg, Message
<1>3. /\ retry' \in Seq(Message) /\ Len(retry) \in Nat
      /\ DOMAIN retry = 1..Len(retry) /\ DOMAIN retry' = 1..(Len(retry) + 1)
      /\ \A i \in DOMAIN retry : retry'[i] = retry[i]
      /\ retry'[Len(retry) + 1] = msg
  BY <1>0, <1>2
<1>4. row'[n] = r /\ \A m \in Rows \ {n} : row'[m] = row[m]  BY <1>0
<1>5. \A i \in DOMAIN retry : retry[i].id \in Rows \ {n} /\ retry[i].ttl \in Nat
  <2>1. \A i \in DOMAIN retry : retry[i].id \in Rows /\ retry[i].ttl \in Nat
    BY <1>0, RetryFields DEF Message
  <2>2. \A i \in DOMAIN retry : row[retry[i].id].pc = "wait"
    BY DEF TimingInv, RetryMatched
  <2> QED  BY <2>1, <2>2
<1>6. \A i \in DOMAIN retry' : i \in DOMAIN retry \/ i = Len(retry) + 1  BY <1>3
<1>7. RetryMatched'
  <2>1. ASSUME NEW i \in DOMAIN retry', NEW j \in DOMAIN retry',
               retry'[i].id = retry'[j].id
        PROVE  i = j
    <3>1. CASE i \in DOMAIN retry /\ j \in DOMAIN retry
      BY <1>3, <2>1, <3>1 DEF TimingInv, RetryMatched
    <3>2. CASE i \in DOMAIN retry /\ j = Len(retry) + 1
      BY <1>2, <1>3, <1>5, <2>1, <3>2
    <3>3. CASE i = Len(retry) + 1 /\ j \in DOMAIN retry
      BY <1>2, <1>3, <1>5, <2>1, <3>3
    <3> QED  BY <1>6, <3>1, <3>2, <3>3
  <2>2. ASSUME NEW i \in DOMAIN retry' PROVE row'[retry'[i].id].pc = "wait"
    <3>1. CASE i \in DOMAIN retry
      BY <1>3, <1>4, <1>5, <3>1 DEF TimingInv, RetryMatched
    <3>2. CASE i = Len(retry) + 1  BY <1>2, <1>3, <1>4, <3>2
    <3> QED  BY <1>6, <3>1, <3>2
  <2>3. ASSUME NEW m \in Rows, row'[m].pc = "wait"
        PROVE  \E i \in DOMAIN retry' : retry'[i].id = m
    <3>1. CASE m = n  BY <1>2, <1>3, <3>1
    <3>2. CASE m # n
      <4>1. PICK i \in DOMAIN retry : retry[i].id = m
        BY <1>4, <2>3, <3>2 DEF TimingInv, RetryMatched
      <4>2. i \in DOMAIN retry' /\ retry'[i] = retry[i]  BY <1>3
      <4> QED  BY <4>1, <4>2
    <3> QED  BY <3>1, <3>2
  <2> QED  BY <2>1, <2>2, <2>3 DEF RetryMatched
<1>8. \A i \in DOMAIN retry : retry[i].ttl <= LongestBackoff
  <2> SUFFICES ASSUME NEW i \in DOMAIN retry PROVE retry[i].ttl <= LongestBackoff
    OBVIOUS
  <2>1. i <= i  BY <1>3
  <2>2. row[retry[i].id].spent + retry[i].ttl <= LongestBackoff
    BY <2>1 DEF TimingInv, BlockedBounded
  <2>3. row[retry[i].id] \in Row  BY <1>0, <1>5
  <2>4. row[retry[i].id].spent \in Nat  BY <2>3, RowFields
  <2> QED  BY <1>5, <2>2, <2>4, Constants
<1>9. BlockedBounded'
  <2> SUFFICES ASSUME NEW i \in DOMAIN retry', NEW j \in DOMAIN retry', i <= j
               PROVE  row'[retry'[j].id].spent + retry'[i].ttl <= LongestBackoff
    BY Zenon DEF BlockedBounded
  <2>1. CASE j \in DOMAIN retry
    <3>1. i \in DOMAIN retry  BY <1>3, <2>1
    <3>2. /\ retry'[i] = retry[i] /\ retry'[j] = retry[j]
          /\ row'[retry[j].id] = row[retry[j].id]
      BY <1>3, <1>4, <1>5, <2>1, <3>1
    <3>3. row[retry[j].id].spent + retry[i].ttl <= LongestBackoff
      BY <2>1, <3>1 DEF TimingInv, BlockedBounded
    <3> QED  BY <3>2, <3>3
  <2>2. CASE j = Len(retry) + 1
    <3>1. row'[retry'[j].id].spent = 0  BY <1>2, <1>3, <1>4, <2>2
    <3>2. CASE i \in DOMAIN retry  BY <1>3, <1>5, <1>8, <3>1, <3>2, Constants
    <3>3. CASE i = Len(retry) + 1  BY <1>1, <1>2, <1>3, <3>1, <3>3, Constants
    <3> QED  BY <1>6, <3>2, <3>3
  <2> QED  BY <1>6, <2>1, <2>2
<1> QED  BY <1>3, <1>7, <1>9 DEF Message

(* The head of notifier.push-send.retry leaves it.                            *)
LEMMA RetryExpired ==
  ASSUME TimingInv, NEW n \in Rows, NEW r \in Row, row' = [row EXCEPT ![n] = r],
         Expired, n = Head(retry).id, retry' = Tail(retry), r.pc # "wait"
  PROVE  /\ RetryMatched' /\ BlockedBounded' /\ retry' \in Seq([id: Rows, ttl: Nat])
         /\ row[n].pc = "wait" /\ row[n].spent <= LongestBackoff
<1> DEFINE Message == [id: Rows, ttl: Nat]
<1>0. row \in [Rows -> Row] /\ retry \in Seq(Message)  BY DEF TimingInv, TypeOK
<1>1. \A i \in DOMAIN retry : retry[i].id \in Rows /\ retry[i].ttl \in Nat
  BY <1>0, RetryFields
<1> HIDE DEF Message
<1>2. /\ Len(retry) \in Nat /\ Len(retry) > 0 /\ DOMAIN retry = 1..Len(retry)
      /\ Head(retry) = retry[1] /\ 1 \in DOMAIN retry
      /\ retry' \in Seq(Message) /\ DOMAIN retry' = 1..(Len(retry) - 1)
      /\ \A i \in DOMAIN retry' : retry'[i] = retry[i + 1]
  BY <1>0 DEF Expired
<1>3. n = retry[1].id /\ row[n].pc = "wait" /\ row[n] \in Row
  BY <1>0, <1>2 DEF TimingInv, RetryMatched
<1>4. row'[n] = r /\ \A m \in Rows \ {n} : row'[m] = row[m]  BY <1>0
<1>5. row[n].spent <= LongestBackoff
  <2>1. row[n].spent + retry[1].ttl <= LongestBackoff
    BY <1>2, <1>3 DEF TimingInv, BlockedBounded
  <2>2. retry[1].ttl \in Nat /\ row[n].spent \in Nat  BY <1>1, <1>2, <1>3, RowFields
  <2> QED  BY <2>1, <2>2, Constants
<1>6. \A i \in DOMAIN retry' : i + 1 \in DOMAIN retry /\ retry[i + 1].id \in Rows \ {n}
  <2> SUFFICES ASSUME NEW i \in DOMAIN retry'
               PROVE  i + 1 \in DOMAIN retry /\ retry[i + 1].id \in Rows \ {n}
    OBVIOUS
  <2>1. i + 1 \in DOMAIN retry /\ i + 1 # 1  BY <1>2
  <2>2. retry[i + 1].id # retry[1].id  BY <1>2, <2>1 DEF TimingInv, RetryMatched
  <2> QED  BY <1>1, <1>3, <2>1, <2>2
<1>7. RetryMatched'
  <2>1. ASSUME NEW i \in DOMAIN retry', NEW j \in DOMAIN retry',
               retry'[i].id = retry'[j].id
        PROVE  i = j
    <3>1. i + 1 = j + 1  BY <1>2, <1>6, <2>1 DEF TimingInv, RetryMatched
    <3>2. i \in Nat /\ j \in Nat  BY <1>2
    <3> QED  BY <3>1, <3>2
  <2>2. ASSUME NEW i \in DOMAIN retry' PROVE row'[retry'[i].id].pc = "wait"
    <3>1. row[retry[i + 1].id].pc = "wait"  BY <1>6 DEF TimingInv, RetryMatched
    <3> QED  BY <1>2, <1>4, <1>6, <3>1
  <2>3. ASSUME NEW m \in Rows, row'[m].pc = "wait"
        PROVE  \E i \in DOMAIN retry' : retry'[i].id = m
    <3>1. m # n  BY <1>4, <2>3
    <3>2. PICK i \in DOMAIN retry : retry[i].id = m
      BY <1>4, <2>3, <3>1 DEF TimingInv, RetryMatched
    <3>3. i # 1  BY <1>3, <3>1, <3>2
    <3>4. i - 1 \in DOMAIN retry' /\ (i - 1) + 1 = i  BY <1>2, <3>3
    <3>5. retry'[i - 1] = retry[i]  BY <1>2, <3>4
    <3> QED  BY <3>2, <3>4, <3>5
  <2> QED  BY <2>1, <2>2, <2>3 DEF RetryMatched
<1>8. BlockedBounded'
  <2> SUFFICES ASSUME NEW i \in DOMAIN retry', NEW j \in DOMAIN retry', i <= j
               PROVE  row'[retry'[j].id].spent + retry'[i].ttl <= LongestBackoff
    BY Zenon DEF BlockedBounded
  <2>1. i + 1 \in DOMAIN retry /\ j + 1 \in DOMAIN retry /\ i + 1 <= j + 1
    BY <1>2, <1>6
  <2>2. row[retry[j + 1].id].spent + retry[i + 1].ttl <= LongestBackoff
    BY <2>1 DEF TimingInv, BlockedBounded
  <2>3. row'[retry[j + 1].id] = row[retry[j + 1].id]  BY <1>4, <1>6
  <2> QED  BY <1>2, <2>2, <2>3
<1> QED  BY <1>2, <1>3, <1>5, <1>7, <1>8 DEF Message

(* An instant passes only while the head has some of its TTL left, so every   *)
(* row that waits is at least that far from the bound.                        *)
LEMMA RetryAged ==
  ASSUME TimingInv, Pass
  PROVE  RetryMatched' /\ BlockedBounded' /\ retry' \in Seq([id: Rows, ttl: Nat])
<1> DEFINE Message == [id: Rows, ttl: Nat]
<1>0. row \in [Rows -> Row] /\ retry \in Seq(Message)  BY DEF TimingInv, TypeOK
<1>1. /\ ~Expired /\ row' = [n \in Rows |-> Aged(n)]
      /\ retry' = [i \in DOMAIN retry |->
                     [id |-> retry[i].id, ttl |-> Elapsed(retry[i].ttl)]]
  BY DEF Pass
<1>2. Len(retry) \in Nat /\ DOMAIN retry = 1..Len(retry)  BY <1>0
<1>3. \A i \in DOMAIN retry : retry[i].id \in Rows /\ retry[i].ttl \in Nat
  BY <1>0, RetryFields
<1>4. /\ DOMAIN retry' = DOMAIN retry
      /\ \A i \in DOMAIN retry : /\ retry'[i].id = retry[i].id
                                 /\ retry'[i].ttl = Elapsed(retry[i].ttl)
  BY <1>1
<1>5. \A i \in DOMAIN retry :
        /\ retry'[i].ttl \in Nat
        /\ retry[i].ttl > 0 => retry'[i].ttl = retry[i].ttl - 1
        /\ retry[i].ttl = 0 => retry'[i].ttl = 0
  BY <1>3, <1>4 DEF Elapsed
<1>6. \A n \in Rows :
        /\ row[n].spent \in Nat /\ row'[n].pc = row[n].pc
        /\ row[n].pc = "wait" => row'[n].spent = row[n].spent + 1
  <2> SUFFICES ASSUME NEW n \in Rows
               PROVE  /\ row[n].spent \in Nat /\ row'[n].pc = row[n].pc
                      /\ row[n].pc = "wait" => row'[n].spent = row[n].spent + 1
    OBVIOUS
  <2>1. row[n] \in Row /\ row'[n] = Aged(n)  BY <1>0, <1>1
  <2> QED  BY <2>1, AgedRow, RowFields
<1>7. retry' \in Seq(Message)
  <2>1. \A i \in DOMAIN retry :
          [id |-> retry[i].id, ttl |-> Elapsed(retry[i].ttl)] \in Message
    BY <1>3, <1>4, <1>5
  <2>2. retry' \in [1..Len(retry) -> Message]  BY <1>1, <1>2, <2>1
  <2> HIDE DEF Message
  <2> QED  BY <1>2, <2>2
<1> HIDE DEF Message
<1>8. RetryMatched'  BY <1>3, <1>4, <1>6 DEF TimingInv, RetryMatched
<1>9. \A i \in DOMAIN retry : 1 \in DOMAIN retry /\ retry[1].ttl >= 1
  <2> SUFFICES ASSUME NEW i \in DOMAIN retry
               PROVE  1 \in DOMAIN retry /\ retry[1].ttl >= 1
    OBVIOUS
  <2>1. retry # <<>> /\ 1 \in DOMAIN retry /\ Head(retry) = retry[1]  BY <1>0, <1>2
  <2>2. retry[1].ttl # 0  BY <1>1, <2>1 DEF Expired
  <2> QED  BY <1>3, <2>1, <2>2
<1>10. \A j \in DOMAIN retry :
         /\ row'[retry[j].id].spent = row[retry[j].id].spent + 1
         /\ row[retry[j].id].spent \in Nat
  BY <1>3, <1>6 DEF TimingInv, RetryMatched
<1>11. BlockedBounded'
  <2> SUFFICES ASSUME NEW i \in DOMAIN retry, NEW j \in DOMAIN retry, i <= j
               PROVE  row'[retry'[j].id].spent + retry'[i].ttl <= LongestBackoff
    BY <1>4, Zenon DEF BlockedBounded
  <2>0. row'[retry'[j].id].spent = row[retry[j].id].spent + 1  BY <1>4, <1>10
  <2>1. row[retry[j].id].spent + retry[i].ttl <= LongestBackoff
    BY DEF TimingInv, BlockedBounded
  <2>2. CASE retry[i].ttl > 0
    BY <1>3, <1>5, <1>10, <2>0, <2>1, <2>2, Constants
  <2>3. CASE retry[i].ttl = 0
    <3>1. 1 \in DOMAIN retry /\ retry[1].ttl >= 1 /\ 1 <= j  BY <1>2, <1>9
    <3>2. row[retry[j].id].spent + retry[1].ttl <= LongestBackoff
      BY <3>1 DEF TimingInv, BlockedBounded
    <3>3. retry'[i].ttl = 0  BY <1>5, <2>3
    <3> QED  BY <1>3, <1>10, <2>0, <3>1, <3>2, <3>3, Constants
  <2> QED  BY <1>3, <2>2, <2>3
<1> QED  BY <1>7, <1>8, <1>11 DEF Message

(* A message in notifier.push-send has waited no longer than LongestQueue.    *)
LEMMA QueueWait ==
  ASSUME TimingInv, NEW n \in Rows, NEW i \in DOMAIN work, work[i] = n
  PROVE  row[n].spent <= LongestQueue
<1>1. row[n] \in Row /\ work \in Seq(Rows)  BY DEF TimingInv, TypeOK
<1>2. row[n].spent \in Nat /\ i - 1 \in Nat  BY <1>1, RowFields, WorkFields
<1>3. Slots * row[n].spent + Cardinality(Busy) + (i - 1) * Turn <= Capacity
  BY DEF TimingInv, WorkBounded
<1>4. Slots * row[n].spent \in Nat /\ (i - 1) * Turn \in Nat
  <2>1. \A a, b \in Nat : a * b \in Nat  OBVIOUS
  <2> QED  BY <1>2, <2>1, Constants
<1>5. Cardinality(Busy) \in Nat  BY BusyType, BusyFinite
<1>6. \A a, b, c, d \in Nat : a + b + c <= d => a <= d  OBVIOUS
<1>7. Slots * row[n].spent <= Capacity
  BY <1>3, <1>4, <1>5, <1>6, QueueConstants
<1> QED  BY <1>2, <1>7, QueueConstants

(* A message in notifier.push-send.retry has waited no longer than the        *)
(* longest backoff.                                                           *)
LEMMA RetryWait ==
  ASSUME TimingInv, NEW n \in Rows, row[n].pc = "wait"
  PROVE  row[n].spent <= LongestBackoff
<1>1. PICK i \in DOMAIN retry : retry[i].id = n  BY DEF TimingInv, RetryMatched
<1>2. retry \in Seq([id: Rows, ttl: Nat]) /\ row[n] \in Row  BY DEF TimingInv, TypeOK
<1>3. retry[i].ttl \in Nat /\ i <= i  BY <1>1, <1>2, RetryFields
<1>4. row[n].spent + retry[i].ttl <= LongestBackoff
  BY <1>1, <1>3 DEF TimingInv, BlockedBounded
<1> QED  BY <1>2, <1>3, <1>4, RowFields, Constants

-----------------------------------------------------------------------------
(* At the start no time has passed.                                           *)
LEMMA TimingInit == Init => TimingInv
<1> SUFFICES ASSUME Init PROVE TimingInv  OBVIOUS
<1>1. row = [n \in Rows |-> Pending] /\ work = <<>> /\ retry = <<>>  BY DEF Init
<1>2. TypeOK  BY <1>1, PendingRow DEF TypeOK
<1>3. RetryMatched /\ BlockedBounded  BY <1>1, PendingRow DEF RetryMatched, BlockedBounded
<1>4. WorkMatched  BY <1>1, PendingRow DEF WorkMatched
<1>5. WorkBounded
  <2>1. InHandler = {}  BY <1>1, PendingRow DEF InHandler
  <2>2. Cardinality(InHandler) = 0  BY <2>1, FS_EmptySet
  <2> QED  BY <1>1, <2>2, Constants DEF WorkBounded
<1>6. \A n \in Rows : AgeBounded(n)  BY <1>1, PendingRow DEF AgeBounded
<1> QED  BY <1>2, <1>3, <1>4, <1>5, <1>6 DEF TimingInv

(* A row's numbers, and those of its attempts so far.                         *)
LEMMA RowNumbers ==
  ASSUME TimingInv, NEW n \in Rows
  PROVE  /\ row[n] \in Row /\ row[n].pc \in Stages
         /\ row[n].attempts \in Nat /\ row[n].age \in Nat /\ row[n].spent \in Nat
         /\ row[n].attempts * Round \in Nat
         /\ Round \in Nat /\ LongestQueue \in Nat
<1>1. row[n] \in Row  BY DEF TimingInv, TypeOK
<1>2. Round \in Nat /\ LongestQueue \in Nat  BY QueueConstants
<1>3. \A a, b \in Nat : a * b \in Nat  OBVIOUS
<1>4. /\ row[n].pc \in Stages /\ row[n].attempts \in Nat
      /\ row[n].age \in Nat /\ row[n].spent \in Nat
  BY <1>1, RowFields
<1> QED  BY <1>1, <1>2, <1>3, <1>4

(* What is left to show of a step that changes one row.                       *)
LEMMA RowChanged ==
  ASSUME TimingInv, NEW n \in Rows, NEW r \in Row, row' = [row EXCEPT ![n] = r],
         work' \in Seq(Rows), retry' \in Seq([id: Rows, ttl: Nat]),
         RetryMatched' /\ BlockedBounded', WorkMatched' /\ WorkBounded', AgeBounded(n)'
  PROVE  TimingInv'
<1>0. row \in [Rows -> Row]  BY DEF TimingInv, TypeOK
<1>1. TypeOK'  BY <1>0 DEF TypeOK
<1>2. ASSUME NEW m \in Rows \ {n} PROVE AgeBounded(m)'
  <2>1. row'[m] = row[m]  BY <1>0
  <2>2. AgeBounded(m)  BY DEF TimingInv
  <2> QED  BY <2>1, <2>2, AgeKept
<1>3. \A m \in Rows : AgeBounded(m)'  BY <1>2
<1> QED  BY <1>1, <1>3 DEF TimingInv

(* A claim starts a row's clock.                                              *)
LEMMA TimingClaim ==
  ASSUME TimingInv, NEW n \in Rows, Claim(n)
  PROVE  TimingInv'
<1> DEFINE r == Moved(n, "claimed")
<1>1. /\ row[n].pc = "pending" /\ row' = [row EXCEPT ![n] = r]
      /\ work' = work /\ retry' = retry
  BY DEF Claim
<1>2. /\ r \in Row /\ r.pc = "claimed" /\ r.attempts = row[n].attempts
      /\ r.age = row[n].age /\ r.spent = 0
  BY MovedRow, RowNumbers DEF Stages
<1> HIDE DEF r
<1>3. row'[n] = r /\ work \in Seq(Rows) /\ retry \in Seq([id: Rows, ttl: Nat])
  BY <1>1 DEF TimingInv, TypeOK
<1>4. RetryMatched' /\ BlockedBounded'  BY <1>1, <1>2, RetryKept
<1>5. WorkMatched' /\ WorkBounded'
  <2>1. InHandler' \subseteq InHandler /\ n \notin InHandler'
    BY <1>1, <1>2, <1>3 DEF InHandler, TimingInv, TypeOK
  <2> QED  BY <1>1, <1>2, <2>1, WorkKept
<1>6. AgeBounded(n)'
  <2>1. row[n].attempts = 0 /\ row[n].age = 0  BY <1>1 DEF TimingInv, AgeBounded
  <2> QED  BY <1>1, <1>2, <1>3, <2>1, Constants DEF AgeBounded
<1> QED  BY <1>1, <1>2, <1>3, <1>4, <1>5, <1>6, RowChanged

(* A claimed row joins the queue within StepTime.                             *)
LEMMA TimingPublish ==
  ASSUME TimingInv, NEW n \in Rows, Publish(n)
  PROVE  TimingInv'
<1> DEFINE r == Moved(n, "queued")
<1>1. /\ row[n].pc = "claimed" /\ row' = [row EXCEPT ![n] = r]
      /\ work' = Append(work, n) /\ retry' = retry
  BY DEF Publish
<1>2. /\ r \in Row /\ r.pc = "queued" /\ r.attempts = row[n].attempts
      /\ r.age = row[n].age /\ r.spent = 0
  BY MovedRow, RowNumbers DEF Stages
<1> HIDE DEF r
<1>3. row'[n] = r /\ work \in Seq(Rows) /\ retry \in Seq([id: Rows, ttl: Nat])
  BY <1>1 DEF TimingInv, TypeOK
<1>4. RetryMatched' /\ BlockedBounded'  BY <1>1, <1>2, RetryKept
<1>5. WorkMatched' /\ WorkBounded'  BY <1>1, <1>2, WorkJoined
<1>6. AgeBounded(n)'
  <2>1. row[n].age <= row[n].spent /\ row[n].spent <= StepTime
    BY <1>1 DEF TimingInv, AgeBounded
  <2>2. r.age <= StepTime + r.attempts * Round + r.spent
    BY <1>2, <2>1, RowNumbers, Constants
  <2> QED  BY <1>2, <1>3, <2>2 DEF AgeBounded
<1>7. work' \in Seq(Rows)  BY <1>1, <1>3
<1> QED  BY <1>1, <1>2, <1>3, <1>4, <1>5, <1>6, <1>7, RowChanged

(* A row waited no longer than LongestQueue for its handler.                  *)
LEMMA TimingDeliver ==
  ASSUME TimingInv, Deliver
  PROVE  TimingInv'
<1>0. work \in Seq(Rows) /\ work # <<>> /\ Deliverable
  BY DEF TimingInv, TypeOK, Deliver, Deliverable
<1>1. PICK n \in Rows : n = Head(work) /\ n = work[1] /\ 1 \in DOMAIN work  BY <1>0
<1> DEFINE r == Moved(n, "send")
<1>2. row' = [row EXCEPT ![n] = r] /\ work' = Tail(work) /\ retry' = retry
  BY <1>1 DEF Deliver
<1>3. /\ r \in Row /\ r.pc = "send" /\ r.attempts = row[n].attempts
      /\ r.age = row[n].age /\ r.spent = 0
  BY MovedRow, RowNumbers DEF Stages
<1> HIDE DEF r
<1>4. row'[n] = r /\ retry \in Seq([id: Rows, ttl: Nat]) /\ work' \in Seq(Rows)
  BY <1>0, <1>2 DEF TimingInv, TypeOK
<1>5. WorkMatched' /\ WorkBounded' /\ row[n].pc = "queued"
  BY <1>0, <1>1, <1>2, <1>3, WorkDelivered
<1>6. RetryMatched' /\ BlockedBounded'  BY <1>2, <1>3, <1>5, RetryKept
<1>7. row[n].spent <= LongestQueue
  BY <1>1, QueueWait
<1>8. AgeBounded(n)'
  <2>1. row[n].age <= StepTime + row[n].attempts * Round + row[n].spent
    BY <1>5 DEF TimingInv, AgeBounded
  <2>2. r.age <= StepTime + r.attempts * Round + LongestQueue + r.spent
    BY <1>3, <1>7, <2>1, RowNumbers, Constants
  <2> QED  BY <1>3, <1>4, <2>2, Constants DEF AgeBounded
<1> QED  BY <1>2, <1>3, <1>4, <1>5, <1>6, <1>8, RowChanged

(* A call took no longer than its timeout, and left its handler StepTime.     *)
LEMMA TimingAnswer ==
  ASSUME TimingInv, NEW n \in Rows, Answer(n)
  PROVE  TimingInv'
<1> DEFINE r == Moved(n, "record")
<1>1. /\ row[n].pc = "send" /\ row' = [row EXCEPT ![n] = r]
      /\ work' = work /\ retry' = retry
  BY DEF Answer
<1>2. /\ r \in Row /\ r.pc = "record" /\ r.attempts = row[n].attempts
      /\ r.age = row[n].age /\ r.spent = 0
  BY MovedRow, RowNumbers DEF Stages
<1> HIDE DEF r
<1>3. row'[n] = r /\ work \in Seq(Rows) /\ retry \in Seq([id: Rows, ttl: Nat])
  BY <1>1 DEF TimingInv, TypeOK
<1>4. RetryMatched' /\ BlockedBounded'  BY <1>1, <1>2, RetryKept
<1>5. /\ row[n].age <= StepTime + row[n].attempts * Round + LongestQueue + row[n].spent
      /\ row[n].spent <= HttpTimeout
  BY <1>1 DEF TimingInv, AgeBounded
<1>6. WorkMatched' /\ WorkBounded'
  <2>1. InHandler' \subseteq InHandler
    BY <1>1, <1>2, <1>3 DEF InHandler, TimingInv, TypeOK
  <2>2. Left(n)' <= Left(n)
    <3>1. Left(n)' = StepTime - 0  BY <1>2, <1>3 DEF Left
    <3>2. Left(n) = (HttpTimeout - row[n].spent) + StepTime  BY <1>1 DEF Left
    <3>3. row[n].spent \in Nat  BY RowNumbers
    <3> QED  BY <1>5, <3>1, <3>2, <3>3, Constants
  <2> QED  BY <1>1, <1>2, <2>1, <2>2, WorkKept
<1>7. AgeBounded(n)'
  <2>1. r.age <= StepTime + r.attempts * Round + LongestQueue + HttpTimeout + r.spent
    BY <1>2, <1>5, RowNumbers, Constants
  <2> QED  BY <1>2, <1>3, <2>1, Constants DEF AgeBounded
<1> QED  BY <1>1, <1>2, <1>3, <1>4, <1>6, <1>7, RowChanged

(* A settled row leaves its handler, and its place to another.                *)
LEMMA TimingSettle ==
  ASSUME TimingInv, NEW n \in Rows, Settle(n)
  PROVE  TimingInv'
<1>1. /\ row[n].pc = "record" /\ row' = [row EXCEPT ![n] = Pending]
      /\ work' = work /\ retry' = retry
  BY DEF Settle
<1>2. row'[n] = Pending /\ work \in Seq(Rows) /\ retry \in Seq([id: Rows, ttl: Nat])
  BY <1>1 DEF TimingInv, TypeOK
<1>3. RetryMatched' /\ BlockedBounded'  BY <1>1, PendingRow, RetryKept
<1>4. WorkMatched' /\ WorkBounded'
  <2>1. InHandler' \subseteq InHandler /\ n \notin InHandler'
    BY <1>1, <1>2, PendingRow DEF InHandler, TimingInv, TypeOK
  <2> QED  BY <1>1, <2>1, PendingRow, WorkKept
<1>5. AgeBounded(n)'  BY <1>2, PendingRow DEF AgeBounded
<1> QED  BY <1>1, <1>2, <1>3, <1>4, <1>5, PendingRow, RowChanged

(* A failed attempt is one attempt more, and leaves its handler.              *)
LEMMA TimingFail ==
  ASSUME TimingInv, NEW n \in Rows, Fail(n)
  PROVE  TimingInv'
<1> DEFINE r == [Moved(n, "wait") EXCEPT !.attempts = row[n].attempts + 1]
<1>1. /\ row[n].pc = "record" /\ ~Exhausted(n) /\ row' = [row EXCEPT ![n] = r]
      /\ work' = work
  BY DEF Fail
<1>2. PICK ttl \in Delays(n) : retry' = Append(retry, [id |-> n, ttl |-> ttl])
  BY DEF Fail
<1>3. row[n].attempts + 1 \in 1..Policy.maxAttempts - 1
  BY <1>1, RowNumbers, Constants DEF Exhausted
<1>4. ttl \in 0..LongestBackoff
  BY <1>3, BackoffAssumption DEF Delays
<1>5. /\ r \in Row /\ r.pc = "wait" /\ r.attempts = row[n].attempts + 1
      /\ r.age = row[n].age /\ r.spent = 0
  <2> DEFINE w == Moved(n, "wait")
  <2>1. w \in Row /\ w.pc = "wait" /\ w.age = row[n].age /\ w.spent = 0
    BY MovedRow, RowNumbers DEF Stages
  <2>2. row[n].attempts + 1 \in 0..Policy.maxAttempts - 1  BY <1>3, Constants
  <2> HIDE DEF w
  <2>3. [w EXCEPT !.attempts = row[n].attempts + 1] \in Row  BY <2>1, <2>2 DEF Row
  <2>4. /\ [w EXCEPT !.attempts = row[n].attempts + 1].pc = "wait"
        /\ [w EXCEPT !.attempts = row[n].attempts + 1].attempts = row[n].attempts + 1
        /\ [w EXCEPT !.attempts = row[n].attempts + 1].age = row[n].age
        /\ [w EXCEPT !.attempts = row[n].attempts + 1].spent = 0
    BY <2>1 DEF Row
  <2> QED  BY <2>3, <2>4 DEF w
<1> HIDE DEF r
<1>6. row'[n] = r /\ work \in Seq(Rows)  BY <1>1 DEF TimingInv, TypeOK
<1>7. RetryMatched' /\ BlockedBounded' /\ retry' \in Seq([id: Rows, ttl: Nat])
  BY <1>1, <1>2, <1>4, <1>5, RetryJoined
<1>8. WorkMatched' /\ WorkBounded'
  <2>1. InHandler' \subseteq InHandler /\ n \notin InHandler'
    BY <1>1, <1>5, <1>6 DEF InHandler, TimingInv, TypeOK
  <2> QED  BY <1>1, <1>5, <2>1, WorkKept
<1>9. AgeBounded(n)'
  <2>1. /\ row[n].age <= StepTime + row[n].attempts * Round + LongestQueue + HttpTimeout
                           + row[n].spent
        /\ row[n].spent <= StepTime
    BY <1>1 DEF TimingInv, AgeBounded
  <2>2. r.attempts - 1 = row[n].attempts /\ r.attempts > 0  BY <1>5, RowNumbers
  <2>3. r.age <= StepTime + (r.attempts - 1) * Round + LongestQueue + Turn + r.spent
    BY <1>5, <2>1, <2>2, RowNumbers, Constants DEF Turn
  <2> QED  BY <1>5, <1>6, <2>2, <2>3 DEF AgeBounded
<1> QED  BY <1>1, <1>5, <1>6, <1>7, <1>8, <1>9, RowChanged

(* An expired retry joins the queue again: one round is over.                 *)
LEMMA TimingExpire ==
  ASSUME TimingInv, Expire
  PROVE  TimingInv'
<1>0. retry \in Seq([id: Rows, ttl: Nat]) /\ work \in Seq(Rows) /\ retry # <<>> /\ Expired
  BY DEF TimingInv, TypeOK, Expire, Expired
<1>1. 1 \in DOMAIN retry /\ Head(retry) = retry[1] /\ retry[1].id \in Rows
  <2>1. \A S : \A s \in Seq(S) : s # <<>> => 1 \in DOMAIN s /\ Head(s) = s[1]  OBVIOUS
  <2> QED  BY <1>0, <2>1, RetryFields
<1>2. PICK n \in Rows : n = Head(retry).id  BY <1>1
<1> DEFINE r == Moved(n, "queued")
<1>3. row' = [row EXCEPT ![n] = r] /\ work' = Append(work, n) /\ retry' = Tail(retry)
  BY <1>2 DEF Expire
<1>4. /\ r \in Row /\ r.pc = "queued" /\ r.attempts = row[n].attempts
      /\ r.age = row[n].age /\ r.spent = 0
  BY MovedRow, RowNumbers DEF Stages
<1> HIDE DEF r
<1>5. /\ RetryMatched' /\ BlockedBounded' /\ retry' \in Seq([id: Rows, ttl: Nat])
      /\ row[n].pc = "wait" /\ row[n].spent <= LongestBackoff
  BY <1>0, <1>2, <1>3, <1>4, RetryExpired
<1>6. WorkMatched' /\ WorkBounded'  BY <1>3, <1>4, <1>5, WorkJoined
<1>7. row'[n] = r /\ work' \in Seq(Rows)
  BY <1>0, <1>3 DEF TimingInv, TypeOK
<1>8. AgeBounded(n)'
  <2>1. /\ row[n].attempts > 0
        /\ row[n].age <= StepTime + (row[n].attempts - 1) * Round + LongestQueue + Turn
                           + row[n].spent
    BY <1>5 DEF TimingInv, AgeBounded
  <2>2. PICK a \in Nat : row[n].attempts = a + 1
    <3>1. row[n].attempts - 1 \in Nat /\ row[n].attempts = (row[n].attempts - 1) + 1
      BY <2>1, RowNumbers
    <3> QED  BY <3>1
  <2>3. /\ a * Round \in Nat /\ (a + 1) * Round = a * Round + Round
        /\ row[n].attempts - 1 = a
    <3>1. \A p, q \in Nat : p * q \in Nat /\ (p + 1) * q = p * q + q  OBVIOUS
    <3>2. Round \in Nat  BY RowNumbers
    <3> QED  BY <2>2, <3>1, <3>2
  <2>4. row[n].attempts * Round = a * Round + Round  BY <2>2, <2>3
  <2>5. row[n].age <= StepTime + a * Round + LongestQueue + Turn + row[n].spent
    BY <2>1, <2>3
  <2>6. row[n].age <= StepTime + (a * Round + Round)
    <3>1. \A age, st, ar, q, t, s, b \in Nat :
            age <= st + ar + q + t + s /\ s <= b => age <= st + (ar + (q + t + b))
      OBVIOUS
    <3>2. /\ row[n].age \in Nat /\ row[n].spent \in Nat /\ LongestQueue \in Nat
          /\ StepTime \in Nat /\ Turn \in Nat /\ LongestBackoff \in Nat
      BY RowNumbers, Constants
    <3>3. row[n].age <= StepTime + (a * Round + (LongestQueue + Turn + LongestBackoff))
      BY ONLY <1>5, <2>3, <2>5, <3>1, <3>2
    <3> QED  BY <3>3 DEF Round
  <2>7. r.age <= StepTime + r.attempts * Round + r.spent
    <3>1. row[n].age <= StepTime + row[n].attempts * Round  BY <2>4, <2>6
    <3>2. \A p \in Nat : p + 0 = p  OBVIOUS
    <3> QED  BY <1>4, <3>1, <3>2, RowNumbers, Constants
  <2> QED  BY <1>4, <1>7, <2>7 DEF AgeBounded
<1> QED  BY <1>3, <1>4, <1>5, <1>6, <1>7, <1>8, RowChanged

(* An instant adds one to an age and to the time in its stage alike.          *)
LEMMA TimingPass ==
  ASSUME TimingInv, Pass
  PROVE  TimingInv'
<1>0. row \in [Rows -> Row] /\ work \in Seq(Rows)  BY DEF TimingInv, TypeOK
<1>1. /\ \A n \in Rows : ~TimedOut(n) /\ ~Overdue(n)
      /\ row' = [n \in Rows |-> Aged(n)] /\ work' = work
  BY DEF Pass
<1>2. ASSUME NEW n \in Rows
      PROVE  /\ row'[n] \in Row
             /\ row'[n].pc = row[n].pc /\ row'[n].attempts = row[n].attempts
             /\ row[n].pc # "pending" =>
                  row'[n].age = row[n].age + 1 /\ row'[n].spent = row[n].spent + 1
             /\ row[n].pc = "pending" => row'[n].age = row[n].age
  <2>1. row[n] \in Row /\ row'[n] = Aged(n)  BY <1>0, <1>1
  <2> QED  BY <2>1, AgedRow
<1>3. RetryMatched' /\ BlockedBounded' /\ retry' \in Seq([id: Rows, ttl: Nat])
  BY RetryAged
<1>4. WorkMatched' /\ WorkBounded'  BY WorkAged
<1>5. TypeOK'
  <2>1. row' \in [Rows -> Row]  BY <1>1, <1>2
  <2> QED  BY <1>0, <1>1, <1>3, <2>1 DEF TypeOK
<1>6. ASSUME NEW n \in Rows PROVE AgeBounded(n)'
  <2>0. AgeBounded(n)  BY DEF TimingInv
  <2>1. /\ row[n].pc \in Stages /\ row[n].spent \in Nat /\ row[n].age \in Nat
        /\ row[n].attempts \in Nat /\ row[n].attempts * Round \in Nat
        /\ LongestQueue \in Nat /\ Round \in Nat
    BY RowNumbers
  <2>2. CASE row[n].pc = "pending"  BY <1>2, <2>0, <2>2 DEF AgeBounded
  <2>3. CASE row[n].pc = "claimed"
    <3>1. row[n].spent < StepTime  BY <1>1, <2>1, <2>3, Constants DEF Overdue
    <3>2. row[n].attempts = 0 /\ row[n].age <= row[n].spent
      BY <2>0, <2>3 DEF AgeBounded
    <3>3. /\ row'[n].pc = "claimed" /\ row'[n].attempts = 0
          /\ row'[n].age = row[n].age + 1 /\ row'[n].spent = row[n].spent + 1
      BY <1>2, <2>3, <3>2
    <3>4. row'[n].age <= row'[n].spent /\ row'[n].spent <= StepTime
      BY <2>1, <3>1, <3>2, <3>3, Constants
    <3> QED  BY <3>3, <3>4 DEF AgeBounded
  <2>4. CASE row[n].pc = "queued"
    BY <1>2, <2>0, <2>1, <2>4, Constants DEF AgeBounded
  <2>5. CASE row[n].pc = "send"
    <3>1. row[n].spent < HttpTimeout  BY <1>1, <2>1, <2>5, Constants DEF TimedOut
    <3> QED  BY <1>2, <2>0, <2>1, <2>5, <3>1, Constants DEF AgeBounded
  <2>6. CASE row[n].pc = "record"
    <3>1. row[n].spent < StepTime  BY <1>1, <2>1, <2>6, Constants DEF Overdue
    <3> QED  BY <1>2, <2>0, <2>1, <2>6, <3>1, Constants DEF AgeBounded
  <2>7. CASE row[n].pc = "wait"
    <3>1. row[n].attempts > 0  BY <2>0, <2>7 DEF AgeBounded
    <3>2. row[n].attempts - 1 \in Nat  BY <2>1, <3>1
    <3>3. (row[n].attempts - 1) * Round \in Nat  BY <2>1, <3>2, Products
    <3> QED  BY <1>2, <2>0, <2>1, <2>7, <3>3, Constants DEF AgeBounded
  <2> QED  BY <2>1, <2>2, <2>3, <2>4, <2>5, <2>6, <2>7 DEF Stages
<1> QED  BY <1>3, <1>4, <1>5, <1>6 DEF TimingInv

(* TimingInv is inductive, for every policy, every timeout and every number   *)
(* of rows and handlers.                                                      *)
THEOREM TimingInductive == Spec => []TimingInv
<1>1. TimingInv /\ [Next]_vars => TimingInv'
  <2> SUFFICES ASSUME TimingInv, [Next]_vars PROVE TimingInv'  OBVIOUS
  <2>1. CASE \E n \in Rows : Claim(n)  BY <2>1, TimingClaim
  <2>2. CASE \E n \in Rows : Publish(n)  BY <2>2, TimingPublish
  <2>3. CASE \E n \in Rows : Answer(n)  BY <2>3, TimingAnswer
  <2>4. CASE \E n \in Rows : Settle(n)  BY <2>4, TimingSettle
  <2>5. CASE \E n \in Rows : Fail(n)  BY <2>5, TimingFail
  <2>6. CASE Deliver  BY <2>6, TimingDeliver
  <2>7. CASE Expire  BY <2>7, TimingExpire
  <2>8. CASE Pass  BY <2>8, TimingPass
  <2>9. CASE UNCHANGED vars
    BY <2>9 DEF vars, TimingInv, TypeOK, RetryMatched, BlockedBounded, WorkMatched,
                WorkBounded, Busy, InHandler, Left, AgeBounded
  <2> QED  BY <2>1, <2>2, <2>3, <2>4, <2>5, <2>6, <2>7, <2>8, <2>9 DEF Next
<1> QED  BY TimingInit, <1>1, PTL DEF Spec

(* The variables keep their types; no row is attempted beyond its policy.     *)
THEOREM TypeCorrect == Spec => []TypeOK
BY TimingInductive, PTL DEF TimingInv

(* Whatever waits ahead of it in notifier.push-send.retry, no retry waits     *)
(* longer than the longest backoff of its policy.                             *)
THEOREM WaitsAreBounded == Spec => []WaitBounded
<1>1. TimingInv => WaitBounded  BY RetryWait DEF WaitBounded
<1> QED  BY <1>1, TimingInductive, PTL

(* However many notifications crowd notifier.push-send, no message waits      *)
(* longer for a handler than the calls of all the others take.                *)
THEOREM QueueWaitsAreBounded == Spec => []QueueWaitBounded
<1>1. TimingInv => QueueWaitBounded
  <2> SUFFICES ASSUME TimingInv, NEW n \in Rows, row[n].pc = "queued"
               PROVE  row[n].spent <= LongestQueue
    BY DEF QueueWaitBounded
  <2>1. PICK i \in DOMAIN work : work[i] = n  BY DEF TimingInv, WorkMatched
  <2> QED  BY <2>1, QueueWait
<1> QED  BY <1>1, TimingInductive, PTL

(* If the threshold has room for as many notifications as are under way, a    *)
(* row whose messages are neither lost nor copied is settled before           *)
(* recoverStuck takes it for stuck.                                           *)
THEOREM SettledInTime == Spec => []SettledBeforeRecovery
<1>1. TimingInv => SettledBeforeRecovery
  <2> SUFFICES ASSUME TimingInv, HasRoom, NEW n \in Rows
               PROVE  row[n].age < RecoveryThreshold
    BY DEF SettledBeforeRecovery
  <2>1. PICK last \in Nat : Policy.maxAttempts = last + 1 /\ Policy.maxAttempts - 1 = last
    <3>1. Policy.maxAttempts - 1 \in Nat  BY Constants
    <3> QED  BY <3>1, Constants
  <2>2. /\ row[n].pc \in Stages /\ row[n].spent \in Nat /\ row[n].age \in Nat
        /\ row[n].attempts \in Nat /\ row[n].attempts * Round \in Nat
        /\ LongestQueue \in Nat /\ Round \in Nat
    BY RowNumbers
  <2>3. row[n].attempts <= last
    <3>1. row[n].attempts \in 0..Policy.maxAttempts - 1  BY RowNumbers, RowFields
    <3> QED  BY <2>1, <3>1
  <2>4. last * Round \in Nat /\ row[n].attempts * Round <= last * Round
    BY <2>2, <2>3, Products
  <2>5. RecoveryThreshold > StepTime + last * Round + LongestQueue + Turn
    <3>1. RecoveryThreshold > StepTime + (last + 1) * (LongestQueue + HttpTimeout + StepTime)
                                + last * LongestBackoff
      BY <2>1 DEF HasRoom
    <3>2. LongestQueue + HttpTimeout + StepTime = LongestQueue + Turn
          /\ LongestQueue + Turn \in Nat
      BY <2>2, Constants DEF Turn
    <3>3. \A a, b, c \in Nat : /\ (a + 1) * b = a * b + b /\ a * (b + c) = a * b + a * c
                               /\ a * b \in Nat
      OBVIOUS
    <3>4. /\ (last + 1) * (LongestQueue + Turn)
               = last * (LongestQueue + Turn) + (LongestQueue + Turn)
          /\ last * Round = last * (LongestQueue + Turn) + last * LongestBackoff
          /\ last * (LongestQueue + Turn) \in Nat /\ last * LongestBackoff \in Nat
      BY <3>2, <3>3, Constants DEF Round
    <3> QED  BY <2>2, <3>1, <3>2, <3>4, Constants
  <2>6. AgeBounded(n)  BY DEF TimingInv
  <2>7. CASE row[n].pc \in {"pending", "claimed"}
    <3>1. row[n].age <= StepTime
      <4>1. CASE row[n].pc = "pending"  BY <2>6, <4>1, Constants DEF AgeBounded
      <4>2. CASE row[n].pc = "claimed"  BY <2>2, <2>6, <4>2, Constants DEF AgeBounded
      <4> QED  BY <2>7, <4>1, <4>2
    <3> QED  BY <2>2, <2>4, <2>5, <3>1, Constants
  <2>8. CASE row[n].pc = "queued"
    <3>1. PICK i \in DOMAIN work : work[i] = n  BY <2>8 DEF TimingInv, WorkMatched
    <3>2. row[n].spent <= LongestQueue  BY <3>1, QueueWait
    <3> QED  BY <2>2, <2>4, <2>5, <2>6, <2>8, <3>2, Constants DEF AgeBounded
  <2>9. CASE row[n].pc \in {"send", "record"}
    <3>1. CASE row[n].pc = "send"
      BY <2>2, <2>4, <2>5, <2>6, <3>1, Constants DEF AgeBounded, Turn
    <3>2. CASE row[n].pc = "record"
      BY <2>2, <2>4, <2>5, <2>6, <3>2, Constants DEF AgeBounded, Turn
    <3> QED  BY <2>9, <3>1, <3>2
  <2>10. CASE row[n].pc = "wait"
    <3>1. /\ row[n].attempts > 0
          /\ row[n].age <= StepTime + (row[n].attempts - 1) * Round + LongestQueue + Turn
                             + row[n].spent
      BY <2>6, <2>10 DEF AgeBounded
    <3>2. row[n].spent <= LongestBackoff  BY <2>10, RetryWait
    <3>3. PICK a \in Nat : row[n].attempts = a + 1 /\ row[n].attempts - 1 = a
      <4>1. row[n].attempts - 1 \in Nat  BY <2>2, <3>1
      <4> QED  BY <2>2, <4>1
    <3>4. a * Round \in Nat /\ row[n].attempts * Round = a * Round + Round
      BY <2>2, <3>3, Products
    <3>5. row[n].age <= StepTime + row[n].attempts * Round
      BY <2>2, <3>1, <3>2, <3>3, <3>4, Constants DEF Round
    <3> QED  BY <2>2, <2>4, <2>5, <3>5, Constants
  <2> QED  BY <2>2, <2>7, <2>8, <2>9, <2>10 DEF Stages
<1> QED  BY <1>1, TimingInductive, PTL
=============================================================================
