------------------------ MODULE ConsumerShutdownProofs ------------------------
(***************************************************************************)
(* How often a handler is started for the same message, for every number   *)
(* of processes and messages and every prefetch.  A process that is about  *)
(* to give its deliveries back once more owes one start; each SIGTERM and  *)
(* each lost connection pays for the debts it makes.                       *)
(***************************************************************************)
EXTENDS ConsumerShutdown, FiniteSetTheorems, TLAPS

\* Processes that may yet give their deliveries back: those that are stopping,
\* and those an orphan will take down.
Owing ==
  {r \in Replicas : \/ proc[r] = "stopping"
                    \/ proc[r] = "up" /\ orphans[r] # NoHandlers}

Waiting(m) == IF m \in ready THEN 1 ELSE 0

StartsPaid(m) ==
  starts[m] + Waiting(m) + Cardinality(Owing) <= 1 + stops + 2 * losses

\* The broker waits only for who holds a connection, and orphans end with
\* their process.
Closed ==
  \A r \in Replicas :
    /\ IsFiniteSet(unacked[r])
    /\ r \notin consuming => unacked[r] = {}
    /\ proc[r] \notin {"up", "stopping"} => r \notin consuming
    /\ proc[r] = "exited" => orphans[r] = NoHandlers

StartsInv == TypeOK /\ Closed /\ \A m \in Messages : StartsPaid(m)

-----------------------------------------------------------------------------
(* How two sets that differ in one element at most compare.                   *)
LEMMA OneChanged ==
  ASSUME NEW S, NEW T, NEW x, IsFiniteSet(S), IsFiniteSet(T), S \ {x} = T \ {x}
  PROVE  /\ Cardinality(S) \in Nat /\ Cardinality(T) \in Nat
         /\ Cardinality(T) <= Cardinality(S) + 1
         /\ (x \in S \/ x \notin T) => Cardinality(T) <= Cardinality(S)
         /\ (x \in S /\ x \notin T) => Cardinality(T) + 1 = Cardinality(S)
<1>1. Cardinality(S) \in Nat /\ Cardinality(T) \in Nat  BY FS_CardinalityType
<1>2. Cardinality(S \ {x}) = IF x \in S THEN Cardinality(S) - 1 ELSE Cardinality(S)
  BY FS_RemoveElement
<1>3. Cardinality(T \ {x}) = IF x \in T THEN Cardinality(T) - 1 ELSE Cardinality(T)
  BY FS_RemoveElement
<1> QED  BY <1>1, <1>2, <1>3

(* Those who owe are finitely many, before and after a step.                  *)
LEMMA OwingFinite == IsFiniteSet(Owing) /\ IsFiniteSet(Owing')
<1>1. Owing \subseteq Replicas /\ Owing' \subseteq Replicas  BY DEF Owing
<1> QED  BY <1>1, FS_Subset, FiniteAssumption

(* A step of one process changes only its own part in Owing.                  *)
LEMMA OwingChange ==
  ASSUME NEW r \in Replicas,
         \A q \in Replicas \ {r} : proc'[q] = proc[q] /\ orphans'[q] = orphans[q]
  PROVE  /\ Cardinality(Owing) \in Nat /\ Cardinality(Owing') \in Nat
         /\ Cardinality(Owing') <= Cardinality(Owing) + 1
         /\ (r \in Owing \/ r \notin Owing') => Cardinality(Owing') <= Cardinality(Owing)
         /\ (r \in Owing /\ r \notin Owing') => Cardinality(Owing') + 1 = Cardinality(Owing)
<1>1. Owing \ {r} = Owing' \ {r}  BY DEF Owing
<1> QED  BY <1>1, OwingFinite, OneChanged

(* A disconnection puts each message back at most once.                       *)
LEMMA DisconnectCloses ==
  ASSUME StartsInv, NEW r \in Replicas, Disconnect(r)
  PROVE  /\ consuming' \in SUBSET Replicas /\ r \notin consuming'
         /\ ready' \in SUBSET Messages
         /\ unacked' \in [Replicas -> SUBSET Messages]
         /\ unacked'[r] = {} /\ IsFiniteSet(unacked'[r]) /\ Cardinality(unacked'[r]) = 0
         /\ \A q \in Replicas \ {r} : /\ unacked'[q] = unacked[q]
                                      /\ q \in consuming' <=> q \in consuming
         /\ \A m \in Messages : /\ Waiting(m) \in {0, 1} /\ Waiting(m)' \in {0, 1}
                                /\ Waiting(m)' <= Waiting(m) + 1
                                /\ unacked[r] = {} => Waiting(m)' = Waiting(m)
<1>0. /\ consuming \in SUBSET Replicas /\ ready \in SUBSET Messages
      /\ unacked \in [Replicas -> SUBSET Messages]
  BY DEF StartsInv, TypeOK
<1>1. /\ consuming' = consuming \ {r} /\ ready' = ready \cup unacked[r]
      /\ unacked' = [unacked EXCEPT ![r] = {}]
  BY DEF Disconnect
<1>2. unacked'[r] = {} /\ \A q \in Replicas \ {r} : unacked'[q] = unacked[q]
  BY <1>0, <1>1
<1>3. IsFiniteSet(unacked'[r]) /\ Cardinality(unacked'[r]) = 0
  BY <1>2, FS_EmptySet
<1>4. \A m \in Messages : /\ Waiting(m) \in {0, 1} /\ Waiting(m)' \in {0, 1}
                          /\ Waiting(m)' <= Waiting(m) + 1
                          /\ unacked[r] = {} => Waiting(m)' = Waiting(m)
  BY <1>1 DEF Waiting
<1>5. unacked' \in [Replicas -> SUBSET Messages]  BY <1>0, <1>1
<1>6. ready' \in SUBSET Messages  BY <1>0, <1>1
<1> QED  BY <1>0, <1>1, <1>2, <1>3, <1>4, <1>5, <1>6

(* The parts of TypeOK and Closed that concern one process.                   *)
LEMMA OneProcess ==
  ASSUME StartsInv, NEW r \in Replicas,
         proc' \in [Replicas -> Phase], consuming' \in SUBSET Replicas,
         ready' \in SUBSET Messages, unacked' \in [Replicas -> SUBSET Messages],
         orphans' \in [Replicas -> [Messages -> Nat]], starts' \in [Messages -> Nat],
         stops' \in Nat, losses' \in Nat,
         \A q \in Replicas \ {r} :
           /\ unacked'[q] = unacked[q] /\ proc'[q] = proc[q]
           /\ orphans'[q] = orphans[q] /\ (q \in consuming' <=> q \in consuming),
         IsFiniteSet(unacked'[r]), Cardinality(unacked'[r]) <= Prefetch,
         r \notin consuming' => unacked'[r] = {},
         proc'[r] \notin {"up", "stopping"} => r \notin consuming',
         proc'[r] = "exited" => orphans'[r] = NoHandlers
  PROVE  TypeOK' /\ Closed'
<1>1. \A q \in Replicas : Cardinality(unacked'[q]) <= Prefetch
  <2>1. \A q \in Replicas \ {r} : Cardinality(unacked'[q]) <= Prefetch
    BY DEF StartsInv, TypeOK
  <2> QED  BY <2>1
<1>2. TypeOK'  BY <1>1 DEF TypeOK
<1>3. ASSUME NEW q \in Replicas
      PROVE  /\ IsFiniteSet(unacked'[q])
             /\ q \notin consuming' => unacked'[q] = {}
             /\ proc'[q] \notin {"up", "stopping"} => q \notin consuming'
             /\ proc'[q] = "exited" => orphans'[q] = NoHandlers
  <2>1. CASE q = r  BY <2>1
  <2>2. CASE q # r  BY <2>2 DEF StartsInv, Closed
  <2> QED  BY <2>1, <2>2
<1>4. NoHandlers' = NoHandlers  BY DEF NoHandlers
<1>5. Closed'  BY <1>3, <1>4 DEF Closed
<1> QED  BY <1>2, <1>5

(* What StartsPaid adds up are numbers.                                       *)
LEMMA Numbers ==
  ASSUME StartsInv
  PROVE  /\ stops \in Nat /\ losses \in Nat
         /\ \A m \in Messages : starts[m] \in Nat /\ Waiting(m) \in {0, 1}
         /\ Cardinality(Owing) \in Nat
<1>1. Cardinality(Owing) \in Nat  BY OwingFinite, FS_CardinalityType
<1> QED  BY <1>1 DEF StartsInv, TypeOK, Waiting

(* A process without orphans has none for each message.                       *)
LEMMA NoHandlersType == NoHandlers \in [Messages -> Nat]
BY DEF NoHandlers

-----------------------------------------------------------------------------
(* At the start every message is owed its one start.                          *)
LEMMA StartsInit == Init => StartsInv
<1> SUFFICES ASSUME Init PROVE StartsInv  OBVIOUS
<1>1. \A r \in Replicas : unacked[r] = {} /\ orphans[r] = NoHandlers /\ proc[r] = "up"
  BY DEF Init
<1>2. \A r \in Replicas : IsFiniteSet(unacked[r]) /\ Cardinality(unacked[r]) = 0
  BY <1>1, FS_EmptySet
<1>3. TypeOK
  BY <1>2, NoHandlersType, PrefetchAssumption DEF Init, TypeOK, Phase
<1>4. Closed  BY <1>1, <1>2 DEF Init, Closed
<1>5. Owing = {}  BY <1>1 DEF Owing
<1>6. Cardinality(Owing) = 0  BY <1>5, FS_EmptySet
<1>7. \A m \in Messages : StartsPaid(m)
  BY <1>6 DEF Init, StartsPaid, Waiting, NoHandlers
<1> QED  BY <1>3, <1>4, <1>7 DEF StartsInv

(* A delivery turns a waiting message into a start.                           *)
LEMMA StartsDeliver ==
  ASSUME StartsInv, NEW r \in Replicas, NEW m \in Messages, Deliver(r, m)
  PROVE  StartsInv'
<1>0. /\ r \in consuming /\ Cardinality(unacked[r]) < Prefetch /\ m \in ready
      /\ ready' = ready \ {m}
      /\ unacked' = [unacked EXCEPT ![r] = unacked[r] \cup {m}]
      /\ starts' = [starts EXCEPT ![m] = starts[m] + 1]
      /\ UNCHANGED <<proc, consuming, orphans, stops, losses>>
  BY DEF Deliver, MayTake, bounds
<1>1. /\ ready \in SUBSET Messages /\ unacked \in [Replicas -> SUBSET Messages]
      /\ starts \in [Messages -> Nat]
  BY DEF StartsInv, TypeOK
<1>2. unacked'[r] = unacked[r] \cup {m} /\ \A q \in Replicas \ {r} : unacked'[q] = unacked[q]
  BY <1>0, <1>1
<1>3. IsFiniteSet(unacked[r])  BY DEF StartsInv, Closed
<1>4. IsFiniteSet(unacked'[r]) /\ Cardinality(unacked'[r]) <= Prefetch
  <2>1. IsFiniteSet(unacked'[r])  BY <1>2, <1>3, FS_AddElement
  <2>2. Cardinality(unacked'[r]) <= Cardinality(unacked[r]) + 1
    <3>1. Cardinality(unacked'[r]) = IF m \in unacked[r] THEN Cardinality(unacked[r])
                                     ELSE Cardinality(unacked[r]) + 1
      BY <1>2, <1>3, FS_AddElement
    <3>2. Cardinality(unacked[r]) \in Nat  BY <1>3, FS_CardinalityType
    <3> QED  BY <3>1, <3>2
  <2>3. Cardinality(unacked[r]) \in Nat /\ Cardinality(unacked'[r]) \in Nat
    BY <1>3, <2>1, FS_CardinalityType
  <2> QED  BY <1>0, <2>1, <2>2, <2>3, PrefetchAssumption
<1>5. unacked' \in [Replicas -> SUBSET Messages]  BY <1>0, <1>1
<1>6. starts' \in [Messages -> Nat]  BY <1>0, <1>1
<1>7. TypeOK' /\ Closed'
  <2>1. proc' \in [Replicas -> Phase] /\ consuming' \in SUBSET Replicas
        /\ orphans' \in [Replicas -> [Messages -> Nat]] /\ stops' \in Nat /\ losses' \in Nat
    BY <1>0 DEF StartsInv, TypeOK
  <2>2. proc'[r] \notin {"up", "stopping"} => r \notin consuming'
    BY <1>0 DEF StartsInv, Closed
  <2>3. proc'[r] = "exited" => orphans'[r] = NoHandlers
    BY <1>0 DEF StartsInv, Closed
  <2>4. ready' \in SUBSET Messages /\ r \in consuming'  BY <1>0, <1>1
  <2> QED  BY <1>0, <1>2, <1>4, <1>5, <1>6, <2>1, <2>2, <2>3, <2>4, OneProcess
<1>8. Owing' = Owing  BY <1>0 DEF Owing
<1>9. ASSUME NEW k \in Messages PROVE StartsPaid(k)'
  <2>1. StartsPaid(k)  BY DEF StartsInv
  <2>2. CASE k = m
    <3>1. starts'[k] = starts[k] + 1 /\ Waiting(k) = 1 /\ Waiting(k)' = 0
      BY <1>0, <1>1, <2>2 DEF Waiting
    <3> QED  BY <1>0, <1>8, <2>1, <3>1, Numbers DEF StartsPaid
  <2>3. CASE k # m
    <3>1. starts'[k] = starts[k] /\ Waiting(k)' = Waiting(k)
      BY <1>0, <1>1, <2>3 DEF Waiting
    <3> QED  BY <1>0, <1>8, <2>1, <3>1 DEF StartsPaid
  <2> QED  BY <2>2, <2>3
<1> QED  BY <1>7, <1>9 DEF StartsInv

(* A handler that returns starts nothing.                                     *)
LEMMA StartsFinish ==
  ASSUME StartsInv, NEW r \in Replicas, NEW m \in Messages, Finish(r, m)
  PROVE  StartsInv'
<1>0. /\ unacked' = [unacked EXCEPT ![r] = unacked[r] \ {m}]
      /\ UNCHANGED <<ready, proc, consuming, orphans, starts, stops, losses>>
  BY DEF Finish, Settled, bounds
<1>1. unacked \in [Replicas -> SUBSET Messages]  BY DEF StartsInv, TypeOK
<1>2. unacked'[r] = unacked[r] \ {m} /\ \A q \in Replicas \ {r} : unacked'[q] = unacked[q]
  BY <1>0, <1>1
<1>3. IsFiniteSet(unacked[r]) /\ Cardinality(unacked[r]) <= Prefetch
  BY DEF StartsInv, Closed, TypeOK
<1>4. IsFiniteSet(unacked'[r]) /\ Cardinality(unacked'[r]) <= Prefetch
  <2>1. unacked'[r] \in SUBSET unacked[r]  BY <1>2
  <2>2. IsFiniteSet(unacked'[r]) /\ Cardinality(unacked'[r]) <= Cardinality(unacked[r])
    BY <1>3, <2>1, FS_Subset
  <2>3. Cardinality(unacked[r]) \in Nat /\ Cardinality(unacked'[r]) \in Nat
    BY <1>3, <2>2, FS_CardinalityType
  <2> QED  BY <1>3, <2>2, <2>3, PrefetchAssumption
<1>5. unacked' \in [Replicas -> SUBSET Messages]  BY <1>0, <1>1
<1>6. TypeOK' /\ Closed'
  <2>1. proc' \in [Replicas -> Phase] /\ consuming' \in SUBSET Replicas
        /\ orphans' \in [Replicas -> [Messages -> Nat]] /\ stops' \in Nat /\ losses' \in Nat
        /\ ready' \in SUBSET Messages /\ starts' \in [Messages -> Nat]
    BY <1>0 DEF StartsInv, TypeOK
  <2>2. /\ proc'[r] \notin {"up", "stopping"} => r \notin consuming'
        /\ proc'[r] = "exited" => orphans'[r] = NoHandlers
        /\ r \notin consuming' => unacked'[r] = {}
    BY <1>0, <1>2 DEF StartsInv, Closed
  <2> QED  BY <1>0, <1>2, <1>4, <1>5, <2>1, <2>2, OneProcess
<1>7. Owing' = Owing  BY <1>0 DEF Owing
<1>8. \A k \in Messages : StartsPaid(k)'
  BY <1>0, <1>7 DEF StartsInv, StartsPaid, Waiting
<1> QED  BY <1>6, <1>8 DEF StartsInv

(* A process that dies was owing, or had nothing to give back.                *)
LEMMA StartsDie ==
  ASSUME StartsInv, NEW r \in Replicas, Die(r),
         UNCHANGED <<starts, stops, losses>>,
         r \in Owing \/ unacked[r] = {}
  PROVE  StartsInv'
<1>0. /\ proc' = [proc EXCEPT ![r] = "exited"] /\ Disconnect(r)
      /\ orphans' = [orphans EXCEPT ![r] = NoHandlers]
  BY DEF Die
<1>1. proc \in [Replicas -> Phase] /\ orphans \in [Replicas -> [Messages -> Nat]]
  BY DEF StartsInv, TypeOK
<1>2. /\ consuming' \in SUBSET Replicas /\ r \notin consuming'
      /\ ready' \in SUBSET Messages
      /\ unacked' \in [Replicas -> SUBSET Messages]
      /\ unacked'[r] = {} /\ IsFiniteSet(unacked'[r]) /\ Cardinality(unacked'[r]) = 0
      /\ \A q \in Replicas \ {r} : /\ unacked'[q] = unacked[q]
                                   /\ q \in consuming' <=> q \in consuming
      /\ \A m \in Messages : /\ Waiting(m) \in {0, 1} /\ Waiting(m)' \in {0, 1}
                             /\ Waiting(m)' <= Waiting(m) + 1
                             /\ unacked[r] = {} => Waiting(m)' = Waiting(m)
  BY <1>0, DisconnectCloses
<1>3. /\ proc'[r] = "exited" /\ orphans'[r] = NoHandlers
      /\ \A q \in Replicas \ {r} : proc'[q] = proc[q] /\ orphans'[q] = orphans[q]
  BY <1>0, <1>1
<1>4. TypeOK' /\ Closed'
  <2>1. proc' \in [Replicas -> Phase]  BY <1>0, <1>1 DEF Phase
  <2>2. orphans' \in [Replicas -> [Messages -> Nat]]  BY <1>0, <1>1, NoHandlersType
  <2>3. starts' \in [Messages -> Nat] /\ stops' \in Nat /\ losses' \in Nat
    BY DEF StartsInv, TypeOK
  <2>4. Cardinality(unacked'[r]) <= Prefetch  BY <1>2, PrefetchAssumption
  <2> QED  BY <1>2, <1>3, <2>1, <2>2, <2>3, <2>4, OneProcess
<1>5. r \notin Owing'  BY <1>3 DEF Owing
<1>6. /\ Cardinality(Owing) \in Nat /\ Cardinality(Owing') \in Nat
      /\ Cardinality(Owing') <= Cardinality(Owing)
      /\ r \in Owing => Cardinality(Owing') + 1 = Cardinality(Owing)
  BY <1>3, <1>5, OwingChange
<1>7. ASSUME NEW m \in Messages PROVE StartsPaid(m)'
  <2>1. StartsPaid(m) /\ starts[m] \in Nat /\ stops \in Nat /\ losses \in Nat
    BY Numbers DEF StartsInv
  <2>2. Waiting(m)' + Cardinality(Owing') <= Waiting(m) + Cardinality(Owing)
    BY <1>2, <1>6
  <2>3. Waiting(m) \in Nat /\ Waiting(m)' \in Nat  BY <1>2
  <2> QED  BY <1>6, <2>1, <2>2, <2>3 DEF StartsPaid
<1> QED  BY <1>4, <1>7 DEF StartsInv

(* An orphan that returns takes its process down, whose debt is then due.     *)
LEMMA StartsFinishOrphan ==
  ASSUME StartsInv, NEW r \in Replicas, NEW m \in Messages, FinishOrphan(r, m)
  PROVE  StartsInv'
<1>1. Die(r) /\ UNCHANGED <<starts, stops, losses>> /\ orphans[r][m] > 0
  BY DEF FinishOrphan, bounds
<1>2. orphans[r] # NoHandlers  BY <1>1 DEF NoHandlers
<1>3. r \in Owing \/ unacked[r] = {}  BY <1>2 DEF StartsInv, Closed, Owing
<1> QED  BY <1>1, <1>3, StartsDie

(* So do the listener that exits the process and the runtime that kills it.   *)
LEMMA StartsExit ==
  ASSUME StartsInv, NEW r \in Replicas, Exit(r) \/ Kill(r)
  PROVE  StartsInv'
<1>1. Die(r) /\ UNCHANGED <<starts, stops, losses>> /\ proc[r] # "up"
  BY DEF Exit, Kill, bounds
<1>2. r \in Owing \/ unacked[r] = {}  BY <1>1 DEF StartsInv, Closed, Owing
<1> QED  BY <1>1, <1>2, StartsDie

(* Orphans are counted, and those of other processes stay.                    *)
LEMMA OrphanType ==
  ASSUME StartsInv, NEW r \in Replicas, Orphan(r)
  PROVE  /\ orphans' \in [Replicas -> [Messages -> Nat]]
         /\ \A q \in Replicas \ {r} : orphans'[q] = orphans[q]
<1> DEFINE after == [m \in Messages |-> orphans[r][m] + IF m \in unacked[r] THEN 1 ELSE 0]
<1>1. orphans \in [Replicas -> [Messages -> Nat]]  BY DEF StartsInv, TypeOK
<1>2. orphans[r] \in [Messages -> Nat]  BY <1>1
<1>3. after \in [Messages -> Nat]  BY <1>2
<1>4. orphans' = [orphans EXCEPT ![r] = after]  BY DEF Orphan
<1> HIDE DEF after
<1> QED  BY <1>1, <1>3, <1>4

(* A loss pays for the messages it puts back and for the debt of its orphans. *)
LEMMA StartsLose ==
  ASSUME StartsInv, NEW r \in Replicas, LoseConnection(r)
  PROVE  StartsInv'
<1>0. /\ proc[r] = "up" /\ losses' = losses + 1 /\ Disconnect(r) /\ Orphan(r)
      /\ UNCHANGED <<proc, starts, stops>>
  BY DEF LoseConnection
<1>1. /\ orphans' \in [Replicas -> [Messages -> Nat]]
      /\ \A q \in Replicas \ {r} : orphans'[q] = orphans[q]
  BY <1>0, OrphanType
<1>2. /\ consuming' \in SUBSET Replicas /\ r \notin consuming'
      /\ ready' \in SUBSET Messages
      /\ unacked' \in [Replicas -> SUBSET Messages]
      /\ unacked'[r] = {} /\ IsFiniteSet(unacked'[r]) /\ Cardinality(unacked'[r]) = 0
      /\ \A q \in Replicas \ {r} : /\ unacked'[q] = unacked[q]
                                   /\ q \in consuming' <=> q \in consuming
      /\ \A m \in Messages : /\ Waiting(m) \in {0, 1} /\ Waiting(m)' \in {0, 1}
                             /\ Waiting(m)' <= Waiting(m) + 1
                             /\ unacked[r] = {} => Waiting(m)' = Waiting(m)
  BY <1>0, DisconnectCloses
<1>3. TypeOK' /\ Closed'
  <2>1. proc' \in [Replicas -> Phase] /\ starts' \in [Messages -> Nat]
        /\ stops' \in Nat /\ losses' \in Nat
    BY <1>0 DEF StartsInv, TypeOK
  <2>2. Cardinality(unacked'[r]) <= Prefetch  BY <1>2, PrefetchAssumption
  <2> QED  BY <1>0, <1>1, <1>2, <2>1, <2>2, OneProcess
<1>4. /\ Cardinality(Owing) \in Nat /\ Cardinality(Owing') \in Nat
      /\ Cardinality(Owing') <= Cardinality(Owing) + 1
  BY <1>0, <1>1, OwingChange
<1>5. ASSUME NEW m \in Messages PROVE StartsPaid(m)'
  <2>1. StartsPaid(m) /\ starts[m] \in Nat /\ stops \in Nat /\ losses \in Nat
    BY Numbers DEF StartsInv
  <2>2. Waiting(m) \in Nat /\ Waiting(m)' \in Nat /\ Waiting(m)' <= Waiting(m) + 1
    BY <1>2
  <2> QED  BY <1>0, <1>4, <2>1, <2>2 DEF StartsPaid
<1> QED  BY <1>3, <1>5 DEF StartsInv

(* Closing the connection gives back what was delivered, at the SIGTERM's cost. *)
LEMMA StartsClose ==
  ASSUME StartsInv, NEW r \in Replicas, CloseConnection(r)
  PROVE  StartsInv'
<1>0. /\ proc[r] = "stopping" /\ proc' = [proc EXCEPT ![r] = "closed"]
      /\ Disconnect(r) /\ Orphan(r)
      /\ UNCHANGED <<starts, stops, losses>>
  BY DEF CloseConnection, bounds
<1>1. /\ orphans' \in [Replicas -> [Messages -> Nat]]
      /\ \A q \in Replicas \ {r} : orphans'[q] = orphans[q]
  BY <1>0, OrphanType
<1>2. /\ consuming' \in SUBSET Replicas /\ r \notin consuming'
      /\ ready' \in SUBSET Messages
      /\ unacked' \in [Replicas -> SUBSET Messages]
      /\ unacked'[r] = {} /\ IsFiniteSet(unacked'[r]) /\ Cardinality(unacked'[r]) = 0
      /\ \A q \in Replicas \ {r} : /\ unacked'[q] = unacked[q]
                                   /\ q \in consuming' <=> q \in consuming
      /\ \A m \in Messages : /\ Waiting(m) \in {0, 1} /\ Waiting(m)' \in {0, 1}
                             /\ Waiting(m)' <= Waiting(m) + 1
                             /\ unacked[r] = {} => Waiting(m)' = Waiting(m)
  BY <1>0, DisconnectCloses
<1>3. proc'[r] = "closed" /\ \A q \in Replicas \ {r} : proc'[q] = proc[q]
  BY <1>0 DEF StartsInv, TypeOK
<1>4. TypeOK' /\ Closed'
  <2>1. proc' \in [Replicas -> Phase]  BY <1>0 DEF StartsInv, TypeOK, Phase
  <2>2. starts' \in [Messages -> Nat] /\ stops' \in Nat /\ losses' \in Nat
    BY <1>0 DEF StartsInv, TypeOK
  <2>3. Cardinality(unacked'[r]) <= Prefetch  BY <1>2, PrefetchAssumption
  <2> QED  BY <1>1, <1>2, <1>3, <2>1, <2>2, <2>3, OneProcess
<1>5. r \in Owing /\ r \notin Owing'  BY <1>0, <1>3 DEF Owing
<1>6. /\ Cardinality(Owing) \in Nat /\ Cardinality(Owing') \in Nat
      /\ Cardinality(Owing') + 1 = Cardinality(Owing)
  BY <1>1, <1>3, <1>5, OwingChange
<1>7. ASSUME NEW m \in Messages PROVE StartsPaid(m)'
  <2>1. StartsPaid(m) /\ starts[m] \in Nat /\ stops \in Nat /\ losses \in Nat
    BY Numbers DEF StartsInv
  <2>2. Waiting(m) \in Nat /\ Waiting(m)' \in Nat /\ Waiting(m)' <= Waiting(m) + 1
    BY <1>2
  <2> QED  BY <1>0, <1>6, <2>1, <2>2 DEF StartsPaid
<1> QED  BY <1>4, <1>7 DEF StartsInv

(* The steps that move a process on and leave its connection alone.           *)
LEMMA StartsMove ==
  ASSUME StartsInv, NEW r \in Replicas, NEW phase \in Phase,
         proc' = [proc EXCEPT ![r] = phase],
         UNCHANGED <<consuming, ready, unacked, orphans, starts, losses>>,
         stops' \in Nat,
         phase \in {"up", "stopping"} \/ r \notin consuming,
         phase # "exited",
         \/ stops' = stops /\ (r \in Owing \/ r \notin Owing')
         \/ stops' = stops + 1
  PROVE  StartsInv'
<1>1. proc'[r] = phase /\ \A q \in Replicas \ {r} : proc'[q] = proc[q]
  BY DEF StartsInv, TypeOK
<1>2. TypeOK' /\ Closed'
  <2>1. proc' \in [Replicas -> Phase]  BY DEF StartsInv, TypeOK
  <2>2. /\ ready' \in SUBSET Messages /\ unacked' \in [Replicas -> SUBSET Messages]
        /\ orphans' \in [Replicas -> [Messages -> Nat]] /\ starts' \in [Messages -> Nat]
        /\ losses' \in Nat /\ consuming' \in SUBSET Replicas
        /\ Cardinality(unacked'[r]) <= Prefetch
    BY DEF StartsInv, TypeOK
  <2>3. IsFiniteSet(unacked'[r]) /\ (r \notin consuming' => unacked'[r] = {})
    BY DEF StartsInv, Closed
  <2> QED  BY <1>1, <2>1, <2>2, <2>3, OneProcess
<1>3. /\ Cardinality(Owing) \in Nat /\ Cardinality(Owing') \in Nat
      /\ Cardinality(Owing') <= Cardinality(Owing) + 1
      /\ (r \in Owing \/ r \notin Owing') => Cardinality(Owing') <= Cardinality(Owing)
  BY <1>1, OwingChange
<1>4. ASSUME NEW m \in Messages PROVE StartsPaid(m)'
  <2>1. StartsPaid(m) /\ starts[m] \in Nat /\ stops \in Nat /\ losses \in Nat
    BY Numbers DEF StartsInv
  <2>2. Waiting(m) \in Nat /\ Waiting(m)' = Waiting(m)  BY DEF Waiting
  <2> QED  BY <1>3, <2>1, <2>2 DEF StartsPaid
<1> QED  BY <1>2, <1>4 DEF StartsInv

(* A restored connection, of a living process or of its successor.            *)
LEMMA StartsConnect ==
  ASSUME StartsInv, NEW r \in Replicas,
         consuming' = consuming \cup {r},
         proc' = [proc EXCEPT ![r] = "up"],
         UNCHANGED <<ready, unacked, orphans, starts, stops, losses>>,
         proc[r] = "up" \/ proc[r] = "exited"
  PROVE  StartsInv'
<1>1. proc'[r] = "up" /\ \A q \in Replicas \ {r} : proc'[q] = proc[q]
  BY DEF StartsInv, TypeOK
<1>2. TypeOK' /\ Closed'
  <2>1. proc' \in [Replicas -> Phase] /\ consuming' \in SUBSET Replicas
    BY DEF StartsInv, TypeOK, Phase
  <2>2. /\ ready' \in SUBSET Messages /\ unacked' \in [Replicas -> SUBSET Messages]
        /\ orphans' \in [Replicas -> [Messages -> Nat]] /\ starts' \in [Messages -> Nat]
        /\ stops' \in Nat /\ losses' \in Nat
        /\ Cardinality(unacked'[r]) <= Prefetch
    BY DEF StartsInv, TypeOK
  <2>3. IsFiniteSet(unacked'[r])  BY DEF StartsInv, Closed
  <2> QED  BY <1>1, <2>1, <2>2, <2>3, OneProcess
<1>3. r \in Owing \/ r \notin Owing'  BY <1>1 DEF StartsInv, Closed, Owing, NoHandlers
<1>4. /\ Cardinality(Owing) \in Nat /\ Cardinality(Owing') \in Nat
      /\ Cardinality(Owing') <= Cardinality(Owing)
  BY <1>1, <1>3, OwingChange
<1>5. ASSUME NEW m \in Messages PROVE StartsPaid(m)'
  <2>1. StartsPaid(m) /\ starts[m] \in Nat /\ stops \in Nat /\ losses \in Nat
    BY Numbers DEF StartsInv
  <2>2. Waiting(m) \in Nat /\ Waiting(m)' = Waiting(m)  BY DEF Waiting
  <2> QED  BY <1>4, <2>1, <2>2 DEF StartsPaid
<1> QED  BY <1>2, <1>5 DEF StartsInv

(* StartsInv is inductive, whatever the processes and the broker do.          *)
THEOREM StartsInductive == Spec => []StartsInv
<1>1. StartsInv /\ [Next]_vars => StartsInv'
  <2> SUFFICES ASSUME StartsInv, [Next]_vars PROVE StartsInv'  OBVIOUS
  <2>1. ASSUME NEW r \in Replicas, NEW m \in Messages,
               Deliver(r, m) \/ Finish(r, m) \/ FinishOrphan(r, m)
        PROVE  StartsInv'
    BY <2>1, StartsDeliver, StartsFinish, StartsFinishOrphan
  <2>2. ASSUME NEW r \in Replicas, LoseConnection(r) \/ CloseConnection(r) \/ Exit(r) \/ Kill(r)
        PROVE  StartsInv'
    BY <2>2, StartsLose, StartsClose, StartsExit
  <2>3. ASSUME NEW r \in Replicas, Reconnect(r) PROVE StartsInv'
    <3>1. proc' = [proc EXCEPT ![r] = "up"]
      BY <2>3 DEF Reconnect, StartsInv, TypeOK
    <3>2. consuming' = consuming \cup {r}  BY <2>3 DEF Reconnect, Resubscribed
    <3>3. UNCHANGED <<ready, unacked, orphans, starts, stops, losses>> /\ proc[r] = "up"
      BY <2>3 DEF Reconnect, broker, bounds
    <3> QED  BY <3>1, <3>2, <3>3, StartsConnect
  <2>4. ASSUME NEW r \in Replicas, Restart(r) PROVE StartsInv'
    BY <2>4, StartsConnect DEF Restart, broker, bounds
  <2>5. ASSUME NEW r \in Replicas, Signal(r) PROVE StartsInv'
    <3>1. stops' \in Nat  BY <2>5, Numbers DEF Signal
    <3>2. "stopping" \in Phase  BY DEF Phase
    <3> QED  BY <2>5, <3>1, <3>2, StartsMove DEF Signal, broker
  <2>6. ASSUME NEW r \in Replicas, StartDrain(r) PROVE StartsInv'
    <3>1. PICK phase \in {"draining", "drained"} : proc' = [proc EXCEPT ![r] = phase]
      BY <2>6 DEF StartDrain
    <3>2. /\ UNCHANGED <<consuming, ready, unacked, orphans, starts, losses>>
          /\ stops' = stops /\ proc[r] = "closed"
      BY <2>6 DEF StartDrain, broker, bounds
    <3>3. phase \in Phase /\ phase # "exited" /\ r \notin consuming /\ stops' \in Nat
      BY <3>2, Numbers DEF Phase, StartsInv, Closed
    <3>4. proc'[r] = phase  BY <3>1 DEF StartsInv, TypeOK
    <3>5. r \notin Owing'  BY <3>4 DEF Owing
    <3> QED  BY <3>1, <3>2, <3>3, <3>5, StartsMove
  <2>7. ASSUME NEW r \in Replicas, DrainTimeout(r) PROVE StartsInv'
    <3>1. proc' = [proc EXCEPT ![r] = "drained"]  BY <2>7 DEF DrainTimeout
    <3>2. /\ UNCHANGED <<consuming, ready, unacked, orphans, starts, losses>>
          /\ stops' = stops /\ proc[r] = "draining"
      BY <2>7 DEF DrainTimeout, broker, bounds
    <3>3. "drained" \in Phase /\ r \notin consuming /\ stops' \in Nat
      BY <3>2, Numbers DEF Phase, StartsInv, Closed
    <3>4. proc'[r] = "drained"  BY <3>1 DEF StartsInv, TypeOK
    <3>5. r \notin Owing'  BY <3>4 DEF Owing
    <3> QED  BY <3>1, <3>2, <3>3, <3>5, StartsMove
  <2>8. CASE UNCHANGED vars
    BY <2>8 DEF vars, broker, bounds, StartsInv, TypeOK, Closed, StartsPaid, Waiting,
       Owing, NoHandlers
  <2> QED  BY <2>1, <2>2, <2>3, <2>4, <2>5, <2>6, <2>7, <2>8 DEF Next, ShutdownStep
<1> QED  BY StartsInit, <1>1, PTL DEF Spec

(* The variables keep their types, and no process holds more deliveries than  *)
(* its channel's prefetch.                                                    *)
THEOREM TypeCorrect == Spec => []TypeOK
BY StartsInductive, PTL DEF StartsInv

(* For every number of processes and messages, a handler is started again for *)
(* a message only because a process was stopped or its connection lost.       *)
THEOREM StartsAreBounded == Spec => []StartsBounded
<1>1. StartsInv => StartsBounded
  <2> SUFFICES ASSUME StartsInv, NEW m \in Messages
               PROVE  starts[m] <= 1 + stops + 2 * losses
    BY DEF StartsBounded
  <2>1. StartsPaid(m)  BY DEF StartsInv
  <2>2. Waiting(m) \in Nat  BY DEF Waiting
  <2> QED  BY <2>1, <2>2, Numbers DEF StartsPaid
<1> QED  BY <1>1, StartsInductive, PTL
=============================================================================
