------------------------------ MODULE AdminList ------------------------------
(***************************************************************************)
(* GET /admin/notifications: a client walks the list page by page, handing *)
(* back nextCursor, while notifications appear on the replica and change   *)
(* status.  Ids are ULIDs, made by the ingest consumers of two replicas    *)
(* before they commit, so rows do not appear in the order of their ids.    *)
(***************************************************************************)
EXTENDS Naturals, Sequences, FiniteSets

CONSTANTS
  Ids,         \* ids of notifications, in the order of ULIDs
  Limit,       \* the request's page size
  MaxChanges   \* bound: status changes during the walk

ASSUME IdsAssumption == Ids \subseteq Nat \ {0} /\ IsFiniteSet(Ids)
ASSUME LimitAssumption == Limit \in Nat \ {0} /\ MaxChanges \in Nat

VARIABLES
  visible,   \* rows the replica shows
  matching,  \* rows in the status the request filters for
  cursor,    \* the cursor to send next; 0 for none
  listed,    \* ids listed so far
  walking,   \* the last page is still to come
  steady,    \* rows visible and matching since the walk began
  changes    \* status changes so far

vars == <<visible, matching, cursor, listed, walking, steady, changes>>

(* The type invariant. *)
TypeOK ==
  /\ visible \in SUBSET Ids
  /\ matching \in SUBSET Ids
  /\ cursor \in Ids \cup {0}
  /\ listed \in Seq(Ids)
  /\ walking \in BOOLEAN
  /\ steady \in SUBSET Ids
  /\ changes \in Nat

Init ==
  /\ visible \in SUBSET Ids
  /\ matching \in SUBSET Ids
  /\ cursor = 0
  /\ listed = <<>>
  /\ walking = TRUE
  /\ steady = visible \cap matching
  /\ changes = 0

Appear(i) ==
  /\ i \notin visible
  /\ visible' = visible \cup {i}
  /\ UNCHANGED <<matching, cursor, listed, walking, steady, changes>>

ChangeStatus(i) ==
  /\ changes < MaxChanges
  /\ changes' = changes + 1
  /\ matching' = IF i \in matching THEN matching \ {i} ELSE matching \cup {i}
  /\ steady' = steady \ {i}
  /\ UNCHANGED <<visible, cursor, listed, walking>>

-----------------------------------------------------------------------------
\* Mutant of Older: the row of the cursor again.
OlderOrSame == {i \in visible \cap matching : cursor = 0 \/ i <= cursor}
Older == {i \in visible \cap matching : cursor = 0 \/ i < cursor}

\* findMany with orderBy id desc, take k: the k greatest of S, or all of them.
FindMany(S, k) ==
  {rows \in UNION {[1..n -> S] : n \in 0..k} :
     /\ \A m, n \in DOMAIN rows : m < n => rows[m] > rows[n]
     /\ \A i \in S : \/ \E n \in DOMAIN rows : rows[n] = i
                     \/ Len(rows) = k /\ i < rows[k]}

\* One row more than the page holds shows whether there is a next page.
HasMore(rows) == Len(rows) > Limit
Items(rows) == IF HasMore(rows) THEN SubSeq(rows, 1, Limit) ELSE rows

\* Mutant of NextCursor: the cursor is the row that was cut off.
NextCursorSkipping(rows) == IF HasMore(rows) THEN rows[Limit + 1] ELSE 0
\* Mutant of NextCursor: a cursor made for a query with id <= cursor.
NextCursorInclusive(rows) == IF HasMore(rows) THEN rows[Limit] - 1 ELSE 0
NextCursor(rows) == IF HasMore(rows) THEN Items(rows)[Len(Items(rows))] ELSE 0

NextPage(rows) ==
  /\ walking
  /\ listed' = listed \o Items(rows)
  /\ walking' = HasMore(rows)
  /\ cursor' = NextCursor(rows)
  /\ UNCHANGED <<visible, matching, steady, changes>>

Next ==
  \/ \E rows \in FindMany(Older, Limit + 1) : NextPage(rows)
  \/ \E i \in Ids : Appear(i) \/ ChangeStatus(i)

Spec == Init /\ [][Next]_vars

-----------------------------------------------------------------------------
(* Properties *)

(* The walk goes through the ids downwards: whatever appears or changes       *)
(* meanwhile, it lists no row twice.                                          *)
NeverTwice == \A m, n \in DOMAIN listed : m < n => listed[m] > listed[n]

(* A walk that is over has listed every row that was there, in the right      *)
(* status, from beginning to end.                                             *)
NothingSkipped ==
  ~walking => \A i \in steady : \E n \in DOMAIN listed : listed[n] = i
=============================================================================
