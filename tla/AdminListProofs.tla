--------------------------- MODULE AdminListProofs ---------------------------
(***************************************************************************)
(* The walk through GET /admin/notifications, for every set of ids and     *)
(* every page size.  While the walk goes on, the cursor is the last row    *)
(* listed, and everything that was there all along is listed or below it.  *)
(***************************************************************************)
EXTENDS AdminList, TLAPS

Listed(i) == \E n \in DOMAIN listed : listed[n] = i

\* The cursor is what the client was last shown.
CursorIsLast ==
  walking => \/ cursor = 0 /\ listed = <<>>
             \/ cursor # 0 /\ listed # <<>> /\ cursor = listed[Len(listed)]

\* What has stayed is shown, or is still ahead of the walk.
SteadyAhead ==
  \A i \in steady : Listed(i) \/ (walking /\ (cursor = 0 \/ i < cursor))

WalkInv ==
  /\ TypeOK
  /\ NeverTwice
  /\ steady \subseteq visible \cap matching
  /\ CursorIsLast
  /\ SteadyAhead

-----------------------------------------------------------------------------
(* A query returns a descending sequence of rows, at most k of them, and a    *)
(* row it leaves out is below the last of k (NotificationsRepository.list).   *)
LEMMA FindManyRows ==
  ASSUME NEW S, NEW k \in Nat, NEW rows \in FindMany(S, k)
  PROVE  /\ rows \in Seq(S)
         /\ Len(rows) \in 0..k
         /\ DOMAIN rows = 1..Len(rows)
         /\ \A m, n \in DOMAIN rows : m < n => rows[m] > rows[n]
         /\ \A i \in S : \/ \E n \in DOMAIN rows : rows[n] = i
                         \/ Len(rows) = k /\ i < rows[k]
<1>1. PICK n \in 0..k : rows \in [1..n -> S]  BY DEF FindMany
<1>2. rows \in Seq(S) /\ Len(rows) = n /\ DOMAIN rows = 1..n  BY <1>1
<1> QED  BY <1>2 DEF FindMany

(* The page is a descending sequence of rows of the query; when there is a    *)
(* next page, it is full and the cursor is its last row; otherwise it holds   *)
(* every row of the query (AdminService.list).                                *)
LEMMA PageRows ==
  ASSUME NEW S, S \subseteq Ids, NEW rows \in FindMany(S, Limit + 1)
  PROVE  /\ Items(rows) \in Seq(S)
         /\ \A m, n \in DOMAIN Items(rows) :
              m < n => Items(rows)[m] > Items(rows)[n]
         /\ HasMore(rows) => /\ Items(rows) # <<>>
                             /\ NextCursor(rows) \in S
                             /\ NextCursor(rows) = Items(rows)[Len(Items(rows))]
         /\ ~HasMore(rows) => NextCursor(rows) = 0
         /\ \A i \in S : \/ \E n \in DOMAIN Items(rows) : Items(rows)[n] = i
                         \/ HasMore(rows) /\ i < NextCursor(rows)
<1>a. Limit \in Nat /\ Limit >= 1  BY LimitAssumption
<1>b. Limit + 1 \in Nat  BY <1>a
<1>0. /\ rows \in Seq(S)
      /\ Len(rows) \in 0..(Limit + 1)
      /\ DOMAIN rows = 1..Len(rows)
      /\ \A m, n \in DOMAIN rows : m < n => rows[m] > rows[n]
      /\ \A i \in S : \/ \E n \in DOMAIN rows : rows[n] = i
                      \/ Len(rows) = Limit + 1 /\ i < rows[Limit + 1]
  BY <1>b, FindManyRows
<1>1. CASE ~HasMore(rows)
  <2>1. Items(rows) = rows /\ NextCursor(rows) = 0  BY <1>1 DEF Items, NextCursor
  <2>2. Len(rows) # Limit + 1  BY <1>a, <1>1 DEF HasMore
  <2> QED  BY <1>0, <1>1, <2>1, <2>2
<1>2. CASE HasMore(rows)
  <2> DEFINE page == Items(rows)
  <2>1. Len(rows) = Limit + 1 /\ DOMAIN rows = 1..(Limit + 1)
    <3>1. Len(rows) \in 0..(Limit + 1) /\ Len(rows) > Limit
      BY <1>0, <1>2 DEF HasMore
    <3>2. Len(rows) = Limit + 1  BY <1>a, <3>1
    <3> QED  BY <1>0, <3>2
  <2>2. page = SubSeq(rows, 1, Limit)  BY <1>2 DEF Items
  <2>3. page \in Seq(S) /\ Len(page) = Limit
    BY <1>a, <1>0, <2>1, <2>2
  <2>4. DOMAIN page = 1..Limit  BY <2>3
  <2>5. \A n \in 1..Limit : page[n] = rows[n]  BY <1>a, <1>0, <2>1, <2>2
  <2>6. NextCursor(rows) = page[Len(page)]  BY <1>2 DEF NextCursor
  <2>7. NextCursor(rows) = rows[Limit]  BY <1>a, <2>3, <2>5, <2>6
  <2>8. page[Limit] \in S  BY <1>a, <2>3
  <2>9. NextCursor(rows) \in S  BY <2>3, <2>6, <2>8
  <2>10. \A m, n \in DOMAIN page : m < n => page[m] > page[n]
    BY <1>a, <1>0, <2>1, <2>4, <2>5
  <2>11. page # <<>>  BY <1>a, <2>3
  <2>12. ASSUME NEW i \in S
         PROVE  (\E n \in DOMAIN page : page[n] = i) \/ i < NextCursor(rows)
    <3>1. rows[Limit + 1] < rows[Limit]
      <4>1. Limit \in DOMAIN rows /\ Limit + 1 \in DOMAIN rows /\ Limit < Limit + 1
        BY <1>a, <2>1
      <4>2. rows[Limit] > rows[Limit + 1]  BY <1>0, <4>1
      <4>3. rows[Limit] \in Ids /\ rows[Limit + 1] \in Ids
        BY <1>0, <4>1
      <4>4. rows[Limit] \in Nat /\ rows[Limit + 1] \in Nat
        BY <4>3, IdsAssumption
      <4> QED  BY <4>2, <4>4
    <3>2. rows[Limit] \in Nat /\ rows[Limit + 1] \in Nat /\ i \in Nat
      <4>1. Limit \in DOMAIN rows /\ Limit + 1 \in DOMAIN rows
        BY <1>a, <2>1
      <4>2. rows[Limit] \in Ids /\ rows[Limit + 1] \in Ids
        BY <1>0, <4>1
      <4> QED  BY <4>2, IdsAssumption
    <3>3. CASE \E n \in DOMAIN rows : rows[n] = i
      <4>1. PICK n \in 1..(Limit + 1) : rows[n] = i  BY <2>1, <3>3
      <4>2. CASE n = Limit + 1  BY <2>7, <3>1, <4>1, <4>2
      <4>3. CASE n \in 1..Limit  BY <2>4, <2>5, <4>1, <4>3
      <4> QED  BY <1>a, <4>1, <4>2, <4>3
    <3>4. CASE i < rows[Limit + 1]  BY <2>7, <3>1, <3>2, <3>4
    <3> QED  BY <1>0, <3>3, <3>4
  <2> QED  BY <1>2, <2>3, <2>6, <2>9, <2>10, <2>11, <2>12
<1> QED  BY <1>1, <1>2

-----------------------------------------------------------------------------
(* A walk that has not begun has shown nothing.                               *)
LEMMA WalkInit == Init => WalkInv
<1> SUFFICES ASSUME Init PROVE WalkInv  OBVIOUS
<1>1. TypeOK  BY DEF Init, TypeOK
<1>2. NeverTwice  BY DEF Init, NeverTwice
<1>3. steady \subseteq visible \cap matching  BY DEF Init
<1>4. CursorIsLast  BY DEF Init, CursorIsLast
<1>5. SteadyAhead  BY DEF Init, SteadyAhead
<1> QED  BY <1>1, <1>2, <1>3, <1>4, <1>5 DEF WalkInv

(* The next page shows only rows below the cursor, and none of them is passed. *)
LEMMA WalkPage ==
  ASSUME WalkInv, NEW rows \in FindMany(Older, Limit + 1), NextPage(rows)
  PROVE  WalkInv'
<1> DEFINE page == Items(rows)
<1>0. Older \subseteq Ids  BY DEF Older, WalkInv, TypeOK
<1>1. /\ page \in Seq(Older)
      /\ \A m, n \in DOMAIN page : m < n => page[m] > page[n]
      /\ HasMore(rows) => /\ page # <<>>
                          /\ NextCursor(rows) \in Older
                          /\ NextCursor(rows) = page[Len(page)]
      /\ ~HasMore(rows) => NextCursor(rows) = 0
      /\ \A i \in Older : \/ \E n \in DOMAIN page : page[n] = i
                          \/ HasMore(rows) /\ i < NextCursor(rows)
  BY <1>0, PageRows
<1> HIDE DEF page
<1>2. /\ walking /\ walking' = HasMore(rows)
      /\ listed' = listed \o page
      /\ cursor' = NextCursor(rows)
      /\ UNCHANGED <<visible, matching, steady, changes>>
  BY DEF NextPage, page
<1>3. listed \in Seq(Ids) /\ page \in Seq(Ids)
  BY <1>0, <1>1 DEF WalkInv, TypeOK
<1>4. /\ DOMAIN listed = 1..Len(listed) /\ DOMAIN page = 1..Len(page)
      /\ Len(listed) \in Nat /\ Len(page) \in Nat
      /\ Len(listed') = Len(listed) + Len(page)
      /\ DOMAIN listed' = 1..(Len(listed) + Len(page))
      /\ \A n \in DOMAIN listed : listed'[n] = listed[n]
      /\ \A n \in DOMAIN page : listed'[Len(listed) + n] = page[n]
  BY <1>2, <1>3
<1>5. TypeOK'
  <2>1. listed' \in Seq(Ids)  BY <1>2, <1>3
  <2>2. cursor' \in Ids \cup {0}  BY <1>0, <1>1, <1>2
  <2>3. walking' \in BOOLEAN  BY <1>2 DEF HasMore
  <2> QED  BY <1>2, <2>1, <2>2, <2>3 DEF WalkInv, TypeOK
<1>6. \A m \in DOMAIN listed, n \in DOMAIN page : listed[m] > page[n]
  <2> SUFFICES ASSUME NEW m \in DOMAIN listed, NEW n \in DOMAIN page
               PROVE  listed[m] > page[n]
    OBVIOUS
  <2>1. listed # <<>>  BY <1>4
  <2>2. cursor # 0 /\ cursor = listed[Len(listed)]
    BY <1>2, <2>1 DEF WalkInv, CursorIsLast
  <2>3. page[n] \in Older  BY <1>1
  <2>4. page[n] < cursor  BY <2>2, <2>3 DEF Older
  <2>5. m \in 1..Len(listed) /\ Len(listed) \in DOMAIN listed  BY <1>4
  <2>6. m = Len(listed) \/ listed[m] > listed[Len(listed)]
    BY <2>5 DEF WalkInv, NeverTwice
  <2>7. listed[m] \in Nat /\ listed[Len(listed)] \in Nat /\ page[n] \in Nat
    <3>1. listed[m] \in Ids /\ listed[Len(listed)] \in Ids /\ page[n] \in Ids
      BY <1>3, <1>4, <2>5
    <3> QED  BY <3>1, IdsAssumption
  <2> QED  BY <2>2, <2>4, <2>6, <2>7
<1>7. NeverTwice'
  <2> SUFFICES ASSUME NEW m \in DOMAIN listed', NEW n \in DOMAIN listed', m < n
               PROVE  listed'[m] > listed'[n]
    BY DEF NeverTwice
  <2>0. m \in 1..(Len(listed) + Len(page)) /\ n \in 1..(Len(listed) + Len(page))
    BY <1>4
  <2>1. CASE n <= Len(listed)
    <3>1. m \in DOMAIN listed /\ n \in DOMAIN listed  BY <1>4, <2>0, <2>1
    <3>2. listed[m] > listed[n]  BY <3>1 DEF WalkInv, NeverTwice
    <3> QED  BY <1>4, <3>1, <3>2
  <2>2. CASE n > Len(listed) /\ m <= Len(listed)
    <3>1. m \in DOMAIN listed /\ n - Len(listed) \in DOMAIN page
      BY <1>4, <2>0, <2>2
    <3>2. listed'[n] = page[n - Len(listed)]
      <4>1. Len(listed) + (n - Len(listed)) = n  BY <1>4, <2>0
      <4> QED  BY <1>4, <3>1, <4>1
    <3> QED  BY <1>4, <1>6, <3>1, <3>2
  <2>3. CASE m > Len(listed)
    <3>1. /\ m - Len(listed) \in DOMAIN page /\ n - Len(listed) \in DOMAIN page
          /\ m - Len(listed) < n - Len(listed)
      BY <1>4, <2>0, <2>3
    <3>2. Len(listed) + (m - Len(listed)) = m /\ Len(listed) + (n - Len(listed)) = n
      BY <1>4, <2>0
    <3>3. /\ listed'[m] = page[m - Len(listed)]
          /\ listed'[n] = page[n - Len(listed)]
      BY <1>4, <3>1, <3>2
    <3>4. page[m - Len(listed)] > page[n - Len(listed)]  BY <1>1, <3>1
    <3> QED  BY <3>3, <3>4
  <2> QED  BY <1>4, <2>0, <2>1, <2>2, <2>3
<1>8. (steady \subseteq visible \cap matching)'  BY <1>2 DEF WalkInv
<1>9. CursorIsLast'
  <2> SUFFICES ASSUME HasMore(rows)
               PROVE  cursor' # 0 /\ listed' # <<>> /\ cursor' = listed'[Len(listed')]
    BY <1>2 DEF CursorIsLast
  <2>1. Len(page) \in DOMAIN page /\ Len(page) > 0  BY <1>1, <1>3, <1>4
  <2>2. listed'[Len(listed')] = page[Len(page)]  BY <1>4, <2>1
  <2>3. Len(listed') > 0  BY <1>4, <2>1
  <2>4. listed' # <<>>  BY <2>3
  <2>5. cursor' \in Ids  BY <1>0, <1>1, <1>2
  <2> QED  BY <1>1, <1>2, <2>2, <2>4, <2>5, IdsAssumption
<1>10. SteadyAhead'
  <2> SUFFICES ASSUME NEW i \in steady
               PROVE  \/ Listed(i)'
                      \/ HasMore(rows) /\ (NextCursor(rows) = 0 \/ i < NextCursor(rows))
    BY <1>2 DEF SteadyAhead
  <2>1. CASE Listed(i)
    <3>1. PICK n \in DOMAIN listed : listed[n] = i  BY <2>1 DEF Listed
    <3>2. n \in DOMAIN listed' /\ listed'[n] = i  BY <1>4, <3>1
    <3> QED  BY <3>2 DEF Listed
  <2>2. CASE cursor = 0 \/ i < cursor
    <3>1. i \in Older  BY <2>2 DEF Older, WalkInv
    <3>2. CASE \E n \in DOMAIN page : page[n] = i
      <4>1. PICK n \in DOMAIN page : page[n] = i  BY <3>2
      <4>2. Len(listed) + n \in DOMAIN listed'  BY <1>4
      <4> QED  BY <1>4, <4>1, <4>2 DEF Listed
    <3> QED  BY <1>1, <3>1, <3>2
  <2> QED  BY <2>1, <2>2 DEF WalkInv, SteadyAhead
<1> QED  BY <1>5, <1>7, <1>8, <1>9, <1>10 DEF WalkInv

(* A row that appears was not there to be missed.                             *)
LEMMA WalkAppear ==
  ASSUME WalkInv, NEW i \in Ids, Appear(i)
  PROVE  WalkInv'
<1> USE DEF Appear
<1>1. TypeOK'  BY DEF WalkInv, TypeOK
<1>2. NeverTwice'  BY DEF WalkInv, NeverTwice
<1>3. (steady \subseteq visible \cap matching)'  BY DEF WalkInv
<1>4. CursorIsLast'  BY DEF WalkInv, CursorIsLast
<1>5. SteadyAhead'  BY DEF WalkInv, SteadyAhead, Listed
<1> QED  BY <1>1, <1>2, <1>3, <1>4, <1>5 DEF WalkInv

(* A row that leaves or joins the list is not steady any more.                *)
LEMMA WalkChange ==
  ASSUME WalkInv, NEW i \in Ids, ChangeStatus(i)
  PROVE  WalkInv'
<1> USE DEF ChangeStatus
<1>1. TypeOK'  BY DEF WalkInv, TypeOK
<1>2. NeverTwice'  BY DEF WalkInv, NeverTwice
<1>3. (steady \subseteq visible \cap matching)'  BY DEF WalkInv
<1>4. CursorIsLast'  BY DEF WalkInv, CursorIsLast
<1>5. SteadyAhead'  BY DEF WalkInv, SteadyAhead, Listed
<1> QED  BY <1>1, <1>2, <1>3, <1>4, <1>5 DEF WalkInv

(* WalkInv is inductive, whatever appears and changes between two pages. *)
THEOREM WalkInductive == Spec => []WalkInv
<1>1. WalkInv /\ [Next]_vars => WalkInv'
  <2> SUFFICES ASSUME WalkInv, [Next]_vars PROVE WalkInv'  OBVIOUS
  <2>1. CASE \E rows \in FindMany(Older, Limit + 1) : NextPage(rows)
    BY <2>1, WalkPage
  <2>2. CASE \E i \in Ids : Appear(i)  BY <2>2, WalkAppear
  <2>3. CASE \E i \in Ids : ChangeStatus(i)  BY <2>3, WalkChange
  <2>4. CASE UNCHANGED vars
    BY <2>4 DEF vars, WalkInv, TypeOK, NeverTwice, CursorIsLast, SteadyAhead, Listed
  <2> QED  BY <2>1, <2>2, <2>3, <2>4 DEF Next
<1> QED  BY WalkInit, <1>1, PTL DEF Spec

(* The variables keep their types for every set of ids and page size. *)
THEOREM TypeCorrect == Spec => []TypeOK
BY WalkInductive, PTL DEF WalkInv

(* However rows appear and change their status between two pages, the walk    *)
(* lists no row twice.                                                        *)
THEOREM WalkNeverTwice == Spec => []NeverTwice
BY WalkInductive, PTL DEF WalkInv

(* A walk that is over has listed every row that was there, in the right      *)
(* status, from its beginning to its end.                                     *)
THEOREM WalkSkipsNothing == Spec => []NothingSkipped
<1>1. WalkInv => NothingSkipped
  BY DEF WalkInv, SteadyAhead, Listed, NothingSkipped
<1> QED  BY <1>1, WalkInductive, PTL
=============================================================================
