------------------------ MODULE NotificationLifecycle ------------------------
(***************************************************************************)
(* The life of a notification as the admin and the receiver see it.  A row *)
(* waits, is worked on, and settles as SENT or FAILED.  It waits again     *)
(* only at the price of one of MaxRedrives redrives, or by hand when it    *)
(* has failed.  SENT needs the receiver's acceptance, and is not the end:  *)
(* a result that comes late may still replace it, but only by FAILED.      *)
(***************************************************************************)
EXTENDS Naturals

CONSTANTS Rows, MaxRedrives

VARIABLES
  status,    \* of each row
  redrives,  \* redrives each row has used up
  accepted   \* rows the receiver has accepted

Init ==
  /\ status = [n \in Rows |-> "ABSENT"]
  /\ redrives = [n \in Rows |-> 0]
  /\ accepted = {}

Moves(n, from, to) == status[n] \in from /\ status'[n] = to

Created == {"PENDING", "PROCESSING", "SENT", "FAILED"}

Create(n) == Moves(n, {"ABSENT"}, "PENDING")
Claim(n) == Moves(n, {"PENDING"}, "PROCESSING")
Succeed(n) == Moves(n, Created, "SENT") /\ n \in accepted
Fail(n) == Moves(n, Created, "FAILED")
RetryByHand(n) == Moves(n, {"FAILED"}, "PENDING")
Redrive(n) ==
  /\ Moves(n, {"PROCESSING"}, "PENDING")
  /\ redrives[n] < MaxRedrives
  /\ redrives'[n] = redrives[n] + 1

RowNext(n) ==
  \/ Redrive(n)
  \/ /\ redrives'[n] = redrives[n]
     /\ \/ status'[n] = status[n]
        \/ Create(n) \/ Claim(n) \/ Succeed(n) \/ Fail(n) \/ RetryByHand(n)

\* A tick moves a whole batch of rows at once; the receiver only accepts rows
\* that exist, and an acceptance is not taken back.
Next ==
  /\ \A n \in Rows : RowNext(n)
  /\ accepted \subseteq accepted'
  /\ \A n \in accepted' \ accepted : status[n] \in Created

Spec == Init /\ [][Next]_<<status, redrives, accepted>>
=============================================================================
