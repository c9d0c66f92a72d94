--------------------------- MODULE AttendancePolicy ---------------------------
(***************************************************************************)
(* One row of attendance_policy_state: the reservation that keeps two      *)
(* accepted faces of one employee, direction, branch and policy version    *)
(* from both becoming check-ins inside the cooldown.  The SQL updates of   *)
(* processing_recovery.py and delivery_outbox.py are operators on a row,   *)
(* so that every module that owns such rows applies the same ones.         *)
(*                                                                         *)
(* reservation_expires_unix is a countdown: `window' is the time left, and *)
(* a window of 0 has expired.  reservation_event_id is determined by the   *)
(* decision and is not kept.  Each decision asks for its scope once, so    *)
(* the already_reserved answer never arises.                               *)
(***************************************************************************)
EXTENDS Naturals

CONSTANTS
  Jobs,          \* accepted recognition decisions, one delivery job each
  NoJob,         \* the empty decision id
  Effective,     \* effective_at of each decision's event
  Cooldown       \* cooldown_seconds

ASSUME PolicyAssumption ==
  /\ NoJob \notin Jobs
  /\ Effective \in [Jobs -> Nat \ {0}]
  /\ Cooldown \in Nat

ReservationStates == {"none", "pending", "uncertain"}

Holders == Jobs \cup {NoJob}

PolicyRow == [state : ReservationStates, decision : Holders, window : Nat,
              committed : Holders]

\* A scope nobody has reserved yet: in the code, no row at all.
FreshRow == [state |-> "none", decision |-> NoJob, window |-> 0, committed |-> NoJob]

-----------------------------------------------------------------------------
(***************************************************************************)
(* The updates.  Each keeps the WHERE clause on reservation_state; the     *)
(* clause on the decision is the caller's (AfterEffect of DeliveryOutbox). *)
(***************************************************************************)

Released(p) ==
  IF p.state = "pending"
  THEN [p EXCEPT !.state = "none", !.decision = NoJob, !.window = 0]
  ELSE p

\* _release_policy_for_event_tx gives up an uncertain reservation, too.
GivenUp(p) == [p EXCEPT !.state = "none", !.decision = NoJob, !.window = 0]

MarkedUncertain(p) ==
  IF p.state = "none" THEN p ELSE [p EXCEPT !.state = "uncertain", !.window = 0]

Committed(p) ==
  IF p.state = "pending"
  THEN [FreshRow EXCEPT !.committed = p.decision]
  ELSE p

Extended(p, window) ==
  IF p.state = "pending" /\ p.window < window THEN [p EXCEPT !.window = window] ELSE p

Elapsed(p) == [p EXCEPT !.window = IF @ = 0 THEN 0 ELSE @ - 1]

-----------------------------------------------------------------------------
(***************************************************************************)
(* reserve_attendance_policy.  `jobState' is the state of the delivery job *)
(* of the decision that holds the reservation ("absent" when there is      *)
(* none); `delivering' says that the holder's event is inside a            *)
(* synchronous ERPNext call.                                               *)
(***************************************************************************)

Expired(p) == p.state = "pending" /\ p.window = 0

\* The holder's reservation has run out but its delivery may have happened.
HolderUnresolved(p, jobState, delivering) ==
  /\ Expired(p)
  /\ delivering \/ jobState \in {"uncertain", "delivered"}

\* Mutant: an expired reservation is free, whatever became of its delivery.
ReservableOnceExpired(p, jobState, delivering) == p.state = "none" \/ Expired(p)

\* Nobody holds the scope, or the holder let its reservation run out and its
\* delivery can no longer happen.
Reservable(p, jobState, delivering) ==
  \/ p.state = "none"
  \/ /\ Expired(p)
     /\ ~delivering
     /\ jobState \in {"absent", "permanent_failure", "cancelled"}

\* Mutant: only captures older than the committed one are held back.
CoolingDownIfOlder(p, d) ==
  p.committed # NoJob /\ Effective[d] <= Effective[p.committed]

CoolingDown(p, d) ==
  /\ p.committed # NoJob
  /\ \/ Effective[d] <= Effective[p.committed]
     \/ Effective[d] < Effective[p.committed] + Cooldown

Reserved(p, d, window) ==
  [p EXCEPT !.state = "pending", !.decision = d, !.window = window]
=============================================================================
