------------------------------ MODULE EventLedger ------------------------------
(***************************************************************************)
(* One row of camera_events: the lifecycle of a camera capture, the        *)
(* processing lease on it, and the SQL updates that move it, as operators  *)
(* on a row.  The updates come from processing_recovery.py (the lease),    *)
(* event_ledger.py (receipt and transition) and event_operations.py (the   *)
(* operator's actions); the processes that run them are in                 *)
(* EventProcessing.                                                        *)
(*                                                                         *)
(* Time is relative, and equality matters: recovery takes a lease whose    *)
(* lease_expires_unix <= now while renewal still accepts one whose         *)
(* lease_expires_unix >= now.  `lease' is 1 at that very instant, 0 after  *)
(* it and larger before it.                                                *)
(*                                                                         *)
(* The lifecycle states between acquisition and the end (processing,       *)
(* source_verified, validating, recognizing) are one state: nothing reads  *)
(* which of them it is.  delivery_started_at and delivery_decision_id are  *)
(* written and cleared together and are the one field `decision'.          *)
(***************************************************************************)
EXTENDS Naturals

CONSTANTS
  Owners,        \* lease owners: watchers, and operators while they publish
  NoOwner,       \* the empty lease_owner
  Decisions,     \* recognition decisions
  NoDecision,    \* the empty delivery_decision_id
  LeaseTicks     \* event_processing_lease_seconds

Open     == {"received", "processing"}
Terminal == {"processed", "checkin_created", "rejected", "failed", "uncertain",
             "dismissed"}
Phases   == {"idle", "pre_delivery", "delivery_in_progress", "terminal"}

\* Where a copy of the upload can be: under the camera's name or the name an
\* operator republished it under, in quarantine, or hidden while being staged.
Uploads == {"upload", "target"}
Places  == Uploads \cup {"kept", "stage"}
Nowhere == "nowhere"

FullLease == LeaseTicks + 1

Row == [state : Open \cup Terminal \cup {"absent"}, phase : Phases,
        owner : Owners \cup {NoOwner}, lease : 0..FullLease, attempt : Nat,
        decision : Decisions \cup {NoDecision},
        action : Owners \cup {NoOwner},        \* last_operator_action_id
        path : Places \cup {Nowhere}]          \* retention_path

NoRow == [state |-> "absent", phase |-> "idle", owner |-> NoOwner, lease |-> 0,
          attempt |-> 0, decision |-> NoDecision, action |-> NoOwner, path |-> Nowhere]

\* record_event_receipt
Receipt(file) == [NoRow EXCEPT !.state = "received", !.path = file]

-----------------------------------------------------------------------------
(***************************************************************************)
(* Transitions that every module shares.                                   *)
(***************************************************************************)

Unleased(r) == [r EXCEPT !.owner = NoOwner, !.lease = 0]

Ended(r, state) == [Unleased(r) EXCEPT !.state = state, !.phase = "terminal"]

\* transition_event: neither the state it leaves nor the lease is looked at.
Moved(r, state) ==
  IF state \in Terminal THEN Ended(r, state) ELSE [r EXCEPT !.state = state]

-----------------------------------------------------------------------------
(***************************************************************************)
(* The processing lease.                                                   *)
(***************************************************************************)

\* Mutant: a lease never runs out.
ActiveLeaseForever(r) == r.owner # NoOwner

ActiveLease(r) == r.owner # NoOwner /\ r.lease > 1

\* Mutant: the lease of another process is not looked at.
FindsUnlocked(r, w) ==
  CASE r.state = "absent"                       -> "missing"
    [] r.state \in Terminal                     -> "terminal"
    [] OTHER                                    -> "free"

\* What acquire_event_lease finds, in the order in which it looks.
Finds(r, w) ==
  IF r.state = "absent" THEN "missing"
  ELSE IF r.state \in Terminal THEN "terminal"
  ELSE IF ActiveLease(r) THEN IF r.owner = w THEN "owned" ELSE "busy"
  ELSE IF r.phase = "delivery_in_progress" THEN "ambiguous" ELSE "free"

\* An attempt was made before, so that its reservations must be given back.
Recovering(r) == r.attempt > 0 \/ r.owner # NoOwner \/ r.state # "received"

Acquired(r, w) ==
  [r EXCEPT !.state = "processing", !.phase = "pre_delivery", !.owner = w,
            !.lease = FullLease, !.attempt = @ + 1, !.decision = NoDecision]

Renewed(r) == [r EXCEPT !.lease = FullLease]

CanRenew(r, w) == r.owner = w /\ r.lease >= 1 /\ r.state \notin Terminal

\* The state of the event is not looked at, only its lease.
CanBegin(r, w) == r.owner = w /\ r.lease >= 1

Delivering(r, d) ==
  [Renewed(r) EXCEPT !.state = "processing", !.phase = "delivery_in_progress",
                     !.decision = d]

CanFinalize(r, w) == r.state \notin Terminal /\ r.owner = w /\ r.lease > 1

\* recover_expired_event_leases
Abandoned(r) == r.state \in Open /\ (r.owner = NoOwner \/ r.lease <= 1)

\* Mutant: recovery only looks at events that were never submitted.
NeverCrossed(r) == FALSE

CrossedBoundary(r) == r.phase = "delivery_in_progress" \/ r.decision # NoDecision

\* What recovery records once it has put the media of a doubtful event away.
UncertainAt(r, path) == [Ended(r, "uncertain") EXCEPT !.path = path]

Retried(r) == [Unleased(r) EXCEPT !.state = "processing", !.phase = "idle"]

\* Mutant: the countdown does not stop.
OlderStill(r) == [r EXCEPT !.lease = @ - 1]

Older(r) == [r EXCEPT !.lease = IF @ = 0 THEN 0 ELSE @ - 1]

-----------------------------------------------------------------------------
(***************************************************************************)
(* The operator's transactions.                                            *)
(***************************************************************************)

Reprocessable(r) ==
  /\ r.state \in {"rejected", "failed", "dismissed", "processed"}
  /\ ~CrossedBoundary(r)
  /\ ~ActiveLease(r)

\* The lease is the operator's until the media is published.
Requested(r, o) ==
  [r EXCEPT !.state = "received", !.phase = "idle", !.owner = o, !.lease = FullLease,
            !.decision = NoDecision, !.action = o, !.path = "target"]

CanComplete(r, o) ==
  r.state = "received" /\ r.action = o /\ r.owner = o /\ r.lease > 1

Published(r) == [Unleased(r) EXCEPT !.path = "target"]

CanMarkFailed(r, o) == r.action = o /\ r.owner \in {NoOwner, o}

PublishFailed(r, path) ==
  [Ended(r, "failed") EXCEPT !.action = NoOwner, !.path = path]

\* dismiss_event, with --acknowledge-erpnext-checked where it is asked for.
Dismissable(r) ==
  r.state \notin {"absent", "dismissed", "checkin_created"} /\ ~ActiveLease(r)

Dismissed(r) == [Ended(r, "dismissed") EXCEPT !.action = NoOwner]
=============================================================================
