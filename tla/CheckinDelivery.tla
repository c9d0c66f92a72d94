---------------------------- MODULE CheckinDelivery ----------------------------
(***************************************************************************)
(* What delivery promises for each accepted recognition decision, with     *)
(* nothing of how: ERPNext gets at most one Employee Checkin for it, at    *)
(* any time after the decision was accepted, even after the node gave up;  *)
(* the decision is settled at most once, and as delivered only when the    *)
(* check-in is there.                                                      *)
(***************************************************************************)
CONSTANTS
  Decisions,     \* accepted recognition decisions
  Documents      \* Employee Checkin documents

VARIABLES
  outcome,       \* what the node says of each decision
  checkins       \* what ERPNext has for each decision

vars == <<outcome, checkins>>

Init ==
  /\ outcome = [d \in Decisions |-> "none"]
  /\ checkins = [d \in Decisions |-> {}]

Accept(d) ==
  /\ outcome[d] = "none"
  /\ outcome' = [outcome EXCEPT ![d] = "queued"]
  /\ UNCHANGED checkins

Create(d) ==
  /\ outcome[d] # "none"
  /\ checkins[d] = {}
  /\ \E doc \in Documents : checkins' = [checkins EXCEPT ![d] = {doc}]
  /\ UNCHANGED outcome

\* One sweep may settle several decisions.
Settle ==
  /\ DOMAIN outcome' = Decisions
  /\ \A d \in Decisions :
       \/ outcome'[d] = outcome[d]
       \/ outcome[d] = "queued" /\ outcome'[d] \in {"failed", "unknown"}
       \/ /\ outcome[d] = "queued" /\ outcome'[d] = "delivered"
          /\ checkins[d] # {}
  /\ UNCHANGED checkins

Next == Settle \/ \E d \in Decisions : Accept(d) \/ Create(d)

Spec == Init /\ [][Next]_vars
=============================================================================
