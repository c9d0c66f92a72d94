---------------------------- MODULE DeliveryOutbox ----------------------------
(***************************************************************************)
(* The durable delivery outbox: the delivery_jobs table and the policy     *)
(* reservations its transactions move with it (delivery_outbox.py), the    *)
(* worker processes that drain it, each with its heartbeat thread          *)
(* (delivery_service.py), the idempotency binding                          *)
(* (erpnext_idempotency.py), the watcher's reserve-then-persist in worker  *)
(* mode and what later becomes of the event (watch_service.py,             *)
(* processing_recovery.py, event_operations.py), and ERPNext behind a      *)
(* network that loses and delays (frappe_apps).                            *)
(*                                                                         *)
(* Every action is one SQLite transaction or one step of a process.  Time  *)
(* is relative: a deadline column is the number of ticks left until it,    *)
(* and 0 is "expired" (lease_expires_unix <= now) or "due"                 *)
(* (next_attempt_unix <= now).  Of the claim's ORDER BY only "due and      *)
(* within budget" is kept: any such job may be the next.                   *)
(***************************************************************************)
EXTENDS AttendancePolicy, FiniteSets

CONSTANTS
  Workers,         \* delivery worker processes
  NoWorker,        \* the empty lease owner
  Sites,           \* ERPNext destinations (site, contract and fingerprint)
  NoSite,          \* an empty erpnext_idempotency_fingerprint; no capability
  Scopes,          \* attendance policy scopes
  ScopeOf,         \* the scope of each decision
  Verified,        \* erpnext_idempotency_required
  MaxAttempts,     \* bound on every delivery_worker_max_attempts
  Budgets,         \* values delivery_worker_max_attempts is configured to
  LeaseTicks,      \* delivery_worker_lease_seconds
  RetryDelays,     \* outcomes of retry_delay_seconds and Retry-After
  WindowTicks,     \* attendance_policy_reservation_seconds
  ExtendTicks,     \* the 300 s by which a retry keeps its reservation alive
  WatcherStalls    \* may a watcher stall between reserve and persist for
                   \* longer than its reservation?  The deployment rules it out:
                   \* "The reservation window must cover the same operation".

ASSUME OutboxAssumption ==
  /\ NoWorker \notin Workers
  /\ NoSite \notin Sites
  /\ ScopeOf \in [Jobs -> Scopes]
  /\ Verified \in BOOLEAN /\ WatcherStalls \in BOOLEAN
  /\ MaxAttempts \in Nat \ {0}
  /\ Budgets \subseteq 1..MaxAttempts /\ Budgets # {}
  /\ LeaseTicks \in Nat \ {0}
  /\ RetryDelays \subseteq Nat
  /\ WindowTicks \in Nat \ {0}
  /\ ExtendTicks \in Nat

VARIABLES
  job,       \* delivery_jobs rows
  policy,    \* attendance_policy_state rows
  face,      \* where the watcher is with each accepted face
  worker,    \* delivery worker processes
  request,   \* the HTTP request of each attempt
  docs,      \* Employee Checkin documents of each delivery, in ERPNext
  site,      \* the ERPNext destination the node talks to
  budget     \* delivery_worker_max_attempts as configured now

vars == <<job, policy, face, worker, request, docs, site, budget>>

Attempts      == 1..MaxAttempts
AttemptCounts == 0..MaxAttempts
LeaseTimes    == 0..LeaseTicks
Owners        == Workers \cup {NoWorker}
Destinations  == Sites \cup {NoSite}
Documents     == [attempt : Attempts, site : Sites]
NoDoc         == [attempt |-> 0, site |-> NoSite]
Names         == Documents \cup {NoDoc}

JobStates == {"absent", "pending", "leased", "retry_wait", "delivered",
              "permanent_failure", "uncertain"}
Queued    == {"pending", "retry_wait"}
Active    == {"pending", "leased", "retry_wait", "uncertain"}
Settled   == {"delivered", "permanent_failure", "uncertain"}

JobRow == [state : JobStates, attempts : AttemptCounts, owner : Owners,
           lease : LeaseTimes, wait : Nat, submitted : BOOLEAN,
           binding : Destinations, docname : Names]

NoRow == [state |-> "absent", attempts |-> 0, owner |-> NoWorker, lease |-> 0,
          wait |-> 0, submitted |-> FALSE, binding |-> NoSite, docname |-> NoDoc]

\* `to' is the destination the request names and goes to.
NoRequest == [status |-> "none", to |-> NoSite]
Statuses  == {"sent", "served", "throttled", "rejected"}
Sendings  == [status : Statuses, to : Sites]
Request   == Sendings \cup {NoRequest}

\* "queued": the decision is recorded; "lost": the watcher died before that;
\* "freed": its event gave the reservation up while the decision held it.
Faces   == {"new", "reserved", "queued", "lost", "freed", "done"}
Stages  == {"idle", "leased", "bound", "submitting", "calling", "answered"}
Answers == {"none", "document", "safe", "permanent", "ambiguous"}

\* `lost': the heartbeat failed, or the delivered commit did.
Process == [pc : Stages, job : Holders, attempt : AttemptCounts,
            capability : Destinations, answer : Answers, doc : Names, lost : BOOLEAN]

NewProcess == [pc |-> "idle", job |-> NoJob, attempt |-> 0, capability |-> NoSite,
               answer |-> "none", doc |-> NoDoc, lost |-> FALSE]

TypeOK ==
  /\ job \in [Jobs -> JobRow]
  /\ policy \in [Scopes -> PolicyRow]
  /\ face \in [Jobs -> Faces]
  /\ worker \in [Workers -> Process]
  /\ request \in [Jobs -> [Attempts -> Request]]
  /\ docs \in [Jobs -> SUBSET Documents]
  /\ site \in Sites
  /\ budget \in Budgets

Init ==
  /\ job = [j \in Jobs |-> NoRow]
  /\ policy = [s \in Scopes |-> FreshRow]
  /\ face = [j \in Jobs |-> "new"]
  /\ worker = [w \in Workers |-> NewProcess]
  /\ request = [j \in Jobs |-> [a \in Attempts |-> NoRequest]]
  /\ docs = [j \in Jobs |-> {}]
  /\ site \in Sites
  /\ budget \in Budgets

-----------------------------------------------------------------------------
(***************************************************************************)
(* What a transaction on the job of a decision does to the reservation the *)
(* decision holds: `effect' names the _policy_..._for_decision_tx helper.  *)
(***************************************************************************)

Apply(effect, p, window) ==
  CASE effect = "release"   -> Released(p)
    [] effect = "uncertain" -> MarkedUncertain(p)
    [] effect = "commit"    -> Committed(p)
    [] effect = "extend"    -> Extended(p, window)
    [] OTHER                -> p

AfterEffect(j, effect, window) ==
  [s \in Scopes |-> IF policy[s].decision = j
                    THEN Apply(effect, policy[s], window)
                    ELSE policy[s]]

-----------------------------------------------------------------------------
(***************************************************************************)
(* The watcher, worker mode: reserve the scope, spool the crop, persist    *)
(* the accepted decision; a trigger inserts the pending job with it.       *)
(***************************************************************************)

HolderState(s) ==
  IF policy[s].decision = NoJob THEN "absent" ELSE job[policy[s].decision].state

Reserve(j) ==
  LET s == ScopeOf[j] IN
  /\ face[j] = "new"
  /\ Reservable(policy[s], HolderState(s), FALSE)
  /\ ~CoolingDown(policy[s], j)
  /\ face' = [face EXCEPT ![j] = "reserved"]
  /\ policy' = [policy EXCEPT ![s] = Reserved(@, j, WindowTicks)]
  /\ UNCHANGED <<job, worker, request, docs, site, budget>>

\* The decision is recorded as cooldown_suppressed and creates no job.
ReserveRefused(j) ==
  LET s == ScopeOf[j] IN
  /\ face[j] = "new"
  /\ ~Reservable(policy[s], HolderState(s), FALSE) \/ CoolingDown(policy[s], j)
  /\ face' = [face EXCEPT ![j] = "done"]
  /\ policy' = [policy EXCEPT ![s] =
                  IF HolderUnresolved(@, HolderState(s), FALSE)
                  THEN MarkedUncertain(@) ELSE @]
  /\ UNCHANGED <<job, worker, request, docs, site, budget>>

HoldsReservation(j) ==
  /\ policy[ScopeOf[j]].decision = j
  /\ policy[ScopeOf[j]].state = "pending"

Persist(j) ==
  /\ face[j] = "reserved"
  /\ WatcherStalls \/ HoldsReservation(j)
  /\ face' = [face EXCEPT ![j] = "queued"]
  /\ job' = [job EXCEPT ![j].state = "pending"]
  /\ UNCHANGED <<policy, worker, request, docs, site, budget>>

\* The decision could not be persisted: the reservation is given back.
PersistFails(j) ==
  /\ face[j] = "reserved"
  /\ face' = [face EXCEPT ![j] = "done"]
  /\ policy' = AfterEffect(j, "release", 0)
  /\ UNCHANGED <<job, worker, request, docs, site, budget>>

\* The watcher dies in between, and the event stays with a lease nobody holds.
WatcherCrashes(j) ==
  /\ face[j] = "reserved"
  /\ face' = [face EXCEPT ![j] = "lost"]
  /\ UNCHANGED <<job, policy, worker, request, docs, site, budget>>

-----------------------------------------------------------------------------
(***************************************************************************)
(* What becomes of the event of a queued decision.  The reservations of an *)
(* event are given up with it, and none of the transactions that do so     *)
(* looks at the delivery job of the decision that holds one.               *)
(***************************************************************************)

\* An exception after the decision was recorded, at this face or at a later one.
EventFails(j) ==
  /\ face[j] = "queued"
  /\ HoldsReservation(j)
  /\ face' = [face EXCEPT ![j] = "freed"]
  /\ policy' = AfterEffect(j, "release", 0)
  /\ UNCHANGED <<job, worker, request, docs, site, budget>>

\* The watcher died and the event is recovered or leased again, or an operator
\* reprocesses or dismisses it.
EventTakenBack(j) ==
  LET s == ScopeOf[j] IN
  /\ face[j] \in {"queued", "lost"}
  /\ policy[s].decision = j
  /\ face' = [face EXCEPT ![j] = IF @ = "lost" THEN "done" ELSE "freed"]
  /\ policy' = [policy EXCEPT ![s] = GivenUp(@)]
  /\ UNCHANGED <<job, worker, request, docs, site, budget>>

-----------------------------------------------------------------------------
(***************************************************************************)
(* Lease recovery.  RecoveredState keeps the order in which the code tests *)
(* an expired lease: the retry budget first, then whether the submission   *)
(* had started.                                                            *)
(***************************************************************************)

LeaseExpired(r) == r.state = "leased" /\ r.lease = 0

OutOfBudget(r) == r.state \in Queued /\ r.wait = 0 /\ r.attempts >= budget

\* Mutant: a submission that had started is queued again, bound or not.
RecoveredForReplay(r) == IF r.attempts >= budget THEN "permanent_failure" ELSE "retry_wait"

RecoveredState(r) ==
  CASE r.attempts >= budget                     -> "permanent_failure"
    [] r.attempts < budget /\ r.submitted
       /\ r.binding = NoSite                    -> "uncertain"
    [] OTHER                                    -> "retry_wait"

\* Mutant: a submitted attempt is counted again when its lease ends.
UnleasedCountingTwice(r, state, wait) ==
  [r EXCEPT !.state = state, !.owner = NoWorker, !.lease = 0, !.wait = wait,
            !.submitted = FALSE, !.attempts = IF r.submitted THEN @ + 1 ELSE @]

Unleased(r, state, wait) ==
  [r EXCEPT !.state = state, !.owner = NoWorker, !.lease = 0, !.wait = wait,
            !.submitted = FALSE]

\* Mutant: an attempt that lost its lease before submission is not counted.
RecoveredUncounted(r) ==
  IF LeaseExpired(r)
  THEN [Unleased(r, RecoveredState(r), 0) EXCEPT
          !.attempts = IF r.submitted THEN @ ELSE @ - 1]
  ELSE r

RecoveredRow(r) ==
  IF LeaseExpired(r) THEN Unleased(r, RecoveredState(r), 0) ELSE r

\* Mutant: recovery marks the job uncertain and forgets its reservation.
RecoveryKeepsPolicy(r) ==
  IF LeaseExpired(r) /\ RecoveredState(r) = "permanent_failure" THEN "release" ELSE "keep"

RecoveryEffect(r) ==
  CASE ~LeaseExpired(r)                          -> "keep"
    [] LeaseExpired(r) /\ RecoveredState(r) = "permanent_failure" -> "release"
    [] LeaseExpired(r) /\ RecoveredState(r) = "uncertain"         -> "uncertain"
    [] LeaseExpired(r) /\ RecoveredState(r) = "retry_wait"        ->
         IF r.submitted THEN "extend" ELSE "keep"

\* The claim also fails queued jobs that have used up the budget.
SweptRow(r) ==
  IF OutOfBudget(r) THEN [r EXCEPT !.state = "permanent_failure", !.wait = 0]
  ELSE RecoveredRow(r)

SweepEffect(r) == IF OutOfBudget(r) THEN "release" ELSE RecoveryEffect(r)

AfterRecovery ==
  [s \in Scopes |->
     IF policy[s].decision = NoJob THEN policy[s]
     ELSE Apply(RecoveryEffect(job[policy[s].decision]), policy[s], ExtendTicks)]

AfterSweep ==
  [s \in Scopes |->
     IF policy[s].decision = NoJob THEN policy[s]
     ELSE Apply(SweepEffect(job[policy[s].decision]), policy[s], ExtendTicks)]

Recover(w) ==
  /\ worker[w].pc = "idle"
  /\ \E j \in Jobs : LeaseExpired(job[j])
  /\ job' = [j \in Jobs |-> RecoveredRow(job[j])]
  /\ policy' = AfterRecovery
  /\ UNCHANGED <<face, worker, request, docs, site, budget>>

-----------------------------------------------------------------------------
(* The claim: sweep, then lease one due job, all in one transaction. *)

\* Mutant: an uncertain job is retried automatically.
ClaimableUncertain(r) ==
  r.state \in Queued \cup {"uncertain"} /\ r.wait = 0 /\ r.attempts < budget

\* Mutant: the budget is all that keeps a settled job from another attempt.
ClaimableSettled(r) ==
  r.state \in Queued \cup Settled /\ r.wait = 0 /\ r.attempts < budget

Claimable(r) == r.state \in Queued /\ r.wait = 0 /\ r.attempts < budget

Leased(r, w) ==
  [r EXCEPT !.state = "leased", !.attempts = @ + 1, !.owner = w,
            !.lease = LeaseTicks, !.wait = 0, !.submitted = FALSE]

Claim(w, j) ==
  /\ worker[w].pc = "idle"
  /\ Claimable(SweptRow(job[j]))
  /\ job' = [k \in Jobs |-> IF k = j THEN Leased(SweptRow(job[k]), w)
                                     ELSE SweptRow(job[k])]
  /\ policy' = AfterSweep
  /\ worker' = [worker EXCEPT ![w] = [@ EXCEPT
                   !.pc = IF Verified THEN "leased" ELSE "bound",
                   !.job = j, !.attempt = job[j].attempts + 1]]
  /\ UNCHANGED <<face, request, docs, site, budget>>

\* Nothing is due: the sweep is committed all the same.
ClaimNothing(w) ==
  /\ worker[w].pc = "idle"
  /\ \A j \in Jobs : ~Claimable(SweptRow(job[j]))
  /\ \E j \in Jobs : SweptRow(job[j]) # job[j]
  /\ job' = [j \in Jobs |-> SweptRow(job[j])]
  /\ policy' = AfterSweep
  /\ UNCHANGED <<face, worker, request, docs, site, budget>>

-----------------------------------------------------------------------------
(***************************************************************************)
(* _process_job.  Every update of the row starts from the current lease:   *)
(* leased, by this owner, unexpired.                                       *)
(***************************************************************************)

\* Mutant: any worker that once claimed a leased job may end the lease.
HoldsAnyLease(w) ==
  LET r == job[worker[w].job] IN
  worker[w].job # NoJob /\ r.state = "leased" /\ r.lease > 0

HoldsLease(w) ==
  LET r == job[worker[w].job] IN
  worker[w].job # NoJob /\ r.state = "leased" /\ r.owner = w /\ r.lease > 0

Idle(p) == [p EXCEPT !.pc = "idle", !.job = NoJob, !.attempt = 0,
                     !.answer = "none", !.doc = NoDoc, !.lost = FALSE]

\* The capability a worker uses: its own, or a first probe of the site.  When
\* the site no longer answers for a probed capability the probe raises, and
\* the process ends (Crash).
Probed(w) == IF worker[w].capability = NoSite THEN site ELSE worker[w].capability

\* Mutant: a bound job follows the worker to another destination.
Rebind(w) ==
  LET j == worker[w].job IN
  /\ worker[w].pc = "leased"
  /\ HoldsLease(w)
  /\ job' = [job EXCEPT ![j].binding = Probed(w)]
  /\ worker' = [worker EXCEPT ![w] = [@ EXCEPT !.pc = "bound", !.capability = Probed(w)]]
  /\ UNCHANGED <<policy, face, request, docs, site, budget>>

BindContract(w) ==
  LET j == worker[w].job IN
  /\ worker[w].pc = "leased"
  /\ HoldsLease(w)
  /\ job[j].binding \in {NoSite, Probed(w)}
  /\ job' = [job EXCEPT ![j].binding = Probed(w)]
  /\ worker' = [worker EXCEPT ![w] = [@ EXCEPT !.pc = "bound", !.capability = Probed(w)]]
  /\ UNCHANGED <<policy, face, request, docs, site, budget>>

\* mark_delivery_job_permanent_failure_by_lease; submission_started_at stays.
FailPermanently(w) ==
  LET j == worker[w].job IN
  /\ HoldsLease(w)
  /\ job' = [job EXCEPT ![j] =
               [Unleased(@, "permanent_failure", 0) EXCEPT !.submitted = job[j].submitted]]
  /\ policy' = AfterEffect(j, "release", 0)

BindConflict(w) ==
  /\ worker[w].pc = "leased"
  /\ job[worker[w].job].binding \notin {NoSite, Probed(w)}
  /\ FailPermanently(w)
  /\ worker' = [worker EXCEPT ![w] = [Idle(@) EXCEPT !.capability = Probed(w)]]
  /\ UNCHANGED <<face, request, docs, site, budget>>

InvalidPayload(w) ==
  /\ worker[w].pc = "bound"
  /\ FailPermanently(w)
  /\ worker' = [worker EXCEPT ![w] = Idle(@)]
  /\ UNCHANGED <<face, request, docs, site, budget>>

StartSubmission(w) ==
  /\ worker[w].pc = "bound"
  /\ HoldsLease(w)
  /\ job' = [job EXCEPT ![worker[w].job].submitted = TRUE]
  /\ worker' = [worker EXCEPT ![w].pc = "submitting"]
  /\ UNCHANGED <<policy, face, request, docs, site, budget>>

\* The lease ran out before the submission was marked: the update raises, the
\* exception leaves run_forever, and systemd starts the process anew.
LeaseLost(w) ==
  /\ worker[w].pc \in {"leased", "bound"}
  /\ ~HoldsLease(w)
  /\ worker' = [worker EXCEPT ![w] = NewProcess]
  /\ UNCHANGED <<job, policy, face, request, docs, site, budget>>

\* The heartbeat thread lives from StartSubmission to the answer, and for a
\* failure until the failure is recorded.
Beating(w) ==
  /\ ~worker[w].lost
  /\ \/ worker[w].pc \in {"submitting", "calling"}
     \/ worker[w].pc = "answered" /\ worker[w].answer # "document"

HeartbeatRenews(w) ==
  /\ Beating(w)
  /\ HoldsLease(w)
  /\ job' = [job EXCEPT ![worker[w].job].lease = LeaseTicks]
  /\ UNCHANGED <<policy, face, worker, request, docs, site, budget>>

\* Renewal raised: the lease is gone, or the database was busy.
HeartbeatFails(w) ==
  /\ Beating(w)
  /\ worker[w].pc # "answered"
  /\ worker' = [worker EXCEPT ![w].lost = TRUE]
  /\ UNCHANGED <<job, policy, face, request, docs, site, budget>>

Send(w) ==
  /\ worker[w].pc = "submitting"
  /\ request' = [request EXCEPT ![worker[w].job][worker[w].attempt] =
                   [status |-> "sent", to |-> IF Verified THEN worker[w].capability ELSE site]]
  /\ worker' = [worker EXCEPT ![w].pc = "calling"]
  /\ UNCHANGED <<job, policy, face, docs, site, budget>>

Answered(w, answer, doc) ==
  worker' = [worker EXCEPT ![w] = [@ EXCEPT !.pc = "answered", !.answer = answer, !.doc = doc]]

\* No connection was made (ConnectTimeout), or the adapter refused its input.
NeverSent(w) ==
  /\ worker[w].pc = "submitting"
  /\ \E answer \in {"safe", "permanent"} : Answered(w, answer, NoDoc)
  /\ UNCHANGED <<job, policy, face, request, docs, site, budget>>

\* Read timeout, connection loss, 5xx: whatever became of the request.
AnswerLost(w) ==
  /\ worker[w].pc = "calling"
  /\ Answered(w, "ambiguous", NoDoc)
  /\ UNCHANGED <<job, policy, face, request, docs, site, budget>>

RequestOf(w) == request[worker[w].job][worker[w].attempt]

\* 429 is retried, the other definite 4xx answers are not.
RefusalReceived(w) ==
  /\ worker[w].pc = "calling"
  /\ \/ RequestOf(w).status = "throttled" /\ Answered(w, "safe", NoDoc)
     \/ RequestOf(w).status = "rejected" /\ Answered(w, "permanent", NoDoc)
  /\ UNCHANGED <<job, policy, face, request, docs, site, budget>>

DocumentReceived(w) ==
  /\ worker[w].pc = "calling"
  /\ RequestOf(w).status = "served"
  /\ \E d \in docs[worker[w].job] :
       /\ IF Verified THEN d.site = worker[w].capability ELSE d.attempt = worker[w].attempt
       /\ Answered(w, "document", d)
  /\ UNCHANGED <<job, policy, face, request, docs, site, budget>>

-----------------------------------------------------------------------------
(***************************************************************************)
(* Recording the outcome.  A lost heartbeat overrides the answer.          *)
(***************************************************************************)

\* Mutant: a request that left the node is taken to have been served.
OutcomeOfTrust(p) ==
  CASE p.answer \in {"document", "ambiguous"} -> "deliver"
    [] p.answer = "safe"                      -> "retry"
    [] p.answer = "permanent"                 -> "fail"
    [] OTHER                                  -> "none"

Outcome(p) ==
  CASE p.lost \/ p.answer = "ambiguous" -> IF Verified THEN "retry" ELSE "uncertain"
    [] ~p.lost /\ p.answer = "document"  -> "deliver"
    [] ~p.lost /\ p.answer = "safe"      -> "retry"
    [] ~p.lost /\ p.answer = "permanent" -> "fail"
    [] OTHER                             -> "none"

Recording(w, outcome) == worker[w].pc = "answered" /\ Outcome(worker[w]) = outcome

Done(w) == worker' = [worker EXCEPT ![w] = Idle(@)]

RecordDelivered(w) ==
  LET j == worker[w].job IN
  /\ Recording(w, "deliver")
  /\ HoldsLease(w)
  /\ job[j].submitted
  /\ job' = [job EXCEPT ![j] = [Unleased(@, "delivered", 0) EXCEPT
                                  !.submitted = TRUE, !.docname = worker[w].doc]]
  /\ policy' = AfterEffect(j, "commit", 0)
  /\ Done(w)
  /\ UNCHANGED <<face, request, docs, site, budget>>

\* mark_delivery_job_delivered_by_lease raised: classified as a lost lease is.
DeliveredCommitFails(w) ==
  /\ Recording(w, "deliver")
  /\ worker' = [worker EXCEPT ![w].lost = TRUE]
  /\ UNCHANGED <<job, policy, face, request, docs, site, budget>>

RecordRetry(w) ==
  LET j == worker[w].job IN
  /\ Recording(w, "retry")
  /\ HoldsLease(w)
  /\ IF job[j].attempts >= budget
     THEN /\ job' = [job EXCEPT ![j] = Unleased(@, "permanent_failure", 0)]
          /\ policy' = AfterEffect(j, "release", 0)
     ELSE \E delay \in RetryDelays :
            /\ job' = [job EXCEPT ![j] = Unleased(@, "retry_wait", delay)]
            /\ policy' = AfterEffect(j, "extend", delay + ExtendTicks)
  /\ Done(w)
  /\ UNCHANGED <<face, request, docs, site, budget>>

RecordPermanent(w) ==
  /\ Recording(w, "fail")
  /\ FailPermanently(w)
  /\ Done(w)
  /\ UNCHANGED <<face, request, docs, site, budget>>

RecordUncertain(w) ==
  LET j == worker[w].job IN
  /\ Recording(w, "uncertain")
  /\ HoldsLease(w)
  /\ job' = [job EXCEPT ![j] =
               [Unleased(@, "uncertain", 0) EXCEPT !.submitted = job[j].submitted]]
  /\ policy' = AfterEffect(j, "uncertain", 0)
  /\ Done(w)
  /\ UNCHANGED <<face, request, docs, site, budget>>

\* The record could not be written (lease lost, database busy): the worker
\* moves on and lease recovery decides ("recovery_pending").
RecordDeferred(w) ==
  /\ worker[w].pc = "answered"
  /\ Outcome(worker[w]) # "deliver"
  /\ Done(w)
  /\ UNCHANGED <<job, policy, face, request, docs, site, budget>>

\* The process dies, or a probe raises and ends it; systemd starts a new one.
Crash(w) ==
  /\ worker[w] # NewProcess
  /\ worker' = [worker EXCEPT ![w] = NewProcess]
  /\ UNCHANGED <<job, policy, face, request, docs, site, budget>>

-----------------------------------------------------------------------------
(***************************************************************************)
(* ERPNext.  A request may be served long after its sender gave up on it.  *)
(* The verified method checks the destination the request was bound to and *)
(* inserts under a unique delivery id, or answers with the document that   *)
(* has it; the plain resource API inserts every time.                      *)
(***************************************************************************)

Handled(j, a, status) ==
  request' = [request EXCEPT ![j][a] = [@ EXCEPT !.status = status]]

\* Mutant: the delivery id is not unique in ERPNext.
ServeAgain(j, a) ==
  /\ request[j][a].status = "sent"
  /\ Handled(j, a, "served")
  /\ docs' = [docs EXCEPT ![j] = @ \cup {[attempt |-> a, site |-> request[j][a].to]}]
  /\ UNCHANGED <<job, policy, face, worker, site, budget>>

Serve(j, a) ==
  LET r == request[j][a] IN
  /\ r.status = "sent"
  /\ Handled(j, a, "served")
  /\ docs' = [docs EXCEPT ![j] =
                IF Verified /\ \E d \in @ : d.site = r.to THEN @
                ELSE @ \cup {[attempt |-> a, site |-> r.to]}]
  /\ UNCHANGED <<job, policy, face, worker, site, budget>>

Throttle(j, a) ==
  /\ request[j][a].status = "sent"
  /\ Handled(j, a, "throttled")
  /\ UNCHANGED <<job, policy, face, worker, docs, site, budget>>

\* Authentication, permission, validation, or a destination mismatch.
Reject(j, a) ==
  /\ request[j][a].status = "sent"
  /\ Handled(j, a, "rejected")
  /\ UNCHANGED <<job, policy, face, worker, docs, site, budget>>

-----------------------------------------------------------------------------
(* The operator and the clock. *)

\* The node is pointed at another ERPNext destination.
ChangeSite ==
  /\ site' \in Sites \ {site}
  /\ UNCHANGED <<job, policy, face, worker, request, docs, budget>>

ChangeBudget ==
  /\ budget' \in Budgets \ {budget}
  /\ UNCHANGED <<job, policy, face, worker, request, docs, site>>

Less(n) == IF n = 0 THEN 0 ELSE n - 1

Tick ==
  /\ \/ \E j \in Jobs : job[j].lease > 0 \/ job[j].wait > 0
     \/ \E s \in Scopes : policy[s].window > 0
  /\ job' = [j \in Jobs |-> [job[j] EXCEPT !.lease = Less(@), !.wait = Less(@)]]
  /\ policy' = [s \in Scopes |-> Elapsed(policy[s])]
  /\ UNCHANGED <<face, worker, request, docs, site, budget>>

-----------------------------------------------------------------------------

Watcher(j) ==
  Reserve(j) \/ ReserveRefused(j) \/ Persist(j) \/ PersistFails(j) \/ WatcherCrashes(j)

EventEnds(j) == EventFails(j) \/ EventTakenBack(j)

Erpnext(j, a) == Serve(j, a) \/ Throttle(j, a) \/ Reject(j, a)

\* The steps a live worker takes, one per statement of its loop.
WorkerStep(w) ==
  \/ Recover(w) \/ ClaimNothing(w) \/ \E j \in Jobs : Claim(w, j)
  \/ BindContract(w) \/ BindConflict(w) \/ InvalidPayload(w)
  \/ StartSubmission(w) \/ LeaseLost(w) \/ Send(w) \/ NeverSent(w)
  \/ AnswerLost(w) \/ RefusalReceived(w) \/ DocumentReceived(w)
  \/ RecordDelivered(w) \/ DeliveredCommitFails(w) \/ RecordRetry(w)
  \/ RecordPermanent(w) \/ RecordUncertain(w) \/ RecordDeferred(w)

\* Every queue is empty: the workers go on polling and find nothing.
PollEmpty ==
  /\ \A j \in Jobs : face[j] \notin {"new", "reserved"} /\ job[j].state \in Settled \cup {"absent"}
  /\ \A w \in Workers : worker[w].pc = "idle"
  /\ UNCHANGED vars

Next ==
  \/ \E j \in Jobs : Watcher(j) \/ EventEnds(j)
  \/ \E w \in Workers : WorkerStep(w) \/ Crash(w) \/ HeartbeatRenews(w) \/ HeartbeatFails(w)
  \/ \E j \in Jobs, a \in Attempts : Erpnext(j, a)
  \/ ChangeSite
  \/ ChangeBudget
  \/ Tick
  \/ PollEmpty

Spec == Init /\ [][Next]_vars

(***************************************************************************)
(* Fairness: run_forever keeps taking steps and systemd restarts it, every *)
(* adapter call has a timeout (AnswerLost is one of WorkerStep), and time  *)
(* passes.  Nothing is assumed of the watcher, of the heartbeat or of      *)
(* ERPNext, and the workers may crash without end.                         *)
(***************************************************************************)
Fairness == WF_vars(Tick) /\ \A w \in Workers : WF_vars(WorkerStep(w))

LiveSpec == Spec /\ Fairness

-----------------------------------------------------------------------------
(* Safety *)

\* However often a delivery is leased, crashed, timed out and replayed, and
\* however late ERPNext serves a request, one accepted decision becomes at
\* most one Employee Checkin (delivery_service.py, frappe_apps contract.py).
AtMostOneCheckin == \A j \in Jobs : \A d, e \in docs[j] : d = e

\* A job is delivered only with the name of a check-in that exists for it,
\* also when the answer came from a replay or a retry won over a lost answer
\* (mark_delivery_job_delivered_by_lease).
DeliveredNamesCheckin ==
  \A j \in Jobs : job[j].state = "delivered" => job[j].docname \in docs[j]

\* The event of the decision has not given its reservation up.  When it has,
\* another capture of the scope may be queued and delivered beside the decision
\* (docs/processing-leases-policy.md knows only "a pre-delivery failure").
Kept(j) == face[j] # "freed"

\* Two decisions of one policy scope are never in flight together unless the
\* event of one of them gave its reservation up: the reservation outlives its
\* window for as long as its job is unresolved, and what becomes of another
\* decision's event does not free it (reserve_attendance_policy against the outbox).
OneInFlightPerScope ==
  \A j, k \in Jobs :
    /\ j # k /\ ScopeOf[j] = ScopeOf[k] /\ Kept(j) /\ Kept(k)
    /\ job[j].state \in Active
    => job[k].state \notin Active

\* Delivered check-ins of one scope whose reservations were not given up are a
\* cooldown apart, in whatever order faces arrive, reservations expire, other
\* events fail and deliveries finish.
CooldownHolds ==
  \A j, k \in Jobs :
    /\ j # k /\ ScopeOf[j] = ScopeOf[k] /\ Kept(j) /\ Kept(k)
    /\ job[j].state = "delivered" /\ job[k].state = "delivered"
    => \/ Effective[j] + Cooldown <= Effective[k]
       \/ Effective[k] + Cooldown <= Effective[j]

\* An uncertain job keeps its scope closed until its event gives it up: its own
\* reservation is uncertain, so no other decision can reserve the scope
\* (policy_uncertain_for_decision).
UncertainBlocksScope ==
  \A j \in Jobs : job[j].state = "uncertain" /\ Kept(j) =>
    /\ policy[ScopeOf[j]].state = "uncertain"
    /\ policy[ScopeOf[j]].decision = j

-----------------------------------------------------------------------------
(* Action properties *)

\* An outcome is final: no late answer, recovery or claim moves a delivered,
\* failed or uncertain job ("an uncertain job is never retried automatically").
SettledStays ==
  [][\A j \in Jobs : job[j].state \in Settled =>
       job'[j].state = job[j].state /\ job'[j].docname = job[j].docname]_vars

\* A leased job leaves its lease only by the worker that holds it, or after
\* the lease has run out: a stale worker cannot finalize a recovered job.
OnlyHolderEndsLease ==
  [][\A j \in Jobs : job[j].state = "leased" /\ job[j].lease > 0
                     /\ job'[j].state # "leased" =>
       worker[job[j].owner].job = j /\ worker'[job[j].owner].pc = "idle"]_vars

\* docs/delivery-worker.md: "post-submission lease expiry without verified
\* idempotency -> uncertain".  The code tests the retry budget first
\* (_recover_expired_delivery_job_leases_tx).
ExpiredSubmissionUncertain ==
  [][\A j \in Jobs : LeaseExpired(job[j]) /\ job[j].submitted
                     /\ job[j].binding = NoSite /\ job'[j].state # "leased" =>
       job'[j].state = "uncertain"]_vars

\* docs/processing-leases-policy.md: "repeated same-direction attendance inside
\* cooldown is suppressed".  A verified delivery that ran out of attempts on
\* lost answers releases its scope although its check-in exists.
CooldownOfCheckins ==
  \A j, k \in Jobs :
    /\ j # k /\ ScopeOf[j] = ScopeOf[k] /\ Kept(j) /\ Kept(k)
    /\ docs[j] # {} /\ docs[k] # {}
    => \/ Effective[j] + Cooldown <= Effective[k]
       \/ Effective[k] + Cooldown <= Effective[j]

-----------------------------------------------------------------------------
(* Liveness *)

\* Every queued job is settled, whatever the workers, the network and ERPNext
\* do: each lease costs an attempt, and the attempts are bounded.
EveryJobSettles ==
  \A j \in Jobs : job[j].state = "pending" ~> job[j].state \in Settled

-----------------------------------------------------------------------------
(* The promise of CheckinDelivery, kept by this design. *)

AbstractOutcome(r) ==
  CASE r.state = "absent"            -> "none"
    [] r.state \in Queued \cup {"leased"} -> "queued"
    [] r.state = "delivered"         -> "delivered"
    [] r.state = "permanent_failure" -> "failed"
    [] r.state = "uncertain"         -> "unknown"

Abstract == INSTANCE CheckinDelivery WITH
  Decisions <- Jobs,
  outcome   <- [j \in Jobs |-> AbstractOutcome(job[j])],
  checkins  <- docs

\* The outbox, with crashes, replays and late requests, is a delivery service
\* that creates at most one check-in per decision and settles each once.
ImplementsCheckinDelivery == Abstract!Spec
=============================================================================
