--------------------------- MODULE AttachmentOutbox ---------------------------
(***************************************************************************)
(* The private face crop that follows an Employee Checkin: the watchers    *)
(* that copy it into the spool before the decision is persisted            *)
(* (watch_service.py, attachment_spool.py), the attachment_jobs rows       *)
(* (attachment_outbox.py), the worker processes that upload it, clean up   *)
(* the spool and recover each other's leases (attachment_service.py), and  *)
(* ERPNext, whose upload_file has no idempotency key.                      *)
(*                                                                         *)
(* The parent delivery is only known by its outcome, as CheckinDelivery    *)
(* promises it.                                                            *)
(***************************************************************************)
EXTENDS Integers, FiniteSets

CONSTANTS
  Decisions,      \* accepted recognition decisions
  NoDecision,
  Watchers,       \* watcher processes
  Workers,        \* delivery service processes
  NoOwner,
  LeaseTicks,     \* attachment_worker_lease_seconds
  DelayTicks,     \* the longest retry delay
  GraceTicks,     \* attachment_orphan_grace_seconds
  MaxAttempts,    \* attachment_worker_max_attempts
  MaxDeliveries,  \* delivery_queue_max_active_jobs
  MaxJobs,        \* attachment_queue_max_active_jobs
  DeletesCopy,    \* attachment_delete_spool_after_success
  MaxFaults,      \* bound on crashes and failing writes
  Stalls          \* may a watcher stop, between copying a crop and persisting
                  \* its decision, for longer than the grace period?

ASSUME AttachmentAssumption ==
  /\ NoDecision \notin Decisions /\ NoOwner \notin Workers
  /\ LeaseTicks \in Nat \ {0} /\ DelayTicks \in Nat /\ GraceTicks \in Nat \ {0}
  /\ MaxAttempts \in Nat \ {0}
  /\ MaxDeliveries \in Nat \ {0} /\ MaxJobs \in Nat \ {0} /\ MaxFaults \in Nat
  /\ DeletesCopy \in BOOLEAN /\ Stalls \in BOOLEAN

VARIABLES
  outcome,   \* delivery_jobs: what became of each decision's check-in
  row,       \* attachment_jobs
  spooled,   \* decisions whose crop is in the spool
  age,       \* how long ago it was written
  request,   \* the upload request of each decision, at ERPNext
  files,     \* how many File documents ERPNext made for each decision
  tried,     \* decisions a watcher took up
  watcher, worker,
  faults

remote == <<request, files>>
spool  == <<spooled, age>>
vars   == <<outcome, row, spooled, age, request, files, tried, watcher, worker, faults>>

Claimables == {"pending", "retry_wait"}
Settled    == {"attached", "permanent_failure", "cancelled"}
JobStates  == Claimables \cup Settled \cup
              {"none", "waiting_for_checkin", "leased", "uncertain"}

JobRow == [state : JobStates, owner : Workers \cup {NoOwner}, lease : 0..LeaseTicks,
           wait : 0..DelayTicks, attempts : 0..MaxAttempts, submitted : BOOLEAN,
           source : {"available", "deleted", "missing"}]

NoRow == [state |-> "none", owner |-> NoOwner, lease |-> 0, wait |-> 0,
          attempts |-> 0, submitted |-> FALSE, source |-> "missing"]

Answers == {"none", "attached", "retry", "permanent", "uncertain"}

Watching == [pc : {"idle", "admitted", "spooling", "persisting"},
             decision : Decisions \cup {NoDecision}, media : BOOLEAN]

Resting == [pc |-> "idle", decision |-> NoDecision, media |-> FALSE]

\* "aged" and "orphans" are candidates for cleanup; "list" what source cleanup
\* read, "unlinked" the copy it has just removed.
Working == [pc : {"down", "idle", "listing", "sweeping", "reading", "cleaning",
                  "claiming", "verifying", "verified", "rejected", "uploading", "sent",
                  "answered", "attached", "unlinked"},
            job : Decisions \cup {NoDecision}, beats : BOOLEAN, answer : Answers,
            aged : SUBSET Decisions, orphans : SUBSET Decisions,
            list : SUBSET Decisions, unlinked : Decisions \cup {NoDecision}]

Idle == [pc |-> "idle", job |-> NoDecision, beats |-> FALSE, answer |-> "none",
         aged |-> {}, orphans |-> {}, list |-> {}, unlinked |-> NoDecision]

TypeOK ==
  /\ outcome \in [Decisions -> {"none", "queued", "delivered", "failed", "unknown"}]
  /\ row \in [Decisions -> JobRow]
  /\ spooled \subseteq Decisions
  /\ age \in [Decisions -> 0..GraceTicks]
  /\ request \in [Decisions -> {"none", "sent", "served", "refused"}]
  /\ files \in [Decisions -> 0..MaxAttempts]
  /\ tried \subseteq Decisions
  /\ watcher \in [Watchers -> Watching]
  /\ worker \in [Workers -> Working]
  /\ faults \in 0..MaxFaults

Init ==
  /\ outcome = [d \in Decisions |-> "none"]
  /\ row = [d \in Decisions |-> NoRow]
  /\ spooled = {} /\ tried = {} /\ faults = 0
  /\ age = [d \in Decisions |-> 0]
  /\ request = [d \in Decisions |-> "none"]
  /\ files = [d \in Decisions |-> 0]
  /\ watcher = [w \in Watchers |-> Resting]
  /\ worker = [k \in Workers |-> Idle]

Fault == faults < MaxFaults /\ faults' = faults + 1

\* Something that goes wrong on its own, or because of the condition.
Happens(condition) == \/ condition /\ UNCHANGED faults
                      \/ Fault

-----------------------------------------------------------------------------
(***************************************************************************)
(* The watcher: deliver_candidate in worker mode.                          *)
(***************************************************************************)

\* active_attachment_job_count
ActiveJobs ==
  {d \in Decisions :
     row[d].state \in {"waiting_for_checkin", "pending", "leased", "retry_wait",
                       "uncertain"}}

\* active_delivery_job_count
ActiveDeliveries == {d \in Decisions : outcome[d] \in {"queued", "unknown"}}

Watches(w, pc) == watcher[w].pc = pc

Admit(w, d) ==
  /\ Watches(w, "idle")
  /\ d \notin tried
  /\ tried' = tried \cup {d}
  /\ watcher' = [watcher EXCEPT ![w] =
                   IF Cardinality(ActiveDeliveries) < MaxDeliveries
                   THEN [Resting EXCEPT !.pc = "admitted", !.decision = d]
                   ELSE Resting]
  /\ UNCHANGED <<outcome, row, spool, remote, worker, faults>>

\* A decision without its crop is recorded all the same.
CheckSpool(w) ==
  /\ Watches(w, "admitted")
  /\ watcher' = [watcher EXCEPT ![w].pc =
                   IF Cardinality(ActiveJobs) < MaxJobs THEN "spooling" ELSE "persisting"]
  /\ UNCHANGED <<outcome, row, spool, remote, tried, worker, faults>>

\* spool_private_crop
SpoolCrop(w) ==
  LET d == watcher[w].decision IN
  /\ Watches(w, "spooling")
  /\ \/ /\ spooled' = spooled \cup {d}
        /\ age' = [age EXCEPT ![d] = 0]
        /\ watcher' = [watcher EXCEPT ![w].pc = "persisting", ![w].media = TRUE]
        /\ UNCHANGED faults
     \/ /\ Fault
        /\ watcher' = [watcher EXCEPT ![w].pc = "persisting"]
        /\ UNCHANGED spool
  /\ UNCHANGED <<outcome, row, remote, tried, worker>>

\* insert_attachment_job_tx, with its delivery job in the same transaction.
Inserted(media) ==
  IF media THEN [NoRow EXCEPT !.state = "waiting_for_checkin", !.source = "available"]
           ELSE [NoRow EXCEPT !.state = "permanent_failure"]

Persist(w) ==
  LET d == watcher[w].decision IN
  /\ Watches(w, "persisting")
  /\ outcome' = [outcome EXCEPT ![d] = "queued"]
  /\ row' = [row EXCEPT ![d] = Inserted(watcher[w].media)]
  /\ watcher' = [watcher EXCEPT ![w] = Resting]
  /\ UNCHANGED <<spool, remote, tried, worker, faults>>

PersistFails(w) ==
  LET d == watcher[w].decision IN
  /\ Watches(w, "persisting")
  /\ Fault
  /\ spooled' = spooled \ {d}
  /\ watcher' = [watcher EXCEPT ![w] = Resting]
  /\ UNCHANGED <<outcome, row, age, remote, tried, worker>>

WatcherCrash(w) ==
  /\ ~Watches(w, "idle")
  /\ Fault
  /\ watcher' = [watcher EXCEPT ![w] = Resting]
  /\ UNCHANGED <<outcome, row, spool, remote, tried, worker>>

\* The delivery of the check-in comes to an end.
ParentSettles(d) ==
  /\ outcome[d] = "queued"
  /\ \E result \in {"delivered", "failed", "unknown"} :
       outcome' = [outcome EXCEPT ![d] = result]
  /\ UNCHANGED <<row, spool, remote, tried, watcher, worker, faults>>

-----------------------------------------------------------------------------
(***************************************************************************)
(* What a worker's transactions do to the rows.                            *)
(***************************************************************************)

\* Mutant: a check-in that failed leaves its attachment waiting.
RefreshedDelivered(d) ==
  IF row[d].state = "waiting_for_checkin" /\ outcome[d] = "delivered"
  THEN [row[d] EXCEPT !.state = "pending"] ELSE row[d]

\* _refresh_attachment_dependencies_tx
Refreshed(d) ==
  CASE row[d].state = "waiting_for_checkin" /\ outcome[d] = "delivered" ->
         [row[d] EXCEPT !.state = "pending"]
    [] row[d].state \in Claimables \cup {"waiting_for_checkin"} /\ outcome[d] = "failed" ->
         [row[d] EXCEPT !.state = "cancelled"]
    [] OTHER -> row[d]

Ended(r, state) == [r EXCEPT !.state = state, !.owner = NoOwner, !.lease = 0, !.wait = 0]

\* Mutant: the budget before the submission, as the delivery jobs have it, and
\* a submission that may be repeated.
RecoveredBudgetFirst(r) ==
  IF r.state # "leased" \/ r.lease > 0 THEN r
  ELSE [Ended(r, IF r.attempts >= MaxAttempts THEN "permanent_failure" ELSE "retry_wait")
         EXCEPT !.submitted = FALSE]

\* _recover_expired_attachment_job_leases_tx
Recovered(r) ==
  IF r.state # "leased" \/ r.lease > 0 THEN r
  ELSE [Ended(r, IF r.submitted THEN "uncertain"
                 ELSE IF r.attempts >= MaxAttempts THEN "permanent_failure"
                 ELSE "retry_wait")
         EXCEPT !.submitted = FALSE]

\* claim_next_attachment_job, for a row that is due after its last attempt
Swept(r) ==
  IF r.state \in Claimables /\ r.wait = 0 /\ r.attempts >= MaxAttempts
  THEN Ended(r, "permanent_failure") ELSE r

Due(d, r) == r.state \in Claimables /\ r.wait = 0 /\ outcome[d] = "delivered"

LeasedBy(k, r) ==
  [r EXCEPT !.state = "leased", !.owner = k, !.lease = LeaseTicks, !.wait = 0,
            !.attempts = @ + 1, !.submitted = FALSE]

\* _current_attachment_lease_tx
HoldsLease(k) ==
  LET r == row[worker[k].job] IN r.state = "leased" /\ r.owner = k /\ r.lease > 0

-----------------------------------------------------------------------------
(***************************************************************************)
(* The worker.  recover comes first: leases, orphans in the spool, and     *)
(* copies of settled jobs; then jobs are claimed one by one.               *)
(***************************************************************************)

Does(k, pc) == worker[k].pc = pc

Goes(k, to) == worker' = [worker EXCEPT ![k] = to]

Recover(k) ==
  /\ Does(k, "idle")
  /\ row' = [d \in Decisions |-> Recovered(Refreshed(d))]
  /\ Goes(k, [Idle EXCEPT !.pc = "listing",
                          !.aged = {d \in spooled : age[d] = GraceTicks}])
  /\ UNCHANGED <<outcome, spool, remote, tried, watcher, faults>>

\* Mutant: whatever is old enough.
OrphansByAge(k) == worker[k].aged

\* attachment_source_paths
Orphans(k) == {d \in worker[k].aged : row[d].source # "available"}

ListReferenced(k) ==
  /\ Does(k, "listing")
  /\ Goes(k, [Idle EXCEPT !.pc = "sweeping", !.orphans = Orphans(k)])
  /\ UNCHANGED <<outcome, row, spool, remote, tried, watcher, faults>>

\* The paths are not asked for again before each file goes.
Sweep(k, d) ==
  /\ Does(k, "sweeping") /\ d \in worker[k].orphans
  /\ spooled' = spooled \ {d}
  /\ Goes(k, [worker[k] EXCEPT !.orphans = @ \ {d}])
  /\ UNCHANGED <<outcome, row, age, remote, tried, watcher, faults>>

Sweeps(k) ==
  /\ Does(k, "sweeping") /\ worker[k].orphans = {}
  /\ Goes(k, [Idle EXCEPT !.pc = "reading"])
  /\ UNCHANGED <<outcome, row, spool, remote, tried, watcher, faults>>

\* Mutant: jobs whose own worker was to delete the copy are left to it.
CleanableCancelled(r) == r.source = "available" /\ r.state = "cancelled"

\* attachment_jobs_for_source_cleanup
Cleanable(r) ==
  /\ r.source = "available"
  /\ r.state = "cancelled" \/ (r.state = "attached" /\ DeletesCopy)

ReadSettled(k) ==
  /\ Does(k, "reading")
  /\ Goes(k, [Idle EXCEPT !.pc = "cleaning", !.list = {d \in Decisions : Cleanable(row[d])}])
  /\ UNCHANGED <<outcome, row, spool, remote, tried, watcher, faults>>

Unlink(k, d) ==
  /\ Does(k, "cleaning") /\ worker[k].unlinked = NoDecision /\ d \in worker[k].list
  /\ spooled' = spooled \ {d}
  /\ Goes(k, [worker[k] EXCEPT !.unlinked = d])
  /\ UNCHANGED <<outcome, row, age, remote, tried, watcher, faults>>

\* mark_attachment_source_state
Sourced(d, source) == [row EXCEPT ![d].source = source]

MarkDeleted(k) ==
  LET d == worker[k].unlinked IN
  /\ Does(k, "cleaning") /\ d # NoDecision
  /\ row' = Sourced(d, "deleted")
  /\ Goes(k, [worker[k] EXCEPT !.unlinked = NoDecision, !.list = @ \ {d}])
  /\ UNCHANGED <<outcome, spool, remote, tried, watcher, faults>>

Cleans(k) ==
  /\ Does(k, "cleaning") /\ worker[k].list = {}
  /\ Goes(k, [Idle EXCEPT !.pc = "claiming"])
  /\ UNCHANGED <<outcome, row, spool, remote, tried, watcher, faults>>

\* claim_next_attachment_job
Claim(k) ==
  LET ready == [d \in Decisions |-> Swept(Recovered(Refreshed(d)))] IN
  /\ Does(k, "claiming")
  /\ IF \E d \in Decisions : Due(d, ready[d])
     THEN \E d \in Decisions :
            /\ Due(d, ready[d])
            /\ row' = [ready EXCEPT ![d] = LeasedBy(k, @)]
            /\ Goes(k, [Idle EXCEPT !.pc = "verifying", !.job = d])
     ELSE row' = ready /\ Goes(k, Idle)
  /\ UNCHANGED <<outcome, spool, remote, tried, watcher, faults>>

\* After a job the worker claims the next, or the batch is full.
Done(k) == \E pc \in {"claiming", "idle"} : Goes(k, [Idle EXCEPT !.pc = pc])

\* verify_spooled_crop
Verify(k) ==
  /\ Does(k, "verifying") /\ worker[k].job \in spooled
  /\ Goes(k, [worker[k] EXCEPT !.pc = "verified"])
  /\ UNCHANGED <<outcome, row, spool, remote, tried, watcher, faults>>

\* The copy is missing, or is not what the job says.
VerifyFails(k) ==
  /\ Does(k, "verifying") /\ HoldsLease(k)
  /\ Happens(worker[k].job \notin spooled)
  /\ row' = [row EXCEPT ![worker[k].job] = Ended(@, "permanent_failure")]
  /\ Goes(k, [worker[k] EXCEPT !.pc = "rejected"])
  /\ UNCHANGED <<outcome, spool, remote, tried, watcher>>

MarkMissing(k) ==
  LET d == worker[k].job IN
  /\ Does(k, "rejected")
  /\ row' = Sourced(d, IF d \in spooled THEN "available" ELSE "missing")
  /\ Done(k)
  /\ UNCHANGED <<outcome, spool, remote, tried, watcher, faults>>

\* mark_attachment_submission_started
StartUpload(k) ==
  /\ Does(k, "verified") /\ HoldsLease(k)
  /\ row' = [row EXCEPT ![worker[k].job].submitted = TRUE]
  /\ Goes(k, [worker[k] EXCEPT !.pc = "uploading", !.beats = TRUE])
  /\ UNCHANGED <<outcome, spool, remote, tried, watcher, faults>>

\* AttachmentLeaseHeartbeat
Beat(k) ==
  /\ worker[k].pc \in {"uploading", "sent"} /\ worker[k].beats /\ HoldsLease(k)
  /\ row[worker[k].job].lease < LeaseTicks
  /\ row' = [row EXCEPT ![worker[k].job].lease = LeaseTicks]
  /\ UNCHANGED <<outcome, spool, remote, tried, watcher, worker, faults>>

BeatFails(k) ==
  /\ worker[k].pc \in {"uploading", "sent"} /\ worker[k].beats
  /\ Happens(~HoldsLease(k))
  /\ Goes(k, [worker[k] EXCEPT !.beats = FALSE])
  /\ UNCHANGED <<outcome, row, spool, remote, tried, watcher>>

Answered(k, answer) == Goes(k, [worker[k] EXCEPT !.pc = "answered", !.answer = answer])

\* attach_private_file
Upload(k) ==
  LET d == worker[k].job IN
  /\ Does(k, "uploading") /\ d \in spooled
  /\ request' = [request EXCEPT ![d] = "sent"]
  /\ Goes(k, [worker[k] EXCEPT !.pc = "sent"])
  /\ UNCHANGED <<outcome, row, spool, files, tried, watcher, faults>>

\* A connection that timed out, or a copy that has gone since it was verified.
NotUploaded(k) ==
  /\ Does(k, "uploading")
  /\ Answered(k, IF worker[k].job \in spooled THEN "retry" ELSE "permanent")
  /\ UNCHANGED <<outcome, row, spool, remote, tried, watcher, faults>>

\* Mutant: a request that timed out is taken for one that was never sent.
AnswersOfTrust(state) ==
  CASE state = "sent"    -> {"retry"}
    [] state = "served"  -> {"attached", "uncertain"}
    [] state = "refused" -> {"retry", "permanent", "uncertain"}

\* classify_attachment_failure
AnswersTo(state) ==
  CASE state = "sent"    -> {"uncertain"}
    [] state = "served"  -> {"attached", "uncertain"}
    [] state = "refused" -> {"retry", "permanent", "uncertain"}

Answer(k) ==
  /\ Does(k, "sent")
  /\ \E answer \in AnswersTo(request[worker[k].job]) : Answered(k, answer)
  /\ UNCHANGED <<outcome, row, spool, remote, tried, watcher, faults>>

\* mark_attachment_job_retry_by_lease
Retried(r, wait) ==
  [Ended(r, IF r.attempts >= MaxAttempts THEN "permanent_failure" ELSE "retry_wait")
    EXCEPT !.wait = IF r.attempts >= MaxAttempts THEN 0 ELSE wait, !.submitted = FALSE]

\* Without its heartbeat a worker trusts no answer.
Verdict(k) == IF worker[k].beats THEN worker[k].answer ELSE "uncertain"

RecordFailure(k) ==
  LET d == worker[k].job IN
  /\ Does(k, "answered") /\ HoldsLease(k)
  /\ CASE Verdict(k) = "uncertain" -> row' = [row EXCEPT ![d] = Ended(@, "uncertain")]
       [] Verdict(k) = "permanent" -> row' = [row EXCEPT ![d] = Ended(@, "permanent_failure")]
       [] Verdict(k) = "retry" ->
            \E wait \in 0..DelayTicks : row' = [row EXCEPT ![d] = Retried(@, wait)]
       [] OTHER -> FALSE
  /\ Done(k)
  /\ UNCHANGED <<outcome, spool, remote, tried, watcher, faults>>

RecordAttached(k) ==
  /\ Does(k, "answered") /\ HoldsLease(k) /\ Verdict(k) = "attached"
  /\ row' = [row EXCEPT ![worker[k].job] = Ended(@, "attached")]
  /\ IF DeletesCopy THEN Goes(k, [worker[k] EXCEPT !.pc = "attached"]) ELSE Done(k)
  /\ UNCHANGED <<outcome, spool, remote, tried, watcher, faults>>

DiscardCopy(k) ==
  /\ Does(k, "attached")
  /\ spooled' = spooled \ {worker[k].job}
  /\ Goes(k, [worker[k] EXCEPT !.pc = "unlinked"])
  /\ UNCHANGED <<outcome, row, age, remote, tried, watcher, faults>>

MarkCopyDeleted(k) ==
  /\ Does(k, "unlinked")
  /\ row' = Sourced(worker[k].job, "deleted")
  /\ Done(k)
  /\ UNCHANGED <<outcome, spool, remote, tried, watcher, faults>>

\* A process that died is nobody's lease holder: its owner id is made up anew.
Abandoned(k) ==
  [d \in Decisions |-> IF row[d].owner = k THEN [row[d] EXCEPT !.owner = NoOwner] ELSE row[d]]

\* AttachmentJobStateError ends the process.
LeaseLost(k) ==
  /\ \/ Does(k, "verifying") /\ worker[k].job \notin spooled
     \/ worker[k].pc \in {"verified", "answered"}
  /\ ~HoldsLease(k)
  /\ row' = Abandoned(k)
  /\ Goes(k, [Idle EXCEPT !.pc = "down"])
  /\ UNCHANGED <<outcome, spool, remote, tried, watcher, faults>>

WorkerCrash(k) ==
  /\ ~Does(k, "down") /\ Fault
  /\ row' = Abandoned(k)
  /\ Goes(k, [Idle EXCEPT !.pc = "down"])
  /\ UNCHANGED <<outcome, spool, remote, tried, watcher>>

Restart(k) ==
  /\ Does(k, "down")
  /\ Goes(k, Idle)
  /\ UNCHANGED <<outcome, row, spool, remote, tried, watcher, faults>>

-----------------------------------------------------------------------------
(***************************************************************************)
(* ERPNext, which makes a File of every upload it accepts, and time.       *)
(***************************************************************************)

Serve(d) ==
  /\ request[d] = "sent"
  /\ request' = [request EXCEPT ![d] = "served"]
  /\ files' = [files EXCEPT ![d] = @ + 1]
  /\ UNCHANGED <<outcome, row, spool, tried, watcher, worker, faults>>

Refuse(d) ==
  /\ request[d] = "sent"
  /\ request' = [request EXCEPT ![d] = "refused"]
  /\ UNCHANGED <<outcome, row, spool, files, tried, watcher, worker, faults>>

\* Mutant: a timer that ran out runs on.
LessStill(n) == n - 1

Less(n) == IF n = 0 THEN 0 ELSE n - 1

AboutToAge(d) ==
  age[d] = GraceTicks - 1 /\ \E w \in Watchers : watcher[w].decision = d

Tick ==
  /\ ~Stalls => \A d \in spooled : ~AboutToAge(d)
  /\ row' = [d \in Decisions |->
               [row[d] EXCEPT !.lease = Less(@), !.wait = Less(@)]]
  /\ age' = [d \in Decisions |->
               IF d \in spooled /\ age[d] < GraceTicks THEN age[d] + 1 ELSE age[d]]
  /\ <<row', age'>> # <<row, age>>
  /\ UNCHANGED <<outcome, spooled, remote, tried, watcher, worker, faults>>

-----------------------------------------------------------------------------

Watched(w) == CheckSpool(w) \/ SpoolCrop(w) \/ Persist(w) \/ PersistFails(w)

Recovering(k) ==
  \/ Restart(k) \/ Recover(k) \/ ListReferenced(k) \/ Sweeps(k) \/ ReadSettled(k)
  \/ MarkDeleted(k) \/ Cleans(k)
  \/ \E d \in Decisions : Sweep(k, d) \/ Unlink(k, d)

Processing(k) ==
  \/ Claim(k) \/ Verify(k) \/ VerifyFails(k) \/ MarkMissing(k) \/ StartUpload(k)
  \/ Upload(k) \/ NotUploaded(k) \/ Answer(k) \/ RecordFailure(k) \/ RecordAttached(k)
  \/ DiscardCopy(k) \/ MarkCopyDeleted(k) \/ LeaseLost(k)

Next ==
  \/ \E w \in Watchers : Watched(w) \/ WatcherCrash(w) \/ \E d \in Decisions : Admit(w, d)
  \/ \E k \in Workers :
       Recovering(k) \/ Processing(k) \/ Beat(k) \/ BeatFails(k) \/ WorkerCrash(k)
  \/ \E d \in Decisions : ParentSettles(d) \/ Serve(d) \/ Refuse(d)
  \/ Tick

Spec == Init /\ [][Next]_vars

\* The service loops for ever and is restarted; time passes.
Fairness ==
  /\ \A w \in Watchers : WF_vars(Watched(w))
  /\ \A k \in Workers : WF_vars(Recovering(k) \/ Processing(k))
  /\ WF_vars(Tick)

LiveSpec == Spec /\ Fairness

-----------------------------------------------------------------------------
(***************************************************************************)
(* Properties.                                                             *)
(***************************************************************************)

Unfinished(d) == row[d].state \notin Settled \cup {"none"}

\* upload_file makes a File of every request: no decision gets two, whatever
\* crashes, times out, is refused, recovered or retried.
UploadedOnce == \A d \in Decisions : files[d] <= 1

\* What the row says and what ERPNext has agree: an attached crop is one File,
\* and a job that failed or was cancelled without being in doubt has none.
RowsAgree ==
  \A d \in Decisions :
    /\ row[d].state = "attached" => files[d] = 1
    /\ row[d].state \in {"permanent_failure", "cancelled"} => files[d] = 0
    /\ files[d] > 0 => outcome[d] = "delivered"

\* While a job may still need its crop, also one in doubt or one whose check-in
\* is in doubt, the crop stays in the spool.
CropKept ==
  \A d \in Decisions : Unfinished(d) => d \in spooled

\* Cleanup never removes a crop that an unfinished job refers to.
ReferencedRetained ==
  [][\A d \in Decisions :
       Unfinished(d) /\ row[d].source = "available" /\ d \in spooled => d \in spooled']_vars

\* Once its check-in is delivered or failed, an attachment comes to an end.
AttachmentsSettle ==
  \A d \in Decisions :
    outcome[d] \in {"delivered", "failed"} ~> ~Unfinished(d) \/ row[d].state = "uncertain"

\* A crop that nothing refers to, or whose job was attached or cancelled, goes,
\* whoever crashed before removing it or before recording it.
SpoolCleared ==
  \A d \in Decisions :
    /\ (d \in spooled /\ row[d].state = "none") ~> (d \notin spooled \/ row[d].state # "none")
    /\ row[d].state \in {"attached", "cancelled"} ~> (d \notin spooled /\ row[d].source = "deleted")
=============================================================================
