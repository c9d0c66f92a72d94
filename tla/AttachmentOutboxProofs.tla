------------------------- MODULE AttachmentOutboxProofs -------------------------
(***************************************************************************)
(* What holds of AttachmentOutbox for every number of decisions, watchers, *)
(* workers, attempts and faults: no crop is uploaded twice, and the rows   *)
(* agree with ERPNext; and, when no watcher stalls for longer than the     *)
(* grace period, a crop stays in the spool for as long as its job may need *)
(* it.                                                                     *)
(***************************************************************************)
EXTENDS AttachmentOutbox, TLAPS

-----------------------------------------------------------------------------
(* The operators on rows. *)

\* Every state the actions name is one of the table.
LEMMA RowStates ==
  /\ Claimables \subseteq JobStates /\ Settled \subseteq JobStates
  /\ {"none", "waiting_for_checkin", "pending", "leased", "retry_wait", "attached",
      "permanent_failure", "cancelled", "uncertain"} \subseteq JobStates
  /\ NoRow \in JobRow
  /\ 0 \in 0..LeaseTicks /\ LeaseTicks \in 0..LeaseTicks /\ 0 \in 0..DelayTicks
BY AttachmentAssumption DEF JobStates, Claimables, Settled, NoRow, JobRow

\* The fields no update of the outcome of a job touches.
SameJob(r, q) == q.source = r.source /\ q.attempts = r.attempts

\* Ending a lease.
LEMMA EndedType ==
  ASSUME NEW r \in JobRow, NEW state \in JobStates
  PROVE  /\ Ended(r, state) \in JobRow
         /\ [Ended(r, state) EXCEPT !.submitted = FALSE] \in JobRow
         /\ Ended(r, state).state = state /\ Ended(r, state).owner = NoOwner
         /\ Ended(r, state).submitted = r.submitted
         /\ SameJob(r, Ended(r, state))
BY RowStates DEF Ended, JobRow, SameJob

\* Putting a job off, or giving it up.
LEMMA RetriedType ==
  ASSUME NEW r \in JobRow, NEW wait \in 0..DelayTicks
  PROVE  /\ Retried(r, wait) \in JobRow
         /\ Retried(r, wait).state \in {"permanent_failure", "retry_wait"}
         /\ Retried(r, wait).owner = NoOwner
         /\ SameJob(r, Retried(r, wait))
<1> DEFINE state == IF r.attempts >= MaxAttempts THEN "permanent_failure" ELSE "retry_wait"
           e == Ended(r, state)
<1>1. state \in JobStates /\ state \in {"permanent_failure", "retry_wait"}
  BY RowStates
<1> HIDE DEF state
<1>2. e \in JobRow /\ e.state = state /\ e.owner = NoOwner /\ SameJob(r, e)
  BY <1>1, EndedType
<1>3. Retried(r, wait) = [e EXCEPT !.wait = IF r.attempts >= MaxAttempts THEN 0 ELSE wait,
                                   !.submitted = FALSE]
  BY DEF Retried, state
<1> HIDE DEF e
<1> QED BY <1>1, <1>2, <1>3, RowStates DEF JobRow, SameJob

\* What refreshing, recovering and sweeping make of a row.
Prepared(r, q, result) ==
  /\ q \in JobRow /\ SameJob(r, q)
  /\ \/ q.state = r.state /\ q.owner = r.owner /\ q.submitted = r.submitted
     \/ /\ r.state = "waiting_for_checkin" /\ result = "delivered"
        /\ q.state = "pending" /\ q.owner = r.owner /\ q.submitted = r.submitted
     \/ /\ r.state \in Claimables \cup {"waiting_for_checkin"}
        /\ q.state \in {"cancelled", "permanent_failure"}
        /\ q.owner \in {r.owner, NoOwner} /\ q.submitted = r.submitted
        /\ q.state = "permanent_failure" => r.state \in Claimables \/ result = "delivered"
     \/ /\ r.state = "leased" /\ q.owner = NoOwner /\ ~q.submitted
        /\ q.state \in (IF r.submitted THEN {"uncertain"} ELSE {"retry_wait", "permanent_failure"})

\* Recovery, and the sweep of a claim, keep a row well formed, and do no more
\* to it than that.
LEMMA PreparedRow ==
  ASSUME NEW d \in Decisions, row[d] \in JobRow
  PROVE  /\ Prepared(row[d], Recovered(Refreshed(d)), outcome[d])
         /\ Prepared(row[d], Swept(Recovered(Refreshed(d))), outcome[d])
         /\ Swept(Recovered(Refreshed(d))).state \in Claimables
            /\ Swept(Recovered(Refreshed(d))).wait = 0
              => Swept(Recovered(Refreshed(d))).attempts < MaxAttempts
<1> DEFINE r == row[d]
           f == Refreshed(d)
<1>1. /\ f \in JobRow /\ SameJob(r, f) /\ f.owner = r.owner /\ f.submitted = r.submitted
      /\ \/ f = r
         \/ r.state = "waiting_for_checkin" /\ outcome[d] = "delivered" /\ f.state = "pending"
         \/ r.state \in Claimables \cup {"waiting_for_checkin"} /\ f.state = "cancelled"
  <2>1. CASE r.state = "waiting_for_checkin" /\ outcome[d] = "delivered"
    <3>1. f = [r EXCEPT !.state = "pending"]
      BY <2>1 DEF Refreshed
    <3> QED BY <2>1, <3>1, RowStates DEF JobRow, SameJob
  <2>2. CASE r.state \in Claimables \cup {"waiting_for_checkin"} /\ outcome[d] = "failed"
    <3>1. f = [r EXCEPT !.state = "cancelled"]
      BY <2>2 DEF Refreshed
    <3> QED BY <2>2, <3>1, RowStates DEF JobRow, SameJob
  <2>3. CASE /\ ~(r.state = "waiting_for_checkin" /\ outcome[d] = "delivered")
             /\ ~(r.state \in Claimables \cup {"waiting_for_checkin"} /\ outcome[d] = "failed")
    <3>1. f = r
      BY <2>3 DEF Refreshed
    <3> QED BY <3>1 DEF SameJob
  <2> QED BY <2>1, <2>2, <2>3
<1> DEFINE g == Recovered(f)
<1> HIDE DEF f
<1>2. \/ g = f
      \/ /\ f.state = "leased" /\ g \in JobRow /\ SameJob(f, g) /\ g.owner = NoOwner
         /\ ~g.submitted
         /\ g.state \in (IF f.submitted THEN {"uncertain"} ELSE {"retry_wait", "permanent_failure"})
  <2>1. CASE f.state # "leased" \/ f.lease > 0
    BY <2>1 DEF Recovered
  <2>2. CASE ~(f.state # "leased" \/ f.lease > 0)
    <3> DEFINE state == IF f.submitted THEN "uncertain"
                        ELSE IF f.attempts >= MaxAttempts THEN "permanent_failure"
                        ELSE "retry_wait"
               e == Ended(f, state)
    <3>1. g = [e EXCEPT !.submitted = FALSE] /\ f.state = "leased"
      BY <2>2 DEF Recovered
    <3>2. /\ state \in JobStates
          /\ state \in (IF f.submitted THEN {"uncertain"} ELSE {"retry_wait", "permanent_failure"})
      BY RowStates
    <3> HIDE DEF state
    <3>3. /\ e \in JobRow /\ e.state = state /\ e.owner = NoOwner /\ SameJob(f, e)
          /\ [e EXCEPT !.submitted = FALSE] \in JobRow
      BY <1>1, <3>2, EndedType
    <3> HIDE DEF e
    <3>4. /\ g \in JobRow /\ SameJob(f, g) /\ g.owner = NoOwner /\ g.state = state
      BY <3>1, <3>3 DEF JobRow, SameJob
    <3>5. ~g.submitted
      BY <3>1, <3>3 DEF JobRow
    <3> QED BY <3>1, <3>2, <3>4, <3>5
  <2> QED BY <2>1, <2>2
<1> DEFINE h == Swept(g)
<1> HIDE DEF g
<1>3. g \in JobRow
  BY <1>1, <1>2
<1>4. \/ h = g /\ (g.state \in Claimables /\ g.wait = 0 => g.attempts < MaxAttempts)
      \/ /\ g.state \in Claimables /\ h \in JobRow /\ SameJob(g, h) /\ h.owner = NoOwner
         /\ h.submitted = g.submitted /\ h.state = "permanent_failure"
  <2>1. CASE g.state \in Claimables /\ g.wait = 0 /\ g.attempts >= MaxAttempts
    <3> DEFINE state == "permanent_failure"
    <3>1. h = Ended(g, state) /\ state \in JobStates
      BY <2>1, RowStates DEF Swept
    <3> HIDE DEF state
    <3>2. /\ Ended(g, state) \in JobRow /\ SameJob(g, Ended(g, state))
          /\ Ended(g, state).owner = NoOwner /\ Ended(g, state).submitted = g.submitted
          /\ Ended(g, state).state = state
      BY <1>3, <3>1, EndedType
    <3> QED BY <2>1, <3>1, <3>2 DEF state
  <2>2. CASE ~(g.state \in Claimables /\ g.wait = 0 /\ g.attempts >= MaxAttempts)
    <3>1. g.attempts \in Nat /\ MaxAttempts \in Nat
      BY <1>3, AttachmentAssumption DEF JobRow
    <3> QED BY <2>2, <3>1 DEF Swept
  <2> QED BY <2>1, <2>2
<1>5. Prepared(r, g, outcome[d])
  BY <1>1, <1>2, RowStates DEF Prepared, SameJob, Claimables
<1>6. Prepared(r, h, outcome[d])
  BY <1>1, <1>2, <1>4, <1>5, RowStates DEF Prepared, SameJob, Claimables
<1>7. h.state \in Claimables /\ h.wait = 0 => h.attempts < MaxAttempts
  BY <1>4 DEF Claimables
<1> QED BY <1>5, <1>6, <1>7 DEF f, g, h

-----------------------------------------------------------------------------
(* Types. *)

\* What of a worker's and a watcher's variables is set while it has a job.
WithJob == {"verifying", "verified", "rejected", "uploading", "sent", "answered",
            "attached", "unlinked"}

\* The states in which a worker may hold a lease, and those after its submission.
Leasing   == {"verifying", "verified", "uploading", "sent", "answered"}
Uploading == {"uploading", "sent", "answered"}

Placed ==
  /\ \A k \in Workers : worker[k].pc \in WithJob => worker[k].job \in Decisions
  /\ \A w \in Watchers : watcher[w].pc # "idle" <=> watcher[w].decision \in Decisions
  /\ \A k \in Workers : worker[k].pc = "sent" => request[worker[k].job] # "none"

\* The bound on files is a matter of UploadedOnce, and comes later.
TypeInv ==
  /\ outcome \in [Decisions -> {"none", "queued", "delivered", "failed", "unknown"}]
  /\ row \in [Decisions -> JobRow]
  /\ spooled \subseteq Decisions
  /\ age \in [Decisions -> 0..GraceTicks]
  /\ request \in [Decisions -> {"none", "sent", "served", "refused"}]
  /\ files \in [Decisions -> Nat]
  /\ tried \subseteq Decisions
  /\ watcher \in [Watchers -> Watching]
  /\ worker \in [Workers -> Working]
  /\ faults \in 0..MaxFaults
  /\ Placed

\* A record of a worker with a job, or with none, is well formed.
LEMMA WorkingRecords ==
  /\ Idle \in Working /\ Idle.pc = "idle"
  /\ Resting \in Watching /\ Resting.pc = "idle" /\ Resting.decision \notin Decisions
BY AttachmentAssumption DEF Idle, Working, Resting, Watching, Answers

\* A worker that goes to a well formed state leaves the workers well formed.
LEMMA GoesType ==
  ASSUME TypeInv, NEW k \in Workers, NEW to \in Working, Goes(k, to),
         to.pc \in WithJob => to.job \in Decisions
  PROVE  /\ worker' \in [Workers -> Working]
         /\ \A m \in Workers : worker'[m].pc \in WithJob => worker'[m].job \in Decisions
BY DEF TypeInv, Placed, Goes

\* So does a watcher.
LEMMA WatcherType ==
  ASSUME TypeInv, NEW w \in Watchers, NEW to \in Watching,
         watcher' = [watcher EXCEPT ![w] = to],
         to.pc # "idle" <=> to.decision \in Decisions
  PROVE  /\ watcher' \in [Watchers -> Watching]
         /\ \A v \in Watchers : watcher'[v].pc # "idle" <=> watcher'[v].decision \in Decisions
BY DEF TypeInv, Placed

\* A fault counts.
LEMMA FaultType == ASSUME TypeInv, Fault PROVE faults' \in 0..MaxFaults
BY AttachmentAssumption DEF TypeInv, Fault

\* The initial states are well formed.
LEMMA TypeInit == Init => TypeInv
BY RowStates, WorkingRecords, AttachmentAssumption
   DEF Init, TypeInv, Placed, WithJob, Idle, Resting

\* A watcher's steps keep the variables well formed.
LEMMA TypeWatcher ==
  ASSUME TypeInv, NEW w \in Watchers,
         Watched(w) \/ WatcherCrash(w) \/ \E d \in Decisions : Admit(w, d)
  PROVE  TypeInv'
<1> USE DEF spool, remote, Watches
<1>0. watcher[w] \in Watching
  BY DEF TypeInv
<1>1. CASE CheckSpool(w)
  <2> DEFINE to == [watcher[w] EXCEPT !.pc =
                   IF Cardinality(ActiveJobs) < MaxJobs THEN "spooling" ELSE "persisting"]
  <2>1. to \in Watching /\ (to.pc # "idle" <=> to.decision \in Decisions)
    BY <1>0, <1>1 DEF CheckSpool, Watching, TypeInv, Placed
  <2>2. watcher' = [watcher EXCEPT ![w] = to]
    BY <1>1 DEF CheckSpool, TypeInv
  <2> HIDE DEF to
  <2>3. /\ watcher' \in [Watchers -> Watching]
        /\ \A v \in Watchers : watcher'[v].pc # "idle" <=> watcher'[v].decision \in Decisions
    BY <2>1, <2>2, WatcherType
  <2> QED BY <1>1, <2>3 DEF CheckSpool, TypeInv, Placed
<1>2. CASE SpoolCrop(w)
  <2>1. PICK to \in Watching :
          /\ watcher' = [watcher EXCEPT ![w] = to]
          /\ to.pc = "persisting" /\ to.decision = watcher[w].decision
    <3>1. CASE watcher' = [watcher EXCEPT ![w].pc = "persisting", ![w].media = TRUE]
      <4>1. [watcher[w] EXCEPT !.pc = "persisting", !.media = TRUE] \in Watching
        BY <1>0 DEF Watching
      <4> QED BY <1>0, <3>1, <4>1 DEF TypeInv, Watching
    <3>2. CASE watcher' = [watcher EXCEPT ![w].pc = "persisting"]
      <4>1. [watcher[w] EXCEPT !.pc = "persisting"] \in Watching
        BY <1>0 DEF Watching
      <4> QED BY <1>0, <3>2, <4>1 DEF TypeInv, Watching
    <3> QED BY <1>2, <3>1, <3>2 DEF SpoolCrop
  <2>2. watcher[w].decision \in Decisions
    BY <1>2 DEF SpoolCrop, TypeInv, Placed
  <2>3. /\ watcher' \in [Watchers -> Watching]
        /\ \A v \in Watchers : watcher'[v].pc # "idle" <=> watcher'[v].decision \in Decisions
    BY <2>1, <2>2, WatcherType
  <2>4. faults' \in 0..MaxFaults
    BY <1>2, FaultType DEF SpoolCrop, TypeInv
  <2> QED BY <1>2, <2>2, <2>3, <2>4, AttachmentAssumption DEF SpoolCrop, TypeInv, Placed
<1>3. CASE Persist(w) \/ PersistFails(w) \/ WatcherCrash(w)
  <2>1. watcher' = [watcher EXCEPT ![w] = Resting]
    BY <1>3 DEF Persist, PersistFails, WatcherCrash
  <2>2. /\ watcher' \in [Watchers -> Watching]
        /\ \A v \in Watchers : watcher'[v].pc # "idle" <=> watcher'[v].decision \in Decisions
    BY <2>1, WatcherType, WorkingRecords
  <2>3. CASE Persist(w)
    <3>1. Inserted(watcher[w].media) \in JobRow
      BY RowStates DEF Inserted, JobRow
    <3> QED BY <2>2, <2>3, <3>1 DEF Persist, TypeInv, Placed
  <2>4. CASE PersistFails(w) \/ WatcherCrash(w)
    <3>1. faults' \in 0..MaxFaults
      BY <2>4, FaultType DEF PersistFails, WatcherCrash
    <3> QED BY <2>2, <2>4, <3>1 DEF PersistFails, WatcherCrash, TypeInv, Placed
  <2> QED BY <1>3, <2>3, <2>4
<1>4. ASSUME NEW d \in Decisions, Admit(w, d) PROVE TypeInv'
  <2>1. PICK to \in Watching :
          watcher' = [watcher EXCEPT ![w] = to] /\ (to.pc # "idle" <=> to.decision \in Decisions)
    <3>1. /\ [Resting EXCEPT !.pc = "admitted", !.decision = d] \in Watching
          /\ [Resting EXCEPT !.pc = "admitted", !.decision = d].pc = "admitted"
          /\ [Resting EXCEPT !.pc = "admitted", !.decision = d].decision = d
      BY DEF Resting, Watching
    <3> QED BY <1>4, <3>1, WorkingRecords DEF Admit
  <2>2. /\ watcher' \in [Watchers -> Watching]
        /\ \A v \in Watchers : watcher'[v].pc # "idle" <=> watcher'[v].decision \in Decisions
    BY <2>1, WatcherType
  <2> QED BY <1>4, <2>2 DEF Admit, TypeInv, Placed
<1> QED BY <1>1, <1>2, <1>3, <1>4 DEF Watched

\* What a worker does leaves its own record well formed.
LEMMA WorkerMoves ==
  ASSUME TypeInv, NEW k \in Workers, Recovering(k) \/ Processing(k) \/ BeatFails(k) \/ WorkerCrash(k)
  PROVE  /\ worker' \in [Workers -> Working]
         /\ \A m \in Workers : worker'[m].pc \in WithJob => worker'[m].job \in Decisions
<1> USE DEF Does, spool, remote
<1> DEFINE Fine(to) == to \in Working /\ (to.pc \in WithJob => to.job \in Decisions)
<1>0. /\ worker[k] \in Working /\ NoDecision \notin Decisions
      /\ worker[k].pc \in WithJob => worker[k].job \in Decisions
  BY AttachmentAssumption DEF TypeInv, Placed
<1>1. SUFFICES ASSUME NEW to, Fine(to), Goes(k, to)
               PROVE  /\ worker' \in [Workers -> Working]
                      /\ \A m \in Workers : worker'[m].pc \in WithJob => worker'[m].job \in Decisions
  <2>1. \A pc \in {"idle", "down", "reading", "claiming"} : Fine([Idle EXCEPT !.pc = pc])
    BY DEF Idle, Working, WithJob, Answers
  <2>2. Done(k) => \E to : Fine(to) /\ Goes(k, to)
    BY <2>1 DEF Done
  <2>3. \A answer \in Answers :
          worker[k].pc \in WithJob => Fine([worker[k] EXCEPT !.pc = "answered", !.answer = answer])
    BY <1>0 DEF Working
  <2>4. \A pc \in {"verified", "rejected", "sent", "attached", "unlinked"} :
          worker[k].pc \in WithJob => Fine([worker[k] EXCEPT !.pc = pc])
    BY <1>0 DEF Working
  <2>5. CASE Restart(k)
    <3>1. Fine(Idle)
      BY WorkingRecords DEF WithJob
    <3> QED BY <1>1, <2>5, <3>1 DEF Restart
  <2>6. CASE Recover(k)
    <3> DEFINE to == [Idle EXCEPT !.pc = "listing", !.aged = {d \in spooled : age[d] = GraceTicks}]
    <3>1. Fine(to)
      BY DEF Idle, Working, WithJob, Answers, TypeInv
    <3> HIDE DEF Fine
    <3> QED BY <1>1, <2>6, <3>1 DEF Recover
  <2>7. CASE ListReferenced(k)
    <3> DEFINE to == [Idle EXCEPT !.pc = "sweeping", !.orphans = Orphans(k)]
    <3>1. Fine(to)
      BY <1>0 DEF Idle, Working, WithJob, Answers, Orphans
    <3> HIDE DEF Fine
    <3> QED BY <1>1, <2>7, <3>1 DEF ListReferenced
  <2>8. CASE Sweeps(k)
    BY <1>1, <2>1, <2>8 DEF Sweeps
  <2>9. CASE ReadSettled(k)
    <3> DEFINE to == [Idle EXCEPT !.pc = "cleaning", !.list = {d \in Decisions : Cleanable(row[d])}]
    <3>1. Fine(to)
      BY DEF Idle, Working, WithJob, Answers
    <3> HIDE DEF Fine
    <3> QED BY <1>1, <2>9, <3>1 DEF ReadSettled
  <2>10. CASE MarkDeleted(k)
    <3> DEFINE to == [worker[k] EXCEPT !.unlinked = NoDecision, !.list = @ \ {worker[k].unlinked}]
    <3>1. Fine(to)
      BY <1>0, <2>10 DEF Working, MarkDeleted
    <3> HIDE DEF Fine
    <3> QED BY <1>1, <2>10, <3>1 DEF MarkDeleted
  <2>11. CASE Cleans(k)
    BY <1>1, <2>1, <2>11 DEF Cleans
  <2>12. ASSUME NEW d \in Decisions, Sweep(k, d) \/ Unlink(k, d)
         PROVE \E to : Fine(to) /\ Goes(k, to)
    <3>1. Fine([worker[k] EXCEPT !.orphans = @ \ {d}]) /\ Fine([worker[k] EXCEPT !.unlinked = d])
      BY <1>0 DEF Working
    <3> HIDE DEF Fine
    <3> QED BY <2>12, <3>1 DEF Sweep, Unlink
  <2>13. CASE Claim(k)
    <3>1. \A d \in Decisions : Fine([Idle EXCEPT !.pc = "verifying", !.job = d])
      BY DEF Idle, Working, Answers
    <3>2. Fine(Idle)
      BY WorkingRecords DEF WithJob
    <3> DEFINE ready == [d \in Decisions |-> Swept(Recovered(Refreshed(d)))]
    <3>3. \/ \E d \in Decisions : Goes(k, [Idle EXCEPT !.pc = "verifying", !.job = d])
          \/ Goes(k, Idle)
      BY <2>13 DEF Claim
    <3> HIDE DEF Fine
    <3> QED BY <1>1, <3>1, <3>2, <3>3
  <2>14. CASE Verify(k) \/ VerifyFails(k) \/ Upload(k) \/ DiscardCopy(k)
    <3>1. worker[k].pc \in WithJob
      BY <2>14 DEF Verify, VerifyFails, Upload, DiscardCopy, WithJob
    <3>2. \E pc \in {"verified", "rejected", "sent", "unlinked"} : Goes(k, [worker[k] EXCEPT !.pc = pc])
      BY <2>14 DEF Verify, VerifyFails, Upload, DiscardCopy
    <3> HIDE DEF Fine
    <3> QED BY <1>1, <2>4, <3>1, <3>2
  <2>15. CASE StartUpload(k)
    <3> DEFINE to == [worker[k] EXCEPT !.pc = "uploading", !.beats = TRUE]
    <3>1. Fine(to)
      BY <1>0, <2>15 DEF Working, StartUpload, WithJob
    <3> HIDE DEF Fine
    <3> QED BY <1>1, <2>15, <3>1 DEF StartUpload
  <2>16. CASE NotUploaded(k) \/ Answer(k)
    <3>1. worker[k].pc \in WithJob
      BY <2>16 DEF NotUploaded, Answer, WithJob
    <3>2. CASE NotUploaded(k)
      <4>1. \E answer \in {"retry", "permanent"} : Answered(k, answer)
        BY <3>2 DEF NotUploaded
      <4> HIDE DEF Fine
      <4> QED BY <1>1, <2>3, <3>1, <4>1 DEF Answered, Answers
    <3>3. CASE Answer(k)
      <4>1. request[worker[k].job] \in {"sent", "served", "refused"}
        BY <1>0, <3>1, <3>3 DEF Answer, TypeInv, Placed
      <4>2. AnswersTo(request[worker[k].job]) \subseteq Answers
        BY <4>1 DEF AnswersTo, Answers
      <4>3. \E answer \in Answers : Answered(k, answer)
        BY <3>3, <4>2 DEF Answer
      <4> HIDE DEF Fine
      <4> QED BY <1>1, <2>3, <3>1, <4>3 DEF Answered
    <3> QED BY <2>16, <3>2, <3>3
  <2>17. CASE MarkMissing(k) \/ RecordFailure(k) \/ MarkCopyDeleted(k)
    <3> HIDE DEF Fine
    <3> QED BY <1>1, <2>2, <2>17 DEF MarkMissing, RecordFailure, MarkCopyDeleted
  <2>18. CASE RecordAttached(k)
    <3>1. worker[k].pc \in WithJob
      BY <2>18 DEF RecordAttached, WithJob
    <3> HIDE DEF Fine
    <3> QED BY <1>1, <2>2, <2>4, <2>18, <3>1 DEF RecordAttached
  <2>19. CASE LeaseLost(k) \/ WorkerCrash(k)
    BY <1>1, <2>1, <2>19 DEF LeaseLost, WorkerCrash
  <2>20. CASE BeatFails(k)
    <3> DEFINE to == [worker[k] EXCEPT !.beats = FALSE]
    <3>1. Fine(to)
      BY <1>0 DEF Working
    <3> HIDE DEF Fine
    <3> QED BY <1>1, <2>20, <3>1 DEF BeatFails
  <2> HIDE DEF Fine
  <2> QED
    BY <1>1, <2>5, <2>6, <2>7, <2>8, <2>9, <2>10, <2>11, <2>12, <2>13, <2>14, <2>15, <2>16,
       <2>17, <2>18, <2>19, <2>20 DEF Recovering, Processing
<1> QED BY <1>1, GoesType

\* So does it leave the rows.
LEMMA WorkerRows ==
  ASSUME TypeInv, NEW k \in Workers,
         Recovering(k) \/ Processing(k) \/ Beat(k) \/ BeatFails(k) \/ WorkerCrash(k)
  PROVE  row' \in [Decisions -> JobRow]
<1> USE DEF Does, spool, remote
<1>0. row \in [Decisions -> JobRow] /\ (worker[k].pc \in WithJob => worker[k].job \in Decisions)
  BY DEF TypeInv, Placed
<1>1. ASSUME NEW d, NEW source \in {"available", "deleted", "missing"}, row' = Sourced(d, source)
      PROVE  row' \in [Decisions -> JobRow]
  BY <1>0, <1>1 DEF Sourced, JobRow
<1>2. ASSUME NEW d \in Decisions, NEW state \in JobStates, row' = [row EXCEPT ![d] = Ended(@, state)]
      PROVE  row' \in [Decisions -> JobRow]
  <2>1. row[d] \in JobRow
    BY <1>0
  <2>2. Ended(row[d], state) \in JobRow
    BY <2>1, EndedType
  <2> QED BY <1>0, <1>2, <2>2
<1>3. row' = Abandoned(k) => row' \in [Decisions -> JobRow]
  BY <1>0 DEF Abandoned, JobRow
<1>4. CASE Recover(k)
  <2>1. \A d \in Decisions : Recovered(Refreshed(d)) \in JobRow
    BY <1>0, PreparedRow DEF Prepared
  <2> QED BY <1>4, <2>1 DEF Recover
<1>5. CASE Claim(k)
  <2> DEFINE ready == [d \in Decisions |-> Swept(Recovered(Refreshed(d)))]
  <2>1. ready \in [Decisions -> JobRow]
    BY <1>0, PreparedRow DEF Prepared
  <2>2. \A d \in Decisions : ready[d].state \in Claimables /\ ready[d].wait = 0
                             => ready[d].attempts < MaxAttempts
    BY <1>0, PreparedRow
  <2> HIDE DEF ready
  <2>3. ASSUME NEW d \in Decisions, Due(d, ready[d])
        PROVE  LeasedBy(k, ready[d]) \in JobRow
    <3>1. ready[d] \in JobRow /\ ready[d].attempts + 1 \in 0..MaxAttempts
      <4>1. ready[d].attempts \in Nat /\ ready[d].attempts < MaxAttempts
        BY <2>1, <2>2, <2>3 DEF Due, JobRow
      <4> QED BY <2>1, <4>1, AttachmentAssumption
    <3> QED BY <3>1, RowStates DEF LeasedBy, JobRow
  <2>4. \/ row' = ready
        \/ \E d \in Decisions : Due(d, ready[d]) /\ row' = [ready EXCEPT ![d] = LeasedBy(k, ready[d])]
    BY <1>5 DEF Claim, ready
  <2> QED BY <2>1, <2>3, <2>4
<1>6. CASE VerifyFails(k) \/ RecordAttached(k)
  <2>1. /\ worker[k].job \in Decisions
        /\ \E state \in JobStates : row' = [row EXCEPT ![worker[k].job] = Ended(@, state)]
    BY <1>0, <1>6, RowStates DEF VerifyFails, RecordAttached, WithJob
  <2> QED BY <1>2, <2>1
<1>7. CASE StartUpload(k) \/ Beat(k)
  <2> DEFINE d == worker[k].job
  <2>1. ASSUME NEW q \in JobRow, row' = [row EXCEPT ![d] = q]
        PROVE  row' \in [Decisions -> JobRow]
    BY <1>0, <2>1
  <2>2. d \in Decisions /\ row[d] \in JobRow
    BY <1>0, <1>7 DEF StartUpload, Beat, WithJob
  <2>3. /\ [row[d] EXCEPT !.submitted = TRUE] \in JobRow
        /\ [row[d] EXCEPT !.lease = LeaseTicks] \in JobRow
    BY <2>2, RowStates DEF JobRow
  <2>4. \/ row' = [row EXCEPT ![d] = [row[d] EXCEPT !.submitted = TRUE]]
        \/ row' = [row EXCEPT ![d] = [row[d] EXCEPT !.lease = LeaseTicks]]
    BY <1>0, <1>7, <2>2 DEF StartUpload, Beat
  <2> HIDE DEF d
  <2> QED BY <2>1, <2>3, <2>4
<1>8. CASE RecordFailure(k)
  <2> DEFINE d == worker[k].job
             r == row[d]
  <2>1. d \in Decisions /\ r \in JobRow
    BY <1>0, <1>8 DEF RecordFailure, WithJob
  <2>2. \A wait \in 0..DelayTicks : Retried(r, wait) \in JobRow
    BY <2>1, RetriedType
  <2>3. CASE \E wait \in 0..DelayTicks : row' = [row EXCEPT ![d] = Retried(@, wait)]
    BY <1>0, <2>1, <2>2, <2>3
  <2>4. \/ \E wait \in 0..DelayTicks : row' = [row EXCEPT ![d] = Retried(@, wait)]
        \/ \E state \in JobStates : row' = [row EXCEPT ![d] = Ended(@, state)]
    BY <1>8, RowStates DEF RecordFailure
  <2> QED BY <1>2, <2>1, <2>3, <2>4
<1>9. CASE MarkDeleted(k) \/ MarkMissing(k) \/ MarkCopyDeleted(k)
  BY <1>1, <1>9 DEF MarkDeleted, MarkMissing, MarkCopyDeleted
<1>10. CASE LeaseLost(k) \/ WorkerCrash(k)
  BY <1>3, <1>10 DEF LeaseLost, WorkerCrash
<1>11. CASE \/ Restart(k) \/ ListReferenced(k) \/ Sweeps(k) \/ ReadSettled(k) \/ Cleans(k)
            \/ \E d \in Decisions : Sweep(k, d) \/ Unlink(k, d)
            \/ Verify(k) \/ Upload(k) \/ NotUploaded(k) \/ Answer(k) \/ DiscardCopy(k) \/ BeatFails(k)
  BY <1>0, <1>11 DEF Restart, ListReferenced, Sweeps, ReadSettled, Cleans, Sweep, Unlink, Verify,
                     Upload, NotUploaded, Answer, DiscardCopy, BeatFails
<1> QED BY <1>4, <1>5, <1>6, <1>7, <1>8, <1>9, <1>10, <1>11 DEF Recovering, Processing

\* Where a worker goes that neither sends a request nor answers one.
LEMMA Elsewhere ==
  ASSUME TypeInv, NEW k \in Workers, Recovering(k) \/ Processing(k) \/ WorkerCrash(k),
         ~(StartUpload(k) \/ Upload(k) \/ NotUploaded(k) \/ Answer(k))
  PROVE  request' = request /\ \E to : Goes(k, to) /\ to.pc \notin Uploading
<1> USE DEF Does, spool, remote, Uploading
<1>0. worker[k] \in Working
  BY DEF TypeInv
<1>1. \A pc \in {"idle", "down", "reading", "claiming"} : [Idle EXCEPT !.pc = pc].pc = pc
  BY DEF Idle
<1>2. \A pc \in {"verified", "rejected", "attached", "unlinked"} : [worker[k] EXCEPT !.pc = pc].pc = pc
  BY <1>0 DEF Working
<1>4. Done(k) => \E to : Goes(k, to) /\ to.pc \notin Uploading
  BY <1>1 DEF Done
<1>5. CASE Restart(k) \/ Recover(k) \/ ListReferenced(k) \/ Sweeps(k) \/ ReadSettled(k) \/ Cleans(k)
  <2>1. /\ [Idle EXCEPT !.pc = "listing",
                       !.aged = {d \in spooled : age[d] = GraceTicks}].pc = "listing"
        /\ [Idle EXCEPT !.pc = "sweeping", !.orphans = Orphans(k)].pc = "sweeping"
        /\ [Idle EXCEPT !.pc = "cleaning",
                       !.list = {d \in Decisions : Cleanable(row[d])}].pc = "cleaning"
    BY DEF Idle
  <2>2. request' = request
    BY <1>5 DEF Restart, Recover, ListReferenced, Sweeps, ReadSettled, Cleans
  <2> QED BY <1>1, <1>5, <2>1, <2>2, WorkingRecords
          DEF Restart, Recover, ListReferenced, Sweeps, ReadSettled, Cleans
<1>6. CASE MarkDeleted(k)
  <2>1. [worker[k] EXCEPT !.unlinked = NoDecision,
                          !.list = @ \ {worker[k].unlinked}].pc = "cleaning"
    BY <1>0, <1>6 DEF MarkDeleted, Working
  <2> QED BY <1>6, <2>1 DEF MarkDeleted
<1>7. CASE \E d \in Decisions : Sweep(k, d) \/ Unlink(k, d)
  BY <1>0, <1>7 DEF Sweep, Unlink, Working
<1>8. CASE Claim(k)
  <2>1. \A d : [Idle EXCEPT !.pc = "verifying", !.job = d].pc = "verifying"
    BY DEF Idle
  <2>2. request' = request
    BY <1>8 DEF Claim
  <2>3. \/ \E d \in Decisions : Goes(k, [Idle EXCEPT !.pc = "verifying", !.job = d])
        \/ Goes(k, Idle)
    <3> DEFINE ready == [d \in Decisions |-> Swept(Recovered(Refreshed(d)))]
    <3> QED BY <1>8 DEF Claim
  <2> QED BY <2>1, <2>2, <2>3, WorkingRecords
<1>10. CASE Verify(k) \/ VerifyFails(k) \/ DiscardCopy(k)
  BY <1>2, <1>10 DEF Verify, VerifyFails, DiscardCopy
<1>12. CASE MarkMissing(k) \/ RecordFailure(k) \/ MarkCopyDeleted(k) \/ RecordAttached(k)
  BY <1>2, <1>4, <1>12 DEF MarkMissing, RecordFailure, MarkCopyDeleted, RecordAttached
<1>13. CASE LeaseLost(k) \/ WorkerCrash(k)
  BY <1>1, <1>13 DEF LeaseLost, WorkerCrash
<1> QED
  BY <1>5, <1>6, <1>7, <1>8, <1>10, <1>12, <1>13 DEF Recovering, Processing

\* A worker that waits for an answer has sent its request, and no step unsends it.
LEMMA SentStays ==
  ASSUME TypeInv, NEW k \in Workers,
         Recovering(k) \/ Processing(k) \/ BeatFails(k) \/ WorkerCrash(k)
  PROVE  /\ request' \in [Decisions -> {"none", "sent", "served", "refused"}]
         /\ \A m \in Workers : worker'[m].pc = "sent" => request'[worker'[m].job] # "none"
<1> USE DEF Does, spool, remote
<1>0. worker[k] \in Working /\ worker' \in [Workers -> Working]
  BY WorkerMoves DEF TypeInv
<1>1. CASE Upload(k)
  <2>1. worker[k].job \in Decisions
    BY <1>1 DEF Upload, TypeInv, Placed, WithJob
  <2>2. /\ request' = [request EXCEPT ![worker[k].job] = "sent"]
        /\ worker' = [worker EXCEPT ![k] = [worker[k] EXCEPT !.pc = "sent"]]
    BY <1>1 DEF Upload, Goes
  <2>3. worker'[k].job = worker[k].job
    BY <1>0, <2>2 DEF Working, TypeInv
  <2> QED BY <2>1, <2>2, <2>3 DEF TypeInv, Placed
<1>2. CASE BeatFails(k)
  <2>1. request' = request /\ worker' = [worker EXCEPT ![k] = [worker[k] EXCEPT !.beats = FALSE]]
    BY <1>2 DEF BeatFails, Goes
  <2> QED BY <1>0, <2>1 DEF TypeInv, Placed, Working
<1>3. CASE StartUpload(k) \/ NotUploaded(k) \/ Answer(k)
  <2>1. [worker[k] EXCEPT !.pc = "uploading", !.beats = TRUE].pc = "uploading"
    BY <1>0 DEF Working, TypeInv
  <2>2. \A answer : [worker[k] EXCEPT !.pc = "answered", !.answer = answer].pc = "answered"
    BY <1>0 DEF Working, TypeInv
  <2>3. request' = request /\ \E to : Goes(k, to) /\ to.pc # "sent"
    BY <1>3, <2>1, <2>2 DEF StartUpload, NotUploaded, Answer, Answered
  <2> QED BY <2>3 DEF Goes, TypeInv, Placed
<1>4. CASE ~(Upload(k) \/ BeatFails(k) \/ StartUpload(k) \/ NotUploaded(k) \/ Answer(k))
  <2>1. request' = request /\ \E to : Goes(k, to) /\ to.pc \notin Uploading
    BY <1>4, Elsewhere
  <2> QED BY <2>1 DEF Goes, TypeInv, Placed, Uploading
<1> QED BY <1>1, <1>2, <1>3, <1>4

\* A worker's steps keep the variables well formed.
LEMMA TypeWorker ==
  ASSUME TypeInv, NEW k \in Workers,
         Recovering(k) \/ Processing(k) \/ Beat(k) \/ BeatFails(k) \/ WorkerCrash(k)
  PROVE  TypeInv'
<1> USE DEF spool, remote
<1>1. row' \in [Decisions -> JobRow]
  BY WorkerRows
<1>2. CASE Beat(k)
  BY <1>1, <1>2 DEF Beat, TypeInv, Placed
<1>3. CASE ~Beat(k)
  <2>1. /\ worker' \in [Workers -> Working]
        /\ \A m \in Workers : worker'[m].pc \in WithJob => worker'[m].job \in Decisions
        /\ request' \in [Decisions -> {"none", "sent", "served", "refused"}]
        /\ \A m \in Workers : worker'[m].pc = "sent" => request'[worker'[m].job] # "none"
    BY <1>3, WorkerMoves, SentStays
  <2>2. /\ UNCHANGED <<outcome, age, files, tried, watcher>> /\ spooled' \subseteq spooled
        /\ faults' = faults \/ Fault
    <3>1. CASE Recovering(k)
      BY <3>1 DEF Recovering, Restart, Recover, ListReferenced, Sweeps, ReadSettled, MarkDeleted,
                  Cleans, Sweep, Unlink
    <3>2. CASE Processing(k)
      BY <3>2 DEF Processing, Claim, Verify, VerifyFails, MarkMissing, StartUpload, Upload,
                  NotUploaded, Answer, RecordFailure, RecordAttached, DiscardCopy, MarkCopyDeleted,
                  LeaseLost, Happens
    <3>3. CASE BeatFails(k) \/ WorkerCrash(k)
      BY <3>3 DEF BeatFails, WorkerCrash, Happens
    <3> QED BY <1>3, <3>1, <3>2, <3>3
  <2>3. faults' \in 0..MaxFaults
    BY <2>2, FaultType DEF TypeInv
  <2> QED BY <1>1, <2>1, <2>2, <2>3 DEF TypeInv, Placed
<1> QED BY <1>2, <1>3

\* What ERPNext, the delivery of the check-in and time do keeps them so.
LEMMA TypeOthers ==
  ASSUME TypeInv,
         Tick \/ \E d \in Decisions : ParentSettles(d) \/ Serve(d) \/ Refuse(d)
  PROVE  TypeInv'
<1> USE DEF spool, remote
<1>1. CASE Tick
  <2>1. \A n \in Nat : Less(n) \in 0..n
    BY DEF Less
  <2>2. ASSUME NEW d \in Decisions
        PROVE  [row[d] EXCEPT !.lease = Less(@), !.wait = Less(@)] \in JobRow
    <3>1. row[d] \in JobRow
      BY DEF TypeInv
    <3>2. Less(row[d].lease) \in 0..LeaseTicks /\ Less(row[d].wait) \in 0..DelayTicks
      <4>1. row[d].lease \in 0..LeaseTicks /\ row[d].wait \in 0..DelayTicks
        BY <3>1 DEF JobRow
      <4> QED BY <4>1, AttachmentAssumption DEF Less
    <3> QED BY <3>1, <3>2 DEF JobRow
  <2>3. row' \in [Decisions -> JobRow]
    BY <1>1, <2>2 DEF Tick
  <2>4. age' \in [Decisions -> 0..GraceTicks]
    <3>1. \A d \in Decisions : age[d] \in 0..GraceTicks
      BY DEF TypeInv
    <3>2. \A d \in Decisions : (IF d \in spooled /\ age[d] < GraceTicks THEN age[d] + 1 ELSE age[d])
                               \in 0..GraceTicks
      BY <3>1, AttachmentAssumption
    <3> QED BY <1>1, <3>2 DEF Tick
  <2> QED BY <1>1, <2>3, <2>4 DEF Tick, TypeInv, Placed
<1>2. ASSUME NEW d \in Decisions, ParentSettles(d) PROVE TypeInv'
  BY <1>2 DEF ParentSettles, TypeInv, Placed
<1>3. ASSUME NEW d \in Decisions, Serve(d) PROVE TypeInv'
  <2>1. files' \in [Decisions -> Nat] /\ request' \in [Decisions -> {"none", "sent", "served", "refused"}]
    BY <1>3 DEF Serve, TypeInv
  <2> QED BY <1>3, <2>1 DEF Serve, TypeInv, Placed
<1>4. ASSUME NEW d \in Decisions, Refuse(d) PROVE TypeInv'
  BY <1>4 DEF Refuse, TypeInv, Placed
<1> QED BY <1>1, <1>2, <1>3, <1>4

\* Every step keeps the variables well formed.
LEMMA TypeStep == TypeInv /\ [Next]_vars => TypeInv'
<1>1. ASSUME TypeInv, UNCHANGED vars PROVE TypeInv'
  BY <1>1 DEF vars, spool, remote, TypeInv, Placed
<1> QED BY <1>1, TypeWatcher, TypeWorker, TypeOthers DEF Next

-----------------------------------------------------------------------------
(* What a step does to the rows and to the workers' part in them. *)

SameRow(d) ==
  row'[d].state = row[d].state /\ row'[d].owner = row[d].owner
  /\ row'[d].submitted = row[d].submitted

KeepsRole(k) ==
  /\ worker'[k].pc \in Leasing <=> worker[k].pc \in Leasing
  /\ worker'[k].pc \in Uploading <=> worker[k].pc \in Uploading
  /\ worker[k].pc \in Leasing => worker'[k].job = worker[k].job

Others(k) == \A m \in Workers : m # k => worker'[m] = worker[m]

\* Nothing that matters to a lease.
Quiet == (\A d \in Decisions : SameRow(d)) /\ (\A k \in Workers : KeepsRole(k))

Recovers ==
  /\ \A d \in Decisions : Prepared(row[d], row'[d], outcome[d])
  /\ \A k \in Workers : KeepsRole(k)

Claims(k, d) ==
  /\ Others(k) /\ worker[k].pc \notin Leasing
  /\ worker'[k].pc = "verifying" /\ worker'[k].job = d
  /\ \A e \in Decisions : e # d => Prepared(row[e], row'[e], outcome[e])
  /\ \E q \in JobRow : Prepared(row[d], q, outcome[d]) /\ q.state \in Claimables
  /\ row'[d].state = "leased" /\ row'[d].owner = k /\ ~row'[d].submitted
  /\ outcome[d] = "delivered"

Ends(k, d) ==
  /\ Others(k) /\ worker[k].job = d /\ row[d].state = "leased" /\ row[d].owner = k
  /\ worker'[k].pc \notin Leasing
  /\ \A e \in Decisions : e # d => SameRow(e)
  /\ row'[d].owner = NoOwner
  /\ \/ worker[k].pc = "verifying" /\ row'[d].state = "permanent_failure"
     \/ worker[k].pc = "answered" /\ row'[d].state = "uncertain"
     \/ /\ worker[k].pc = "answered" /\ worker[k].answer \in {"retry", "permanent"}
        /\ row'[d].state \in {"permanent_failure", "retry_wait"}
     \/ /\ worker[k].pc = "answered" /\ worker[k].answer = "attached"
        /\ row'[d].state = "attached"

Submits(k, d) ==
  /\ Others(k) /\ worker[k].job = d /\ row[d].state = "leased" /\ row[d].owner = k
  /\ worker[k].pc = "verified" /\ worker'[k].pc = "uploading" /\ worker'[k].job = d
  /\ \A e \in Decisions : e # d => SameRow(e)
  /\ row'[d].state = "leased" /\ row'[d].owner = k /\ row'[d].submitted

Abandons(k) ==
  /\ Others(k) /\ worker'[k].pc = "down"
  /\ \A d \in Decisions :
       /\ row'[d].state = row[d].state /\ row'[d].submitted = row[d].submitted
       /\ row'[d].owner = IF row[d].owner = k THEN NoOwner ELSE row[d].owner

\* A worker goes where it goes, and only that worker does.
LEMMA GoesTo ==
  ASSUME TypeInv, NEW k \in Workers, NEW to, Goes(k, to)
  PROVE  worker'[k] = to /\ Others(k)
BY DEF TypeInv, Goes, Others

\* A worker without a lease takes none up, and the others have theirs.
LEMMA RolesKept ==
  ASSUME TypeInv, NEW k \in Workers, NEW to, Goes(k, to),
         worker[k].pc \notin Leasing, to.pc \notin Leasing
  PROVE  \A m \in Workers : KeepsRole(m)
BY GoesTo DEF Others, KeepsRole, Leasing, Uploading

\* The same of one that has one.
LEMMA LeaserKept ==
  ASSUME TypeInv, NEW k \in Workers, NEW to, Goes(k, to), to.job = worker[k].job,
         \/ worker[k].pc = "verifying" /\ to.pc = "verified"
         \/ worker[k].pc \in Uploading /\ to.pc \in Uploading
  PROVE  \A m \in Workers : KeepsRole(m)
BY GoesTo DEF Others, KeepsRole, Leasing, Uploading

\* Where a worker is after each of its steps.
LEMMA Targets ==
  ASSUME TypeInv, NEW k \in Workers
  PROVE  /\ \A pc \in {"idle", "down", "reading", "claiming"} : [Idle EXCEPT !.pc = pc].pc = pc
         /\ \A x : [Idle EXCEPT !.pc = "listing", !.aged = x].pc = "listing"
         /\ \A x : [Idle EXCEPT !.pc = "sweeping", !.orphans = x].pc = "sweeping"
         /\ \A x : [Idle EXCEPT !.pc = "cleaning", !.list = x].pc = "cleaning"
         /\ \A d : /\ [Idle EXCEPT !.pc = "verifying", !.job = d].pc = "verifying"
                   /\ [Idle EXCEPT !.pc = "verifying", !.job = d].job = d
         /\ \A d : /\ [worker[k] EXCEPT !.orphans = @ \ {d}].pc = worker[k].pc
                   /\ [worker[k] EXCEPT !.unlinked = d].pc = worker[k].pc
         /\ \A x, y : [worker[k] EXCEPT !.unlinked = x, !.list = y].pc = worker[k].pc
         /\ \A pc : /\ [worker[k] EXCEPT !.pc = pc].pc = pc
                    /\ [worker[k] EXCEPT !.pc = pc].job = worker[k].job
                    /\ [worker[k] EXCEPT !.pc = pc, !.beats = TRUE].pc = pc
                    /\ [worker[k] EXCEPT !.pc = pc, !.beats = TRUE].job = worker[k].job
         /\ \A x : /\ [worker[k] EXCEPT !.pc = "answered", !.answer = x].pc = "answered"
                   /\ [worker[k] EXCEPT !.pc = "answered", !.answer = x].answer = x
                   /\ [worker[k] EXCEPT !.pc = "answered", !.answer = x].job = worker[k].job
         /\ /\ [worker[k] EXCEPT !.beats = FALSE].pc = worker[k].pc
            /\ [worker[k] EXCEPT !.beats = FALSE].job = worker[k].job
            /\ [worker[k] EXCEPT !.beats = FALSE].answer = worker[k].answer
<1> worker[k] \in Working
  BY DEF TypeInv
<1> QED BY DEF Working, Idle

\* Ending the lease of its job is what a worker's result does.
LEMMA EndsJob ==
  ASSUME TypeInv, NEW k \in Workers, NEW state \in JobStates, NEW to, Goes(k, to),
         worker[k].pc \in {"verifying", "answered"}, HoldsLease(k), to.pc \notin Leasing,
         NEW q \in JobRow, row' = [row EXCEPT ![worker[k].job] = q],
         q.state = state, q.owner = NoOwner,
         \/ worker[k].pc = "verifying" /\ state = "permanent_failure"
         \/ worker[k].pc = "answered" /\ state = "uncertain"
         \/ /\ worker[k].pc = "answered" /\ worker[k].answer \in {"retry", "permanent"}
            /\ state \in {"permanent_failure", "retry_wait"}
         \/ /\ worker[k].pc = "answered" /\ worker[k].answer = "attached"
            /\ state = "attached"
  PROVE  \E d \in Decisions : Ends(k, d)
<1> DEFINE d == worker[k].job
<1>1. d \in Decisions /\ row \in [Decisions -> JobRow]
  BY DEF TypeInv, Placed, WithJob
<1>2. row[d].state = "leased" /\ row[d].owner = k
  BY DEF HoldsLease
<1>3. row'[d] = q /\ \A e \in Decisions : e # d => SameRow(e)
  BY <1>1 DEF SameRow
<1>4. worker'[k].pc \notin Leasing /\ Others(k)
  BY GoesTo
<1>5. Ends(k, d)
  BY <1>2, <1>3, <1>4 DEF Ends
<1> QED BY <1>1, <1>5

\* What recovering leases does.
LEMMA RecoverEffect ==
  ASSUME TypeInv, NEW k \in Workers, Recover(k) PROVE Recovers
<1>1. \A m \in Workers : KeepsRole(m)
  BY Targets, RolesKept DEF Recover, Does, Leasing
<1>2. row' = [d \in Decisions |-> Recovered(Refreshed(d))] /\ row \in [Decisions -> JobRow]
  BY DEF Recover, TypeInv
<1>3. \A d \in Decisions : Prepared(row[d], Recovered(Refreshed(d)), outcome[d])
  BY <1>2, PreparedRow
<1> QED BY <1>1, <1>2, <1>3 DEF Recovers

\* What a claim does, with and without a job that is due.
LEMMA ClaimEffect ==
  ASSUME TypeInv, NEW k \in Workers, Claim(k)
  PROVE  Recovers \/ \E d \in Decisions : Claims(k, d)
<1> DEFINE ready == [d \in Decisions |-> Swept(Recovered(Refreshed(d)))]
<1>1. /\ \A d \in Decisions : ready[d] \in JobRow /\ Prepared(row[d], ready[d], outcome[d])
      /\ ready \in [Decisions -> JobRow]
  <2>1. \A d \in Decisions : row[d] \in JobRow
    BY DEF TypeInv
  <2> QED BY <2>1, PreparedRow DEF Prepared
<1>2. worker[k].pc \notin Leasing
  BY DEF Claim, Does, Leasing
<1>3. \/ row' = ready /\ Goes(k, Idle)
      \/ \E d \in Decisions :
           /\ Due(d, ready[d]) /\ row' = [ready EXCEPT ![d] = LeasedBy(k, ready[d])]
           /\ Goes(k, [Idle EXCEPT !.pc = "verifying", !.job = d])
  BY DEF Claim
<1> HIDE DEF ready
<1>4. CASE row' = ready /\ Goes(k, Idle)
  <2>1. \A m \in Workers : KeepsRole(m)
    BY <1>2, <1>4, WorkingRecords, RolesKept DEF Leasing
  <2> QED BY <1>1, <1>4, <2>1 DEF Recovers
<1>5. ASSUME NEW d \in Decisions, Due(d, ready[d]), row' = [ready EXCEPT ![d] = LeasedBy(k, ready[d])],
             Goes(k, [Idle EXCEPT !.pc = "verifying", !.job = d])
      PROVE  Claims(k, d)
  <2>1. Others(k) /\ worker'[k].pc = "verifying" /\ worker'[k].job = d
    <3> DEFINE to == [Idle EXCEPT !.pc = "verifying", !.job = d]
    <3>1. to.pc = "verifying" /\ to.job = d
      BY Targets
    <3> HIDE DEF to
    <3>2. Goes(k, to)
      BY <1>5 DEF to
    <3> QED BY <3>1, <3>2, GoesTo
  <2>2. \A e \in Decisions : e # d => Prepared(row[e], row'[e], outcome[e])
    BY <1>1, <1>5
  <2>3. ready[d] \in JobRow /\ row'[d] = LeasedBy(k, ready[d])
    BY <1>1, <1>5
  <2>4. row'[d].state = "leased" /\ row'[d].owner = k
    BY <2>3 DEF LeasedBy, JobRow
  <2>5. ~row'[d].submitted
    BY <2>3 DEF LeasedBy, JobRow
  <2> QED BY <1>1, <1>2, <1>5, <2>1, <2>2, <2>3, <2>4, <2>5 DEF Claims, Due
<1> QED BY <1>3, <1>4, <1>5

\* Every step of a worker is one of these.
LEMMA WorkerEffects ==
  ASSUME TypeInv, NEW k \in Workers,
         Recovering(k) \/ Processing(k) \/ Beat(k) \/ BeatFails(k) \/ WorkerCrash(k)
  PROVE  \/ Quiet \/ Recovers \/ Abandons(k)
         \/ \E d \in Decisions : Claims(k, d) \/ Ends(k, d) \/ Submits(k, d)
<1> USE DEF Does, remote, spool
<1>0. row \in [Decisions -> JobRow] /\ worker[k] \in Working
  BY DEF TypeInv
<1>1. row' = row => \A d \in Decisions : SameRow(d)
  BY DEF SameRow
<1>2. ASSUME NEW d, NEW source, row' = Sourced(d, source)
      PROVE  \A e \in Decisions : SameRow(e)
  BY <1>0, <1>2 DEF Sourced, SameRow, JobRow
<1>3. Done(k) => \E to : Goes(k, to) /\ to.pc \notin Leasing
  BY Targets DEF Done, Leasing
<1>4. CASE Restart(k) \/ ListReferenced(k) \/ Sweeps(k) \/ ReadSettled(k) \/ Cleans(k)
  <2>1. worker[k].pc \notin Leasing /\ row' = row
    BY <1>4 DEF Restart, ListReferenced, Sweeps, ReadSettled, Cleans, Leasing
  <2>2. \E to : Goes(k, to) /\ to.pc \notin Leasing
    BY <1>4, Targets, WorkingRecords
       DEF Restart, ListReferenced, Sweeps, ReadSettled, Cleans, Leasing
  <2>3. \A m \in Workers : KeepsRole(m)
    BY <2>1, <2>2, RolesKept
  <2> QED BY <1>1, <2>1, <2>3 DEF Quiet
<1>5. CASE \E d \in Decisions : Sweep(k, d) \/ Unlink(k, d)
  <2>1. worker[k].pc \notin Leasing /\ row' = row
    BY <1>5 DEF Sweep, Unlink, Leasing
  <2>2. \E to : Goes(k, to) /\ to.pc = worker[k].pc
    <3>1. \E d \in Decisions : \/ Goes(k, [worker[k] EXCEPT !.orphans = @ \ {d}])
                              \/ Goes(k, [worker[k] EXCEPT !.unlinked = d])
      BY <1>5 DEF Sweep, Unlink
    <3>2. \A d : /\ [worker[k] EXCEPT !.orphans = @ \ {d}].pc = worker[k].pc
                 /\ [worker[k] EXCEPT !.unlinked = d].pc = worker[k].pc
      BY Targets
    <3> QED BY <3>1, <3>2
  <2>3. \A m \in Workers : KeepsRole(m)
    BY <2>1, <2>2, RolesKept
  <2> QED BY <1>1, <2>1, <2>3 DEF Quiet
<1>6. CASE MarkDeleted(k) \/ MarkMissing(k) \/ MarkCopyDeleted(k)
  <2>1. worker[k].pc \notin Leasing /\ \E d, source : row' = Sourced(d, source)
    BY <1>6 DEF MarkDeleted, MarkMissing, MarkCopyDeleted, Leasing
  <2>2. \E to : Goes(k, to) /\ to.pc \notin Leasing
    <3>1. CASE MarkDeleted(k)
      <4>1. Goes(k, [worker[k] EXCEPT !.unlinked = NoDecision, !.list = @ \ {worker[k].unlinked}])
        BY <3>1 DEF MarkDeleted
      <4>2. [worker[k] EXCEPT !.unlinked = NoDecision,
                              !.list = @ \ {worker[k].unlinked}].pc = worker[k].pc
        BY <1>0 DEF Working
      <4> QED BY <2>1, <4>1, <4>2
    <3> QED BY <1>3, <1>6, <3>1 DEF MarkMissing, MarkCopyDeleted
  <2>3. \A m \in Workers : KeepsRole(m)
    BY <2>1, <2>2, RolesKept
  <2> QED BY <1>2, <2>1, <2>3 DEF Quiet
<1>7. CASE DiscardCopy(k)
  <2>1. worker[k].pc \notin Leasing /\ row' = row
        /\ \E to : Goes(k, to) /\ to.pc \notin Leasing
    <3>1. Goes(k, [worker[k] EXCEPT !.pc = "unlinked"]) /\ worker[k].pc = "attached" /\ row' = row
      BY <1>7 DEF DiscardCopy
    <3>2. [worker[k] EXCEPT !.pc = "unlinked"].pc = "unlinked"
      BY Targets
    <3> QED BY <3>1, <3>2 DEF Leasing
  <2>2. \A m \in Workers : KeepsRole(m)
    BY <2>1, RolesKept
  <2> QED BY <1>1, <2>1, <2>2 DEF Quiet
<1>8. CASE Verify(k) \/ Upload(k) \/ NotUploaded(k) \/ Answer(k) \/ BeatFails(k)
  <2>1. row' = row
    BY <1>8 DEF Verify, Upload, NotUploaded, Answer, BeatFails
  <2>2. \E to : /\ Goes(k, to) /\ to.job = worker[k].job
                /\ \/ worker[k].pc = "verifying" /\ to.pc = "verified"
                   \/ worker[k].pc \in Uploading /\ to.pc \in Uploading
    <3>1. CASE Verify(k)
      <4>1. Goes(k, [worker[k] EXCEPT !.pc = "verified"]) /\ worker[k].pc = "verifying"
        BY <3>1 DEF Verify
      <4>2. /\ [worker[k] EXCEPT !.pc = "verified"].pc = "verified"
            /\ [worker[k] EXCEPT !.pc = "verified"].job = worker[k].job
        BY Targets
      <4> QED BY <4>1, <4>2
    <3>2. CASE Upload(k)
      <4>1. Goes(k, [worker[k] EXCEPT !.pc = "sent"]) /\ worker[k].pc = "uploading"
        BY <3>2 DEF Upload
      <4>2. /\ [worker[k] EXCEPT !.pc = "sent"].pc = "sent"
            /\ [worker[k] EXCEPT !.pc = "sent"].job = worker[k].job
        BY Targets
      <4> QED BY <4>1, <4>2 DEF Uploading
    <3>3. CASE NotUploaded(k) \/ Answer(k)
      <4>1. /\ worker[k].pc \in Uploading
            /\ \E answer : Goes(k, [worker[k] EXCEPT !.pc = "answered", !.answer = answer])
        BY <3>3 DEF NotUploaded, Answer, Answered, Uploading
      <4>2. \A answer :
              /\ [worker[k] EXCEPT !.pc = "answered", !.answer = answer].pc = "answered"
              /\ [worker[k] EXCEPT !.pc = "answered", !.answer = answer].job = worker[k].job
        BY Targets
      <4> QED BY <4>1, <4>2 DEF Uploading
    <3>4. CASE BeatFails(k)
      <4>1. Goes(k, [worker[k] EXCEPT !.beats = FALSE]) /\ worker[k].pc \in Uploading
        BY <3>4 DEF BeatFails, Uploading
      <4>2. /\ [worker[k] EXCEPT !.beats = FALSE].pc = worker[k].pc
            /\ [worker[k] EXCEPT !.beats = FALSE].job = worker[k].job
        BY Targets
      <4> QED BY <4>1, <4>2
    <3> QED BY <1>8, <3>1, <3>2, <3>3, <3>4
  <2>3. \A m \in Workers : KeepsRole(m)
    BY <2>2, LeaserKept
  <2> QED BY <1>1, <2>1, <2>3 DEF Quiet
<1>9. CASE Beat(k)
  <2>1. /\ row' = [row EXCEPT ![worker[k].job].lease = LeaseTicks] /\ worker' = worker
        /\ worker[k].job \in Decisions
    BY <1>9 DEF Beat, TypeInv, Placed, WithJob
  <2>2. \A d \in Decisions : SameRow(d)
    BY <1>0, <2>1 DEF SameRow, JobRow
  <2> QED BY <2>1, <2>2 DEF Quiet, KeepsRole
<1>10. CASE VerifyFails(k)
  <2> DEFINE d == worker[k].job
             state == "permanent_failure"
  <2>1. d \in Decisions /\ row[d] \in JobRow /\ state \in JobStates /\ worker[k].pc = "verifying"
    BY <1>0, <1>10, RowStates DEF VerifyFails, TypeInv, Placed, WithJob
  <2>2. /\ Ended(row[d], state) \in JobRow /\ Ended(row[d], state).state = state
        /\ Ended(row[d], state).owner = NoOwner
    BY <2>1, EndedType
  <2>3. \E to : Goes(k, to) /\ to.pc \notin Leasing
    <3>1. Goes(k, [worker[k] EXCEPT !.pc = "rejected"])
      BY <1>10 DEF VerifyFails
    <3>2. [worker[k] EXCEPT !.pc = "rejected"].pc = "rejected"
      BY Targets
    <3> QED BY <3>1, <3>2 DEF Leasing
  <2>4. HoldsLease(k) /\ row' = [row EXCEPT ![d] = Ended(row[d], state)]
    BY <1>10, <2>1 DEF VerifyFails
  <2> DEFINE q == Ended(row[d], state)
  <2> HIDE DEF q
  <2>5. q \in JobRow /\ q.state = state /\ q.owner = NoOwner /\ row' = [row EXCEPT ![d] = q]
    BY <2>2, <2>4 DEF q
  <2> QED BY <2>1, <2>3, <2>4, <2>5, EndsJob, RowStates
<1>11. CASE RecordAttached(k)
  <2> DEFINE d == worker[k].job
             state == "attached"
  <2>1. d \in Decisions /\ row[d] \in JobRow /\ state \in JobStates /\ worker[k].pc = "answered"
        /\ worker[k].answer = "attached"
    BY <1>0, <1>11, RowStates DEF RecordAttached, TypeInv, Placed, WithJob, Verdict
  <2>2. /\ Ended(row[d], state) \in JobRow /\ Ended(row[d], state).state = state
        /\ Ended(row[d], state).owner = NoOwner
    BY <2>1, EndedType
  <2>3. \E to : Goes(k, to) /\ to.pc \notin Leasing
    <3>1. Goes(k, [worker[k] EXCEPT !.pc = "attached"]) \/ Done(k)
      BY <1>11 DEF RecordAttached
    <3>2. [worker[k] EXCEPT !.pc = "attached"].pc = "attached"
      BY Targets
    <3> QED BY <1>3, <3>1, <3>2 DEF Leasing
  <2>4. HoldsLease(k) /\ row' = [row EXCEPT ![d] = Ended(row[d], state)]
    BY <1>11, <2>1 DEF RecordAttached
  <2> DEFINE q == Ended(row[d], state)
  <2> HIDE DEF q
  <2>5. q \in JobRow /\ q.state = state /\ q.owner = NoOwner /\ row' = [row EXCEPT ![d] = q]
    BY <2>2, <2>4 DEF q
  <2> QED BY <2>1, <2>3, <2>4, <2>5, EndsJob, RowStates
<1>12. CASE RecordFailure(k)
  <2> DEFINE d == worker[k].job
             r == row[d]
  <2>1. d \in Decisions /\ r \in JobRow /\ worker[k].pc = "answered" /\ HoldsLease(k)
    BY <1>0, <1>12 DEF RecordFailure, TypeInv, Placed, WithJob
  <2>2. \E to : Goes(k, to) /\ to.pc \notin Leasing
    BY <1>3, <1>12 DEF RecordFailure
  <2>3. \E q \in JobRow :
          /\ row' = [row EXCEPT ![d] = q] /\ q.owner = NoOwner /\ q.state \in JobStates
          /\ \/ q.state = "uncertain"
             \/ /\ worker[k].answer \in {"retry", "permanent"}
                /\ q.state \in {"permanent_failure", "retry_wait"}
    <3>1. CASE \E wait \in 0..DelayTicks : row' = [row EXCEPT ![d] = Retried(r, wait)]
                                         /\ Verdict(k) = "retry"
      <4>1. worker[k].answer \in {"retry", "permanent"}
        BY <3>1 DEF Verdict
      <4> QED BY <2>1, <3>1, <4>1, RetriedType, RowStates
    <3>2. CASE \E state \in {"uncertain", "permanent_failure"} :
                 /\ row' = [row EXCEPT ![d] = Ended(r, state)]
                 /\ state = "uncertain" \/ worker[k].answer \in {"retry", "permanent"}
      <4>1. PICK state \in {"uncertain", "permanent_failure"} :
               /\ row' = [row EXCEPT ![d] = Ended(r, state)]
               /\ state = "uncertain" \/ worker[k].answer \in {"retry", "permanent"}
        BY <3>2
      <4>2. state \in JobStates
        BY <4>1, RowStates
      <4> HIDE DEF r
      <4>3. /\ Ended(r, state) \in JobRow /\ Ended(r, state).state = state
            /\ Ended(r, state).owner = NoOwner
        BY <2>1, <4>2, EndedType
      <4> QED BY <4>1, <4>2, <4>3
    <3>3. \/ \E wait \in 0..DelayTicks : row' = [row EXCEPT ![d] = Retried(r, wait)]
                                         /\ Verdict(k) = "retry"
          \/ row' = [row EXCEPT ![d] = Ended(r, "uncertain")]
          \/ row' = [row EXCEPT ![d] = Ended(r, "permanent_failure")] /\ Verdict(k) = "permanent"
      BY <1>12 DEF RecordFailure
    <3> QED BY <3>1, <3>2, <3>3 DEF Verdict
  <2> QED BY <2>1, <2>2, <2>3, EndsJob
<1>13. CASE StartUpload(k)
  <2> DEFINE d == worker[k].job
  <2>1. d \in Decisions /\ row[d].state = "leased" /\ row[d].owner = k /\ worker[k].pc = "verified"
    BY <1>13 DEF StartUpload, TypeInv, Placed, WithJob, HoldsLease
  <2>2. row' = [row EXCEPT ![d] = [row[d] EXCEPT !.submitted = TRUE]]
    BY <1>0, <1>13, <2>1 DEF StartUpload
  <2>3. \A e \in Decisions : e # d => SameRow(e)
    BY <1>0, <2>1, <2>2 DEF SameRow
  <2>4. row'[d].state = "leased" /\ row'[d].owner = k
    BY <1>0, <2>1, <2>2 DEF JobRow
  <2>5. row'[d].submitted
    <3>1. [row[d] EXCEPT !.submitted = TRUE].submitted
      BY <1>0, <2>1 DEF JobRow
    <3>2. row'[d] = [row[d] EXCEPT !.submitted = TRUE]
      BY <1>0, <2>1, <2>2
    <3> QED BY <3>1, <3>2
  <2>6. Others(k) /\ worker'[k].pc = "uploading" /\ worker'[k].job = d
    <3> DEFINE to == [worker[k] EXCEPT !.pc = "uploading", !.beats = TRUE]
    <3>1. Goes(k, to)
      BY <1>13 DEF StartUpload
    <3>2. to.pc = "uploading" /\ to.job = d
      BY Targets
    <3> HIDE DEF to, d
    <3> QED BY <3>1, <3>2, GoesTo
  <2> HIDE DEF d
  <2>7. d = worker[k].job
    BY DEF d
  <2>8. Submits(k, d)
    BY <2>1, <2>3, <2>4, <2>5, <2>6, <2>7 DEF Submits
  <2> QED BY <2>1, <2>8
<1>14. CASE LeaseLost(k) \/ WorkerCrash(k)
  <2>1. row' = Abandoned(k) /\ Others(k) /\ worker'[k].pc = "down"
    <3> DEFINE to == [Idle EXCEPT !.pc = "down"]
    <3>1. row' = Abandoned(k) /\ Goes(k, to)
      BY <1>14 DEF LeaseLost, WorkerCrash
    <3>2. to.pc = "down"
      BY Targets
    <3> HIDE DEF to
    <3> QED BY <3>1, <3>2, GoesTo
  <2>2. ASSUME NEW d \in Decisions
        PROVE  /\ row'[d].state = row[d].state /\ row'[d].submitted = row[d].submitted
               /\ row'[d].owner = IF row[d].owner = k THEN NoOwner ELSE row[d].owner
    BY <1>0, <2>1 DEF Abandoned, JobRow
  <2> QED BY <2>1, <2>2 DEF Abandons
<1> QED BY <1>4, <1>5, <1>6, <1>7, <1>8, <1>9, <1>10, <1>11, <1>12, <1>13, <1>14,
           RecoverEffect, ClaimEffect DEF Recovering, Processing

\* What a decision's persisting does.
Records(w, d) ==
  /\ watcher[w].pc = "persisting" /\ watcher[w].decision = d /\ watcher' = [watcher EXCEPT ![w] = Resting]
  /\ \A e \in Decisions : e # d => row'[e] = row[e]
  /\ outcome' = [outcome EXCEPT ![d] = "queued"]
  /\ row'[d] = Inserted(watcher[w].media)

\* Recording a decision is just that: one row appears, for a decision that is
\* queued from now on.
LEMMA PersistEffect ==
  ASSUME TypeInv, NEW w \in Watchers, Persist(w)
  PROVE  \E d \in Decisions : Records(w, d)
<1> DEFINE d == watcher[w].decision
<1>1. d \in Decisions /\ watcher[w].pc = "persisting"
  BY DEF Persist, Watches, TypeInv, Placed
<1>2. /\ row' = [row EXCEPT ![d] = Inserted(watcher[w].media)]
      /\ outcome' = [outcome EXCEPT ![d] = "queued"] /\ watcher' = [watcher EXCEPT ![w] = Resting]
  BY DEF Persist
<1>3. row \in [Decisions -> JobRow]
  BY DEF TypeInv
<1>4. Records(w, d)
  BY <1>1, <1>2, <1>3 DEF Records
<1> QED BY <1>1, <1>4

\* What a recorded row says of itself.
LEMMA InsertedRow ==
  ASSUME NEW media \in BOOLEAN
  PROVE  /\ Inserted(media).owner = NoOwner /\ ~Inserted(media).submitted
         /\ Inserted(media).state = IF media THEN "waiting_for_checkin" ELSE "permanent_failure"
         /\ media => Inserted(media).source = "available"
BY DEF Inserted, NoRow

\* Watchers otherwise, ERPNext, the delivery and time leave leases alone.
LEMMA OthersQuiet ==
  ASSUME TypeInv,
         \/ \E w \in Watchers : \/ CheckSpool(w) \/ SpoolCrop(w) \/ PersistFails(w) \/ WatcherCrash(w)
                                \/ \E d \in Decisions : Admit(w, d)
         \/ \E d \in Decisions : ParentSettles(d) \/ Serve(d) \/ Refuse(d)
         \/ Tick
  PROVE  Quiet
<1>0. row \in [Decisions -> JobRow]
  BY DEF TypeInv
<1>1. CASE Tick
  <2>1. worker' = worker /\ row' = [d \in Decisions |->
                                     [row[d] EXCEPT !.lease = Less(@), !.wait = Less(@)]]
    BY <1>1 DEF Tick
  <2>2. \A d \in Decisions : SameRow(d)
    BY <1>0, <2>1 DEF SameRow, JobRow
  <2> QED BY <2>1, <2>2 DEF Quiet, KeepsRole
<1>2. CASE ~Tick
  <2>1. row' = row /\ worker' = worker
    BY <1>2 DEF CheckSpool, SpoolCrop, PersistFails, WatcherCrash, Admit, ParentSettles, Serve, Refuse
  <2> QED BY <2>1 DEF Quiet, KeepsRole, SameRow
<1> QED BY <1>1, <1>2

-----------------------------------------------------------------------------
(* Which rows there are. *)

\* A decision a watcher has in hand is not recorded yet, and is nobody else's.
Unrecorded ==
  /\ \A w \in Watchers : watcher[w].decision \in Decisions =>
       row[watcher[w].decision].state = "none" /\ watcher[w].decision \in tried
  /\ \A v, w \in Watchers :
       v # w /\ watcher[v].decision \in Decisions => watcher[v].decision # watcher[w].decision
  /\ \A w \in Watchers : watcher[w].media => watcher[w].pc = "persisting"

\* Recorded decisions have been tried, and have a delivery.
Recorded ==
  \A d \in Decisions :
    /\ row[d].state # "none" => d \in tried
    /\ outcome[d] = "none" <=> row[d].state = "none"

RecordInv == Unrecorded /\ Recorded

\* No decision is recorded at first.
LEMMA RecordInit == Init => RecordInv
BY AttachmentAssumption DEF Init, RecordInv, Unrecorded, Recorded, NoRow, Resting

\* No worker records a decision, or unrecords one.
LEMMA WorkerLeavesRecords ==
  ASSUME TypeInv, RecordInv, NEW k \in Workers,
         Recovering(k) \/ Processing(k) \/ Beat(k) \/ BeatFails(k) \/ WorkerCrash(k)
  PROVE  RecordInv'
<1> USE DEF remote, spool
<1>1. ASSUME NEW d \in Decisions PROVE row'[d].state = "none" <=> row[d].state = "none"
  <2>1. \A r, q, result : Prepared(r, q, result) => (r.state = "none" <=> q.state = "none")
    BY DEF Prepared, Claimables
  <2>2. \A e \in Decisions : Claims(k, e) => (row'[d].state = "none" <=> row[d].state = "none")
    BY <2>1 DEF Claims, Claimables
  <2>3. \A e \in Decisions : Ends(k, e) \/ Submits(k, e) => (row'[d].state = "none" <=> row[d].state = "none")
    BY DEF Ends, Submits, SameRow
  <2> QED BY <2>1, <2>2, <2>3, WorkerEffects DEF Quiet, SameRow, Recovers, Abandons
<1>2. UNCHANGED <<outcome, tried, watcher>>
  <2>1. CASE Recovering(k)
    BY <2>1 DEF Recovering, Restart, Recover, ListReferenced, Sweeps, ReadSettled, MarkDeleted,
                Cleans, Sweep, Unlink
  <2>2. CASE Processing(k)
    BY <2>2 DEF Processing, Claim, Verify, VerifyFails, MarkMissing, StartUpload, Upload,
                NotUploaded, Answer, RecordFailure, RecordAttached, DiscardCopy, MarkCopyDeleted,
                LeaseLost, Happens
  <2>3. CASE Beat(k) \/ BeatFails(k) \/ WorkerCrash(k)
    BY <2>3 DEF Beat, BeatFails, WorkerCrash
  <2> QED BY <2>1, <2>2, <2>3
<1> QED BY <1>1, <1>2 DEF RecordInv, Unrecorded, Recorded

\* Neither does any other step but Persist.
LEMMA RecordStep == TypeInv /\ RecordInv /\ [Next]_vars => RecordInv'
<1> SUFFICES ASSUME TypeInv, RecordInv, [Next]_vars PROVE RecordInv'
  OBVIOUS
<1> USE DEF remote, spool, Watches
<1>0. watcher \in [Watchers -> Watching] /\ Resting.decision \notin Decisions /\ ~Resting.media
  BY WorkingRecords DEF TypeInv, Resting
<1>1. ASSUME NEW w \in Watchers, NEW d \in Decisions, Records(w, d), tried' = tried PROVE RecordInv'
  <2>1. \A v \in Watchers : v # w => watcher'[v] = watcher[v]
    BY <1>1 DEF Records
  <2>2. watcher'[w] = Resting
    BY <1>0, <1>1 DEF Records
  <2>3. row[d].state = "none" /\ d \in tried /\ watcher[w].media \in BOOLEAN
    BY <1>0, <1>1 DEF Records, RecordInv, Unrecorded, Watching
  <2>4. row'[d].state # "none" /\ outcome'[d] # "none"
    BY <1>1, <2>3, InsertedRow DEF Records, TypeInv
  <2>5. \A e \in Decisions : e # d => row'[e] = row[e] /\ outcome'[e] = outcome[e]
    BY <1>1 DEF Records, TypeInv
  <2>6. Unrecorded'
    BY <1>0, <1>1, <2>1, <2>2, <2>3, <2>5 DEF Records, RecordInv, Unrecorded
  <2>7. Recorded'
    BY <1>1, <2>3, <2>4, <2>5 DEF RecordInv, Recorded
  <2> QED BY <2>6, <2>7 DEF RecordInv
<1>2. ASSUME NEW w \in Watchers, watcher' = [watcher EXCEPT ![w] = Resting],
             UNCHANGED <<row, outcome, tried>>
      PROVE  RecordInv'
  BY <1>0, <1>2 DEF RecordInv, Unrecorded, Recorded
<1>3. ASSUME NEW w \in Watchers, NEW d \in Decisions, Admit(w, d) PROVE RecordInv'
  <2>1. PICK to : /\ watcher' = [watcher EXCEPT ![w] = to]
                  /\ to.decision \in Decisions => to.decision = d
                  /\ ~to.media
    <3>1. LET to == [Resting EXCEPT !.pc = "admitted", !.decision = d]
          IN  to.decision = d /\ ~to.media
      BY DEF Resting
    <3> QED BY <1>0, <1>3, <3>1 DEF Admit
  <2>2. d \notin tried /\ tried' = tried \cup {d} /\ UNCHANGED <<row, outcome>>
    BY <1>3 DEF Admit
  <2>3. row[d].state = "none"
    BY <2>2 DEF RecordInv, Recorded
  <2> QED BY <1>0, <2>1, <2>2, <2>3 DEF RecordInv, Unrecorded, Recorded
<1>4. ASSUME NEW w \in Watchers, NEW to, watcher' = [watcher EXCEPT ![w] = to],
             to.decision = watcher[w].decision, to.media => to.pc = "persisting",
             UNCHANGED <<row, outcome, tried>>
      PROVE  RecordInv'
  BY <1>0, <1>4 DEF RecordInv, Unrecorded, Recorded
<1>5. ASSUME NEW w \in Watchers, CheckSpool(w) \/ SpoolCrop(w) PROVE RecordInv'
  <2>1. \A pc : /\ [watcher[w] EXCEPT !.pc = pc].decision = watcher[w].decision
                /\ [watcher[w] EXCEPT !.pc = pc].media = watcher[w].media
                /\ [watcher[w] EXCEPT !.pc = pc].pc = pc
                /\ [watcher[w] EXCEPT !.pc = pc, !.media = TRUE].decision = watcher[w].decision
                /\ [watcher[w] EXCEPT !.pc = pc, !.media = TRUE].pc = pc
    BY <1>0 DEF Watching
  <2>2. ~watcher[w].media
    BY <1>5 DEF CheckSpool, SpoolCrop, RecordInv, Unrecorded
  <2>3. CASE CheckSpool(w)
    <3>1. \E pc : watcher' = [watcher EXCEPT ![w] = [watcher[w] EXCEPT !.pc = pc]]
      BY <1>0, <2>3 DEF CheckSpool
    <3> QED BY <1>4, <2>1, <2>2, <2>3, <3>1 DEF CheckSpool
  <2>4. CASE SpoolCrop(w)
    <3>1. \/ watcher' = [watcher EXCEPT ![w] = [watcher[w] EXCEPT !.pc = "persisting", !.media = TRUE]]
          \/ watcher' = [watcher EXCEPT ![w] = [watcher[w] EXCEPT !.pc = "persisting"]]
      BY <1>0, <2>4 DEF SpoolCrop
    <3>2. UNCHANGED <<row, outcome, tried>>
      BY <2>4 DEF SpoolCrop
    <3> QED BY <1>4, <2>1, <2>2, <3>1, <3>2
  <2> QED BY <1>5, <2>3, <2>4
<1>6. ASSUME NEW d \in Decisions, ParentSettles(d) PROVE RecordInv'
  BY <1>6 DEF ParentSettles, RecordInv, Unrecorded, Recorded, TypeInv
<1>7. ASSUME NEW d \in Decisions, Serve(d) \/ Refuse(d) PROVE RecordInv'
  BY <1>7 DEF Serve, Refuse, RecordInv, Unrecorded, Recorded
<1>8. CASE Tick
  <2>1. UNCHANGED <<outcome, tried, watcher>> /\ \A d \in Decisions : row'[d].state = row[d].state
    BY <1>8, OthersQuiet DEF Tick, Quiet, SameRow
  <2> QED BY <2>1 DEF RecordInv, Unrecorded, Recorded
<1>9. ASSUME NEW w \in Watchers, Persist(w) PROVE RecordInv'
  BY <1>1, <1>9, PersistEffect DEF Persist
<1>10. ASSUME NEW w \in Watchers, PersistFails(w) \/ WatcherCrash(w) PROVE RecordInv'
  BY <1>2, <1>10 DEF PersistFails, WatcherCrash
<1>11. CASE UNCHANGED vars
  BY <1>11 DEF vars, RecordInv, Unrecorded, Recorded
<1> QED
  BY <1>3, <1>5, <1>6, <1>7, <1>8, <1>9, <1>10, <1>11, WorkerLeavesRecords DEF Next, Watched

-----------------------------------------------------------------------------
(* Who holds a lease, and who uploads. *)

\* A lease is held by a worker that has the job in hand, and a submission is
\* that worker's.
LeasesOwned ==
  \A d \in Decisions :
    /\ row[d].state # "leased" => row[d].owner = NoOwner
    /\ row[d].owner # NoOwner =>
         /\ worker[row[d].owner].job = d /\ worker[row[d].owner].pc \in Leasing
         /\ worker[row[d].owner].pc \notin Uploading => ~row[d].submitted

\* While a worker uploads, its job is its own or in doubt, and is no one else's.
UploadsOwned ==
  /\ \A k \in Workers : worker[k].pc \in Uploading =>
       LET r == row[worker[k].job] IN
       r.state = "uncertain" \/ (r.state = "leased" /\ r.submitted /\ r.owner = k)
  /\ \A k, m \in Workers :
       k # m /\ worker[k].pc \in Uploading /\ worker[m].pc \in Uploading
       => worker[k].job # worker[m].job

HolderInv == LeasesOwned /\ UploadsOwned

\* No job is leased at first.
LEMMA HolderInit == Init => HolderInv
BY DEF Init, HolderInv, LeasesOwned, UploadsOwned, NoRow, Idle, Uploading

\* A step that is quiet about leases keeps them where they are.
LEMMA HolderQuiet ==
  ASSUME TypeInv, HolderInv, Quiet PROVE HolderInv'
<1>0. /\ \A k \in Workers : worker[k].pc \in Uploading => worker[k].pc \in Leasing /\ worker[k].job \in Decisions
      /\ \A d \in Decisions : row[d].owner # NoOwner => row[d].owner \in Workers
  BY DEF TypeInv, Placed, WithJob, Uploading, Leasing, JobRow
<1>1. LeasesOwned'
  BY <1>0 DEF HolderInv, LeasesOwned, Quiet, SameRow, KeepsRole
<1>2. UploadsOwned'
  <2>1. ASSUME NEW k \in Workers, worker'[k].pc \in Uploading
        PROVE  worker[k].pc \in Uploading /\ worker'[k].job = worker[k].job /\ worker[k].job \in Decisions
    BY <1>0, <2>1 DEF Quiet, KeepsRole
  <2> QED BY <2>1 DEF HolderInv, UploadsOwned, Quiet, SameRow
<1> QED BY <1>1, <1>2 DEF HolderInv

\* Recovery takes a lease from its owner, and makes a submission uncertain.
LEMMA HolderRecovers ==
  ASSUME TypeInv, TypeInv', HolderInv, Recovers PROVE HolderInv'
<1>0. /\ \A k \in Workers : worker[k].pc \in Uploading => worker[k].pc \in Leasing /\ worker[k].job \in Decisions
      /\ \A d \in Decisions : row[d].owner # NoOwner => row[d].owner \in Workers
      /\ \A d \in Decisions : row[d].submitted \in BOOLEAN /\ row'[d].submitted \in BOOLEAN
  BY DEF TypeInv, Placed, WithJob, Uploading, Leasing, JobRow
<1>1. ASSUME NEW d \in Decisions
      PROVE  /\ row'[d].state # "leased" => row'[d].owner = NoOwner
             /\ row'[d].owner # NoOwner => row'[d].owner = row[d].owner /\ row'[d].submitted = row[d].submitted
             /\ row[d].state = "uncertain" => row'[d].state = "uncertain"
             /\ row[d].state = "leased" /\ row[d].submitted =>
                  \/ row'[d].state = "uncertain"
                  \/ row'[d].state = "leased" /\ row'[d].submitted /\ row'[d].owner = row[d].owner
  <2>1. Prepared(row[d], row'[d], outcome[d])
    BY DEF Recovers
  <2>2. row[d].state # "leased" => row[d].owner = NoOwner
    BY DEF HolderInv, LeasesOwned
  <2> QED BY <1>0, <2>1, <2>2 DEF Prepared, Claimables
<1>2. LeasesOwned'
  BY <1>0, <1>1 DEF HolderInv, LeasesOwned, Recovers, KeepsRole
<1>3. UploadsOwned'
  <2>1. ASSUME NEW k \in Workers, worker'[k].pc \in Uploading
        PROVE  worker[k].pc \in Uploading /\ worker'[k].job = worker[k].job /\ worker[k].job \in Decisions
    BY <1>0, <2>1 DEF Recovers, KeepsRole
  <2> QED BY <1>1, <2>1 DEF HolderInv, UploadsOwned
<1> QED BY <1>2, <1>3 DEF HolderInv

\* A claim makes its worker the owner of a lease, of a job nobody uploads.
LEMMA HolderClaims ==
  ASSUME TypeInv, TypeInv', HolderInv, NEW k \in Workers, NEW d \in Decisions, Claims(k, d)
  PROVE  HolderInv'
<1>0. /\ \A m \in Workers : worker[m].pc \in Uploading => worker[m].pc \in Leasing /\ worker[m].job \in Decisions
      /\ \A e \in Decisions : row[e].owner # NoOwner => row[e].owner \in Workers
      /\ \A e \in Decisions : row[e].submitted \in BOOLEAN /\ row'[e].submitted \in BOOLEAN
      /\ NoOwner \notin Workers
  BY AttachmentAssumption DEF TypeInv, Placed, WithJob, Uploading, Leasing, JobRow
<1>1. ASSUME NEW e \in Decisions, e # d
      PROVE  /\ row'[e].state # "leased" => row'[e].owner = NoOwner
             /\ row'[e].owner # NoOwner => row'[e].owner = row[e].owner /\ row'[e].submitted = row[e].submitted
             /\ row[e].state = "uncertain" => row'[e].state = "uncertain"
             /\ row[e].state = "leased" /\ row[e].submitted =>
                  \/ row'[e].state = "uncertain"
                  \/ row'[e].state = "leased" /\ row'[e].submitted /\ row'[e].owner = row[e].owner
  <2>1. Prepared(row[e], row'[e], outcome[e])
    BY <1>1 DEF Claims
  <2>2. row[e].state # "leased" => row[e].owner = NoOwner
    BY DEF HolderInv, LeasesOwned
  <2> QED BY <1>0, <2>1, <2>2 DEF Prepared, Claimables
<1>2. row[d].state # "uncertain" /\ ~(row[d].state = "leased" /\ row[d].submitted)
  <2>1. PICK q \in JobRow : Prepared(row[d], q, outcome[d]) /\ q.state \in Claimables
    BY DEF Claims
  <2> QED BY <2>1 DEF Prepared, Claimables
<1>3. \A e \in Decisions : row[e].owner # k
  BY <1>0 DEF Claims, HolderInv, LeasesOwned
<1>4. LeasesOwned'
  BY <1>0, <1>1, <1>3 DEF HolderInv, LeasesOwned, Claims, Others, Leasing, Uploading
<1>5. UploadsOwned'
  <2>1. ASSUME NEW m \in Workers, worker'[m].pc \in Uploading
        PROVE  /\ m # k /\ worker'[m] = worker[m] /\ worker[m].pc \in Uploading
               /\ worker[m].job \in Decisions /\ worker[m].job # d
    <3>1. m # k /\ worker'[m] = worker[m] /\ worker[m].pc \in Uploading
      BY <2>1 DEF Claims, Others, Uploading
    <3> QED BY <1>0, <1>2, <3>1 DEF HolderInv, UploadsOwned
  <2> QED BY <1>1, <2>1 DEF HolderInv, UploadsOwned
<1> QED BY <1>4, <1>5 DEF HolderInv

\* A result ends its worker's lease, and its upload.
LEMMA HolderEnds ==
  ASSUME TypeInv, HolderInv, NEW k \in Workers, NEW d \in Decisions, Ends(k, d)
  PROVE  HolderInv'
<1>0. /\ \A m \in Workers : worker[m].pc \in Uploading => worker[m].pc \in Leasing /\ worker[m].job \in Decisions
      /\ \A e \in Decisions : row[e].owner # NoOwner => row[e].owner \in Workers
  BY DEF TypeInv, Placed, WithJob, Uploading, Leasing, JobRow
<1>1. \A e \in Decisions : e # d => row[e].owner # k
  <2>1. \A e \in Decisions : row[e].owner = k => worker[k].job = e
    <3>1. k # NoOwner
      BY AttachmentAssumption
    <3> QED BY <3>1 DEF HolderInv, LeasesOwned
  <2> QED BY <2>1 DEF Ends
<1>2. LeasesOwned'
  BY <1>0, <1>1 DEF HolderInv, LeasesOwned, Ends, Others, SameRow
<1>3. UploadsOwned'
  <2>1. ASSUME NEW m \in Workers, worker'[m].pc \in Uploading
        PROVE  /\ m # k /\ worker'[m] = worker[m] /\ worker[m].pc \in Uploading
               /\ worker[m].job \in Decisions /\ worker[m].job # d
    <3>1. m # k /\ worker'[m] = worker[m] /\ worker[m].pc \in Uploading
      BY <2>1 DEF Ends, Others, Uploading, Leasing
    <3>2. row[d].state = "leased" /\ row[d].owner = k
      BY DEF Ends
    <3> QED BY <1>0, <3>1, <3>2 DEF HolderInv, UploadsOwned
  <2> QED BY <2>1 DEF HolderInv, UploadsOwned, Ends, SameRow
<1> QED BY <1>2, <1>3 DEF HolderInv

\* A submission is its lease holder's, of a job nobody uploads.
LEMMA HolderSubmits ==
  ASSUME TypeInv, HolderInv, NEW k \in Workers, NEW d \in Decisions, Submits(k, d)
  PROVE  HolderInv'
<1>0. /\ \A m \in Workers : worker[m].pc \in Uploading => worker[m].pc \in Leasing /\ worker[m].job \in Decisions
      /\ \A e \in Decisions : row[e].owner # NoOwner => row[e].owner \in Workers
      /\ NoOwner \notin Workers
  BY AttachmentAssumption DEF TypeInv, Placed, WithJob, Uploading, Leasing, JobRow
<1>1. \A e \in Decisions : e # d => row[e].owner # k
  BY <1>0 DEF HolderInv, LeasesOwned, Submits
<1>2. LeasesOwned'
  BY <1>0, <1>1 DEF HolderInv, LeasesOwned, Submits, Others, SameRow, Leasing, Uploading
<1>3. \A m \in Workers : m # k /\ worker'[m].pc \in Uploading
        => /\ worker'[m] = worker[m] /\ worker[m].pc \in Uploading
           /\ worker[m].job \in Decisions /\ worker[m].job # d
  BY <1>0 DEF HolderInv, UploadsOwned, Submits, Others
<1>4. UploadsOwned'
  BY <1>3 DEF HolderInv, UploadsOwned, Submits, SameRow
<1> QED BY <1>2, <1>4 DEF HolderInv

\* A worker that goes down leaves its lease to nobody.
LEMMA HolderAbandons ==
  ASSUME TypeInv, HolderInv, NEW k \in Workers, Abandons(k) PROVE HolderInv'
<1>0. /\ \A m \in Workers : worker[m].pc \in Uploading => worker[m].pc \in Leasing /\ worker[m].job \in Decisions
      /\ \A e \in Decisions : row[e].owner # NoOwner => row[e].owner \in Workers
  BY DEF TypeInv, Placed, WithJob, Uploading, Leasing, JobRow
<1>1. LeasesOwned'
  BY <1>0 DEF HolderInv, LeasesOwned, Abandons, Others
<1>2. \A m \in Workers : worker'[m].pc \in Uploading
        => m # k /\ worker'[m] = worker[m] /\ worker[m].job \in Decisions
  BY <1>0 DEF Abandons, Others, Uploading
<1>3. UploadsOwned'
  BY <1>2 DEF HolderInv, UploadsOwned, Abandons
<1> QED BY <1>1, <1>3 DEF HolderInv

\* A decision that is recorded had no lease, and gets none.
LEMMA HolderRecords ==
  ASSUME TypeInv, RecordInv, HolderInv, NEW w \in Watchers, NEW d \in Decisions, Records(w, d),
         worker' = worker
  PROVE  HolderInv'
<1>1. row[d].state = "none" /\ watcher[w].media \in BOOLEAN
  BY DEF Records, RecordInv, Unrecorded, TypeInv, Watching
<1>2. row'[d].owner = NoOwner /\ \A e \in Decisions : e # d => row'[e] = row[e]
  BY <1>1, InsertedRow DEF Records
<1>3. \A k \in Workers : worker[k].pc \in Uploading => worker[k].job \in Decisions /\ worker[k].job # d
  BY <1>1 DEF HolderInv, UploadsOwned, TypeInv, Placed, Uploading, WithJob
<1> QED BY <1>2, <1>3 DEF HolderInv, LeasesOwned, UploadsOwned

\* Every step keeps leases and uploads with their owners.
LEMMA HolderStep == TypeInv /\ RecordInv /\ HolderInv /\ [Next]_vars => HolderInv'
<1> SUFFICES ASSUME TypeInv, RecordInv, HolderInv, [Next]_vars PROVE HolderInv'
  OBVIOUS
<1>0. TypeInv'
  BY TypeStep
<1>1. ASSUME NEW k \in Workers,
             Recovering(k) \/ Processing(k) \/ Beat(k) \/ BeatFails(k) \/ WorkerCrash(k)
      PROVE  HolderInv'
  BY <1>0, <1>1, WorkerEffects, HolderQuiet, HolderRecovers, HolderClaims, HolderEnds,
     HolderSubmits, HolderAbandons
<1>2. ASSUME NEW w \in Watchers, Persist(w) PROVE HolderInv'
  BY <1>2, PersistEffect, HolderRecords DEF Persist
<1>3. CASE UNCHANGED vars
  BY <1>3, HolderQuiet DEF vars, Quiet, SameRow, KeepsRole
<1> QED BY <1>1, <1>2, <1>3, OthersQuiet, HolderQuiet DEF Next, Watched

-----------------------------------------------------------------------------
(* What ERPNext was asked for, and what the rows say of it. *)

Unsent == {"none", "refused"}

\* A request that may have made a File is of a job whose row says so, and an
\* attached row has one File.
RequestsInDoubt ==
  \A d \in Decisions :
    /\ request[d] \notin Unsent =>
         \/ row[d].state \in {"uncertain", "attached"}
         \/ row[d].state = "leased" /\ row[d].submitted
    /\ row[d].state = "attached" => request[d] = "served"
    /\ files[d] = IF request[d] = "served" THEN 1 ELSE 0

\* What a worker believes of its request is so, or uncertain.
AnswersTrue ==
  \A k \in Workers :
    LET sent == request[worker[k].job] IN
    /\ worker[k].pc = "uploading" => sent \in Unsent
    /\ worker[k].pc = "answered" /\ worker[k].answer \in {"retry", "permanent"} => sent \in Unsent
    /\ worker[k].pc = "answered" /\ worker[k].answer = "attached" => sent = "served"

RequestInv == RequestsInDoubt /\ AnswersTrue

\* Nothing has been sent at first.
LEMMA RequestInit == Init => RequestInv
BY DEF Init, RequestInv, RequestsInDoubt, AnswersTrue, NoRow, Idle, Unsent

\* Every change of the rows keeps a request in doubt where it shows.
LEMMA DoubtKept ==
  ASSUME TypeInv, TypeInv', HolderInv, RequestInv, UNCHANGED remote,
         \/ Quiet \/ Recovers
         \/ \E k \in Workers : \/ Abandons(k)
                               \/ \E d \in Decisions : Claims(k, d) \/ Ends(k, d) \/ Submits(k, d)
  PROVE  RequestsInDoubt'
<1>0. \A d \in Decisions : row[d].submitted \in BOOLEAN /\ row'[d].submitted \in BOOLEAN
  BY DEF TypeInv, JobRow
<1>1. UNCHANGED <<request, files>>
  BY DEF remote
<1>2. ASSUME NEW d \in Decisions, Prepared(row[d], row'[d], outcome[d])
      PROVE  /\ row'[d].state = "attached" => row[d].state = "attached"
             /\ \/ row[d].state \in {"uncertain", "attached"}
                \/ row[d].state = "leased" /\ row[d].submitted
                => \/ row'[d].state \in {"uncertain", "attached"}
                   \/ row'[d].state = "leased" /\ row'[d].submitted
  BY <1>0, <1>2 DEF Prepared, Claimables
<1>3. CASE Quiet
  BY <1>1, <1>3 DEF RequestInv, RequestsInDoubt, Quiet, SameRow
<1>4. CASE Recovers
  BY <1>1, <1>2, <1>4 DEF RequestInv, RequestsInDoubt, Recovers
<1>5. ASSUME NEW k \in Workers, Abandons(k) PROVE RequestsInDoubt'
  BY <1>1, <1>5 DEF RequestInv, RequestsInDoubt, Abandons
<1>6. ASSUME NEW k \in Workers, NEW d \in Decisions, Claims(k, d) PROVE RequestsInDoubt'
  <2>1. request[d] \in Unsent
    <3>1. PICK q \in JobRow : Prepared(row[d], q, outcome[d]) /\ q.state \in Claimables
      BY <1>6 DEF Claims
    <3>2. row[d].state \notin {"uncertain", "attached"} /\ ~(row[d].state = "leased" /\ row[d].submitted)
      BY <3>1 DEF Prepared, Claimables
    <3> QED BY <3>2 DEF RequestInv, RequestsInDoubt
  <2> QED BY <1>1, <1>2, <1>6, <2>1 DEF RequestInv, RequestsInDoubt, Claims
<1>7. ASSUME NEW k \in Workers, NEW d \in Decisions, Ends(k, d) PROVE RequestsInDoubt'
  <2>1. worker[k].pc = "verifying" => request[d] \in Unsent
    <3>1. worker[k].pc = "verifying" => ~row[d].submitted
      <4>1. k # NoOwner /\ row[d].owner = k
        BY <1>7, AttachmentAssumption DEF Ends
      <4> QED BY <4>1 DEF HolderInv, LeasesOwned, Uploading
    <3> QED BY <1>7, <3>1 DEF Ends, RequestInv, RequestsInDoubt
  <2>2. worker[k].pc = "answered" =>
          /\ worker[k].answer \in {"retry", "permanent"} => request[d] \in Unsent
          /\ worker[k].answer = "attached" => request[d] = "served"
    BY <1>7 DEF Ends, RequestInv, AnswersTrue
  <2>3. \A e \in Decisions : e # d => SameRow(e)
    BY <1>7 DEF Ends
  <2>4. /\ row'[d].state \in {"permanent_failure", "uncertain", "retry_wait", "attached"}
        /\ row'[d].state = "attached" => request[d] = "served"
        /\ row'[d].state \in {"permanent_failure", "retry_wait"} => request[d] \in Unsent
    BY <1>7, <2>1, <2>2 DEF Ends
  <2> QED BY <1>1, <2>3, <2>4 DEF RequestInv, RequestsInDoubt, SameRow
<1>8. ASSUME NEW k \in Workers, NEW d \in Decisions, Submits(k, d) PROVE RequestsInDoubt'
  BY <1>1, <1>8 DEF RequestInv, RequestsInDoubt, Submits, SameRow
<1> QED BY <1>3, <1>4, <1>5, <1>6, <1>7, <1>8

\* The steps that leave requests alone.
LEMMA WorkerRequests ==
  ASSUME NEW k \in Workers,
         Recovering(k) \/ Processing(k) \/ Beat(k) \/ BeatFails(k) \/ WorkerCrash(k), ~Upload(k)
  PROVE  UNCHANGED remote
<1>1. CASE Recovering(k)
  BY <1>1 DEF Recovering, Restart, Recover, ListReferenced, Sweeps, ReadSettled, MarkDeleted,
              Cleans, Sweep, Unlink
<1>2. CASE Processing(k)
  BY <1>2 DEF Processing, Claim, Verify, VerifyFails, MarkMissing, StartUpload,
              NotUploaded, Answer, RecordFailure, RecordAttached, DiscardCopy, MarkCopyDeleted,
              LeaseLost
<1>3. CASE Beat(k) \/ BeatFails(k) \/ WorkerCrash(k)
  BY <1>3 DEF Beat, BeatFails, WorkerCrash
<1> QED BY <1>1, <1>2, <1>3

\* A worker's steps keep what it believes of its request true.
LEMMA AnswersKept ==
  ASSUME TypeInv, HolderInv, RequestInv, NEW k \in Workers,
         Recovering(k) \/ Processing(k) \/ Beat(k) \/ BeatFails(k) \/ WorkerCrash(k), ~Upload(k)
  PROVE  AnswersTrue'
<1> USE DEF Does
<1>1. request' = request
  BY WorkerRequests DEF remote
<1>2. ASSUME Others(k), \/ worker'[k].pc \notin Uploading
                        \/ worker'[k].pc = "sent"
                        \/ worker'[k].pc = "uploading" /\ request[worker'[k].job] \in Unsent
                        \/ /\ worker'[k].pc = "answered"
                           /\ worker'[k].answer \in {"retry", "permanent"}
                                => request[worker'[k].job] \in Unsent
                           /\ worker'[k].answer = "attached" => request[worker'[k].job] = "served"
      PROVE  AnswersTrue'
  BY <1>1, <1>2 DEF RequestInv, AnswersTrue, Others, Uploading
<1>3. CASE Beat(k)
  BY <1>1, <1>3 DEF Beat, RequestInv, AnswersTrue
<1>4. CASE BeatFails(k)
  <2> DEFINE to == [worker[k] EXCEPT !.beats = FALSE]
  <2>1. Goes(k, to) /\ worker[k].pc \in {"uploading", "sent"}
    BY <1>4 DEF BeatFails
  <2>2. to.pc = worker[k].pc /\ to.job = worker[k].job
    BY Targets
  <2> HIDE DEF to
  <2>3. worker'[k] = to /\ Others(k)
    BY <2>1, GoesTo
  <2> QED BY <1>2, <2>1, <2>2, <2>3 DEF RequestInv, AnswersTrue
<1>5. CASE StartUpload(k)
  <2> DEFINE to == [worker[k] EXCEPT !.pc = "uploading", !.beats = TRUE]
  <2>1. /\ Goes(k, to) /\ worker[k].pc = "verified" /\ HoldsLease(k) /\ worker[k].job \in Decisions
    BY <1>5 DEF StartUpload, TypeInv, Placed, WithJob
  <2>2. to.pc = "uploading" /\ to.job = worker[k].job
    BY Targets
  <2> HIDE DEF to
  <2>3. worker'[k] = to /\ Others(k)
    BY <2>1, GoesTo
  <2>4. row[worker[k].job].state = "leased" /\ ~row[worker[k].job].submitted
    <3>1. k # NoOwner
      BY AttachmentAssumption
    <3> QED BY <2>1, <3>1 DEF HoldsLease, HolderInv, LeasesOwned, Uploading
  <2>5. request[worker[k].job] \in Unsent
    BY <2>1, <2>4 DEF RequestInv, RequestsInDoubt
  <2> QED BY <1>2, <2>2, <2>3, <2>5
<1>6. CASE NotUploaded(k) \/ Answer(k)
  <2>1. PICK answer :
          /\ Goes(k, [worker[k] EXCEPT !.pc = "answered", !.answer = answer])
          /\ answer \in {"retry", "permanent"} => request[worker[k].job] \in Unsent
          /\ answer = "attached" => request[worker[k].job] = "served"
    <3>1. CASE NotUploaded(k)
      <4>1. request[worker[k].job] \in Unsent
        BY <3>1 DEF NotUploaded, RequestInv, AnswersTrue
      <4>2. \E answer \in {"retry", "permanent"} : Answered(k, answer)
        BY <3>1 DEF NotUploaded
      <4> QED BY <4>1, <4>2 DEF Answered
    <3>2. CASE Answer(k)
      <4>1. request[worker[k].job] \in {"sent", "served", "refused"}
        BY <3>2 DEF Answer, TypeInv, Placed, WithJob
      <4>2. \A answer \in AnswersTo(request[worker[k].job]) :
              /\ answer \in {"retry", "permanent"} => request[worker[k].job] \in Unsent
              /\ answer = "attached" => request[worker[k].job] = "served"
        BY <4>1 DEF AnswersTo, Unsent
      <4> QED BY <3>2, <4>2 DEF Answer, Answered
    <3> QED BY <1>6, <3>1, <3>2
  <2> DEFINE to == [worker[k] EXCEPT !.pc = "answered", !.answer = answer]
  <2>2. to.pc = "answered" /\ to.answer = answer /\ to.job = worker[k].job
    BY Targets
  <2>3. Goes(k, to)
    BY <2>1
  <2> HIDE DEF to
  <2>4. worker'[k] = to /\ Others(k)
    BY <2>3, GoesTo
  <2> QED BY <1>2, <2>1, <2>2, <2>4
<1>7. CASE ~(Beat(k) \/ BeatFails(k) \/ StartUpload(k) \/ NotUploaded(k) \/ Answer(k))
  <2>1. PICK to : Goes(k, to) /\ to.pc \notin Uploading
    BY <1>7, Elsewhere
  <2>2. worker'[k] = to /\ Others(k)
    BY <2>1, GoesTo
  <2> QED BY <1>2, <2>1, <2>2
<1> QED BY <1>3, <1>4, <1>5, <1>6, <1>7

\* Every step keeps rows, requests and Files in agreement.
LEMMA RequestStep == TypeInv /\ RecordInv /\ HolderInv /\ RequestInv /\ [Next]_vars => RequestInv'
<1> SUFFICES ASSUME TypeInv, RecordInv, HolderInv, RequestInv, [Next]_vars PROVE RequestInv'
  OBVIOUS
<1>0. TypeInv'
  BY TypeStep
<1>1. ASSUME NEW k \in Workers, ~Upload(k),
             Recovering(k) \/ Processing(k) \/ Beat(k) \/ BeatFails(k) \/ WorkerCrash(k)
      PROVE  RequestInv'
  <2>1. UNCHANGED remote
    BY <1>1, WorkerRequests
  <2>2. RequestsInDoubt'
    BY <1>0, <1>1, <2>1, WorkerEffects, DoubtKept
  <2> QED BY <1>1, <2>2, AnswersKept DEF RequestInv
<1>2. ASSUME NEW k \in Workers, Upload(k) PROVE RequestInv'
  <2> DEFINE d == worker[k].job
             to == [worker[k] EXCEPT !.pc = "sent"]
  <2>1. /\ d \in Decisions /\ worker[k].pc = "uploading" /\ Goes(k, to)
        /\ request' = [request EXCEPT ![d] = "sent"] /\ UNCHANGED <<row, files>>
    BY <1>2 DEF Upload, Does, TypeInv, Placed, WithJob
  <2>2. to.pc = "sent"
    BY Targets
  <2> HIDE DEF to
  <2>3. worker'[k] = to /\ Others(k)
    BY <2>1, GoesTo
  <2>4. /\ row[d].state = "uncertain" \/ (row[d].state = "leased" /\ row[d].submitted)
        /\ request[d] \in Unsent
    BY <2>1 DEF HolderInv, UploadsOwned, RequestInv, AnswersTrue, Uploading
  <2>5. RequestsInDoubt'
    BY <2>1, <2>4 DEF RequestInv, RequestsInDoubt, TypeInv, Unsent
  <2>6. \A m \in Workers : m # k /\ worker[m].pc \in Uploading => worker[m].job # d
    BY <2>1 DEF HolderInv, UploadsOwned, Uploading
  <2>7. \A m \in Workers : m # k /\ worker[m].pc \in Uploading => request'[worker[m].job] = request[worker[m].job]
    BY <2>1, <2>6 DEF TypeInv
  <2>8. AnswersTrue'
    BY <2>2, <2>3, <2>7 DEF RequestInv, AnswersTrue, Others, Uploading
  <2> QED BY <2>5, <2>8 DEF RequestInv
<1>3. ASSUME NEW w \in Watchers, Persist(w) PROVE RequestInv'
  <2>1. PICK d \in Decisions : Records(w, d)
    BY <1>3, PersistEffect
  <2>2. UNCHANGED <<request, files, worker>>
    BY <1>3 DEF Persist, remote
  <2>3. row[d].state = "none" /\ watcher[w].media \in BOOLEAN
    BY <2>1 DEF Records, RecordInv, Unrecorded, TypeInv, Watching
  <2>4. request[d] \in Unsent /\ row'[d].state # "attached"
    BY <2>1, <2>3, InsertedRow DEF Records, RequestInv, RequestsInDoubt
  <2> QED BY <2>1, <2>2, <2>4 DEF Records, RequestInv, RequestsInDoubt, AnswersTrue
<1>4. ASSUME NEW d \in Decisions, Serve(d) \/ Refuse(d) PROVE RequestInv'
  <2>1. /\ request[d] = "sent" /\ UNCHANGED <<row, worker>>
        /\ \/ /\ request' = [request EXCEPT ![d] = "served"]
              /\ files' = [files EXCEPT ![d] = files[d] + 1]
           \/ request' = [request EXCEPT ![d] = "refused"] /\ files' = files
    BY <1>4 DEF Serve, Refuse
  <2>2. /\ \A e \in Decisions : e # d => request'[e] = request[e] /\ files'[e] = files[e]
        /\ files[d] = 0
        /\ \/ request'[d] = "served" /\ files'[d] = 1
           \/ request'[d] = "refused" /\ files'[d] = 0
    BY <2>1 DEF RequestInv, RequestsInDoubt, TypeInv
  <2>3. RequestsInDoubt'
    BY <2>1, <2>2 DEF RequestInv, RequestsInDoubt, Unsent
  <2>4. AnswersTrue'
    <3>1. \A k \in Workers : worker[k].pc \in Uploading => worker[k].job \in Decisions
      BY DEF TypeInv, Placed, Uploading, WithJob
    <3> QED BY <2>1, <2>2, <3>1 DEF RequestInv, AnswersTrue, Unsent, Uploading
  <2> QED BY <2>3, <2>4 DEF RequestInv
<1>5. ASSUME Quiet, UNCHANGED <<request, files, worker>> PROVE RequestInv'
  BY <1>5 DEF RequestInv, RequestsInDoubt, AnswersTrue, Quiet, SameRow
<1>6. CASE \/ \E w \in Watchers : \/ CheckSpool(w) \/ SpoolCrop(w) \/ PersistFails(w) \/ WatcherCrash(w)
                                  \/ \E d \in Decisions : Admit(w, d)
           \/ \E d \in Decisions : ParentSettles(d)
           \/ Tick
  <2>1. UNCHANGED <<request, files, worker>>
    BY <1>6 DEF CheckSpool, SpoolCrop, PersistFails, WatcherCrash, Admit, ParentSettles, Tick, remote
  <2> QED BY <1>5, <1>6, <2>1, OthersQuiet
<1>7. CASE UNCHANGED vars
  BY <1>5, <1>7 DEF vars, remote, Quiet, SameRow, KeepsRole
<1> QED BY <1>1, <1>2, <1>3, <1>4, <1>6, <1>7 DEF Next, Watched

-----------------------------------------------------------------------------
(* An upload comes after its check-in. *)

ParentInv ==
  \A d \in Decisions :
    \/ row[d].state \in {"pending", "leased", "retry_wait", "uncertain", "attached"}
    \/ request[d] # "none"
    => outcome[d] = "delivered"

\* No job exists at first.
LEMMA ParentInit == Init => ParentInv
BY DEF Init, ParentInv, NoRow

\* No step gets ahead of the check-in.
LEMMA ParentStep == TypeInv /\ RecordInv /\ HolderInv /\ ParentInv /\ [Next]_vars => ParentInv'
<1> SUFFICES ASSUME TypeInv, RecordInv, HolderInv, ParentInv, [Next]_vars PROVE ParentInv'
  OBVIOUS
<1> DEFINE After(state) == state \in {"pending", "leased", "retry_wait", "uncertain", "attached"}
<1>1. ASSUME outcome' = outcome,
             \A d \in Decisions : After(row'[d].state) => After(row[d].state) \/ outcome[d] = "delivered",
             \A d \in Decisions : request'[d] # "none" => request[d] # "none" \/ outcome[d] = "delivered"
      PROVE  ParentInv'
  BY <1>1 DEF ParentInv
<1>2. ASSUME NEW k \in Workers,
             Recovering(k) \/ Processing(k) \/ Beat(k) \/ BeatFails(k) \/ WorkerCrash(k)
      PROVE  ParentInv'
  <2>1. outcome' = outcome
    <3>1. CASE Recovering(k)
      BY <3>1 DEF Recovering, Restart, Recover, ListReferenced, Sweeps, ReadSettled, MarkDeleted,
                  Cleans, Sweep, Unlink
    <3>2. CASE Processing(k)
      BY <3>2 DEF Processing, Claim, Verify, VerifyFails, MarkMissing, StartUpload, Upload,
                  NotUploaded, Answer, RecordFailure, RecordAttached, DiscardCopy, MarkCopyDeleted,
                  LeaseLost
    <3>3. CASE Beat(k) \/ BeatFails(k) \/ WorkerCrash(k)
      BY <3>3 DEF Beat, BeatFails, WorkerCrash
    <3> QED BY <1>2, <3>1, <3>2, <3>3
  <2>2. ASSUME NEW d \in Decisions, After(row'[d].state)
        PROVE  After(row[d].state) \/ outcome[d] = "delivered"
    <3>1. ASSUME Prepared(row[d], row'[d], outcome[d])
          PROVE  After(row[d].state) \/ outcome[d] = "delivered"
      BY <2>2, <3>1 DEF Prepared, Claimables
    <3>2. ASSUME NEW e \in Decisions, Claims(k, e)
          PROVE  After(row[d].state) \/ outcome[d] = "delivered"
      BY <3>1, <3>2 DEF Claims
    <3>3. ASSUME NEW e \in Decisions, Ends(k, e) \/ Submits(k, e)
          PROVE  After(row[d].state) \/ outcome[d] = "delivered"
      BY <2>2, <3>3 DEF Ends, Submits, SameRow
    <3>4. CASE Quiet \/ Recovers \/ Abandons(k)
      BY <2>2, <3>1, <3>4 DEF Quiet, SameRow, Recovers, Abandons
    <3> QED BY <1>2, <3>2, <3>3, <3>4, WorkerEffects
  <2>3. ASSUME NEW d \in Decisions, request'[d] # "none"
        PROVE  request[d] # "none" \/ outcome[d] = "delivered"
    <3>1. CASE Upload(k)
      <4>1. row[worker[k].job].state \in {"uncertain", "leased"} /\ worker[k].job \in Decisions
        BY <3>1 DEF Upload, Does, HolderInv, UploadsOwned, Uploading, TypeInv, Placed, WithJob
      <4>2. request' = [request EXCEPT ![worker[k].job] = "sent"]
        BY <3>1 DEF Upload
      <4> QED BY <2>3, <4>1, <4>2 DEF ParentInv, TypeInv
    <3>2. CASE ~Upload(k)
      BY <1>2, <2>3, <3>2, WorkerRequests DEF remote
    <3> QED BY <3>1, <3>2
  <2> QED BY <1>1, <2>1, <2>2, <2>3
<1>3. ASSUME NEW w \in Watchers, Persist(w) PROVE ParentInv'
  <2>1. PICK d \in Decisions : Records(w, d)
    BY <1>3, PersistEffect
  <2>2. request' = request
    BY <1>3 DEF Persist, remote
  <2>3. row[d].state = "none" /\ watcher[w].media \in BOOLEAN /\ outcome[d] = "none"
    BY <2>1 DEF Records, RecordInv, Unrecorded, Recorded, TypeInv, Watching
  <2>4. request[d] = "none" /\ ~After(row'[d].state)
    BY <2>1, <2>3, InsertedRow DEF Records, ParentInv
  <2> QED BY <2>1, <2>2, <2>4 DEF Records, ParentInv, TypeInv
<1>4. ASSUME NEW d \in Decisions, ParentSettles(d) PROVE ParentInv'
  BY <1>4 DEF ParentSettles, ParentInv, TypeInv, remote
<1>5. ASSUME NEW d \in Decisions, Serve(d) \/ Refuse(d) PROVE ParentInv'
  BY <1>5 DEF Serve, Refuse, ParentInv, TypeInv
<1>6. CASE Tick \/ \E w \in Watchers : \/ CheckSpool(w) \/ SpoolCrop(w) \/ PersistFails(w)
                                       \/ WatcherCrash(w) \/ \E d \in Decisions : Admit(w, d)
  <2>1. UNCHANGED <<request, outcome>>
    BY <1>6 DEF CheckSpool, SpoolCrop, PersistFails, WatcherCrash, Admit, Tick, remote
  <2>2. Quiet
    BY <1>6, OthersQuiet
  <2> QED BY <2>1, <2>2 DEF ParentInv, Quiet, SameRow
<1>7. CASE UNCHANGED vars
  BY <1>7 DEF vars, remote, ParentInv
<1> QED BY <1>2, <1>3, <1>4, <1>5, <1>6, <1>7 DEF Next, Watched

-----------------------------------------------------------------------------
(* What holds of the attachments, whatever crashes, stalls or times out. *)

Attachments == TypeInv /\ RecordInv /\ HolderInv /\ RequestInv /\ ParentInv

\* The invariant the three theorems follow from.
LEMMA AttachmentsInductive == Spec => []Attachments
<1>1. Init => Attachments
  BY TypeInit, RecordInit, HolderInit, RequestInit, ParentInit DEF Attachments
<1>2. Attachments /\ [Next]_vars => Attachments'
  BY TypeStep, RecordStep, HolderStep, RequestStep, ParentStep DEF Attachments
<1> QED BY <1>1, <1>2, PTL DEF Spec

\* Every variable has its type: in particular a row's attempts never exceed the
\* budget, its lease and its wait never their longest.
THEOREM AttachmentTypeCorrect == Spec => []TypeOK
<1>1. Attachments => TypeOK
  <2>1. ASSUME Attachments PROVE files \in [Decisions -> 0..MaxAttempts]
    <3>1. files \in [Decisions -> Nat] /\ \A d \in Decisions : files[d] \in {0, 1}
      BY <2>1 DEF Attachments, TypeInv, RequestInv, RequestsInDoubt
    <3> QED BY <3>1, AttachmentAssumption
  <2> QED BY <2>1 DEF Attachments, TypeInv, TypeOK
<1> QED BY <1>1, AttachmentsInductive, PTL

\* ERPNext makes a File of every upload it accepts, and no decision gets two:
\* whatever worker crashes, loses its lease, times out or retries, a request that
\* may have been served is never sent again.
THEOREM CropsUploadedOnce == Spec => []UploadedOnce
<1>1. Attachments => UploadedOnce
  BY DEF Attachments, RequestInv, RequestsInDoubt, UploadedOnce
<1> QED BY <1>1, AttachmentsInductive, PTL

\* The attachment_jobs rows agree with ERPNext: an attached crop has its File, a
\* job that failed or was cancelled has none, and a File follows its check-in.
THEOREM RowsAgreeWithErpnext == Spec => []RowsAgree
<1>1. Attachments => RowsAgree
  BY DEF Attachments, RequestInv, RequestsInDoubt, ParentInv, RowsAgree, Unsent, TypeInv
<1> QED BY <1>1, AttachmentsInductive, PTL

-----------------------------------------------------------------------------
(* The spool, as long as no watcher stalls for the grace period. *)

\* No watcher has the decision in hand, and none ever will.
Gone(d) == d \in tried /\ \A w \in Watchers : watcher[w].decision # d

\* Crops of unfinished jobs are there and referred to, and those that are not
\* recorded yet are too young to be orphans.
Crops ==
  /\ spooled \subseteq tried
  /\ \A d \in Decisions : Unfinished(d) => d \in spooled /\ row[d].source = "available"
  /\ \A w \in Watchers : watcher[w].decision \in spooled => age[watcher[w].decision] < GraceTicks
  /\ \A w \in Watchers : watcher[w].media => watcher[w].decision \in spooled

Over(d) == row[d].state \in Settled

\* What a worker is about to remove is an orphan for good, or of a job that is
\* over.
CleanRecord(r) ==
  /\ \A d \in r.aged : Gone(d)
  /\ \A d \in r.orphans : Gone(d) /\ ~Unfinished(d)
  /\ \A d \in r.list : Over(d)
  /\ r.unlinked # NoDecision => Over(r.unlinked)
  /\ r.pc \in {"rejected", "attached", "unlinked"} => Over(r.job)

Cleanups == \A k \in Workers : CleanRecord(worker[k])

SpoolInv == Crops /\ Cleanups

\* The spool is empty at first.
LEMMA SpoolInit == Init => SpoolInv
BY AttachmentAssumption
   DEF Init, SpoolInv, Crops, Cleanups, CleanRecord, Unfinished, Settled, NoRow, Idle, Resting

\* A job that is over stays over, and a worker's step makes none begin.
LEMMA WorkerKeepsOver ==
  ASSUME TypeInv, NEW k \in Workers, NEW d \in Decisions,
         Recovering(k) \/ Processing(k) \/ Beat(k) \/ BeatFails(k) \/ WorkerCrash(k)
  PROVE  /\ Over(d) => Over(d)'
         /\ Unfinished(d)' => Unfinished(d)
<1>1. ASSUME NEW q, Prepared(row[d], q, outcome[d])
      PROVE  /\ row[d].state \in Settled => q.state \in Settled
             /\ row[d].state = "none" => q.state = "none"
             /\ q.state \in Claimables => row[d].state \notin Settled \cup {"none"}
  BY <1>1 DEF Prepared, Claimables, Settled
<1>2. ASSUME NEW e \in Decisions, Claims(k, e)
      PROVE  (Over(d) => Over(d)') /\ (Unfinished(d)' => Unfinished(d))
  BY <1>1, <1>2 DEF Claims, Over, Unfinished
<1>3. ASSUME NEW e \in Decisions, Ends(k, e) \/ Submits(k, e)
      PROVE  (Over(d) => Over(d)') /\ (Unfinished(d)' => Unfinished(d))
  BY <1>3 DEF Ends, Submits, SameRow, Over, Unfinished, Settled
<1>4. CASE Quiet \/ Recovers \/ Abandons(k)
  BY <1>1, <1>4 DEF Quiet, SameRow, Recovers, Abandons, Over, Unfinished
<1> QED BY <1>2, <1>3, <1>4, WorkerEffects

\* What a worker leaves of the watchers and the spool.
LEMMA WorkerFrame ==
  ASSUME NEW k \in Workers,
         Recovering(k) \/ Processing(k) \/ Beat(k) \/ BeatFails(k) \/ WorkerCrash(k)
  PROVE  /\ UNCHANGED <<tried, watcher, age>>
         /\ \/ spooled' = spooled
            \/ \E d \in Decisions : (Sweep(k, d) \/ Unlink(k, d)) /\ spooled' = spooled \ {d}
            \/ DiscardCopy(k) /\ spooled' = spooled \ {worker[k].job}
<1> USE DEF spool
<1>1. CASE Recovering(k)
  BY <1>1 DEF Recovering, Restart, Recover, ListReferenced, Sweeps, ReadSettled, MarkDeleted,
              Cleans, Sweep, Unlink
<1>2. CASE Processing(k)
  BY <1>2 DEF Processing, Claim, Verify, VerifyFails, MarkMissing, StartUpload, Upload,
              NotUploaded, Answer, RecordFailure, RecordAttached, DiscardCopy, MarkCopyDeleted,
              LeaseLost
<1>3. CASE Beat(k) \/ BeatFails(k) \/ WorkerCrash(k)
  BY <1>3 DEF Beat, BeatFails, WorkerCrash
<1> QED BY <1>1, <1>2, <1>3

\* The source of a job changes only when its job is over.
LEMMA SourceKept ==
  ASSUME TypeInv, Cleanups, NEW k \in Workers, NEW d \in Decisions,
         Recovering(k) \/ Processing(k) \/ Beat(k) \/ BeatFails(k) \/ WorkerCrash(k),
         Unfinished(d)
  PROVE  row'[d].source = row[d].source
<1> USE DEF Does, spool, remote
<1>0. row \in [Decisions -> JobRow] /\ row[d] \in JobRow
  BY DEF TypeInv
<1>1. ASSUME NEW e, NEW source, row' = Sourced(e, source), Over(e)
      PROVE  row'[d].source = row[d].source
  BY <1>0, <1>1 DEF Sourced, Over, Unfinished
<1>2. CASE MarkDeleted(k)
  BY <1>1, <1>2 DEF MarkDeleted, Cleanups, CleanRecord
<1>3. CASE MarkMissing(k) \/ MarkCopyDeleted(k)
  BY <1>1, <1>3 DEF MarkMissing, MarkCopyDeleted, Cleanups, CleanRecord
<1>4. CASE Recover(k)
  BY <1>0, <1>4, PreparedRow DEF Recover, Prepared, SameJob
<1>5. CASE Claim(k)
  <2> DEFINE ready == [e \in Decisions |-> Swept(Recovered(Refreshed(e)))]
  <2>1. ready[d] \in JobRow /\ ready[d].source = row[d].source
    BY <1>0, PreparedRow DEF Prepared, SameJob
  <2>2. row' = ready \/ \E e \in Decisions : row' = [ready EXCEPT ![e] = LeasedBy(k, ready[e])]
    BY <1>5 DEF Claim
  <2>3. ready = [e \in Decisions |-> ready[e]]
    OBVIOUS
  <2> HIDE DEF ready
  <2>4. LeasedBy(k, ready[d]).source = ready[d].source
    BY <2>1 DEF LeasedBy, JobRow
  <2> QED BY <2>1, <2>2, <2>3, <2>4
<1>6. CASE VerifyFails(k) \/ RecordAttached(k) \/ RecordFailure(k)
  <2> DEFINE e == worker[k].job
  <2>1. e \in Decisions /\ row[e] \in JobRow
    BY <1>0, <1>6 DEF VerifyFails, RecordAttached, RecordFailure, TypeInv, Placed, WithJob
  <2>2. \/ \E state \in JobStates : row' = [row EXCEPT ![e] = Ended(row[e], state)]
        \/ \E wait \in 0..DelayTicks : row' = [row EXCEPT ![e] = Retried(row[e], wait)]
    BY <1>0, <1>6, <2>1, RowStates DEF VerifyFails, RecordAttached, RecordFailure
  <2>3. /\ \A state \in JobStates : Ended(row[e], state).source = row[e].source
        /\ \A wait \in 0..DelayTicks : Retried(row[e], wait).source = row[e].source
    BY <2>1, EndedType, RetriedType DEF SameJob
  <2> QED BY <1>0, <2>1, <2>2, <2>3
<1>7. CASE StartUpload(k) \/ Beat(k)
  BY <1>0, <1>7 DEF StartUpload, Beat, JobRow
<1>8. CASE LeaseLost(k) \/ WorkerCrash(k)
  BY <1>0, <1>8 DEF LeaseLost, WorkerCrash, Abandoned, JobRow
<1>9. CASE \/ Restart(k) \/ ListReferenced(k) \/ Sweeps(k) \/ ReadSettled(k) \/ Cleans(k)
           \/ \E e \in Decisions : Sweep(k, e) \/ Unlink(k, e)
           \/ Verify(k) \/ Upload(k) \/ NotUploaded(k) \/ Answer(k) \/ DiscardCopy(k) \/ BeatFails(k)
  BY <1>9 DEF Restart, ListReferenced, Sweeps, ReadSettled, Cleans, Sweep, Unlink, Verify,
              Upload, NotUploaded, Answer, DiscardCopy, BeatFails
<1> QED BY <1>2, <1>3, <1>4, <1>5, <1>6, <1>7, <1>8, <1>9 DEF Recovering, Processing

\* A worker's step keeps what it and the others are about to remove removable.
LEMMA CleanupsWorker ==
  ASSUME TypeInv, RecordInv, SpoolInv, NEW k \in Workers,
         Recovering(k) \/ Processing(k) \/ Beat(k) \/ BeatFails(k) \/ WorkerCrash(k)
  PROVE  Cleanups'
<1> USE DEF Does, spool
<1>0. worker[k] \in Working /\ CleanRecord(worker[k]) /\ NoDecision \notin Decisions
  BY AttachmentAssumption DEF TypeInv, SpoolInv, Cleanups
<1>1. /\ \A d \in Decisions : Over(d) => Over(d)'
      /\ \A d \in Decisions : Unfinished(d)' => Unfinished(d)
      /\ \A d \in Decisions : Gone(d) => Gone(d)'
  BY WorkerKeepsOver, WorkerFrame DEF Gone
<1>2. \A m \in Workers : worker'[m] = worker[m] => CleanRecord(worker[m])'
  <2> SUFFICES ASSUME NEW m \in Workers, worker'[m] = worker[m] PROVE CleanRecord(worker[m])'
    OBVIOUS
  <2>1. CleanRecord(worker[m]) /\ worker[m] \in Working
    BY DEF SpoolInv, Cleanups, TypeInv
  <2>2. /\ worker[m].aged \subseteq Decisions /\ worker[m].orphans \subseteq Decisions
        /\ worker[m].list \subseteq Decisions
        /\ worker[m].unlinked # NoDecision => worker[m].unlinked \in Decisions
        /\ worker[m].pc \in {"rejected", "attached", "unlinked"} => worker[m].job \in Decisions
    BY <2>1 DEF Working, TypeInv, Placed, WithJob
  <2> QED BY <1>1, <2>1, <2>2 DEF CleanRecord
<1>3. ASSUME NEW to, Goes(k, to),
             \A d \in to.aged : Gone(d),
             \A d \in to.orphans : Gone(d) /\ ~Unfinished(d),
             \A d \in to.list : Over(d),
             to.unlinked # NoDecision => Over(to.unlinked),
             to.pc \in {"rejected", "attached", "unlinked"} => Over(to.job)'
      PROVE  Cleanups'
  <2>1. worker'[k] = to /\ Others(k)
    BY <1>3, GoesTo
  <2>2. to \in Working
    BY <2>1, TypeWorker DEF TypeInv
  <2>3. /\ to.aged \subseteq Decisions /\ to.orphans \subseteq Decisions /\ to.list \subseteq Decisions
        /\ to.unlinked # NoDecision => to.unlinked \in Decisions
    BY <2>2 DEF Working
  <2>4. CleanRecord(worker[k])'
    BY <1>1, <1>3, <2>1, <2>3 DEF CleanRecord
  <2> QED BY <1>2, <2>1, <2>4 DEF Cleanups, Others
<1>4. ASSUME NEW to, Goes(k, to),
             to.aged = {}, to.orphans = {}, to.list = {}, to.unlinked = NoDecision,
             to.pc \notin {"rejected", "attached", "unlinked"}
      PROVE  Cleanups'
  BY <1>3, <1>4
<1>5. \A pc, d : LET r == [Idle EXCEPT !.pc = pc, !.job = d]
                     s == [Idle EXCEPT !.pc = pc]
                 IN  /\ r.aged = {} /\ r.orphans = {} /\ r.list = {} /\ r.unlinked = NoDecision /\ r.pc = pc
                     /\ s.aged = {} /\ s.orphans = {} /\ s.list = {} /\ s.unlinked = NoDecision /\ s.pc = pc
  BY DEF Idle
<1>6. Done(k) => Cleanups'
  BY <1>4, <1>5 DEF Done
<1>7. CASE Restart(k)
  <2>1. Goes(k, Idle)
    BY <1>7 DEF Restart
  <2> QED BY <1>4, <2>1 DEF Idle
<1>8. CASE Sweeps(k) \/ Cleans(k) \/ LeaseLost(k) \/ WorkerCrash(k)
  <2>1. \E pc \in {"reading", "claiming", "down"} : Goes(k, [Idle EXCEPT !.pc = pc])
    BY <1>8 DEF Sweeps, Cleans, LeaseLost, WorkerCrash
  <2> QED BY <1>4, <1>5, <2>1
<1>9. CASE Claim(k)
  <2> DEFINE ready == [d \in Decisions |-> Swept(Recovered(Refreshed(d)))]
  <2>1. \/ \E d \in Decisions : Goes(k, [Idle EXCEPT !.pc = "verifying", !.job = d])
        \/ Goes(k, Idle)
    BY <1>9 DEF Claim
  <2>2. CASE Goes(k, Idle)
    BY <1>4, <2>2 DEF Idle
  <2>3. ASSUME NEW d, Goes(k, [Idle EXCEPT !.pc = "verifying", !.job = d]) PROVE Cleanups'
    <3> DEFINE to == [Idle EXCEPT !.pc = "verifying", !.job = d]
    <3>1. /\ to.aged = {} /\ to.orphans = {} /\ to.list = {} /\ to.unlinked = NoDecision
          /\ to.pc = "verifying"
      BY DEF Idle
    <3>2. Goes(k, to)
      BY <2>3
    <3> HIDE DEF to
    <3> QED BY <1>4, <3>1, <3>2
  <2> QED BY <2>1, <2>2, <2>3
<1>10. CASE MarkMissing(k) \/ RecordFailure(k) \/ MarkCopyDeleted(k)
  BY <1>6, <1>10 DEF MarkMissing, RecordFailure, MarkCopyDeleted
<1>11. CASE Verify(k) \/ StartUpload(k) \/ Upload(k) \/ NotUploaded(k) \/ Answer(k) \/ BeatFails(k)
  <2>1. \E to : /\ Goes(k, to) /\ to.aged = worker[k].aged /\ to.orphans = worker[k].orphans
                /\ to.list = worker[k].list /\ to.unlinked = worker[k].unlinked
                /\ to.pc \notin {"rejected", "attached", "unlinked"}
    <3> DEFINE Same(to) == /\ to.aged = worker[k].aged /\ to.orphans = worker[k].orphans
                           /\ to.list = worker[k].list /\ to.unlinked = worker[k].unlinked
    <3>1. \A pc \in {"verified", "sent"} : Same([worker[k] EXCEPT !.pc = pc]) /\ [worker[k] EXCEPT !.pc = pc].pc = pc
      BY <1>0 DEF Working
    <3>2. LET to == [worker[k] EXCEPT !.pc = "uploading", !.beats = TRUE] IN Same(to) /\ to.pc = "uploading"
      BY <1>0 DEF Working
    <3>3. \A answer : LET to == [worker[k] EXCEPT !.pc = "answered", !.answer = answer]
                      IN  Same(to) /\ to.pc = "answered"
      BY <1>0 DEF Working
    <3>4. LET to == [worker[k] EXCEPT !.beats = FALSE] IN Same(to) /\ to.pc = worker[k].pc
      BY <1>0 DEF Working
    <3> HIDE DEF Same
    <3>5. \/ \E pc \in {"verified", "sent"} : Goes(k, [worker[k] EXCEPT !.pc = pc])
          \/ Goes(k, [worker[k] EXCEPT !.pc = "uploading", !.beats = TRUE])
          \/ \E answer : Goes(k, [worker[k] EXCEPT !.pc = "answered", !.answer = answer])
          \/ Goes(k, [worker[k] EXCEPT !.beats = FALSE]) /\ worker[k].pc \in {"uploading", "sent"}
      BY <1>11 DEF Verify, StartUpload, Upload, NotUploaded, Answer, Answered, BeatFails
    <3>6. \E to : Goes(k, to) /\ Same(to) /\ to.pc \notin {"rejected", "attached", "unlinked"}
      BY <3>1, <3>2, <3>3, <3>4, <3>5
    <3> QED BY <3>6 DEF Same
  <2> QED BY <1>0, <1>3, <2>1 DEF CleanRecord
<1>12. CASE Recover(k)
  <2> DEFINE to == [Idle EXCEPT !.pc = "listing", !.aged = {d \in spooled : age[d] = GraceTicks}]
  <2>1. /\ to.aged = {d \in spooled : age[d] = GraceTicks} /\ to.orphans = {} /\ to.list = {}
        /\ to.unlinked = NoDecision /\ to.pc = "listing"
    BY DEF Idle
  <2>2. Goes(k, to)
    BY <1>12 DEF Recover
  <2>3. ASSUME NEW d \in spooled, age[d] = GraceTicks PROVE Gone(d)
    <3>1. d \in tried
      BY <2>3 DEF SpoolInv, Crops
    <3>2. \A w \in Watchers : watcher[w].decision # d
      BY <2>3, AttachmentAssumption DEF SpoolInv, Crops
    <3> QED BY <3>1, <3>2 DEF Gone
  <2> HIDE DEF to
  <2> QED BY <1>3, <2>1, <2>2, <2>3
<1>13. CASE ListReferenced(k)
  <2> DEFINE to == [Idle EXCEPT !.pc = "sweeping", !.orphans = Orphans(k)]
  <2>1. /\ to.aged = {} /\ to.orphans = Orphans(k) /\ to.list = {}
        /\ to.unlinked = NoDecision /\ to.pc = "sweeping"
    BY DEF Idle
  <2>2. Goes(k, to)
    BY <1>13 DEF ListReferenced
  <2>3. \A d \in Orphans(k) : Gone(d) /\ ~Unfinished(d)
    <3>1. worker[k].aged \subseteq Decisions
      BY <1>0 DEF Working
    <3> QED BY <1>0, <3>1 DEF Orphans, CleanRecord, SpoolInv, Crops
  <2> HIDE DEF to
  <2> QED BY <1>3, <2>1, <2>2, <2>3
<1>14. CASE ReadSettled(k)
  <2> DEFINE to == [Idle EXCEPT !.pc = "cleaning", !.list = {d \in Decisions : Cleanable(row[d])}]
  <2>1. /\ to.aged = {} /\ to.orphans = {} /\ to.list = {d \in Decisions : Cleanable(row[d])}
        /\ to.unlinked = NoDecision /\ to.pc = "cleaning"
    BY DEF Idle
  <2>2. Goes(k, to)
    BY <1>14 DEF ReadSettled
  <2>3. \A d \in Decisions : Cleanable(row[d]) => Over(d)
    BY DEF Cleanable, Over, Settled
  <2> HIDE DEF to
  <2> QED BY <1>3, <2>1, <2>2, <2>3
<1>15. ASSUME NEW d \in Decisions, Sweep(k, d) \/ Unlink(k, d) PROVE Cleanups'
  <2>1. PICK to : /\ Goes(k, to) /\ to.aged = worker[k].aged /\ to.orphans \subseteq worker[k].orphans
                  /\ to.list = worker[k].list /\ to.unlinked \in {worker[k].unlinked} \cup worker[k].list
                  /\ to.pc = worker[k].pc /\ to.job = worker[k].job
    <3> DEFINE a == [worker[k] EXCEPT !.orphans = @ \ {d}]
               b == [worker[k] EXCEPT !.unlinked = d]
    <3>1. /\ a.aged = worker[k].aged /\ a.orphans \subseteq worker[k].orphans /\ a.list = worker[k].list
          /\ a.unlinked = worker[k].unlinked /\ a.pc = worker[k].pc /\ a.job = worker[k].job
      BY <1>0 DEF Working
    <3>2. /\ b.aged = worker[k].aged /\ b.orphans = worker[k].orphans /\ b.list = worker[k].list
          /\ b.unlinked = d /\ b.pc = worker[k].pc /\ b.job = worker[k].job
      BY <1>0 DEF Working
    <3>3. Goes(k, a) \/ (Goes(k, b) /\ d \in worker[k].list)
      BY <1>15 DEF Sweep, Unlink
    <3> HIDE DEF a, b
    <3> QED BY <3>1, <3>2, <3>3
  <2>2. worker[k].pc \in {"sweeping", "cleaning"}
    BY <1>15 DEF Sweep, Unlink
  <2> QED BY <1>0, <1>3, <2>1, <2>2 DEF CleanRecord
<1>16. CASE MarkDeleted(k)
  <2> DEFINE to == [worker[k] EXCEPT !.unlinked = NoDecision, !.list = @ \ {worker[k].unlinked}]
  <2>1. /\ to.aged = worker[k].aged /\ to.orphans = worker[k].orphans /\ to.list \subseteq worker[k].list
        /\ to.unlinked = NoDecision /\ to.pc = worker[k].pc
    BY <1>0 DEF Working
  <2>2. Goes(k, to) /\ worker[k].pc = "cleaning"
    BY <1>16 DEF MarkDeleted
  <2> HIDE DEF to
  <2> QED BY <1>0, <1>3, <2>1, <2>2 DEF CleanRecord
<1>17. ASSUME NEW pc \in {"rejected", "attached", "unlinked"}, Goes(k, [worker[k] EXCEPT !.pc = pc]),
              row'[worker[k].job].state \in Settled
       PROVE  Cleanups'
  <2> DEFINE to == [worker[k] EXCEPT !.pc = pc]
  <2>1. /\ to.aged = worker[k].aged /\ to.orphans = worker[k].orphans /\ to.list = worker[k].list
        /\ to.unlinked = worker[k].unlinked /\ to.job = worker[k].job
    BY <1>0 DEF Working
  <2>2. Goes(k, to)
    BY <1>17
  <2> HIDE DEF to
  <2>3. PICK x : x = to
    OBVIOUS
  <2>4. Over(x.job)'
    BY <1>17, <2>1, <2>3 DEF Over
  <2> QED BY <1>0, <1>3, <2>1, <2>2, <2>3, <2>4 DEF CleanRecord
<1>18. ASSUME VerifyFails(k) \/ RecordAttached(k) PROVE Cleanups'
  <2> DEFINE d == worker[k].job
  <2>1. d \in Decisions /\ row[d] \in JobRow /\ row \in [Decisions -> JobRow]
    BY <1>18 DEF VerifyFails, RecordAttached, TypeInv, Placed, WithJob
  <2>2. \E state \in {"permanent_failure", "attached"} : row' = [row EXCEPT ![d] = Ended(row[d], state)]
    BY <1>18, <2>1 DEF VerifyFails, RecordAttached
  <2>3. \A state \in {"permanent_failure", "attached"} : Ended(row[d], state).state = state
    BY <2>1 DEF Ended, JobRow
  <2>4. row'[d].state \in Settled
    BY <2>1, <2>2, <2>3 DEF Settled
  <2>5. \/ \E pc \in {"rejected", "attached"} : Goes(k, [worker[k] EXCEPT !.pc = pc])
        \/ Done(k)
    BY <1>18 DEF VerifyFails, RecordAttached
  <2> QED BY <1>6, <1>17, <2>4, <2>5
<1>19. CASE DiscardCopy(k)
  <2>1. Goes(k, [worker[k] EXCEPT !.pc = "unlinked"]) /\ worker[k].pc = "attached" /\ row' = row
    BY <1>19 DEF DiscardCopy
  <2>2. row'[worker[k].job].state \in Settled
    BY <1>0, <2>1 DEF CleanRecord, Over
  <2> QED BY <1>17, <2>1, <2>2
<1>20. CASE Beat(k)
  BY <1>2, <1>20 DEF Beat, Cleanups
<1> QED
  BY <1>7, <1>8, <1>9, <1>10, <1>11, <1>12, <1>13, <1>14, <1>15, <1>16, <1>18, <1>19, <1>20
     DEF Recovering, Processing

\* A worker removes no crop that is needed.
LEMMA CropsWorker ==
  ASSUME TypeInv, RecordInv, SpoolInv, NEW k \in Workers,
         Recovering(k) \/ Processing(k) \/ Beat(k) \/ BeatFails(k) \/ WorkerCrash(k)
  PROVE  /\ Crops'
         /\ \A d \in Decisions : Unfinished(d) /\ d \in spooled => d \in spooled'
<1> USE DEF Does
<1>1. /\ UNCHANGED <<tried, watcher, age>> /\ spooled' \subseteq spooled
      /\ \A d \in spooled : d \notin spooled' => Over(d) \/ (Gone(d) /\ ~Unfinished(d))
  <2>1. ASSUME NEW d \in Decisions, Sweep(k, d) \/ Unlink(k, d)
        PROVE  Over(d) \/ (Gone(d) /\ ~Unfinished(d))
    BY <2>1 DEF Sweep, Unlink, SpoolInv, Cleanups, CleanRecord
  <2>2. DiscardCopy(k) => Over(worker[k].job)
    BY DEF DiscardCopy, SpoolInv, Cleanups, CleanRecord
  <2> QED BY <2>1, <2>2, WorkerFrame
<1>2. ASSUME NEW d \in spooled, d \notin spooled'
      PROVE  ~Unfinished(d) /\ \A w \in Watchers : watcher[w].decision # d
  <2>1. d \in Decisions
    BY DEF TypeInv
  <2>2. Over(d) => \A w \in Watchers : watcher[w].decision # d
    BY <2>1 DEF Over, Settled, RecordInv, Unrecorded
  <2> QED BY <1>1, <1>2, <2>2 DEF Over, Unfinished, Gone
<1>3. ASSUME NEW d \in Decisions, Unfinished(d)'
      PROVE  d \in spooled' /\ row'[d].source = "available"
  <2>1. Unfinished(d)
    BY <1>3, WorkerKeepsOver
  <2>2. row'[d].source = row[d].source
    BY <2>1, SourceKept DEF SpoolInv
  <2> QED BY <1>2, <2>1, <2>2 DEF SpoolInv, Crops
<1>4. Crops'
  BY <1>1, <1>2, <1>3 DEF SpoolInv, Crops
<1> QED BY <1>2, <1>4

\* Neither does a watcher, and it leaves its crop young.
LEMMA SpoolWatcher ==
  ASSUME TypeInv, RecordInv, SpoolInv, NEW w \in Watchers,
         Watched(w) \/ WatcherCrash(w) \/ \E d \in Decisions : Admit(w, d)
  PROVE  /\ SpoolInv'
         /\ \A d \in Decisions : Unfinished(d) /\ d \in spooled => d \in spooled'
<1> USE DEF remote, spool, Watches
<1>0. /\ watcher \in [Watchers -> Watching] /\ watcher[w] \in Watching
      /\ Resting.decision \notin Decisions /\ ~Resting.media
      /\ worker \in [Workers -> Working] /\ NoDecision \notin Decisions
      /\ spooled \subseteq Decisions
  BY WorkingRecords, AttachmentAssumption DEF TypeInv, Resting
<1>1. PICK to : watcher' = [watcher EXCEPT ![w] = to]
                /\ \/ to.decision = watcher[w].decision
                   \/ to = Resting
                   \/ \E d \in Decisions : Admit(w, d) /\ to.decision = d /\ ~to.media
  <2>1. /\ \A pc : [watcher[w] EXCEPT !.pc = pc].decision = watcher[w].decision
        /\ \A pc : [watcher[w] EXCEPT !.pc = pc, !.media = TRUE].decision = watcher[w].decision
        /\ \A d : LET r == [Resting EXCEPT !.pc = "admitted", !.decision = d] IN r.decision = d /\ ~r.media
    BY <1>0 DEF Watching, Resting
  <2>2. CASE CheckSpool(w)
    <3>1. PICK pc : watcher' = [watcher EXCEPT ![w] = [watcher[w] EXCEPT !.pc = pc]]
      BY <1>0, <2>2 DEF CheckSpool
    <3>2. [watcher[w] EXCEPT !.pc = pc].decision = watcher[w].decision
      BY <2>1
    <3> QED BY <3>1, <3>2
  <2>3. CASE SpoolCrop(w)
    <3>1. \/ watcher' = [watcher EXCEPT ![w] = [watcher[w] EXCEPT !.pc = "persisting", !.media = TRUE]]
          \/ watcher' = [watcher EXCEPT ![w] = [watcher[w] EXCEPT !.pc = "persisting"]]
      BY <1>0, <2>3 DEF SpoolCrop
    <3>2. /\ [watcher[w] EXCEPT !.pc = "persisting"].decision = watcher[w].decision
          /\ [watcher[w] EXCEPT !.pc = "persisting", !.media = TRUE].decision = watcher[w].decision
      BY <2>1
    <3> QED BY <3>1, <3>2
  <2>4. CASE Persist(w) \/ PersistFails(w) \/ WatcherCrash(w)
    BY <2>4 DEF Persist, PersistFails, WatcherCrash
  <2>5. ASSUME NEW d \in Decisions, Admit(w, d)
        PROVE  \/ watcher' = [watcher EXCEPT ![w] = Resting]
               \/ watcher' = [watcher EXCEPT ![w] = [Resting EXCEPT !.pc = "admitted", !.decision = d]]
    BY <2>5 DEF Admit
  <2>6. CASE \E d \in Decisions : Admit(w, d)
    <3>1. PICK d \in Decisions : Admit(w, d)
      BY <2>6
    <3>2. LET r == [Resting EXCEPT !.pc = "admitted", !.decision = d] IN r.decision = d /\ ~r.media
      BY <2>1
    <3> QED BY <2>5, <3>1, <3>2
  <2> QED BY <2>2, <2>3, <2>4, <2>6 DEF Watched
<1>2. /\ worker' = worker /\ tried \subseteq tried' /\ watcher'[w] = to
      /\ \A v \in Watchers : v # w => watcher'[v] = watcher[v]
      /\ \A d \in Decisions : Admit(w, d) => d \notin tried
  BY <1>0, <1>1 DEF Watched, CheckSpool, SpoolCrop, Persist, PersistFails, WatcherCrash, Admit
<1>3. \A d \in Decisions : Gone(d) => Gone(d)'
  <2> SUFFICES ASSUME NEW d \in Decisions, Gone(d) PROVE Gone(d)'
    OBVIOUS
  <2>1. to.decision # d
    BY <1>0, <1>1, <1>2 DEF Gone
  <2> QED BY <1>2, <2>1 DEF Gone
<1>4. \A d \in Decisions : \/ row'[d] = row[d]
                           \/ watcher[w].decision = d /\ row[d].state = "none"
  <2>1. CASE Persist(w)
    <3>1. PICK d \in Decisions : Records(w, d)
      BY <2>1, PersistEffect
    <3>2. watcher[w].decision = d /\ row[d].state = "none"
      BY <3>1 DEF Records, RecordInv, Unrecorded
    <3>3. \A e \in Decisions : e # d => row'[e] = row[e]
      BY <3>1 DEF Records
    <3> QED BY <3>2, <3>3
  <2>2. CASE ~Persist(w)
    <3>1. row' = row
      BY <2>2 DEF Watched, CheckSpool, SpoolCrop, PersistFails, WatcherCrash, Admit
    <3> QED BY <3>1
  <2> QED BY <2>1, <2>2
<1>5. /\ \A d \in Decisions : Over(d) => Over(d)'
      /\ \A d \in Decisions : Gone(d) /\ ~Unfinished(d) => ~Unfinished(d)'
  BY <1>4 DEF Over, Settled, Gone, Unfinished
<1>6. Cleanups'
  <2> SUFFICES ASSUME NEW k \in Workers PROVE CleanRecord(worker[k])'
    BY DEF Cleanups
  <2>1. CleanRecord(worker[k]) /\ worker[k] \in Working /\ worker'[k] = worker[k]
    BY <1>0, <1>2 DEF SpoolInv, Cleanups
  <2>2. /\ worker[k].aged \subseteq Decisions /\ worker[k].orphans \subseteq Decisions
        /\ worker[k].list \subseteq Decisions
        /\ worker[k].unlinked # NoDecision => worker[k].unlinked \in Decisions
        /\ worker[k].pc \in {"rejected", "attached", "unlinked"} => worker[k].job \in Decisions
    BY <2>1 DEF Working, TypeInv, Placed, WithJob
  <2> QED BY <1>3, <1>5, <2>1, <2>2 DEF CleanRecord
<1>7. CASE CheckSpool(w) \/ WatcherCrash(w) \/ \E d \in Decisions : Admit(w, d)
  <2>1. UNCHANGED <<row, spooled, age>>
    BY <1>7 DEF CheckSpool, WatcherCrash, Admit
  <2>2. to.media => watcher[w].media /\ to.decision = watcher[w].decision
    <3>1. CASE CheckSpool(w)
      <4>1. PICK pc : watcher' = [watcher EXCEPT ![w] = [watcher[w] EXCEPT !.pc = pc]]
        BY <1>0, <3>1 DEF CheckSpool
      <4>2. /\ [watcher[w] EXCEPT !.pc = pc].media = watcher[w].media
            /\ [watcher[w] EXCEPT !.pc = pc].decision = watcher[w].decision
        BY <1>0 DEF Watching
      <4> QED BY <1>0, <1>2, <4>1, <4>2
    <3>2. CASE WatcherCrash(w)
      BY <1>0, <1>2, <3>2 DEF WatcherCrash
    <3>3. CASE \E d \in Decisions : Admit(w, d)
      <4>1. Watches(w, "idle")
        BY <3>3 DEF Admit
      <4>2. ~watcher[w].media
        BY <4>1 DEF RecordInv, Unrecorded
      <4>3. to = Resting \/ ~to.media
        <5>1. PICK d \in Decisions : Admit(w, d)
          BY <3>3
        <5>2. LET r == [Resting EXCEPT !.pc = "admitted", !.decision = d] IN ~r.media
          BY DEF Resting
        <5> QED BY <1>0, <1>2, <5>1, <5>2 DEF Admit
      <4> QED BY <1>0, <4>3
    <3> QED BY <1>7, <3>1, <3>2, <3>3
  <2>3. to.decision \in spooled => to.decision = watcher[w].decision
    BY <1>0, <1>1, <1>2 DEF SpoolInv, Crops
  <2>4. Crops'
    BY <1>2, <2>1, <2>2, <2>3 DEF SpoolInv, Crops, Unfinished
  <2> QED BY <1>6, <2>1, <2>4 DEF SpoolInv
<1>8. CASE SpoolCrop(w)
  <2> DEFINE d == watcher[w].decision
  <2>1. d \in Decisions /\ d \in tried /\ UNCHANGED <<row, tried>>
    BY <1>8 DEF SpoolCrop, RecordInv, Unrecorded, TypeInv, Placed
  <2>2. \/ /\ spooled' = spooled \cup {d} /\ age' = [age EXCEPT ![d] = 0]
           /\ watcher' = [watcher EXCEPT ![w] = [watcher[w] EXCEPT !.pc = "persisting", !.media = TRUE]]
        \/ /\ UNCHANGED <<spooled, age>>
           /\ watcher' = [watcher EXCEPT ![w] = [watcher[w] EXCEPT !.pc = "persisting"]]
    BY <1>0, <1>8 DEF SpoolCrop
  <2>3. /\ [watcher[w] EXCEPT !.pc = "persisting", !.media = TRUE].decision = d
        /\ [watcher[w] EXCEPT !.pc = "persisting"].decision = d
        /\ [watcher[w] EXCEPT !.pc = "persisting"].media = watcher[w].media
    BY <1>0 DEF Watching
  <2>4. \A v \in Watchers : watcher'[v].decision = watcher[v].decision
    BY <1>0, <2>2, <2>3
  <2>5. /\ spooled' \subseteq tried /\ spooled \subseteq spooled'
        /\ \A e \in spooled' : (e \in spooled /\ age'[e] = age[e]) \/ age'[e] < GraceTicks
    BY <1>0, <2>1, <2>2, AttachmentAssumption DEF SpoolInv, Crops, TypeInv
  <2>6. \A v \in Watchers : watcher'[v].media => watcher'[v].decision \in spooled'
    BY <1>0, <2>2, <2>3, <2>4 DEF SpoolInv, Crops
  <2>7. Crops'
    BY <2>1, <2>4, <2>5, <2>6 DEF SpoolInv, Crops, Unfinished
  <2> QED BY <1>6, <2>5, <2>7 DEF SpoolInv
<1>9. CASE Persist(w)
  <2>1. PICK d \in Decisions : Records(w, d)
    BY <1>9, PersistEffect
  <2>2. UNCHANGED <<spooled, age, tried>>
    BY <1>9 DEF Persist
  <2>3. watcher[w].media \in BOOLEAN /\ watcher[w].decision = d /\ watcher'[w] = Resting
    BY <1>0, <2>1 DEF Records, Watching
  <2>4. Unfinished(d)' => d \in spooled /\ row'[d].source = "available"
    BY <2>1, <2>3, InsertedRow DEF Records, Unfinished, Settled, SpoolInv, Crops
  <2>5. \A e \in Decisions : e # d => row'[e] = row[e]
    BY <2>1 DEF Records
  <2>6. Crops'
    BY <1>0, <1>2, <2>2, <2>3, <2>4, <2>5 DEF SpoolInv, Crops, Unfinished
  <2> QED BY <1>6, <2>2, <2>6 DEF SpoolInv
<1>10. CASE PersistFails(w)
  <2> DEFINE d == watcher[w].decision
  <2>1. /\ d \in Decisions /\ row[d].state = "none"
        /\ \A v \in Watchers : v # w => watcher[v].decision # d
    BY <1>10 DEF PersistFails, RecordInv, Unrecorded, TypeInv, Placed
  <2>2. /\ spooled' = spooled \ {d} /\ UNCHANGED <<row, age, tried>> /\ watcher'[w] = Resting
    BY <1>0, <1>10 DEF PersistFails
  <2>3. ~Unfinished(d)
    BY <2>1 DEF Unfinished
  <2> HIDE DEF d
  <2>4. Crops'
    BY <1>0, <1>2, <2>1, <2>2, <2>3 DEF SpoolInv, Crops, Unfinished
  <2> QED BY <1>6, <2>2, <2>3, <2>4 DEF SpoolInv
<1> QED BY <1>7, <1>8, <1>9, <1>10 DEF Watched

\* Time does not make an orphan of a crop a watcher has in hand.
LEMMA SpoolOthers ==
  ASSUME ~Stalls, TypeInv, SpoolInv,
         Tick \/ \E d \in Decisions : ParentSettles(d) \/ Serve(d) \/ Refuse(d)
  PROVE  /\ SpoolInv'
         /\ \A d \in Decisions : Unfinished(d) /\ d \in spooled => d \in spooled'
<1> USE DEF spool
<1>1. UNCHANGED <<spooled, tried, watcher, worker>>
  BY DEF Tick, ParentSettles, Serve, Refuse
<1>2. \A d \in Decisions : row'[d].state = row[d].state
  BY OthersQuiet DEF Quiet, SameRow
<1>3. \A d \in Decisions : row'[d].source = row[d].source
  <2>1. CASE Tick
    <3>1. row \in [Decisions -> JobRow]
      BY DEF TypeInv
    <3> QED BY <2>1, <3>1 DEF Tick, JobRow
  <2>2. CASE ~Tick
    BY <2>2 DEF ParentSettles, Serve, Refuse
  <2> QED BY <2>1, <2>2
<1>4. \A d \in spooled : \A w \in Watchers : watcher[w].decision = d => age'[d] < GraceTicks
  <2>1. CASE Tick
    <3> SUFFICES ASSUME NEW d \in spooled, NEW w \in Watchers, watcher[w].decision = d
                 PROVE  age'[d] < GraceTicks
      OBVIOUS
    <3>1. age[d] < GraceTicks /\ age[d] # GraceTicks - 1 /\ d \in Decisions
      BY <2>1 DEF Tick, AboutToAge, SpoolInv, Crops, TypeInv
    <3>2. age'[d] = age[d] + 1
      <4>1. age' = [e \in Decisions |->
                     IF e \in spooled /\ age[e] < GraceTicks THEN age[e] + 1 ELSE age[e]]
        BY <2>1 DEF Tick
      <4> QED BY <3>1, <4>1
    <3>3. age[d] \in Nat
      BY <3>1 DEF TypeInv
    <3> QED BY <3>1, <3>2, <3>3, AttachmentAssumption
  <2>2. CASE ~Tick
    BY <2>2 DEF ParentSettles, Serve, Refuse, SpoolInv, Crops
  <2> QED BY <2>1, <2>2
<1>5. Crops'
  BY <1>1, <1>2, <1>3, <1>4 DEF SpoolInv, Crops, Unfinished
<1>6. Cleanups'
  <2> SUFFICES ASSUME NEW k \in Workers PROVE CleanRecord(worker[k])'
    BY DEF Cleanups
  <2>1. CleanRecord(worker[k]) /\ worker[k] \in Working /\ worker'[k] = worker[k]
    BY <1>1 DEF SpoolInv, Cleanups, TypeInv
  <2>2. /\ worker[k].aged \subseteq Decisions /\ worker[k].orphans \subseteq Decisions
        /\ worker[k].list \subseteq Decisions
        /\ worker[k].unlinked # NoDecision => worker[k].unlinked \in Decisions
        /\ worker[k].pc \in {"rejected", "attached", "unlinked"} => worker[k].job \in Decisions
    BY <2>1 DEF Working, TypeInv, Placed, WithJob
  <2> QED BY <1>1, <1>2, <2>1, <2>2 DEF CleanRecord, Gone, Over, Unfinished
<1> QED BY <1>1, <1>5, <1>6 DEF SpoolInv

\* So every step keeps the spool in order.
LEMMA SpoolStep ==
  ASSUME ~Stalls
  PROVE  TypeInv /\ RecordInv /\ SpoolInv /\ [Next]_vars
         => /\ SpoolInv'
            /\ \A d \in Decisions : Unfinished(d) /\ d \in spooled => d \in spooled'
<1> SUFFICES ASSUME TypeInv, RecordInv, SpoolInv, [Next]_vars
             PROVE  /\ SpoolInv'
                    /\ \A d \in Decisions : Unfinished(d) /\ d \in spooled => d \in spooled'
  OBVIOUS
<1>1. ASSUME NEW k \in Workers,
             Recovering(k) \/ Processing(k) \/ Beat(k) \/ BeatFails(k) \/ WorkerCrash(k)
      PROVE  /\ SpoolInv'
             /\ \A d \in Decisions : Unfinished(d) /\ d \in spooled => d \in spooled'
  BY <1>1, CleanupsWorker, CropsWorker DEF SpoolInv
<1>2. CASE UNCHANGED vars
  BY <1>2 DEF vars, spool, SpoolInv, Crops, Cleanups, CleanRecord, Gone, Over, Unfinished
<1> QED BY <1>1, <1>2, SpoolWatcher, SpoolOthers DEF Next

\* While a job may still need its crop, the crop is in the spool: no sweep, no
\* source cleanup and no other worker takes it away.  The hypothesis is that no
\* watcher takes longer than the grace period from copying a crop to persisting
\* its decision.
THEOREM CropsAreKept ==
  ASSUME ~Stalls PROVE Spec => []CropKept
<1>1. Init => SpoolInv
  BY SpoolInit
<1>2. Attachments /\ SpoolInv /\ [Next]_vars => SpoolInv'
  BY SpoolStep DEF Attachments
<1>3. SpoolInv => CropKept
  BY DEF SpoolInv, Crops, CropKept
<1> QED BY <1>1, <1>2, <1>3, AttachmentsInductive, PTL DEF Spec

\* Cleanup removes no crop that an unfinished job refers to.
THEOREM ReferencedCropsStay ==
  ASSUME ~Stalls PROVE Spec => ReferencedRetained
<1> DEFINE Retained == \A d \in Decisions :
                         Unfinished(d) /\ row[d].source = "available" /\ d \in spooled
                         => d \in spooled'
<1>1. Init => SpoolInv
  BY SpoolInit
<1>2. Attachments /\ SpoolInv /\ [Next]_vars => SpoolInv' /\ Retained
  BY SpoolStep DEF Attachments
<1>3. ReferencedRetained <=> [][Retained]_vars
  BY DEF ReferencedRetained
<1> QED BY <1>1, <1>2, <1>3, AttachmentsInductive, PTL DEF Spec

=============================================================================
