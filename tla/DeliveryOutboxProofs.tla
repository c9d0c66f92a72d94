-------------------------- MODULE DeliveryOutboxProofs --------------------------
(***************************************************************************)
(* What holds of DeliveryOutbox for every number of decisions, workers,    *)
(* destinations, scopes and attempts.                                      *)
(***************************************************************************)
EXTENDS DeliveryOutbox, TLAPS

-----------------------------------------------------------------------------
(* The operators on rows stay inside their types. *)

\* Every policy effect of delivery_outbox.py keeps a policy row well formed.
LEMMA ApplyType ==
  ASSUME NEW p \in PolicyRow, NEW effect, NEW window \in Nat
  PROVE  Apply(effect, p, window) \in PolicyRow
BY PolicyAssumption
   DEF Apply, Released, MarkedUncertain, Committed, Extended, PolicyRow,
       FreshRow, ReservationStates, Holders

\* The effect on every scope of a transaction on one job.
LEMMA AfterEffectType ==
  ASSUME TypeOK, NEW j, NEW effect, NEW window \in Nat
  PROVE  AfterEffect(j, effect, window) \in [Scopes -> PolicyRow]
BY ApplyType DEF AfterEffect, TypeOK

\* The value each bounded field takes is in its range.
LEMMA Ranges ==
  /\ 0 \in AttemptCounts /\ 0 \in LeaseTimes /\ LeaseTicks \in LeaseTimes
  /\ NoWorker \in Owners /\ NoSite \in Destinations /\ NoDoc \in Names
  /\ Attempts \subseteq AttemptCounts /\ AttemptCounts \subseteq Nat
  /\ Workers \subseteq Owners /\ Sites \subseteq Destinations /\ Documents \subseteq Names
  /\ Budgets \subseteq Attempts
BY OutboxAssumption
   DEF AttemptCounts, LeaseTimes, Owners, Destinations, Names, Attempts

\* Ending a lease changes nothing but the state, the deadlines and the mark.
LEMMA UnleasedType ==
  ASSUME NEW r \in JobRow, NEW wait \in Nat, NEW state \in JobStates
  PROVE  /\ Unleased(r, state, wait) \in JobRow
         /\ Unleased(r, state, wait).state = state
         /\ Unleased(r, state, wait).attempts = r.attempts
         /\ Unleased(r, state, wait).binding = r.binding
         /\ Unleased(r, state, wait).docname = r.docname
         /\ Unleased(r, state, wait).submitted = FALSE
BY Ranges DEF Unleased, JobRow

\* The sweep of a claim and lease recovery end leases and fail jobs; they never
\* touch what a row says of its attempts, its binding and its document.
LEMMA RecoveredRowType ==
  ASSUME NEW r \in JobRow
  PROVE  /\ RecoveredRow(r) \in JobRow
         /\ RecoveredRow(r).attempts = r.attempts
         /\ RecoveredRow(r).binding = r.binding
         /\ RecoveredRow(r).docname = r.docname
<1>1. RecoveredState(r) \in JobStates
  BY DEF RecoveredState, JobStates
<1>2. CASE LeaseExpired(r)
  <2>1. RecoveredRow(r) = Unleased(r, RecoveredState(r), 0)
    BY <1>2 DEF RecoveredRow
  <2>2. /\ Unleased(r, RecoveredState(r), 0) \in JobRow
        /\ Unleased(r, RecoveredState(r), 0).attempts = r.attempts
        /\ Unleased(r, RecoveredState(r), 0).binding = r.binding
        /\ Unleased(r, RecoveredState(r), 0).docname = r.docname
    <3> DEFINE state == RecoveredState(r)
    <3>1. state \in JobStates
      BY <1>1
    <3> HIDE DEF state
    <3> QED BY <3>1, UnleasedType DEF state
  <2> QED BY <2>1, <2>2
<1>3. CASE ~LeaseExpired(r)
  BY <1>3 DEF RecoveredRow
<1> QED BY <1>2, <1>3

\* So does the sweep of a claim.
LEMMA SweptRowType ==
  ASSUME NEW r \in JobRow
  PROVE  /\ SweptRow(r) \in JobRow
         /\ SweptRow(r).attempts = r.attempts
         /\ SweptRow(r).binding = r.binding
         /\ SweptRow(r).docname = r.docname
<1>1. CASE OutOfBudget(r)
  BY <1>1 DEF SweptRow, JobRow, JobStates
<1>2. CASE ~OutOfBudget(r)
  BY <1>2, RecoveredRowType DEF SweptRow
<1> QED BY <1>1, <1>2

\* Recovery and the sweep keep every reservation well formed.
LEMMA AfterRecoveryType ==
  ASSUME TypeOK
  PROVE  /\ AfterRecovery \in [Scopes -> PolicyRow]
         /\ AfterSweep \in [Scopes -> PolicyRow]
BY ApplyType, OutboxAssumption DEF AfterRecovery, AfterSweep, TypeOK

\* Every state the actions name is one of the table.
LEMMA RowStates ==
  /\ Queued \subseteq JobStates /\ Settled \subseteq JobStates
  /\ {"absent", "pending", "leased", "retry_wait", "delivered",
      "permanent_failure", "uncertain"} \subseteq JobStates
BY DEF Queued, Settled, JobStates

\* A job that does not exist yet is a well formed row.
LEMMA NoRowType == NoRow \in JobRow
BY Ranges, RowStates DEF NoRow, JobRow

\* A leased row is well formed as long as the attempt is within the budget.
LEMMA LeasedType ==
  ASSUME NEW r \in JobRow, NEW w \in Workers, r.attempts + 1 \in Attempts
  PROVE  /\ Leased(r, w) \in JobRow
         /\ Leased(r, w).attempts = r.attempts + 1
         /\ Leased(r, w).binding = r.binding
         /\ Leased(r, w).docname = r.docname
BY Ranges, RowStates DEF Leased, JobRow

\* New and idle processes are well formed.
LEMMA ProcessTypes ==
  /\ NewProcess \in Process
  /\ \A p \in Process :
       /\ Idle(p) \in Process /\ Idle(p).pc = "idle" /\ Idle(p).job = NoJob
       /\ Idle(p).capability = p.capability
BY Ranges DEF NewProcess, Idle, Process, Stages, Answers, Holders

-----------------------------------------------------------------------------
(***************************************************************************)
(* Types.  A worker that is doing anything is doing it to a job, in one of *)
(* the attempts the budget allows, and knows the destination it verified:  *)
(* without that, the types of the request it sends and of the document it  *)
(* names would not be inductive.                                           *)
(***************************************************************************)

Busy(p) ==
  IF p.pc = "idle" THEN p.job = NoJob
  ELSE /\ p.job \in Jobs /\ p.attempt \in Attempts
       /\ Verified /\ p.pc # "leased" => p.capability \in Sites

BusyWithJob == \A w \in Workers : Busy(worker[w])

WellTyped == TypeOK /\ BusyWithJob

\* The node starts well formed, with empty tables.
LEMMA InitWellTyped == Init => WellTyped
<1> SUFFICES ASSUME Init PROVE WellTyped
  OBVIOUS
<1>1. TypeOK
  BY NoRowType, ProcessTypes, Ranges, PolicyAssumption
     DEF Init, TypeOK, PolicyRow, FreshRow, ReservationStates, Holders, Faces, Request,
         NoRequest
<1>2. BusyWithJob
  BY DEF Init, BusyWithJob, Busy, NewProcess
<1> QED BY <1>1, <1>2 DEF WellTyped

\* Reserving, marking uncertain and aging keep a policy row well formed.
LEMMA PolicyTypes ==
  ASSUME NEW p \in PolicyRow
  PROVE  /\ \A d \in Jobs, window \in Nat : Reserved(p, d, window) \in PolicyRow
         /\ MarkedUncertain(p) \in PolicyRow
         /\ Elapsed(p) \in PolicyRow
<1>1. \A d \in Jobs, window \in Nat : Reserved(p, d, window) \in PolicyRow
  BY DEF Reserved, PolicyRow, ReservationStates, Holders
<1>2. MarkedUncertain(p) \in PolicyRow
  BY DEF MarkedUncertain, PolicyRow, ReservationStates
<1>3. Elapsed(p) \in PolicyRow
  BY DEF Elapsed, PolicyRow
<1> QED BY <1>1, <1>2, <1>3

\* The watcher's steps keep the types.
LEMMA WatcherWellTyped ==
  ASSUME WellTyped, NEW j \in Jobs, Watcher(j)
  PROVE  WellTyped'
<1> USE DEF WellTyped
<1>0. ScopeOf[j] \in Scopes /\ WindowTicks \in Nat
  BY OutboxAssumption
<1>1. CASE Reserve(j)
  BY <1>0, <1>1, PolicyTypes DEF Reserve, TypeOK, BusyWithJob, Faces
<1>2. CASE ReserveRefused(j)
  BY <1>0, <1>2, PolicyTypes DEF ReserveRefused, TypeOK, BusyWithJob, Faces
<1>3. CASE Persist(j)
  BY <1>3, RowStates DEF Persist, TypeOK, BusyWithJob, Faces, JobRow
<1>4. CASE PersistFails(j)
  BY <1>4, AfterEffectType DEF PersistFails, TypeOK, BusyWithJob, Faces
<1>5. CASE WatcherCrashes(j)
  BY <1>5 DEF WatcherCrashes, TypeOK, BusyWithJob, Faces
<1> QED BY <1>1, <1>2, <1>3, <1>4, <1>5 DEF Watcher

\* What becomes of the event of a decision concerns its reservation only.
LEMMA EventEndsApart ==
  ASSUME NEW j \in Jobs, EventEnds(j)
  PROVE  UNCHANGED <<job, worker, request, docs, site, budget>>
BY DEF EventEnds, EventFails, EventTakenBack

\* It keeps the types.
LEMMA EventEndsWellTyped ==
  ASSUME WellTyped, NEW j \in Jobs, EventEnds(j)
  PROVE  WellTyped'
<1> USE DEF WellTyped
<1>1. CASE EventFails(j)
  BY <1>1, AfterEffectType DEF EventFails, TypeOK, BusyWithJob, Faces
<1>2. CASE EventTakenBack(j)
  <2>1. ScopeOf[j] \in Scopes
    BY OutboxAssumption
  <2>2. GivenUp(policy[ScopeOf[j]]) \in PolicyRow
    BY <2>1 DEF GivenUp, TypeOK, PolicyRow, ReservationStates, Holders
  <2> QED BY <1>2, <2>1, <2>2 DEF EventTakenBack, TypeOK, BusyWithJob, Faces
<1> QED BY <1>1, <1>2 DEF EventEnds

\* So do lease recovery and a claim that finds nothing.
LEMMA RecoveryWellTyped ==
  ASSUME WellTyped, NEW w \in Workers, Recover(w) \/ ClaimNothing(w)
  PROVE  WellTyped'
<1> USE DEF WellTyped
<1>1. CASE Recover(w)
  BY <1>1, RecoveredRowType, AfterRecoveryType DEF Recover, TypeOK, BusyWithJob
<1>2. CASE ClaimNothing(w)
  BY <1>2, SweptRowType, AfterRecoveryType DEF ClaimNothing, TypeOK, BusyWithJob
<1> QED BY <1>1, <1>2

\* A claim keeps the types: it leases only below the budget.
LEMMA ClaimWellTyped ==
  ASSUME WellTyped, NEW w \in Workers, NEW j \in Jobs, Claim(w, j)
  PROVE  WellTyped'
<1> USE DEF WellTyped
<1>1. /\ SweptRow(job[j]) \in JobRow
      /\ SweptRow(job[j]).attempts = job[j].attempts
      /\ job[j].attempts \in AttemptCounts
  BY SweptRowType DEF TypeOK, JobRow
<1>2. job[j].attempts + 1 \in Attempts
  <2>1. job[j].attempts < budget /\ budget \in Attempts
    BY <1>1, Ranges DEF Claim, Claimable, TypeOK
  <2> QED BY <1>1, <2>1, OutboxAssumption DEF Attempts, AttemptCounts
<1>3. job' \in [Jobs -> JobRow]
  <2>1. \A k \in Jobs : SweptRow(job[k]) \in JobRow
    BY SweptRowType DEF TypeOK
  <2>2. Leased(SweptRow(job[j]), w) \in JobRow
    BY <1>1, <1>2, LeasedType
  <2> QED BY <2>1, <2>2 DEF Claim
<1>4. worker' \in [Workers -> Process]
  <2> DEFINE p == [worker[w] EXCEPT !.pc = IF Verified THEN "leased" ELSE "bound",
                                    !.job = j, !.attempt = job[j].attempts + 1]
  <2>1. p \in Process
    BY <1>2, Ranges DEF TypeOK, Process, Stages, Holders
  <2>2. worker' = [worker EXCEPT ![w] = p]
    BY DEF Claim
  <2> HIDE DEF p
  <2> QED BY <2>1, <2>2 DEF TypeOK
<1>5. BusyWithJob'
  BY <1>2 DEF Claim, TypeOK, BusyWithJob, Busy, Process
<1> QED BY <1>3, <1>4, <1>5, AfterRecoveryType DEF Claim, TypeOK

\* What a process may become: the shape every worker action below has.
LEMMA WorkerBecomes ==
  ASSUME WellTyped, NEW w \in Workers, NEW p \in Process, Busy(p),
         worker' = [worker EXCEPT ![w] = p]
  PROVE  worker' \in [Workers -> Process] /\ BusyWithJob'
BY DEF WellTyped, TypeOK, BusyWithJob

\* A worker that goes back to polling is well formed.
LEMMA DoneWellTyped ==
  ASSUME WellTyped, NEW w \in Workers, Done(w)
  PROVE  worker' \in [Workers -> Process] /\ BusyWithJob'
<1> DEFINE p == Idle(worker[w])
<1>1. p \in Process /\ Busy(p) /\ worker' = [worker EXCEPT ![w] = p]
  BY ProcessTypes DEF WellTyped, TypeOK, Busy, Done
<1> HIDE DEF p
<1> QED BY <1>1, WorkerBecomes

\* So is one that systemd restarts.
LEMMA RestartWellTyped ==
  ASSUME WellTyped, NEW w \in Workers, worker' = [worker EXCEPT ![w] = NewProcess]
  PROVE  worker' \in [Workers -> Process] /\ BusyWithJob'
<1>1. NewProcess \in Process /\ Busy(NewProcess)
  BY ProcessTypes DEF Busy, NewProcess
<1> QED BY <1>1, WorkerBecomes

\* A process that is busy, and one that holds a lease, has a job.
LEMMA HasJob ==
  ASSUME WellTyped, NEW w \in Workers, worker[w].pc # "idle" \/ HoldsLease(w)
  PROVE  /\ worker[w] \in Process /\ worker[w].pc # "idle"
         /\ worker[w].job \in Jobs /\ worker[w].attempt \in Attempts
         /\ job[worker[w].job] \in JobRow
BY DEF WellTyped, TypeOK, BusyWithJob, Busy, HoldsLease

\* Ending the lease of a held job in a settled or a waiting state.
LEMMA LeaseEndsType ==
  ASSUME WellTyped, NEW w \in Workers, HoldsLease(w),
         NEW state \in JobStates, NEW wait \in Nat, NEW submitted \in BOOLEAN
  PROVE  /\ [job EXCEPT ![worker[w].job] = Unleased(@, state, wait)] \in [Jobs -> JobRow]
         /\ [job EXCEPT ![worker[w].job] =
               [Unleased(@, state, wait) EXCEPT !.submitted = submitted]] \in [Jobs -> JobRow]
<1> DEFINE row == Unleased(job[worker[w].job], state, wait)
<1>1. row \in JobRow
  BY HasJob, UnleasedType
<1>2. [row EXCEPT !.submitted = submitted] \in JobRow
  <2> HIDE DEF row
  <2> QED BY <1>1 DEF JobRow
<1> HIDE DEF row
<1>3. /\ [job EXCEPT ![worker[w].job] = row] \in [Jobs -> JobRow]
      /\ [job EXCEPT ![worker[w].job] = [row EXCEPT !.submitted = submitted]]
           \in [Jobs -> JobRow]
  BY <1>1, <1>2 DEF WellTyped, TypeOK
<1> QED BY <1>3 DEF row

\* A permanent failure keeps the row and the reservation well formed.
LEMMA FailPermanentlyWellTyped ==
  ASSUME WellTyped, NEW w \in Workers, FailPermanently(w)
  PROVE  job' \in [Jobs -> JobRow] /\ policy' \in [Scopes -> PolicyRow]
<1>1. "permanent_failure" \in JobStates /\ job[worker[w].job].submitted \in BOOLEAN
  BY HasJob, RowStates DEF FailPermanently, JobRow
<1>2. job' \in [Jobs -> JobRow]
  <2> DEFINE submitted == job[worker[w].job].submitted
  <2>1. submitted \in BOOLEAN
    BY <1>1
  <2>2. job' = [job EXCEPT ![worker[w].job] =
                 [Unleased(@, "permanent_failure", 0) EXCEPT !.submitted = submitted]]
    BY DEF FailPermanently
  <2> HIDE DEF submitted
  <2> QED BY <1>1, <2>1, <2>2, LeaseEndsType DEF FailPermanently
<1> QED BY <1>2, AfterEffectType DEF FailPermanently, WellTyped

\* The actions of a worker between its claim and the answer of ERPNext.
LEMMA SubmissionWellTyped ==
  ASSUME WellTyped, NEW w \in Workers,
         \/ BindContract(w) \/ BindConflict(w) \/ InvalidPayload(w)
         \/ StartSubmission(w) \/ LeaseLost(w) \/ Send(w)
  PROVE  WellTyped'
<1>0. Probed(w) \in Sites /\ Probed(w) \in Destinations
  BY DEF Probed, WellTyped, TypeOK, Process, Destinations
<1>1. CASE BindContract(w)
  <2> DEFINE p == [worker[w] EXCEPT !.pc = "bound", !.capability = Probed(w)]
  <2>1. p \in Process /\ Busy(p)
    BY <1>0, <1>1, HasJob DEF BindContract, Process, Stages, Busy
  <2>2. worker' = [worker EXCEPT ![w] = p]
    BY <1>1 DEF BindContract
  <2> HIDE DEF p
  <2>3. worker' \in [Workers -> Process] /\ BusyWithJob'
    BY <2>1, <2>2, WorkerBecomes
  <2>4. job' \in [Jobs -> JobRow]
    BY <1>0, <1>1, HasJob DEF BindContract, WellTyped, TypeOK, JobRow
  <2> QED BY <1>1, <2>3, <2>4 DEF BindContract, WellTyped, TypeOK
<1>2. CASE BindConflict(w)
  <2> DEFINE p == [Idle(worker[w]) EXCEPT !.capability = Probed(w)]
  <2>1. p \in Process /\ Busy(p)
    <3>1. Idle(worker[w]) \in Process /\ Idle(worker[w]).pc = "idle"
          /\ Idle(worker[w]).job = NoJob
      BY ProcessTypes DEF WellTyped, TypeOK
    <3> QED BY <1>0, <3>1 DEF Process, Busy
  <2>2. worker' = [worker EXCEPT ![w] = p]
    BY <1>2 DEF BindConflict
  <2> HIDE DEF p
  <2>3. worker' \in [Workers -> Process] /\ BusyWithJob'
    BY <2>1, <2>2, WorkerBecomes
  <2> QED BY <1>2, <2>3, FailPermanentlyWellTyped DEF BindConflict, WellTyped, TypeOK
<1>3. CASE InvalidPayload(w)
  BY <1>3, DoneWellTyped, FailPermanentlyWellTyped
     DEF InvalidPayload, Done, WellTyped, TypeOK
<1>4. CASE StartSubmission(w)
  <2>1. job' \in [Jobs -> JobRow]
    BY <1>4, HasJob DEF StartSubmission, WellTyped, TypeOK, JobRow
  <2>2. worker' \in [Workers -> Process] /\ BusyWithJob'
    BY <1>4 DEF StartSubmission, WellTyped, TypeOK, BusyWithJob, Busy, Process, Stages
  <2> QED BY <1>4, <2>1, <2>2 DEF StartSubmission, WellTyped, TypeOK
<1>5. CASE LeaseLost(w)
  BY <1>5, RestartWellTyped DEF LeaseLost, WellTyped, TypeOK
<1>6. CASE Send(w)
  <2> DEFINE r == [status |-> "sent", to |-> IF Verified THEN worker[w].capability ELSE site]
  <2>1. r \in Request
    <3>1. (IF Verified THEN worker[w].capability ELSE site) \in Sites
      BY <1>6 DEF Send, WellTyped, TypeOK, BusyWithJob, Busy
    <3> QED BY <3>1 DEF Request, Sendings, Statuses
  <2>2. request' = [request EXCEPT ![worker[w].job][worker[w].attempt] = r]
    BY <1>6 DEF Send
  <2> HIDE DEF r
  <2>3. request' \in [Jobs -> [Attempts -> Request]]
    BY <2>1, <2>2 DEF WellTyped, TypeOK
  <2>4. worker' \in [Workers -> Process] /\ BusyWithJob'
    BY <1>6 DEF Send, WellTyped, TypeOK, BusyWithJob, Busy, Process, Stages
  <2> QED BY <1>6, <2>3, <2>4 DEF Send, WellTyped, TypeOK
<1> QED BY <1>1, <1>2, <1>3, <1>4, <1>5, <1>6

\* An answer keeps the process well formed.
LEMMA AnsweredWellTyped ==
  ASSUME WellTyped, NEW w \in Workers, worker[w].pc \notin {"idle", "leased"},
         NEW answer \in Answers, NEW doc \in Names, Answered(w, answer, doc)
  PROVE  worker' \in [Workers -> Process] /\ BusyWithJob'
<1> DEFINE p == [worker[w] EXCEPT !.pc = "answered", !.answer = answer, !.doc = doc]
<1>0. worker[w] \in Process /\ Busy(worker[w])
  BY DEF WellTyped, TypeOK, BusyWithJob
<1>1. p \in Process
  BY <1>0 DEF Process, Stages
<1>2. Busy(p)
  <2>1. /\ p.pc = "answered" /\ p.job = worker[w].job /\ p.attempt = worker[w].attempt
        /\ p.capability = worker[w].capability
    BY <1>0 DEF Process
  <2> QED BY <1>0, <2>1 DEF Busy
<1>3. worker' = [worker EXCEPT ![w] = p]
  BY DEF Answered
<1> HIDE DEF p
<1> QED BY <1>1, <1>2, <1>3, WorkerBecomes

\* The answer, and the heartbeat that runs beside the call.
LEMMA CallWellTyped ==
  ASSUME WellTyped, NEW w \in Workers,
         \/ HeartbeatRenews(w) \/ HeartbeatFails(w) \/ NeverSent(w)
         \/ AnswerLost(w) \/ RefusalReceived(w) \/ DocumentReceived(w)
  PROVE  WellTyped'
<1>0. NoDoc \in Names /\ Answers = {"none", "document", "safe", "permanent", "ambiguous"}
  BY Ranges DEF Answers
<1>1. CASE HeartbeatRenews(w)
  <2>1. job' \in [Jobs -> JobRow]
    BY <1>1, HasJob, Ranges DEF HeartbeatRenews, WellTyped, TypeOK, JobRow
  <2> QED BY <1>1, <2>1 DEF HeartbeatRenews, WellTyped, TypeOK, BusyWithJob
<1>2. CASE HeartbeatFails(w)
  BY <1>2 DEF HeartbeatFails, WellTyped, TypeOK, BusyWithJob, Busy, Process
<1>3. CASE NeverSent(w)
  BY <1>0, <1>3, AnsweredWellTyped DEF NeverSent, WellTyped, TypeOK
<1>4. CASE AnswerLost(w)
  BY <1>0, <1>4, AnsweredWellTyped DEF AnswerLost, WellTyped, TypeOK
<1>5. CASE RefusalReceived(w)
  BY <1>0, <1>5, AnsweredWellTyped DEF RefusalReceived, WellTyped, TypeOK
<1>6. CASE DocumentReceived(w)
  <2>1. docs[worker[w].job] \subseteq Names
    BY <1>6, HasJob, Ranges DEF DocumentReceived, WellTyped, TypeOK
  <2> QED BY <1>0, <1>6, <2>1, AnsweredWellTyped DEF DocumentReceived, WellTyped, TypeOK
<1> QED BY <1>1, <1>2, <1>3, <1>4, <1>5, <1>6

\* Recording the outcome of an attempt keeps the types.
LEMMA RecordWellTyped ==
  ASSUME WellTyped, NEW w \in Workers,
         \/ RecordDelivered(w) \/ DeliveredCommitFails(w) \/ RecordRetry(w)
         \/ RecordPermanent(w) \/ RecordUncertain(w) \/ RecordDeferred(w)
  PROVE  WellTyped'
<1> DEFINE j == worker[w].job
<1>1. CASE RecordDelivered(w)
  <2> DEFINE row == [Unleased(job[j], "delivered", 0) EXCEPT
                       !.submitted = TRUE, !.docname = worker[w].doc]
  <2>1. row \in JobRow
    <3>1. Unleased(job[j], "delivered", 0) \in JobRow /\ worker[w].doc \in Names
      BY <1>1, HasJob, UnleasedType, RowStates DEF RecordDelivered, Process
    <3> QED BY <3>1 DEF JobRow
  <2>2. job' = [job EXCEPT ![j] = row]
    BY <1>1 DEF RecordDelivered
  <2> HIDE DEF row
  <2>3. job' \in [Jobs -> JobRow]
    BY <2>1, <2>2 DEF WellTyped, TypeOK
  <2>4. policy' \in [Scopes -> PolicyRow]
    BY <1>1, AfterEffectType DEF RecordDelivered, WellTyped
  <2> QED BY <1>1, <2>3, <2>4, DoneWellTyped DEF RecordDelivered, WellTyped, TypeOK
<1>2. CASE DeliveredCommitFails(w)
  BY <1>2 DEF DeliveredCommitFails, WellTyped, TypeOK, BusyWithJob, Busy, Process
<1>3. CASE RecordRetry(w)
  <2>1. job' \in [Jobs -> JobRow] /\ policy' \in [Scopes -> PolicyRow]
    <3>1. CASE job[j].attempts >= budget
      <4>1. job' = [job EXCEPT ![j] = Unleased(@, "permanent_failure", 0)]
            /\ policy' = AfterEffect(j, "release", 0)
        BY <1>3, <3>1 DEF RecordRetry
      <4>2. job' \in [Jobs -> JobRow]
        BY <1>3, <4>1, LeaseEndsType, RowStates DEF RecordRetry
      <4> QED BY <4>1, <4>2, AfterEffectType DEF WellTyped
    <3>2. CASE ~(job[j].attempts >= budget)
      <4>1. PICK delay \in RetryDelays :
              /\ job' = [job EXCEPT ![j] = Unleased(@, "retry_wait", delay)]
              /\ policy' = AfterEffect(j, "extend", delay + ExtendTicks)
        BY <1>3, <3>2 DEF RecordRetry
      <4>2. delay \in Nat /\ delay + ExtendTicks \in Nat
        BY OutboxAssumption
      <4>3. job' \in [Jobs -> JobRow]
        BY <1>3, <4>1, <4>2, LeaseEndsType, RowStates DEF RecordRetry
      <4> QED BY <4>1, <4>2, <4>3, AfterEffectType DEF WellTyped
    <3> QED BY <3>1, <3>2
  <2> QED BY <1>3, <2>1, DoneWellTyped DEF RecordRetry, WellTyped, TypeOK
<1>4. CASE RecordPermanent(w)
  BY <1>4, DoneWellTyped, FailPermanentlyWellTyped DEF RecordPermanent, WellTyped, TypeOK
<1>5. CASE RecordUncertain(w)
  <2> DEFINE submitted == job[j].submitted
  <2>1. submitted \in BOOLEAN
    BY <1>5, HasJob DEF RecordUncertain, JobRow
  <2>2. job' = [job EXCEPT ![j] =
                 [Unleased(@, "uncertain", 0) EXCEPT !.submitted = submitted]]
    BY <1>5 DEF RecordUncertain
  <2> HIDE DEF submitted
  <2>3. job' \in [Jobs -> JobRow]
    BY <1>5, <2>1, <2>2, LeaseEndsType, RowStates DEF RecordUncertain
  <2>4. policy' \in [Scopes -> PolicyRow]
    BY <1>5, AfterEffectType DEF RecordUncertain, WellTyped
  <2> QED BY <1>5, <2>3, <2>4, DoneWellTyped DEF RecordUncertain, WellTyped, TypeOK
<1>6. CASE RecordDeferred(w)
  BY <1>6, DoneWellTyped DEF RecordDeferred, WellTyped, TypeOK
<1> QED BY <1>1, <1>2, <1>3, <1>4, <1>5, <1>6

\* ERPNext serves or refuses only requests that were sent, to a destination.
LEMMA ErpnextWellTyped ==
  ASSUME WellTyped, NEW j \in Jobs, NEW a \in Attempts, Erpnext(j, a)
  PROVE  WellTyped'
<1>0. /\ request[j][a] \in Sendings
      /\ \A status \in Statuses : [request[j][a] EXCEPT !.status = status] \in Request
  <2>1. request[j][a] \in Request /\ request[j][a].status = "sent"
    BY DEF Erpnext, Serve, Throttle, Reject, WellTyped, TypeOK
  <2>2. request[j][a] \in Sendings
    BY <2>1 DEF Request, NoRequest
  <2> QED BY <2>2 DEF Sendings, Request
<1>1. request' \in [Jobs -> [Attempts -> Request]]
  <2>1. PICK status \in Statuses : Handled(j, a, status)
    BY DEF Erpnext, Serve, Throttle, Reject, Statuses
  <2> DEFINE r == [request[j][a] EXCEPT !.status = status]
  <2>2. request' = [request EXCEPT ![j][a] = r]
    BY <2>1 DEF Handled
  <2>3. r \in Request
    BY <1>0
  <2> HIDE DEF r
  <2> QED BY <2>2, <2>3 DEF WellTyped, TypeOK
<1>2. docs' \in [Jobs -> SUBSET Documents]
  <2>1. [attempt |-> a, site |-> request[j][a].to] \in Documents
    BY <1>0 DEF Sendings, Documents
  <2>2. docs' = docs
        \/ docs' = [docs EXCEPT ![j] = @ \cup {[attempt |-> a, site |-> request[j][a].to]}]
    <3>1. CASE Serve(j, a)
      <4>1. CASE Verified /\ \E d \in docs[j] : d.site = request[j][a].to
        BY <3>1, <4>1 DEF Serve, WellTyped, TypeOK
      <4>2. CASE ~(Verified /\ \E d \in docs[j] : d.site = request[j][a].to)
        BY <3>1, <4>2 DEF Serve
      <4> QED BY <4>1, <4>2
    <3>2. CASE Throttle(j, a) \/ Reject(j, a)
      BY <3>2 DEF Throttle, Reject
    <3> QED BY <3>1, <3>2 DEF Erpnext
  <2> QED BY <2>1, <2>2 DEF WellTyped, TypeOK
<1> QED BY <1>1, <1>2 DEF Erpnext, Serve, Throttle, Reject, WellTyped, TypeOK, BusyWithJob

\* Time only counts down.
LEMMA TickWellTyped ==
  ASSUME WellTyped, Tick
  PROVE  WellTyped'
<1>1. \A r \in JobRow : [r EXCEPT !.lease = Less(@), !.wait = Less(@)] \in JobRow
  <2>1. \A n \in Nat : Less(n) \in Nat
    BY DEF Less
  <2>2. \A n \in LeaseTimes : Less(n) \in LeaseTimes
    BY OutboxAssumption DEF Less, LeaseTimes
  <2> QED BY <2>1, <2>2 DEF JobRow
<1>2. job' \in [Jobs -> JobRow]
  BY <1>1 DEF Tick, WellTyped, TypeOK
<1> QED BY <1>2, PolicyTypes DEF Tick, WellTyped, TypeOK, BusyWithJob

\* Every step keeps the types and gives every busy worker a job.
LEMMA StepWellTyped ==
  ASSUME WellTyped, [Next]_vars
  PROVE  WellTyped'
<1>1. ASSUME NEW j \in Jobs, Watcher(j) \/ EventEnds(j) PROVE WellTyped'
  BY <1>1, WatcherWellTyped, EventEndsWellTyped
<1>2. ASSUME NEW w \in Workers, WorkerStep(w) PROVE WellTyped'
  BY <1>2, RecoveryWellTyped, ClaimWellTyped, SubmissionWellTyped, CallWellTyped,
     RecordWellTyped DEF WorkerStep
<1>3. ASSUME NEW w \in Workers, Crash(w) PROVE WellTyped'
  BY <1>3, RestartWellTyped DEF Crash, WellTyped, TypeOK
<1>4. ASSUME NEW w \in Workers, HeartbeatRenews(w) \/ HeartbeatFails(w) PROVE WellTyped'
  BY <1>4, CallWellTyped
<1>5. ASSUME NEW j \in Jobs, NEW a \in Attempts, Erpnext(j, a) PROVE WellTyped'
  BY <1>5, ErpnextWellTyped
<1>6. CASE ChangeSite
  BY <1>6 DEF ChangeSite, WellTyped, TypeOK, BusyWithJob
<1>7. CASE ChangeBudget
  BY <1>7 DEF ChangeBudget, WellTyped, TypeOK, BusyWithJob
<1>8. CASE Tick
  BY <1>8, TickWellTyped
<1>9. CASE UNCHANGED vars
  BY <1>9 DEF vars, WellTyped, TypeOK, BusyWithJob
<1> QED BY <1>1, <1>2, <1>3, <1>4, <1>5, <1>6, <1>7, <1>8, <1>9 DEF Next, PollEmpty

\* Every reachable state is well formed: no attempt is counted beyond the
\* largest retry budget ever configured, no lease outlasts its length, and a
\* delivered row names nothing but a document (TypeOK, for the tables of
\* delivery_outbox.py and the process state of delivery_service.py).
THEOREM TypeCorrect == Spec => []TypeOK
<1>1. Init => WellTyped
  BY InitWellTyped
<1>2. WellTyped /\ [Next]_vars => WellTyped'
  BY StepWellTyped
<1>3. WellTyped => TypeOK
  BY DEF WellTyped
<1> QED BY <1>1, <1>2, <1>3, PTL DEF Spec

-----------------------------------------------------------------------------
(***************************************************************************)
(* At most one check-in.  AtMostOneCheckin is not inductive: it says       *)
(* nothing of the requests that ERPNext may still serve.  What bounds them *)
(* differs with the contract.  With it, every request of a job names the   *)
(* destination the job is bound to, where the delivery id is unique.       *)
(* Without it, there is one attempt that could still create a check-in,    *)
(* and while there is one the job is never queued again.                   *)
(***************************************************************************)

\* An attempt belongs to the one process that leased it.
AttemptsOwned ==
  /\ \A w \in Workers : worker[w].pc # "idle" =>
       worker[w].attempt <= job[worker[w].job].attempts
  /\ \A v, w \in Workers :
       /\ v # w /\ worker[v].pc # "idle" /\ worker[w].pc # "idle"
       /\ worker[v].job = worker[w].job
       => worker[v].attempt # worker[w].attempt
  /\ \A w \in Workers :
       worker[w].pc # "idle" /\ job[worker[w].job].state = "leased"
       /\ job[worker[w].job].owner = w
       => job[worker[w].job].attempts = worker[w].attempt

Unsent == {"leased", "bound", "submitting"}

\* Nothing is sent for an attempt before its process sends it.
RequestsOwned ==
  /\ \A j \in Jobs, a \in Attempts :
       a > job[j].attempts => request[j][a].status = "none"
  /\ \A w \in Workers : worker[w].pc \in Unsent =>
       request[worker[w].job][worker[w].attempt].status = "none"

Recorded(j) == face[j] \in {"queued", "freed"}

Unpersisted == \A j \in Jobs : ~Recorded(j) => job[j].state = "absent"

Bound ==
  /\ \A w \in Workers : worker[w].pc \notin {"idle", "leased"} =>
       worker[w].capability = job[worker[w].job].binding
  /\ \A j \in Jobs, a \in Attempts :
       request[j][a].status # "none" => request[j][a].to = job[j].binding
  /\ \A j \in Jobs : \A d \in docs[j] : d.site = job[j].binding
  /\ AtMostOneCheckin

\* The attempt may have created a check-in, or may still.
Open(j, a) ==
  \/ request[j][a].status \in {"sent", "served"}
  \/ \E w \in Workers :
       worker[w].pc = "submitting" /\ worker[w].job = j /\ worker[w].attempt = a

NeverBound ==
  /\ \A j \in Jobs : job[j].binding = NoSite
  /\ \A w \in Workers : worker[w].pc # "leased"

\* A row that is not queued again while the attempt is open.
Guards(r, a) ==
  /\ r.state \notin Queued \cup {"absent"}
  /\ r.state = "leased" => r.attempts = a /\ r.submitted

OneOpenAttempt ==
  /\ \A j \in Jobs, a, b \in Attempts : Open(j, a) /\ Open(j, b) => a = b
  /\ \A j \in Jobs, a \in Attempts : Open(j, a) => Guards(job[j], a)
  /\ \A w \in Workers : worker[w].pc = "answered" /\ worker[w].answer = "safe" =>
       request[worker[w].job][worker[w].attempt].status \notin {"sent", "served"}
  /\ \A j \in Jobs : \A d \in docs[j] :
       request[j][d.attempt].status = "served" /\ d.site = request[j][d.attempt].to

OneCheckin ==
  /\ WellTyped
  /\ AttemptsOwned
  /\ RequestsOwned
  /\ Unpersisted
  /\ Verified => Bound
  /\ ~Verified => NeverBound /\ OneOpenAttempt

\* What every step but a claim does to a row and to a process.
RowQuiet(r, q) ==
  /\ q.attempts = r.attempts
  /\ q.state = "leased" => r.state = "leased" /\ q.owner = r.owner

ProcessQuiet(p, q) ==
  \/ q.pc = "idle"
  \/ p.pc # "idle" /\ q.job = p.job /\ q.attempt = p.attempt

Quiet ==
  /\ \A j \in Jobs : RowQuiet(job[j], job'[j])
  /\ \A w \in Workers : ProcessQuiet(worker[w], worker'[w])

\* Ending a lease is quiet.
LEMMA UnleasedQuiet ==
  ASSUME NEW r \in JobRow, NEW state \in JobStates \ {"leased"}, NEW wait \in Nat
  PROVE  RowQuiet(r, Unleased(r, state, wait))
BY UnleasedType DEF RowQuiet

\* Recovery and the sweep are quiet: they lease nothing.
LEMMA SweepQuiet ==
  ASSUME NEW r \in JobRow
  PROVE  RowQuiet(r, RecoveredRow(r)) /\ RowQuiet(r, SweptRow(r))
<1>1. RowQuiet(r, RecoveredRow(r))
  <2> DEFINE state == RecoveredState(r)
  <2>1. state \in JobStates \ {"leased"}
    BY DEF RecoveredState, JobStates
  <2>2. RecoveredRow(r) = Unleased(r, state, 0) \/ RecoveredRow(r) = r
    BY DEF RecoveredRow
  <2> HIDE DEF state
  <2> QED BY <2>1, <2>2, UnleasedQuiet DEF RowQuiet
<1>2. RowQuiet(r, SweptRow(r))
  BY <1>1 DEF SweptRow, RowQuiet, JobRow
<1> QED BY <1>1, <1>2

\* The holder ends the lease of its job, which goes to `state'.
Ends(w, state) ==
  /\ job'[worker[w].job].state = state
  /\ \A j \in Jobs : RowQuiet(job[j], job'[j])
  /\ \A j \in Jobs : job'[j].binding = job[j].binding
  /\ \A j \in Jobs : j # worker[w].job => job'[j] = job[j]

\* A held row may be replaced by any row that keeps its attempts and binding.
LEMMA HolderEnds ==
  ASSUME WellTyped, NEW w \in Workers, HoldsLease(w), NEW q,
         q.state # "leased", q.attempts = job[worker[w].job].attempts,
         q.binding = job[worker[w].job].binding,
         job' = [job EXCEPT ![worker[w].job] = q]
  PROVE  Ends(w, q.state)
BY HasJob DEF Ends, RowQuiet, WellTyped, TypeOK

\* The plain end of a lease.
LEMMA UnleasedEnds ==
  ASSUME WellTyped, NEW w \in Workers, HoldsLease(w),
         NEW state \in JobStates, state # "leased", NEW wait \in Nat,
         job' = [job EXCEPT ![worker[w].job] = Unleased(@, state, wait)]
  PROVE  Ends(w, state)
<1> DEFINE r == job[worker[w].job]
           q == Unleased(r, state, wait)
<1>1. q.state = state /\ q.attempts = r.attempts /\ q.binding = r.binding
  <2>1. r \in JobRow
    BY HasJob
  <2> HIDE DEF r
  <2> QED BY <2>1, UnleasedType
<1>2. job' = [job EXCEPT ![worker[w].job] = q]
  OBVIOUS
<1> HIDE DEF q
<1> QED BY <1>1, <1>2, HolderEnds

\* The end of a lease that keeps the submission mark.
LEMMA MarkedEnds ==
  ASSUME WellTyped, NEW w \in Workers, HoldsLease(w), NEW submitted,
         NEW state \in JobStates, state # "leased", NEW wait \in Nat,
         job' = [job EXCEPT ![worker[w].job] =
                   [Unleased(@, state, wait) EXCEPT !.submitted = submitted]]
  PROVE  Ends(w, state)
<1> DEFINE r == job[worker[w].job]
           u == Unleased(r, state, wait)
           q == [u EXCEPT !.submitted = submitted]
<1>1. u \in JobRow /\ u.state = state /\ u.attempts = r.attempts /\ u.binding = r.binding
  <2>1. r \in JobRow
    BY HasJob
  <2> HIDE DEF r
  <2> QED BY <2>1, UnleasedType
<1>2. job' = [job EXCEPT ![worker[w].job] = q]
  OBVIOUS
<1>3. q.state = state /\ q.attempts = r.attempts /\ q.binding = r.binding
  <2> HIDE DEF u
  <2> QED BY <1>1 DEF JobRow
<1> HIDE DEF q
<1> QED BY <1>2, <1>3, HolderEnds

\* mark_delivery_job_permanent_failure_by_lease ends the lease.
LEMMA FailEnds ==
  ASSUME WellTyped, NEW w \in Workers, FailPermanently(w)
  PROVE  Ends(w, "permanent_failure")
<1> DEFINE submitted == job[worker[w].job].submitted
           state == "permanent_failure"
           wait == 0
<1>1. /\ HoldsLease(w)
      /\ job' = [job EXCEPT ![worker[w].job] =
                   [Unleased(@, state, wait) EXCEPT !.submitted = submitted]]
  BY DEF FailPermanently
<1>2. state \in JobStates /\ state # "leased" /\ wait \in Nat
  BY RowStates
<1> HIDE DEF submitted, state, wait
<1>3. Ends(w, state)
  BY <1>1, <1>2, MarkedEnds
<1> QED BY <1>3 DEF state

\* mark_delivery_job_delivered_by_lease ends the lease.
LEMMA DeliveredEnds ==
  ASSUME WellTyped, NEW w \in Workers, RecordDelivered(w)
  PROVE  Ends(w, "delivered")
<1> DEFINE u == Unleased(job[worker[w].job], "delivered", 0)
           q == [u EXCEPT !.submitted = TRUE, !.docname = worker[w].doc]
<1>1. HoldsLease(w) /\ job' = [job EXCEPT ![worker[w].job] = q]
  BY DEF RecordDelivered
<1>2. /\ u \in JobRow /\ u.state = "delivered"
      /\ u.attempts = job[worker[w].job].attempts
      /\ u.binding = job[worker[w].job].binding
  <2> DEFINE r == job[worker[w].job]
             state == "delivered"
             wait == 0
  <2>1. r \in JobRow /\ state \in JobStates /\ wait \in Nat
    BY <1>1, HasJob, RowStates
  <2> HIDE DEF r, state, wait
  <2>2. /\ Unleased(r, state, wait) \in JobRow
        /\ Unleased(r, state, wait).state = state
        /\ Unleased(r, state, wait).attempts = r.attempts
        /\ Unleased(r, state, wait).binding = r.binding
    BY <2>1, UnleasedType
  <2> QED BY <2>2 DEF r, state, wait
<1> HIDE DEF u
<1>3. /\ q.state = "delivered" /\ q.attempts = job[worker[w].job].attempts
      /\ q.binding = job[worker[w].job].binding
  BY <1>2 DEF JobRow
<1> HIDE DEF q
<1> QED BY <1>1, <1>3, HolderEnds

\* mark_delivery_job_retry_by_lease ends the lease, or fails the job.
LEMMA RetryEnds ==
  ASSUME WellTyped, NEW w \in Workers, RecordRetry(w)
  PROVE  Ends(w, "permanent_failure") \/ Ends(w, "retry_wait")
<1>1. PICK state \in {"permanent_failure", "retry_wait"}, wait \in Nat :
        job' = [job EXCEPT ![worker[w].job] = Unleased(@, state, wait)]
  <2>1. CASE job[worker[w].job].attempts >= budget
    BY <2>1 DEF RecordRetry
  <2>2. CASE ~(job[worker[w].job].attempts >= budget)
    <3>1. PICK wait \in RetryDelays :
            job' = [job EXCEPT ![worker[w].job] = Unleased(@, "retry_wait", wait)]
      BY <2>2 DEF RecordRetry
    <3>2. wait \in Nat
      BY OutboxAssumption
    <3> QED BY <3>1, <3>2
  <2> QED BY <2>1, <2>2
<1>2. state \in JobStates /\ state # "leased" /\ HoldsLease(w)
  BY RowStates DEF RecordRetry
<1>3. Ends(w, state)
  BY <1>1, <1>2, UnleasedEnds
<1> QED BY <1>3

\* mark_delivery_job_uncertain_by_lease ends the lease.
LEMMA UncertainEnds ==
  ASSUME WellTyped, NEW w \in Workers, RecordUncertain(w)
  PROVE  Ends(w, "uncertain")
<1> DEFINE submitted == job[worker[w].job].submitted
           state == "uncertain"
           wait == 0
<1>1. /\ HoldsLease(w)
      /\ job' = [job EXCEPT ![worker[w].job] =
                   [Unleased(@, state, wait) EXCEPT !.submitted = submitted]]
  BY DEF RecordUncertain
<1>2. state \in JobStates /\ state # "leased" /\ wait \in Nat
  BY RowStates
<1> HIDE DEF submitted, state, wait
<1>3. Ends(w, state)
  BY <1>1, <1>2, MarkedEnds
<1> QED BY <1>3 DEF state

\* A worker that lets go of its job is quiet.
LEMMA DoneQuiet ==
  ASSUME WellTyped, NEW w \in Workers, Done(w) \/ worker' = [worker EXCEPT ![w] = NewProcess]
  PROVE  \A v \in Workers : ProcessQuiet(worker[v], worker'[v])
BY ProcessTypes DEF Done, ProcessQuiet, WellTyped, TypeOK, NewProcess, BusyWithJob, Busy

\* What does not change is quiet.
LEMMA PassQuiet ==
  /\ job' = job => \A j \in Jobs : RowQuiet(job[j], job'[j])
  /\ WellTyped /\ worker' = worker => \A w \in Workers : ProcessQuiet(worker[w], worker'[w])
BY DEF RowQuiet, ProcessQuiet

\* A single process that goes on with its attempt.
LEMMA GoesOnQuiet ==
  ASSUME WellTyped, NEW w \in Workers, worker[w].pc # "idle", NEW p,
         worker' = [worker EXCEPT ![w] = p],
         p.job = worker[w].job, p.attempt = worker[w].attempt
  PROVE  \A v \in Workers : ProcessQuiet(worker[v], worker'[v])
BY DEF ProcessQuiet, WellTyped, TypeOK

\* The steps up to the submission are quiet.
LEMMA SubmissionQuiet ==
  ASSUME WellTyped, NEW w \in Workers,
         \/ BindContract(w) \/ BindConflict(w) \/ InvalidPayload(w)
         \/ StartSubmission(w) \/ LeaseLost(w) \/ Send(w)
  PROVE  Quiet
<1>1. CASE BindContract(w)
  <2> DEFINE p == [worker[w] EXCEPT !.pc = "bound", !.capability = Probed(w)]
  <2>1. /\ worker' = [worker EXCEPT ![w] = p] /\ worker[w].pc # "idle"
        /\ p.job = worker[w].job /\ p.attempt = worker[w].attempt
    BY <1>1 DEF BindContract, WellTyped, TypeOK, Process
  <2> HIDE DEF p
  <2>2. \A v \in Workers : ProcessQuiet(worker[v], worker'[v])
    BY <2>1, GoesOnQuiet
  <2>3. \A j \in Jobs : RowQuiet(job[j], job'[j])
    BY <1>1 DEF BindContract, RowQuiet, WellTyped, TypeOK, JobRow
  <2> QED BY <2>2, <2>3 DEF Quiet
<1>2. CASE BindConflict(w)
  <2> DEFINE p == [Idle(worker[w]) EXCEPT !.capability = Probed(w)]
  <2>1. worker' = [worker EXCEPT ![w] = p] /\ p.pc = "idle"
    BY <1>2, ProcessTypes DEF BindConflict, WellTyped, TypeOK, Process
  <2> HIDE DEF p
  <2>2. \A v \in Workers : ProcessQuiet(worker[v], worker'[v])
    BY <2>1 DEF ProcessQuiet, WellTyped, TypeOK
  <2> QED BY <1>2, <2>2, FailEnds DEF BindConflict, Ends, Quiet
<1>3. CASE InvalidPayload(w)
  BY <1>3, FailEnds, DoneQuiet DEF InvalidPayload, Done, Ends, Quiet
<1>4. CASE StartSubmission(w)
  BY <1>4, HasJob DEF StartSubmission, Quiet, RowQuiet, ProcessQuiet, WellTyped, TypeOK,
                      JobRow, Process
<1>5. CASE LeaseLost(w)
  BY <1>5, DoneQuiet, PassQuiet DEF LeaseLost, Quiet
<1>6. CASE Send(w)
  BY <1>6, PassQuiet DEF Send, Quiet, ProcessQuiet, WellTyped, TypeOK, Process
<1> QED BY <1>1, <1>2, <1>3, <1>4, <1>5, <1>6

\* An answer leaves the process with its job and attempt.
LEMMA AnsweredQuiet ==
  ASSUME WellTyped, NEW w \in Workers, worker[w].pc # "idle", NEW answer, NEW doc,
         Answered(w, answer, doc)
  PROVE  \A v \in Workers : ProcessQuiet(worker[v], worker'[v])
<1> DEFINE p == [worker[w] EXCEPT !.pc = "answered", !.answer = answer, !.doc = doc]
<1>1. p.job = worker[w].job /\ p.attempt = worker[w].attempt
  BY DEF WellTyped, TypeOK, Process
<1>2. worker' = [worker EXCEPT ![w] = p]
  BY DEF Answered
<1> HIDE DEF p
<1> QED BY <1>1, <1>2, GoesOnQuiet

\* The call and its heartbeat are quiet.
LEMMA CallQuiet ==
  ASSUME WellTyped, NEW w \in Workers,
         \/ HeartbeatRenews(w) \/ HeartbeatFails(w) \/ NeverSent(w)
         \/ AnswerLost(w) \/ RefusalReceived(w) \/ DocumentReceived(w)
  PROVE  Quiet
<1>1. CASE HeartbeatRenews(w)
  BY <1>1, HasJob, PassQuiet DEF HeartbeatRenews, Quiet, RowQuiet, WellTyped, TypeOK, JobRow
<1>2. CASE HeartbeatFails(w)
  BY <1>2, PassQuiet DEF HeartbeatFails, Beating, Quiet, ProcessQuiet, WellTyped, TypeOK, Process
<1>3. CASE NeverSent(w)
  BY <1>3, PassQuiet, AnsweredQuiet DEF NeverSent, Quiet
<1>4. CASE AnswerLost(w)
  BY <1>4, PassQuiet, AnsweredQuiet DEF AnswerLost, Quiet
<1>5. CASE RefusalReceived(w)
  BY <1>5, PassQuiet, AnsweredQuiet DEF RefusalReceived, Quiet
<1>6. CASE DocumentReceived(w)
  BY <1>6, PassQuiet, AnsweredQuiet DEF DocumentReceived, Quiet
<1> QED BY <1>1, <1>2, <1>3, <1>4, <1>5, <1>6

\* Recording an outcome is quiet.
LEMMA RecordQuiet ==
  ASSUME WellTyped, NEW w \in Workers,
         \/ RecordDelivered(w) \/ DeliveredCommitFails(w) \/ RecordRetry(w)
         \/ RecordPermanent(w) \/ RecordUncertain(w) \/ RecordDeferred(w)
  PROVE  Quiet
<1>1. CASE RecordDelivered(w)
  BY <1>1, DeliveredEnds, DoneQuiet DEF RecordDelivered, Ends, Quiet
<1>2. CASE DeliveredCommitFails(w)
  BY <1>2, PassQuiet DEF DeliveredCommitFails, Recording, Quiet, ProcessQuiet, WellTyped,
                         TypeOK, Process
<1>3. CASE RecordRetry(w)
  BY <1>3, RetryEnds, DoneQuiet DEF RecordRetry, Ends, Quiet
<1>4. CASE RecordPermanent(w)
  BY <1>4, FailEnds, DoneQuiet DEF RecordPermanent, Ends, Quiet
<1>5. CASE RecordUncertain(w)
  BY <1>5, UncertainEnds, DoneQuiet DEF RecordUncertain, Ends, Quiet
<1>6. CASE RecordDeferred(w)
  BY <1>6, PassQuiet, DoneQuiet DEF RecordDeferred, Quiet
<1> QED BY <1>1, <1>2, <1>3, <1>4, <1>5, <1>6

\* Every step but a claim is quiet.
LEMMA QuietStep ==
  ASSUME WellTyped, [Next]_vars, \A w \in Workers, j \in Jobs : ~Claim(w, j)
  PROVE  Quiet
<1>1. ASSUME NEW j \in Jobs, Watcher(j) PROVE Quiet
  <2>1. worker' = worker
    BY <1>1 DEF Watcher, Reserve, ReserveRefused, Persist, PersistFails, WatcherCrashes
  <2>2. \A k \in Jobs : RowQuiet(job[k], job'[k])
    <3>1. CASE Persist(j)
      BY <3>1 DEF Persist, RowQuiet, WellTyped, TypeOK, JobRow
    <3>2. CASE ~Persist(j)
      BY <1>1, <3>2, PassQuiet
         DEF Watcher, Reserve, ReserveRefused, PersistFails, WatcherCrashes
    <3> QED BY <3>1, <3>2
  <2> QED BY <2>1, <2>2, PassQuiet DEF Quiet
<1>2. ASSUME NEW w \in Workers, Recover(w) \/ ClaimNothing(w) PROVE Quiet
  <2>1. \A j \in Jobs : RowQuiet(job[j], job'[j])
    BY <1>2, SweepQuiet DEF Recover, ClaimNothing, WellTyped, TypeOK
  <2>2. worker' = worker
    BY <1>2 DEF Recover, ClaimNothing
  <2> QED BY <2>1, <2>2, PassQuiet DEF Quiet
<1>3. ASSUME NEW w \in Workers, WorkerStep(w) PROVE Quiet
  BY <1>2, <1>3, SubmissionQuiet, CallQuiet, RecordQuiet DEF WorkerStep
<1>4. ASSUME NEW w \in Workers, Crash(w) PROVE Quiet
  BY <1>4, PassQuiet, DoneQuiet DEF Crash, Quiet
<1>5. ASSUME NEW w \in Workers, HeartbeatRenews(w) \/ HeartbeatFails(w) PROVE Quiet
  BY <1>5, CallQuiet
<1>6. CASE job' = job /\ worker' = worker
  BY <1>6, PassQuiet DEF Quiet
<1>7. CASE Tick
  BY <1>7, PassQuiet DEF Tick, Quiet, RowQuiet, WellTyped, TypeOK, JobRow
<1>8. (\E j \in Jobs, a \in Attempts : Erpnext(j, a)) \/ (\E j \in Jobs : EventEnds(j))
      \/ ChangeSite \/ ChangeBudget \/ UNCHANGED vars
      => job' = job /\ worker' = worker
  BY EventEndsApart DEF Erpnext, Serve, Throttle, Reject, ChangeSite, ChangeBudget, vars
<1> QED BY <1>1, <1>3, <1>4, <1>5, <1>6, <1>7, <1>8 DEF Next, PollEmpty

\* A claim counts the attempt when it leases the job.
LEMMA ClaimCounts ==
  ASSUME WellTyped, NEW w \in Workers, NEW j \in Jobs, Claim(w, j)
  PROVE  /\ job[j].attempts \in Nat
         /\ job'[j].attempts = job[j].attempts + 1 /\ job'[j].owner = w
         /\ job'[j].binding = job[j].binding
<1> DEFINE r == SweptRow(job[j])
<1>1. /\ r \in JobRow /\ r.attempts = job[j].attempts /\ r.attempts \in Nat
      /\ r.binding = job[j].binding
      /\ job'[j] = Leased(r, w)
  BY SweptRowType, Ranges DEF Claim, WellTyped, TypeOK, JobRow
<1> HIDE DEF r
<1> QED BY <1>1 DEF Leased, JobRow

\* No two processes are ever in the same attempt of a job.
LEMMA AttemptsStep ==
  ASSUME WellTyped, AttemptsOwned, [Next]_vars
  PROVE  AttemptsOwned'
<1>1. CASE \A w \in Workers, j \in Jobs : ~Claim(w, j)
  <2>1. Quiet
    BY <1>1, QuietStep
  <2>2. \A w \in Workers : worker'[w].pc # "idle" =>
          /\ worker[w].pc # "idle" /\ worker[w].job \in Jobs
          /\ worker'[w].job = worker[w].job /\ worker'[w].attempt = worker[w].attempt
          /\ RowQuiet(job[worker[w].job], job'[worker[w].job])
    BY <2>1 DEF Quiet, ProcessQuiet, WellTyped, BusyWithJob, Busy
  <2> QED BY <2>2 DEF AttemptsOwned, RowQuiet
<1>2. ASSUME NEW u \in Workers, NEW k \in Jobs, Claim(u, k) PROVE AttemptsOwned'
  <2>1. /\ worker'[u].pc # "idle" /\ worker'[u].job = k
        /\ worker'[u].attempt = job[k].attempts + 1
        /\ \A w \in Workers : w # u => worker'[w] = worker[w]
    BY <1>2 DEF Claim, WellTyped, TypeOK, Process
  <2>2. \A j \in Jobs : j # k => RowQuiet(job[j], job'[j])
    BY <1>2, SweepQuiet DEF Claim, WellTyped, TypeOK
  <2>3. job[k].attempts \in Nat /\ job'[k].attempts = job[k].attempts + 1 /\ job'[k].owner = u
    BY <1>2, ClaimCounts
  <2>4. \A w \in Workers : worker[w].pc # "idle" =>
          worker[w].job \in Jobs /\ worker[w].attempt \in Nat
    BY DEF WellTyped, BusyWithJob, Busy, Attempts
  <2> QED BY <2>1, <2>2, <2>3, <2>4 DEF AttemptsOwned, RowQuiet
<1> QED BY <1>1, <1>2

\* What a step does to the request of one attempt.
RequestMoves(r, q) ==
  \/ q = r
  \/ r.status = "sent" /\ q.status \in Statuses /\ q.to = r.to

\* A request that was sent is resolved at most once; nothing else moves but by Send.
LEMMA RequestStep ==
  ASSUME WellTyped, [Next]_vars
  PROVE  \/ \E w \in Workers : Send(w)
         \/ \A j \in Jobs, a \in Attempts : RequestMoves(request[j][a], request'[j][a])
<1>1. ASSUME NEW k \in Jobs, NEW b \in Attempts, Erpnext(k, b)
      PROVE  \A j \in Jobs, a \in Attempts : RequestMoves(request[j][a], request'[j][a])
  <2>1. PICK status \in Statuses : Handled(k, b, status) /\ request[k][b].status = "sent"
    BY <1>1 DEF Erpnext, Serve, Throttle, Reject, Statuses
  <2> DEFINE r == [request[k][b] EXCEPT !.status = status]
  <2>2. request[k][b] \in Sendings
    BY <2>1 DEF WellTyped, TypeOK, Request, NoRequest
  <2>3. r.status \in Statuses /\ r.to = request[k][b].to
    BY <2>2 DEF Sendings
  <2>4. request' = [request EXCEPT ![k][b] = r]
    BY <2>1 DEF Handled
  <2> HIDE DEF r
  <2> QED BY <2>1, <2>3, <2>4 DEF RequestMoves, WellTyped, TypeOK
<1>2. CASE request' = request
  BY <1>2 DEF RequestMoves
<1>3. ASSUME NEW w \in Workers, WorkerStep(w) PROVE Send(w) \/ request' = request
  BY <1>3 DEF WorkerStep, Recover, ClaimNothing, Claim, BindContract, BindConflict,
       InvalidPayload, StartSubmission, LeaseLost, NeverSent, AnswerLost, RefusalReceived,
       DocumentReceived, RecordDelivered, DeliveredCommitFails, RecordRetry,
       RecordPermanent, RecordUncertain, RecordDeferred
<1>4. (\E j \in Jobs : Watcher(j) \/ EventEnds(j)) \/ ChangeSite \/ ChangeBudget \/ Tick
      \/ UNCHANGED vars
      \/ (\E w \in Workers : Crash(w) \/ HeartbeatRenews(w) \/ HeartbeatFails(w))
      => request' = request
  BY EventEndsApart DEF Watcher, Reserve, ReserveRefused, Persist, PersistFails, WatcherCrashes, ChangeSite,
       ChangeBudget, Tick, vars, Crash, HeartbeatRenews, HeartbeatFails
<1> QED BY <1>1, <1>2, <1>3, <1>4 DEF Next, PollEmpty

\* What one step does to one process.
Answering(w) == NeverSent(w) \/ AnswerLost(w) \/ RefusalReceived(w) \/ DocumentReceived(w)

ProcessMoves(w) ==
  \/ worker'[w] = worker[w]
  \/ worker'[w].pc = "idle"
  \/ \E j \in Jobs : Claim(w, j)
  \/ BindContract(w) \/ StartSubmission(w) \/ Send(w) \/ Answering(w)
  \/ worker' = [worker EXCEPT ![w].lost = TRUE]

\* The moves of one process leave the others alone.
LEMMA OwnMoves ==
  ASSUME WellTyped, NEW w \in Workers, WorkerStep(w) \/ Crash(w) \/ HeartbeatFails(w)
  PROVE  /\ ProcessMoves(w)
         /\ \A v \in Workers : v # w => worker'[v] = worker[v]
<1> DEFINE p == [Idle(worker[w]) EXCEPT !.capability = Probed(w)]
<1>1. Idle(worker[w]).pc = "idle" /\ NewProcess.pc = "idle" /\ p.pc = "idle"
  BY ProcessTypes DEF NewProcess, WellTyped, TypeOK, Process
<1>2. CASE Recover(w) \/ ClaimNothing(w)
  BY <1>2 DEF Recover, ClaimNothing, ProcessMoves
<1>3. CASE \/ \E j \in Jobs : Claim(w, j)
           \/ BindContract(w) \/ StartSubmission(w) \/ Send(w) \/ Answering(w)
  BY <1>3 DEF Claim, BindContract, StartSubmission, Send, Answering, NeverSent, AnswerLost,
       RefusalReceived, DocumentReceived, Answered, ProcessMoves, WellTyped, TypeOK
<1>4. CASE DeliveredCommitFails(w) \/ HeartbeatFails(w)
  BY <1>4 DEF DeliveredCommitFails, HeartbeatFails, ProcessMoves, WellTyped, TypeOK
<1>5. CASE \/ BindConflict(w) \/ InvalidPayload(w) \/ LeaseLost(w) \/ Crash(w)
           \/ RecordDelivered(w) \/ RecordRetry(w) \/ RecordPermanent(w)
           \/ RecordUncertain(w) \/ RecordDeferred(w)
  <2>1. \/ worker' = [worker EXCEPT ![w] = Idle(worker[w])]
        \/ worker' = [worker EXCEPT ![w] = NewProcess]
        \/ worker' = [worker EXCEPT ![w] = p]
    BY <1>5 DEF BindConflict, InvalidPayload, LeaseLost, Crash, Done, RecordDelivered,
         RecordRetry, RecordPermanent, RecordUncertain, RecordDeferred
  <2> HIDE DEF p
  <2> QED BY <1>1, <2>1 DEF ProcessMoves, WellTyped, TypeOK
<1> QED BY <1>2, <1>3, <1>4, <1>5 DEF WorkerStep, Answering

\* Every step moves every process in one of those ways.
LEMMA ProcessStep ==
  ASSUME WellTyped, [Next]_vars, NEW w \in Workers
  PROVE  ProcessMoves(w)
<1>1. ASSUME NEW v \in Workers, WorkerStep(v) \/ Crash(v) \/ HeartbeatFails(v)
      PROVE  ProcessMoves(w)
  <2>1. CASE v = w
    BY <1>1, <2>1, OwnMoves
  <2>2. CASE v # w
    <3>1. worker'[w] = worker[w]
      BY <1>1, <2>2, OwnMoves
    <3> QED BY <3>1 DEF ProcessMoves
  <2> QED BY <2>1, <2>2
<1>2. (\E j \in Jobs : Watcher(j) \/ EventEnds(j))
      \/ (\E j \in Jobs, a \in Attempts : Erpnext(j, a))
      \/ ChangeSite \/ ChangeBudget \/ Tick \/ UNCHANGED vars
      \/ (\E v \in Workers : HeartbeatRenews(v))
      => worker' = worker
  BY EventEndsApart DEF Watcher, Reserve, ReserveRefused, Persist, PersistFails, WatcherCrashes, Erpnext, Serve,
       Throttle, Reject, ChangeSite, ChangeBudget, Tick, vars, HeartbeatRenews
<1>3. CASE worker' = worker
  BY <1>3 DEF ProcessMoves
<1> QED BY <1>1, <1>2, <1>3 DEF Next, PollEmpty

\* What the moves change of the stage, the capability and the answer.
LEMMA MoveEffects ==
  ASSUME WellTyped, NEW w \in Workers
  PROVE  /\ BindContract(w) => /\ worker[w].pc = "leased" /\ worker'[w].pc = "bound"
                               /\ worker'[w].capability = Probed(w)
         /\ StartSubmission(w) => /\ worker[w].pc = "bound" /\ worker'[w].pc = "submitting"
                                  /\ worker'[w].capability = worker[w].capability
         /\ Send(w) => /\ worker[w].pc = "submitting" /\ worker'[w].pc = "calling"
                       /\ worker'[w].capability = worker[w].capability
         /\ Answering(w) => /\ worker[w].pc \in {"submitting", "calling"}
                            /\ worker'[w].pc = "answered"
                            /\ worker'[w].capability = worker[w].capability
         /\ worker' = [worker EXCEPT ![w].lost = TRUE] =>
              /\ worker'[w].pc = worker[w].pc /\ worker'[w].answer = worker[w].answer
              /\ worker'[w].capability = worker[w].capability
         /\ \A j \in Jobs : Claim(w, j) => /\ worker[w].pc = "idle"
                                           /\ worker'[w].pc = IF Verified THEN "leased" ELSE "bound"
<1>1. BindContract(w) => /\ worker[w].pc = "leased" /\ worker'[w].pc = "bound"
                         /\ worker'[w].capability = Probed(w)
  BY DEF BindContract, WellTyped, TypeOK, Process
<1>2. /\ StartSubmission(w) => /\ worker[w].pc = "bound" /\ worker'[w].pc = "submitting"
                               /\ worker'[w].capability = worker[w].capability
      /\ Send(w) => /\ worker[w].pc = "submitting" /\ worker'[w].pc = "calling"
                    /\ worker'[w].capability = worker[w].capability
  BY DEF StartSubmission, Send, WellTyped, TypeOK, Process
<1>3. ASSUME Answering(w)
      PROVE  /\ worker[w].pc \in {"submitting", "calling"}
             /\ worker'[w].pc = "answered"
             /\ worker'[w].capability = worker[w].capability
  <2>1. PICK answer, doc : Answered(w, answer, doc)
    BY <1>3 DEF Answering, NeverSent, AnswerLost, RefusalReceived, DocumentReceived
  <2>2. worker'[w].pc = "answered" /\ worker'[w].capability = worker[w].capability
    BY <2>1 DEF Answered, WellTyped, TypeOK, Process
  <2> QED BY <1>3, <2>2 DEF Answering, NeverSent, AnswerLost, RefusalReceived, DocumentReceived
<1>4. worker' = [worker EXCEPT ![w].lost = TRUE] =>
        /\ worker'[w].pc = worker[w].pc /\ worker'[w].answer = worker[w].answer
        /\ worker'[w].capability = worker[w].capability
  BY DEF WellTyped, TypeOK, Process
<1>5. \A j \in Jobs : Claim(w, j) =>
        worker[w].pc = "idle" /\ worker'[w].pc = IF Verified THEN "leased" ELSE "bound"
  BY DEF Claim, WellTyped, TypeOK, Process
<1> QED BY <1>1, <1>2, <1>3, <1>4, <1>5

\* A process that has not sent its request was no further a step ago.
LEMMA EarlyStages ==
  ASSUME WellTyped, [Next]_vars, NEW w \in Workers, \A v \in Workers, j \in Jobs : ~Claim(v, j)
  PROVE  worker'[w].pc \in Unsent => worker[w].pc \in Unsent
BY ProcessStep, MoveEffects DEF ProcessMoves, Unsent

\* Nothing is sent for an attempt before its process sends it: preserved.
LEMMA RequestsStep ==
  ASSUME WellTyped, AttemptsOwned, RequestsOwned, [Next]_vars
  PROVE  RequestsOwned'
<1>0. /\ \A j \in Jobs : job[j].attempts \in Nat
      /\ \A w \in Workers : worker[w].pc # "idle" =>
           worker[w].job \in Jobs /\ worker[w].attempt \in Attempts
      /\ Attempts \subseteq Nat
  BY Ranges DEF WellTyped, TypeOK, JobRow, BusyWithJob, Busy
<1>1. ASSUME NEW u \in Workers, Send(u) PROVE RequestsOwned'
  <2> DEFINE k == worker[u].job
             b == worker[u].attempt
  <2>1. /\ k \in Jobs /\ b \in Attempts /\ b <= job[k].attempts /\ job' = job
        /\ worker'[u].pc = "calling"
        /\ \A w \in Workers : w # u => worker'[w] = worker[w]
        /\ \A j \in Jobs, a \in Attempts :
             ~(j = k /\ a = b) => request'[j][a] = request[j][a]
    BY <1>0, <1>1 DEF Send, AttemptsOwned, WellTyped, TypeOK, Process
  <2>2. \A w \in Workers : w # u /\ worker[w].pc # "idle" =>
          ~(worker[w].job = k /\ worker[w].attempt = b)
    BY <1>1 DEF Send, AttemptsOwned
  <2>3. \A j \in Jobs, a \in Attempts :
          a > job'[j].attempts => request'[j][a].status = "none"
    <3> HIDE DEF k, b
    <3> QED BY <1>0, <2>1 DEF RequestsOwned
  <2>4. \A w \in Workers : worker'[w].pc \in Unsent =>
          request'[worker'[w].job][worker'[w].attempt].status = "none"
    <3> HIDE DEF k, b
    <3>1. ASSUME NEW w \in Workers, worker'[w].pc \in Unsent
          PROVE  request'[worker'[w].job][worker'[w].attempt].status = "none"
      <4>1. w # u /\ worker'[w] = worker[w] /\ worker[w].pc \in Unsent /\ worker[w].pc # "idle"
        BY <2>1, <3>1 DEF Unsent
      <4>2. /\ worker[w].job \in Jobs /\ worker[w].attempt \in Attempts
            /\ ~(worker[w].job = k /\ worker[w].attempt = b)
        BY <1>0, <2>2, <4>1
      <4>3. request[worker[w].job][worker[w].attempt].status = "none"
        BY <4>1 DEF RequestsOwned
      <4> QED BY <2>1, <4>1, <4>2, <4>3
    <3> QED BY <3>1
  <2> QED BY <2>3, <2>4 DEF RequestsOwned
<1>2. ASSUME \A j \in Jobs, a \in Attempts : RequestMoves(request[j][a], request'[j][a]),
             \A w \in Workers, j \in Jobs : ~Claim(w, j)
      PROVE  RequestsOwned'
  <2>1. Quiet
    BY <1>2, QuietStep
  <2>2. \A j \in Jobs, a \in Attempts :
          request[j][a].status = "none" => request'[j][a].status = "none"
    BY <1>2 DEF RequestMoves
  <2>3. \A w \in Workers : worker'[w].pc \in Unsent => worker[w].pc \in Unsent
    BY <1>2, EarlyStages
  <2>4. \A w \in Workers : worker'[w].pc # "idle" =>
          worker'[w].job = worker[w].job /\ worker'[w].attempt = worker[w].attempt
    BY <2>1 DEF Quiet, ProcessQuiet
  <2>5. \A j \in Jobs : job'[j].attempts = job[j].attempts
    BY <2>1 DEF Quiet, RowQuiet
  <2> QED BY <1>0, <2>2, <2>3, <2>4, <2>5 DEF RequestsOwned, Unsent
<1>3. ASSUME NEW u \in Workers, NEW k \in Jobs, Claim(u, k) PROVE RequestsOwned'
  <2>1. /\ worker'[u].job = k /\ worker'[u].attempt = job[k].attempts + 1
        /\ \A w \in Workers : w # u => worker'[w] = worker[w]
        /\ request' = request
    BY <1>3 DEF Claim, WellTyped, TypeOK, Process
  <2>2. job'[k].attempts = job[k].attempts + 1
    BY <1>3, ClaimCounts
  <2>3. \A j \in Jobs : j # k => job'[j].attempts = job[j].attempts
    BY <1>3, SweepQuiet DEF Claim, WellTyped, TypeOK, RowQuiet
  <2>4. worker'[u].attempt \in Attempts
    BY <1>3, <2>1, ClaimWellTyped DEF Claim, WellTyped, TypeOK, BusyWithJob, Busy, Process
  <2> QED BY <1>0, <2>1, <2>2, <2>3, <2>4 DEF RequestsOwned
<1> QED BY <1>1, <1>2, <1>3, RequestStep

\* What a step does to the state, the binding and the documents of a job.
LEMMA AbsentStays ==
  ASSUME WellTyped, [Next]_vars, NEW j \in Jobs, job[j].state = "absent", ~Persist(j)
  PROVE  job'[j].state = "absent"
<1>1. ASSUME NEW k \in Jobs, Watcher(k) PROVE job'[j].state = "absent"
  BY <1>1 DEF Watcher, Reserve, ReserveRefused, Persist, PersistFails, WatcherCrashes,
       WellTyped, TypeOK, JobRow
<1>2. SweptRow(job[j]) = job[j] /\ RecoveredRow(job[j]) = job[j]
  BY DEF SweptRow, RecoveredRow, OutOfBudget, LeaseExpired, Queued
<1>3. ASSUME NEW w \in Workers, \/ Recover(w) \/ ClaimNothing(w) \/ \E k \in Jobs : Claim(w, k)
      PROVE  job'[j].state = "absent"
  BY <1>2, <1>3 DEF Recover, ClaimNothing, Claim, Claimable, Queued
<1>4. ASSUME NEW w \in Workers, HoldsLease(w), worker[w].job = j PROVE FALSE
  BY <1>4 DEF HoldsLease
<1>5. ASSUME NEW w \in Workers,
             \/ BindContract(w) \/ StartSubmission(w) \/ HeartbeatRenews(w)
      PROVE  job'[j].state = "absent"
  BY <1>4, <1>5 DEF BindContract, StartSubmission, HeartbeatRenews, WellTyped, TypeOK
<1>6. ASSUME NEW w \in Workers,
             \/ BindConflict(w) \/ InvalidPayload(w) \/ RecordDelivered(w) \/ RecordRetry(w)
             \/ RecordPermanent(w) \/ RecordUncertain(w)
      PROVE  job'[j].state = "absent"
  BY <1>4, <1>6, FailEnds, DeliveredEnds, RetryEnds, UncertainEnds
     DEF BindConflict, InvalidPayload, FailPermanently, RecordDelivered, RecordRetry,
         RecordPermanent, RecordUncertain, Ends
<1>7. ASSUME NEW w \in Workers,
             \/ LeaseLost(w) \/ Send(w) \/ Answering(w) \/ DeliveredCommitFails(w)
             \/ RecordDeferred(w) \/ Crash(w) \/ HeartbeatFails(w)
      PROVE  job'[j].state = "absent"
  BY <1>7 DEF LeaseLost, Send, Answering, NeverSent, AnswerLost, RefusalReceived,
       DocumentReceived, DeliveredCommitFails, RecordDeferred, Crash, HeartbeatFails
<1>8. CASE Tick
  BY <1>8 DEF Tick, WellTyped, TypeOK, JobRow
<1>9. (\E k \in Jobs, a \in Attempts : Erpnext(k, a)) \/ (\E k \in Jobs : EventEnds(k))
      \/ ChangeSite \/ ChangeBudget \/ UNCHANGED vars
      => job' = job
  BY EventEndsApart DEF Erpnext, Serve, Throttle, Reject, ChangeSite, ChangeBudget, vars
<1> QED BY <1>1, <1>3, <1>5, <1>6, <1>7, <1>8, <1>9 DEF Next, PollEmpty, WorkerStep, Answering

\* Workers, ERPNext and the clock do nothing to a face.
LEMMA FacesStay ==
  ASSUME [Next]_vars, \A k \in Jobs : ~Watcher(k) /\ ~EventEnds(k)
  PROVE  face' = face
BY DEF Next, WorkerStep, Recover, ClaimNothing, Claim, BindContract, BindConflict,
     InvalidPayload, StartSubmission, LeaseLost, Send, NeverSent, AnswerLost,
     RefusalReceived, DocumentReceived, RecordDelivered, DeliveredCommitFails, RecordRetry,
     RecordPermanent, RecordUncertain, RecordDeferred, Crash, HeartbeatRenews,
     HeartbeatFails, Erpnext, Serve, Throttle, Reject, ChangeSite, ChangeBudget, Tick,
     PollEmpty, vars

\* A decision that is not persisted has no job: preserved.
LEMMA UnpersistedStep ==
  ASSUME WellTyped, Unpersisted, [Next]_vars
  PROVE  Unpersisted'
<1>1. \A j \in Jobs : ~Recorded(j)' => ~Recorded(j) /\ ~Persist(j)
  <2>1. ASSUME NEW k \in Jobs, Watcher(k)
        PROVE  \A j \in Jobs : ~Recorded(j)' => ~Recorded(j) /\ ~Persist(j)
    BY <2>1 DEF Watcher, Reserve, ReserveRefused, Persist, PersistFails, WatcherCrashes,
         Recorded, WellTyped, TypeOK
  <2>2. ASSUME NEW k \in Jobs, EventEnds(k)
        PROVE  \A j \in Jobs : ~Recorded(j)' => ~Recorded(j)
    BY <2>2 DEF EventEnds, EventFails, EventTakenBack, Recorded, WellTyped, TypeOK
  <2>3. (\A k \in Jobs : ~Watcher(k) /\ ~EventEnds(k)) => face' = face
    BY FacesStay
  <2>4. \A j \in Jobs : Persist(j) => Watcher(j)
    BY DEF Watcher
  <2>5. face' = face => \A j \in Jobs : Recorded(j)' <=> Recorded(j)
    BY DEF Recorded
  <2>6. CASE \E k \in Jobs : Watcher(k)
    BY <2>1, <2>6
  <2>7. CASE \A k \in Jobs : ~Watcher(k)
    BY <2>2, <2>3, <2>4, <2>5, <2>7
  <2> QED BY <2>6, <2>7
<1> QED BY <1>1, AbsentStays DEF Unpersisted

\* A binding is written once (bind_delivery_job_idempotency_contract_by_lease).
LEMMA BindingStep ==
  ASSUME WellTyped, [Next]_vars, NEW j \in Jobs
  PROVE  \/ job'[j].binding = job[j].binding
         \/ \E w \in Workers : /\ BindContract(w) /\ worker[w].job = j
                               /\ job[j].binding \in {NoSite, Probed(w)}
                               /\ job'[j].binding = Probed(w)
<1>1. ASSUME NEW k \in Jobs, Watcher(k) PROVE job'[j].binding = job[j].binding
  <2>1. CASE Persist(k)
    BY <2>1 DEF Persist, WellTyped, TypeOK, JobRow
  <2>2. CASE ~Persist(k)
    BY <1>1, <2>2 DEF Watcher, Reserve, ReserveRefused, PersistFails, WatcherCrashes
  <2> QED BY <2>1, <2>2
<1>2. ASSUME NEW w \in Workers, Recover(w) \/ ClaimNothing(w)
      PROVE  job'[j].binding = job[j].binding
  BY <1>2, SweptRowType, RecoveredRowType DEF Recover, ClaimNothing, WellTyped, TypeOK
<1>3. ASSUME NEW w \in Workers, NEW k \in Jobs, Claim(w, k)
      PROVE  job'[j].binding = job[j].binding
  <2>1. CASE j = k
    BY <1>3, <2>1, ClaimCounts
  <2>2. CASE j # k
    BY <1>3, <2>2, SweptRowType DEF Claim, WellTyped, TypeOK
  <2> QED BY <2>1, <2>2
<1>4. ASSUME NEW w \in Workers, BindContract(w)
      PROVE  \/ job'[j].binding = job[j].binding
             \/ /\ worker[w].job = j
                /\ job[j].binding \in {NoSite, Probed(w)}
                /\ job'[j].binding = Probed(w)
  BY <1>4 DEF BindContract, WellTyped, TypeOK, JobRow
<1>5. ASSUME NEW w \in Workers, StartSubmission(w) \/ HeartbeatRenews(w)
      PROVE  job'[j].binding = job[j].binding
  BY <1>5 DEF StartSubmission, HeartbeatRenews, WellTyped, TypeOK, JobRow
<1>6. ASSUME NEW w \in Workers,
             \/ BindConflict(w) \/ InvalidPayload(w) \/ RecordDelivered(w) \/ RecordRetry(w)
             \/ RecordPermanent(w) \/ RecordUncertain(w)
      PROVE  job'[j].binding = job[j].binding
  BY <1>6, FailEnds, DeliveredEnds, RetryEnds, UncertainEnds
     DEF BindConflict, InvalidPayload, RecordPermanent, Ends
<1>7. ASSUME NEW w \in Workers,
             \/ LeaseLost(w) \/ Send(w) \/ Answering(w) \/ DeliveredCommitFails(w)
             \/ RecordDeferred(w) \/ Crash(w) \/ HeartbeatFails(w)
      PROVE  job'[j].binding = job[j].binding
  BY <1>7 DEF LeaseLost, Send, Answering, NeverSent, AnswerLost, RefusalReceived,
       DocumentReceived, DeliveredCommitFails, RecordDeferred, Crash, HeartbeatFails
<1>8. CASE Tick
  BY <1>8 DEF Tick, WellTyped, TypeOK, JobRow
<1>9. (\E k \in Jobs, a \in Attempts : Erpnext(k, a)) \/ (\E k \in Jobs : EventEnds(k))
      \/ ChangeSite \/ ChangeBudget \/ UNCHANGED vars
      => job' = job
  BY EventEndsApart DEF Erpnext, Serve, Throttle, Reject, ChangeSite, ChangeBudget, vars
<1> QED BY <1>1, <1>2, <1>3, <1>4, <1>5, <1>6, <1>7, <1>8, <1>9
        DEF Next, PollEmpty, WorkerStep, Answering

\* Check-ins are created by serving a request and in no other way.
LEMMA DocsStep ==
  ASSUME [Next]_vars
  PROVE  docs' = docs \/ \E j \in Jobs, a \in Attempts : Serve(j, a)
BY EventEndsApart
   DEF Next, Watcher, Reserve, ReserveRefused, Persist, PersistFails, WatcherCrashes,
     WorkerStep, Recover, ClaimNothing, Claim, BindContract, BindConflict,
     InvalidPayload, StartSubmission, LeaseLost, Send, NeverSent, AnswerLost,
     RefusalReceived, DocumentReceived, RecordDelivered, DeliveredCommitFails, RecordRetry,
     RecordPermanent, RecordUncertain, RecordDeferred, Crash, HeartbeatRenews,
     HeartbeatFails, Erpnext, Throttle, Reject, ChangeSite, ChangeBudget, Tick,
     PollEmpty, vars

\* With the contract: one destination per job, where the delivery id is unique.
LEMMA CapabilityStep ==
  ASSUME WellTyped, Verified, Bound, [Next]_vars, NEW w \in Workers,
         worker'[w].pc \notin {"idle", "leased"}
  PROVE  worker'[w].capability = job'[worker'[w].job].binding
<1>1. \A v \in Workers : ~(\E j \in Jobs : Claim(v, j)) \/ v # w
  BY MoveEffects
<1>2. CASE BindContract(w)
  <2>1. /\ worker'[w].capability = Probed(w) /\ worker'[w].job = worker[w].job
        /\ worker[w].job \in Jobs
    BY <1>2 DEF BindContract, WellTyped, TypeOK, Process, BusyWithJob, Busy
  <2>2. job'[worker[w].job].binding = Probed(w)
    BY <1>2, <2>1 DEF BindContract, WellTyped, TypeOK, JobRow
  <2> QED BY <2>1, <2>2
<1>3. CASE ~BindContract(w)
  <2>1. /\ worker[w].pc \notin {"idle", "leased"}
        /\ worker'[w].capability = worker[w].capability
    BY <1>1, <1>3, ProcessStep, MoveEffects DEF ProcessMoves
  <2>2. worker'[w].job = worker[w].job
    <3>1. CASE \E v \in Workers, j \in Jobs : Claim(v, j)
      BY <1>1, <3>1 DEF Claim, WellTyped, TypeOK
    <3>2. CASE \A v \in Workers, j \in Jobs : ~Claim(v, j)
      BY <3>2, QuietStep DEF Quiet, ProcessQuiet
    <3> QED BY <3>1, <3>2
  <2>3. /\ worker[w].job \in Jobs
        /\ job[worker[w].job].binding = worker[w].capability
        /\ job[worker[w].job].binding \in Sites
    BY <2>1 DEF Bound, WellTyped, BusyWithJob, Busy
  <2>4. job'[worker[w].job].binding = job[worker[w].job].binding
    BY <2>3, BindingStep, OutboxAssumption
  <2> QED BY <2>1, <2>2, <2>3, <2>4
<1> QED BY <1>2, <1>3

\* With the contract, requests and check-ins keep to the bound destination.
LEMMA BoundStep ==
  ASSUME WellTyped, Verified, Bound, [Next]_vars
  PROVE  Bound'
<1>1. \A j \in Jobs : job[j].binding \in Sites => job'[j].binding = job[j].binding
  BY BindingStep, OutboxAssumption
<1>2. \A j \in Jobs, a \in Attempts : request[j][a].status # "none" =>
        request[j][a].to = job[j].binding /\ job[j].binding \in Sites
  BY DEF Bound, WellTyped, TypeOK, Request, NoRequest, Sendings
<1>3. \A j \in Jobs, a \in Attempts :
        request'[j][a].status # "none" => request'[j][a].to = job'[j].binding
  <2>1. ASSUME NEW w \in Workers, Send(w),
               NEW j \in Jobs, NEW a \in Attempts, request'[j][a].status # "none"
        PROVE  request'[j][a].to = job'[j].binding
    <3>1. /\ worker[w].job \in Jobs /\ worker[w].attempt \in Attempts /\ job' = job
          /\ worker[w].capability = job[worker[w].job].binding
      BY <2>1 DEF Send, Bound, WellTyped, BusyWithJob, Busy
    <3>2. CASE j = worker[w].job /\ a = worker[w].attempt
      BY <2>1, <3>1, <3>2 DEF Send, WellTyped, TypeOK
    <3>3. CASE ~(j = worker[w].job /\ a = worker[w].attempt)
      <4>1. request'[j][a] = request[j][a]
        BY <2>1, <3>1, <3>3 DEF Send, WellTyped, TypeOK
      <4> QED BY <1>2, <2>1, <3>1, <4>1
    <3> QED BY <3>2, <3>3
  <2>2. ASSUME NEW j \in Jobs, NEW a \in Attempts,
               RequestMoves(request[j][a], request'[j][a]), request'[j][a].status # "none"
        PROVE  request'[j][a].to = job'[j].binding
    BY <1>1, <1>2, <2>2 DEF RequestMoves
  <2> QED BY <2>1, <2>2, RequestStep
<1>4. /\ \A j \in Jobs : \A d \in docs'[j] : d.site = job'[j].binding
      /\ AtMostOneCheckin'
  <2>1. \A j \in Jobs : \A d \in docs[j] :
          d.site = job[j].binding /\ job[j].binding \in Sites
    BY DEF Bound, WellTyped, TypeOK, Documents
  <2>2. CASE docs' = docs
    BY <1>1, <2>1, <2>2 DEF Bound, AtMostOneCheckin
  <2>3. ASSUME NEW k \in Jobs, NEW a \in Attempts, Serve(k, a)
        PROVE  /\ \A j \in Jobs : \A d \in docs'[j] : d.site = job'[j].binding
               /\ AtMostOneCheckin'
    <3> DEFINE doc == [attempt |-> a, site |-> request[k][a].to]
    <3>1. request[k][a].to = job[k].binding /\ job' = job /\ doc.site = request[k][a].to
      BY <1>2, <2>3 DEF Serve
    <3>2. CASE \E d \in docs[k] : d.site = request[k][a].to
      <4>1. docs' = docs
        BY <2>3, <3>2 DEF Serve, WellTyped, TypeOK
      <4> QED BY <2>1, <3>1, <4>1 DEF Bound, AtMostOneCheckin
    <3>3. CASE ~(\E d \in docs[k] : d.site = request[k][a].to)
      <4>1. docs[k] = {}
        BY <2>1, <3>1, <3>3
      <4>2. docs' = [docs EXCEPT ![k] = {doc}]
        BY <2>3, <3>3, <4>1 DEF Serve
      <4> HIDE DEF doc
      <4> QED BY <2>1, <3>1, <4>2 DEF Bound, AtMostOneCheckin, WellTyped, TypeOK
    <3> QED BY <3>2, <3>3
  <2> QED BY <2>2, <2>3, DocsStep
<1> QED BY <1>3, <1>4, CapabilityStep DEF Bound

\* Without the contract: an open attempt is never followed by another.
LEMMA SweepGuards ==
  ASSUME budget \in Nat, NEW r \in JobRow, NEW a, Guards(r, a), r.binding = NoSite
  PROVE  /\ Guards(RecoveredRow(r), a) /\ Guards(SweptRow(r), a)
         /\ ~Claimable(SweptRow(r))
<1>1. ~OutOfBudget(r)
  BY DEF OutOfBudget, Guards
<1>2. CASE LeaseExpired(r)
  <2> DEFINE state == RecoveredState(r)
             wait == 0
  <2>1. state \in {"permanent_failure", "uncertain"}
    <3>1. r.submitted
      BY <1>2 DEF LeaseExpired, Guards
    <3>2. CASE r.attempts >= budget
      BY <3>2 DEF RecoveredState
    <3>3. CASE ~(r.attempts >= budget)
      <4>1. r.attempts < budget
        <5>1. r.attempts \in Nat
          BY Ranges DEF JobRow
        <5> QED BY <3>3, <5>1
      <4> QED BY <3>1, <3>3, <4>1 DEF RecoveredState
    <3> QED BY <3>2, <3>3
  <2>2. state \in JobStates /\ wait \in Nat
    BY <2>1, RowStates
  <2>3. SweptRow(r) = Unleased(r, state, wait) /\ RecoveredRow(r) = Unleased(r, state, wait)
    BY <1>1, <1>2 DEF SweptRow, RecoveredRow
  <2> HIDE DEF state, wait
  <2>4. Unleased(r, state, wait).state = state
    BY <2>2, UnleasedType
  <2> QED BY <2>1, <2>3, <2>4 DEF Guards, Claimable, Queued
<1>3. CASE ~LeaseExpired(r)
  BY <1>1, <1>3 DEF SweptRow, RecoveredRow, Guards, Claimable
<1> QED BY <1>2, <1>3

\* While an attempt is open, only RecordRetry could queue its job again.
LEMMA GuardsKept ==
  ASSUME WellTyped, NeverBound, Unpersisted, [Next]_vars, NEW j \in Jobs, NEW a,
         Guards(job[j], a), \A w \in Workers : worker[w].job = j => ~RecordRetry(w)
  PROVE  Guards(job'[j], a)
<1>0. job[j] \in JobRow /\ job[j].binding = NoSite /\ budget \in Nat
  BY Ranges DEF WellTyped, TypeOK, NeverBound
<1>1. ASSUME NEW k \in Jobs, Watcher(k) PROVE Guards(job'[j], a)
  <2>1. k # j \/ ~Persist(k)
    BY DEF Persist, Unpersisted, Recorded, Guards
  <2> QED BY <1>1, <2>1 DEF Watcher, Reserve, ReserveRefused, Persist, PersistFails,
                            WatcherCrashes, WellTyped, TypeOK
<1>2. ASSUME NEW w \in Workers, \/ Recover(w) \/ ClaimNothing(w) \/ \E k \in Jobs : Claim(w, k)
      PROVE  Guards(job'[j], a)
  BY <1>0, <1>2, SweepGuards DEF Recover, ClaimNothing, Claim
<1>3. ASSUME NEW w \in Workers, BindContract(w) \/ StartSubmission(w) \/ HeartbeatRenews(w)
      PROVE  Guards(job'[j], a)
  <2>0. job \in [Jobs -> JobRow]
    BY DEF WellTyped, TypeOK
  <2>1. CASE BindContract(w)
    BY <1>0, <2>0, <2>1 DEF BindContract, Guards, JobRow
  <2>2. CASE StartSubmission(w)
    BY <1>0, <2>0, <2>2 DEF StartSubmission, Guards, JobRow
  <2>3. CASE HeartbeatRenews(w)
    BY <1>0, <2>0, <2>3 DEF HeartbeatRenews, Guards, JobRow
  <2> QED BY <1>3, <2>1, <2>2, <2>3
<1>4. ASSUME NEW w \in Workers, NEW state \in Settled, Ends(w, state)
      PROVE  Guards(job'[j], a)
  BY <1>4 DEF Ends, Guards, Settled, Queued
<1>5. ASSUME NEW w \in Workers,
             \/ BindConflict(w) \/ InvalidPayload(w) \/ RecordDelivered(w)
             \/ RecordPermanent(w) \/ RecordUncertain(w)
      PROVE  Guards(job'[j], a)
  BY <1>4, <1>5, FailEnds, DeliveredEnds, UncertainEnds
     DEF BindConflict, InvalidPayload, RecordPermanent, Settled
<1>6. ASSUME NEW w \in Workers, RecordRetry(w) PROVE Guards(job'[j], a)
  BY <1>6, RetryEnds DEF Ends
<1>7. ASSUME NEW w \in Workers,
             \/ LeaseLost(w) \/ Send(w) \/ Answering(w) \/ DeliveredCommitFails(w)
             \/ RecordDeferred(w) \/ Crash(w) \/ HeartbeatFails(w)
      PROVE  Guards(job'[j], a)
  BY <1>7 DEF LeaseLost, Send, Answering, NeverSent, AnswerLost, RefusalReceived,
       DocumentReceived, DeliveredCommitFails, RecordDeferred, Crash, HeartbeatFails
<1>8. CASE Tick
  BY <1>0, <1>8 DEF Tick, Guards, JobRow
<1>9. (\E k \in Jobs, b \in Attempts : Erpnext(k, b)) \/ (\E k \in Jobs : EventEnds(k))
      \/ ChangeSite \/ ChangeBudget \/ UNCHANGED vars
      => job' = job
  BY EventEndsApart DEF Erpnext, Serve, Throttle, Reject, ChangeSite, ChangeBudget, vars
<1> QED BY <1>1, <1>2, <1>3, <1>5, <1>6, <1>7, <1>8, <1>9
        DEF Next, PollEmpty, WorkerStep, Answering

\* Only the mark of a submission opens an attempt.
LEMMA OpenStep ==
  ASSUME WellTyped, [Next]_vars, NEW j \in Jobs, NEW a \in Attempts, Open(j, a)'
  PROVE  \/ Open(j, a)
         \/ \E w \in Workers :
              StartSubmission(w) /\ worker[w].job = j /\ worker[w].attempt = a
<1>1. CASE request'[j][a].status \in {"sent", "served"}
  <2>1. CASE RequestMoves(request[j][a], request'[j][a])
    BY <1>1, <2>1 DEF RequestMoves, Open
  <2>2. ASSUME NEW w \in Workers, Send(w) PROVE Open(j, a)
    <3>1. worker[w].job \in Jobs /\ worker[w].attempt \in Attempts
      BY <2>2, HasJob DEF Send
    <3>2. CASE j = worker[w].job /\ a = worker[w].attempt
      BY <2>2, <3>2 DEF Send, Open
    <3>3. CASE ~(j = worker[w].job /\ a = worker[w].attempt)
      <4>1. request'[j][a] = request[j][a]
        BY <2>2, <3>1, <3>3 DEF Send, WellTyped, TypeOK
      <4> QED BY <1>1, <4>1 DEF Open
    <3> QED BY <3>2, <3>3
  <2> QED BY <2>1, <2>2, RequestStep
<1>2. ASSUME NEW w \in Workers,
             worker'[w].pc = "submitting", worker'[w].job = j, worker'[w].attempt = a
      PROVE  \/ Open(j, a)
             \/ StartSubmission(w) /\ worker[w].job = j /\ worker[w].attempt = a
  <2>1. worker[w].pc = "submitting" \/ StartSubmission(w)
    BY <1>2, ProcessStep, MoveEffects DEF ProcessMoves
  <2>2. worker[w].job = j /\ worker[w].attempt = a
    <3>1. CASE \E v \in Workers, k \in Jobs : Claim(v, k)
      <4>1. PICK v \in Workers, k \in Jobs : Claim(v, k)
        BY <3>1
      <4>2. v # w
        BY <1>2, <4>1, MoveEffects
      <4> QED BY <1>2, <4>1, <4>2 DEF Claim, WellTyped, TypeOK
    <3>2. CASE \A v \in Workers, k \in Jobs : ~Claim(v, k)
      BY <1>2, <3>2, QuietStep DEF Quiet, ProcessQuiet
    <3> QED BY <3>1, <3>2
  <2> QED BY <2>1, <2>2 DEF Open
<1> QED BY <1>1, <1>2 DEF Open

\* A worker that may retry left nothing behind: its attempt is closed.
LEMMA RetryIsClosed ==
  ASSUME WellTyped, ~Verified, AttemptsOwned, OneOpenAttempt, NEW w \in Workers, RecordRetry(w),
         NEW a \in Attempts
  PROVE  ~Open(worker[w].job, a)
<1> SUFFICES ASSUME Open(worker[w].job, a) PROVE FALSE
  OBVIOUS
<1>1. /\ worker[w].pc = "answered" /\ worker[w].answer = "safe" /\ HoldsLease(w)
  BY DEF RecordRetry, Recording, Outcome
<1>2. worker[w].job \in Jobs
  BY <1>1, HasJob
<1>3. a = worker[w].attempt
  BY <1>1, <1>2 DEF HoldsLease, OneOpenAttempt, Guards, AttemptsOwned
<1>4. request[worker[w].job][a].status \notin {"sent", "served"}
  BY <1>1, <1>3 DEF OneOpenAttempt
<1>5. PICK v \in Workers :
        worker[v].pc = "submitting" /\ worker[v].job = worker[w].job /\ worker[v].attempt = a
  BY <1>4 DEF Open
<1> QED BY <1>1, <1>3, <1>5 DEF AttemptsOwned

\* Without the contract no job is ever bound.
LEMMA NeverBoundStep ==
  ASSUME WellTyped, ~Verified, NeverBound, [Next]_vars
  PROVE  NeverBound'
<1>1. \A j \in Jobs : job'[j].binding = NoSite
  BY BindingStep DEF NeverBound, BindContract
<1>2. \A w \in Workers : worker'[w].pc # "leased"
  BY ProcessStep, MoveEffects DEF NeverBound, ProcessMoves
<1> QED BY <1>1, <1>2 DEF NeverBound

\* A submission is marked by the process whose lease it is.
LEMMA StartOpens ==
  ASSUME WellTyped, AttemptsOwned, OneOpenAttempt, NEW w \in Workers, StartSubmission(w)
  PROVE  /\ \A a \in Attempts : Open(worker[w].job, a) => a = worker[w].attempt
         /\ Guards(job'[worker[w].job], worker[w].attempt)
         /\ \A j \in Jobs : j # worker[w].job => job'[j] = job[j]
         /\ \A v \in Workers : StartSubmission(v) => v = w
<1>1. /\ worker[w].job \in Jobs /\ worker[w].pc = "bound"
      /\ job[worker[w].job].state = "leased" /\ job[worker[w].job] \in JobRow
      /\ job[worker[w].job].attempts = worker[w].attempt
  BY HasJob DEF StartSubmission, HoldsLease, AttemptsOwned
<1>2. \A a \in Attempts : Open(worker[w].job, a) => a = worker[w].attempt
  BY <1>1 DEF OneOpenAttempt, Guards
<1>3. /\ Guards(job'[worker[w].job], worker[w].attempt)
      /\ \A j \in Jobs : j # worker[w].job => job'[j] = job[j]
  BY <1>1 DEF StartSubmission, Guards, Queued, WellTyped, TypeOK, JobRow
<1>4. \A v \in Workers : StartSubmission(v) => v = w
  BY MoveEffects DEF StartSubmission, WellTyped, TypeOK
<1> QED BY <1>2, <1>3, <1>4

\* At most one attempt is open, and its job stays off the queue: preserved.
LEMMA OpenAttemptStep ==
  ASSUME WellTyped, ~Verified, AttemptsOwned, Unpersisted, NeverBound, OneOpenAttempt,
         [Next]_vars
  PROVE  /\ \A j \in Jobs, a, b \in Attempts : Open(j, a)' /\ Open(j, b)' => a = b
         /\ \A j \in Jobs, a \in Attempts : Open(j, a)' => Guards(job'[j], a)
<1>1. CASE \E w \in Workers : StartSubmission(w)
  <2>1. PICK w \in Workers : StartSubmission(w)
    BY <1>1
  <2>2. PICK k \in Jobs, b \in Attempts : worker[w].job = k /\ worker[w].attempt = b
    BY <2>1, HasJob DEF StartSubmission
  <2>3. \A j \in Jobs, a \in Attempts : Open(j, a)' => Open(j, a) \/ (j = k /\ a = b)
    BY <2>1, <2>2, OpenStep, StartOpens
  <2>4. \A a \in Attempts : Open(k, a) => a = b
    BY <2>1, <2>2, StartOpens
  <2>5. Guards(job'[k], b) /\ \A j \in Jobs : j # k => job'[j] = job[j]
    BY <2>1, <2>2, StartOpens
  <2> QED BY <2>3, <2>4, <2>5 DEF OneOpenAttempt
<1>2. CASE ~(\E w \in Workers : StartSubmission(w))
  <2>1. \A j \in Jobs, a \in Attempts : Open(j, a)' => Open(j, a)
    BY <1>2, OpenStep
  <2>2. ASSUME NEW j \in Jobs, NEW a \in Attempts, Open(j, a)
        PROVE  Guards(job'[j], a)
    <3>1. Guards(job[j], a)
      BY <2>2 DEF OneOpenAttempt
    <3>2. \A w \in Workers : worker[w].job = j => ~RecordRetry(w)
      BY <2>2, RetryIsClosed
    <3> QED BY <3>1, <3>2, GuardsKept
  <2> QED BY <2>1, <2>2 DEF OneOpenAttempt
<1> QED BY <1>1, <1>2

\* A worker with a safe failure left no request that ERPNext may serve.
LEMMA SafeStep ==
  ASSUME WellTyped, AttemptsOwned, RequestsOwned, OneOpenAttempt, [Next]_vars,
         NEW w \in Workers, worker'[w].pc = "answered", worker'[w].answer = "safe"
  PROVE  request'[worker'[w].job][worker'[w].attempt].status \notin {"sent", "served"}
<1>0. \A v \in Workers, j \in Jobs : Claim(v, j) => v # w
  BY MoveEffects
<1>1. worker[w].pc # "idle" /\ worker'[w].job = worker[w].job
      /\ worker'[w].attempt = worker[w].attempt
  <2>1. CASE \E v \in Workers, j \in Jobs : Claim(v, j)
    BY <1>0, <2>1 DEF Claim, WellTyped, TypeOK
  <2>2. CASE \A v \in Workers, j \in Jobs : ~Claim(v, j)
    BY <2>2, QuietStep DEF Quiet, ProcessQuiet
  <2> QED BY <2>1, <2>2
<1>2. worker[w].job \in Jobs /\ worker[w].attempt \in Attempts
  BY <1>1, HasJob
<1>3. CASE Answering(w)
  <2>1. request' = request
    BY <1>3 DEF Answering, NeverSent, AnswerLost, RefusalReceived, DocumentReceived
  <2>2. \A answer, doc : Answered(w, answer, doc) => answer = "safe"
    <3> TAKE answer, doc
    <3> HAVE Answered(w, answer, doc)
    <3> DEFINE p == [worker[w] EXCEPT !.pc = "answered", !.answer = answer, !.doc = doc]
    <3>1. worker'[w] = p
      BY DEF Answered, WellTyped, TypeOK
    <3>2. p.answer = answer
      BY DEF WellTyped, TypeOK, Process
    <3> HIDE DEF p
    <3> QED BY <3>1, <3>2
  <2>3. request[worker[w].job][worker[w].attempt].status \in {"none", "throttled"}
    <3>1. ~AnswerLost(w) /\ ~DocumentReceived(w)
      BY <2>2 DEF AnswerLost, DocumentReceived
    <3>2. CASE NeverSent(w)
      BY <3>2 DEF NeverSent, RequestsOwned, Unsent
    <3>3. CASE RefusalReceived(w)
      BY <2>2, <3>3 DEF RefusalReceived, RequestOf
    <3> QED BY <1>3, <3>1, <3>2, <3>3 DEF Answering
  <2> QED BY <1>1, <2>1, <2>3
<1>4. CASE ~Answering(w)
  <2>1. worker[w].pc = "answered" /\ worker[w].answer = "safe"
    BY <1>0, <1>4, ProcessStep, MoveEffects DEF ProcessMoves
  <2>2. request[worker[w].job][worker[w].attempt].status \notin {"sent", "served"}
    BY <2>1 DEF OneOpenAttempt
  <2>3. ASSUME NEW v \in Workers, Send(v)
        PROVE  request'[worker[w].job][worker[w].attempt]
                 = request[worker[w].job][worker[w].attempt]
    <3>1. /\ worker[v].job \in Jobs /\ worker[v].attempt \in Attempts
          /\ ~(worker[v].job = worker[w].job /\ worker[v].attempt = worker[w].attempt)
      BY <2>1, <2>3, HasJob DEF Send, AttemptsOwned
    <3> QED BY <1>2, <2>3, <3>1 DEF Send, WellTyped, TypeOK
  <2>4. CASE \A j \in Jobs, a \in Attempts : RequestMoves(request[j][a], request'[j][a])
    BY <1>1, <1>2, <2>2, <2>4 DEF RequestMoves
  <2> QED BY <1>1, <2>2, <2>3, <2>4, RequestStep
<1> QED BY <1>3, <1>4

\* Each check-in is of a request that was served, at the destination it names.
LEMMA ServedStep ==
  ASSUME WellTyped, ~Verified, RequestsOwned, OneOpenAttempt, [Next]_vars,
         NEW j \in Jobs, NEW d \in docs'[j]
  PROVE  request'[j][d.attempt].status = "served" /\ d.site = request'[j][d.attempt].to
<1>1. \A e \in docs[j] :
        /\ e.attempt \in Attempts /\ request[j][e.attempt].status = "served"
        /\ e.site = request[j][e.attempt].to
  BY DEF OneOpenAttempt, WellTyped, TypeOK, Documents
<1>2. \A e \in docs[j] : request'[j][e.attempt] = request[j][e.attempt]
  <2>1. CASE \A k \in Jobs, a \in Attempts : RequestMoves(request[k][a], request'[k][a])
    BY <1>1, <2>1 DEF RequestMoves
  <2>2. ASSUME NEW w \in Workers, Send(w)
        PROVE  \A e \in docs[j] : request'[j][e.attempt] = request[j][e.attempt]
    <3>1. /\ worker[w].job \in Jobs /\ worker[w].attempt \in Attempts
          /\ request[worker[w].job][worker[w].attempt].status = "none"
      BY <2>2, HasJob DEF Send, RequestsOwned, Unsent
    <3> QED BY <1>1, <2>2, <3>1 DEF Send, WellTyped, TypeOK
  <2> QED BY <2>1, <2>2, RequestStep
<1>3. CASE d \in docs[j]
  BY <1>1, <1>2, <1>3
<1>4. CASE d \notin docs[j]
  <2>1. PICK k \in Jobs, a \in Attempts : Serve(k, a)
    BY <1>4, DocsStep
  <2>2. j = k /\ d = [attempt |-> a, site |-> request[k][a].to]
    BY <1>4, <2>1 DEF Serve, WellTyped, TypeOK
  <2> DEFINE r == [request[k][a] EXCEPT !.status = "served"]
  <2>3. request[k][a] \in Sendings
    BY <2>1 DEF Serve, WellTyped, TypeOK, Request, NoRequest
  <2>4. r.status = "served" /\ r.to = request[k][a].to
    BY <2>3 DEF Sendings
  <2>5. request'[k][a] = r
    BY <2>1 DEF Serve, Handled, WellTyped, TypeOK
  <2> HIDE DEF r
  <2> QED BY <2>2, <2>4, <2>5
<1> QED BY <1>3, <1>4

\* The invariant holds when the tables are empty.
LEMMA OneCheckinInit == Init => OneCheckin
<1> SUFFICES ASSUME Init PROVE OneCheckin
  OBVIOUS
<1>1. WellTyped
  BY InitWellTyped
<1>2. AttemptsOwned /\ RequestsOwned /\ Unpersisted
  BY DEF Init, NewProcess, NoRow, NoRequest, AttemptsOwned, RequestsOwned, Unsent, Unpersisted
<1>3. Bound /\ NeverBound /\ OneOpenAttempt
  BY DEF Init, NewProcess, NoRow, NoRequest, Bound, NeverBound, OneOpenAttempt, Open,
         AtMostOneCheckin
<1> QED BY <1>1, <1>2, <1>3 DEF OneCheckin

\* Every step preserves the invariant.
LEMMA OneCheckinStep ==
  ASSUME OneCheckin, [Next]_vars
  PROVE  OneCheckin'
<1> USE DEF OneCheckin
<1>1. WellTyped'
  BY StepWellTyped
<1>2. AttemptsOwned' /\ RequestsOwned' /\ Unpersisted'
  BY AttemptsStep, RequestsStep, UnpersistedStep
<1>3. Verified => Bound'
  BY BoundStep
<1>4. ASSUME ~Verified PROVE NeverBound' /\ OneOpenAttempt'
  BY <1>4, NeverBoundStep, OpenAttemptStep, SafeStep, ServedStep DEF OneOpenAttempt
<1> QED BY <1>1, <1>2, <1>3, <1>4

\* The invariant implies the property.
LEMMA OneCheckinSuffices ==
  ASSUME OneCheckin
  PROVE  AtMostOneCheckin
<1>1. CASE Verified
  BY <1>1 DEF OneCheckin, Bound
<1>2. CASE ~Verified
  <2> SUFFICES ASSUME NEW j \in Jobs, NEW d \in docs[j], NEW e \in docs[j]
               PROVE  d = e
    BY DEF AtMostOneCheckin
  <2>1. d \in Documents /\ e \in Documents
    BY DEF OneCheckin, WellTyped, TypeOK
  <2>2. /\ Open(j, d.attempt) /\ d.site = request[j][d.attempt].to
        /\ Open(j, e.attempt) /\ e.site = request[j][e.attempt].to
    BY <1>2 DEF OneCheckin, OneOpenAttempt, Open
  <2>3. d.attempt = e.attempt
    BY <1>2, <2>1, <2>2 DEF OneCheckin, OneOpenAttempt, Documents
  <2> QED BY <2>1, <2>2, <2>3 DEF Documents
<1> QED BY <1>1, <1>2

\* One accepted decision becomes at most one Employee Checkin, for every number
\* of workers, attempts and destinations, with the idempotency contract and
\* without it, whatever crashes and however late ERPNext serves a request.
THEOREM OneCheckinPerDecision == Spec => []AtMostOneCheckin
<1>1. Init => OneCheckin
  BY OneCheckinInit
<1>2. OneCheckin /\ [Next]_vars => OneCheckin'
  BY OneCheckinStep
<1>3. OneCheckin => AtMostOneCheckin
  BY OneCheckinSuffices
<1> QED BY <1>1, <1>2, <1>3, PTL DEF Spec

-----------------------------------------------------------------------------
(***************************************************************************)
(* How a job leaves a state.  Both properties speak of one step; they need *)
(* the invariant because a decision that is persisted must not have a job  *)
(* yet, and because a worker knows which job it holds.                     *)
(***************************************************************************)

\* The transactions of a lease holder end its lease, and it goes idle.
HolderEndsLease(w) ==
  \/ BindConflict(w) \/ InvalidPayload(w) \/ RecordDelivered(w) \/ RecordRetry(w)
  \/ RecordPermanent(w) \/ RecordUncertain(w)

\* Such a transaction is fenced by the lease, leaves every other job alone and
\* sends the worker back to polling.
LEMMA HolderGoesIdle ==
  ASSUME WellTyped, NEW w \in Workers, HolderEndsLease(w)
  PROVE  /\ HoldsLease(w) /\ worker'[w].pc = "idle"
         /\ \A j \in Jobs : j # worker[w].job => job'[j] = job[j]
<1>1. HoldsLease(w)
  BY DEF HolderEndsLease, BindConflict, InvalidPayload, FailPermanently, RecordDelivered,
         RecordRetry, RecordPermanent, RecordUncertain
<1>2. \A j \in Jobs : j # worker[w].job => job'[j] = job[j]
  BY FailEnds, DeliveredEnds, RetryEnds, UncertainEnds
     DEF HolderEndsLease, BindConflict, InvalidPayload, RecordPermanent, Ends
<1>3. worker'[w].pc = "idle"
  <2> DEFINE p == [Idle(worker[w]) EXCEPT !.capability = Probed(w)]
  <2>1. Idle(worker[w]).pc = "idle" /\ p.pc = "idle"
    BY ProcessTypes DEF WellTyped, TypeOK, Process
  <2>2. \/ worker' = [worker EXCEPT ![w] = Idle(worker[w])]
        \/ worker' = [worker EXCEPT ![w] = p]
    BY DEF HolderEndsLease, BindConflict, InvalidPayload, Done, RecordDelivered,
           RecordRetry, RecordPermanent, RecordUncertain
  <2> HIDE DEF p
  <2> QED BY <2>1, <2>2 DEF WellTyped, TypeOK
<1> QED BY <1>1, <1>2, <1>3

\* What a step may do to a row that recovery and the sweep leave alone.
LEMMA RowStep ==
  ASSUME WellTyped, Unpersisted, [Next]_vars, NEW j \in Jobs, job[j].state # "absent",
         SweptRow(job[j]) = job[j], RecoveredRow(job[j]) = job[j], ~Claimable(job[j])
  PROVE  \/ job'[j].state = job[j].state /\ job'[j].docname = job[j].docname
         \/ \E w \in Workers : HolderEndsLease(w) /\ worker[w].job = j
<1> DEFINE Same == job'[j].state = job[j].state /\ job'[j].docname = job[j].docname
<1>0. job[j] \in JobRow
  BY DEF WellTyped, TypeOK
<1>1. ASSUME NEW k \in Jobs, Watcher(k) PROVE Same
  <2>1. k # j \/ ~Persist(k)
    BY DEF Persist, Unpersisted, Recorded
  <2> QED BY <1>1, <2>1 DEF Watcher, Reserve, ReserveRefused, Persist, PersistFails,
                            WatcherCrashes, WellTyped, TypeOK
<1>2. ASSUME NEW w \in Workers, \/ Recover(w) \/ ClaimNothing(w) \/ \E k \in Jobs : Claim(w, k)
      PROVE  Same
  BY <1>2 DEF Recover, ClaimNothing, Claim
<1>3. ASSUME NEW w \in Workers, BindContract(w) \/ StartSubmission(w) \/ HeartbeatRenews(w)
      PROVE  Same
  <2> DEFINE k == worker[w].job
             to == Probed(w)
  <2>1. \/ job' = [job EXCEPT ![k] = [job[k] EXCEPT !.binding = to]]
        \/ job' = [job EXCEPT ![k] = [job[k] EXCEPT !.submitted = TRUE]]
        \/ job' = [job EXCEPT ![k] = [job[k] EXCEPT !.lease = LeaseTicks]]
    BY <1>3 DEF BindContract, StartSubmission, HeartbeatRenews
  <2> HIDE DEF k, to
  <2>2. CASE j # k
    BY <2>1, <2>2 DEF WellTyped, TypeOK
  <2>3. CASE j = k
    <3>1. \/ job'[j] = [job[j] EXCEPT !.binding = to]
          \/ job'[j] = [job[j] EXCEPT !.submitted = TRUE]
          \/ job'[j] = [job[j] EXCEPT !.lease = LeaseTicks]
      BY <2>1, <2>3 DEF WellTyped, TypeOK
    <3> QED BY <1>0, <3>1 DEF JobRow
  <2> QED BY <2>2, <2>3
<1>4. ASSUME NEW w \in Workers, HolderEndsLease(w), worker[w].job # j PROVE Same
  BY <1>4, HolderGoesIdle
<1>5. ASSUME NEW w \in Workers,
             \/ LeaseLost(w) \/ Send(w) \/ Answering(w) \/ DeliveredCommitFails(w)
             \/ RecordDeferred(w) \/ Crash(w) \/ HeartbeatFails(w)
      PROVE  Same
  BY <1>5 DEF LeaseLost, Send, Answering, NeverSent, AnswerLost, RefusalReceived,
       DocumentReceived, DeliveredCommitFails, RecordDeferred, Crash, HeartbeatFails
<1>6. CASE Tick
  BY <1>0, <1>6 DEF Tick, JobRow
<1>7. (\E k \in Jobs, a \in Attempts : Erpnext(k, a)) \/ (\E k \in Jobs : EventEnds(k))
      \/ ChangeSite \/ ChangeBudget \/ UNCHANGED vars
      => job' = job
  BY EventEndsApart DEF Erpnext, Serve, Throttle, Reject, ChangeSite, ChangeBudget, vars
<1> QED BY <1>1, <1>2, <1>3, <1>4, <1>5, <1>6, <1>7
        DEF Next, PollEmpty, WorkerStep, Answering, HolderEndsLease

\* An outcome is final: whatever answer comes late, whatever recovery or claim
\* runs next, a delivered, failed or uncertain job keeps its state and its
\* document (the guards of delivery_outbox.py on state = 'leased').
THEOREM OutcomesAreFinal == Spec => SettledStays
<1> DEFINE Stays == \A j \in Jobs : job[j].state \in Settled =>
                      job'[j].state = job[j].state /\ job'[j].docname = job[j].docname
<1>1. Init => OneCheckin
  BY OneCheckinInit
<1>2. OneCheckin /\ [Next]_vars => OneCheckin'
  BY OneCheckinStep
<1>3. OneCheckin /\ [Next]_vars => [Stays]_vars
  <2> SUFFICES ASSUME OneCheckin, [Next]_vars, NEW j \in Jobs, job[j].state \in Settled
               PROVE  job'[j].state = job[j].state /\ job'[j].docname = job[j].docname
    OBVIOUS
  <2>1. /\ job[j].state \notin Queued \cup {"absent", "leased"}
        /\ SweptRow(job[j]) = job[j] /\ RecoveredRow(job[j]) = job[j] /\ ~Claimable(job[j])
    BY DEF Settled, Queued, SweptRow, RecoveredRow, OutOfBudget, LeaseExpired, Claimable
  <2>2. ASSUME NEW w \in Workers, HolderEndsLease(w) PROVE worker[w].job # j
    BY <2>1, <2>2, HolderGoesIdle DEF HoldsLease, OneCheckin
  <2> QED BY <2>1, <2>2, RowStep DEF OneCheckin
<1> QED BY <1>1, <1>2, <1>3, PTL DEF Spec, SettledStays

\* A lease that has not run out is ended by the worker that holds it, which
\* then lets go of the job: a worker that stalled past its lease cannot finalize
\* a job another has recovered (_current_delivery_lease_tx).
THEOREM HolderEndsItsLease == Spec => OnlyHolderEndsLease
<1> DEFINE Held == \A j \in Jobs :
                     job[j].state = "leased" /\ job[j].lease > 0 /\ job'[j].state # "leased" =>
                       worker[job[j].owner].job = j /\ worker'[job[j].owner].pc = "idle"
<1>1. Init => OneCheckin
  BY OneCheckinInit
<1>2. OneCheckin /\ [Next]_vars => OneCheckin'
  BY OneCheckinStep
<1>3. OneCheckin /\ [Next]_vars => [Held]_vars
  <2> SUFFICES ASSUME OneCheckin, [Next]_vars, NEW j \in Jobs,
                      job[j].state = "leased", job[j].lease > 0, job'[j].state # "leased"
               PROVE  worker[job[j].owner].job = j /\ worker'[job[j].owner].pc = "idle"
    OBVIOUS
  <2>1. SweptRow(job[j]) = job[j] /\ RecoveredRow(job[j]) = job[j] /\ ~Claimable(job[j])
    BY DEF Queued, SweptRow, RecoveredRow, OutOfBudget, LeaseExpired, Claimable
  <2>2. PICK w \in Workers : HolderEndsLease(w) /\ worker[w].job = j
    BY <2>1, RowStep DEF OneCheckin
  <2>3. HoldsLease(w) /\ worker'[w].pc = "idle"
    BY <2>2, HolderGoesIdle DEF OneCheckin
  <2> QED BY <2>2, <2>3 DEF HoldsLease
<1> QED BY <1>1, <1>2, <1>3, PTL DEF Spec, OnlyHolderEndsLease
=============================================================================
