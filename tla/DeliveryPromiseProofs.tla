------------------------- MODULE DeliveryPromiseProofs -------------------------
(***************************************************************************)
(* The outbox keeps the promise of CheckinDelivery: a job is delivered     *)
(* only under the name of a check-in that exists for it, and every step of *)
(* the outbox, of its workers and of ERPNext is a step of that abstract    *)
(* service or is invisible to it.                                          *)
(*                                                                         *)
(* The second half is about the attendance policy: what a job in flight    *)
(* holds, and how far apart the deliveries of a scope are.                 *)
(***************************************************************************)
EXTENDS DeliveryOutboxProofs

-----------------------------------------------------------------------------
(* What one step does to the row of one job. *)

\* The row keeps its state and the check-in it names.
RowRests(j) == job'[j].state = job[j].state /\ job'[j].docname = job[j].docname

\* Lease recovery, or the sweep of a claim that takes another job.
RowSwept(j) == job'[j] = RecoveredRow(job[j]) \/ job'[j] = SweptRow(job[j])

\* Of all the steps, these are the ones that move the row of one job.
LEMMA RowMoves ==
  ASSUME WellTyped, [Next]_vars, NEW j \in Jobs
  PROVE  \/ RowRests(j)
         \/ Persist(j)
         \/ RowSwept(j)
         \/ \E w \in Workers : Claim(w, j)
         \/ \E w \in Workers : HolderEndsLease(w) /\ worker[w].job = j
<1>0. job[j] \in JobRow
  BY DEF WellTyped, TypeOK
<1>1. ASSUME NEW k \in Jobs, Watcher(k) PROVE RowRests(j) \/ Persist(j)
  <2>1. CASE Persist(k)
    BY <2>1 DEF Persist, RowRests, WellTyped, TypeOK
  <2>2. CASE ~Persist(k)
    BY <1>1, <2>2 DEF Watcher, Reserve, ReserveRefused, PersistFails, WatcherCrashes, RowRests
  <2> QED BY <2>1, <2>2
<1>2. ASSUME NEW w \in Workers, \/ Recover(w) \/ ClaimNothing(w) \/ \E k \in Jobs : Claim(w, k)
      PROVE  RowSwept(j) \/ Claim(w, j)
  BY <1>2 DEF Recover, ClaimNothing, Claim, RowSwept
<1>3. ASSUME NEW w \in Workers, BindContract(w) \/ StartSubmission(w) \/ HeartbeatRenews(w)
      PROVE  RowRests(j)
  <2> DEFINE k == worker[w].job
             to == Probed(w)
  <2>1. \/ job' = [job EXCEPT ![k] = [job[k] EXCEPT !.binding = to]]
        \/ job' = [job EXCEPT ![k] = [job[k] EXCEPT !.submitted = TRUE]]
        \/ job' = [job EXCEPT ![k] = [job[k] EXCEPT !.lease = LeaseTicks]]
    BY <1>3 DEF BindContract, StartSubmission, HeartbeatRenews
  <2> HIDE DEF k, to
  <2>2. CASE j # k
    BY <2>1, <2>2 DEF WellTyped, TypeOK, RowRests
  <2>3. CASE j = k
    <3>1. \/ job'[j] = [job[j] EXCEPT !.binding = to]
          \/ job'[j] = [job[j] EXCEPT !.submitted = TRUE]
          \/ job'[j] = [job[j] EXCEPT !.lease = LeaseTicks]
      BY <2>1, <2>3 DEF WellTyped, TypeOK
    <3> QED BY <1>0, <3>1 DEF JobRow, RowRests
  <2> QED BY <2>2, <2>3
<1>4. ASSUME NEW w \in Workers, HolderEndsLease(w), worker[w].job # j PROVE RowRests(j)
  BY <1>4, HolderGoesIdle DEF RowRests
<1>5. ASSUME NEW w \in Workers,
             \/ LeaseLost(w) \/ Send(w) \/ Answering(w) \/ DeliveredCommitFails(w)
             \/ RecordDeferred(w) \/ Crash(w) \/ HeartbeatFails(w)
      PROVE  RowRests(j)
  BY <1>5 DEF LeaseLost, Send, Answering, NeverSent, AnswerLost, RefusalReceived,
       DocumentReceived, DeliveredCommitFails, RecordDeferred, Crash, HeartbeatFails, RowRests
<1>6. CASE Tick
  BY <1>0, <1>6 DEF Tick, JobRow, RowRests
<1>7. (\E k \in Jobs, a \in Attempts : Erpnext(k, a)) \/ (\E k \in Jobs : EventEnds(k))
      \/ ChangeSite \/ ChangeBudget \/ UNCHANGED vars
      => job' = job
  BY EventEndsApart DEF Erpnext, Serve, Throttle, Reject, ChangeSite, ChangeBudget, vars
<1>8. job' = job => RowRests(j)
  BY DEF RowRests
<1> QED BY <1>1, <1>2, <1>3, <1>4, <1>5, <1>6, <1>7, <1>8
        DEF Next, PollEmpty, WorkerStep, Answering, HolderEndsLease

\* Recovery and the sweep leave alone what is neither leased nor queued, and
\* move the rest to a state that is not delivered.
LEMMA SweptStates ==
  ASSUME NEW r \in JobRow, NEW q, q = RecoveredRow(r) \/ q = SweptRow(r)
  PROVE  \/ q = r
         \/ /\ r.state \in Queued \cup {"leased"}
            /\ q.state \in {"retry_wait", "permanent_failure", "uncertain"}
<1>1. CASE OutOfBudget(r) /\ q = SweptRow(r)
  BY <1>1 DEF SweptRow, OutOfBudget, JobRow
<1>2. CASE q = RecoveredRow(r)
  <2>1. CASE LeaseExpired(r)
    <3> DEFINE state == RecoveredState(r)
               wait == 0
    <3>1. state \in {"retry_wait", "permanent_failure", "uncertain"}
      BY DEF RecoveredState
    <3>2. q = Unleased(r, state, wait) /\ state \in JobStates /\ wait \in Nat
      BY <1>2, <2>1, <3>1, RowStates DEF RecoveredRow
    <3> HIDE DEF state, wait
    <3>3. q.state = state
      BY <3>2, UnleasedType
    <3> QED BY <2>1, <3>1, <3>3 DEF LeaseExpired
  <2>2. CASE ~LeaseExpired(r)
    BY <1>2, <2>2 DEF RecoveredRow
  <2> QED BY <2>1, <2>2
<1> QED BY <1>1, <1>2 DEF SweptRow

\* A claimed job was queued, or its lease had run out.
LEMMA ClaimedStates ==
  ASSUME WellTyped, NEW w \in Workers, NEW j \in Jobs, Claim(w, j)
  PROVE  job[j].state \in Queued \cup {"leased"} /\ job'[j].state = "leased"
<1> DEFINE r == SweptRow(job[j])
<1>1. r \in JobRow /\ r.state \in Queued /\ job'[j] = Leased(r, w)
  BY SweptRowType DEF Claim, Claimable, WellTyped, TypeOK
<1>2. job[j].state \in Queued \cup {"leased"}
  BY <1>1, SweptStates DEF WellTyped, TypeOK
<1> HIDE DEF r
<1>3. job'[j].state = "leased"
  BY <1>1 DEF Leased, JobRow
<1> QED BY <1>2, <1>3

\* A holder ends its lease in one of these states, and as delivered only by
\* mark_delivery_job_delivered_by_lease.
LEMMA HolderStates ==
  ASSUME WellTyped, NEW w \in Workers, HolderEndsLease(w)
  PROVE  LET r == job'[worker[w].job] IN
         /\ job[worker[w].job].state = "leased"
         /\ r.state \in {"retry_wait", "permanent_failure", "uncertain", "delivered"}
         /\ r.state = "delivered" => RecordDelivered(w)
<1>1. job[worker[w].job].state = "leased"
  BY HolderGoesIdle DEF HoldsLease
<1>2. CASE BindConflict(w) \/ InvalidPayload(w) \/ RecordPermanent(w)
  BY <1>1, <1>2, FailEnds DEF BindConflict, InvalidPayload, RecordPermanent, Ends
<1>3. CASE RecordRetry(w)
  BY <1>1, <1>3, RetryEnds DEF Ends
<1>4. CASE RecordUncertain(w)
  BY <1>1, <1>4, UncertainEnds DEF Ends
<1>5. CASE RecordDelivered(w)
  BY <1>1, <1>5, DeliveredEnds DEF Ends
<1> QED BY <1>2, <1>3, <1>4, <1>5 DEF HolderEndsLease

-----------------------------------------------------------------------------
(***************************************************************************)
(* What is delivered names a check-in.  The row takes the name from the    *)
(* process that was answered, so the invariant needs that such a process   *)
(* holds the name of a check-in of its job; check-ins are never deleted.   *)
(* A request is sent only for a job that was claimed, so ERPNext creates   *)
(* nothing for a decision that is not accepted.                            *)
(***************************************************************************)

AnswerNamesCheckin ==
  \A w \in Workers : worker[w].pc = "answered" /\ worker[w].answer = "document" =>
    worker[w].doc \in docs[worker[w].job]

AbsentUntried == \A j \in Jobs : job[j].state = "absent" => job[j].attempts = 0

Promise == OneCheckin /\ AnswerNamesCheckin /\ AbsentUntried /\ DeliveredNamesCheckin

\* No step of ERPNext takes a check-in away.
LEMMA DocsGrow ==
  ASSUME WellTyped, [Next]_vars, NEW j \in Jobs
  PROVE  docs[j] \subseteq docs'[j]
<1>1. ASSUME NEW k \in Jobs, NEW a \in Attempts, Serve(k, a)
      PROVE  docs[j] \subseteq docs'[j]
  BY <1>1 DEF Serve, WellTyped, TypeOK
<1> QED BY <1>1, DocsStep

\* An answer with a document names a check-in that is there: preserved.
LEMMA AnswerStep ==
  ASSUME WellTyped, AnswerNamesCheckin, [Next]_vars
  PROVE  AnswerNamesCheckin'
<1> SUFFICES ASSUME NEW w \in Workers, worker'[w].pc = "answered",
                    worker'[w].answer = "document"
             PROVE  worker'[w].doc \in docs'[worker'[w].job]
  BY DEF AnswerNamesCheckin
<1>1. CASE Answering(w)
  <2>0. worker[w].job \in Jobs
    BY <1>1, HasJob DEF Answering, NeverSent, AnswerLost, RefusalReceived, DocumentReceived
  <2>1. \A answer, doc : Answered(w, answer, doc) =>
          worker'[w].answer = answer /\ worker'[w].doc = doc /\ worker'[w].job = worker[w].job
    <3> TAKE answer, doc
    <3> HAVE Answered(w, answer, doc)
    <3> DEFINE p == [worker[w] EXCEPT !.pc = "answered", !.answer = answer, !.doc = doc]
    <3>1. worker'[w] = p
      BY DEF Answered, WellTyped, TypeOK
    <3>2. p.answer = answer /\ p.doc = doc /\ p.job = worker[w].job
      BY DEF WellTyped, TypeOK, Process
    <3> HIDE DEF p
    <3> QED BY <3>1, <3>2
  <2>2. DocumentReceived(w)
    BY <1>1, <2>1 DEF Answering, NeverSent, AnswerLost, RefusalReceived
  <2>3. PICK doc \in docs[worker[w].job] : Answered(w, "document", doc)
    BY <2>2 DEF DocumentReceived
  <2> QED BY <2>0, <2>1, <2>3, DocsGrow
<1>2. CASE worker'[w] = worker[w] \/ worker' = [worker EXCEPT ![w].lost = TRUE]
  <2>1. /\ worker'[w].pc = worker[w].pc /\ worker'[w].answer = worker[w].answer
        /\ worker'[w].doc = worker[w].doc /\ worker'[w].job = worker[w].job
    BY <1>2 DEF WellTyped, TypeOK, Process
  <2>2. worker[w].job \in Jobs
    BY <2>1, HasJob
  <2> QED BY <2>1, <2>2, DocsGrow DEF AnswerNamesCheckin
<1> QED BY <1>1, <1>2, ProcessStep, MoveEffects DEF ProcessMoves

\* A decision without a job was never claimed: preserved.
LEMMA UntriedStep ==
  ASSUME WellTyped, AbsentUntried, [Next]_vars
  PROVE  AbsentUntried'
<1> SUFFICES ASSUME NEW j \in Jobs, job'[j].state = "absent"
             PROVE  job'[j].attempts = 0
  BY DEF AbsentUntried
<1>0. job[j] \in JobRow
  BY DEF WellTyped, TypeOK
<1>1. job[j].state = "absent"
  <2>1. ~Persist(j)
    BY <1>0 DEF Persist, WellTyped, TypeOK, JobRow
  <2>2. RowSwept(j) => job'[j] = job[j]
    BY <1>0, SweptStates DEF RowSwept
  <2> QED BY <2>1, <2>2, RowMoves, ClaimedStates, HolderStates DEF RowRests
<1>2. job'[j].attempts = job[j].attempts
  <2>1. CASE \E w \in Workers, k \in Jobs : Claim(w, k)
    <3>1. PICK w \in Workers, k \in Jobs : Claim(w, k)
      BY <2>1
    <3>2. k # j
      BY <3>1, ClaimedStates
    <3>3. job'[j] = SweptRow(job[j])
      BY <3>1, <3>2 DEF Claim
    <3> QED BY <1>0, <3>3, SweptRowType
  <2>2. CASE \A w \in Workers, k \in Jobs : ~Claim(w, k)
    BY <2>2, QuietStep DEF Quiet, RowQuiet
  <2> QED BY <2>1, <2>2
<1> QED BY <1>1, <1>2 DEF AbsentUntried

\* The worker that records a delivery was answered with a check-in of its job.
LEMMA DeliveredRow ==
  ASSUME WellTyped, AnswerNamesCheckin, NEW w \in Workers, RecordDelivered(w)
  PROVE  /\ worker[w].job \in Jobs
         /\ job'[worker[w].job].docname = worker[w].doc
         /\ worker[w].doc \in docs[worker[w].job]
<1>1. /\ worker[w].pc = "answered" /\ worker[w].answer = "document" /\ HoldsLease(w)
      /\ worker[w].job \in Jobs
  BY HasJob DEF RecordDelivered, Recording, Outcome
<1> DEFINE u == Unleased(job[worker[w].job], "delivered", 0)
           q == [u EXCEPT !.submitted = TRUE, !.docname = worker[w].doc]
<1>2. u \in JobRow
  BY <1>1, HasJob, UnleasedType, RowStates
<1>3. q.docname = worker[w].doc
  <2> HIDE DEF u
  <2> QED BY <1>2 DEF JobRow
<1>4. job'[worker[w].job] = q
  BY <1>1 DEF RecordDelivered, WellTyped, TypeOK
<1> HIDE DEF q
<1> QED BY <1>1, <1>3, <1>4 DEF AnswerNamesCheckin

\* A delivered job names a check-in of its own: preserved.
LEMMA DeliveredStep ==
  ASSUME WellTyped, AnswerNamesCheckin, DeliveredNamesCheckin, [Next]_vars
  PROVE  DeliveredNamesCheckin'
<1> SUFFICES ASSUME NEW j \in Jobs, job'[j].state = "delivered"
             PROVE  job'[j].docname \in docs'[j]
  BY DEF DeliveredNamesCheckin
<1>0. job[j] \in JobRow
  BY DEF WellTyped, TypeOK
<1>1. CASE RowRests(j)
  BY <1>1, DocsGrow DEF RowRests, DeliveredNamesCheckin
<1>2. CASE RowSwept(j)
  <2>1. job'[j] = job[j]
    BY <1>0, <1>2, SweptStates DEF RowSwept
  <2> QED BY <2>1, DocsGrow DEF DeliveredNamesCheckin
<1>3. ~Persist(j)
  BY <1>0 DEF Persist, WellTyped, TypeOK, JobRow
<1>4. ASSUME NEW w \in Workers, HolderEndsLease(w), worker[w].job = j
      PROVE  job'[j].docname \in docs'[j]
  <2>1. RecordDelivered(w)
    BY <1>4, HolderStates
  <2> QED BY <1>4, <2>1, DeliveredRow, DocsGrow
<1> QED BY <1>1, <1>2, <1>3, <1>4, RowMoves, ClaimedStates

\* The tables are empty at the start, and every step keeps the promise.
LEMMA PromiseInductive ==
  /\ Init => Promise
  /\ Promise /\ [Next]_vars => Promise'
<1>1. Init => Promise
  BY OneCheckinInit
     DEF Init, Promise, AnswerNamesCheckin, AbsentUntried, DeliveredNamesCheckin, NewProcess, NoRow
<1>2. Promise /\ [Next]_vars => Promise'
  BY OneCheckinStep, AnswerStep, UntriedStep, DeliveredStep DEF Promise, OneCheckin
<1> QED BY <1>1, <1>2

\* A job counts as delivered only under the name of a check-in that exists in
\* ERPNext for it, whether the answer came from the attempt that created it,
\* from a replay, or after a lost one (mark_delivery_job_delivered_by_lease).
THEOREM DeliveredIsInErpnext == Spec => []DeliveredNamesCheckin
<1>1. Promise => DeliveredNamesCheckin
  BY DEF Promise
<1> QED BY <1>1, PromiseInductive, PTL DEF Spec

-----------------------------------------------------------------------------
(***************************************************************************)
(* The refinement.  Persisting a decision accepts it, serving a request    *)
(* that inserts creates its check-in, and all that workers, recovery and   *)
(* sweeps do to rows settles decisions or is invisible.                    *)
(***************************************************************************)

\* What each row state is to the abstract service.
LEMMA OutcomeOf ==
  ASSUME NEW r
  PROVE  /\ r.state = "absent" => AbstractOutcome(r) = "none"
         /\ r.state \in Queued \cup {"leased"} => AbstractOutcome(r) = "queued"
         /\ r.state = "delivered" => AbstractOutcome(r) = "delivered"
         /\ r.state = "permanent_failure" => AbstractOutcome(r) = "failed"
         /\ r.state = "uncertain" => AbstractOutcome(r) = "unknown"
BY DEF AbstractOutcome, Queued

\* A step that does not persist a decision leaves it as it is or settles it.
LEMMA OutcomeStep ==
  ASSUME Promise, [Next]_vars, NEW j \in Jobs, ~Persist(j)
  PROVE  \/ AbstractOutcome(job'[j]) = AbstractOutcome(job[j])
         \/ /\ AbstractOutcome(job[j]) = "queued"
            /\ AbstractOutcome(job'[j]) \in {"failed", "unknown"}
         \/ /\ AbstractOutcome(job[j]) = "queued" /\ AbstractOutcome(job'[j]) = "delivered"
            /\ docs[j] # {}
<1>0. WellTyped /\ AnswerNamesCheckin /\ job[j] \in JobRow
  BY DEF Promise, OneCheckin, WellTyped, TypeOK
<1>1. CASE RowRests(j)
  <2>1. AbstractOutcome(job'[j]) = AbstractOutcome(job[j])
    BY <1>1 DEF RowRests, AbstractOutcome
  <2> QED BY <2>1
<1>2. CASE RowSwept(j)
  BY <1>0, <1>2, SweptStates, OutcomeOf, RowStates DEF RowSwept, Queued
<1>3. ASSUME NEW w \in Workers, Claim(w, j)
      PROVE  AbstractOutcome(job'[j]) = AbstractOutcome(job[j])
  BY <1>0, <1>3, ClaimedStates, OutcomeOf
<1>4. CASE \E w \in Workers : HolderEndsLease(w) /\ worker[w].job = j
  <2>1. PICK w \in Workers : HolderEndsLease(w) /\ worker[w].job = j
    BY <1>4
  <2>2. /\ job[j].state = "leased"
        /\ job'[j].state \in {"retry_wait", "permanent_failure", "uncertain", "delivered"}
        /\ job'[j].state = "delivered" => docs[j] # {}
    BY <1>0, <2>1, HolderStates, DeliveredRow
  <2> QED BY <2>2, OutcomeOf DEF Queued
<1> QED BY <1>0, <1>1, <1>2, <1>3, <1>4, RowMoves

\* Persisting one decision leaves the rows of the others, and all check-ins.
LEMMA PersistIsAccept ==
  ASSUME Promise, NEW j \in Jobs, Persist(j)
  PROVE  Abstract!Accept(j)
<1>1. WellTyped /\ job[j].state = "absent"
  BY DEF Persist, Promise, OneCheckin, Unpersisted, Recorded
<1>2. job'[j].state = "pending" /\ \A k \in Jobs : k # j => job'[k] = job[k]
  BY <1>1 DEF Persist, WellTyped, TypeOK, JobRow
<1>3. AbstractOutcome(job[j]) = "none" /\ AbstractOutcome(job'[j]) = "queued"
  BY <1>1, <1>2, OutcomeOf DEF Queued
<1>4. [k \in Jobs |-> AbstractOutcome(job'[k])]
        = [[k \in Jobs |-> AbstractOutcome(job[k])] EXCEPT ![j] = "queued"]
  BY <1>2, <1>3
<1> QED BY <1>3, <1>4 DEF Abstract!Accept, Persist

\* A request that is served for the first time creates the check-in.
LEMMA ServeIsCreate ==
  ASSUME Promise, Promise', NEW j \in Jobs, NEW a \in Attempts, Serve(j, a)
  PROVE  docs' = docs \/ Abstract!Create(j)
<1> SUFFICES ASSUME docs' # docs PROVE Abstract!Create(j)
  OBVIOUS
<1> DEFINE doc == [attempt |-> a, site |-> request[j][a].to]
<1>0. WellTyped /\ docs \in [Jobs -> SUBSET Documents] /\ job' = job
  BY DEF Promise, OneCheckin, WellTyped, TypeOK, Serve
<1>1. docs' = [docs EXCEPT ![j] = @ \cup {doc}]
  <2>1. CASE Verified /\ \E d \in docs[j] : d.site = request[j][a].to
    <3>1. docs' = docs
      BY <1>0, <2>1 DEF Serve
    <3> QED BY <3>1
  <2>2. CASE ~(Verified /\ \E d \in docs[j] : d.site = request[j][a].to)
    BY <2>2 DEF Serve
  <2> QED BY <2>1, <2>2
<1>2. doc \in Documents
  <2>1. request[j][a] \in Sendings
    BY <1>0 DEF Serve, WellTyped, TypeOK, Request, NoRequest
  <2> QED BY <2>1 DEF Sendings, Documents
<1> HIDE DEF doc
<1>3. docs[j] = {}
  <2>1. AtMostOneCheckin'
    BY OneCheckinSuffices, PTL DEF Promise
  <2>2. docs'[j] = docs[j] \cup {doc} /\ doc \notin docs[j]
    BY <1>0, <1>1
  <2>3. \A d \in docs'[j], e \in docs'[j] : d = e
    BY <2>1 DEF AtMostOneCheckin
  <2> QED BY <2>2, <2>3
<1>4. AbstractOutcome(job[j]) # "none"
  <2>1. job[j].state # "absent"
    <3>1. request[j][a].status = "sent" /\ a \in Nat /\ a >= 1
      BY DEF Serve, Attempts
    <3> QED BY <3>1 DEF Promise, OneCheckin, RequestsOwned, AbsentUntried
  <2>2. job[j].state \in JobStates
    BY <1>0 DEF WellTyped, TypeOK, JobRow
  <2> QED BY <2>1, <2>2 DEF AbstractOutcome, JobStates, Queued
<1>5. docs' = [docs EXCEPT ![j] = {doc}]
  BY <1>1, <1>3
<1> QED BY <1>0, <1>2, <1>3, <1>4, <1>5 DEF Abstract!Create

\* Every step of the outbox is a step of the abstract service, or none.
LEMMA OutboxSteps ==
  ASSUME Promise, Promise', [Next]_vars
  PROVE  [Abstract!Next]_(Abstract!vars)
<1>1. ASSUME NEW j \in Jobs, Persist(j) PROVE Abstract!Next
  BY <1>1, PersistIsAccept DEF Abstract!Next
<1>2. ASSUME NEW j \in Jobs, NEW a \in Attempts, Serve(j, a), docs' # docs
      PROVE  Abstract!Next
  BY <1>2, ServeIsCreate DEF Abstract!Next
<1>3. ASSUME docs' = docs, \A j \in Jobs : ~Persist(j) PROVE Abstract!Next
  <2>1. Abstract!Settle
    BY <1>3, OutcomeStep DEF Abstract!Settle
  <2> QED BY <2>1 DEF Abstract!Next
<1> QED BY <1>1, <1>2, <1>3, DocsStep

\* The outbox, its workers and ERPNext implement the delivery service of
\* CheckinDelivery: at most one check-in per decision, none before it is
\* accepted, one outcome, and "delivered" only with a check-in to show for it.
THEOREM OutboxKeepsPromise == Spec => ImplementsCheckinDelivery
<1>1. Init => Abstract!Init
  BY OutcomeOf DEF Init, Abstract!Init, NoRow
<1>2. Promise /\ Promise' /\ [Next]_vars => [Abstract!Next]_(Abstract!vars)
  BY OutboxSteps
<1> QED BY <1>1, <1>2, PromiseInductive, PTL DEF Spec, ImplementsCheckinDelivery, Abstract!Spec

-----------------------------------------------------------------------------
(***************************************************************************)
(* One scope of the attendance policy: at most one decision of it is in    *)
(* flight, an uncertain one keeps it closed, and its deliveries are a      *)
(* cooldown apart, of the decisions whose events did not give their        *)
(* reservations up (Kept): what happens to the event of one decision       *)
(* costs that decision its exclusion, and no other decision.               *)
(*                                                                         *)
(* All three need that the watcher persists a decision while it still      *)
(* holds the reservation it took for it, which is what the deployment asks *)
(* of the reservation window: the theorems assume ~WatcherStalls.  With a  *)
(* watcher that stalls for longer, two decisions of one scope do get into  *)
(* flight.                                                                 *)
(***************************************************************************)

(***************************************************************************)
(* The invariant.  A reservation belongs to a decision of its scope that   *)
(* was not cooling down when it was taken; a job that is in flight and     *)
(* whose event has not given its reservation up holds the reservation of   *)
(* its scope, and an uncertain one holds it as uncertain; and the decision *)
(* committed last is the latest delivered one of those, by a cooldown.     *)
(***************************************************************************)

InFlight == Queued \cup {"leased"}

ReservationsOwned ==
  \A s \in Scopes :
    /\ policy[s].state = "none" <=> policy[s].decision = NoJob
    /\ policy[s].decision # NoJob =>
         /\ ScopeOf[policy[s].decision] = s
         /\ ~CoolingDown(policy[s], policy[s].decision)

ActiveHolds ==
  \A j \in Jobs : Kept(j) =>
    /\ job[j].state \in InFlight => HoldsReservation(j)
    /\ job[j].state = "uncertain" =>
         policy[ScopeOf[j]].state = "uncertain" /\ policy[ScopeOf[j]].decision = j

\* Captured a cooldown or more after j.
Later(c, j) == Effective[j] + Cooldown <= Effective[c]

CommittedLast ==
  \A j \in Jobs : Kept(j) /\ job[j].state = "delivered" =>
    LET c == policy[ScopeOf[j]].committed IN c # NoJob /\ (c = j \/ Later(c, j))

ScopeInv ==
  OneCheckin /\ ReservationsOwned /\ ActiveHolds /\ CommittedLast /\ CooldownHolds

-----------------------------------------------------------------------------
(* What a step that is not the watcher's does to a scope and its holder. *)

SameReservation(s) ==
  /\ policy'[s].state = policy[s].state
  /\ policy'[s].decision = policy[s].decision
  /\ policy'[s].committed = policy[s].committed

\* The state of a row stays, or stays in flight.
StaysInFlight(j) ==
  \/ job'[j].state = job[j].state
  \/ job[j].state \in InFlight /\ job'[j].state \in InFlight

\* The reservation follows what becomes of its holder.
Follows(s) ==
  \/ SameReservation(s) /\ \A k \in Jobs : k = policy[s].decision => StaysInFlight(k)
  \/ \E k \in Jobs :
       /\ k = policy[s].decision
       /\ job[k].state \in InFlight
       /\ \/ job'[k].state = "permanent_failure" /\ policy'[s] = Released(policy[s])
          \/ job'[k].state = "uncertain" /\ policy'[s] = MarkedUncertain(policy[s])
          \/ job'[k].state = "delivered" /\ policy'[s] = Committed(policy[s])

\* An extended reservation, and one whose time runs, keep their holder.
LEMMA KeepingEffects ==
  ASSUME NEW p \in PolicyRow, NEW window \in Nat
  PROVE  /\ \A q \in {Extended(p, window), Elapsed(p)} :
              q.state = p.state /\ q.decision = p.decision /\ q.committed = p.committed
         /\ Apply("keep", p, window) = p
         /\ Apply("extend", p, window) = Extended(p, window)
         /\ Apply("release", p, window) = Released(p)
         /\ Apply("uncertain", p, window) = MarkedUncertain(p)
         /\ Apply("commit", p, window) = Committed(p)
<1>1. \A q \in {Extended(p, window), Elapsed(p)} :
        q.state = p.state /\ q.decision = p.decision /\ q.committed = p.committed
  BY DEF Extended, Elapsed, PolicyRow
<1>2. /\ Apply("keep", p, window) = p
      /\ Apply("extend", p, window) = Extended(p, window)
      /\ Apply("release", p, window) = Released(p)
      /\ Apply("uncertain", p, window) = MarkedUncertain(p)
      /\ Apply("commit", p, window) = Committed(p)
  BY DEF Apply
<1> QED BY <1>1, <1>2

\* What the sweep and recovery do to a row goes with what they do to its
\* reservation (_policy_..._for_decision_tx in the same transaction).
SweptWith(r, q, effect) ==
  \/ q.state = r.state /\ effect = "keep"
  \/ /\ r.state \in InFlight
     /\ \/ q.state = "permanent_failure" /\ effect = "release"
        \/ q.state = "uncertain" /\ effect = "uncertain"
        \/ q.state \in InFlight /\ effect \in {"keep", "extend"}

\* Recovery of expired leases and the sweep of exhausted jobs both move a
\* reservation exactly as the row beside it.
LEMMA SweepEffects ==
  ASSUME NEW r \in JobRow
  PROVE  /\ SweptWith(r, RecoveredRow(r), RecoveryEffect(r))
         /\ SweptWith(r, SweptRow(r), SweepEffect(r))
<1>1. SweptWith(r, RecoveredRow(r), RecoveryEffect(r))
  <2>1. CASE LeaseExpired(r)
    <3> DEFINE state == RecoveredState(r)
               wait == 0
    <3>1. state \in {"retry_wait", "permanent_failure", "uncertain"}
      BY DEF RecoveredState
    <3>2. RecoveredRow(r) = Unleased(r, state, wait) /\ state \in JobStates /\ wait \in Nat
      BY <2>1, <3>1, RowStates DEF RecoveredRow
    <3>3. /\ state = "permanent_failure" => RecoveryEffect(r) = "release"
          /\ state = "uncertain" => RecoveryEffect(r) = "uncertain"
          /\ state = "retry_wait" => RecoveryEffect(r) \in {"keep", "extend"}
      BY <2>1 DEF RecoveryEffect
    <3> HIDE DEF state, wait
    <3>4. Unleased(r, state, wait).state = state
      BY <3>2, UnleasedType
    <3> QED BY <2>1, <3>1, <3>2, <3>3, <3>4 DEF SweptWith, LeaseExpired, InFlight, Queued
  <2>2. CASE ~LeaseExpired(r)
    BY <2>2 DEF RecoveredRow, RecoveryEffect, SweptWith
  <2> QED BY <2>1, <2>2
<1>2. CASE OutOfBudget(r)
  <2>1. SweptRow(r).state = "permanent_failure" /\ SweepEffect(r) = "release"
    BY <1>2 DEF SweptRow, SweepEffect, JobRow
  <2> QED BY <1>1, <1>2, <2>1 DEF SweptWith, OutOfBudget, InFlight
<1>3. CASE ~OutOfBudget(r)
  BY <1>1, <1>3 DEF SweptRow, SweepEffect
<1> QED BY <1>1, <1>2, <1>3

\* The reservation follows its holder through recovery and the sweep.
LEMMA SweepFollows ==
  ASSUME WellTyped, NEW s \in Scopes, NEW q, NEW effect,
         \A k \in Jobs : k = policy[s].decision => SweptWith(job[k], q, effect)
                           /\ (job'[k] = q \/ (q.state \in InFlight /\ job'[k].state \in InFlight)),
         policy'[s] = IF policy[s].decision = NoJob THEN policy[s]
                      ELSE Apply(effect, policy[s], ExtendTicks)
  PROVE  Follows(s)
<1>0. policy[s] \in PolicyRow /\ ExtendTicks \in Nat
  BY OutboxAssumption DEF WellTyped, TypeOK
<1>1. CASE policy[s].decision = NoJob
  BY <1>1, PolicyAssumption DEF Follows, SameReservation
<1>2. CASE policy[s].decision \in Jobs
  <2> DEFINE k == policy[s].decision
  <2>0. k \in Jobs /\ k # NoJob /\ k = policy[s].decision
    BY <1>2, PolicyAssumption
  <2> HIDE DEF k
  <2>1. SweptWith(job[k], q, effect)
        /\ (job'[k] = q \/ (q.state \in InFlight /\ job'[k].state \in InFlight))
    BY <2>0
  <2>2. policy'[s] = Apply(effect, policy[s], ExtendTicks)
    BY <2>0
  <2>3. effect \in {"keep", "extend"} => SameReservation(s)
    BY <1>0, <2>2, KeepingEffects DEF SameReservation
  <2>4. "permanent_failure" \notin InFlight /\ "uncertain" \notin InFlight
    BY DEF InFlight, Queued
  <2>5. CASE effect \in {"keep", "extend"}
    <3>1. StaysInFlight(k)
      BY <2>1, <2>5 DEF SweptWith, StaysInFlight
    <3> QED BY <2>0, <2>3, <2>5, <3>1 DEF Follows
  <2>6. CASE effect \in {"release", "uncertain"}
    <3>1. policy'[s] = IF effect = "release" THEN Released(policy[s])
                       ELSE MarkedUncertain(policy[s])
      BY <1>0, <2>2, <2>6, KeepingEffects
    <3>2. /\ job[k].state \in InFlight
          /\ effect = "release" => job'[k].state = "permanent_failure"
          /\ effect = "uncertain" => job'[k].state = "uncertain"
      BY <2>1, <2>4, <2>6 DEF SweptWith
    <3> QED BY <2>0, <2>6, <3>1, <3>2 DEF Follows
  <2> QED BY <2>1, <2>5, <2>6 DEF SweptWith
<1> QED BY <1>0, <1>1, <1>2 DEF PolicyRow, Holders

\* A transaction on one job moves the reservation of that job only.
LEMMA EffectFollows ==
  ASSUME WellTyped, NEW j \in Jobs, NEW s \in Scopes, NEW effect, NEW window \in Nat,
         policy' = AfterEffect(j, effect, window),
         job[j].state \in InFlight,
         \A k \in Jobs : k # j => job'[k] = job[k],
         \/ effect = "extend" /\ job'[j].state \in InFlight
         \/ effect = "release" /\ job'[j].state = "permanent_failure"
         \/ effect = "uncertain" /\ job'[j].state = "uncertain"
         \/ effect = "commit" /\ job'[j].state = "delivered"
  PROVE  Follows(s)
<1>0. policy[s] \in PolicyRow
  BY DEF WellTyped, TypeOK
<1>1. CASE policy[s].decision # j
  <2>1. policy'[s] = policy[s]
    BY <1>1 DEF AfterEffect
  <2> QED BY <1>1, <2>1 DEF Follows, SameReservation, StaysInFlight
<1>2. CASE policy[s].decision = j
  <2>1. policy'[s] = Apply(effect, policy[s], window)
    BY <1>2 DEF AfterEffect
  <2>2. CASE effect = "extend"
    <3>1. SameReservation(s)
      BY <1>0, <2>1, <2>2, KeepingEffects DEF SameReservation
    <3> QED BY <1>2, <2>2, <3>1 DEF Follows, StaysInFlight
  <2>3. CASE effect = "release"
    BY <1>0, <1>2, <2>1, <2>3, KeepingEffects DEF Follows
  <2>4. CASE effect = "uncertain"
    BY <1>0, <1>2, <2>1, <2>4, KeepingEffects DEF Follows
  <2>5. CASE effect = "commit"
    BY <1>0, <1>2, <2>1, <2>5, KeepingEffects DEF Follows
  <2> QED BY <2>2, <2>3, <2>4, <2>5
<1> QED BY <1>1, <1>2

\* The policy effect of a holder that ends its lease goes with the state.
LEMMA HolderFollows ==
  ASSUME WellTyped, NEW w \in Workers, HolderEndsLease(w), NEW s \in Scopes
  PROVE  Follows(s)
<1> DEFINE j == worker[w].job
<1>1. /\ j \in Jobs /\ job[j].state \in InFlight
      /\ \A k \in Jobs : k # j => job'[k] = job[k]
  BY HolderGoesIdle, HasJob DEF HoldsLease, InFlight
<1>2. CASE BindConflict(w) \/ InvalidPayload(w) \/ RecordPermanent(w)
  <2>1. FailPermanently(w)
    BY <1>2 DEF BindConflict, InvalidPayload, RecordPermanent
  <2>2. policy' = AfterEffect(j, "release", 0) /\ job'[j].state = "permanent_failure"
    BY <2>1, FailEnds DEF FailPermanently, Ends
  <2> QED BY <1>1, <2>2, EffectFollows
<1>3. CASE RecordRetry(w)
  <2>1. CASE job[j].attempts >= budget
    <3>1. /\ job' = [job EXCEPT ![j] = Unleased(@, "permanent_failure", 0)]
          /\ policy' = AfterEffect(j, "release", 0) /\ HoldsLease(w)
      BY <1>3, <2>1 DEF RecordRetry
    <3>2. Ends(w, "permanent_failure")
      <4> DEFINE state == "permanent_failure"
                 wait == 0
      <4>1. state \in JobStates /\ state # "leased" /\ wait \in Nat
            /\ job' = [job EXCEPT ![worker[w].job] = Unleased(@, state, wait)]
        BY <3>1, RowStates
      <4> HIDE DEF state, wait
      <4>2. Ends(w, state)
        BY <3>1, <4>1, UnleasedEnds
      <4> QED BY <4>2 DEF state
    <3> QED BY <1>1, <3>1, <3>2, EffectFollows DEF Ends
  <2>2. CASE ~(job[j].attempts >= budget)
    <3>1. PICK delay \in RetryDelays :
            /\ job' = [job EXCEPT ![j] = Unleased(@, "retry_wait", delay)]
            /\ policy' = AfterEffect(j, "extend", delay + ExtendTicks)
      BY <1>3, <2>2 DEF RecordRetry
    <3>2. delay \in Nat /\ delay + ExtendTicks \in Nat /\ HoldsLease(w)
      BY <1>3, OutboxAssumption DEF RecordRetry
    <3>3. Ends(w, "retry_wait")
      <4> DEFINE state == "retry_wait"
      <4>1. state \in JobStates /\ state # "leased"
            /\ job' = [job EXCEPT ![worker[w].job] = Unleased(@, state, delay)]
        BY <3>1, RowStates
      <4> HIDE DEF state
      <4>2. Ends(w, state)
        BY <3>2, <4>1, UnleasedEnds
      <4> QED BY <4>2 DEF state
    <3>4. job'[j].state \in InFlight
      BY <3>3 DEF Ends, InFlight, Queued
    <3> QED BY <1>1, <3>1, <3>2, <3>4, EffectFollows
  <2> QED BY <2>1, <2>2
<1>4. CASE RecordUncertain(w)
  <2>1. policy' = AfterEffect(j, "uncertain", 0) /\ job'[j].state = "uncertain"
    BY <1>4, UncertainEnds DEF RecordUncertain, Ends
  <2> QED BY <1>1, <2>1, EffectFollows
<1>5. CASE RecordDelivered(w)
  <2>1. policy' = AfterEffect(j, "commit", 0) /\ job'[j].state = "delivered"
    BY <1>5, DeliveredEnds DEF RecordDelivered, Ends
  <2> QED BY <1>1, <2>1, EffectFollows
<1> QED BY <1>2, <1>3, <1>4, <1>5 DEF HolderEndsLease

\* Whatever workers, ERPNext and the clock do, a reservation follows its holder.
LEMMA FollowsStep ==
  ASSUME WellTyped, [Next]_vars, \A j \in Jobs : ~Watcher(j) /\ ~EventEnds(j), NEW s \in Scopes
  PROVE  Follows(s)
<1>0. /\ policy[s] \in PolicyRow /\ job \in [Jobs -> JobRow]
      /\ policy[s].decision # NoJob => policy[s].decision \in Jobs
  BY DEF WellTyped, TypeOK, PolicyRow, Holders
<1>1. ASSUME NEW w \in Workers, Recover(w) PROVE Follows(s)
  <2> DEFINE k == policy[s].decision
  <2>1. policy'[s] = IF k = NoJob THEN policy[s]
                     ELSE Apply(RecoveryEffect(job[k]), policy[s], ExtendTicks)
    BY <1>1 DEF Recover, AfterRecovery
  <2>2. k \in Jobs => SweptWith(job[k], RecoveredRow(job[k]), RecoveryEffect(job[k]))
                     /\ job'[k] = RecoveredRow(job[k])
    BY <1>0, <1>1, SweepEffects DEF Recover
  <2> DEFINE q == RecoveredRow(job[k])
             effect == RecoveryEffect(job[k])
  <2> HIDE DEF q, effect
  <2>3. /\ \A i \in Jobs : i = policy[s].decision =>
             SweptWith(job[i], q, effect)
             /\ (job'[i] = q \/ (q.state \in InFlight /\ job'[i].state \in InFlight))
        /\ policy'[s] = IF policy[s].decision = NoJob THEN policy[s]
                        ELSE Apply(effect, policy[s], ExtendTicks)
    BY <2>1, <2>2 DEF q, effect
  <2> QED BY <2>3, SweepFollows
<1>2. ASSUME NEW w \in Workers, ClaimNothing(w) \/ \E j \in Jobs : Claim(w, j)
      PROVE Follows(s)
  <2> DEFINE k == policy[s].decision
  <2>1. policy'[s] = IF k = NoJob THEN policy[s]
                     ELSE Apply(SweepEffect(job[k]), policy[s], ExtendTicks)
    BY <1>2 DEF ClaimNothing, Claim, AfterSweep
  <2>2. \A i \in Jobs : \/ job'[i] = SweptRow(job[i])
                        \/ SweptRow(job[i]).state \in InFlight /\ job'[i].state \in InFlight
    <3>1. ASSUME NEW i \in Jobs, Claim(w, i)
          PROVE  SweptRow(job[i]).state \in InFlight /\ job'[i].state \in InFlight
      BY <3>1, ClaimedStates DEF Claim, Claimable, InFlight
    <3> QED BY <1>2, <3>1 DEF ClaimNothing, Claim
  <2>3. k \in Jobs => SweptWith(job[k], SweptRow(job[k]), SweepEffect(job[k]))
    BY <1>0, SweepEffects
  <2> DEFINE q == SweptRow(job[k])
             effect == SweepEffect(job[k])
  <2> HIDE DEF q, effect
  <2>4. /\ \A i \in Jobs : i = policy[s].decision =>
             SweptWith(job[i], q, effect)
             /\ (job'[i] = q \/ (q.state \in InFlight /\ job'[i].state \in InFlight))
        /\ policy'[s] = IF policy[s].decision = NoJob THEN policy[s]
                        ELSE Apply(effect, policy[s], ExtendTicks)
    BY <2>1, <2>2, <2>3 DEF q, effect
  <2> QED BY <2>4, SweepFollows
<1>3. ASSUME policy' = policy, \A j \in Jobs : RowRests(j) PROVE Follows(s)
  BY <1>3 DEF Follows, SameReservation, StaysInFlight, RowRests
<1>4. ASSUME NEW w \in Workers,
             \/ BindContract(w) \/ StartSubmission(w) \/ HeartbeatRenews(w)
             \/ LeaseLost(w) \/ Send(w) \/ Answering(w) \/ DeliveredCommitFails(w)
             \/ RecordDeferred(w) \/ Crash(w) \/ HeartbeatFails(w)
      PROVE  policy' = policy /\ \A j \in Jobs : RowRests(j)
  <2>1. policy' = policy
    BY <1>4 DEF BindContract, StartSubmission, HeartbeatRenews, LeaseLost, Send, Answering,
         NeverSent, AnswerLost, RefusalReceived, DocumentReceived, DeliveredCommitFails,
         RecordDeferred, Crash, HeartbeatFails
  <2>2. CASE BindContract(w) \/ StartSubmission(w) \/ HeartbeatRenews(w)
    BY <1>0, <2>1, <2>2 DEF BindContract, StartSubmission, HeartbeatRenews, RowRests, JobRow
  <2>3. CASE ~(BindContract(w) \/ StartSubmission(w) \/ HeartbeatRenews(w))
    <3>1. job' = job
      BY <1>4, <2>3 DEF LeaseLost, Send, Answering, NeverSent, AnswerLost, RefusalReceived,
           DocumentReceived, DeliveredCommitFails, RecordDeferred, Crash, HeartbeatFails
    <3> QED BY <2>1, <3>1 DEF RowRests
  <2> QED BY <2>2, <2>3
<1>5. CASE Tick
  <2>1. \A j \in Jobs : job'[j].state = job[j].state
    BY <1>0, <1>5 DEF Tick, JobRow
  <2>2. SameReservation(s)
    BY <1>0, <1>5, KeepingEffects DEF Tick, SameReservation
  <2> QED BY <2>1, <2>2 DEF Follows, StaysInFlight
<1>6. (\E k \in Jobs, a \in Attempts : Erpnext(k, a)) \/ ChangeSite \/ ChangeBudget
      \/ UNCHANGED vars
      => policy' = policy /\ job' = job
  BY DEF Erpnext, Serve, Throttle, Reject, ChangeSite, ChangeBudget, vars
<1>7. job' = job => \A j \in Jobs : RowRests(j)
  BY DEF RowRests
<1> QED BY <1>1, <1>2, <1>3, <1>4, <1>5, <1>6, <1>7, HolderFollows
        DEF Next, PollEmpty, WorkerStep, Answering, HolderEndsLease

-----------------------------------------------------------------------------
(* The invariant is preserved. *)

\* What the policy updates make of a reservation.
LEMMA FreeingEffects ==
  ASSUME NEW p \in PolicyRow, p.state = "none" <=> p.decision = NoJob
  PROVE  /\ Released(p).state = "none" <=> Released(p).decision = NoJob
         /\ Released(p).decision \in {NoJob, p.decision}
         /\ Released(p).committed = p.committed
         /\ p.state = "pending" => Released(p).state = "none"
         /\ GivenUp(p).state = "none" /\ GivenUp(p).decision = NoJob
         /\ GivenUp(p).committed = p.committed
         /\ MarkedUncertain(p).state = "none" <=> MarkedUncertain(p).decision = NoJob
         /\ MarkedUncertain(p).decision = p.decision
         /\ MarkedUncertain(p).committed = p.committed
         /\ p.state # "none" => MarkedUncertain(p).state = "uncertain"
         /\ Committed(p).state = "none" <=> Committed(p).decision = NoJob
         /\ Committed(p).decision \in {NoJob, p.decision}
         /\ p.state # "pending" => Committed(p) = p
         /\ p.state = "pending" =>
              Committed(p).committed = p.decision /\ Committed(p).state = "none"
BY DEF Released, GivenUp, MarkedUncertain, Committed, FreshRow, PolicyRow

\* A decision that is not cooling down is a cooldown after the last commit.
LEMMA Cooled ==
  ASSUME NEW p \in PolicyRow, NEW j \in Jobs, ~CoolingDown(p, j), NEW i \in Jobs,
         p.committed # NoJob, p.committed = i \/ Later(p.committed, i)
  PROVE  Later(j, i)
<1>1. /\ p.committed \in Jobs /\ Cooldown \in Nat
      /\ \A k \in Jobs : Effective[k] \in Nat
  BY PolicyAssumption DEF PolicyRow, Holders
<1>2. Effective[p.committed] + Cooldown <= Effective[j]
  BY <1>1 DEF CoolingDown
<1> QED BY <1>1, <1>2 DEF Later

\* A row in flight stays there or gives its reservation its outcome.
LEMMA InFlightMoves ==
  ASSUME WellTyped, ActiveHolds, [Next]_vars, \A j \in Jobs : ~Watcher(j) /\ ~EventEnds(j), NEW j \in Jobs
  PROVE  LET p == policy[ScopeOf[j]]
             q == policy'[ScopeOf[j]]
         IN Kept(j) /\ job[j].state \in InFlight =>
              /\ p.state = "pending" /\ p.decision = j
              /\ \/ /\ job'[j].state \in InFlight
                    /\ q.state = p.state /\ q.decision = p.decision /\ q.committed = p.committed
                 \/ job'[j].state = "permanent_failure" /\ q = Released(p)
                 \/ job'[j].state = "uncertain" /\ q = MarkedUncertain(p)
                 \/ job'[j].state = "delivered" /\ q = Committed(p)
<1>1. ScopeOf[j] \in Scopes
  BY OutboxAssumption
<1>2. Follows(ScopeOf[j])
  BY <1>1, FollowsStep
<1> QED BY <1>2 DEF Follows, SameReservation, StaysInFlight, ActiveHolds, HoldsReservation

\* A row that is not in flight keeps its state unless its decision is persisted.
LEMMA RestingRow ==
  ASSUME WellTyped, [Next]_vars, NEW j \in Jobs, job[j].state \notin InFlight, ~Persist(j)
  PROVE  job'[j].state = job[j].state
<1>1. job[j] \in JobRow
  BY DEF WellTyped, TypeOK
<1>2. RowSwept(j) => job'[j] = job[j]
  BY <1>1, SweptStates DEF RowSwept, InFlight
<1> QED BY <1>2, RowMoves, ClaimedStates, HolderStates DEF RowRests, InFlight

\* The steps of workers, ERPNext and the clock preserve the invariant.
LEMMA OthersKeepScopes ==
  ASSUME ScopeInv, [Next]_vars, \A j \in Jobs : ~Watcher(j) /\ ~EventEnds(j)
  PROVE  ReservationsOwned' /\ ActiveHolds' /\ CommittedLast' /\ CooldownHolds'
<1>0. /\ WellTyped /\ ReservationsOwned /\ ActiveHolds /\ CommittedLast /\ CooldownHolds
      /\ \A s \in Scopes : policy[s] \in PolicyRow
      /\ \A j \in Jobs : ScopeOf[j] \in Scopes
      /\ \A j \in Jobs : ~Persist(j)
      /\ \A j \in Jobs : Kept(j)' <=> Kept(j)
  BY OutboxAssumption, FacesStay DEF ScopeInv, OneCheckin, WellTyped, TypeOK, Watcher, Kept
<1>1. \A s \in Scopes : Follows(s)
  BY <1>0, FollowsStep
<1>2. \A j \in Jobs : job[j].state \notin InFlight => job'[j].state = job[j].state
  BY <1>0, RestingRow
<1>3. ReservationsOwned'
  <2> SUFFICES ASSUME NEW s \in Scopes
               PROVE  /\ policy'[s].state = "none" <=> policy'[s].decision = NoJob
                      /\ policy'[s].decision # NoJob =>
                           /\ ScopeOf[policy'[s].decision] = s
                           /\ ~CoolingDown(policy'[s], policy'[s].decision)
    BY DEF ReservationsOwned, CoolingDown
  <2>1. policy[s].state = "none" <=> policy[s].decision = NoJob
    BY <1>0 DEF ReservationsOwned
  <2>2. policy'[s].state = "none" <=> policy'[s].decision = NoJob
    BY <1>0, <1>1, <2>1, FreeingEffects DEF Follows, SameReservation
  <2>3. policy'[s].decision # NoJob =>
          policy'[s].decision = policy[s].decision /\ policy'[s].committed = policy[s].committed
    BY <1>0, <1>1, <2>1, <2>2, FreeingEffects DEF Follows, SameReservation
  <2> QED BY <1>0, <2>2, <2>3 DEF ReservationsOwned, CoolingDown
<1>4. ActiveHolds'
  <2> SUFFICES ASSUME NEW j \in Jobs, Kept(j)
               PROVE  /\ job'[j].state \in InFlight =>
                           policy'[ScopeOf[j]].decision = j /\ policy'[ScopeOf[j]].state = "pending"
                      /\ job'[j].state = "uncertain" =>
                           policy'[ScopeOf[j]].state = "uncertain" /\ policy'[ScopeOf[j]].decision = j
    BY <1>0 DEF ActiveHolds, HoldsReservation
  <2> DEFINE s == ScopeOf[j]
  <2>0. s \in Scopes /\ (policy[s].state = "none" <=> policy[s].decision = NoJob)
    BY <1>0 DEF ReservationsOwned
  <2>1. CASE job[j].state \in InFlight
    <3>1. /\ policy[s].state = "pending" /\ policy[s].decision = j
          /\ \/ /\ job'[j].state \in InFlight
                /\ policy'[s].state = policy[s].state /\ policy'[s].decision = policy[s].decision
             \/ job'[j].state = "permanent_failure"
             \/ job'[j].state = "uncertain" /\ policy'[s] = MarkedUncertain(policy[s])
             \/ job'[j].state = "delivered"
      BY <1>0, <2>1, InFlightMoves
    <3>2. MarkedUncertain(policy[s]).state = "uncertain" /\ MarkedUncertain(policy[s]).decision = j
      BY <1>0, <2>0, <3>1, FreeingEffects
    <3> QED BY <3>1, <3>2 DEF InFlight, Queued
  <2>2. CASE job[j].state \notin InFlight
    <3>1. job'[j].state = job[j].state
      BY <1>2, <2>2
    <3>2. SUFFICES ASSUME job[j].state = "uncertain"
                   PROVE  policy'[s].state = "uncertain" /\ policy'[s].decision = j
      BY <2>2, <3>1
    <3>3. policy[s].state = "uncertain" /\ policy[s].decision = j
      BY <1>0, <3>2 DEF ActiveHolds
    <3>4. SameReservation(s)
      BY <1>1, <2>0, <2>2, <3>3 DEF Follows
    <3> QED BY <3>3, <3>4 DEF SameReservation
  <2> QED BY <2>1, <2>2
<1>5. \A j \in Jobs : Kept(j) /\ job'[j].state = "delivered" /\ job[j].state # "delivered" =>
        /\ policy[ScopeOf[j]].state = "pending" /\ policy[ScopeOf[j]].decision = j
        /\ policy'[ScopeOf[j]].committed = j
        /\ ~CoolingDown(policy[ScopeOf[j]], j)
  <2> SUFFICES ASSUME NEW j \in Jobs, Kept(j), job'[j].state = "delivered",
                      job[j].state # "delivered"
               PROVE  /\ policy[ScopeOf[j]].state = "pending" /\ policy[ScopeOf[j]].decision = j
                      /\ policy'[ScopeOf[j]].committed = j
                      /\ ~CoolingDown(policy[ScopeOf[j]], j)
    OBVIOUS
  <2> DEFINE s == ScopeOf[j]
  <2>1. job[j].state \in InFlight
    BY <1>2
  <2>2. policy[s].state = "pending" /\ policy[s].decision = j /\ policy'[s] = Committed(policy[s])
    BY <1>0, <2>1, InFlightMoves DEF InFlight, Queued
  <2>3. policy'[s].committed = j
    BY <1>0, <2>2, FreeingEffects DEF ReservationsOwned
  <2>4. ~CoolingDown(policy[s], j)
    BY <1>0, <2>2, PolicyAssumption DEF ReservationsOwned
  <2> QED BY <2>2, <2>3, <2>4
<1>6. CommittedLast'
  <2> SUFFICES ASSUME NEW j \in Jobs, Kept(j), job'[j].state = "delivered"
               PROVE  /\ policy'[ScopeOf[j]].committed # NoJob
                      /\ \/ policy'[ScopeOf[j]].committed = j
                         \/ Later(policy'[ScopeOf[j]].committed, j)
    BY <1>0 DEF CommittedLast, Later
  <2> DEFINE s == ScopeOf[j]
             p == policy[s]
             q == policy'[s]
  <2>1. CASE job[j].state # "delivered"
    <3>1. q.committed = j
      BY <1>5, <2>1
    <3> QED BY <3>1, PolicyAssumption
  <2>2. CASE job[j].state = "delivered"
    <3>1. /\ p.committed # NoJob /\ (p.committed = j \/ Later(p.committed, j))
          /\ p \in PolicyRow /\ (p.state = "none" <=> p.decision = NoJob)
          /\ Follows(s)
      BY <1>0, <1>1, <2>2 DEF CommittedLast, ReservationsOwned
    <3>2. CASE q.committed = p.committed
      BY <3>1, <3>2
    <3>3. CASE q.committed # p.committed
      <4>1. p.decision \in Jobs /\ q = Committed(p)
        BY <3>1, <3>3, FreeingEffects DEF Follows, SameReservation
      <4>2. p.state = "pending" /\ q.committed = p.decision
        BY <3>1, <3>3, <4>1, FreeingEffects
      <4>3. ~CoolingDown(p, p.decision)
        BY <1>0, <4>1, PolicyAssumption DEF ReservationsOwned
      <4>4. Later(p.decision, j)
        BY <3>1, <4>1, <4>3, Cooled
      <4> QED BY <4>1, <4>2, <4>4, PolicyAssumption
    <3> QED BY <3>2, <3>3
  <2> QED BY <2>1, <2>2
<1>7. CooldownHolds'
  <2> SUFFICES ASSUME NEW j \in Jobs, NEW k \in Jobs, j # k, ScopeOf[j] = ScopeOf[k],
                      Kept(j), Kept(k),
                      job'[j].state = "delivered", job'[k].state = "delivered"
               PROVE  Later(k, j) \/ Later(j, k)
    BY <1>0 DEF CooldownHolds, Later
  <2>1. ASSUME NEW a \in Jobs, NEW b \in Jobs, ScopeOf[a] = ScopeOf[b], Kept(a), Kept(b),
               job[a].state = "delivered",
               job'[b].state = "delivered", job[b].state # "delivered"
        PROVE  Later(b, a)
    <3>1. ~CoolingDown(policy[ScopeOf[b]], b)
      BY <1>5, <2>1
    <3>2. /\ policy[ScopeOf[b]].committed # NoJob
          /\ policy[ScopeOf[b]].committed = a \/ Later(policy[ScopeOf[b]].committed, a)
      BY <1>0, <2>1 DEF CommittedLast
    <3> QED BY <1>0, <3>1, <3>2, Cooled
  <2>2. CASE job[j].state = "delivered" /\ job[k].state = "delivered"
    BY <1>0, <2>2 DEF CooldownHolds, Later
  <2>3. CASE job[j].state # "delivered" /\ job[k].state # "delivered"
    BY <1>5, <2>3
  <2> QED BY <2>1, <2>2, <2>3
<1> QED BY <1>3, <1>4, <1>6, <1>7

\* The watcher reserves a scope that nobody can deliver in any more.
LEMMA ReserveKeepsScopes ==
  ASSUME ScopeInv, NEW j \in Jobs, Reserve(j)
  PROVE  ReservationsOwned' /\ ActiveHolds' /\ CommittedLast' /\ CooldownHolds'
<1> DEFINE s == ScopeOf[j]
           p == policy[s]
           q == Reserved(p, j, WindowTicks)
<1>0. /\ WellTyped /\ Unpersisted /\ ReservationsOwned /\ ActiveHolds /\ CommittedLast
      /\ CooldownHolds /\ s \in Scopes /\ p \in PolicyRow
      /\ policy \in [Scopes -> PolicyRow] /\ face \in [Jobs -> Faces]
  BY OutboxAssumption DEF ScopeInv, OneCheckin, WellTyped, TypeOK
<1>1. /\ job' = job /\ job[j].state = "absent" /\ ~CoolingDown(p, j)
      /\ policy'[s] = q /\ \A t \in Scopes : t # s => policy'[t] = policy[t]
      /\ \A k \in Jobs : Kept(k)' <=> Kept(k)
  BY <1>0 DEF Reserve, Unpersisted, Recorded, Kept
<1>2. q.state = "pending" /\ q.decision = j /\ q.committed = p.committed
  BY <1>0 DEF Reserved, PolicyRow
<1>3. \A k \in Jobs : Kept(k) /\ ScopeOf[k] = s => job[k].state \notin InFlight \cup {"uncertain"}
  <2> SUFFICES ASSUME NEW k \in Jobs, Kept(k), ScopeOf[k] = s,
                      job[k].state \in InFlight \cup {"uncertain"}
               PROVE  FALSE
    OBVIOUS
  <2>1. p.decision = k /\ p.state # "none"
    BY <1>0 DEF ActiveHolds, HoldsReservation
  <2>2. HolderState(s) = job[k].state
    BY <2>1, PolicyAssumption DEF HolderState
  <2>3. job[k].state \in {"absent", "permanent_failure", "cancelled"}
    BY <2>1, <2>2 DEF Reserve, Reservable
  <2> QED BY <2>3 DEF InFlight, Queued
<1> HIDE DEF q
<1>4. ReservationsOwned'
  <2> SUFFICES ASSUME NEW t \in Scopes
               PROVE  /\ policy'[t].state = "none" <=> policy'[t].decision = NoJob
                      /\ policy'[t].decision # NoJob =>
                           /\ ScopeOf[policy'[t].decision] = t
                           /\ ~CoolingDown(policy'[t], policy'[t].decision)
    BY DEF ReservationsOwned, CoolingDown
  <2>1. CASE t = s
    <3>1. ~CoolingDown(q, j)
      BY <1>1, <1>2 DEF CoolingDown
    <3> QED BY <1>1, <1>2, <2>1, <3>1, PolicyAssumption
  <2>2. CASE t # s
    BY <1>0, <1>1, <2>2 DEF ReservationsOwned
  <2> QED BY <2>1, <2>2
<1>5. ActiveHolds'
  <2> SUFFICES ASSUME NEW k \in Jobs, Kept(k)
               PROVE  /\ job[k].state \in InFlight =>
                           policy'[ScopeOf[k]].decision = k /\ policy'[ScopeOf[k]].state = "pending"
                      /\ job[k].state = "uncertain" =>
                           policy'[ScopeOf[k]].state = "uncertain" /\ policy'[ScopeOf[k]].decision = k
    BY <1>1 DEF ActiveHolds, HoldsReservation
  <2>1. ScopeOf[k] \in Scopes
    BY OutboxAssumption
  <2> QED BY <1>0, <1>1, <1>3, <2>1 DEF ActiveHolds, HoldsReservation
<1>6. CommittedLast'
  <2> SUFFICES ASSUME NEW k \in Jobs, Kept(k), job[k].state = "delivered"
               PROVE  /\ policy'[ScopeOf[k]].committed # NoJob
                      /\ \/ policy'[ScopeOf[k]].committed = k
                         \/ Later(policy'[ScopeOf[k]].committed, k)
    BY <1>1 DEF CommittedLast, Later
  <2>1. ScopeOf[k] \in Scopes
    BY OutboxAssumption
  <2> QED BY <1>0, <1>1, <1>2, <2>1 DEF CommittedLast
<1>7. CooldownHolds'
  BY <1>0, <1>1 DEF CooldownHolds
<1> QED BY <1>4, <1>5, <1>6, <1>7

\* Giving a reservation back, or leaving it to run out, touches no job in flight
\* whose event still keeps its reservation.
LEMMA GivingBackKeepsScopes ==
  ASSUME ScopeInv, NEW j \in Jobs,
         ReserveRefused(j) \/ PersistFails(j) \/ WatcherCrashes(j) \/ EventEnds(j)
  PROVE  ReservationsOwned' /\ ActiveHolds' /\ CommittedLast' /\ CooldownHolds'
<1> DEFINE p(s) == policy[s]
           Left(s) == policy'[s] = p(s)
           Doubted(s) == /\ policy'[s] = MarkedUncertain(p(s))
                         /\ HolderUnresolved(p(s), HolderState(s), FALSE)
           Freed(s) == /\ policy'[s] \in {Released(p(s)), GivenUp(p(s))}
                       /\ p(s).decision = j
                       /\ job[j].state = "absent" \/ ~Kept(j)'
<1>0. /\ WellTyped /\ Unpersisted /\ ReservationsOwned /\ ActiveHolds /\ CommittedLast
      /\ CooldownHolds /\ policy \in [Scopes -> PolicyRow] /\ job' = job
      /\ face \in [Jobs -> Faces]
      /\ \A k \in Jobs : ScopeOf[k] \in Scopes
  BY OutboxAssumption, EventEndsApart
     DEF ScopeInv, OneCheckin, WellTyped, TypeOK, ReserveRefused, PersistFails, WatcherCrashes
<1>a. \A k \in Jobs : Kept(k)' => Kept(k)
  BY <1>0 DEF ReserveRefused, PersistFails, WatcherCrashes, EventEnds, EventFails,
              EventTakenBack, Kept
<1>1. \A s \in Scopes : Left(s) \/ Doubted(s) \/ Freed(s)
  <2> SUFFICES ASSUME NEW s \in Scopes PROVE Left(s) \/ Doubted(s) \/ Freed(s)
    OBVIOUS
  <2>1. CASE ReserveRefused(j)
    BY <1>0, <2>1 DEF ReserveRefused
  <2>2. CASE PersistFails(j) \/ EventFails(j)
    <3>1. policy' = AfterEffect(j, "release", 0) /\ (job[j].state = "absent" \/ ~Kept(j)')
      BY <1>0, <2>2 DEF PersistFails, EventFails, Unpersisted, Recorded, Kept
    <3>2. policy'[s] = IF policy[s].decision = j THEN Apply("release", policy[s], 0)
                       ELSE policy[s]
      BY <3>1 DEF AfterEffect
    <3> QED BY <1>0, <3>1, <3>2, KeepingEffects
  <2>3. CASE WatcherCrashes(j)
    BY <2>3 DEF WatcherCrashes
  <2>4. CASE EventTakenBack(j)
    <3>1. job[j].state = "absent" \/ ~Kept(j)'
      BY <1>0, <2>4 DEF EventTakenBack, Unpersisted, Recorded, Kept
    <3>2. CASE s = ScopeOf[j]
      BY <1>0, <2>4, <3>1, <3>2 DEF EventTakenBack
    <3>3. CASE s # ScopeOf[j]
      BY <1>0, <2>4, <3>3 DEF EventTakenBack
    <3> QED BY <3>2, <3>3
  <2> QED BY <2>1, <2>2, <2>3, <2>4 DEF EventEnds
<1>2. \A s \in Scopes :
        /\ policy'[s].committed = policy[s].committed
        /\ policy'[s].decision \in {NoJob, policy[s].decision}
        /\ policy'[s].state = "none" <=> policy'[s].decision = NoJob
  <2> SUFFICES ASSUME NEW s \in Scopes
               PROVE  /\ policy'[s].committed = policy[s].committed
                      /\ policy'[s].decision \in {NoJob, policy[s].decision}
                      /\ policy'[s].state = "none" <=> policy'[s].decision = NoJob
    OBVIOUS
  <2>1. policy[s] \in PolicyRow /\ (policy[s].state = "none" <=> policy[s].decision = NoJob)
    BY <1>0 DEF ReservationsOwned
  <2>2. policy'[s] \in {policy[s], MarkedUncertain(policy[s]), Released(policy[s]),
                       GivenUp(policy[s])}
    BY <1>1
  <2> QED BY <2>1, <2>2, FreeingEffects
<1>3. \A k \in Jobs : Kept(k)' /\ job[k].state \in InFlight \cup {"uncertain"} =>
        policy'[ScopeOf[k]] = policy[ScopeOf[k]]
  <2> SUFFICES ASSUME NEW k \in Jobs, Kept(k)', job[k].state \in InFlight \cup {"uncertain"}
               PROVE  policy'[ScopeOf[k]] = policy[ScopeOf[k]]
    OBVIOUS
  <2> DEFINE s == ScopeOf[k]
  <2>1. /\ policy[s].decision = k /\ s \in Scopes
        /\ job[k].state \in InFlight => policy[s].state = "pending"
        /\ job[k].state = "uncertain" => policy[s].state = "uncertain"
    BY <1>0, <1>a DEF ActiveHolds, HoldsReservation
  <2>2. HolderState(s) = job[k].state /\ job[k].state # "absent" /\ job[k].state # "delivered"
    BY <2>1, PolicyAssumption DEF HolderState, InFlight, Queued
  <2>3. ~HolderUnresolved(policy[s], HolderState(s), FALSE)
    BY <2>1, <2>2 DEF HolderUnresolved, Expired, InFlight, Queued
  <2> QED BY <1>1, <2>1, <2>2, <2>3
<1>4. ReservationsOwned'
  BY <1>0, <1>2 DEF ReservationsOwned, CoolingDown
<1>5. ActiveHolds'
  BY <1>0, <1>a, <1>3 DEF ActiveHolds, HoldsReservation
<1>6. CommittedLast'
  BY <1>0, <1>a, <1>2 DEF CommittedLast, Later
<1>7. CooldownHolds'
  BY <1>0, <1>a DEF CooldownHolds
<1> QED BY <1>4, <1>5, <1>6, <1>7

\* A decision is persisted while it holds its scope.
LEMMA PersistKeepsScopes ==
  ASSUME ~WatcherStalls, ScopeInv, NEW j \in Jobs, Persist(j)
  PROVE  ReservationsOwned' /\ ActiveHolds' /\ CommittedLast' /\ CooldownHolds'
<1>0. /\ WellTyped /\ ReservationsOwned /\ ActiveHolds /\ CommittedLast /\ CooldownHolds
      /\ policy' = policy /\ HoldsReservation(j)
      /\ \A k \in Jobs : Kept(k)' <=> Kept(k)
  BY DEF ScopeInv, OneCheckin, WellTyped, TypeOK, Persist, Kept
<1>1. job'[j].state = "pending" /\ \A k \in Jobs : k # j => job'[k] = job[k]
  BY <1>0 DEF Persist, WellTyped, TypeOK, JobRow
<1>2. ReservationsOwned'
  BY <1>0 DEF ReservationsOwned, CoolingDown
<1>3. ActiveHolds'
  BY <1>0, <1>1 DEF ActiveHolds, HoldsReservation
<1>4. CommittedLast'
  BY <1>0, <1>1 DEF CommittedLast, Later
<1>5. CooldownHolds'
  BY <1>0, <1>1 DEF CooldownHolds
<1> QED BY <1>2, <1>3, <1>4, <1>5

\* Nothing is reserved at the start.
LEMMA ScopeInvInit == Init => ScopeInv
<1> SUFFICES ASSUME Init PROVE ScopeInv
  OBVIOUS
<1>1. ReservationsOwned /\ ActiveHolds /\ CommittedLast /\ CooldownHolds
  BY DEF Init, ReservationsOwned, ActiveHolds, CommittedLast, CooldownHolds, InFlight, Queued,
         NoRow, FreshRow
<1> QED BY <1>1, OneCheckinInit DEF ScopeInv

\* Every step preserves the invariant of the scopes.
LEMMA ScopeInvStep ==
  ASSUME ~WatcherStalls, ScopeInv, [Next]_vars
  PROVE  ScopeInv'
<1>1. OneCheckin'
  BY OneCheckinStep DEF ScopeInv
<1>2. ReservationsOwned' /\ ActiveHolds' /\ CommittedLast' /\ CooldownHolds'
  <2>1. CASE \A j \in Jobs : ~Watcher(j) /\ ~EventEnds(j)
    BY <2>1, OthersKeepScopes
  <2>2. ASSUME NEW j \in Jobs, Watcher(j) \/ EventEnds(j)
        PROVE  ReservationsOwned' /\ ActiveHolds' /\ CommittedLast' /\ CooldownHolds'
    BY <2>2, ReserveKeepsScopes, GivingBackKeepsScopes, PersistKeepsScopes DEF Watcher
  <2> QED BY <2>1, <2>2
<1> QED BY <1>1, <1>2 DEF ScopeInv

\* Two decisions of one scope are never in flight together unless the event of
\* one of them gave its reservation up: a reservation passes to another decision
\* only by that, or when the delivery of its holder can no longer happen
\* (reserve_attendance_policy against the states of delivery_jobs).
THEOREM OneDecisionInFlight ==
  ASSUME ~WatcherStalls
  PROVE  Spec => []OneInFlightPerScope
<1>1. ScopeInv /\ [Next]_vars => ScopeInv'
  BY ScopeInvStep
<1>2. ScopeInv => OneInFlightPerScope
  BY DEF ScopeInv, OneInFlightPerScope, ActiveHolds, HoldsReservation, Active, InFlight, Queued
<1> QED BY <1>1, <1>2, ScopeInvInit, PTL DEF Spec

\* An uncertain delivery keeps its scope closed until its own event gives the
\* reservation up: no expiry, refusal, sweep or other event frees it
\* (_policy_uncertain_for_decision_tx).
THEOREM UncertainKeepsScopeClosed ==
  ASSUME ~WatcherStalls
  PROVE  Spec => []UncertainBlocksScope
<1>1. ScopeInv /\ [Next]_vars => ScopeInv'
  BY ScopeInvStep
<1>2. ScopeInv => UncertainBlocksScope
  BY DEF ScopeInv, UncertainBlocksScope, ActiveHolds
<1> QED BY <1>1, <1>2, ScopeInvInit, PTL DEF Spec

\* Deliveries of one scope whose events did not give their reservations up are
\* a cooldown apart, for every number of decisions and scopes and in whatever
\* order they are captured, reserved, retried, delivered or their events fail
\* (_policy_commit_for_decision_tx keeps the last one).
THEOREM DeliveriesAreCooldownApart ==
  ASSUME ~WatcherStalls
  PROVE  Spec => []CooldownHolds
<1>1. ScopeInv /\ [Next]_vars => ScopeInv'
  BY ScopeInvStep
<1>2. ScopeInv => CooldownHolds
  BY DEF ScopeInv
<1> QED BY <1>1, <1>2, ScopeInvInit, PTL DEF Spec
=============================================================================
