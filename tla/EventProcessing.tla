---------------------------- MODULE EventProcessing ----------------------------
(***************************************************************************)
(* From a camera upload to a settled event: the watcher processes that     *)
(* poll the upload directories (watch_service.py), the processing lease    *)
(* each must hold (processing_recovery.py), the policy reservation and the *)
(* delivery job of each accepted face, the synchronous ERPNext call, what  *)
(* a restarted watcher recovers, the operator who reprocesses or dismisses *)
(* an event (event_admin.py), pruning, and the files themselves.           *)
(*                                                                         *)
(* Every action is one SQLite transaction, one move of a file or one call  *)
(* to ERPNext; processes interleave, stop and die between them.            *)
(***************************************************************************)
EXTENDS Integers, Sequences, FiniteSets, TLC

CONSTANTS
  Captures,        \* camera captures (camera, direction and content)
  NoCapture,
  Watchers,        \* watcher processes
  Operators,       \* operators running event_admin.py
  NoOwner,
  Dead,            \* the owner id of a process that died: ids are made up at start
  Scopes,          \* attendance policy scopes
  FaceScopes,      \* the scope of each face in a capture, in order
  EffectiveAt,     \* received_at of each capture
  Cooldown,        \* cooldown_seconds
  WorkerMode,      \* delivery_mode: "worker", or else "synchronous"
  Deletes,         \* delete_camera_uploads_after_processing
  Quarantines,     \* quarantine_invalid_uploads
  LeaseTicks,      \* event_processing_lease_seconds
  WindowTicks,     \* attendance_policy_reservation_seconds
  MaxAttempts,     \* bound on the processing attempts of an event
  MaxUploads,      \* bound on how often the camera sends one capture
  MaxActions,      \* bound on operator actions
  MaxFaults,       \* bound on crashes and failing writes
  DoubtsFail,      \* may mark_attendance_policy_uncertain be what fails after a
                   \* call without an answer (watch_service.py:1258)?
  QuarantineOnly,  \* do operators only requeue quarantined evidence
                   \* (resolve-quarantine), or any recorded file (reprocess)?
  Stalls           \* may a process stop for longer than its lease?  "The
                   \* processing lease must comfortably exceed the normal local
                   \* recognition time and the synchronous ERPNext request".

Faces == UNION {DOMAIN FaceScopes[c] : c \in Captures}

Decisions  == [event : Captures, face : Faces, attempt : 1..MaxAttempts]
NoDecision == [event |-> NoCapture, face |-> 0, attempt |-> 0]
Owners     == Watchers \cup Operators \cup {Dead}

ASSUME ProcessingAssumption ==
  /\ NoCapture \notin Captures
  /\ Watchers \cap Operators = {} /\ NoOwner \notin Owners
  /\ Dead \notin Watchers \cup Operators
  /\ FaceScopes \in [Captures -> Seq(Scopes)]
  \* seen_this_image: of two faces of one employee, one is a candidate
  /\ \A c \in Captures : \A i, k \in DOMAIN FaceScopes[c] :
       FaceScopes[c][i] = FaceScopes[c][k] => i = k
  /\ EffectiveAt \in [Captures -> Nat \ {0}]
  /\ WorkerMode \in BOOLEAN /\ Deletes \in BOOLEAN
  /\ Quarantines \in BOOLEAN /\ QuarantineOnly \in BOOLEAN /\ Stalls \in BOOLEAN
  /\ DoubtsFail \in BOOLEAN
  /\ LeaseTicks \in Nat \ {0} /\ WindowTicks \in Nat \ {0}
  /\ Cooldown \in Nat /\ MaxAttempts \in Nat \ {0} /\ MaxUploads \in Nat
  /\ MaxActions \in Nat /\ MaxFaults \in Nat

INSTANCE EventLedger

Policy == INSTANCE AttendancePolicy
            WITH Jobs <- Decisions, NoJob <- NoDecision,
                 Effective <- [d \in Decisions |-> EffectiveAt[d.event]]

VARIABLES
  event,      \* camera_events rows
  tombstone,  \* event_tombstones
  media,      \* where the copies of each capture are
  policy,     \* attendance_policy_state rows
  decided,    \* recognition_decisions: the ids that are taken
  job,        \* delivery_jobs: the state of each accepted decision's job
  sent,       \* decisions whose check-in ERPNext was asked to create
  docs,       \* decisions whose check-in ERPNext created
  watcher,    \* watcher processes
  todo,       \* what each restarted watcher still has to do for a capture
  operator,   \* operators' commands
  faults, uploads, actions   \* how much of each bound is used

ledger    == <<event, tombstone>>
delivery  == <<decided, job, sent, docs>>
processes == <<watcher, todo, operator>>
bounds    == <<faults, uploads, actions>>
vars == <<event, tombstone, media, policy, decided, job, sent, docs, watcher, todo,
          operator, faults, uploads, actions>>

Verdicts == {"none", "rejected", "failed", "uncertain", "processed",
             "checkin_created", "duplicate", "broken"}

\* "scoring": between two faces; "failing": process_path is handling an
\* exception; "doubting" and "conceding": after a call, before
\* DeliveryAttemptUncertain is raised; "refused": the lease was refused;
\* "breaking": an exception nothing in process_path foresees.
Stages == {"down", "recovering", "idle", "received", "leased", "renewed", "scoring",
           "reserved", "persisted", "submitting", "answered", "raised", "delivered",
           "doubting", "conceding", "failing", "disposing", "finalizing", "refused",
           "breaking"}

Watching == [pc : Stages, capture : Captures \cup {NoCapture}, file : Uploads,
             attempt : 0..MaxAttempts, face : Nat, made : BOOLEAN, queued : BOOLEAN,
             verdict : Verdicts, at : Places \cup {Nowhere}]

Resting == [pc |-> "idle", capture |-> NoCapture, file |-> "upload", attempt |-> 0,
            face |-> 0, made |-> FALSE, queued |-> FALSE, verdict |-> "none",
            at |-> Nowhere]

Down == [Resting EXCEPT !.pc = "down"]

Chores == {"none", "retry", "uncertain", "retained"}

Command == [pc : {"idle", "staged", "requested", "published", "refused", "rollback",
                  "marking"},
            capture : Captures \cup {NoCapture}, from : Places \cup {Nowhere}]

NoCommand == [pc |-> "idle", capture |-> NoCapture, from |-> Nowhere]

JobStates == {"absent", "pending", "leased", "delivered", "permanent_failure",
              "uncertain"}

TypeOK ==
  /\ event \in [Captures -> Row]
  /\ tombstone \subseteq Captures
  /\ media \in [Captures -> SUBSET Places]
  /\ policy \in [Scopes -> Policy!PolicyRow]
  /\ decided \subseteq Decisions
  /\ job \in [Decisions -> JobStates]
  /\ docs \subseteq sent /\ sent \subseteq Decisions
  /\ watcher \in [Watchers -> Watching]
  /\ todo \in [Watchers -> [Captures -> Chores]]
  /\ operator \in [Operators -> Command]
  /\ faults \in 0..MaxFaults
  /\ uploads \in [Captures -> 0..MaxUploads]
  /\ actions \in 0..MaxActions

NothingToDo == [c \in Captures |-> "none"]

Init ==
  /\ event = [c \in Captures |-> NoRow]
  /\ tombstone = {}
  /\ media = [c \in Captures |-> {}]
  /\ policy = [s \in Scopes |-> Policy!FreshRow]
  /\ decided = {} /\ sent = {} /\ docs = {}
  /\ job = [d \in Decisions |-> "absent"]
  /\ watcher = [w \in Watchers |-> Resting]
  /\ todo = [w \in Watchers |-> NothingToDo]
  /\ operator = [o \in Operators |-> NoCommand]
  /\ faults = 0 /\ actions = 0
  /\ uploads = [c \in Captures |-> 0]

-----------------------------------------------------------------------------
(***************************************************************************)
(* What a transaction does to the reservations of an event or a decision.  *)
(***************************************************************************)

OfEvent(c, Effect(_)) ==
  [s \in Scopes |-> IF policy[s].decision.event = c THEN Effect(policy[s]) ELSE policy[s]]

OfDecision(d, Effect(_)) ==
  [s \in Scopes |-> IF policy[s].decision = d THEN Effect(policy[s]) ELSE policy[s]]

\* Mutant: a delivered job is taken back.
DoubtfulToo(state) == IF state = "absent" THEN state ELSE "uncertain"

\* _mark_delivery_job_uncertain_tx: a delivered job stays delivered.
Doubtful(state) == IF state \in {"pending", "leased"} THEN "uncertain" ELSE state

Doubted(d) == IF d = NoDecision THEN job ELSE [job EXCEPT ![d] = Doubtful(@)]

-----------------------------------------------------------------------------
(***************************************************************************)
(* The files.                                                              *)
(***************************************************************************)

\* remove_source
Removed(c, file) == [media EXCEPT ![c] = @ \ {file}]

\* reject_file: into quarantine, or left where it is.
RejectedFile(c, file) ==
  IF Quarantines /\ file \in media[c]
  THEN [media EXCEPT ![c] = (@ \ {file}) \cup {"kept"}]
  ELSE media

RejectedTo(c, file) ==
  IF file \notin media[c] THEN Nowhere ELSE IF Quarantines THEN "kept" ELSE file

\* The camera sends a capture, or sends it again.
Upload(c) ==
  /\ uploads[c] < MaxUploads
  /\ "upload" \notin media[c]
  /\ uploads' = [uploads EXCEPT ![c] = @ + 1]
  /\ media' = [media EXCEPT ![c] = @ \cup {"upload"}]
  /\ UNCHANGED <<ledger, policy, delivery, processes, faults, actions>>

-----------------------------------------------------------------------------
(***************************************************************************)
(* The watcher's steps.                                                    *)
(***************************************************************************)

At(w, pc) == watcher[w].pc = pc

Goes(w, to) == watcher' = [watcher EXCEPT ![w] = to]

On(w) == watcher[w].capture

Scope(w) == FaceScopes[On(w)][watcher[w].face]

Decision(w) ==
  [event |-> On(w), face |-> watcher[w].face, attempt |-> watcher[w].attempt]

Disposing(w, verdict) ==
  Goes(w, [watcher[w] EXCEPT !.pc = "disposing", !.verdict = verdict])

Failing(w) == Goes(w, [watcher[w] EXCEPT !.pc = "failing"])

Fault == faults < MaxFaults /\ faults' = faults + 1

\* A write that the database does not accept, or that fails.
Refused(condition) == \/ condition /\ UNCHANGED faults
                      \/ Fault

\* Mutant: only the detailed row of an event is looked up.
ReceiveForgetful(w, c, file) ==
  /\ At(w, "idle") /\ file \in media[c]
  /\ Goes(w, [Resting EXCEPT !.pc = "received", !.capture = c, !.file = file])
  /\ tombstone' = tombstone \cup {c}
  /\ event' = [event EXCEPT ![c] = IF @.state = "absent" THEN Receipt(file) ELSE @]
  /\ UNCHANGED <<media, policy, delivery, todo, operator, bounds>>

\* record_event_receipt, for a file the poll found.
Receive(w, c, file) ==
  /\ At(w, "idle") /\ file \in media[c]
  /\ event[c].state # "absent" \/ c \notin tombstone
  /\ Goes(w, [Resting EXCEPT !.pc = "received", !.capture = c, !.file = file])
  /\ tombstone' = tombstone \cup {c}
  /\ event' = [event EXCEPT ![c] = IF @.state = "absent" THEN Receipt(file) ELSE @]
  /\ UNCHANGED <<media, policy, delivery, todo, operator, bounds>>

\* The event was pruned; its tombstone still knows the content.
Replay(w, c, file) ==
  /\ At(w, "idle") /\ file \in media[c]
  /\ event[c].state = "absent" /\ c \in tombstone
  /\ Deletes
  /\ media' = Removed(c, file)
  /\ UNCHANGED <<ledger, policy, delivery, processes, bounds>>

Acquire(w) ==
  LET c == On(w)
      found == Finds(event[c], w) IN
  /\ At(w, "received")
  /\ found \in {"free", "owned"}
  /\ found = "free" => event[c].attempt < MaxAttempts
  /\ event' = [event EXCEPT ![c] =
                 IF found = "owned" THEN Renewed(@) ELSE Acquired(@, w)]
  /\ policy' = OfEvent(c, LAMBDA p : IF found = "free" /\ Recovering(event[c])
                                     THEN Policy!GivenUp(p) ELSE p)
  /\ Goes(w, [watcher[w] EXCEPT !.pc = "leased", !.attempt = event'[c].attempt])
  /\ UNCHANGED <<tombstone, media, delivery, todo, operator, bounds>>

\* The lease on a submission ran out: nobody knows whether ERPNext has it.
AcquireAmbiguous(w) ==
  LET c == On(w) IN
  /\ At(w, "received")
  /\ Finds(event[c], w) = "ambiguous"
  /\ event' = [event EXCEPT ![c] = Ended(@, "uncertain")]
  /\ job' = Doubted(event[c].decision)
  /\ policy' = OfEvent(c, Policy!MarkedUncertain)
  /\ Goes(w, [watcher[w] EXCEPT !.pc = "refused", !.verdict = "uncertain"])
  /\ UNCHANGED <<tombstone, media, decided, sent, docs, todo, operator, bounds>>

AcquireRefused(w) ==
  LET c == On(w)
      found == Finds(event[c], w) IN
  /\ At(w, "received")
  /\ found \in {"missing", "terminal", "busy"}
  /\ IF found = "terminal"
     THEN Goes(w, [watcher[w] EXCEPT !.pc = "refused", !.verdict =
                     IF event[c].state = "uncertain" THEN "uncertain" ELSE "duplicate"])
     ELSE Goes(w, Resting)
  /\ UNCHANGED <<ledger, media, policy, delivery, todo, operator, bounds>>

\* What happens to a file whose event cannot be leased.
TurnAway(w) ==
  LET c == On(w) IN
  /\ At(w, "refused")
  /\ media' = CASE watcher[w].verdict = "uncertain" -> RejectedFile(c, watcher[w].file)
                [] watcher[w].verdict = "duplicate" /\ Deletes ->
                     Removed(c, watcher[w].file)
                [] OTHER -> media
  /\ Goes(w, Resting)
  /\ UNCHANGED <<ledger, policy, delivery, todo, operator, bounds>>

\* transition_claim: renew the lease in one transaction ...
Renew(w) ==
  LET c == On(w) IN
  /\ At(w, "leased")
  /\ CanRenew(event[c], w)
  /\ event' = [event EXCEPT ![c] = Renewed(@)]
  /\ Goes(w, [watcher[w] EXCEPT !.pc = "renewed"])
  /\ UNCHANGED <<tombstone, media, policy, delivery, todo, operator, bounds>>

\* ... which may find it lost: ProcessingLeaseError, and the file is left.
RenewRefused(w) ==
  /\ At(w, "leased")
  /\ ~CanRenew(event[On(w)], w)
  /\ Goes(w, Resting)
  /\ UNCHANGED <<ledger, media, policy, delivery, todo, operator, bounds>>

\* ... and move the event in another, whoever has the lease by then.
Advance(w) ==
  LET c == On(w) IN
  /\ At(w, "renewed")
  /\ event[c].state # "absent"
  /\ event' = [event EXCEPT ![c] = Moved(@, "processing")]
  /\ Goes(w, [watcher[w] EXCEPT !.pc = "scoring", !.face = 1])
  /\ UNCHANGED <<tombstone, media, policy, delivery, todo, operator, bounds>>

\* The upload is refused: its receipt, time, size, faces or PAD result.
Reject(w) ==
  /\ \/ watcher[w].pc \in {"leased", "renewed"}
     \/ At(w, "scoring") /\ watcher[w].face = 1
  /\ Disposing(w, "rejected")
  /\ UNCHANGED <<ledger, media, policy, delivery, todo, operator, bounds>>

\* The file has gone or the event was pruned (FileNotFoundError, ValueError), or
\* the recognition of a face failed, or what follows the record of a queued one.
Fails(w) ==
  /\ \/ /\ watcher[w].pc \in {"leased", "renewed"}
        /\ watcher[w].file \notin media[On(w)] \/ event[On(w)].state = "absent"
        /\ UNCHANGED faults
     \/ At(w, "scoring") /\ Fault
  /\ Failing(w)
  /\ UNCHANGED <<ledger, media, policy, delivery, todo, operator, uploads, actions>>

\* Any other exception, a database that is locked for one: the event is failed,
\* the file left where it is, and the watcher stops.
Breaks(w) ==
  /\ watcher[w].pc \in {"leased", "renewed"} /\ Fault
  /\ Goes(w, [watcher[w] EXCEPT !.pc = "breaking", !.verdict = "broken"])
  /\ UNCHANGED <<ledger, media, policy, delivery, todo, operator, uploads, actions>>

BreaksOff(w) ==
  /\ At(w, "breaking")
  /\ policy' = OfEvent(On(w), Policy!Released)
  /\ Goes(w, [watcher[w] EXCEPT !.pc = "finalizing"])
  /\ UNCHANGED <<ledger, media, delivery, todo, operator, bounds>>

-----------------------------------------------------------------------------
(***************************************************************************)
(* One accepted face after another: reserve its scope, persist the         *)
(* decision (a trigger inserts its pending job), deliver it or leave it to *)
(* the delivery worker.                                                    *)
(***************************************************************************)

FacesLeft(w) == watcher[w].face <= Len(FaceScopes[On(w)])

NextFace(w) == [watcher[w] EXCEPT !.pc = "scoring", !.face = @ + 1]

\* A face that is not accepted, or that finds the delivery queue full.
Unaccepted(w) ==
  /\ At(w, "scoring") /\ FacesLeft(w)
  /\ Decision(w) \notin decided
  /\ decided' = decided \cup {Decision(w)}
  /\ Goes(w, NextFace(w))
  /\ UNCHANGED <<ledger, media, policy, job, sent, docs, todo, operator, bounds>>

\* The decision of this attempt is already there: the event was taken up
\* again under the same lease.
DecisionTaken(w) ==
  /\ At(w, "scoring") /\ FacesLeft(w)
  /\ Decision(w) \in decided
  /\ Failing(w)
  /\ UNCHANGED <<ledger, media, policy, delivery, todo, operator, bounds>>

Holds(d) ==
  \E s \in Scopes : policy[s].decision = d /\ policy[s].state = "pending"

HolderJob(p) == IF p.decision = NoDecision THEN "absent" ELSE job[p.decision]

HolderDelivers(p) ==
  /\ p.decision # NoDecision
  /\ event[p.decision.event].state \in Open
  /\ CrossedBoundary(event[p.decision.event])

MayReserve(p, d) ==
  /\ Policy!Reservable(p, HolderJob(p), HolderDelivers(p))
  /\ ~Policy!CoolingDown(p, d)

Reserve(w) ==
  LET d == Decision(w)
      s == Scope(w) IN
  /\ At(w, "scoring") /\ FacesLeft(w)
  /\ policy[s].decision = d \/ MayReserve(policy[s], d)
  /\ policy[s].state # "uncertain"
  /\ policy' = [policy EXCEPT ![s] =
                  IF @.decision = d THEN @ ELSE Policy!Reserved(@, d, WindowTicks)]
  /\ Goes(w, [watcher[w] EXCEPT !.pc = "reserved"])
  /\ UNCHANGED <<ledger, media, delivery, todo, operator, bounds>>

\* The decision is recorded as cooldown_suppressed.
Suppress(w) ==
  LET d == Decision(w)
      s == Scope(w) IN
  /\ At(w, "scoring") /\ FacesLeft(w)
  /\ d \notin decided
  /\ \/ policy[s].state = "uncertain"
     \/ policy[s].decision # d /\ ~MayReserve(policy[s], d)
  /\ policy' = [policy EXCEPT ![s] =
                  IF Policy!HolderUnresolved(@, HolderJob(@), HolderDelivers(@))
                  THEN Policy!MarkedUncertain(@) ELSE @]
  /\ decided' = decided \cup {d}
  /\ Goes(w, NextFace(w))
  /\ UNCHANGED <<ledger, media, job, sent, docs, todo, operator, bounds>>

Persist(w) ==
  LET d == Decision(w) IN
  /\ At(w, "reserved")
  /\ d \notin decided /\ event[On(w)].state # "absent"
  /\ decided' = decided \cup {d}
  /\ job' = [job EXCEPT ![d] = "pending"]
  /\ Goes(w, IF WorkerMode THEN [NextFace(w) EXCEPT !.queued = TRUE]
                           ELSE [watcher[w] EXCEPT !.pc = "persisted"])
  /\ UNCHANGED <<ledger, media, policy, sent, docs, todo, operator, bounds>>

\* The reservation is given back before the exception goes on.
PersistFails(w) ==
  /\ At(w, "reserved")
  /\ Refused(Decision(w) \in decided \/ event[On(w)].state = "absent")
  /\ policy' = OfDecision(Decision(w), Policy!Released)
  /\ Failing(w)
  /\ UNCHANGED <<ledger, media, delivery, todo, operator, uploads, actions>>

\* begin_delivery_attempt: past this boundary nothing is retried.
Begin(w) ==
  LET c == On(w)
      d == Decision(w) IN
  /\ At(w, "persisted")
  /\ CanBegin(event[c], w) /\ job[d] = "pending"
  /\ event' = [event EXCEPT ![c] = Delivering(@, d)]
  /\ job' = [job EXCEPT ![d] = "leased"]
  /\ Goes(w, [watcher[w] EXCEPT !.pc = "submitting"])
  /\ UNCHANGED <<tombstone, media, policy, decided, sent, docs, todo, operator, bounds>>

BeginFails(w) ==
  LET d == Decision(w) IN
  /\ At(w, "persisted")
  /\ Refused(~CanBegin(event[On(w)], w) \/ job[d] # "pending")
  /\ policy' = OfDecision(d, Policy!Released)
  /\ Failing(w)
  /\ UNCHANGED <<ledger, media, delivery, todo, operator, uploads, actions>>

\* create_checkin: answered, or an exception that says nothing of ERPNext.
Call(w) ==
  LET d == Decision(w) IN
  /\ At(w, "submitting")
  /\ sent' = sent \cup {d}
  /\ \/ docs' = docs \cup {d} /\ Goes(w, [watcher[w] EXCEPT !.pc = "answered"])
     \/ /\ docs' \in {docs, docs \cup {d}}
        /\ Goes(w, [watcher[w] EXCEPT !.pc = "raised"])
  /\ UNCHANGED <<ledger, media, policy, decided, job, todo, operator, bounds>>

\* mark_delivery_job_uncertain; its own failure is logged and ignored.
Raised(w) ==
  /\ At(w, "raised")
  /\ \/ job' = Doubted(Decision(w)) /\ UNCHANGED faults
     \/ Fault /\ UNCHANGED job
  /\ Goes(w, [watcher[w] EXCEPT !.pc = "doubting"])
  /\ UNCHANGED <<ledger, media, policy, decided, sent, docs, todo, operator, uploads,
                 actions>>

\* Mutant: a call that failed gives the scope back.
DoubtReleasing(w) ==
  /\ watcher[w].pc \in {"doubting", "conceding"}
  /\ policy' = OfDecision(Decision(w), Policy!Released)
  /\ Disposing(w, "uncertain")
  /\ UNCHANGED <<ledger, media, delivery, todo, operator, bounds>>

\* mark_attendance_policy_uncertain raises when the reservation is another's.
Doubt(w) ==
  LET d == Decision(w)
      held == policy[Scope(w)].decision = d IN
  /\ watcher[w].pc \in {"doubting", "conceding"}
  /\ policy' = OfDecision(d, Policy!MarkedUncertain)
  /\ IF ~held /\ At(w, "doubting") THEN Failing(w) ELSE Disposing(w, "uncertain")
  /\ UNCHANGED <<ledger, media, delivery, todo, operator, bounds>>

\* The write fails: after a call without an answer the exception ends where any
\* failure of a face does; after an answered one it is swallowed.
DoubtFails(w) ==
  /\ \/ DoubtsFail /\ At(w, "doubting") /\ Failing(w)
     \/ At(w, "conceding") /\ Disposing(w, "uncertain")
  /\ Fault
  /\ UNCHANGED <<ledger, media, policy, delivery, todo, operator, uploads, actions>>

\* mark_delivery_job_delivered
MarkDelivered(w) ==
  LET d == Decision(w) IN
  /\ At(w, "answered")
  /\ job[d] \in {"leased", "uncertain"}
  /\ job' = [job EXCEPT ![d] = "delivered"]
  /\ Goes(w, [watcher[w] EXCEPT !.pc = "delivered"])
  /\ UNCHANGED <<ledger, media, policy, decided, sent, docs, todo, operator, bounds>>

\* What fails it may fail mark_delivery_job_uncertain, too, which is ignored.
MarkDeliveredFails(w) ==
  LET d == Decision(w) IN
  /\ At(w, "answered")
  /\ Refused(job[d] \notin {"leased", "uncertain"})
  /\ job' \in {job, Doubted(d)}
  /\ Goes(w, [watcher[w] EXCEPT !.pc = "conceding"])
  /\ UNCHANGED <<ledger, media, policy, decided, sent, docs, todo, operator, uploads,
                 actions>>

\* commit_attendance_policy_reservation
Commit(w) ==
  /\ At(w, "delivered")
  /\ Holds(Decision(w))
  /\ policy' = OfDecision(Decision(w), Policy!Committed)
  /\ Goes(w, [NextFace(w) EXCEPT !.made = TRUE])
  /\ UNCHANGED <<ledger, media, delivery, todo, operator, bounds>>

CommitFails(w) ==
  /\ At(w, "delivered")
  /\ Refused(~Holds(Decision(w)))
  /\ Goes(w, [watcher[w] EXCEPT !.pc = "conceding"])
  /\ UNCHANGED <<ledger, media, policy, delivery, todo, operator, uploads, actions>>

-----------------------------------------------------------------------------
(***************************************************************************)
(* The end of process_path: the file first, then the event.                *)
(***************************************************************************)

\* release_event_policy_reservations: every pending one of the event, the
\* ones of faces already queued included.
Release(w) ==
  /\ At(w, "failing")
  /\ policy' = OfEvent(On(w), Policy!Released)
  /\ Disposing(w, "failed")
  /\ UNCHANGED <<ledger, media, delivery, todo, operator, bounds>>

\* The release fails: what process_path makes of any other exception.
ReleaseFails(w) ==
  /\ At(w, "failing") /\ Fault
  /\ Goes(w, [watcher[w] EXCEPT !.pc = "breaking", !.verdict = "broken"])
  /\ UNCHANGED <<ledger, media, policy, delivery, todo, operator, uploads, actions>>

\* Mutant: an event whose faces were all scored is taken to have a check-in.
AllScoredAlike(w) ==
  /\ At(w, "scoring") /\ ~FacesLeft(w)
  /\ Disposing(w, "checkin_created")
  /\ UNCHANGED <<ledger, media, policy, delivery, todo, operator, bounds>>

AllScored(w) ==
  /\ At(w, "scoring") /\ ~FacesLeft(w)
  /\ Disposing(w, IF watcher[w].made /\ ~watcher[w].queued
                  THEN "checkin_created" ELSE "processed")
  /\ UNCHANGED <<ledger, media, policy, delivery, todo, operator, bounds>>

\* Mutant: the file goes, whatever became of the event.
DisposeAlways(w) ==
  /\ At(w, "disposing")
  /\ media' = Removed(On(w), watcher[w].file)
  /\ Goes(w, [watcher[w] EXCEPT !.pc = "finalizing", !.at = Nowhere])
  /\ UNCHANGED <<ledger, policy, delivery, todo, operator, bounds>>

Dispose(w) ==
  LET c == On(w)
      file == watcher[w].file
      finished == watcher[w].verdict \in {"processed", "checkin_created"}
      at == IF finished THEN IF Deletes THEN Nowhere ELSE file ELSE RejectedTo(c, file) IN
  /\ At(w, "disposing")
  /\ media' = CASE finished /\ Deletes  -> Removed(c, file)
                [] finished /\ ~Deletes -> media
                [] OTHER                -> RejectedFile(c, file)
  /\ Goes(w, [watcher[w] EXCEPT !.pc = "finalizing", !.at = at])
  /\ UNCHANGED <<ledger, policy, delivery, todo, operator, bounds>>

\* The leases of a process that died stay, under an id nobody has.
Orphans(rows, o) ==
  [c \in Captures |->
     [rows[c] EXCEPT !.owner  = IF @ = o THEN Dead ELSE @,
                     !.action = IF @ = o THEN Dead ELSE @]]

Closing(w, rows) ==
  IF watcher[w].verdict = "broken"
  THEN Goes(w, Down) /\ event' = Orphans(rows, w)
  ELSE Goes(w, Resting) /\ event' = rows

\* Mutant: where the file went is not recorded.
FinalUnmoved(w, r) ==
  Ended(r, IF watcher[w].verdict = "broken" THEN "failed" ELSE watcher[w].verdict)

Final(w, r) ==
  IF watcher[w].verdict = "broken" THEN Ended(r, "failed")
  ELSE [Ended(r, watcher[w].verdict) EXCEPT !.path = watcher[w].at]

\* finalize_event_with_lease
Finalize(w) ==
  LET c == On(w) IN
  /\ At(w, "finalizing")
  /\ CanFinalize(event[c], w)
  /\ Closing(w, [event EXCEPT ![c] = Final(w, @)])
  /\ UNCHANGED <<tombstone, media, policy, delivery, todo, operator, bounds>>

\* finish_claim logs whatever goes wrong, a lost lease included, and goes on.
FinalizeFails(w) ==
  /\ At(w, "finalizing")
  /\ Refused(~CanFinalize(event[On(w)], w))
  /\ Closing(w, event)
  /\ UNCHANGED <<tombstone, media, policy, delivery, todo, operator, uploads, actions>>

\* The delivery worker, as far as this module sees it: it settles a queued
\* job at some time, once, and the reservation with it (CheckinDelivery).
DeliverQueued(d) ==
  /\ WorkerMode
  /\ job[d] = "pending"
  /\ sent' = sent \cup {d}
  /\ \/ /\ job' = [job EXCEPT ![d] = "delivered"]
        /\ docs' = docs \cup {d}
        /\ policy' = OfDecision(d, Policy!Committed)
     \/ /\ job' = [job EXCEPT ![d] = "uncertain"]
        /\ docs' \in {docs, docs \cup {d}}
        /\ policy' = OfDecision(d, Policy!MarkedUncertain)
     \/ /\ job' = [job EXCEPT ![d] = "permanent_failure"]
        /\ docs' \in {docs, docs \cup {d}}
        /\ policy' = OfDecision(d, Policy!Released)
  /\ UNCHANGED <<ledger, media, decided, processes, bounds>>

-----------------------------------------------------------------------------
(***************************************************************************)
(* A watcher dies and is started again: it puts back what operators left   *)
(* staged, recovers the events nobody holds, and then sees to their files. *)
(***************************************************************************)

Crash(w) ==
  /\ ~At(w, "down")
  /\ Fault
  /\ Goes(w, Down)
  /\ event' = Orphans(event, w)
  /\ todo' = [todo EXCEPT ![w] = NothingToDo]
  /\ UNCHANGED <<tombstone, media, policy, delivery, operator, uploads, actions>>

\* restore_orphan_operator_stages
Orphaned(c) ==
  "stage" \in media[c] /\ event[c].state \in Terminal /\ event[c].path # Nowhere

Restart(w) ==
  /\ At(w, "down")
  /\ media' = [c \in Captures |->
                 IF Orphaned(c) THEN (media[c] \ {"stage"}) \cup {event[c].path}
                                ELSE media[c]]
  /\ Goes(w, [Down EXCEPT !.pc = "recovering"])
  /\ UNCHANGED <<ledger, policy, delivery, todo, operator, bounds>>

InDoubt(c) == Abandoned(event[c]) /\ CrossedBoundary(event[c])
ToRetry(c) == Abandoned(event[c]) /\ ~CrossedBoundary(event[c])

\* recover_expired_event_leases: one transaction over all of them.
Recover(w) ==
  /\ At(w, "recovering")
  /\ event' = [c \in Captures |-> CASE InDoubt(c) -> Ended(event[c], "uncertain")
                                    [] ToRetry(c) -> Retried(event[c])
                                    [] OTHER      -> event[c]]
  /\ job' = [d \in Decisions |->
               IF InDoubt(d.event) /\ event[d.event].decision = d
               THEN Doubtful(job[d]) ELSE job[d]]
  /\ policy' = [s \in Scopes |->
                  LET p == policy[s] IN
                  IF p.decision = NoDecision THEN p
                  ELSE CASE InDoubt(p.decision.event) -> Policy!MarkedUncertain(p)
                         [] ToRetry(p.decision.event) -> Policy!GivenUp(p)
                         [] OTHER                     -> p]
  /\ todo' = [todo EXCEPT ![w] = [c \in Captures |-> CASE InDoubt(c) -> "uncertain"
                                                       [] ToRetry(c) -> "retry"
                                                       [] OTHER      -> "none"]]
  /\ Goes(w, Resting)
  /\ UNCHANGED <<tombstone, media, decided, sent, docs, operator, bounds>>

\* The upload an event was recorded with; an uncertain one still names it.
Recorded(c) == IF event[c].path = Nowhere THEN "upload" ELSE event[c].path

Done(w, c) == todo' = [todo EXCEPT ![w][c] = "none"]

\* The upload is there, or an operator's approved publication is finished.
RetryReady(w, c) ==
  LET staged == Recorded(c) = "target" /\ {"stage", "target"} \cap media[c] = {"stage"} IN
  /\ todo[w][c] = "retry"
  /\ Recorded(c) \in media[c] \/ staged
  /\ media' = IF staged
              THEN [media EXCEPT ![c] = (@ \ {"stage"}) \cup {"target"}] ELSE media
  /\ Done(w, c)
  /\ UNCHANGED <<ledger, policy, delivery, watcher, operator, bounds>>

\* mark_recovery_source_missing
RetryMissing(w, c) ==
  /\ todo[w][c] = "retry"
  /\ Recorded(c) \notin media[c]
  /\ ~(Recorded(c) = "target" /\ "stage" \in media[c])
  /\ IF event[c].state \in Open
     THEN /\ event' = [event EXCEPT ![c] = Ended(@, "failed")]
          /\ policy' = OfEvent(c, Policy!GivenUp)
     ELSE UNCHANGED <<event, policy>>
  /\ Done(w, c)
  /\ UNCHANGED <<tombstone, media, delivery, watcher, operator, bounds>>

\* The file of an event in doubt goes the way of rejected files ...
RetainDoubtful(w, c) ==
  /\ todo[w][c] = "uncertain"
  /\ media' = RejectedFile(c, Recorded(c))
  /\ todo' = [todo EXCEPT ![w][c] =
                IF Recorded(c) \in media[c] THEN "retained" ELSE "none"]
  /\ UNCHANGED <<ledger, policy, delivery, watcher, operator, bounds>>

\* ... and the event says where it went.
RecordRetention(w, c) ==
  /\ todo[w][c] = "retained"
  /\ event' = [event EXCEPT ![c] =
                 IF @.state = "absent" THEN @
                 ELSE UncertainAt(@, IF Quarantines THEN "kept" ELSE @.path)]
  /\ Done(w, c)
  /\ UNCHANGED <<tombstone, media, policy, delivery, watcher, operator, bounds>>

\* Mutant: quarantined evidence does not keep its event.
PrunableQuarantined(c) ==
  /\ event[c].state \in Terminal \ {"uncertain"}
  /\ \A d \in Decisions : d.event = c =>
       job[d] \in {"absent", "delivered", "permanent_failure"}

\* prune_events, at start and every hour.  Delivery jobs outlive their events.
Prunable(c) ==
  /\ event[c].state \in Terminal \ {"uncertain"}
  /\ event[c].path # "kept"
  /\ \A d \in Decisions : d.event = c =>
       job[d] \in {"absent", "delivered", "permanent_failure"}

Prune ==
  /\ \E w \in Watchers : At(w, "idle") /\ todo[w] = NothingToDo
  /\ \E c \in Captures : Prunable(c)
  /\ event' = [c \in Captures |-> IF Prunable(c) THEN NoRow ELSE event[c]]
  /\ decided' = {d \in decided : ~Prunable(d.event)}
  /\ UNCHANGED <<tombstone, media, policy, job, sent, docs, processes, bounds>>

-----------------------------------------------------------------------------
(***************************************************************************)
(* The operator: event_admin.py reprocess and dismiss.                     *)
(***************************************************************************)

Does(o, pc) == operator[o].pc = pc

Turns(o, to) == operator' = [operator EXCEPT ![o] = to]

Subject(o) == operator[o].capture

\* verify_event_media found the recorded copy; it is hidden before anything
\* is written.  A free target name is made up; one is enough here.
Stage(o, c) ==
  LET from == event[c].path IN
  /\ Does(o, "idle") /\ actions < MaxActions
  /\ QuarantineOnly => from = "kept"
  /\ from \in media[c] \ {"target", "stage"}
  /\ {"stage", "target"} \cap media[c] = {}
  /\ media' = [media EXCEPT ![c] = (@ \ {from}) \cup {"stage"}]
  /\ actions' = actions + 1
  /\ Turns(o, [pc |-> "staged", capture |-> c, from |-> from])
  /\ UNCHANGED <<ledger, policy, delivery, watcher, todo, faults, uploads>>

\* request_event_reprocess
Request(o) ==
  LET c == Subject(o) IN
  /\ Does(o, "staged")
  /\ Reprocessable(event[c])
  /\ event' = [event EXCEPT ![c] = Requested(@, o)]
  /\ policy' = OfEvent(c, Policy!GivenUp)
  /\ Turns(o, [operator[o] EXCEPT !.pc = "requested"])
  /\ UNCHANGED <<tombstone, media, delivery, watcher, todo, bounds>>

RequestRefused(o) ==
  /\ Does(o, "staged")
  /\ ~Reprocessable(event[Subject(o)])
  /\ Turns(o, [operator[o] EXCEPT !.pc = "refused"])
  /\ UNCHANGED <<ledger, media, policy, delivery, watcher, todo, bounds>>

\* _rollback_staged_media: the published copy or the staged one goes back.
Returnable(o) == {"target", "stage"} \cap media[Subject(o)]

GoneBack(o) ==
  LET from == IF "target" \in Returnable(o) THEN "target" ELSE "stage" IN
  IF Returnable(o) = {} THEN media
  ELSE [media EXCEPT ![Subject(o)] = (@ \ {from}) \cup {operator[o].from}]

\* Nothing was written: the command ends.
Unstage(o) ==
  /\ Does(o, "refused")
  /\ media' = [media EXCEPT ![Subject(o)] =
                 IF "stage" \in @ THEN (@ \ {"stage"}) \cup {operator[o].from} ELSE @]
  /\ Turns(o, NoCommand)
  /\ UNCHANGED <<ledger, policy, delivery, watcher, todo, bounds>>

\* _publish_staged_media
Publish(o) ==
  LET c == Subject(o) IN
  /\ Does(o, "requested")
  /\ IF "stage" \in media[c]
     THEN /\ media' = [media EXCEPT ![c] = (@ \ {"stage"}) \cup {"target"}]
          /\ Turns(o, [operator[o] EXCEPT !.pc = "published"])
     ELSE /\ Turns(o, [operator[o] EXCEPT !.pc = "rollback"])
          /\ UNCHANGED media
  /\ UNCHANGED <<ledger, policy, delivery, watcher, todo, bounds>>

\* complete_event_reprocess_publish
Complete(o) ==
  LET c == Subject(o) IN
  /\ Does(o, "published")
  /\ IF CanComplete(event[c], o)
     THEN /\ event' = [event EXCEPT ![c] = Published(@)]
          /\ Turns(o, NoCommand)
     ELSE /\ Turns(o, [operator[o] EXCEPT !.pc = "rollback"])
          /\ UNCHANGED event
  /\ UNCHANGED <<tombstone, media, policy, delivery, watcher, todo, bounds>>

Rollback(o) ==
  /\ Does(o, "rollback")
  /\ media' = GoneBack(o)
  /\ Turns(o, [operator[o] EXCEPT !.pc = "marking"])
  /\ UNCHANGED <<ledger, policy, delivery, watcher, todo, bounds>>

\* mark_reprocess_publish_failed: the state of the event is not looked at.
MarkFailed(o) ==
  LET c == Subject(o) IN
  /\ Does(o, "marking")
  /\ event' = [event EXCEPT ![c] =
                 IF @.state # "absent" /\ CanMarkFailed(@, o)
                 THEN PublishFailed(@, operator[o].from) ELSE @]
  /\ Turns(o, NoCommand)
  /\ UNCHANGED <<tombstone, media, policy, delivery, watcher, todo, bounds>>

OperatorDies(o) ==
  /\ ~Does(o, "idle")
  /\ Fault
  /\ Turns(o, NoCommand)
  /\ event' = Orphans(event, o)
  /\ UNCHANGED <<tombstone, media, policy, delivery, watcher, todo, uploads, actions>>

\* dismiss_event
Dismiss(o, c) ==
  /\ Does(o, "idle") /\ actions < MaxActions
  /\ Dismissable(event[c])
  /\ event' = [event EXCEPT ![c] = Dismissed(@)]
  /\ policy' = OfEvent(c, Policy!GivenUp)
  /\ actions' = actions + 1
  /\ UNCHANGED <<tombstone, media, delivery, processes, faults, uploads>>

-----------------------------------------------------------------------------
(***************************************************************************)
(* Time.  Without Stalls it does not run out the lease, or the reservation,*)
(* of a process that is still at work.                                     *)
(***************************************************************************)

AtWork(o) ==
  \/ o \in Watchers /\ watcher[o].pc \notin {"down", "recovering", "idle", "received"}
  \/ o \in Operators /\ operator[o].pc # "idle"

RunsOut(c) ==
  /\ AtWork(event[c].owner)
  /\ ActiveLease(event[c]) /\ ~ActiveLease(Older(event[c]))

WindowRunsOut(s) ==
  /\ policy[s].state = "pending" /\ policy[s].window = 1
  /\ \E w \in Watchers : On(w) = policy[s].decision.event

Tick ==
  /\ ~Stalls => /\ \A c \in Captures : ~RunsOut(c)
                /\ \A s \in Scopes : ~WindowRunsOut(s)
  /\ event' = [c \in Captures |-> Older(event[c])]
  /\ policy' = [s \in Scopes |-> Policy!Elapsed(policy[s])]
  /\ <<event', policy'>> # <<event, policy>>
  /\ UNCHANGED <<tombstone, media, delivery, processes, bounds>>

-----------------------------------------------------------------------------

Ledgered(w) == Acquire(w) \/ AcquireAmbiguous(w) \/ AcquireRefused(w) \/ TurnAway(w)
               \/ Renew(w) \/ RenewRefused(w) \/ Advance(w)
               \/ Fails(w) \/ Breaks(w) \/ BreaksOff(w)
Judged(w)   == Reject(w) \/ Unaccepted(w) \/ Reserve(w) \/ DecisionTaken(w) \/ Suppress(w)
Submitted(w) == Persist(w) \/ PersistFails(w) \/ Begin(w) \/ BeginFails(w) \/ Call(w)
                \/ Raised(w) \/ Doubt(w) \/ DoubtFails(w) \/ MarkDelivered(w)
                \/ MarkDeliveredFails(w) \/ Commit(w) \/ CommitFails(w)
Closed(w)   == Release(w) \/ ReleaseFails(w) \/ AllScored(w) \/ Dispose(w) \/ Finalize(w)
               \/ FinalizeFails(w)
Started(w)  == Restart(w) \/ Recover(w)
Recovered(w, c) == RetryReady(w, c) \/ RetryMissing(w, c) \/ RetainDoubtful(w, c)
                   \/ RecordRetention(w, c)

\* Files are polled once recovery is done.
Polled(w, c, file) ==
  todo[w] = NothingToDo /\ (Receive(w, c, file) \/ Replay(w, c, file))

Steps(w) == Ledgered(w) \/ Judged(w) \/ Submitted(w) \/ Closed(w) \/ Started(w)

Commands(o) == Request(o) \/ RequestRefused(o) \/ Unstage(o) \/ Publish(o) \/ Complete(o)
               \/ Rollback(o) \/ MarkFailed(o)

Next ==
  \/ \E c \in Captures : Upload(c)
  \/ \E w \in Watchers : Steps(w) \/ Crash(w)
  \/ \E w \in Watchers, c \in Captures :
       Recovered(w, c) \/ \E file \in Uploads : Polled(w, c, file)
  \/ \E o \in Operators : Commands(o) \/ OperatorDies(o)
  \/ \E o \in Operators, c \in Captures : Stage(o, c) \/ Dismiss(o, c)
  \/ \E d \in Decisions : DeliverQueued(d)
  \/ Prune
  \/ Tick

Spec == Init /\ [][Next]_vars

\* systemd restarts a watcher, a watcher goes on with what it began and tries
\* every file it lists on every round, and time passes.
Fairness ==
  /\ \A w \in Watchers : WF_vars(Steps(w))
  /\ \A w \in Watchers, c \in Captures : WF_vars(Recovered(w, c))
  /\ \A w \in Watchers, c \in Captures, file \in Uploads : SF_vars(Polled(w, c, file))
  /\ SF_vars(Tick)

LiveSpec == Spec /\ Fairness

-----------------------------------------------------------------------------
(***************************************************************************)
(* Properties.                                                             *)
(***************************************************************************)

ScopeOf(d) == FaceScopes[d.event][d.face]

\* The scope of the face is closed to others: held by the decision, or committed
\* at its time or a later one.
Guarded(d) ==
  LET p == policy[ScopeOf(d)] IN
  \/ p.decision = d
  \/ p.committed # NoDecision /\ EffectiveAt[p.committed.event] >= EffectiveAt[d.event]

\* One capture, one check-in: ERPNext is asked at most once for each face of
\* a capture, whatever restarts, uploads it again or reprocesses it.
SubmittedOnce ==
  \A d, e \in sent : d.event = e.event /\ d.face = e.face => d = e

\* Two watchers are never both between begin_delivery_attempt and the end of
\* the ERPNext call for one capture.
OneSubmitter ==
  \A v, w \in Watchers :
    /\ v # w /\ On(v) = On(w)
    => ~({watcher[v].pc, watcher[w].pc} \subseteq {"submitting", "answered", "raised"})

\* From the moment ERPNext was asked, the scope of the face stays closed, as
\* long as no operator dismisses the event: no recovery or expiry may open it, and
\* no failing write (up to two of them) but the one of DoubtsFail.
SubmissionGuardsScope == \A d \in sent : Guarded(d)

\* No two check-ins of one scope fall inside the cooldown.
CooldownKept ==
  \A d, e \in docs :
    /\ d # e /\ ScopeOf(d) = ScopeOf(e)
    /\ EffectiveAt[d.event] <= EffectiveAt[e.event]
    => EffectiveAt[e.event] >= EffectiveAt[d.event] + Cooldown

\* An event that says checkin_created has a check-in, and every submission of
\* it was answered and recorded as delivered.
DeliveredAgrees ==
  \A c \in Captures : event[c].state = "checkin_created" =>
    /\ \E d \in docs : d.event = c
    /\ \A d \in sent : d.event = c => d \in docs /\ job[d] = "delivered"

\* Worker mode, as long as no watcher dies or fails: while its delivery job is
\* queued or in doubt, an accepted decision holds its scope, unless an operator
\* dismissed its event.
QueuedHoldsScope ==
  \A d \in Decisions :
    /\ job[d] \in {"pending", "uncertain"}
    /\ event[d.event].state # "dismissed"
    => policy[ScopeOf(d)].decision = d /\ policy[ScopeOf(d)].state # "none"

\* The file of an event that ended badly is where retention_path says, or on
\* its way as an operator's stage, once nobody is working on it.
EvidenceFound ==
  \A c \in Captures :
    /\ event[c].state \in {"rejected", "failed", "uncertain"}
    /\ media[c] # {}
    /\ \A w \in Watchers : On(w) # c /\ todo[w][c] = "none"
    /\ \A o \in Operators : Subject(o) # c
    => event[c].path \in media[c] \/ "stage" \in media[c]

\* While a copy of its upload is in quarantine, no event is pruned.
QuarantinedNotPruned ==
  [][\A c \in Captures :
       event[c].state # "absent" /\ event'[c].state = "absent" =>
         "kept" \notin media[c]]_vars

\* The last copy of an upload only goes when the event was finished, dismissed
\* or pruned: a capture that was not processed is not thrown away.
LastCopyKept ==
  [][\A c \in Captures :
       media[c] # {} /\ media'[c] = {} =>
         \/ event[c].state \in {"absent", "processed", "checkin_created", "dismissed"}
         \/ \E w \in Watchers :
              On(w) = c /\ watcher[w].verdict \in {"processed", "checkin_created"}]_vars

\* Once ERPNext was asked, the event is never taken up for another attempt.
NeverRetried ==
  [][\A d \in sent : event'[d.event].attempt <= d.attempt]_vars

\* An event recorded as delivered stays so until it is pruned.
CheckinFinal ==
  [][\A c \in Captures : event[c].state = "checkin_created" =>
       event'[c].state \in {"checkin_created", "absent"}]_vars

\* A dismissed event is not taken back to uncertain by a recovery that began
\* before.
DismissalStays ==
  [][\A c \in Captures : event[c].state = "dismissed" =>
       event'[c].state # "uncertain"]_vars

\* An upload that is there is eventually taken up and its event ended, or it
\* is gone.
UploadsSettle ==
  \A c \in Captures, file \in Uploads :
    file \in media[c] ~> file \notin media[c] \/ event[c].state \in Terminal

\* Every recorded event eventually ends.
EventsSettle ==
  \A c \in Captures : event[c].state \in Open ~> event[c].state \notin Open

-----------------------------------------------------------------------------
(***************************************************************************)
(* The promise of CheckinDelivery, kept without a worker.                  *)
(***************************************************************************)

Outcome(d) ==
  CASE job[d] = "absent"              -> "none"
    [] job[d] \in {"pending", "leased"} -> "queued"
    [] job[d] = "delivered"           -> "delivered"
    [] job[d] = "permanent_failure"   -> "failed"
    [] job[d] = "uncertain"           -> "unknown"

Abstract == INSTANCE CheckinDelivery WITH
  Documents <- {"checkin"},
  outcome   <- [d \in Decisions |-> Outcome(d)],
  checkins  <- [d \in Decisions |-> IF d \in docs THEN {"checkin"} ELSE {}]

\* The synchronous mode, too, creates at most one check-in for each accepted
\* decision, after accepting it, and settles each once.
ImplementsCheckinDelivery == Abstract!Spec
=============================================================================
