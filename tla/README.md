# A verification of the attendance node's protocols

The node watches cameras, recognises employees, and must create exactly the
right Employee Checkin documents in ERPNext while processes crash, leases expire
and the network loses answers. Its durable state is one SQLite database shared
by a watcher, a delivery worker, an attachment worker and an operator's command
line, and a few directories of files. This directory holds TLA+ modules translated
from the Python source, the TLC configurations that check them on small instances,
and theorems about them that TLAPS proves for every instance.

Read `CheckinDelivery.tla` first, which says in thirty lines what the delivery of
a check-in promises; then `DeliveryOutbox.tla`, which keeps the promise with a
worker, and `EventProcessing.tla`, which keeps it without one. The other modules
stand on their own.

## 1. The system

| Component | Source | State | Operations that change it |
|---|---|---|---|
| Delivery outbox | `delivery_outbox.py` | `delivery_jobs`: state, attempts, lease owner and deadline, retry deadline, submission mark, binding, remote name | the enqueue trigger; claim, renew, mark submission, retry, permanent, uncertain, delivered by lease; recovery of expired leases; the synchronous-mode variants without a worker |
| Delivery worker | `delivery_service.py` | one process: the job it has, its attempt, the verified capability; a heartbeat thread per call | `run_once`, `_process_job` and its error paths, `_record_failure`, restart by systemd |
| Idempotency binding | `erpnext_idempotency.py` | the destination a job is bound to | probe, bind under the lease |
| ERPNext | `erpnext_adapter.py`, `frappe_apps/` | Employee Checkin documents with a unique delivery id | create-or-get (with the contract), plain create (without) |
| Attendance policy | `processing_recovery.py` | `attendance_policy_state`: reservation state, holder, expiry; committed decision and time | reserve, release, commit, mark uncertain, extend |
| Processing lease | `processing_recovery.py` | the owner, deadline and phase of each event | acquire, renew, finalize, release, recover, begin delivery |
| Watcher | `watch_service.py` | where it is with each file and face | claim, recognise, reserve, persist or deliver, finish |
| Event ledger | `event_ledger.py` | events, transitions, decisions | receipt, transition, record decision, operator action |
| Event identity | `event_identity.py`, `runtime_state.py` | content identities and tombstones | claim, prune |
| Runtime state | `runtime_state.py` | legacy claims, login limiter, rate limiter, schema version | claim, finish, prune, throttle, migrate, back up, restore |
| Operator workflows | `event_operations.py`, `event_admin.py` | revisions, staged files | reprocess, publish, dismiss, quarantine |
| Attachment outbox | `attachment_outbox.py`, `attachment_service.py`, `attachment_spool.py` | attachment jobs, spooled crops | dependency refresh, lease, upload, cleanup |
| Gallery | `secure_sync.py`, `gallery_release.py`, `embedding_gallery.py` | active release, sequence floor | download, verify, activate |
| Sources | `camera_sources.py`, `ftp_receiver.py` | uploads being received | receive, publish |
| Administration, configuration, recognition, tools | `web_*.py`, `runtime_policy.py`, `production_readiness.py`, `face_attendance.py`, `pad.py`, ... | sessions, numerical data | pages, validation, scoring |

**How they interact.** The watcher reserves the policy scope of an accepted
face, spools its crop, and records the decision; a database trigger inserts the
pending delivery job in the same transaction. A delivery worker leases the job,
binds it to the ERPNext destination it has verified, marks the submission in the
job's row *before* it calls ERPNext, runs a heartbeat that renews the lease
during the call, and records the outcome; each outcome also moves the policy
reservation, in the same transaction. Whoever finds an expired lease recovers
it. The attachment worker polls the parent job. The operator changes
configuration and may restart anything.

**What is hard.** The worker and ERPNext share no transaction: a request that
was sent may be served while nobody waits for it, and an answer may be lost.
Leases end by the clock, so a stalled worker and its successor overlap. Several
transactions read a row and update it in the next one. Reservations expire by
the clock too, but must not while their delivery is unresolved. The retry budget
and the destination are configuration and change between attempts. Each of these
is listed in `PROJECT.json` under `hazards`, at its line.

**What makes each component correct.**

- outbox and worker: at most one check-in per decision; a delivered job names a
  check-in that exists; settled jobs stay settled; only the holder of a live
  lease ends it; every job settles;
- policy: two decisions of a scope are never in flight together; delivered
  check-ins are a cooldown apart; an uncertain delivery keeps its scope closed;
- processing lease and watcher: one owner per event; an event that reached its
  delivery is not processed again; a decision is recorded by the owner only;
- operator: a reprocessed event does not lose an unresolved delivery;
- attachments: a crop is uploaded at most once and only after its check-in; a
  crop a job still names is not deleted; what nothing names is cleared;
- identity: a capture seen before is recognised after its rows were pruned;
- files: an upload is not thrown away before its event is finished, and the
  evidence of an event is where its row says;
- gallery: the accepted release and the one faces are recognised with never go
  back; synchronization converges wherever it was killed;
- runtime state: a running service has the complete latest schema under it;
  before the schema or the database is replaced there is a restorable backup.

## 2. The modules

| Module | What it is |
|---|---|
| `CheckinDelivery` | the abstract promise: at most one check-in per decision, settled once |
| `AttendancePolicy` | one row of `attendance_policy_state` and the SQL updates on it, as operators |
| `DeliveryOutbox` | the outbox, the workers, the watcher in worker mode and what becomes of its event, ERPNext and the clock |
| `EventLedger` | one row of `camera_events` with its processing lease, and the SQL updates on it, as operators |
| `EventProcessing` | watchers in both delivery modes, recovery, operators, pruning and the files; instantiates `EventLedger` and `AttendancePolicy` |
| `AttachmentOutbox` | watchers that spool crops, attachment jobs, the service that uploads and cleans up, ERPNext |
| `GalleryRelease` | the central server, synchronizations, the two files they replace, the watcher's reload |
| `RuntimeMigration` | services that migrate a shared database, backups, and the operator who restores |
| `MC...` | the constants of the small instances |
| `DeliveryOutboxProofs`, `DeliveryPromiseProofs` | theorems about `DeliveryOutbox`, the second resting on the first |
| `EventProcessingProofs`, `EventOutcomeProofs`, `EventEvidenceProofs` | theorems about `EventProcessing`, each module resting on the one before |
| `AttachmentOutboxProofs`, `GalleryReleaseProofs`, `RuntimeMigrationProofs` | theorems about the other modules |

`DeliveryOutbox` and `EventProcessing` both implement `CheckinDelivery`, with
the decisions of each as its decisions. `EventProcessing` (in worker mode) and
`AttachmentOutbox` use the delivery worker only through that promise: a queued
job is settled once, as delivered, failed or unknown (`DeliverQueued`,
`ParentSettles`). In every module a step is one SQLite transaction, one file
operation or one remote call; processes interleave, die and restart in between.

### State and actions of `DeliveryOutbox`

| Variable | Code |
|---|---|
| `job[j]` | the `delivery_jobs` row of decision `j`; `"absent"` before the trigger inserted it |
| `policy[s]` | the `attendance_policy_state` row of a scope |
| `face[j]` | where `deliver_candidate` is with the face that becomes decision `j`; then whether its watcher died (`"lost"`) or its event gave the reservation up while the decision was queued or later (`"freed"`) |
| `worker[w]` | a worker process: its statement (`pc`), its job and attempt, its verified capability, the answer it got, whether its heartbeat failed |
| `request[j][a]` | the HTTP request of attempt `a`: not sent, on its way, served, throttled, rejected; and where it goes |
| `docs[j]` | the Employee Checkin documents created for `j`, each with the attempt and destination it came from |
| `site`, `budget` | the configured destination and `delivery_worker_max_attempts` |

Deadlines are countdowns: `lease`, `wait` and `window` are the ticks left, and 0
is "expired" or "due". `Tick` ages all of them. A step of a process is atomic
where the code holds a `BEGIN IMMEDIATE` transaction and nowhere else.

| Action | Code |
|---|---|
| `Reserve`, `ReserveRefused`, `Persist`, `PersistFails`, `WatcherCrashes` | `deliver_candidate` in worker mode: `reserve_attendance_policy`, the transaction that records the decision and fires the trigger, the release on failure, and a crash between the two |
| `EventFails` | an exception after the decision was recorded, at its own face or at a later one of the event: the pending reservation is released, the job stays |
| `EventTakenBack` | recovery or a new lease of the event, reprocessing or dismissal: `_release_policy_for_event_tx`, which frees an uncertain reservation, too |
| `Recover` | `recover_expired_delivery_job_leases` |
| `Claim`, `ClaimNothing` | `claim_next_delivery_job`: one transaction that recovers expired leases, fails queued jobs beyond the budget, and leases one due job if there is one |
| `BindContract`, `BindConflict` | the probe and `bind_delivery_job_idempotency_contract_by_lease` |
| `InvalidPayload`, `StartSubmission`, `LeaseLost` | `_process_job` up to `mark_delivery_submission_started` |
| `HeartbeatRenews`, `HeartbeatFails` | `LeaseHeartbeat`, a thread of its own |
| `Send`, `NeverSent`, `AnswerLost`, `RefusalReceived`, `DocumentReceived` | the adapter call, and the classes of `classify_delivery_failure` |
| `RecordDelivered`, `DeliveredCommitFails`, `RecordRetry`, `RecordPermanent`, `RecordUncertain`, `RecordDeferred` | the `mark_..._by_lease` transactions and `_record_failure_or_recovery_pending` |
| `Crash` | process death; systemd starts a fresh one with a fresh owner id |
| `Serve`, `Throttle`, `Reject` | ERPNext and the companion app, at any time after `Send`, whether or not the sender still waits |
| `ChangeSite`, `ChangeBudget` | configuration, between attempts |
| `PollEmpty` | idle polling when everything is settled |

What is abstracted: which due job the claim's `ORDER BY` prefers (any due job may
be next), payloads and error texts, the exact retry delay (`RetryDelays` is the
set of its outcomes), the capability document (a destination is a model value),
and `reservation_event_id`, which the decision determines. An owner is the
process name: the code uses a fresh uuid per process, and the model's process
forgets its job when it restarts, which is the same to every guard.

### State and actions of `EventProcessing`

| Variable | Code |
|---|---|
| `event[c]` | the `camera_events` row of a capture: state, processing phase, lease owner and deadline, attempt, the decision past the delivery boundary, the last operator action, `retention_path` |
| `tombstone` | the captures `event_tombstones` knows |
| `media[c]` | where copies of the upload are: under the camera's name (`upload`), under the name an operator republished it with (`target`), in quarantine (`kept`), hidden by an operator (`stage`) |
| `policy`, `decided`, `job` | the reservations, the recognition decisions that are taken, and the state of each accepted decision's delivery job |
| `sent`, `docs` | the decisions ERPNext was asked for, and the check-ins it made |
| `watcher[w]`, `todo[w]` | a watcher: its place in `process_path`, the file, attempt and face it is at, what it will end the event as; and what its startup recovery still has to do |
| `operator[o]` | an operator's `event_admin.py` command |
| `faults`, `uploads`, `actions` | how much of each bound is used |

| Action | Code |
|---|---|
| `Upload` | the FTP receiver renames a complete upload |
| `Receive`, `Replay` | `record_event_receipt` for a file the poll found, and the duplicate that only the tombstone knows |
| `Acquire`, `AcquireAmbiguous`, `AcquireRefused`, `TurnAway` | `acquire_event_lease` and what becomes of a file whose event is not leased |
| `Renew`, `RenewRefused`, `Advance` | `transition_claim`: renewal and transition are two transactions, and the second checks nothing |
| `Reject`, `Fails`, `Breaks`, `BreaksOff` | the checks before recognition, the exceptions `process_path` foresees, and the ones it does not |
| `Unaccepted`, `DecisionTaken`, `Reserve`, `Suppress`, `Persist`, `PersistFails` | a face: not accepted, its decision already there, `reserve_attendance_policy`, the decision and the job its trigger inserts |
| `Begin`, `BeginFails`, `Call`, `Raised`, `Doubt`, `DoubtFails`, `MarkDelivered`, `MarkDeliveredFails`, `Commit`, `CommitFails` | the synchronous delivery: `begin_delivery_attempt`, the ERPNext call, `DeliveryAttemptUncertain`, the job and then the reservation. A failing write of the job's doubt is ignored (`Raised`, `MarkDeliveredFails`), one of the reservation's goes to the handler of the face or is swallowed (`DoubtFails`) |
| `DeliverQueued` | the delivery worker, by its promise |
| `Release`, `ReleaseFails`, `AllScored`, `Dispose`, `Finalize`, `FinalizeFails` | the end of `process_path`: reservations, the file, the event |
| `Crash`, `Restart`, `Recover`, `RetryReady`, `RetryMissing`, `RetainDoubtful`, `RecordRetention` | process death and `recover_startup_events` |
| `Prune` | `prune_events` |
| `Stage`, `Request`, `RequestRefused`, `Unstage`, `Publish`, `Complete`, `Rollback`, `MarkFailed`, `OperatorDies`, `Dismiss` | `reprocess_event` and `resolve-quarantine` step by step, and `dismiss_event` |
| `Tick` | time, for leases and reservations |

A lease is a countdown that keeps the instant of expiry apart: it is 1 exactly
then, because renewal still accepts it (`>=`) while recovery and acquisition
already take it (`<=`). The states between acquisition and the end of an event
(`source_verified`, `validating`, `recognizing`) are one, since nothing reads
which it is. Recognition is a choice: each face of `FaceScopes` is accepted,
not accepted, or fails. An owner id is made up when a process starts, so the
leases of a process that died belong to `Dead`.

### State and actions of `AttachmentOutbox`

`outcome[d]` is the parent delivery, `row[d]` the `attachment_jobs` row,
`spooled` and `age` the spool, `request` and `files` ERPNext, which makes a File
of every upload it accepts, and `watcher`, `worker` the processes.
`Admit`, `CheckSpool`, `SpoolCrop`, `Persist` and `PersistFails` are
`deliver_candidate` in worker mode with its capacity checks, each in a
transaction of its own; `Recover`, `ListReferenced`, `Sweep`, `Sweeps`,
`ReadSettled`, `Unlink`, `MarkDeleted` and `Cleans` are `AttachmentWorker.recover`
(leases, orphans, terminal copies); `Claim`, `Verify`, `VerifyFails`,
`MarkMissing`, `StartUpload`, `Upload`, `NotUploaded`, `Answer`, `RecordFailure`,
`RecordAttached`, `DiscardCopy` and `MarkCopyDeleted` are `_process_job`; `Beat` and
`BeatFails` its heartbeat; `LeaseLost`, `WorkerCrash` and `Restart` the process;
`Serve` and `Refuse` ERPNext, whenever it gets to a request. A copy is as old as
`age` says, capped at the grace period.

### State and actions of `GalleryRelease`

`central` is the release the server answers with; `gallery` and `accepted` are
the two files a synchronization replaces one after the other
(`embedding_gallery.json`, and the release of the scope in
`embedding_sync_status.json`); `syncer[s]` is a process in `sync_gallery`, with the
accepted release as it read it; `watcher` and `unseen` are `GalleryRuntime` and
`GalleryReloader`; `used` is what faces were last recognised with. Checksums and
ETags name the content they were computed from, so a release is its sequence,
its edition (two contents under one sequence) and its time. `StartSync`, `Request`,
`RequestFails`, `Confirm`, `Accept`, `Install`, `Record`, `WriteFails`,
`ReadForFailure`, `NoteFailure` and `CrashSync` are `sync_gallery` and the status
it writes when it fails; `StartWatcher`, `Poll`, `ReadGallery`, `Validate`, `Adopt`,
`Decide` and `CrashWatcher` the watcher's side; `Publish`, `Misserve` and `Tick` the
server and the clock.

### State and actions of `RuntimeMigration`

`db` is the database file: its version, the name its history has for version 8,
what that schema holds and which rows; `backups` are the backup files with or
without their sidecar; `service[s]` is a process in `RuntimeState._migrate`;
`operator` and `stopped` are `runtime_state_admin.py` and the documented procedure.
`Start`, `ReadVersion` and `Compare` are an inspection, whose two reads are not one
transaction; `Copy`, `Describe` and `BackupFails` are `create_runtime_backup`;
`Migrate`, `MigrationFails` and `MigrationsDone` the migration, one transaction per
version; `BackUp`, `BeginRestore`, `DescribeBackup`, `Replace` and `OperatorDies` the
operator. The nine versions are abstracted to `Latest`: all but the last two only
raise the version. The two released forms of version 8 differ in which schema
they added, and the last migration must add the other (`Migrated`). `Replace` is one
step: the safety backup before it closes the last connection, which leaves no
write-ahead log behind.

## 3. What TLC checks

The bounds are constants of the cfg files, and every bound of a module is one of
its CONSTANTS (`MaxFaults`, `MaxUploads`, `MaxActions`, `MaxAttempts`, `MaxSequence`,
`MaxTime`, `MaxWrites`): nothing else limits what may happen.

| Run | Instance | Checks | Distinct states |
|---|---|---|---|
| `outbox_verified` | one worker, two captures inside one cooldown, contract required, two attempts | `TypeOK`, `AtMostOneCheckin`, `CooldownHolds` | 458 k |
| `outbox_unverified` | two workers, two captures a cooldown apart, no contract, two attempts | `AtMostOneCheckin`, `OneInFlightPerScope`, `UncertainBlocksScope`, `OnlyHolderEndsLease`, `SettledStays` | 469 k |
| `outbox_drift` | one decision, two workers, two destinations, budgets 1 and 2 changing at any time, leases of two ticks, backoff, fair workers and clock | `AtMostOneCheckin`, `DeliveredNamesCheckin`, `ImplementsCheckinDelivery`, `EveryJobSettles` | 228 k |
| `event_sync` | one watcher, no delivery worker, two captures of one employee, one with a second face, each sent twice, one fault but not the write of `doc_freed_submission`, fair watcher and clock | `TypeOK`, `SubmissionGuardsScope`, `CooldownKept`, `DeliveredAgrees`, `NeverRetried`, `ImplementsCheckinDelivery`, `UploadsSettle` | 101 k |
| `event_overlap` | two watchers on the same directory, two operators, three commands, one capture sent twice, one fault | `SubmittedOnce`, `OneSubmitter` | 1.1 M |
| `event_worker` | worker mode, two captures sent twice, one with two faces, two operators, two commands, no watcher dies or fails | `QueuedHoldsScope`, `EvidenceFound`, `QuarantinedNotPruned`, `LastCopyKept` | 1.4 M |
| `attach_workers` | one crop, two service processes, leases of two ticks, two attempts, two faults, fair service and clock | `TypeOK`, `UploadedOnce`, `RowsAgree`, `CropKept`, `AttachmentsSettle`, `SpoolCleared` | 33 k |
| `gallery_releases` | one synchronizing process, three sequences, two faults, a server that misbehaves, fair timer and watcher | `TypeOK`, `InstalledFirst`, `NoRollback`, `NeverReactivated`, `Converges` | 1.4 M |
| `migration_restore` | two services, every released database, two rows, two faults, fair services and operator | `TypeOK`, `RunsOnLatest`, `RestorableFirst`, `ComesUp` | 535 k |
| `doc_expired_submission`, `doc_cooldown_of_checkins`, `doc_second_submission` | see below | one violated property each | |

**Why the bounds are enough.** Overlap needs two processes: one that stalled and
one that took over; a third would be another successor. `outbox_verified` has one worker
process, because its question is about the reservations of two captures: that process
still loses leases, dies, and meets requests of its former attempts, and two workers on
one job are in the other two runs. Two attempts are one
replay, with every fate of the first request beside it; the last attempt of a
budget and one that is not the last both occur. Two captures of one scope are what
a reservation separates, and two faces what the steps for a whole event can confuse.
A capture that is sent twice meets its own event in every state, and its tombstone
when that was pruned. One fault is one process that dies at any step, or one write that fails (the actions
with `Fault` or `Refused` say which may); two are also a crash
while recovering from the first. `event_guard.cfg`, which is not among the runs, is the
instance of `event_sync` with two faults and without fairness (1.2 M states):
`SubmissionGuardsScope` and `CooldownKept` hold there, and not with three, see
`doc_freed_submission` below. A window or a lease of one tick
expires before, during or after any other step, because `Tick` interleaves with
everything; runs with two ticks add "renewed half-way". Three sequences are an
accepted release, one a slow synchronization has, and one it does not know of.
Three schema versions are a plain migration, the branched one and the one that
unites the branches. Interchangeable workers are
`SYMMETRY` in `outbox_unverified`; the other runs use none.

**Deadlock.** It is checked in the `outbox_*` and `gallery_releases` runs, where the workers
poll and the timer and the watcher go on for ever. The others say
`CHECK_DEADLOCK FALSE`: a node where every upload is settled and the camera
has sent all it may, where the bounded attachments are done, or where all
services run and the writes and faults are used up, rests.

**Assumptions on the deployment.** They are constants, and each is dropped in some
run:

- `WatcherStalls`, `Stalls` = FALSE: no process stops for longer than its lease or
  reservation between two of its statements. `docs/processing-leases-policy.md:25`
  demands it ("must comfortably exceed", "must cover the same operation") and
  `configuration_issues` checks the numbers; the code does not check that it held.
  Three of the configurations below drop it. Crashes and failing writes
  are not restricted by it.
- `QuarantineOnly` = TRUE: operators requeue quarantined evidence
  (`resolve-quarantine`) and leave files alone that are still where the watcher
  polls. `doc_stolen_upload` and `doc_reprocess_delivers` drop it.
- One process synchronizes the gallery: two are the subject of `doc_concurrent_*`.
- One watcher polls a directory; two are an accident the leases are there for
  ("SQLite leases protect accidental overlap"). `event_overlap` shows what they
  protect with one crash: nobody submits a capture twice. It is a bound that matters:
  `doc_overlap` shows what two watchers and one crash do to a scope, and with
  `MaxFaults = 2` (a second crash, by the same path) `SubmittedOnce` fails too.
- Worker mode runs without faults in `event_worker`, because a crash or a failing
  face after a decision was queued is the subject of `doc_second_submission` and
  `doc_second_face`: the decision's own scope is opened. `DeliveryOutbox` has these steps
  (`EventFails`, `EventTakenBack`), each at most once for a decision, and its properties of
  reservations are about the decisions they have not happened to (`Kept`): whatever becomes
  of the events of others does not open their scope, nor bring a second delivery of
  theirs into the cooldown. A new decision for the recovered event is another element of
  `Jobs` there.
- `DoubtsFail` = FALSE in `event_sync`: the write of `mark_attendance_policy_uncertain`
  after a call without an answer does not fail. `event_overlap` and
  `doc_freed_submission` set it to TRUE. Only `SubmissionGuardsScope` and `CooldownKept`
  depend on it: the theorems of section 4 about the other properties hold for both values.
- `Misbehaves`: whether the server may serve other signed releases than the latest.

**Fairness.** `LiveSpec` of each module assumes weak fairness of the steps a process
takes by itself and of the clock: `run_forever` and the watcher's loop poll, every
remote call has a timeout (so that the answer to a call that is lost is one of
the process's steps), and the systemd units have `Restart=on-failure` or a timer.
`EventProcessing` assumes strong fairness for polling a given file, since a
round of the poll tries every file it lists, and for `Tick`, which the guard that
keeps a process from stalling disables again and again. Nothing is assumed of ERPNext, of
the central server's publishing, of heartbeats, of failures, or of an operator
beginning anything; an operator who has begun a restore finishes it or dies.
`EveryJobSettles` holds because an attempt is counted when it is leased, before
anything can go wrong with it. `Converges`, `AttachmentsSettle`, `SpoolCleared` and
`ComesUp` bound the faults: what they say is that the system recovers from them.
`Converges` speaks of a server that comes to serve, for good, a fresh release that may
follow the accepted one and is not older than the installed one: when a
synchronization died between installing and recording, a server that went back to the
accepted release would get a 304 that never matches the installed one.

### Where the code and its documents disagree

Each has a configuration of its own, named as here, whose property TLC finds
violated. `doc_expired_submission`, `doc_cooldown_of_checkins` and `doc_second_submission` are runs of `PROJECT.json`, with the quoted line as a finding; the others are kept for the reader (`tlc -config doc_overlap.cfg
MCEventProcessing.tla`); the lines of the code and of the document it contradicts
are given below.

Delivery:

- `doc_expired_submission`: recovery compares the attempts with the budget *before*
  it looks at the submission mark. When the last attempt expires after an unverified
  submission, the job becomes `permanent_failure` and the reservation is released,
  although the check-in may exist (`docs/delivery-worker.md:139` says `uncertain`;
  `attachment_outbox.py:783` tests the submission first).
- `doc_cooldown_of_checkins`: a verified delivery whose answers are lost on every
  attempt releases its scope without committing it. ERPNext has the check-in, so
  the next capture inside the cooldown creates a second one. (`CooldownHolds` is what
  does hold: it speaks of jobs the node knows to be delivered.)

Events in synchronous mode:

- `doc_freed_submission`: the call to ERPNext raises, and then the write that marks its
  reservation uncertain fails (`watch_service.py:1258`, outside any `try`). The handler of
  the failure releases what is still pending (1336): the scope of a submission is free
  (`docs/processing-leases-policy.md:134`: "blocks that same scope until
  reconciliation"), and the next capture in the cooldown may be submitted. After a call
  that *was* answered the same failure is swallowed (1290, 1309), and the reservation
  stays pending. That alone opens nothing, but with two more failures it does
  (`event_guard.cfg` with `MaxFaults = 3`): the event cannot be ended, the same watcher finds the file again
  under its own lease, and stumbles over the decision that is there.

Events in worker mode. The event's own delivery boundary is only crossed in
synchronous mode, so what tests it does not see a queued decision:

- `doc_second_submission`: a watcher dies after queueing a decision; recovery
  releases the reservation and the capture is delivered again under a new id.
- `doc_reprocess_delivers`: an operator may reprocess an event whose decision is
  queued, in doubt or delivered (`event_operations.py:692`; `README.md:312`: "They
  never retry or cancel ERPNext delivery").
- `doc_second_face`: an exception at a later face releases the reservations of the
  faces already queued; the next capture is delivered inside the cooldown
  (`watch_service.py:1336`; `docs/processing-leases-policy.md:186`).

A dismissal, too, gives up the scope of a queued decision, whose job is delivered all
the same; `QueuedHoldsScope` excepts it, because no document says otherwise.

Events, leases and files:

- `doc_overlap`: startup recovery fails an event that another watcher is submitting
  (`processing_recovery.py:1013`; `docs/processing-leases-policy.md:149`).
- `doc_stalled_retry`: `transition_claim` renews in one transaction and moves the
  event in another, which checks nothing: an ended event is taken back and submitted
  again (`event_ledger.py:938`; `docs/processing-leases-policy.md:88`: "never retried
  automatically").
- `doc_permanent_claim`: a watcher dies between removing the file and ending the
  event, and restarts before the lease has run out: nobody ever ends the event
  (`watch_service.py:1363`; `docs/processing-leases-policy.md:5`: the leases "replace
  permanent `processing` claims").
- `doc_undone_checkin`, `doc_undone_dismissal`: two writes that do not look at the
  state they leave, by an operator (`event_operations.py:976`;
  `docs/event-operations.md:131`) and by recovery (`watch_service.py:214`;
  `docs/processing-leases-policy.md:142`).
- `doc_stolen_upload`, `doc_deleted_failure`: the last copy of a capture nobody
  processed is deleted as a duplicate, after a refused command put it back
  (`event_admin.py:341`; `docs/event-operations.md:77`) or after an unforeseen
  exception (`watch_service.py:1420`; `docs/camera-source-binding.md:93`).
- `doc_prunes_quarantined`: a crash between moving an upload to quarantine and
  recording it lets the event be pruned (`watch_service.py:342`;
  `docs/event-identity-tombstones.md:65`).

Attachments and gallery:

- `doc_referenced_crop`: orphan cleanup removes a crop that a stalled watcher's
  decision has meanwhile come to refer to (`attachment_spool.py:311`; its own comment,
  `:284`).
- `doc_concurrent_rollback`, `doc_concurrent_activation`: two synchronizations
  share no lock; the slower one puts an older release back (`secure_sync.py:312`;
  `docs/gallery-release-security.md:58`), or the two leave one release installed and
  another accepted, which no later synchronization of that release repairs
  (`secure_sync.py:425`; `README.md:18`).
- `doc_missed_reload`: the watcher takes the signature of the file after reading it
  (`embedding_gallery.py:772`; `HANDOFF.md:31`).
- `doc_stale_gallery`: `refresh` keeps a gallery that has become too old
  (`face_attendance.py:372`; `docs/production-readiness.md:128`).

## 4. What TLAPS proves

Thirty-seven theorems, for every number of decisions, captures, faces, scopes, workers,
watchers, operators, attempts, faults and releases. They rest on the `ASSUME` of the
module (the ranges of its constants), which TLC evaluates in every run, and on the
hypotheses stated here, which are part of the theorem. Every invariant below was
checked by TLC on the instances of section 3 before it was proved.

| Theorem | States | Hypothesis |
|---|---|---|
| `TypeCorrect`, `AttachmentTypeCorrect`, `GalleryTypeCorrect`, `MigrationTypeCorrect`, `ProcessingTypeCorrect` | `TypeOK` of each module | |
| `OneCheckinPerDecision` | `AtMostOneCheckin` | |
| `OutcomesAreFinal`, `HolderEndsItsLease` | `SettledStays`, `OnlyHolderEndsLease` | |
| `DeliveredIsInErpnext` | `DeliveredNamesCheckin` | |
| `OutboxKeepsPromise` | `ImplementsCheckinDelivery` (worker) | |
| `OneDecisionInFlight`, `UncertainKeepsScopeClosed`, `DeliveriesAreCooldownApart` | `OneInFlightPerScope`, `UncertainBlocksScope`, `CooldownHolds` | `~WatcherStalls` |
| `SubmitsAlone` | `OneSubmitter` | `~Stalls`, `[]RecoveryApart` |
| `AskedOnce`, `NeverTakenUpAgain` | `SubmittedOnce`, `NeverRetried` | synchronous mode, `~Stalls`, `[]RecoveryApart` |
| `SynchronousKeepsPromise` | `ImplementsCheckinDelivery` (without a worker) | the same |
| `CreatedMeansDelivered` | `DeliveredAgrees` | the same |
| `SubmissionsGuard`, `CheckinsCoolDown` | `SubmissionGuardsScope`, `CooldownKept` | the same, `[][DismissesNoSubmission]_vars` and `[][DoubtsWritten]_vars` |
| `AskedOnceByOne`, `OneWatcherKeepsPromise`, `CreatedMeansDeliveredByOne` | `SubmittedOnce`, `NeverRetried`, `ImplementsCheckinDelivery`, `DeliveredAgrees` | synchronous mode, `~Stalls`, one watcher |
| `CooledDownByOne` | `SubmissionGuardsScope`, `CooldownKept` | the same, no operators, and `[][DoubtsWritten]_vars` |
| `EvidenceIsFound`, `QuarantineIsNotPruned` | `EvidenceFound`, `QuarantinedNotPruned` | `~Stalls`, `QuarantineOnly`, one watcher, `[][WatchersFinish]_vars` |
| `LastCopyStays` | `LastCopyKept` | the same, and quarantine is configured |
| `QueuedKeepScope` | `QueuedHoldsScope` | worker mode, `~Stalls`, `QuarantineOnly`, `[][OnlyOperatorsFail]_vars` |
| `CropsUploadedOnce`, `RowsAgreeWithErpnext` | `UploadedOnce`, `RowsAgree` | |
| `CropsAreKept`, `ReferencedCropsStay` | `CropKept`, and that no step removes a crop an unfinished job needs | `~Stalls` |
| `InstalledBeforeAccepted`, `AcceptanceNeverRollsBack`, `RecognitionNeverRollsBack` | `InstalledFirst`, `NoRollback`, `NeverReactivated` | `[]OneAtATime` |
| `ServicesRunOnLatest`, `EveryChangeIsRestorable` | `RunsOnLatest`, `RestorableFirst` | |

**The hypotheses** are what the deployment is asked for; section 3 has configurations
that drop them and find a violation.

- `~Stalls`, `~WatcherStalls`: no process stops for longer than its lease, its
  reservation or the grace period (`doc_stalled_retry`, `doc_referenced_crop`). It
  restricts time, not crashes.
- `RecoveryApart`: no watcher has been given an event that the startup recovery of
  another one has still to finish. The recovery transaction itself is fenced by the
  leases; what it does to the files and events afterwards is not (`doc_overlap`, and
  `event_overlap` with `MaxFaults = 2`).
  With one watcher there is no other one, so that the theorems about one watcher
  (`...ByOne`, `OneWatcherKeepsPromise`) need nothing of the kind: wherever that
  watcher dies, and however often.
- `DismissesNoSubmission`: a dismissal gives up the reservation of its event, also one
  that is in doubt (`_release_policy_for_event_tx`), after the operator acknowledged to
  have looked in ERPNext. What the operator saw there is outside the model, so the
  guard of a scope is claimed only while no event with a submission is dismissed;
  requeueing, quarantine and the dismissal of other events are not restricted.
- `DoubtsWritten`: no write of `mark_attendance_policy_uncertain` fails, neither the one
  that leaves the face (`doc_freed_submission`) nor one that is swallowed. Every other write
  of a delivery may fail, and any process may die anywhere.
- `WatchersFinish`: no watcher dies, meets an exception nobody foresees, or fails to
  release reservations or to end its event under a live lease. One that does so after it moved a file and before it
  recorded where leaves a row that says where the file was (`doc_prunes_quarantined`,
  `doc_deleted_failure`). The failures that `process_path` foresees, decisions and
  deliveries that fail, expired leases and operators who die at any step are all allowed.
- `QuarantineOnly`: operators requeue with `resolve-quarantine`; other commands take a
  file from under the watcher, or an event whose decision is queued (`doc_stolen_upload`,
  `doc_reprocess_delivers`).
- one watcher (`OneWatcher`), for the files: a second one may have found an upload
  before the first put it away, and leases the event, without the file, once an
  operator has requeued it (the instance of `event_overlap` shows it, without any fault).
- `Quarantines`, for the last copy: a node without `quarantine_dir` leaves a rejected
  file where it is, and with `delete_duplicates` the next poll removes it as a duplicate.
- `OnlyOperatorsFail`: nothing fails in a watcher. One that fails at a later face gives
  up the reservations of its event, also those of faces it has queued
  (`doc_second_face`), and so does the recovery of one that died
  (`doc_second_submission`).
- `OneAtATime`: synchronizations do not overlap (`doc_concurrent_rollback`). One
  synchronizing process satisfies it.
- synchronous mode, `~WorkerMode`: with a worker the same capture may be delivered
  under a second decision (`doc_second_submission`), and what holds there is a
  matter of `DeliveryOutbox`.

### The arguments

**`DeliveryOutboxProofs`.** `TypeOK` is not inductive: that a request names a
destination depends on the worker that sends it having verified one. `WellTyped`
adds `BusyWithJob`: a process that is not idle has a job, an attempt within the
bound and, with the contract, a capability. `AtMostOneCheckin` says nothing of the
requests still under way, so it needs the invariant `OneCheckin`:

- `AttemptsOwned`: no two processes are in the same attempt of a job, and the
  holder of a lease is in the latest one;
- `RequestsOwned`: nothing has been sent for an attempt before its process
  sends it;
- `Unpersisted`: a decision that is not recorded has no job;
- with the contract, `Bound`: every worker past the binding, every request and
  every check-in of a job has the destination the job is bound to, and a binding is
  written once. ERPNext keeps a delivery id unique at one destination, so
  replays there find the first check-in;
- without it, `NeverBound` and `OneOpenAttempt`. An attempt is *open* from its
  submission mark until its request is refused or known not to have been sent.
  At most one attempt of a job is open, and while one is, the job is leased in
  that attempt with the mark set, or settled. The heart of the proof is
  `RetryIsClosed` (a worker that queues the job again has closed its
  attempt) and `SweepGuards` (recovery and the budget sweep never queue a
  marked job).

`Quiet` names what all steps but a claim have in common (attempts and owners
stay), `ProcessMoves` the ways a process moves, and `Ends` what the end of a
lease does; the step lemmas are stated about these. `SettledStays` and
`OnlyHolderEndsLease` follow from `RowStep`: a row that recovery, the budget sweep and
the claim leave alone keeps its state and document, unless the worker holding its
lease ends that lease; those transactions are fenced and send the worker back to
polling (`HolderGoesIdle`).

**`DeliveryPromiseProofs`.** `Promise` adds to it that an answer a worker has in
hand names a check-in of its job (`AnswerNamesCheckin`) and that a job that is not
there was not tried. For the refinement, `RowMoves` says what one step makes of the
row of one job, `OutcomeStep` that this settles a job at most once; persisting is
`Accept`, serving a request for the first time is `Create` (a second check-in is what
`AtMostOneCheckin` excludes), and everything else is `Settle` or invisible.

The reservations are the second half of that module. All is said of decisions whose event
did not give the reservation up (`Kept`), beside any number of others whose event did. The
invariant `ScopeInv`: a scope is reserved by a decision
of its own that is a cooldown away from the committed one (`ReservationsOwned`); a
job in flight holds its scope, and one in doubt holds it as uncertain (`ActiveHolds`);
and what a scope has committed is the delivery itself or a cooldown or more after it
(`CommittedLast`). Each transaction that ends a lease moves the reservation with it
(`Follows`).

**`EventProcessingProofs`.** The types need what a process has in its hands at each
stage (`TypeInv`). Then:

- `LeaseInv`: from the lease to the end of the event a watcher *holds* it: the row
  names the watcher, its lease has not run out, the event is open, and the attempt is
  the watcher's; and past `begin_delivery_attempt` the row names the decision the
  watcher is at. `RowStep` lists all that a step may make of one row of
  `camera_events`, and that every change but renewal and delivery happens to a row
  nobody works at; `LedgeredSteps` to `OtherSteps` show it action by action.
  `OneSubmitter` follows, since a row names one owner.
- `LedgerInv` and `SentInv`: an event that was submitted is past its boundary in the
  attempt of the submission, or ended and never leased again, or was pruned, and then
  its tombstone stops the next upload. So all submissions of a capture are of one
  attempt (`SubmittedOnce`), and no step raises it (`NeverRetried`).
- `JobInv` and `CallInv`: a check-in has a job that was begun, a delivered job has its
  check-in, and the job of a watcher that calls ERPNext is leased and without a
  check-in before the call. `JobStep` lists what a step makes of a job, and whose.
  Then `Persist` is `Accept`, a `Call` that makes a check-in is `Create`, and any other
  step is `Settle` (`PersistAccepts`, `CallCreates`, `OthersSettle`).

**`EventOutcomeProofs`.** First, `DeliveredAgrees`. `WorkStep` lists all that a step
makes of what a watcher has in hand (`WorksAre`), and `PassInv` follows a pass over
the faces of a capture: each face before this one has its decision (`InOrder`); all that
was submitted of the capture is delivered but for the face at hand (`Clean`); and a
watcher that means to say `checkin_created` has it to say (`Truthful`). It is not
inductive without one more case: a watcher that could not end an event finds its file
again, under its own lease and in the same attempt, and starts over with things
submitted. Such a pass is `Barred`: the first face has its decision, so it takes no
reservation to the call. `SentInOrder` is what that needs: a submission leaves a decision
of the first face. `WhoCreates` shows that nobody but that watcher writes
`checkin_created`, and `AgreedStays` that the event and its check-ins go on to agree.

Then the reservations. `ScopeStep` lists all that a step may make of one, and who is at
its face when it does (`ScopeSteps`, action by action); every other lemma uses only
this list. `GuardInv` says that a watcher at a face has its scope reserved and not run
out (`FacesReserved`); that a pending reservation whose event is leased is of the face
the lease holder is at (`PendingHeld`), so that nobody gives it back for an earlier
submission; that a reservation is a cooldown after what the scope has committed
(`ReservationsOwned`), and that the ledger knows its event (`HoldersKnown`); that a
face that is about to be submitted was not (`Unsent`), that recovery retries nothing
that was (`RetriesUnsent`), and that the job of a submission is one no reservation may
take over (`SentJobs`). A commit then closes the scope for a capture later than all
committed before, which is `SubmissionGuardsScope`, and a call is of a capture that passed
the cooldown against the latest of them, which is `CooldownKept`.

**`EventEvidenceProofs`.** As before, each kind of state has one step relation that
lists all that any action makes of it, and every other lemma uses only the list:
`HandStep` for what a watcher has in hand, `PathStep` for a recorded path, `MediaStep`
for the copies of an upload, `CommandStep` for an operator's command. `FinishInv` is what
follows from watchers that come to the end: they are all up, a lease is on the event
its watcher works at, an open event has the name of an upload recorded, and a command took
its file from quarantine and is alone with its event (`AttendedInv`). `FilesInv` is then the life of an upload. A
watcher that has claimed a file finds it where it claimed it (`HasFile`) and, once the
event is to be ended, where it put it (`PutAway`); what the row says it kept is there
(`KeptRecorded`), and an event that ended badly has it in quarantine or with the operator
who hid it (`BadKept`); a file that is turned away is a second copy
(`TurnedAway`, `StagedAlone`, `OneCopy`); and without quarantine nothing ever leaves its
name (`LeftInPlace`). None of them is inductive alone: that an operator may put a file
back needs that nobody else published one, which needs that its event was still the
one the command was made for.

For the queue, `FaceStep` says which face comes next, `QueueJobStep` who makes and who
settles a job, and `QueueScope` what becomes of a reservation. `QueueInv` says that a
pass over the faces has decided only faces before the one at hand, in this
attempt (`FacesFresh`, `DecidedKnown`, `JobsKnown`), so that the decision a watcher
records is a new one; that an event with a job ends as finished and is not taken up
again (`QueuedFinishes`), so that nothing gives up the job's reservation; and that a
scope is reserved for a decision with a job or for the face some watcher is at
(`HoldersQueued`, `ReservedHeld`), so that the job that is recorded has its scope. A
reservation then stays until its job is settled or its event dismissed.

**`AttachmentOutboxProofs`.** `Attachments` is the conjunction of: a decision in a
watcher's hands is not recorded yet and in no other's (`RecordInv`); the worker that holds a lease is the row's
owner in its latest attempt, and a row it uploads for is its own or in doubt
(`HolderInv`); a request that may have made a File is of a job that is leased and
marked, uncertain or attached, and what a worker believes of its request is so
(`RequestInv`); and an upload follows its check-in (`ParentInv`). `SpoolInv` adds which copies are referred to,
which are younger than the grace period, and what a cleanup in progress has read.

**`GalleryReleaseProofs`.** `SyncInv`: a synchronization works from the release that
is still the accepted one, what it installs or records may follow that, and what it
records is installed. `WatchInv`: what the watcher has and has used never gets ahead
of the accepted release, and what it adopts follows what it used; `FollowsTransitive`
makes a chain of them.

**`RuntimeMigrationProofs`.** `SchemaInv`: the version decides which schema a
database holds, save for the one released branch, in the file, in every backup and
in what an operator is about to restore; services that run found the latest version;
while an operator restores they stay stopped. `BackupInv` follows the rows from the
copy to its sidecar, to the migration or the replacement.

**Only model-checked:** the liveness properties (`EveryJobSettles`, `UploadsSettle`,
`AttachmentsSettle`, `SpoolCleared`, `Converges`, `ComesUp`), because fairness and `ENABLED` are
out of the prover's reach. Every invariant and action property of a passing run, and
both refinements, are stated by a theorem. No recursive definition is used, and no
induction over data.

## 5. What is not modelled

What a next step would be: `QueuedHoldsScope` for watchers that fail only while their
event has nothing queued, and what can still be said of the files when a watcher dies:
that the recorded path is at most one move behind.

Left out, with the reason:

- Recognition and presentation-attack scoring: numerical; only the verdict reaches
  the protocols, and it is a choice in `EventProcessing`.
- The login and rate limiters and the audit log: each operation is a single
  transaction on one row, with no second actor to interleave with.
- Pages and sessions of the web administration, camera discovery, authentication of
  the FTP receiver: no protocol state; an upload appears under its final name in
  one step because the receiver renames it.
- Configuration, secrets, readiness: pure validation of files and environment.
- The single-shot import and conversion tools.
- Of the gallery: signature and vector validation, the history list, key rotation,
  the unsigned profile; of the ledger: the transition log, snapshots and PAD columns;
  of event identity: legacy identifier schemes. None of them is read by a guard.

`PROJECT.json` lists every component with its status, the definitions with the lines
they model, and the hazards, also those no property covers, with the reason.

## 6. Running

    tlc -config event_overlap.cfg MCEventProcessing.tla      # two minutes at most, most take seconds
    tlapm DeliveryOutboxProofs.tla                           # and the other ...Proofs modules: minutes from nothing, each
