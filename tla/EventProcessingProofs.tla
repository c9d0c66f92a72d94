------------------------- MODULE EventProcessingProofs -------------------------
(***************************************************************************)
(* What holds of EventProcessing for every number of captures, faces,      *)
(* watchers, operators, attempts, uploads, commands and faults.            *)
(***************************************************************************)
EXTENDS EventProcessing, TLAPS

-----------------------------------------------------------------------------
(***************************************************************************)
(* Types, and what each process has in its hands where it is.              *)
(***************************************************************************)

\* Stages between begin_delivery_attempt and the end of its outcome.
Calling == {"submitting", "answered", "raised", "delivered", "doubting", "conceding"}

\* Stages at one accepted face.
Facing == Calling \cup {"reserved", "persisted"}

\* Stages of a watcher that was given the processing lease of its event.
Holding == Facing \cup {"leased", "renewed", "scoring", "failing", "disposing",
                        "finalizing", "breaking"}

\* What process_path ends an event as.
Endings == {"rejected", "failed", "uncertain", "processed", "checkin_created"}

\* A watcher that works has an event, an attempt, a face, and in the end a verdict.
WatcherOK(r) ==
  /\ r \in Watching
  /\ r.pc \in Holding \cup {"received", "refused"} => r.capture \in Captures
  /\ r.pc \in Holding => r.attempt > 0
  /\ r.pc = "scoring" => r.face > 0
  /\ r.pc \in Facing => r.face \in DOMAIN FaceScopes[r.capture]
  /\ r.pc = "disposing" => r.verdict \in Endings
  /\ r.pc = "breaking" => r.verdict = "broken"
  /\ r.pc = "finalizing" => r.verdict \in Endings \cup {"broken"}

\* A command that has begun has an event and the place its file came from.
CommandOK(r) ==
  /\ r \in Command
  /\ r.pc # "idle" => r.capture \in Captures /\ r.from \in Places

\* An event without a row has no lease, and one that a watcher has leased has
\* an attempt.
RowOK(r) ==
  /\ r \in Row /\ r.attempt <= MaxAttempts
  /\ r.owner \in Watchers => r.attempt > 0
  /\ r.state = "absent" => r.owner = NoOwner /\ r.attempt = 0

RowsOK     == event \in [Captures -> Row] /\ \A c \in Captures : RowOK(event[c])
WatchersOK == watcher \in [Watchers -> Watching] /\ \A w \in Watchers : WatcherOK(watcher[w])
CommandsOK == operator \in [Operators -> Command] /\ \A o \in Operators : CommandOK(operator[o])

\* The tables of the deliveries.
DeliveriesOK ==
  /\ decided \subseteq Decisions
  /\ job \in [Decisions -> JobStates]
  /\ docs \subseteq sent /\ sent \subseteq Decisions

BoundsOK ==
  /\ faults \in 0..MaxFaults
  /\ uploads \in [Captures -> 0..MaxUploads]
  /\ actions \in 0..MaxActions

TypeInv ==
  /\ RowsOK /\ WatchersOK /\ CommandsOK /\ DeliveriesOK /\ BoundsOK
  /\ tombstone \subseteq Captures
  /\ media \in [Captures -> SUBSET Places]
  /\ policy \in [Scopes -> Policy!PolicyRow]
  /\ todo \in [Watchers -> [Captures -> Chores]]

\* These are the type invariant and more.
LEMMA TypeInvTypes == TypeInv => TypeOK
BY DEF TypeInv, TypeOK, RowsOK, WatchersOK, CommandsOK, DeliveriesOK, BoundsOK

\* An owner is no NoOwner, and a process that died is none.
LEMMA OwnersApart ==
  /\ Watchers \subseteq Owners /\ Operators \subseteq Owners /\ Dead \in Owners
  /\ NoOwner \notin Owners /\ Dead \notin Watchers /\ Dead \notin Operators
  /\ Watchers \cap Operators = {}
BY ProcessingAssumption DEF Owners

\* A field-by-field account of the updates of a row.
IsRow(q, state, phase, owner, lease, attempt, decision, action, path) ==
  /\ q \in Row
  /\ q.state = state /\ q.phase = phase /\ q.owner = owner /\ q.lease = lease
  /\ q.attempt = attempt /\ q.decision = decision /\ q.action = action /\ q.path = path

\* Ending, moving, renewing and acquiring.
LEMMA RowMoved ==
  ASSUME NEW r \in Row
  PROVE  /\ \A s \in Terminal :
              IsRow(Ended(r, s), s, "terminal", NoOwner, 0, r.attempt, r.decision, r.action, r.path)
         /\ \A s \in Terminal, p \in Places \cup {Nowhere} :
              IsRow([Ended(r, s) EXCEPT !.path = p],
                    s, "terminal", NoOwner, 0, r.attempt, r.decision, r.action, p)
         /\ IsRow(Moved(r, "processing"),
                  "processing", r.phase, r.owner, r.lease, r.attempt, r.decision, r.action, r.path)
         /\ IsRow(Renewed(r),
                  r.state, r.phase, r.owner, FullLease, r.attempt, r.decision, r.action, r.path)
         /\ \A w \in Owners :
              IsRow(Acquired(r, w), "processing", "pre_delivery", w, FullLease, r.attempt + 1,
                    NoDecision, r.action, r.path)
         /\ \A d \in Decisions :
              IsRow(Delivering(r, d), "processing", "delivery_in_progress", r.owner, FullLease,
                    r.attempt, d, r.action, r.path)
<1>0. FullLease \in Nat /\ 0 \in 0..FullLease /\ FullLease \in 0..FullLease
  BY ProcessingAssumption DEF FullLease
<1> USE <1>0 DEF IsRow
<1>1. IsRow(Unleased(r), r.state, r.phase, NoOwner, 0, r.attempt, r.decision, r.action, r.path)
  <2>1. Unleased(r) \in Row
    BY DEF Row, Unleased
  <2> QED BY <2>1 DEF Row, Unleased
<1>2. ASSUME NEW s \in Terminal
      PROVE  IsRow(Ended(r, s), s, "terminal", NoOwner, 0, r.attempt, r.decision, r.action, r.path)
  <2>1. Ended(r, s) \in Row
    BY <1>1 DEF Row, Ended, Phases
  <2> QED BY <1>1, <2>1 DEF Row, Ended
<1>3. ASSUME NEW s \in Terminal, NEW p \in Places \cup {Nowhere}
      PROVE  IsRow([Ended(r, s) EXCEPT !.path = p],
                   s, "terminal", NoOwner, 0, r.attempt, r.decision, r.action, p)
  <2> DEFINE q == Ended(r, s)
  <2>1. IsRow(q, s, "terminal", NoOwner, 0, r.attempt, r.decision, r.action, r.path)
    BY <1>2
  <2> HIDE DEF q
  <2>2. [q EXCEPT !.path = p] \in Row
    BY <2>1 DEF Row
  <2>3. IsRow([q EXCEPT !.path = p], s, "terminal", NoOwner, 0, r.attempt, r.decision, r.action, p)
    BY <2>1, <2>2 DEF Row
  <2> QED BY <2>3 DEF q
<1>4. IsRow(Moved(r, "processing"),
            "processing", r.phase, r.owner, r.lease, r.attempt, r.decision, r.action, r.path)
  <2>1. Moved(r, "processing") = [r EXCEPT !.state = "processing"]
    BY DEF Moved, Terminal
  <2>2. Moved(r, "processing") \in Row
    BY <2>1 DEF Row, Open
  <2> QED BY <2>1, <2>2 DEF Row
<1>5. IsRow(Renewed(r),
            r.state, r.phase, r.owner, FullLease, r.attempt, r.decision, r.action, r.path)
  <2>1. Renewed(r) \in Row
    BY DEF Row, Renewed
  <2> QED BY <2>1 DEF Row, Renewed
<1>6. ASSUME NEW w \in Owners
      PROVE  IsRow(Acquired(r, w), "processing", "pre_delivery", w, FullLease, r.attempt + 1,
                   NoDecision, r.action, r.path)
  <2> DEFINE n == r.attempt + 1
  <2>1. n \in Nat /\ w \in Owners \cup {NoOwner} /\ NoDecision \in Decisions \cup {NoDecision}
    BY DEF Row
  <2>2. Acquired(r, w) = [r EXCEPT !.state = "processing", !.phase = "pre_delivery", !.owner = w,
                                   !.lease = FullLease, !.attempt = n, !.decision = NoDecision]
    BY DEF Acquired
  <2> HIDE DEF n
  <2>3. Acquired(r, w) \in Row
    BY <2>1, <2>2 DEF Row, Open, Phases
  <2> QED BY <2>2, <2>3 DEF Row, n
<1>7. ASSUME NEW d \in Decisions
      PROVE  IsRow(Delivering(r, d), "processing", "delivery_in_progress", r.owner, FullLease,
                   r.attempt, d, r.action, r.path)
  <2>1. Delivering(r, d) \in Row
    BY <1>5 DEF Row, Delivering, Open, Phases
  <2> QED BY <1>5, <2>1 DEF Row, Delivering
<1> QED BY <1>2, <1>3, <1>4, <1>5, <1>6, <1>7

\* Recovery, time and the operator.
LEMMA RowTaken ==
  ASSUME NEW r \in Row
  PROVE  /\ IsRow(Retried(r),
                  "processing", "idle", NoOwner, 0, r.attempt, r.decision, r.action, r.path)
         /\ \A o \in Owners :
              IsRow(Requested(r, o),
                    "received", "idle", o, FullLease, r.attempt, NoDecision, o, "target")
         /\ IsRow(Published(r),
                  r.state, r.phase, NoOwner, 0, r.attempt, r.decision, r.action, "target")
         /\ \A p \in Places :
              IsRow(PublishFailed(r, p),
                    "failed", "terminal", NoOwner, 0, r.attempt, r.decision, NoOwner, p)
         /\ IsRow(Dismissed(r),
                  "dismissed", "terminal", NoOwner, 0, r.attempt, r.decision, NoOwner, r.path)
         /\ IsRow(Older(r), r.state, r.phase, r.owner, IF r.lease = 0 THEN 0 ELSE r.lease - 1,
                  r.attempt, r.decision, r.action, r.path)
<1>0. FullLease \in Nat /\ 0 \in 0..FullLease /\ FullLease \in 0..FullLease
  BY ProcessingAssumption DEF FullLease
<1> USE <1>0 DEF IsRow
<1>1. IsRow(Unleased(r), r.state, r.phase, NoOwner, 0, r.attempt, r.decision, r.action, r.path)
  <2>1. Unleased(r) \in Row
    BY DEF Row, Unleased
  <2> QED BY <2>1 DEF Row, Unleased
<1>2. IsRow(Retried(r),
            "processing", "idle", NoOwner, 0, r.attempt, r.decision, r.action, r.path)
  <2>1. Retried(r) \in Row
    BY <1>1 DEF Row, Retried, Open, Phases
  <2> QED BY <1>1, <2>1 DEF Row, Retried
<1>3. ASSUME NEW o \in Owners
      PROVE  IsRow(Requested(r, o),
                   "received", "idle", o, FullLease, r.attempt, NoDecision, o, "target")
  <2>1. Requested(r, o) \in Row
    BY DEF Row, Requested, Open, Phases, Places, Uploads
  <2> QED BY <2>1 DEF Row, Requested
<1>4. IsRow(Published(r),
            r.state, r.phase, NoOwner, 0, r.attempt, r.decision, r.action, "target")
  <2>1. Published(r) \in Row
    BY <1>1 DEF Row, Published, Places, Uploads
  <2> QED BY <1>1, <2>1 DEF Row, Published
<1>5. ASSUME NEW p \in Places
      PROVE  IsRow(PublishFailed(r, p),
                   "failed", "terminal", NoOwner, 0, r.attempt, r.decision, NoOwner, p)
  <2> DEFINE q == Ended(r, "failed")
  <2>1. IsRow(q, "failed", "terminal", NoOwner, 0, r.attempt, r.decision, r.action, r.path)
    BY RowMoved DEF Terminal
  <2>2. PublishFailed(r, p) = [q EXCEPT !.action = NoOwner, !.path = p]
    BY DEF PublishFailed
  <2> HIDE DEF q
  <2>3. PublishFailed(r, p) \in Row
    BY <2>1, <2>2 DEF Row
  <2> QED BY <2>1, <2>2, <2>3 DEF Row
<1>6. IsRow(Dismissed(r),
            "dismissed", "terminal", NoOwner, 0, r.attempt, r.decision, NoOwner, r.path)
  <2> DEFINE q == Ended(r, "dismissed")
  <2>1. IsRow(q, "dismissed", "terminal", NoOwner, 0, r.attempt, r.decision, r.action, r.path)
    BY RowMoved DEF Terminal
  <2>2. Dismissed(r) = [q EXCEPT !.action = NoOwner]
    BY DEF Dismissed
  <2> HIDE DEF q
  <2>3. Dismissed(r) \in Row
    BY <2>1, <2>2 DEF Row
  <2> QED BY <2>1, <2>2, <2>3 DEF Row
<1>7. IsRow(Older(r), r.state, r.phase, r.owner, IF r.lease = 0 THEN 0 ELSE r.lease - 1,
            r.attempt, r.decision, r.action, r.path)
  <2>1. Older(r) \in Row
    BY DEF Row, Older
  <2> QED BY <2>1 DEF Row, Older
<1> QED BY <1>2, <1>3, <1>4, <1>5, <1>6, <1>7

\* So they keep it well formed.
LEMMA RowsKept ==
  ASSUME NEW r, RowOK(r), r.state # "absent"
  PROVE  /\ \A s \in Terminal : RowOK(Ended(r, s))
         /\ \A s \in Terminal, p \in Places \cup {Nowhere} : RowOK([Ended(r, s) EXCEPT !.path = p])
         /\ RowOK(Moved(r, "processing")) /\ RowOK(Renewed(r))
         /\ r.attempt < MaxAttempts => \A w \in Owners : RowOK(Acquired(r, w))
         /\ \A d \in Decisions : RowOK(Delivering(r, d))
         /\ RowOK(Retried(r)) /\ RowOK(Published(r)) /\ RowOK(Dismissed(r))
         /\ \A o \in Operators : RowOK(Requested(r, o))
         /\ \A p \in Places : RowOK(PublishFailed(r, p))
<1>1. /\ r \in Row /\ r.attempt \in 0..MaxAttempts /\ "absent" \notin Terminal
      /\ r.owner \in Watchers => r.attempt > 0
      /\ NoOwner \notin Watchers /\ Operators \subseteq Owners /\ MaxAttempts \in Nat
      /\ \A o \in Operators : o \notin Watchers
  BY OwnersApart, ProcessingAssumption DEF RowOK, Row, Terminal
<1>2. \A s \in Terminal : RowOK(Ended(r, s))
  BY <1>1, RowMoved DEF RowOK, IsRow
<1>6. ASSUME NEW s \in Terminal, NEW p \in Places \cup {Nowhere}
      PROVE  RowOK([Ended(r, s) EXCEPT !.path = p])
  <2> DEFINE q == [Ended(r, s) EXCEPT !.path = p]
  <2>1. IsRow(q, s, "terminal", NoOwner, 0, r.attempt, r.decision, r.action, p)
    BY <1>1, RowMoved
  <2> HIDE DEF q
  <2>2. RowOK(q)
    BY <1>1, <2>1 DEF RowOK, IsRow
  <2> QED BY <2>2 DEF q
<1>7. RowOK(Moved(r, "processing")) /\ RowOK(Renewed(r))
  BY <1>1, RowMoved DEF RowOK, IsRow
<1>3. /\ r.attempt < MaxAttempts => \A w \in Owners : RowOK(Acquired(r, w))
      /\ \A d \in Decisions : RowOK(Delivering(r, d))
  BY <1>1, RowMoved DEF RowOK, IsRow
<1>4. RowOK(Retried(r)) /\ RowOK(Published(r)) /\ RowOK(Dismissed(r))
  BY <1>1, RowTaken DEF RowOK, IsRow
<1>5. /\ \A o \in Operators : RowOK(Requested(r, o))
      /\ \A p \in Places : RowOK(PublishFailed(r, p))
  BY <1>1, RowTaken DEF RowOK, IsRow
<1> QED BY <1>2, <1>3, <1>4, <1>5, <1>6, <1>7

\* There is a first row, and it is like a new receipt.
LEMMA FirstRows ==
  /\ RowOK(NoRow)
  /\ \A file \in Uploads : RowOK(Receipt(file)) /\ Receipt(file).state = "received"
<1>1. FullLease \in Nat /\ 0 \in 0..FullLease /\ 0 <= MaxAttempts /\ NoOwner \notin Watchers
  BY ProcessingAssumption, OwnersApart DEF FullLease
<1>2. NoRow \in Row
  BY <1>1 DEF NoRow, Row, Phases
<1>3. RowOK(NoRow)
  BY <1>1, <1>2 DEF RowOK, NoRow
<1>4. ASSUME NEW file \in Uploads PROVE RowOK(Receipt(file)) /\ Receipt(file).state = "received"
  <2>1. Receipt(file) \in Row
    BY <1>2, <1>4 DEF Receipt, NoRow, Row, Open, Places
  <2> QED BY <1>1, <2>1 DEF Receipt, RowOK, NoRow
<1> QED BY <1>3, <1>4

\* Time, and the death of an owner, leave a row as it is otherwise.
LEMMA RowsAge ==
  ASSUME NEW r, RowOK(r), NEW o \in Watchers \cup Operators
  PROVE  /\ RowOK(Older(r))
         /\ RowOK([r EXCEPT !.owner  = IF @ = o THEN Dead ELSE @,
                            !.action = IF @ = o THEN Dead ELSE @])
<1>1. r \in Row /\ r.attempt \in Nat
  BY DEF RowOK, Row
<1>2. RowOK(Older(r))
  BY <1>1, RowTaken DEF RowOK, IsRow
<1>3. RowOK([r EXCEPT !.owner  = IF @ = o THEN Dead ELSE @,
                      !.action = IF @ = o THEN Dead ELSE @])
  <2> DEFINE owner == IF r.owner = o THEN Dead ELSE r.owner
             action == IF r.action = o THEN Dead ELSE r.action
             q == [r EXCEPT !.owner = owner, !.action = action]
  <2>1. owner \in Owners \cup {NoOwner} /\ action \in Owners \cup {NoOwner}
    BY <1>1, OwnersApart DEF Row
  <2>2. owner \in Watchers => r.owner \in Watchers
    BY OwnersApart
  <2>3. r.owner = NoOwner => owner = NoOwner
    BY OwnersApart
  <2> HIDE DEF owner, action
  <2>4. q \in Row
    BY <1>1, <2>1 DEF Row
  <2>5. q.owner = owner /\ q.attempt = r.attempt /\ q.state = r.state
    BY <1>1, <2>4 DEF Row
  <2>6. RowOK(q)
    BY <1>1, <2>2, <2>3, <2>4, <2>5 DEF RowOK
  <2> QED BY <2>6 DEF owner, action
<1> QED BY <1>2, <1>3

\* The updates of a reservation keep it well formed.
LEMMA PolicyUpdates ==
  ASSUME NEW p \in Policy!PolicyRow
  PROVE  /\ Policy!Released(p) \in Policy!PolicyRow
         /\ Policy!MarkedUncertain(p) \in Policy!PolicyRow
         /\ Policy!Committed(p) \in Policy!PolicyRow
         /\ Policy!GivenUp(p) \in Policy!PolicyRow
         /\ Policy!Elapsed(p) \in Policy!PolicyRow
         /\ \A d \in Decisions : Policy!Reserved(p, d, WindowTicks) \in Policy!PolicyRow
<1> USE DEF Policy!PolicyRow, Policy!Holders, Policy!ReservationStates
<1>1. Policy!Released(p) \in Policy!PolicyRow /\ Policy!GivenUp(p) \in Policy!PolicyRow
  BY DEF Policy!Released, Policy!GivenUp
<1>2. Policy!MarkedUncertain(p) \in Policy!PolicyRow
  BY DEF Policy!MarkedUncertain
<1>3. Policy!Committed(p) \in Policy!PolicyRow
  BY DEF Policy!Committed, Policy!FreshRow
<1>4. Policy!Elapsed(p) \in Policy!PolicyRow
  BY DEF Policy!Elapsed
<1>5. ASSUME NEW d \in Decisions PROVE Policy!Reserved(p, d, WindowTicks) \in Policy!PolicyRow
  BY ProcessingAssumption DEF Policy!Reserved
<1> QED BY <1>1, <1>2, <1>3, <1>4, <1>5

\* So do the transactions over all reservations of an event or a decision.
LEMMA PolicyTables ==
  ASSUME policy \in [Scopes -> Policy!PolicyRow], NEW c, NEW d, NEW given \in BOOLEAN
  PROVE  /\ OfEvent(c, Policy!Released) \in [Scopes -> Policy!PolicyRow]
         /\ OfEvent(c, Policy!MarkedUncertain) \in [Scopes -> Policy!PolicyRow]
         /\ OfEvent(c, Policy!GivenUp) \in [Scopes -> Policy!PolicyRow]
         /\ OfEvent(c, LAMBDA p : IF given THEN Policy!GivenUp(p) ELSE p) \in [Scopes -> Policy!PolicyRow]
         /\ OfDecision(d, Policy!Released) \in [Scopes -> Policy!PolicyRow]
         /\ OfDecision(d, Policy!MarkedUncertain) \in [Scopes -> Policy!PolicyRow]
         /\ OfDecision(d, Policy!Committed) \in [Scopes -> Policy!PolicyRow]
<1>1. /\ OfEvent(c, Policy!Released) \in [Scopes -> Policy!PolicyRow]
      /\ OfEvent(c, Policy!MarkedUncertain) \in [Scopes -> Policy!PolicyRow]
      /\ OfEvent(c, Policy!GivenUp) \in [Scopes -> Policy!PolicyRow]
      /\ OfEvent(c, LAMBDA p : IF given THEN Policy!GivenUp(p) ELSE p) \in [Scopes -> Policy!PolicyRow]
  BY PolicyUpdates DEF OfEvent
<1>2. /\ OfDecision(d, Policy!Released) \in [Scopes -> Policy!PolicyRow]
      /\ OfDecision(d, Policy!MarkedUncertain) \in [Scopes -> Policy!PolicyRow]
      /\ OfDecision(d, Policy!Committed) \in [Scopes -> Policy!PolicyRow]
  BY PolicyUpdates DEF OfDecision
<1> QED BY <1>1, <1>2

\* One process, one row, or one file changes at a time.
LEMMA WatcherGoes ==
  ASSUME WatchersOK, NEW w \in Watchers, NEW r, WatcherOK(r), Goes(w, r)
  PROVE  WatchersOK'
<1>1. r \in Watching
  BY DEF WatcherOK
<1> QED BY <1>1 DEF WatchersOK, Goes

\* The stages and commands an operator goes to have their type.
LEMMA OperatorTurns ==
  ASSUME CommandsOK, NEW o \in Operators, NEW r, CommandOK(r), Turns(o, r)
  PROVE  CommandsOK'
<1>1. r \in Command
  BY DEF CommandOK
<1> QED BY <1>1 DEF CommandsOK, Turns

\* The rows that a step puts in have theirs.
LEMMA RowChanges ==
  ASSUME RowsOK, NEW c \in Captures, NEW r, RowOK(r), event' = [event EXCEPT ![c] = r]
  PROVE  RowsOK'
<1>1. r \in Row
  BY DEF RowOK
<1> QED BY <1>1 DEF RowsOK

\* A process that is started, or that has turned away from a file.
LEMMA AtRest ==
  /\ WatcherOK(Resting) /\ WatcherOK(Down) /\ WatcherOK([Down EXCEPT !.pc = "recovering"])
  /\ CommandOK(NoCommand)
  /\ \A r : WatcherOK(r) => r.pc \in Stages /\ r.attempt \in 0..MaxAttempts /\ r.face \in Nat
<1>1. 0 \in 0..MaxAttempts
  BY ProcessingAssumption
<1>2. /\ Resting \in Watching /\ Down \in Watching /\ NoCommand \in Command
      /\ [Down EXCEPT !.pc = "recovering"] \in Watching
  BY <1>1 DEF Resting, Down, Watching, Stages, Uploads, Verdicts, NoCommand, Command
<1>3. WatcherOK(Resting) /\ WatcherOK(Down) /\ WatcherOK([Down EXCEPT !.pc = "recovering"])
  BY <1>2 DEF WatcherOK, Resting, Down, Holding, Facing, Calling
<1>4. CommandOK(NoCommand)
  BY <1>2 DEF CommandOK, NoCommand
<1> QED BY <1>3, <1>4 DEF WatcherOK, Watching

\* A watcher that goes on to another stage of what it is at.
LEMMA WatcherGoesOn ==
  ASSUME NEW r, WatcherOK(r)
  PROVE  /\ r.pc \in {"received", "refused"} \cup Holding => r.capture \in Captures
         /\ \A n \in 1..MaxAttempts :
              r.pc = "received" => WatcherOK([r EXCEPT !.pc = "leased", !.attempt = n])
         /\ \A v \in {"uncertain", "duplicate"} :
              r.pc = "received" => WatcherOK([r EXCEPT !.pc = "refused", !.verdict = v])
         /\ \A pc \in {"renewed", "failing"} :
              r.pc \in Holding => WatcherOK([r EXCEPT !.pc = pc])
         /\ r.pc \in Holding => WatcherOK([r EXCEPT !.pc = "scoring", !.face = 1])
         /\ r.pc \in Holding => WatcherOK([r EXCEPT !.pc = "breaking", !.verdict = "broken"])
         /\ r.pc = "breaking" => WatcherOK([r EXCEPT !.pc = "finalizing"])
         /\ \A v \in Endings :
              r.pc \in Holding => WatcherOK([r EXCEPT !.pc = "disposing", !.verdict = v])
         /\ \A p \in Places \cup {Nowhere} :
              r.pc = "disposing" => WatcherOK([r EXCEPT !.pc = "finalizing", !.at = p])
         /\ \A pc \in Facing :
              r.pc \in Holding /\ r.face \in DOMAIN FaceScopes[r.capture]
              => WatcherOK([r EXCEPT !.pc = pc])
         /\ r.pc \in Holding => WatcherOK([r EXCEPT !.pc = "scoring", !.face = @ + 1])
<1>0. /\ r \in Watching /\ r.pc \in Stages /\ r.face \in Nat /\ r.attempt \in 0..MaxAttempts
      /\ MaxAttempts \in Nat /\ r.face + 1 \in Nat /\ r.face + 1 > 0
  BY ProcessingAssumption DEF WatcherOK, Watching
<1> USE <1>0 DEF WatcherOK, Holding, Facing, Calling
<1>1. r.pc \in {"received", "refused"} \cup Holding => r.capture \in Captures
  OBVIOUS
<1>2. ASSUME NEW n \in 1..MaxAttempts, r.pc = "received"
      PROVE  WatcherOK([r EXCEPT !.pc = "leased", !.attempt = n])
  <2>1. n \in 0..MaxAttempts /\ n > 0
    BY <1>2
  <2>2. [r EXCEPT !.pc = "leased", !.attempt = n] \in Watching
    BY <2>1 DEF Watching, Stages
  <2> QED BY <1>2, <2>1, <2>2 DEF Watching
<1>3. ASSUME NEW v \in {"uncertain", "duplicate"}, r.pc = "received"
      PROVE  WatcherOK([r EXCEPT !.pc = "refused", !.verdict = v])
  BY <1>3 DEF Watching, Stages, Verdicts
<1>4. ASSUME NEW pc \in {"renewed", "failing"}, r.pc \in Holding
      PROVE  WatcherOK([r EXCEPT !.pc = pc])
  BY <1>4 DEF Watching, Stages
<1>5. ASSUME r.pc \in Holding
      PROVE  /\ WatcherOK([r EXCEPT !.pc = "scoring", !.face = 1])
             /\ WatcherOK([r EXCEPT !.pc = "scoring", !.face = r.face + 1])
  <2>1. ASSUME NEW n \in Nat, n > 0 PROVE WatcherOK([r EXCEPT !.pc = "scoring", !.face = n])
    <3>1. [r EXCEPT !.pc = "scoring", !.face = n] \in Watching
      BY <2>1 DEF Watching, Stages
    <3> QED BY <1>5, <2>1, <3>1 DEF Watching
  <2>2. 1 \in Nat /\ 1 > 0
    OBVIOUS
  <2> QED BY <1>0, <2>1, <2>2
<1>6. ASSUME r.pc \in Holding
      PROVE  WatcherOK([r EXCEPT !.pc = "breaking", !.verdict = "broken"])
  BY <1>6 DEF Watching, Stages, Verdicts
<1>7. ASSUME r.pc = "breaking"
      PROVE  WatcherOK([r EXCEPT !.pc = "finalizing"])
  BY <1>7 DEF Watching, Stages
<1>8. ASSUME NEW v \in Endings, r.pc \in Holding
      PROVE  WatcherOK([r EXCEPT !.pc = "disposing", !.verdict = v])
  BY <1>8 DEF Watching, Stages, Verdicts, Endings
<1>9. ASSUME NEW p \in Places \cup {Nowhere}, r.pc = "disposing"
      PROVE  WatcherOK([r EXCEPT !.pc = "finalizing", !.at = p])
  <2>1. [r EXCEPT !.pc = "finalizing", !.at = p] \in Watching
    BY <1>9 DEF Watching, Stages
  <2> QED BY <1>9, <2>1 DEF Watching
<1>10. ASSUME NEW pc \in Facing, r.pc \in Holding, r.face \in DOMAIN FaceScopes[r.capture]
       PROVE  WatcherOK([r EXCEPT !.pc = pc])
  BY <1>10 DEF Watching, Stages
<1> HIDE DEF WatcherOK, Holding, Facing, Calling
<1> QED BY <1>1, <1>2, <1>3, <1>4, <1>5, <1>6, <1>7, <1>8, <1>9, <1>10

\* Taking an event's lease, or being refused it.
LEMMA LedgeredTypes ==
  ASSUME TypeInv, NEW w \in Watchers, Ledgered(w) PROVE TypeInv'
<1> DEFINE r == watcher[w]
           c == On(w)
<1> USE DEF TypeInv, ledger, delivery, bounds, DeliveriesOK, BoundsOK, CommandsOK
<1>0. /\ WatcherOK(r) /\ RowsOK /\ WatchersOK /\ c = r.capture
      /\ \A e \in Captures : RowOK(event[e]) /\ event[e] \in Row
  BY DEF WatchersOK, RowsOK, On, RowOK
<1>00. r.pc \in {"received", "refused"} \cup Holding => c \in Captures
  BY <1>0, WatcherGoesOn
<1>1. CASE Acquire(w)
  <2> DEFINE found == Finds(event[c], w)
             n == event'[c].attempt
  <2>1. r.pc = "received" /\ c \in Captures /\ found \in {"free", "owned"}
    BY <1>00, <1>1 DEF Acquire, At
  <2>2. event[c].state # "absent" /\ (found = "owned" => event[c].owner = w)
    BY <2>1 DEF Finds
  <2> DEFINE q == IF found = "owned" THEN Renewed(event[c]) ELSE Acquired(event[c], w)
  <2>3. RowOK(q) /\ q.attempt > 0
    <3>1. CASE found = "owned"
      BY <1>0, <2>1, <2>2, <3>1, RowsKept, RowMoved DEF RowOK, IsRow
    <3>2. CASE found = "free"
      <4>1. event[c].attempt < MaxAttempts /\ w \in Owners /\ q = Acquired(event[c], w)
        BY <1>1, <3>2, OwnersApart DEF Acquire
      <4>2. RowOK(q)
        BY <1>0, <2>1, <2>2, <4>1, RowsKept
      <4>3. q.attempt = event[c].attempt + 1 /\ event[c].attempt \in Nat
        BY <1>0, <2>1, <4>1, RowMoved DEF IsRow, Row
      <4> QED BY <4>2, <4>3
    <3> QED BY <2>1, <3>1, <3>2
  <2>4. event' = [event EXCEPT ![c] = q]
    BY <1>1 DEF Acquire
  <2>5. RowsOK' /\ n = q.attempt
    BY <1>0, <2>1, <2>3, <2>4, RowChanges DEF RowsOK
  <2>6. n \in 1..MaxAttempts
    BY <2>3, <2>5, ProcessingAssumption DEF RowOK, Row
  <2>7. Goes(w, [r EXCEPT !.pc = "leased", !.attempt = n])
    BY <1>1 DEF Acquire
  <2> HIDE DEF n, q, found
  <2>8. WatchersOK'
    BY <1>0, <2>1, <2>6, <2>7, WatcherGoes, WatcherGoesOn
  <2>9. policy' \in [Scopes -> Policy!PolicyRow]
    <3> DEFINE given == Finds(event[c], w) = "free" /\ Recovering(event[c])
    <3>1. given \in BOOLEAN /\ policy' = OfEvent(c, LAMBDA p : IF given THEN Policy!GivenUp(p) ELSE p)
      BY <1>1 DEF Acquire, Recovering
    <3> HIDE DEF given
    <3> QED BY <3>1, PolicyTables
  <2> QED BY <1>1, <2>5, <2>8, <2>9 DEF Acquire
<1>2. CASE AcquireAmbiguous(w)
  <2>1. r.pc = "received" /\ c \in Captures /\ event[c].state # "absent"
    BY <1>00, <1>2 DEF AcquireAmbiguous, At, Finds
  <2>2. RowOK(Ended(event[c], "uncertain"))
    BY <1>0, <2>1, RowsKept DEF Terminal
  <2>3. RowsOK'
    BY <1>0, <1>2, <2>1, <2>2, RowChanges DEF AcquireAmbiguous
  <2>4. WatchersOK'
    BY <1>0, <1>2, <2>1, WatcherGoes, WatcherGoesOn DEF AcquireAmbiguous
  <2>5. policy' \in [Scopes -> Policy!PolicyRow]
    BY <1>2, PolicyTables DEF AcquireAmbiguous
  <2>6. job' \in [Decisions -> JobStates]
    BY <1>2 DEF AcquireAmbiguous, Doubted, Doubtful, JobStates
  <2> QED BY <1>2, <2>3, <2>4, <2>5, <2>6 DEF AcquireAmbiguous
<1>3. CASE AcquireRefused(w)
  <2>1. r.pc = "received"
    BY <1>3 DEF AcquireRefused, At
  <2>2. WatchersOK'
    BY <1>0, <1>3, <2>1, AtRest, WatcherGoes, WatcherGoesOn DEF AcquireRefused
  <2> QED BY <1>3, <2>2 DEF AcquireRefused, RowsOK
<1>4. CASE TurnAway(w)
  <2>1. WatchersOK'
    BY <1>0, <1>4, AtRest, WatcherGoes DEF TurnAway
  <2>2. media' \in [Captures -> SUBSET Places]
    BY <1>4 DEF TurnAway, RejectedFile, Removed, Places
  <2> QED BY <1>4, <2>1, <2>2 DEF TurnAway, RowsOK
<1>5. CASE Renew(w)
  <2>1. r.pc = "leased" /\ c \in Captures /\ event[c].owner = w
    BY <1>00, <1>5 DEF Renew, At, CanRenew, Holding
  <2>2. event[c].state # "absent"
    BY <1>0, <2>1, OwnersApart DEF RowOK
  <2>3. RowsOK'
    BY <1>0, <1>5, <2>1, <2>2, RowsKept, RowChanges DEF Renew
  <2>4. WatchersOK'
    BY <1>0, <1>5, <2>1, WatcherGoes, WatcherGoesOn DEF Renew, Holding
  <2> QED BY <1>5, <2>3, <2>4 DEF Renew
<1>6. CASE RenewRefused(w)
  <2>1. WatchersOK'
    BY <1>0, <1>6, AtRest, WatcherGoes DEF RenewRefused
  <2> QED BY <1>6, <2>1 DEF RenewRefused, RowsOK
<1>7. CASE Advance(w)
  <2>1. r.pc = "renewed" /\ c \in Captures /\ event[c].state # "absent"
    BY <1>00, <1>7 DEF Advance, At, Holding
  <2>2. RowsOK'
    BY <1>0, <1>7, <2>1, RowsKept, RowChanges DEF Advance
  <2>3. WatchersOK'
    BY <1>0, <1>7, <2>1, WatcherGoes, WatcherGoesOn DEF Advance, Holding
  <2> QED BY <1>7, <2>2, <2>3 DEF Advance
<1>8. CASE Fails(w)
  <2>1. r.pc \in Holding
    BY <1>8 DEF Fails, At, Holding
  <2>2. WatchersOK'
    BY <1>0, <1>8, <2>1, WatcherGoes, WatcherGoesOn DEF Fails, Failing
  <2>3. faults' \in 0..MaxFaults
    BY <1>8, ProcessingAssumption DEF Fails, Fault
  <2> QED BY <1>8, <2>2, <2>3 DEF Fails, RowsOK
<1>9. CASE Breaks(w)
  <2>1. r.pc \in Holding
    BY <1>9 DEF Breaks, Holding
  <2>2. WatchersOK'
    BY <1>0, <1>9, <2>1, WatcherGoes, WatcherGoesOn DEF Breaks
  <2>3. faults' \in 0..MaxFaults
    BY <1>9, ProcessingAssumption DEF Breaks, Fault
  <2> QED BY <1>9, <2>2, <2>3 DEF Breaks, RowsOK
<1>10. CASE BreaksOff(w)
  <2>1. WatchersOK'
    BY <1>0, <1>10, WatcherGoes, WatcherGoesOn DEF BreaksOff, At
  <2>2. policy' \in [Scopes -> Policy!PolicyRow]
    BY <1>10, PolicyTables DEF BreaksOff
  <2> QED BY <1>10, <2>1, <2>2 DEF BreaksOff, RowsOK
<1> QED BY <1>1, <1>2, <1>3, <1>4, <1>5, <1>6, <1>7, <1>8, <1>9, <1>10 DEF Ledgered

\* A watcher that is at a face of its event: the face has a scope, and the
\* decision about it an id.
LEMMA AtFace ==
  ASSUME TypeInv, NEW w \in Watchers,
         \/ watcher[w].pc \in Facing
         \/ watcher[w].pc = "scoring" /\ FacesLeft(w)
  PROVE  /\ On(w) \in Captures /\ watcher[w].face \in DOMAIN FaceScopes[On(w)]
         /\ Decision(w) \in Decisions /\ Scope(w) \in Scopes
<1>1. /\ WatcherOK(watcher[w]) /\ watcher[w].attempt \in 1..MaxAttempts /\ On(w) \in Captures
  <2>1. WatcherOK(watcher[w]) /\ watcher[w].pc \in Holding
    BY DEF TypeInv, WatchersOK, Holding
  <2>2. watcher[w].attempt \in 0..MaxAttempts /\ watcher[w].attempt > 0 /\ On(w) \in Captures
    BY <2>1, AtRest DEF WatcherOK, On
  <2> QED BY <2>1, <2>2, ProcessingAssumption
<1>2. FaceScopes[On(w)] \in Seq(Scopes)
  BY <1>1, ProcessingAssumption
<1>3. watcher[w].face \in DOMAIN FaceScopes[On(w)]
  <2>1. CASE watcher[w].pc \in Facing
    BY <1>1, <2>1 DEF WatcherOK, On
  <2>2. CASE watcher[w].pc = "scoring" /\ FacesLeft(w)
    <3>1. watcher[w].face \in Nat /\ watcher[w].face > 0 /\ watcher[w].face <= Len(FaceScopes[On(w)])
      BY <1>1, <2>2, AtRest DEF WatcherOK, FacesLeft
    <3>2. watcher[w].face \in 1..Len(FaceScopes[On(w)])
      BY <1>2, <3>1
    <3> QED BY <1>2, <3>2
  <2> QED BY <2>1, <2>2
<1>4. watcher[w].face \in Faces
  BY <1>1, <1>3 DEF Faces
<1>5. Decision(w) \in Decisions
  BY <1>1, <1>4 DEF Decision, Decisions
<1>6. Scope(w) \in Scopes
  BY <1>2, <1>3 DEF Scope
<1> QED BY <1>1, <1>3, <1>5, <1>6

\* Judging a face.
LEMMA JudgedTypes ==
  ASSUME TypeInv, NEW w \in Watchers, Judged(w) PROVE TypeInv'
<1> DEFINE r == watcher[w]
<1> USE DEF TypeInv, ledger, delivery, bounds, DeliveriesOK, BoundsOK, CommandsOK
<1>0. WatcherOK(r) /\ RowsOK /\ WatchersOK
  BY DEF WatchersOK
<1>1. CASE Reject(w)
  <2>1. r.pc \in Holding
    BY <1>1 DEF Reject, At, Holding
  <2>2. WatchersOK'
    BY <1>0, <1>1, <2>1, WatcherGoes, WatcherGoesOn DEF Reject, Disposing, Endings
  <2> QED BY <1>1, <2>2 DEF Reject, RowsOK
<1>2. ASSUME At(w, "scoring"), FacesLeft(w)
      PROVE  /\ WatcherOK(NextFace(w)) /\ WatcherOK([r EXCEPT !.pc = "failing"])
             /\ WatcherOK([r EXCEPT !.pc = "reserved"])
             /\ Decision(w) \in Decisions /\ Scope(w) \in Scopes
  <2>1. r.pc = "scoring" /\ r.pc \in Holding /\ On(w) = r.capture /\ "reserved" \in Facing
    BY <1>2 DEF At, Holding, On, Facing
  <2>2. r.face \in DOMAIN FaceScopes[r.capture] /\ Decision(w) \in Decisions /\ Scope(w) \in Scopes
    BY <1>2, <2>1, AtFace
  <2> QED BY <1>0, <2>1, <2>2, WatcherGoesOn DEF NextFace
<1>3. CASE Unaccepted(w)
  <2>1. WatchersOK' /\ Decision(w) \in Decisions
    BY <1>0, <1>2, <1>3, WatcherGoes DEF Unaccepted
  <2> QED BY <1>3, <2>1 DEF Unaccepted, RowsOK
<1>4. CASE DecisionTaken(w)
  <2>1. WatchersOK'
    BY <1>0, <1>2, <1>4, WatcherGoes DEF DecisionTaken, Failing
  <2> QED BY <1>4, <2>1 DEF DecisionTaken, RowsOK
<1>5. CASE Reserve(w)
  <2>1. WatchersOK' /\ Decision(w) \in Decisions /\ Scope(w) \in Scopes
    BY <1>0, <1>2, <1>5, WatcherGoes DEF Reserve
  <2>2. policy' \in [Scopes -> Policy!PolicyRow]
    BY <1>5, <2>1, PolicyUpdates DEF Reserve
  <2> QED BY <1>5, <2>1, <2>2 DEF Reserve, RowsOK
<1>6. CASE Suppress(w)
  <2>1. WatchersOK' /\ Decision(w) \in Decisions /\ Scope(w) \in Scopes
    BY <1>0, <1>2, <1>6, WatcherGoes DEF Suppress
  <2>2. policy' \in [Scopes -> Policy!PolicyRow]
    BY <1>6, <2>1, PolicyUpdates DEF Suppress
  <2> QED BY <1>6, <2>1, <2>2 DEF Suppress, RowsOK
<1> QED BY <1>1, <1>3, <1>4, <1>5, <1>6 DEF Judged

\* Reserving, recording and delivering a decision.
LEMMA SubmittedTypes ==
  ASSUME TypeInv, NEW w \in Watchers, Submitted(w) PROVE TypeInv'
<1> DEFINE r == watcher[w]
           c == On(w)
           d == Decision(w)
<1> USE DEF TypeInv, ledger, delivery, bounds, DeliveriesOK, BoundsOK, CommandsOK
<1>0. WatcherOK(r) /\ RowsOK /\ WatchersOK /\ r.pc \in Facing /\ r.pc \in Holding /\ r.capture = c
  BY DEF WatchersOK, Submitted, Persist, PersistFails, Begin, BeginFails, Call, Raised, Doubt,
         DoubtFails, MarkDelivered, MarkDeliveredFails, Commit, CommitFails, At, Facing, Calling,
         Holding, On
<1>00. /\ c \in Captures /\ d \in Decisions /\ r.face \in DOMAIN FaceScopes[r.capture]
       /\ RowOK(event[c]) /\ event[c] \in Row
  BY <1>0, AtFace DEF RowsOK
<1>01. /\ \A pc \in Facing : WatcherOK([r EXCEPT !.pc = pc])
       /\ WatcherOK([r EXCEPT !.pc = "failing"]) /\ WatcherOK(NextFace(w))
       /\ \A v \in Endings : WatcherOK([r EXCEPT !.pc = "disposing", !.verdict = v])
  BY <1>0, <1>00, WatcherGoesOn DEF NextFace
<1>02. /\ OfDecision(d, Policy!Released) \in [Scopes -> Policy!PolicyRow]
       /\ OfDecision(d, Policy!MarkedUncertain) \in [Scopes -> Policy!PolicyRow]
       /\ OfDecision(d, Policy!Committed) \in [Scopes -> Policy!PolicyRow]
  BY PolicyTables
<1>03. Doubted(d) \in [Decisions -> JobStates]
  BY DEF Doubted, Doubtful, JobStates
<1>1. CASE Persist(w)
  <2>1. WatcherOK([NextFace(w) EXCEPT !.queued = TRUE])
    BY <1>01 DEF WatcherOK, Watching
  <2>2. WatchersOK'
    <3> DEFINE to == IF WorkerMode THEN [NextFace(w) EXCEPT !.queued = TRUE]
                                   ELSE [r EXCEPT !.pc = "persisted"]
    <3>1. WatcherOK(to) /\ Goes(w, to)
      BY <1>01, <1>1, <2>1 DEF Persist, Facing
    <3> HIDE DEF to
    <3> QED BY <1>0, <3>1, WatcherGoes
  <2>3. job' \in [Decisions -> JobStates]
    BY <1>00, <1>1 DEF Persist, JobStates
  <2> QED BY <1>00, <1>1, <2>2, <2>3 DEF Persist, RowsOK
<1>2. CASE PersistFails(w)
  <2>1. WatchersOK'
    BY <1>0, <1>01, <1>2, WatcherGoes DEF PersistFails, Failing
  <2>2. faults' \in 0..MaxFaults
    BY <1>2, ProcessingAssumption DEF PersistFails, Refused, Fault
  <2> QED BY <1>02, <1>2, <2>1, <2>2 DEF PersistFails, RowsOK
<1>3. CASE Begin(w)
  <2>1. event[c].state # "absent"
    BY <1>00, <1>3, OwnersApart DEF Begin, CanBegin, RowOK
  <2>2. RowsOK'
    BY <1>0, <1>00, <1>3, <2>1, RowsKept, RowChanges DEF Begin
  <2>3. WatchersOK'
    BY <1>0, <1>01, <1>3, WatcherGoes DEF Begin, Facing, Calling
  <2>4. job' \in [Decisions -> JobStates]
    BY <1>00, <1>3 DEF Begin, JobStates
  <2> QED BY <1>3, <2>2, <2>3, <2>4 DEF Begin
<1>4. CASE BeginFails(w)
  <2>1. WatchersOK'
    BY <1>0, <1>01, <1>4, WatcherGoes DEF BeginFails, Failing
  <2>2. faults' \in 0..MaxFaults
    BY <1>4, ProcessingAssumption DEF BeginFails, Refused, Fault
  <2> QED BY <1>02, <1>4, <2>1, <2>2 DEF BeginFails, RowsOK
<1>5. CASE Call(w)
  <2>1. WatchersOK'
    BY <1>0, <1>01, <1>5, WatcherGoes DEF Call, Facing, Calling
  <2>2. docs' \subseteq sent' /\ sent' \subseteq Decisions
    BY <1>00, <1>5 DEF Call
  <2> QED BY <1>5, <2>1, <2>2 DEF Call, RowsOK
<1>6. CASE Raised(w)
  <2>1. WatchersOK'
    BY <1>0, <1>01, <1>6, WatcherGoes DEF Raised, Facing, Calling
  <2>2. faults' \in 0..MaxFaults
    BY <1>6, ProcessingAssumption DEF Raised, Fault
  <2> QED BY <1>03, <1>6, <2>1, <2>2 DEF Raised, RowsOK
<1>7. CASE Doubt(w)
  <2>1. WatchersOK'
    BY <1>0, <1>01, <1>7, WatcherGoes DEF Doubt, Failing, Disposing, Endings
  <2> QED BY <1>02, <1>7, <2>1 DEF Doubt, RowsOK
<1>8. CASE MarkDelivered(w)
  <2>1. WatchersOK'
    BY <1>0, <1>01, <1>8, WatcherGoes DEF MarkDelivered, Facing, Calling
  <2>2. job' \in [Decisions -> JobStates]
    BY <1>00, <1>8 DEF MarkDelivered, JobStates
  <2> QED BY <1>8, <2>1, <2>2 DEF MarkDelivered, RowsOK
<1>9. CASE MarkDeliveredFails(w)
  <2>1. WatchersOK'
    BY <1>0, <1>01, <1>9, WatcherGoes DEF MarkDeliveredFails, Facing, Calling
  <2>2. faults' \in 0..MaxFaults
    BY <1>9, ProcessingAssumption DEF MarkDeliveredFails, Refused, Fault
  <2> QED BY <1>03, <1>9, <2>1, <2>2 DEF MarkDeliveredFails, RowsOK
<1>10. CASE Commit(w)
  <2>1. WatcherOK([NextFace(w) EXCEPT !.made = TRUE])
    BY <1>01 DEF WatcherOK, Watching
  <2>2. WatchersOK'
    BY <1>0, <1>10, <2>1, WatcherGoes DEF Commit
  <2> QED BY <1>02, <1>10, <2>2 DEF Commit, RowsOK
<1>11. CASE CommitFails(w)
  <2>1. WatchersOK'
    BY <1>0, <1>01, <1>11, WatcherGoes DEF CommitFails, Facing, Calling
  <2>2. faults' \in 0..MaxFaults
    BY <1>11, ProcessingAssumption DEF CommitFails, Refused, Fault
  <2> QED BY <1>11, <2>1, <2>2 DEF CommitFails, RowsOK
<1>12. CASE DoubtFails(w)
  <2>1. WatchersOK'
    BY <1>0, <1>01, <1>12, WatcherGoes DEF DoubtFails, Failing, Disposing, Endings
  <2>2. faults' \in 0..MaxFaults
    BY <1>12, ProcessingAssumption DEF DoubtFails, Fault
  <2> QED BY <1>12, <2>1, <2>2 DEF DoubtFails, RowsOK
<1> QED BY <1>1, <1>2, <1>3, <1>4, <1>5, <1>6, <1>7, <1>8, <1>9, <1>10, <1>11, <1>12
       DEF Submitted

\* Ending an event and disposing of its file.
LEMMA ClosedTypes ==
  ASSUME TypeInv, NEW w \in Watchers, Closed(w) PROVE TypeInv'
<1> DEFINE r == watcher[w]
           c == On(w)
<1> USE DEF TypeInv, ledger, delivery, bounds, DeliveriesOK, BoundsOK, CommandsOK
<1>0. WatcherOK(r) /\ RowsOK /\ WatchersOK /\ r.pc \in Holding /\ r.capture = c
  BY DEF WatchersOK, Closed, Release, ReleaseFails, AllScored, Dispose, Finalize, FinalizeFails,
         At, Holding, On
<1>00. c \in Captures /\ RowOK(event[c]) /\ r.file \in Uploads
  BY <1>0, WatcherGoesOn DEF RowsOK, WatcherOK, Watching
<1>1. CASE Release(w)
  <2>1. WatchersOK'
    BY <1>0, <1>1, WatcherGoes, WatcherGoesOn DEF Release, Disposing, Endings
  <2> QED BY <1>1, <2>1, PolicyTables DEF Release, RowsOK
<1>2. CASE AllScored(w)
  <2>1. WatchersOK'
    BY <1>0, <1>2, WatcherGoes, WatcherGoesOn DEF AllScored, Disposing, Endings
  <2> QED BY <1>2, <2>1 DEF AllScored, RowsOK
<1>3. CASE Dispose(w)
  <2>1. PICK at \in Places \cup {Nowhere} : Goes(w, [r EXCEPT !.pc = "finalizing", !.at = at])
    BY <1>00, <1>3 DEF Dispose, RejectedTo, Places
  <2>2. WatchersOK'
    BY <1>0, <1>3, <2>1, WatcherGoes, WatcherGoesOn DEF Dispose, At
  <2>3. media' \in [Captures -> SUBSET Places]
    BY <1>00, <1>3 DEF Dispose, RejectedFile, Removed, Places
  <2> QED BY <1>3, <2>2, <2>3 DEF Dispose, RowsOK
<1>4. ASSUME NEW rows, rows \in [Captures -> Row], \A e \in Captures : RowOK(rows[e]), Closing(w, rows)
      PROVE  RowsOK' /\ WatchersOK'
  <2>1. CASE r.verdict = "broken"
    <3>1. event' = Orphans(rows, w)
      BY <1>4, <2>1 DEF Closing
    <3>2. WatchersOK'
      BY <1>0, <1>4, <2>1, AtRest, WatcherGoes DEF Closing
    <3> DEFINE q(e) == [rows[e] EXCEPT !.owner  = IF @ = w THEN Dead ELSE @,
                                       !.action = IF @ = w THEN Dead ELSE @]
    <3>3. \A e \in Captures : RowOK(q(e))
      BY <1>4, RowsAge
    <3>4. event' = [e \in Captures |-> q(e)]
      BY <3>1 DEF Orphans
    <3> HIDE DEF q
    <3>5. RowsOK'
      BY <3>3, <3>4 DEF RowsOK, RowOK
    <3> QED BY <3>2, <3>5
  <2>2. CASE r.verdict # "broken"
    <3>1. event' = rows /\ Goes(w, Resting)
      BY <1>4, <2>2 DEF Closing
    <3>2. WatchersOK'
      BY <1>0, <3>1, AtRest, WatcherGoes
    <3> QED BY <1>4, <3>1, <3>2 DEF RowsOK
  <2> QED BY <2>1, <2>2
<1>5. CASE Finalize(w)
  <2>1. event[c].state # "absent" /\ event[c].owner = w
    BY <1>00, <1>5, OwnersApart DEF Finalize, CanFinalize, RowOK
  <2>2. r.verdict \in Endings \cup {"broken"} /\ r.at \in Places \cup {Nowhere}
    BY <1>0, <1>5 DEF Finalize, At, WatcherOK, Watching
  <2>3. RowOK(Final(w, event[c]))
    BY <1>00, <2>1, <2>2, RowsKept DEF Final, Endings, Terminal
  <2> DEFINE rows == [event EXCEPT ![c] = Final(w, event[c])]
  <2>4. rows \in [Captures -> Row] /\ \A e \in Captures : RowOK(rows[e])
    BY <1>0, <1>00, <2>3 DEF RowsOK, RowOK
  <2>5. Closing(w, rows)
    BY <1>5 DEF Finalize
  <2> HIDE DEF rows
  <2>6. RowsOK' /\ WatchersOK'
    BY <1>4, <2>4, <2>5
  <2> QED BY <1>5, <2>6 DEF Finalize
<1>6. CASE FinalizeFails(w)
  <2>1. RowsOK' /\ WatchersOK'
    BY <1>0, <1>4, <1>6 DEF FinalizeFails, RowsOK
  <2>2. faults' \in 0..MaxFaults
    BY <1>6, ProcessingAssumption DEF FinalizeFails, Refused, Fault
  <2> QED BY <1>6, <2>1, <2>2 DEF FinalizeFails
<1>7. CASE ReleaseFails(w)
  <2>1. WatchersOK'
    BY <1>0, <1>7, WatcherGoes, WatcherGoesOn DEF ReleaseFails
  <2>2. faults' \in 0..MaxFaults
    BY <1>7, ProcessingAssumption DEF ReleaseFails, Fault
  <2> QED BY <1>7, <2>1, <2>2 DEF ReleaseFails, RowsOK
<1> QED BY <1>1, <1>2, <1>3, <1>5, <1>6, <1>7 DEF Closed

\* The death of a process renames its leases.
LEMMA OrphansTypes ==
  ASSUME RowsOK, NEW o \in Watchers \cup Operators, event' = Orphans(event, o)
  PROVE  RowsOK'
<1> DEFINE q(e) == [event[e] EXCEPT !.owner  = IF @ = o THEN Dead ELSE @,
                                    !.action = IF @ = o THEN Dead ELSE @]
<1>1. \A e \in Captures : RowOK(q(e))
  BY RowsAge DEF RowsOK
<1>2. event' = [e \in Captures |-> q(e)]
  BY DEF Orphans
<1> HIDE DEF q
<1> QED BY <1>1, <1>2 DEF RowsOK, RowOK

\* A crash, a restart and what it recovers.
LEMMA StartedTypes ==
  ASSUME TypeInv, NEW w \in Watchers, Started(w) \/ Crash(w) PROVE TypeInv'
<1> USE DEF TypeInv, ledger, delivery, bounds, DeliveriesOK, BoundsOK, CommandsOK
<1>0. WatchersOK /\ RowsOK
  OBVIOUS
<1>1. CASE Crash(w)
  <2>1. WatchersOK' /\ RowsOK'
    BY <1>0, <1>1, AtRest, WatcherGoes, OrphansTypes DEF Crash
  <2>2. todo' \in [Watchers -> [Captures -> Chores]]
    BY <1>1 DEF Crash, NothingToDo, Chores
  <2>3. faults' \in 0..MaxFaults
    BY <1>1, ProcessingAssumption DEF Crash, Fault
  <2> QED BY <1>1, <2>1, <2>2, <2>3 DEF Crash
<1>2. CASE Restart(w)
  <2>1. WatchersOK'
    BY <1>0, <1>2, AtRest, WatcherGoes DEF Restart
  <2>2. \A c \in Captures : event[c].path \in Places \cup {Nowhere}
    BY <1>0 DEF RowsOK, Row
  <2>3. media' \in [Captures -> SUBSET Places]
    BY <1>2, <2>2 DEF Restart, Orphaned
  <2> QED BY <1>2, <2>1, <2>3 DEF Restart, RowsOK
<1>3. CASE Recover(w)
  <2>1. WatchersOK'
    BY <1>0, <1>3, AtRest, WatcherGoes DEF Recover
  <2>2. todo' \in [Watchers -> [Captures -> Chores]]
    BY <1>3 DEF Recover, Chores
  <2>3. job' \in [Decisions -> JobStates]
    BY <1>3 DEF Recover, Doubtful, JobStates
  <2>4. policy' \in [Scopes -> Policy!PolicyRow]
    BY <1>3, PolicyUpdates DEF Recover
  <2>5. ASSUME NEW c \in Captures PROVE RowOK(event'[c])
    <3>1. InDoubt(c) \/ ToRetry(c) => event[c].state # "absent"
      BY DEF InDoubt, ToRetry, Abandoned, Open
    <3>2. RowOK(event[c])
      BY <1>0 DEF RowsOK
    <3>3. \/ InDoubt(c) /\ event'[c] = Ended(event[c], "uncertain")
          \/ ToRetry(c) /\ event'[c] = Retried(event[c])
          \/ event'[c] = event[c]
      BY <1>3 DEF Recover
    <3> QED BY <3>1, <3>2, <3>3, RowsKept DEF Terminal
  <2>6. \E f : event' = [c \in Captures |-> f[c]]
    <3> DEFINE f == [c \in Captures |-> CASE InDoubt(c) -> Ended(event[c], "uncertain")
                                          [] ToRetry(c) -> Retried(event[c])
                                          [] OTHER      -> event[c]]
    <3>1. event' = f
      BY <1>3 DEF Recover
    <3>2. f = [c \in Captures |-> f[c]]
      OBVIOUS
    <3> HIDE DEF f
    <3> QED BY <3>1, <3>2
  <2>7. RowsOK'
    BY <2>5, <2>6 DEF RowsOK, RowOK
  <2> QED BY <1>3, <2>1, <2>2, <2>3, <2>4, <2>7 DEF Recover
<1> QED BY <1>1, <1>2, <1>3 DEF Started

\* What is left of the recovery of an event, and the poll of a file.
LEMMA RecoveredTypes ==
  ASSUME TypeInv, NEW w \in Watchers, NEW c \in Captures,
         Recovered(w, c) \/ \E file \in Uploads : Polled(w, c, file)
  PROVE  TypeInv'
<1> USE DEF TypeInv, ledger, delivery, bounds, DeliveriesOK, BoundsOK, CommandsOK
<1>0. /\ WatchersOK /\ RowsOK /\ RowOK(event[c]) /\ event[c].path \in Places \cup {Nowhere}
      /\ Recorded(c) \in Places
  BY DEF RowsOK, Row, Recorded, Places, Uploads
<1>1. Done(w, c) => todo' \in [Watchers -> [Captures -> Chores]]
  BY DEF Done, Chores
<1>2. CASE RetryReady(w, c)
  <2>1. media' \in [Captures -> SUBSET Places]
    BY <1>2 DEF RetryReady, Places, Uploads
  <2> QED BY <1>1, <1>2, <2>1 DEF RetryReady, RowsOK, WatchersOK
<1>3. CASE RetryMissing(w, c)
  <2>1. CASE event[c].state \in Open
    <3>1. RowOK(Ended(event[c], "failed"))
      BY <1>0, <2>1, RowsKept DEF Open, Terminal
    <3>2. RowsOK' /\ policy' \in [Scopes -> Policy!PolicyRow]
      BY <1>0, <1>3, <2>1, <3>1, RowChanges, PolicyTables DEF RetryMissing
    <3> QED BY <1>1, <1>3, <3>2 DEF RetryMissing, WatchersOK
  <2>2. CASE event[c].state \notin Open
    BY <1>1, <1>3, <2>2 DEF RetryMissing, RowsOK, WatchersOK
  <2> QED BY <2>1, <2>2
<1>4. CASE RetainDoubtful(w, c)
  <2>1. media' \in [Captures -> SUBSET Places]
    BY <1>0, <1>4 DEF RetainDoubtful, RejectedFile, Places
  <2>2. todo' \in [Watchers -> [Captures -> Chores]]
    BY <1>4 DEF RetainDoubtful, Chores
  <2> QED BY <1>4, <2>1, <2>2 DEF RetainDoubtful, RowsOK, WatchersOK
<1>5. CASE RecordRetention(w, c)
  <2>1. CASE event[c].state = "absent"
    <3>1. event' = [event EXCEPT ![c] = event[c]]
      BY <1>5, <2>1 DEF RecordRetention
    <3>2. RowsOK'
      BY <1>0, <3>1, RowChanges
    <3> QED BY <1>1, <1>5, <3>2 DEF RecordRetention, WatchersOK
  <2>2. CASE event[c].state # "absent"
    <3> DEFINE p == IF Quarantines THEN "kept" ELSE event[c].path
               q == UncertainAt(event[c], p)
    <3>1. p \in Places \cup {Nowhere} /\ "uncertain" \in Terminal
      BY <1>0 DEF Places, Terminal
    <3>2. event' = [event EXCEPT ![c] = q]
      BY <1>5, <2>2 DEF RecordRetention
    <3> HIDE DEF p
    <3>3. RowOK(q)
      BY <1>0, <2>2, <3>1, RowsKept DEF UncertainAt
    <3> HIDE DEF q
    <3>4. RowsOK'
      BY <1>0, <3>2, <3>3, RowChanges
    <3> QED BY <1>1, <1>5, <3>4 DEF RecordRetention, WatchersOK
  <2> QED BY <2>1, <2>2
<1>6. ASSUME NEW file \in Uploads, Receive(w, c, file) PROVE TypeInv'
  <2>1. WatcherOK([Resting EXCEPT !.pc = "received", !.capture = c, !.file = file])
    <3>0. Resting \in Watching /\ "received" \in Stages
      BY AtRest DEF WatcherOK, Stages
    <3>1. [Resting EXCEPT !.pc = "received", !.capture = c, !.file = file] \in Watching
      BY <3>0, <1>6 DEF Watching
    <3> QED BY <3>1 DEF WatcherOK, Resting, Holding, Facing, Calling
  <2>2. WatchersOK'
    BY <1>0, <1>6, <2>1, WatcherGoes DEF Receive
  <2>3. RowsOK'
    <3> DEFINE q == IF event[c].state = "absent" THEN Receipt(file) ELSE event[c]
    <3>1. RowOK(q)
      BY <1>0, FirstRows
    <3>2. event' = [event EXCEPT ![c] = q]
      BY <1>6 DEF Receive
    <3> HIDE DEF q
    <3> QED BY <1>0, <3>1, <3>2, RowChanges
  <2> QED BY <1>6, <2>2, <2>3 DEF Receive
<1>7. ASSUME NEW file \in Uploads, Replay(w, c, file) PROVE TypeInv'
  BY <1>7 DEF Replay, Removed, processes, RowsOK, WatchersOK
<1> QED BY <1>2, <1>3, <1>4, <1>5, <1>6, <1>7 DEF Recovered, Polled

\* The operator's steps.
LEMMA OperatorTypes ==
  ASSUME TypeInv, NEW o \in Operators,
         \/ Commands(o) \/ OperatorDies(o)
         \/ \E c \in Captures : Stage(o, c) \/ Dismiss(o, c)
  PROVE  TypeInv'
<1> DEFINE r == operator[o]
           c == Subject(o)
<1> USE DEF TypeInv, ledger, delivery, bounds, DeliveriesOK, BoundsOK
<1>0. /\ CommandsOK /\ RowsOK /\ CommandOK(r) /\ c = r.capture
      /\ \A pc \in {"requested", "refused", "published", "rollback", "marking"} :
           r.pc # "idle" => CommandOK([r EXCEPT !.pc = pc])
  BY DEF CommandsOK, CommandOK, Command, Subject
<1>1. r.pc # "idle" => /\ c \in Captures /\ r.from \in Places
                       /\ RowOK(event[c]) /\ event[c] \in Row
  BY <1>0 DEF CommandOK, RowsOK
<1>2. CASE Request(o)
  <2>1. r.pc # "idle" /\ event[c].state # "absent"
    BY <1>2 DEF Request, Does, Reprocessable
  <2>2. RowsOK' /\ CommandsOK' /\ policy' \in [Scopes -> Policy!PolicyRow]
    BY <1>0, <1>1, <1>2, <2>1, RowsKept, RowChanges, OperatorTurns, PolicyTables DEF Request
  <2> QED BY <1>2, <2>2 DEF Request, WatchersOK
<1>3. CASE RequestRefused(o)
  <2>1. r.pc # "idle" /\ CommandsOK'
    BY <1>0, <1>3, OperatorTurns DEF RequestRefused, Does
  <2> QED BY <1>3, <2>1 DEF RequestRefused, WatchersOK, RowsOK
<1>4. CASE Unstage(o)
  <2>1. r.pc # "idle" /\ CommandsOK'
    BY <1>0, <1>4, AtRest, OperatorTurns DEF Unstage, Does
  <2>2. media' \in [Captures -> SUBSET Places]
    BY <1>1, <1>4, <2>1 DEF Unstage
  <2> QED BY <1>4, <2>1, <2>2 DEF Unstage, WatchersOK, RowsOK
<1>5. CASE Publish(o)
  <2>1. r.pc # "idle"
    BY <1>5 DEF Publish, Does
  <2>2. CommandsOK'
    BY <1>0, <1>5, <2>1, OperatorTurns DEF Publish
  <2>3. media' \in [Captures -> SUBSET Places]
    BY <1>1, <1>5, <2>1 DEF Publish, Places, Uploads
  <2> QED BY <1>5, <2>2, <2>3 DEF Publish, WatchersOK, RowsOK
<1>6. CASE Complete(o)
  <2>1. r.pc # "idle"
    BY <1>6 DEF Complete, Does
  <2>2. CommandsOK'
    BY <1>0, <1>6, <2>1, AtRest, OperatorTurns DEF Complete
  <2>3. RowsOK'
    <3>1. CASE CanComplete(event[c], o)
      <4>1. event[c].state # "absent"
        BY <3>1 DEF CanComplete
      <4> QED BY <1>0, <1>1, <1>6, <2>1, <3>1, <4>1, RowsKept, RowChanges DEF Complete
    <3>2. CASE ~CanComplete(event[c], o)
      BY <1>0, <1>6, <3>2 DEF Complete, RowsOK
    <3> QED BY <3>1, <3>2
  <2> QED BY <1>6, <2>2, <2>3 DEF Complete, WatchersOK
<1>7. CASE Rollback(o)
  <2>1. r.pc # "idle"
    BY <1>7 DEF Rollback, Does
  <2>2. CommandsOK'
    BY <1>0, <1>7, <2>1, OperatorTurns DEF Rollback
  <2>3. media' \in [Captures -> SUBSET Places]
    BY <1>1, <1>7, <2>1 DEF Rollback, GoneBack
  <2> QED BY <1>7, <2>2, <2>3 DEF Rollback, WatchersOK, RowsOK
<1>8. CASE MarkFailed(o)
  <2>1. r.pc # "idle"
    BY <1>8 DEF MarkFailed, Does
  <2>2. CommandsOK'
    BY <1>0, <1>8, AtRest, OperatorTurns DEF MarkFailed
  <2>3. RowsOK'
    <3> DEFINE q == IF event[c].state # "absent" /\ CanMarkFailed(event[c], o)
                    THEN PublishFailed(event[c], operator[o].from) ELSE event[c]
    <3>1. RowOK(q)
      BY <1>1, <2>1, RowsKept
    <3>2. event' = [event EXCEPT ![c] = q]
      BY <1>8 DEF MarkFailed
    <3> HIDE DEF q
    <3> QED BY <1>0, <1>1, <2>1, <3>1, <3>2, RowChanges
  <2> QED BY <1>8, <2>2, <2>3 DEF MarkFailed, WatchersOK
<1>9. CASE OperatorDies(o)
  <2>1. CommandsOK' /\ RowsOK'
    BY <1>0, <1>9, AtRest, OperatorTurns, OrphansTypes DEF OperatorDies
  <2>2. faults' \in 0..MaxFaults
    BY <1>9, ProcessingAssumption DEF OperatorDies, Fault
  <2> QED BY <1>9, <2>1, <2>2 DEF OperatorDies, WatchersOK
<1>10. ASSUME NEW e \in Captures, Stage(o, e) PROVE TypeInv'
  <2> DEFINE from == event[e].path
             to == [pc |-> "staged", capture |-> e, from |-> from]
  <2>1. from \in Places
    BY <1>10 DEF Stage
  <2>2. CommandOK(to)
    BY <2>1 DEF CommandOK, Command
  <2>3. Turns(o, to)
    BY <1>10 DEF Stage
  <2>4. media' \in [Captures -> SUBSET Places]
    BY <1>10 DEF Stage, Places
  <2>5. actions' \in 0..MaxActions
    BY <1>10, ProcessingAssumption DEF Stage
  <2> HIDE DEF to
  <2>6. CommandsOK'
    BY <1>0, <2>2, <2>3, OperatorTurns
  <2> QED BY <1>10, <2>4, <2>5, <2>6 DEF Stage, WatchersOK, RowsOK
<1>11. ASSUME NEW e \in Captures, Dismiss(o, e) PROVE TypeInv'
  <2>1. event[e].state # "absent" /\ RowOK(event[e])
    BY <1>0, <1>11 DEF Dismiss, Dismissable, RowsOK
  <2>2. RowsOK' /\ policy' \in [Scopes -> Policy!PolicyRow]
    BY <1>0, <1>11, <2>1, RowsKept, RowChanges, PolicyTables DEF Dismiss
  <2>3. actions' \in 0..MaxActions
    BY <1>11, ProcessingAssumption DEF Dismiss
  <2> QED BY <1>11, <2>2, <2>3 DEF Dismiss, WatchersOK, processes, CommandsOK
<1> QED BY <1>2, <1>3, <1>4, <1>5, <1>6, <1>7, <1>8, <1>9, <1>10, <1>11 DEF Commands

\* The camera, the delivery worker, pruning and time.
LEMMA OtherTypes ==
  ASSUME TypeInv,
         \/ \E c \in Captures : Upload(c)
         \/ \E d \in Decisions : DeliverQueued(d)
         \/ Prune \/ Tick \/ UNCHANGED vars
  PROVE  TypeInv'
<1> USE DEF TypeInv, ledger, delivery, processes, bounds, DeliveriesOK, BoundsOK
<1>1. ASSUME NEW c \in Captures, Upload(c) PROVE TypeInv'
  <2>1. media' \in [Captures -> SUBSET Places]
    BY <1>1 DEF Upload, Places, Uploads
  <2>2. uploads' \in [Captures -> 0..MaxUploads]
    BY <1>1, ProcessingAssumption DEF Upload
  <2> QED BY <1>1, <2>1, <2>2 DEF Upload, WatchersOK, RowsOK, CommandsOK
<1>2. ASSUME NEW d \in Decisions, DeliverQueued(d) PROVE TypeInv'
  <2>1. policy' \in [Scopes -> Policy!PolicyRow]
    <3>1. \/ policy' = OfDecision(d, Policy!Committed)
          \/ policy' = OfDecision(d, Policy!MarkedUncertain)
          \/ policy' = OfDecision(d, Policy!Released)
      BY <1>2 DEF DeliverQueued
    <3> QED BY <3>1, PolicyTables
  <2>2. job' \in [Decisions -> JobStates]
    BY <1>2 DEF DeliverQueued, JobStates
  <2>3. docs' \subseteq sent' /\ sent' \subseteq Decisions
    <3>1. docs' = docs \/ docs' = docs \cup {d}
      BY <1>2 DEF DeliverQueued
    <3>2. sent' = sent \cup {d}
      BY <1>2 DEF DeliverQueued
    <3> QED BY <3>1, <3>2
  <2> QED BY <1>2, <2>1, <2>2, <2>3 DEF DeliverQueued, WatchersOK, RowsOK, CommandsOK
<1>3. CASE Prune
  <2>1. RowsOK'
    <3>1. \A c \in Captures : RowOK(event'[c])
      BY <1>3, FirstRows DEF Prune, RowsOK
    <3>2. event' = [c \in Captures |-> IF Prunable(c) THEN NoRow ELSE event[c]]
      BY <1>3 DEF Prune
    <3>3. event' = [c \in Captures |-> event'[c]]
      BY <3>2
    <3> QED BY <3>1, <3>3 DEF RowsOK, RowOK
  <2> QED BY <1>3, <2>1 DEF Prune, WatchersOK, CommandsOK
<1>4. CASE Tick
  <2>1. RowsOK'
    <3>1. ASSUME NEW r, RowOK(r) PROVE RowOK(Older(r))
      BY <3>1, RowTaken DEF RowOK, IsRow, Row
    <3>2. \A c \in Captures : RowOK(event'[c])
      BY <1>4, <3>1 DEF Tick, RowsOK
    <3>3. event' = [c \in Captures |-> Older(event[c])]
      BY <1>4 DEF Tick
    <3>4. event' = [c \in Captures |-> event'[c]]
      BY <3>3
    <3> QED BY <3>2, <3>4 DEF RowsOK, RowOK
  <2>2. policy' \in [Scopes -> Policy!PolicyRow]
    BY <1>4, PolicyUpdates DEF Tick
  <2> QED BY <1>4, <2>1, <2>2 DEF Tick, WatchersOK, CommandsOK
<1>5. CASE UNCHANGED vars
  BY <1>5 DEF vars, WatchersOK, RowsOK, CommandsOK
<1> QED BY <1>1, <1>2, <1>3, <1>4, <1>5

\* A node that has never received an upload is well formed.
LEMMA TypesInit == Init => TypeInv
<1> SUFFICES ASSUME Init PROVE TypeInv
  OBVIOUS
<1>1. RowsOK
  BY FirstRows DEF Init, RowsOK, RowOK
<1>2. WatchersOK /\ CommandsOK
  BY AtRest DEF Init, WatchersOK, WatcherOK, CommandsOK, CommandOK
<1>3. policy \in [Scopes -> Policy!PolicyRow]
  BY DEF Init, Policy!FreshRow, Policy!PolicyRow, Policy!Holders, Policy!ReservationStates
<1>4. DeliveriesOK /\ todo \in [Watchers -> [Captures -> Chores]]
  BY DEF Init, DeliveriesOK, JobStates, NothingToDo, Chores
<1>5. BoundsOK
  BY ProcessingAssumption DEF Init, BoundsOK
<1> QED BY <1>1, <1>2, <1>3, <1>4, <1>5 DEF TypeInv, Init

\* Every step keeps it well formed.
LEMMA TypesStep == TypeInv /\ [Next]_vars => TypeInv'
BY LedgeredTypes, JudgedTypes, SubmittedTypes, ClosedTypes, StartedTypes, RecoveredTypes,
   OperatorTypes, OtherTypes
   DEF Next, Steps

\* Every variable has its type in every reachable state: in particular no event
\* gets more attempts than the bound, and no lease outlasts its length
\* (acquire_event_lease, renew_event_lease).
THEOREM ProcessingTypeCorrect == Spec => []TypeOK
<1>1. Spec => []TypeInv
  BY TypesInit, TypesStep, PTL DEF Spec
<1> QED BY <1>1, TypeInvTypes, PTL

-----------------------------------------------------------------------------
(***************************************************************************)
(* The lease: while a watcher works at an event, nobody else moves it.     *)
(***************************************************************************)

\* What an unexpired lease gives the watcher that works under it.
Held(w) ==
  LET r == event[On(w)] IN
  /\ r.owner = w /\ r.lease > 1 /\ r.state \in Open
  /\ r.attempt = watcher[w].attempt

\* begin_delivery_attempt was for the face that the watcher is at.
AtBoundary(w) ==
  /\ event[On(w)].phase = "delivery_in_progress"
  /\ event[On(w)].decision = Decision(w)

LeaseInv ==
  \A w \in Watchers :
    /\ watcher[w].pc \in Holding => Held(w)
    /\ watcher[w].pc \in Calling => AtBoundary(w)
    /\ watcher[w].pc \in Holding \cup {"received"} => todo[w] = NothingToDo

\* A recorded event has a tombstone, and its boundary is of its own decision.
LedgerInv ==
  \A c \in Captures :
    /\ event[c].state # "absent" => c \in tombstone
    /\ event[c].decision # NoDecision => event[c].decision.event = c

\* No watcher has been given an event that the startup recovery of another one
\* is still to finish.  With one watcher there is no other.
RecoveryApart ==
  \A v, w \in Watchers :
    v # w /\ watcher[w].pc \in Holding => todo[v][On(w)] = "none"

\* The event was submitted and has not been taken up again.
Past(r) ==
  /\ r.decision # NoDecision
  /\ r.state \in Terminal \/ r.phase = "delivery_in_progress"

\* Whoever works at the event stops with this step.
Freed(c) ==
  \A w \in Watchers :
    watcher[w].pc \in Holding /\ On(w) = c => watcher'[w].pc \notin Holding

\* All that a step may make of the row of an event: its content stays, a first
\* receipt, a new attempt, a delivery, an end, a retry or a request, pruning.
RowBecomes(c, r, q) ==
  \/ /\ q.state = r.state \/ (q.state \in Open /\ r.state \in Open)
     /\ q.phase = r.phase /\ q.attempt = r.attempt /\ q.decision = r.decision
     /\ Freed(c) \/ (q.owner = r.owner /\ (r.lease > 1 => q.lease > 1))
  \/ /\ r.state = "absent" /\ c \notin tombstone /\ c \in tombstone' /\ Freed(c)
     /\ q.state = "received" /\ q.decision = NoDecision
  \/ /\ r.state \in Open /\ ~ActiveLease(r) /\ r.phase # "delivery_in_progress" /\ Freed(c)
     /\ q.state = "processing" /\ q.attempt = r.attempt + 1 /\ q.decision = NoDecision
  \/ \E w \in Watchers :
       /\ watcher[w].pc = "persisted" /\ On(w) = c /\ r.owner = w
       /\ q.owner = w /\ q.lease > 1 /\ q.state = "processing"
       /\ q.phase = "delivery_in_progress" /\ q.attempt = r.attempt
       /\ q.decision = Decision(w)
  \/ /\ r.state # "absent" /\ q.state \in Terminal /\ Freed(c)
     /\ q.attempt = r.attempt /\ q.decision = r.decision
  \/ /\ r.state # "absent" /\ ~CrossedBoundary(r) /\ Freed(c)
     /\ q.state \in Open /\ q.attempt = r.attempt /\ q.decision = NoDecision
  \/ /\ r.state \in Terminal /\ Freed(c)
     /\ q.state = "absent" /\ q.decision = NoDecision

RowStep(c) == RowBecomes(c, event[c], event'[c])

\* An event that no watcher has leased is not worked at.
LEMMA FreeRows ==
  ASSUME LeaseInv, NEW c \in Captures,
         ~ActiveLease(event[c]) \/ event[c].state \notin Open \/ event[c].owner \notin Watchers
  PROVE  Freed(c)
BY OwnersApart DEF LeaseInv, Held, ActiveLease, Freed

\* Of two watchers at work, each has an event of its own.
LEMMA OneHolder ==
  ASSUME LeaseInv, NEW v \in Watchers, NEW w \in Watchers,
         watcher[v].pc \in Holding, watcher[w].pc \in Holding, On(v) = On(w)
  PROVE  v = w
BY DEF LeaseInv, Held

\* A step that changes no row, or one.
LEMMA QuietRows == event' = event => \A c \in Captures : RowStep(c)
BY DEF RowStep, RowBecomes

\* A step that changes one row.
LEMMA OneRow ==
  ASSUME TypeInv, NEW e \in Captures, NEW q, event' = [event EXCEPT ![e] = q],
         RowBecomes(e, event[e], q)
  PROVE  \A c \in Captures : RowStep(c)
<1>1. ASSUME NEW c \in Captures PROVE RowStep(c)
  <2>1. event'[c] = IF c = e THEN q ELSE event[c]
    BY DEF TypeInv, RowsOK
  <2>2. CASE c = e
    BY <2>1, <2>2 DEF RowStep
  <2>3. CASE c # e
    BY <2>1, <2>3 DEF RowStep, RowBecomes
  <2> QED BY <2>2, <2>3
<1> QED BY <1>1

\* The rows of an event whose process died.
LEMMA OrphanedRows ==
  ASSUME TypeInv, NEW o \in Watchers \cup Operators, event' = Orphans(event, o),
         o \in Watchers => watcher'[o].pc \notin Holding, LeaseInv
  PROVE  \A c \in Captures : RowStep(c)
<1>1. ASSUME NEW c \in Captures PROVE RowStep(c)
  <2> DEFINE r == event[c]
             owner == IF r.owner = o THEN Dead ELSE r.owner
             action == IF r.action = o THEN Dead ELSE r.action
  <2>1. r \in Row /\ event'[c] = [r EXCEPT !.owner = owner, !.action = action]
    BY DEF TypeInv, RowsOK, Orphans
  <2>2. owner \in Owners \cup {NoOwner} /\ action \in Owners \cup {NoOwner}
    BY <2>1, OwnersApart DEF Row
  <2>3. r.owner = o => Freed(c)
    BY DEF LeaseInv, Held, Freed
  <2>4. r.owner # o => owner = r.owner
    OBVIOUS
  <2> HIDE DEF owner, action
  <2>5. event'[c] \in Row
    BY <2>1, <2>2 DEF Row
  <2>6. /\ event'[c].state = r.state /\ event'[c].phase = r.phase /\ event'[c].lease = r.lease
        /\ event'[c].attempt = r.attempt /\ event'[c].decision = r.decision
        /\ event'[c].owner = owner
    BY <2>1, <2>2, <2>5 DEF Row
  <2> QED BY <2>3, <2>4, <2>6 DEF RowStep, RowBecomes
<1> QED BY <1>1

\* All that a step may make of a watcher: it stops working or starts at a file;
\* it is given the lease; or it goes on with its event, under the boundary only
\* when it already was, or when the row says so now.
WatcherStep(w) ==
  LET r == watcher[w]
      q == watcher'[w] IN
  \/ q.pc \notin Holding \cup {"received"}
  \/ q.pc = "received" /\ todo'[w] = NothingToDo
  \/ /\ r.pc = "received" /\ q.pc = "leased"
     /\ Held(w)' /\ todo'[w] = todo[w]
  \/ /\ r.pc \in Holding /\ q.pc \in Holding /\ todo'[w] = todo[w]
     /\ q.capture = r.capture /\ q.attempt = r.attempt
     /\ q.pc \in Calling => \/ r.pc \in Calling /\ q.face = r.face
                            \/ AtBoundary(w)'

\* The others do nothing meanwhile.
Alone(w) ==
  \A v \in Watchers \ {w} : watcher'[v] = watcher[v] /\ todo'[v] = todo[v]

\* A watcher that does nothing.
LEMMA WatcherRests ==
  ASSUME LeaseInv, NEW w \in Watchers, watcher'[w] = watcher[w],
         todo'[w] = todo[w] \/ todo'[w] = NothingToDo
  PROVE  WatcherStep(w)
<1>1. CASE watcher[w].pc \notin Holding \cup {"received"}
  BY <1>1 DEF WatcherStep
<1>2. CASE watcher[w].pc \in Holding \cup {"received"}
  <2>1. todo[w] = NothingToDo
    BY <1>2 DEF LeaseInv
  <2> QED BY <1>2, <2>1 DEF WatcherStep
<1> QED BY <1>1, <1>2

\* A watcher that takes its next step leaves the others alone.
LEMMA AloneIs ==
  ASSUME TypeInv, NEW w \in Watchers, NEW r, Goes(w, r), UNCHANGED todo
  PROVE  Alone(w) /\ watcher'[w] = r
BY DEF TypeInv, WatchersOK, Goes, Alone

\* A watcher that goes on to a stage on this side of the boundary.
LEMMA GoesOn ==
  ASSUME TypeInv, NEW w \in Watchers, watcher[w].pc \in Holding, NEW q, Goes(w, q),
         UNCHANGED todo, q.capture = watcher[w].capture, q.attempt = watcher[w].attempt,
         q.pc \notin Calling \/ (watcher[w].pc \in Calling /\ q.face = watcher[w].face),
         q.pc \in Holding
  PROVE  WatcherStep(w) /\ Alone(w)
<1>1. watcher'[w] = q /\ Alone(w)
  BY AloneIs
<1> QED BY <1>1 DEF WatcherStep

\* One that turns to another file or dies.
LEMMA TurnsAway ==
  ASSUME TypeInv, NEW w \in Watchers, NEW q, Goes(w, q), UNCHANGED todo,
         q.pc \notin Holding \cup {"received"}
  PROVE  WatcherStep(w) /\ Alone(w)
<1>1. watcher'[w] = q /\ Alone(w)
  BY AloneIs
<1> QED BY <1>1 DEF WatcherStep

\* What the stages have in common: the event, the attempt, the face.
LEMMA Stays ==
  ASSUME TypeInv, NEW w \in Watchers
  PROVE  LET r == watcher[w] IN
         /\ \A pc \in Stages :
              LET q == [r EXCEPT !.pc = pc] IN
              q.pc = pc /\ q.capture = r.capture /\ q.attempt = r.attempt /\ q.face = r.face
         /\ \A pc \in Stages, v \in Verdicts :
              LET q == [r EXCEPT !.pc = pc, !.verdict = v] IN
              q.pc = pc /\ q.capture = r.capture /\ q.attempt = r.attempt /\ q.verdict = v
         /\ \A pc \in Stages, f \in Nat :
              LET q == [r EXCEPT !.pc = pc, !.face = f] IN
              q.pc = pc /\ q.capture = r.capture /\ q.attempt = r.attempt /\ q.face = f
         /\ \A pc \in Stages, a \in Places \cup {Nowhere} :
              LET q == [r EXCEPT !.pc = pc, !.at = a] IN
              q.pc = pc /\ q.capture = r.capture /\ q.attempt = r.attempt /\ q.verdict = r.verdict
         /\ \A n \in 0..MaxAttempts :
              LET q == [r EXCEPT !.pc = "leased", !.attempt = n] IN
              q.pc = "leased" /\ q.capture = r.capture /\ q.attempt = n
         /\ LET q == [NextFace(w) EXCEPT !.queued = TRUE] IN
            q.pc = "scoring" /\ q.capture = r.capture /\ q.attempt = r.attempt
         /\ LET q == [NextFace(w) EXCEPT !.made = TRUE] IN
            q.pc = "scoring" /\ q.capture = r.capture /\ q.attempt = r.attempt
         /\ LET q == NextFace(w) IN
            q.pc = "scoring" /\ q.capture = r.capture /\ q.attempt = r.attempt
<1> DEFINE r == watcher[w]
<1>1. r \in Watching
  BY DEF TypeInv, WatchersOK
<1> HIDE DEF r
<1>2. ASSUME NEW pc \in Stages
      PROVE  LET q == [r EXCEPT !.pc = pc] IN
             q.pc = pc /\ q.capture = r.capture /\ q.attempt = r.attempt /\ q.face = r.face
  BY <1>1 DEF Watching
<1>3. ASSUME NEW pc \in Stages, NEW v \in Verdicts
      PROVE  LET q == [r EXCEPT !.pc = pc, !.verdict = v] IN
             q.pc = pc /\ q.capture = r.capture /\ q.attempt = r.attempt /\ q.verdict = v
  BY <1>1 DEF Watching
<1>4. ASSUME NEW pc \in Stages, NEW f \in Nat
      PROVE  LET q == [r EXCEPT !.pc = pc, !.face = f] IN
             q.pc = pc /\ q.capture = r.capture /\ q.attempt = r.attempt /\ q.face = f
  BY <1>1 DEF Watching
<1>5. ASSUME NEW pc \in Stages, NEW a \in Places \cup {Nowhere}
      PROVE  LET q == [r EXCEPT !.pc = pc, !.at = a] IN
             q.pc = pc /\ q.capture = r.capture /\ q.attempt = r.attempt /\ q.verdict = r.verdict
  BY <1>1 DEF Watching
<1>6. ASSUME NEW n \in 0..MaxAttempts
      PROVE  LET q == [r EXCEPT !.pc = "leased", !.attempt = n] IN
             q.pc = "leased" /\ q.capture = r.capture /\ q.attempt = n
  BY <1>1 DEF Watching
<1>7. /\ NextFace(w) = [r EXCEPT !.pc = "scoring", !.face = r.face + 1]
      /\ r.face + 1 \in Nat /\ "scoring" \in Stages
  BY <1>1 DEF NextFace, r, Watching, Stages
<1>8. LET q == NextFace(w) IN
      /\ q.pc = "scoring" /\ q.capture = r.capture /\ q.attempt = r.attempt /\ q \in Watching
  BY <1>1, <1>7 DEF Watching
<1>9. ASSUME NEW q \in Watching
      PROVE  /\ [q EXCEPT !.queued = TRUE].pc = q.pc /\ [q EXCEPT !.made = TRUE].pc = q.pc
             /\ [q EXCEPT !.queued = TRUE].capture = q.capture
             /\ [q EXCEPT !.made = TRUE].capture = q.capture
             /\ [q EXCEPT !.queued = TRUE].attempt = q.attempt
             /\ [q EXCEPT !.made = TRUE].attempt = q.attempt
  BY DEF Watching
<1> QED BY <1>2, <1>3, <1>4, <1>5, <1>6, <1>8, <1>9 DEF r

\* What acquire_event_lease has found.
LEMMA Found ==
  ASSUME NEW r \in Row, NEW w \in Watchers
  PROVE  /\ Finds(r, w) = "owned" => r.state \in Open /\ ActiveLease(r) /\ r.owner = w
         /\ Finds(r, w) = "free" =>
              r.state \in Open /\ ~ActiveLease(r) /\ r.phase # "delivery_in_progress"
         /\ Finds(r, w) = "ambiguous" =>
              r.state \in Open /\ ~ActiveLease(r) /\ r.phase = "delivery_in_progress"
BY DEF Finds, Row

\* A full lease is unexpired.
LEMMA FullLeaseLasts == FullLease > 1
BY ProcessingAssumption DEF FullLease

\* Taking an event's lease, or being refused it.
LEMMA LedgeredSteps ==
  ASSUME TypeInv, LeaseInv, NEW w \in Watchers, Ledgered(w)
  PROVE  WatcherStep(w) /\ Alone(w) /\ \A c \in Captures : RowStep(c)
<1> DEFINE r == watcher[w]
           c == On(w)
<1> USE DEF ledger, delivery, bounds, processes
<1>0. /\ WatcherOK(r) /\ c = r.capture /\ WatcherOK(Resting) /\ Resting.pc = "idle"
      /\ "idle" \notin Holding \cup {"received"} /\ "refused" \notin Holding \cup {"received"}
  BY AtRest DEF TypeInv, WatchersOK, On, Resting, Holding, Facing, Calling
<1>00. r.pc \in {"received", "refused"} \cup Holding => c \in Captures /\ event[c] \in Row
  BY <1>0, WatcherGoesOn DEF TypeInv, RowsOK
<1>1. CASE Acquire(w)
  <2> DEFINE found == Finds(event[c], w)
             q == IF found = "owned" THEN Renewed(event[c]) ELSE Acquired(event[c], w)
             n == q.attempt
  <2>1. r.pc = "received" /\ c \in Captures /\ event[c] \in Row /\ found \in {"free", "owned"}
    BY <1>00, <1>1 DEF Acquire, At
  <2>2. /\ event' = [event EXCEPT ![c] = q] /\ event'[c] = q
    BY <1>1, <2>1 DEF Acquire, TypeInv, RowsOK
  <2>3. /\ RowBecomes(c, event[c], q)
        /\ q.owner = w /\ q.lease > 1 /\ q.state \in Open /\ q.attempt \in Nat
    <3>1. CASE found = "owned"
      <4>1. /\ event[c].state \in Open /\ event[c].owner = w /\ q = Renewed(event[c])
        BY <2>1, <3>1, Found
      <4>2. IsRow(q, event[c].state, event[c].phase, event[c].owner, FullLease,
                  event[c].attempt, event[c].decision, event[c].action, event[c].path)
        BY <2>1, <4>1, RowMoved
      <4> HIDE DEF q
      <4> QED BY <2>1, <4>1, <4>2, FullLeaseLasts DEF IsRow, RowBecomes, Row
    <3>2. CASE found = "free"
      <4>1. /\ event[c].state \in Open /\ ~ActiveLease(event[c])
            /\ event[c].phase # "delivery_in_progress" /\ q = Acquired(event[c], w)
        BY <2>1, <3>2, Found
      <4>2. IsRow(q, "processing", "pre_delivery", w, FullLease, event[c].attempt + 1,
                  NoDecision, event[c].action, event[c].path)
        BY <2>1, <4>1, RowMoved, OwnersApart
      <4>3. Freed(c)
        BY <2>1, <4>1, FreeRows
      <4> HIDE DEF q
      <4> QED BY <2>1, <4>1, <4>2, <4>3, FullLeaseLasts DEF IsRow, RowBecomes, Row, Open
    <3> QED BY <2>1, <3>1, <3>2
  <2>4. Goes(w, [r EXCEPT !.pc = "leased", !.attempt = n]) /\ UNCHANGED todo
    BY <1>1, <2>2 DEF Acquire
  <2> HIDE DEF q
  <2>5. /\ Alone(w) /\ watcher'[w] = [r EXCEPT !.pc = "leased", !.attempt = n]
    BY <2>4, AloneIs
  <2>6. n \in 0..MaxAttempts
    <3>1. TypeInv'
      BY <1>1, LedgeredTypes DEF Ledgered
    <3> QED BY <2>1, <2>2, <3>1, ProcessingAssumption DEF TypeInv, RowsOK, RowOK, Row
  <2>7. watcher'[w].pc = "leased" /\ watcher'[w].capture = c /\ watcher'[w].attempt = n
    BY <1>0, <2>5, <2>6, Stays
  <2>8. Held(w)'
    BY <2>2, <2>3, <2>7 DEF Held, On
  <2>9. WatcherStep(w)
    BY <2>1, <2>4, <2>7, <2>8 DEF WatcherStep
  <2>10. \A e \in Captures : RowStep(e)
    BY <2>1, <2>2, <2>3, OneRow
  <2> QED BY <2>5, <2>9, <2>10
<1>2. CASE AcquireAmbiguous(w)
  <2> DEFINE q == Ended(event[c], "uncertain")
  <2>1. r.pc = "received" /\ c \in Captures /\ event[c] \in Row /\ Finds(event[c], w) = "ambiguous"
    BY <1>00, <1>2 DEF AcquireAmbiguous, At
  <2>2. event[c].state \in Open /\ Freed(c)
    BY <2>1, Found, FreeRows
  <2>3. IsRow(q, "uncertain", "terminal", NoOwner, 0,
              event[c].attempt, event[c].decision, event[c].action, event[c].path)
    BY <2>1, RowMoved DEF Terminal
  <2>4. event' = [event EXCEPT ![c] = q]
    BY <1>2 DEF AcquireAmbiguous
  <2> HIDE DEF q
  <2>5. RowBecomes(c, event[c], q)
    BY <2>2, <2>3 DEF IsRow, RowBecomes, Terminal, Open
  <2>6. WatcherStep(w) /\ Alone(w)
    <3> DEFINE to == [r EXCEPT !.pc = "refused", !.verdict = "uncertain"]
    <3>1. Goes(w, to) /\ UNCHANGED todo
      BY <1>2 DEF AcquireAmbiguous
    <3>2. to.pc = "refused"
      BY Stays DEF Stages, Verdicts
    <3> HIDE DEF to
    <3> QED BY <1>0, <3>1, <3>2, TurnsAway
  <2> QED BY <2>1, <2>4, <2>5, <2>6, OneRow
<1>3. ASSUME NEW q, Goes(w, q), UNCHANGED <<event, todo>>, q.pc \notin Holding \cup {"received"}
      PROVE  WatcherStep(w) /\ Alone(w) /\ \A e \in Captures : RowStep(e)
  BY <1>3, TurnsAway, QuietRows
<1>4. CASE AcquireRefused(w)
  <2>1. PICK q : Goes(w, q) /\ (q = Resting \/ \E v \in Verdicts : q = [r EXCEPT !.pc = "refused", !.verdict = v])
    BY <1>4 DEF AcquireRefused, Verdicts
  <2>2. q.pc \in {"idle", "refused"}
    <3>1. \A v \in Verdicts : [r EXCEPT !.pc = "refused", !.verdict = v].pc = "refused"
      BY Stays DEF Stages
    <3> QED BY <1>0, <2>1, <3>1
  <2> QED BY <1>0, <1>3, <1>4, <2>1, <2>2 DEF AcquireRefused
<1>5. CASE TurnAway(w) \/ RenewRefused(w)
  BY <1>0, <1>3, <1>5 DEF TurnAway, RenewRefused
<1>6. CASE Renew(w)
  <2> DEFINE q == Renewed(event[c])
             to == [r EXCEPT !.pc = "renewed"]
  <2>1. r.pc = "leased" /\ r.pc \in Holding /\ c \in Captures /\ event[c] \in Row
    BY <1>00, <1>6 DEF Renew, At, Holding
  <2>2. IsRow(q, event[c].state, event[c].phase, event[c].owner, FullLease,
              event[c].attempt, event[c].decision, event[c].action, event[c].path)
    BY <2>1, RowMoved
  <2>3. event' = [event EXCEPT ![c] = q] /\ Goes(w, to) /\ UNCHANGED todo
    BY <1>6 DEF Renew
  <2>4. /\ to.pc = "renewed" /\ to.capture = r.capture /\ to.attempt = r.attempt
        /\ to.pc \in Holding /\ to.pc \notin Calling
    BY Stays DEF Stages, Holding, Facing, Calling
  <2> HIDE DEF q, to
  <2>5. RowBecomes(c, event[c], q)
    BY <2>2, FullLeaseLasts DEF IsRow, RowBecomes
  <2> QED BY <2>1, <2>3, <2>4, <2>5, OneRow, GoesOn
<1>7. CASE Advance(w)
  <2> DEFINE q == Moved(event[c], "processing")
             to == [r EXCEPT !.pc = "scoring", !.face = 1]
  <2>1. r.pc = "renewed" /\ r.pc \in Holding /\ c \in Captures /\ event[c] \in Row
    BY <1>00, <1>7 DEF Advance, At, Holding
  <2>2. event[c].state \in Open
    BY <2>1 DEF LeaseInv, Held
  <2>3. IsRow(q, "processing", event[c].phase, event[c].owner, event[c].lease,
              event[c].attempt, event[c].decision, event[c].action, event[c].path)
    BY <2>1, RowMoved
  <2>4. event' = [event EXCEPT ![c] = q] /\ Goes(w, to) /\ UNCHANGED todo
    BY <1>7 DEF Advance
  <2>5. /\ to.pc = "scoring" /\ to.capture = r.capture /\ to.attempt = r.attempt
        /\ to.pc \in Holding /\ to.pc \notin Calling
    BY Stays DEF Stages, Holding, Facing, Calling
  <2> HIDE DEF q, to
  <2>6. RowBecomes(c, event[c], q)
    BY <2>2, <2>3 DEF IsRow, RowBecomes, Open
  <2> QED BY <2>1, <2>4, <2>5, <2>6, OneRow, GoesOn
<1>8. ASSUME r.pc \in Holding, NEW q, Goes(w, q), UNCHANGED <<event, todo>>,
             q.pc \in Holding \ Calling, q.capture = r.capture, q.attempt = r.attempt
      PROVE  WatcherStep(w) /\ Alone(w) /\ \A e \in Captures : RowStep(e)
  BY <1>8, GoesOn, QuietRows
<1>9. CASE Fails(w) \/ Breaks(w) \/ BreaksOff(w)
  <2>1. r.pc \in Holding
    BY <1>9 DEF Fails, Breaks, BreaksOff, At, Holding
  <2>2. PICK q : /\ Goes(w, q)
                 /\ \/ q = [r EXCEPT !.pc = "failing"]
                    \/ q = [r EXCEPT !.pc = "breaking", !.verdict = "broken"]
                    \/ q = [r EXCEPT !.pc = "finalizing"]
    BY <1>9 DEF Fails, Breaks, BreaksOff, Failing
  <2>3. q.pc \in {"failing", "breaking", "finalizing"} /\ q.capture = r.capture /\ q.attempt = r.attempt
    <3>1. {"failing", "breaking", "finalizing"} \subseteq Stages /\ "broken" \in Verdicts
      BY DEF Stages, Verdicts
    <3>2. CASE q = [r EXCEPT !.pc = "breaking", !.verdict = "broken"]
      BY <3>1, <3>2, Stays
    <3>3. ASSUME NEW pc \in {"failing", "finalizing"}, q = [r EXCEPT !.pc = pc]
          PROVE  q.pc = pc /\ q.capture = r.capture /\ q.attempt = r.attempt
      BY <3>1, <3>3, Stays
    <3> QED BY <2>2, <3>2, <3>3
  <2>4. q.pc \in Holding \ Calling
    BY <2>3 DEF Holding, Facing, Calling
  <2>5. UNCHANGED <<event, todo>>
    BY <1>9 DEF Fails, Breaks, BreaksOff
  <2> QED BY <1>8, <2>1, <2>2, <2>3, <2>4, <2>5
<1> QED BY <1>1, <1>2, <1>4, <1>5, <1>6, <1>7, <1>9 DEF Ledgered

\* A watcher that goes on and touches no row.
LEMMA QuietlyOn ==
  ASSUME TypeInv, NEW w \in Watchers, watcher[w].pc \in Holding, NEW q, Goes(w, q),
         UNCHANGED <<event, todo>>, q.pc \in Holding,
         q.capture = watcher[w].capture, q.attempt = watcher[w].attempt,
         q.pc \notin Calling \/ (watcher[w].pc \in Calling /\ q.face = watcher[w].face)
  PROVE  WatcherStep(w) /\ Alone(w) /\ \A e \in Captures : RowStep(e)
BY GoesOn, QuietRows

\* Judging a face touches no row.
LEMMA JudgedSteps ==
  ASSUME TypeInv, NEW w \in Watchers, Judged(w)
  PROVE  WatcherStep(w) /\ Alone(w) /\ \A c \in Captures : RowStep(c)
<1> DEFINE r == watcher[w]
<1>1. r.pc \in Holding /\ UNCHANGED <<event, todo>>
  BY DEF Judged, Reject, Unaccepted, Reserve, DecisionTaken, Suppress, At, Holding, ledger, bounds
<1>2. PICK q : /\ Goes(w, q)
               /\ \/ q = [r EXCEPT !.pc = "disposing", !.verdict = "rejected"]
                  \/ q = [r EXCEPT !.pc = "failing"]
                  \/ q = [r EXCEPT !.pc = "reserved"]
                  \/ q = NextFace(w)
  BY DEF Judged, Reject, Unaccepted, Reserve, DecisionTaken, Suppress, Disposing, Failing
<1>3. {"disposing", "failing", "reserved"} \subseteq Stages /\ "rejected" \in Verdicts
  BY DEF Stages, Verdicts
<1>4. /\ q.pc \in {"disposing", "failing", "reserved", "scoring"}
      /\ q.capture = r.capture /\ q.attempt = r.attempt
  <2>1. CASE q = [r EXCEPT !.pc = "disposing", !.verdict = "rejected"]
    BY <1>3, <2>1, Stays
  <2>2. CASE q = NextFace(w)
    BY <2>2, Stays
  <2>3. ASSUME NEW pc \in {"failing", "reserved"}, q = [r EXCEPT !.pc = pc]
        PROVE  q.pc = pc /\ q.capture = r.capture /\ q.attempt = r.attempt
    BY <1>3, <2>3, Stays
  <2> QED BY <1>2, <2>1, <2>2, <2>3
<1>5. q.pc \in Holding /\ q.pc \notin Calling
  BY <1>4 DEF Holding, Facing, Calling
<1> QED BY <1>1, <1>2, <1>4, <1>5, QuietlyOn

\* Delivering: only begin_delivery_attempt writes to the row, and it asks for
\* the lease.
LEMMA SubmittedSteps ==
  ASSUME TypeInv, LeaseInv, NEW w \in Watchers, Submitted(w)
  PROVE  WatcherStep(w) /\ Alone(w) /\ \A c \in Captures : RowStep(c)
<1> DEFINE r == watcher[w]
           c == On(w)
           d == Decision(w)
<1>0. /\ r.pc \in Facing /\ r.pc \in Holding /\ UNCHANGED todo
      /\ r.pc \in Stages /\ Calling \subseteq Stages
      /\ {"persisted", "failing", "disposing", "submitting"} \subseteq Stages
      /\ "uncertain" \in Verdicts
  BY DEF Submitted, Persist, PersistFails, Begin, BeginFails, Call, Raised, Doubt, DoubtFails,
         Stages, Verdicts, MarkDelivered, MarkDeliveredFails, Commit, CommitFails, At, Facing,
         Calling, Holding, processes
<1>00. c \in Captures /\ d \in Decisions /\ event[c] \in Row
  BY <1>0, AtFace DEF TypeInv, RowsOK
<1>1. CASE Begin(w)
  <2> DEFINE q == Delivering(event[c], d)
             to == [r EXCEPT !.pc = "submitting"]
  <2>1. r.pc = "persisted" /\ event[c].owner = w
    BY <1>0, <1>1 DEF Begin, At, CanBegin
  <2>2. event' = [event EXCEPT ![c] = q] /\ Goes(w, to)
    BY <1>1 DEF Begin
  <2>3. IsRow(q, "processing", "delivery_in_progress", event[c].owner, FullLease,
              event[c].attempt, d, event[c].action, event[c].path)
    BY <1>00, RowMoved
  <2>4. /\ to.pc = "submitting" /\ to.capture = c /\ to.attempt = r.attempt /\ to.face = r.face
        /\ to.pc \in Holding
    BY <1>0, Stays DEF On, Holding, Facing, Calling
  <2> HIDE DEF to
  <2>5. RowBecomes(c, event[c], q)
    <3> HIDE DEF q
    <3> QED BY <2>1, <2>3, FullLeaseLasts DEF IsRow, RowBecomes
  <2>6. \A e \in Captures : RowStep(e)
    BY <1>00, <2>2, <2>5, OneRow
  <2>7. watcher'[w] = to /\ Alone(w) /\ event'[c] = q
    BY <1>0, <1>00, <2>2, AloneIs DEF TypeInv, RowsOK
  <2>8. On(w)' = c /\ Decision(w)' = d
    BY <2>4, <2>7 DEF On, Decision
  <2>9. AtBoundary(w)'
    <3> HIDE DEF q
    <3> QED BY <2>3, <2>7, <2>8 DEF IsRow, AtBoundary
  <2>10. WatcherStep(w)
    BY <1>0, <2>4, <2>7, <2>9 DEF WatcherStep, On
  <2> QED BY <2>6, <2>7, <2>10
<1>2. CASE ~Begin(w)
  <2>1. UNCHANGED event
    BY <1>2 DEF Submitted, Persist, PersistFails, BeginFails, Call, Raised, Doubt, DoubtFails,
                MarkDelivered, MarkDeliveredFails, Commit, CommitFails, ledger
  <2>2. PICK q : /\ Goes(w, q)
                 /\ \/ \E pc \in {"persisted", "failing"} : q = [r EXCEPT !.pc = pc]
                    \/ r.pc \in Calling /\ \E pc \in Calling : q = [r EXCEPT !.pc = pc]
                    \/ q = [r EXCEPT !.pc = "disposing", !.verdict = "uncertain"]
                    \/ q = [NextFace(w) EXCEPT !.queued = TRUE]
                    \/ q = [NextFace(w) EXCEPT !.made = TRUE]
    <3>1. CASE Persist(w)
      BY <3>1 DEF Persist
    <3>2. CASE PersistFails(w) \/ BeginFails(w)
      <4>1. Goes(w, [r EXCEPT !.pc = "failing"])
        BY <3>2 DEF PersistFails, BeginFails, Failing
      <4> QED BY <4>1
    <3>3. CASE Doubt(w) \/ DoubtFails(w)
      <4>1. \/ Goes(w, [r EXCEPT !.pc = "failing"])
            \/ Goes(w, [r EXCEPT !.pc = "disposing", !.verdict = "uncertain"])
        BY <3>3 DEF Doubt, DoubtFails, Failing, Disposing
      <4> QED BY <4>1
    <3>4. CASE Commit(w)
      BY <3>4 DEF Commit
    <3>5. CASE Call(w) \/ Raised(w) \/ MarkDelivered(w) \/ MarkDeliveredFails(w) \/ CommitFails(w)
      <4>1. /\ r.pc \in Calling
            /\ {"answered", "raised", "doubting", "delivered", "conceding"} \subseteq Calling
        BY <3>5 DEF Call, Raised, MarkDelivered, MarkDeliveredFails, CommitFails, At, Calling
      <4>2. PICK pc \in {"answered", "raised", "doubting", "delivered", "conceding"} :
              Goes(w, [r EXCEPT !.pc = pc])
        BY <3>5 DEF Call, Raised, MarkDelivered, MarkDeliveredFails, CommitFails
      <4>3. pc \in Calling /\ Goes(w, [r EXCEPT !.pc = pc])
        BY <4>1, <4>2
      <4> QED BY <4>1, <4>3
    <3> QED BY <1>2, <3>1, <3>2, <3>3, <3>4, <3>5 DEF Submitted
  <2>3. q.capture = r.capture /\ q.attempt = r.attempt
        /\ \/ q.pc \in {"persisted", "failing", "disposing", "scoring"}
           \/ r.pc \in Calling /\ q.pc \in Calling /\ q.face = r.face
    <3>1. ASSUME NEW pc \in {"persisted", "failing"}, q = [r EXCEPT !.pc = pc]
          PROVE  q.pc = pc /\ q.capture = r.capture /\ q.attempt = r.attempt
      BY <1>0, <3>1, Stays
    <3>2. ASSUME NEW pc \in Calling, q = [r EXCEPT !.pc = pc]
          PROVE  q.pc = pc /\ q.capture = r.capture /\ q.attempt = r.attempt /\ q.face = r.face
      BY <1>0, <3>2, Stays
    <3>3. CASE q = [r EXCEPT !.pc = "disposing", !.verdict = "uncertain"]
      BY <1>0, <3>3, Stays
    <3>4. CASE q = [NextFace(w) EXCEPT !.queued = TRUE]
      BY <3>4, Stays
    <3>5. CASE q = [NextFace(w) EXCEPT !.made = TRUE]
      BY <3>5, Stays
    <3> QED BY <2>2, <3>1, <3>2, <3>3, <3>4, <3>5
  <2>4. /\ q.pc \in Holding
        /\ q.pc \notin Calling \/ (r.pc \in Calling /\ q.face = r.face)
    BY <2>3 DEF Holding, Facing, Calling
  <2> QED BY <1>0, <2>1, <2>2, <2>3, <2>4, QuietlyOn
<1> QED BY <1>1, <1>2

\* The end of process_path: the row is ended by the watcher that has the lease,
\* which then lets go of the event.
LEMMA ClosedSteps ==
  ASSUME TypeInv, LeaseInv, NEW w \in Watchers, Closed(w)
  PROVE  WatcherStep(w) /\ Alone(w) /\ \A c \in Captures : RowStep(c)
<1> DEFINE r == watcher[w]
           c == On(w)
<1>0. /\ r.pc \in Holding /\ UNCHANGED todo /\ WatcherOK(r) /\ r.capture = c
      /\ {"finalizing", "disposing"} \subseteq Stages /\ Endings \subseteq Verdicts
      /\ Resting.pc \notin Holding \cup {"received"} /\ Down.pc \notin Holding \cup {"received"}
  BY DEF Closed, Release, ReleaseFails, AllScored, Dispose, Finalize, FinalizeFails, At, TypeInv,
         WatchersOK, Stages, Verdicts, Endings, Holding, Facing, Calling, Resting, Down, On
<1>00. c \in Captures /\ event[c] \in Row /\ r.file \in Uploads
  BY <1>0, WatcherGoesOn DEF TypeInv, RowsOK, WatcherOK, Watching
<1>1. CASE Release(w) \/ ReleaseFails(w) \/ AllScored(w) \/ Dispose(w)
  <2>1. UNCHANGED event
    BY <1>1 DEF Release, ReleaseFails, AllScored, Dispose, ledger
  <2>2. PICK q : /\ Goes(w, q)
                 /\ \/ \E v \in Endings : q = [r EXCEPT !.pc = "disposing", !.verdict = v]
                    \/ q = [r EXCEPT !.pc = "breaking", !.verdict = "broken"]
                    \/ \E at \in Places \cup {Nowhere} : q = [r EXCEPT !.pc = "finalizing", !.at = at]
    <3>1. CASE Release(w)
      BY <3>1 DEF Release, Disposing, Endings
    <3>2. CASE AllScored(w)
      BY <3>2 DEF AllScored, Disposing, Endings
    <3>3. CASE Dispose(w)
      BY <1>00, <3>3 DEF Dispose, RejectedTo, Places
    <3>4. CASE ReleaseFails(w)
      BY <3>4 DEF ReleaseFails
    <3> QED BY <1>1, <3>1, <3>2, <3>3, <3>4
  <2>3. /\ q.capture = r.capture /\ q.attempt = r.attempt
        /\ q.pc \in {"disposing", "breaking", "finalizing"}
    <3>1. ASSUME NEW v \in Endings, q = [r EXCEPT !.pc = "disposing", !.verdict = v]
          PROVE  q.capture = r.capture /\ q.attempt = r.attempt /\ q.pc = "disposing"
      <4>1. v \in Verdicts /\ "disposing" \in Stages
        BY <1>0
      <4> QED BY <3>1, <4>1, Stays
    <3>2. ASSUME NEW at \in Places \cup {Nowhere}, q = [r EXCEPT !.pc = "finalizing", !.at = at]
          PROVE  q.capture = r.capture /\ q.attempt = r.attempt /\ q.pc = "finalizing"
      BY <1>0, <3>2, Stays
    <3>3. CASE q = [r EXCEPT !.pc = "breaking", !.verdict = "broken"]
      <4>1. "breaking" \in Stages /\ "broken" \in Verdicts
        BY DEF Stages, Verdicts
      <4> QED BY <3>3, <4>1, Stays
    <3> QED BY <2>2, <3>1, <3>2, <3>3
  <2>4. q.pc \in Holding /\ q.pc \notin Calling
    BY <2>3 DEF Holding, Facing, Calling
  <2> QED BY <1>0, <2>1, <2>2, <2>3, <2>4, QuietlyOn
<1>2. ASSUME NEW rows, Closing(w, rows)
      PROVE  /\ WatcherStep(w) /\ Alone(w) /\ watcher'[w].pc \notin Holding
             /\ event' = rows \/ event' = Orphans(rows, w)
  <2>1. PICK q \in {Resting, Down} : Goes(w, q) /\ (event' = rows \/ event' = Orphans(rows, w))
    BY <1>2 DEF Closing
  <2>2. watcher'[w] = q /\ WatcherStep(w) /\ Alone(w)
    BY <1>0, <2>1, TurnsAway, AloneIs
  <2> QED BY <1>0, <2>1, <2>2
<1>3. CASE FinalizeFails(w)
  BY <1>2, <1>3, QuietRows, OrphanedRows DEF FinalizeFails
<1>4. CASE Finalize(w)
  <2> DEFINE q == Final(w, event[c])
             rows == [event EXCEPT ![c] = q]
  <2>1. event[c].owner = w /\ event[c].state \in Open /\ Closing(w, rows)
    BY <1>0, <1>4 DEF Finalize, LeaseInv, Held
  <2>2. WatcherStep(w) /\ Alone(w) /\ watcher'[w].pc \notin Holding
    BY <1>2, <2>1
  <2>3. Freed(c) /\ \A e \in Captures : event[e].owner = w => Freed(e)
    BY <2>1, <2>2 DEF Freed, LeaseInv, Held
  <2>4. /\ q \in Row /\ q.state \in Terminal
        /\ q.attempt = event[c].attempt /\ q.decision = event[c].decision
    <3>1. r.verdict \in Endings \cup {"broken"} /\ r.at \in Places \cup {Nowhere}
      BY <1>0, <1>4 DEF Finalize, At, WatcherOK, Watching
    <3>2. CASE r.verdict = "broken"
      BY <1>00, <3>2, RowMoved DEF Final, IsRow, Terminal
    <3>3. CASE r.verdict # "broken"
      <4>1. r.verdict \in Terminal /\ q = [Ended(event[c], r.verdict) EXCEPT !.path = r.at]
        BY <3>1, <3>3 DEF Final, Endings, Terminal
      <4>2. IsRow([Ended(event[c], r.verdict) EXCEPT !.path = r.at], r.verdict, "terminal",
                  NoOwner, 0, event[c].attempt, event[c].decision, event[c].action, r.at)
        BY <1>00, <3>1, <4>1, RowMoved
      <4>3. IsRow(q, r.verdict, "terminal",
                  NoOwner, 0, event[c].attempt, event[c].decision, event[c].action, r.at)
        BY <4>1, <4>2
      <4> HIDE DEF q
      <4> QED BY <4>1, <4>3 DEF IsRow
    <3> QED BY <3>2, <3>3
  <2>5. event[c].state # "absent"
    BY <2>1 DEF Open
  <2>6. CASE event' = rows
    <3>1. RowBecomes(c, event[c], q)
      <4> HIDE DEF q
      <4> QED BY <2>3, <2>4, <2>5 DEF RowBecomes
    <3> HIDE DEF q
    <3> QED BY <1>00, <2>2, <2>6, <3>1, OneRow
  <2>7. CASE event' = Orphans(rows, w)
    <3> HIDE DEF q
    <3>1. ASSUME NEW e \in Captures PROVE RowStep(e)
      <4> DEFINE x == IF e = c THEN q ELSE event[e]
                 owner == IF x.owner = w THEN Dead ELSE x.owner
                 action == IF x.action = w THEN Dead ELSE x.action
      <4>1. x \in Row /\ event'[e] = [x EXCEPT !.owner = owner, !.action = action]
        BY <2>4, <2>7 DEF TypeInv, RowsOK, Orphans
      <4>2. owner \in Owners \cup {NoOwner} /\ action \in Owners \cup {NoOwner}
        BY <4>1, OwnersApart DEF Row
      <4>3. x.owner # w => owner = x.owner
        OBVIOUS
      <4>4. e # c => x = event[e]
        OBVIOUS
      <4>5. e = c => x = q
        OBVIOUS
      <4> HIDE DEF owner, action, x
      <4>6. event'[e] \in Row
        BY <4>1, <4>2 DEF Row
      <4>7. /\ event'[e].state = x.state /\ event'[e].phase = x.phase /\ event'[e].lease = x.lease
            /\ event'[e].attempt = x.attempt /\ event'[e].decision = x.decision
            /\ event'[e].owner = owner
        BY <4>1, <4>2, <4>6 DEF Row
      <4>8. CASE e = c
        BY <2>3, <2>4, <2>5, <4>5, <4>7, <4>8 DEF RowStep, RowBecomes
      <4>9. CASE e # c
        BY <2>3, <4>3, <4>4, <4>7, <4>9 DEF RowStep, RowBecomes
      <4> QED BY <4>8, <4>9
    <3> QED BY <2>2, <3>1
  <2> HIDE DEF rows
  <2> QED BY <1>2, <2>1, <2>6, <2>7
<1> QED BY <1>1, <1>3, <1>4 DEF Closed

\* A crash, a restart and what it recovers: only events that nobody holds.
LEMMA StartedSteps ==
  ASSUME TypeInv, LeaseInv, NEW w \in Watchers, Started(w) \/ Crash(w)
  PROVE  WatcherStep(w) /\ Alone(w) /\ \A c \in Captures : RowStep(c)
<1>0. /\ Resting.pc \notin Holding \cup {"received"} /\ Down.pc \notin Holding \cup {"received"}
      /\ [Down EXCEPT !.pc = "recovering"].pc \notin Holding \cup {"received"}
  BY DEF Resting, Down, Holding, Facing, Calling
<1>1. ASSUME NEW q, Goes(w, q), q.pc \notin Holding \cup {"received"},
             \A v \in Watchers \ {w} : todo'[v] = todo[v]
      PROVE  WatcherStep(w) /\ Alone(w) /\ watcher'[w] = q
  BY <1>1 DEF TypeInv, WatchersOK, Goes, WatcherStep, Alone
<1>2. CASE Crash(w)
  <2>1. \A v \in Watchers \ {w} : todo'[v] = todo[v]
    BY <1>2 DEF Crash, TypeInv
  <2>2. WatcherStep(w) /\ Alone(w) /\ watcher'[w] = Down
    BY <1>0, <1>1, <1>2, <2>1 DEF Crash
  <2>3. \A c \in Captures : RowStep(c)
    BY <1>0, <1>2, <2>2, OrphanedRows DEF Crash
  <2> QED BY <2>2, <2>3
<1>3. CASE Restart(w)
  BY <1>0, <1>1, <1>3, QuietRows DEF Restart, ledger
<1>4. CASE Recover(w)
  <2>1. \A v \in Watchers \ {w} : todo'[v] = todo[v]
    BY <1>4 DEF Recover, TypeInv
  <2>2. WatcherStep(w) /\ Alone(w)
    BY <1>0, <1>1, <1>4, <2>1 DEF Recover
  <2>3. ASSUME NEW c \in Captures PROVE RowStep(c)
    <3>1. event[c] \in Row
      BY DEF TypeInv, RowsOK
    <3>2. \/ InDoubt(c) /\ event'[c] = Ended(event[c], "uncertain")
          \/ ToRetry(c) /\ event'[c] = Retried(event[c])
          \/ event'[c] = event[c]
      BY <1>4 DEF Recover
    <3>3. Abandoned(event[c]) => Freed(c) /\ event[c].state # "absent"
      <4>1. event[c].lease \in Nat
        BY <3>1, FullLeaseLasts, ProcessingAssumption DEF Row, FullLease
      <4>2. Abandoned(event[c]) => ~ActiveLease(event[c]) /\ event[c].state # "absent"
        BY <4>1 DEF Abandoned, ActiveLease, Open
      <4> QED BY <4>2, FreeRows
    <3>4. CASE InDoubt(c) /\ event'[c] = Ended(event[c], "uncertain")
      <4>1. IsRow(event'[c], "uncertain", "terminal", NoOwner, 0,
                  event[c].attempt, event[c].decision, event[c].action, event[c].path)
        BY <3>1, <3>4, RowMoved DEF Terminal
      <4> QED BY <3>3, <3>4, <4>1 DEF InDoubt, IsRow, RowStep, RowBecomes, Terminal
    <3>5. CASE ToRetry(c) /\ event'[c] = Retried(event[c])
      <4>1. IsRow(event'[c], "processing", "idle", NoOwner, 0,
                  event[c].attempt, event[c].decision, event[c].action, event[c].path)
        BY <3>1, <3>5, RowTaken
      <4>2. ~CrossedBoundary(event[c]) /\ event[c].decision = NoDecision
        BY <3>5 DEF ToRetry, CrossedBoundary
      <4> QED BY <3>3, <3>5, <4>1, <4>2 DEF ToRetry, IsRow, RowStep, RowBecomes, Open
    <3>6. CASE event'[c] = event[c]
      BY <3>6 DEF RowStep, RowBecomes
    <3> QED BY <3>2, <3>4, <3>5, <3>6
  <2> QED BY <2>2, <2>3
<1> QED BY <1>2, <1>3, <1>4 DEF Started

\* What is left of the recovery of an event that nobody works at, and the poll
\* of a file.
LEMMA RecoveredSteps ==
  ASSUME TypeInv, LeaseInv, RecoveryApart, NEW w \in Watchers, NEW c \in Captures,
         Recovered(w, c) \/ \E file \in Uploads : Polled(w, c, file)
  PROVE  WatcherStep(w) /\ Alone(w) /\ \A e \in Captures : RowStep(e)
<1> USE DEF ledger, delivery, processes, bounds
<1>0. event[c] \in Row
  BY DEF TypeInv, RowsOK
<1>1. CASE Recovered(w, c)
  <2>1. UNCHANGED watcher /\ todo[w][c] # "none" /\ Alone(w)
    BY <1>1 DEF Recovered, RetryReady, RetryMissing, RetainDoubtful, RecordRetention, Done,
                Alone, TypeInv
  <2>2. watcher[w].pc \notin Holding \cup {"received"}
    BY <2>1 DEF LeaseInv, NothingToDo
  <2>3. WatcherStep(w)
    BY <2>1, <2>2 DEF WatcherStep
  <2>4. Freed(c)
    BY <2>1, <2>2 DEF RecoveryApart, Freed
  <2>5. \A e \in Captures : RowStep(e)
    <3>1. CASE UNCHANGED event
      BY <3>1, QuietRows
    <3>2. CASE RetryMissing(w, c) /\ event[c].state \in Open
      <4> DEFINE q == Ended(event[c], "failed")
      <4>1. event' = [event EXCEPT ![c] = q] /\ event[c].state # "absent"
        BY <3>2 DEF RetryMissing, Open
      <4>2. IsRow(q, "failed", "terminal", NoOwner, 0,
                  event[c].attempt, event[c].decision, event[c].action, event[c].path)
        BY <1>0, RowMoved DEF Terminal
      <4> HIDE DEF q
      <4>3. RowBecomes(c, event[c], q)
        BY <2>4, <4>1, <4>2 DEF IsRow, RowBecomes, Terminal
      <4> QED BY <4>1, <4>3, OneRow
    <3>3. CASE RecordRetention(w, c)
      <4> DEFINE p == IF Quarantines THEN "kept" ELSE event[c].path
                 q == UncertainAt(event[c], p)
      <4>1. CASE event[c].state = "absent"
        <5>1. event' = [event EXCEPT ![c] = event[c]]
          BY <3>3, <4>1 DEF RecordRetention
        <5>2. RowBecomes(c, event[c], event[c])
          BY DEF RowBecomes
        <5> QED BY <5>1, <5>2, OneRow
      <4>2. CASE event[c].state # "absent"
        <5>1. p \in Places \cup {Nowhere} /\ event' = [event EXCEPT ![c] = q]
          BY <1>0, <3>3, <4>2 DEF RecordRetention, Row, Places
        <5> HIDE DEF p
        <5>2. IsRow(q, "uncertain", "terminal", NoOwner, 0,
                    event[c].attempt, event[c].decision, event[c].action, p)
          BY <1>0, <5>1, RowMoved DEF UncertainAt, Terminal
        <5> HIDE DEF q
        <5>3. RowBecomes(c, event[c], q)
          BY <2>4, <4>2, <5>2 DEF IsRow, RowBecomes, Terminal
        <5> QED BY <5>1, <5>3, OneRow
      <4> QED BY <4>1, <4>2
    <3> QED BY <1>1, <3>1, <3>2, <3>3
            DEF Recovered, RetryReady, RetainDoubtful, RetryMissing
  <2> QED BY <2>1, <2>3, <2>5
<1>2. ASSUME NEW file \in Uploads, Polled(w, c, file)
      PROVE  WatcherStep(w) /\ Alone(w) /\ \A e \in Captures : RowStep(e)
  <2>1. CASE Replay(w, c, file)
    <3>1. UNCHANGED <<event, watcher, todo>>
      BY <2>1 DEF Replay
    <3> QED BY <3>1, QuietRows, WatcherRests DEF Alone
  <2>2. CASE Receive(w, c, file)
    <3> DEFINE to == [Resting EXCEPT !.pc = "received", !.capture = c, !.file = file]
    <3>1. to.pc = "received" /\ Goes(w, to) /\ UNCHANGED todo /\ todo[w] = NothingToDo
      BY <1>2, <2>2 DEF Receive, Polled, Resting
    <3>2. watcher'[w] = to /\ Alone(w)
      BY <3>1, AloneIs
    <3>3. WatcherStep(w)
      BY <3>1, <3>2 DEF WatcherStep
    <3>4. \A e \in Captures : RowStep(e)
      <4> DEFINE q == IF event[c].state = "absent" THEN Receipt(file) ELSE event[c]
      <4>1. event' = [event EXCEPT ![c] = q]
        BY <2>2 DEF Receive
      <4>2. RowBecomes(c, event[c], q)
        <5>1. CASE event[c].state = "absent"
          <6>1. Receipt(file).state = "received" /\ Receipt(file).decision = NoDecision
            BY DEF Receipt, NoRow
          <6>2. c \notin tombstone /\ c \in tombstone' /\ Freed(c)
            BY <2>2, <5>1, FreeRows DEF Receive, Open
          <6> QED BY <5>1, <6>1, <6>2 DEF RowBecomes
        <5>2. CASE event[c].state # "absent"
          BY <5>2 DEF RowBecomes
        <5> QED BY <5>1, <5>2
      <4> HIDE DEF q
      <4> QED BY <4>1, <4>2, OneRow
    <3> QED BY <3>2, <3>3, <3>4
  <2> QED BY <1>2, <2>1, <2>2 DEF Polled
<1> QED BY <1>1, <1>2

\* An operator's step: it takes no event from a watcher that works.
LEMMA OperatorSteps ==
  ASSUME TypeInv, LeaseInv, NEW o \in Operators,
         \/ Commands(o) \/ OperatorDies(o)
         \/ \E c \in Captures : Stage(o, c) \/ Dismiss(o, c)
  PROVE  /\ \A w \in Watchers : watcher'[w] = watcher[w] /\ todo'[w] = todo[w]
         /\ \A c \in Captures : RowStep(c)
<1> DEFINE r == operator[o]
           c == Subject(o)
<1> USE DEF ledger, delivery, processes, bounds
<1>1. \A w \in Watchers : watcher'[w] = watcher[w] /\ todo'[w] = todo[w]
  BY DEF Commands, Request, RequestRefused, Unstage, Publish, Complete, Rollback, MarkFailed,
         OperatorDies, Stage, Dismiss
<1>2. r.pc # "idle" => c \in Captures /\ event[c] \in Row /\ r.from \in Places
  BY DEF TypeInv, CommandsOK, CommandOK, RowsOK, Subject
<1>3. o \in Owners /\ o # NoOwner /\ o \notin Watchers /\ NoOwner \notin Watchers
  BY OwnersApart
<1>4. CASE UNCHANGED event
  BY <1>1, <1>4, QuietRows
<1>5. CASE Request(o)
  <2> DEFINE q == Requested(event[c], o)
  <2>1. /\ c \in Captures /\ event[c] \in Row /\ event' = [event EXCEPT ![c] = q]
        /\ Reprocessable(event[c])
    BY <1>2, <1>5 DEF Request, Does
  <2>2. IsRow(q, "received", "idle", o, FullLease, event[c].attempt, NoDecision, o, "target")
    BY <1>3, <2>1, RowTaken
  <2>3. event[c].state # "absent" /\ ~CrossedBoundary(event[c]) /\ Freed(c)
    BY <2>1, FreeRows DEF Reprocessable
  <2> HIDE DEF q
  <2>4. RowBecomes(c, event[c], q)
    BY <2>2, <2>3 DEF IsRow, RowBecomes, Open
  <2> QED BY <1>1, <2>1, <2>4, OneRow
<1>6. CASE Complete(o) /\ CanComplete(event[c], o)
  <2> DEFINE q == Published(event[c])
  <2>1. c \in Captures /\ event[c] \in Row /\ event' = [event EXCEPT ![c] = q] /\ event[c].owner = o
    BY <1>2, <1>6 DEF Complete, Does, CanComplete
  <2>2. IsRow(q, event[c].state, event[c].phase, NoOwner, 0, event[c].attempt,
              event[c].decision, event[c].action, "target")
    BY <2>1, RowTaken
  <2>3. Freed(c)
    BY <1>3, <2>1, FreeRows
  <2> HIDE DEF q
  <2>4. RowBecomes(c, event[c], q)
    BY <2>2, <2>3 DEF IsRow, RowBecomes
  <2> QED BY <1>1, <2>1, <2>4, OneRow
<1>7. CASE MarkFailed(o)
  <2> DEFINE x == PublishFailed(event[c], r.from)
             q == IF event[c].state # "absent" /\ CanMarkFailed(event[c], o) THEN x ELSE event[c]
  <2>1. c \in Captures /\ event[c] \in Row /\ r.from \in Places /\ event' = [event EXCEPT ![c] = q]
    BY <1>2, <1>7 DEF MarkFailed, Does
  <2>2. IsRow(x, "failed", "terminal", NoOwner, 0, event[c].attempt, event[c].decision,
              NoOwner, r.from)
    BY <2>1, RowTaken
  <2>3. RowBecomes(c, event[c], q)
    <3>1. CASE event[c].state # "absent" /\ CanMarkFailed(event[c], o)
      <4>1. Freed(c) /\ q = x
        BY <1>3, <2>1, <3>1, FreeRows DEF CanMarkFailed
      <4> HIDE DEF q, x
      <4> QED BY <2>2, <3>1, <4>1 DEF IsRow, RowBecomes, Terminal
    <3>2. CASE ~(event[c].state # "absent" /\ CanMarkFailed(event[c], o))
      BY <3>2 DEF RowBecomes
    <3> QED BY <3>1, <3>2
  <2> HIDE DEF q
  <2> QED BY <1>1, <2>1, <2>3, OneRow
<1>8. CASE OperatorDies(o)
  BY <1>1, <1>3, <1>8, OrphanedRows DEF OperatorDies
<1>9. ASSUME NEW e \in Captures, Dismiss(o, e)
      PROVE  \A x \in Captures : RowStep(x)
  <2> DEFINE q == Dismissed(event[e])
  <2>1. event[e] \in Row /\ event' = [event EXCEPT ![e] = q] /\ Dismissable(event[e])
    BY <1>9 DEF Dismiss, TypeInv, RowsOK
  <2>2. IsRow(q, "dismissed", "terminal", NoOwner, 0, event[e].attempt, event[e].decision,
              NoOwner, event[e].path)
    BY <2>1, RowTaken
  <2>3. event[e].state # "absent" /\ Freed(e)
    BY <2>1, FreeRows DEF Dismissable
  <2> HIDE DEF q
  <2>4. RowBecomes(e, event[e], q)
    BY <2>2, <2>3 DEF IsRow, RowBecomes, Terminal
  <2> QED BY <2>1, <2>4, OneRow
<1> QED BY <1>1, <1>4, <1>5, <1>6, <1>7, <1>8, <1>9
        DEF Commands, RequestRefused, Unstage, Publish, Complete, Rollback, Stage

\* The camera, the delivery worker, pruning, and time, which without stalls does
\* not run out the lease of a watcher that works.
LEMMA OtherSteps ==
  ASSUME TypeInv, LeaseInv, ~Stalls,
         \/ \E c \in Captures : Upload(c)
         \/ \E d \in Decisions : DeliverQueued(d)
         \/ Prune \/ Tick \/ UNCHANGED vars
  PROVE  /\ \A w \in Watchers : watcher'[w] = watcher[w] /\ todo'[w] = todo[w]
         /\ \A c \in Captures : RowStep(c)
<1> USE DEF ledger, delivery, processes, bounds
<1>1. \A w \in Watchers : watcher'[w] = watcher[w] /\ todo'[w] = todo[w]
  BY DEF Upload, DeliverQueued, Prune, Tick, vars
<1>2. CASE Prune
  <2>1. ASSUME NEW c \in Captures PROVE RowStep(c)
    <3>1. event'[c] = IF Prunable(c) THEN NoRow ELSE event[c]
      BY <1>2 DEF Prune
    <3>2. CASE Prunable(c)
      <4>1. event[c].state \in Terminal /\ event[c].state \notin Open
        BY <3>2 DEF Prunable, Terminal, Open
      <4>2. Freed(c)
        BY <4>1, FreeRows
      <4>3. event'[c].state = "absent" /\ event'[c].decision = NoDecision
        BY <3>1, <3>2 DEF NoRow
      <4> QED BY <4>1, <4>2, <4>3 DEF RowStep, RowBecomes
    <3>3. CASE ~Prunable(c)
      BY <3>1, <3>3 DEF RowStep, RowBecomes
    <3> QED BY <3>2, <3>3
  <2> QED BY <1>1, <2>1
<1>3. CASE Tick
  <2>1. ASSUME NEW c \in Captures PROVE RowStep(c)
    <3>1. event[c] \in Row /\ event'[c] = Older(event[c])
      BY <1>3 DEF Tick, TypeInv, RowsOK
    <3>2. /\ event'[c].state = event[c].state /\ event'[c].phase = event[c].phase
          /\ event'[c].attempt = event[c].attempt /\ event'[c].decision = event[c].decision
          /\ event'[c].owner = event[c].owner
          /\ Older(event[c]).owner = event[c].owner
      BY <3>1, RowTaken DEF IsRow
    <3>3. CASE \E w \in Watchers : watcher[w].pc \in Holding /\ On(w) = c
      <4>1. PICK w \in Watchers : watcher[w].pc \in Holding /\ On(w) = c
        BY <3>3
      <4>2. event[c].owner = w /\ event[c].lease > 1
        BY <4>1 DEF LeaseInv, Held
      <4>3. watcher[w].pc \notin {"down", "recovering", "idle", "received"}
        BY <4>1 DEF Holding, Facing, Calling
      <4>4. AtWork(event[c].owner) /\ ActiveLease(event[c])
        BY <4>2, <4>3, OwnersApart DEF AtWork, ActiveLease
      <4>5. ActiveLease(Older(event[c]))
        BY <1>3, <4>4 DEF Tick, RunsOut
      <4>6. event'[c].lease > 1
        BY <3>1, <4>5 DEF ActiveLease
      <4> QED BY <3>2, <4>6 DEF RowStep, RowBecomes
    <3>4. CASE ~\E w \in Watchers : watcher[w].pc \in Holding /\ On(w) = c
      BY <3>2, <3>4 DEF RowStep, RowBecomes, Freed
    <3> QED BY <3>3, <3>4
  <2> QED BY <1>1, <2>1
<1>4. CASE UNCHANGED event
  BY <1>1, <1>4, QuietRows
<1> QED BY <1>2, <1>3, <1>4 DEF Upload, DeliverQueued, vars

\* So every step of the system moves the rows and the watchers like that.
LEMMA StepsAre ==
  ASSUME TypeInv, LeaseInv, RecoveryApart, ~Stalls, [Next]_vars
  PROVE  /\ \A w \in Watchers : WatcherStep(w)
         /\ \A c \in Captures : RowStep(c)
<1>1. ASSUME NEW w \in Watchers, WatcherStep(w), Alone(w), \A c \in Captures : RowStep(c)
      PROVE  /\ \A v \in Watchers : WatcherStep(v)
             /\ \A c \in Captures : RowStep(c)
  BY <1>1, WatcherRests DEF Alone
<1>2. ASSUME NEW w \in Watchers, Steps(w) \/ Crash(w)
      PROVE  /\ \A v \in Watchers : WatcherStep(v)
             /\ \A c \in Captures : RowStep(c)
  BY <1>1, <1>2, LedgeredSteps, JudgedSteps, SubmittedSteps, ClosedSteps, StartedSteps DEF Steps
<1>3. ASSUME NEW w \in Watchers, NEW c \in Captures,
             Recovered(w, c) \/ \E file \in Uploads : Polled(w, c, file)
      PROVE  /\ \A v \in Watchers : WatcherStep(v)
             /\ \A e \in Captures : RowStep(e)
  BY <1>1, <1>3, RecoveredSteps
<1>4. ASSUME NEW o \in Operators,
             \/ Commands(o) \/ OperatorDies(o)
             \/ \E c \in Captures : Stage(o, c) \/ Dismiss(o, c)
      PROVE  /\ \A v \in Watchers : WatcherStep(v)
             /\ \A e \in Captures : RowStep(e)
  BY <1>4, OperatorSteps, WatcherRests
<1>5. ASSUME \/ \E c \in Captures : Upload(c)
             \/ \E d \in Decisions : DeliverQueued(d)
             \/ Prune \/ Tick \/ UNCHANGED vars
      PROVE  /\ \A v \in Watchers : WatcherStep(v)
             /\ \A e \in Captures : RowStep(e)
  BY <1>5, OtherSteps, WatcherRests
<1> QED BY <1>2, <1>3, <1>4, <1>5 DEF Next

\* The lease stays with the watcher that works under it.
LEMMA LeaseStep ==
  TypeInv /\ LeaseInv /\ RecoveryApart /\ ~Stalls /\ [Next]_vars => LeaseInv'
<1> SUFFICES ASSUME TypeInv, LeaseInv, RecoveryApart, ~Stalls, [Next]_vars,
                    NEW w \in Watchers
             PROVE  /\ watcher'[w].pc \in Holding => Held(w)'
                    /\ watcher'[w].pc \in Calling => AtBoundary(w)'
                    /\ watcher'[w].pc \in Holding \cup {"received"} => todo'[w] = NothingToDo
  BY DEF LeaseInv, NothingToDo
<1> DEFINE r == watcher[w]
           q == watcher'[w]
<1>0. /\ "received" \notin Holding /\ "leased" \in Holding /\ "leased" \notin Calling
      /\ Calling \subseteq Holding /\ "persisted" \notin Calling
  BY DEF Holding, Facing, Calling
<1>1. WatcherStep(w) /\ \A c \in Captures : RowStep(c)
  BY StepsAre
<1>2. CASE q.pc \notin Holding
  BY <1>0, <1>1, <1>2 DEF WatcherStep
<1>3. CASE r.pc = "received" /\ q.pc = "leased" /\ Held(w)' /\ todo'[w] = todo[w]
  BY <1>0, <1>3 DEF LeaseInv
<1>4. CASE /\ r.pc \in Holding /\ q.pc \in Holding /\ todo'[w] = todo[w]
           /\ q.capture = r.capture /\ q.attempt = r.attempt
           /\ q.pc \in Calling => \/ r.pc \in Calling /\ q.face = r.face
                                  \/ AtBoundary(w)'
  <2> DEFINE c == On(w)
  <2>1. c \in Captures /\ On(w)' = c /\ Held(w) /\ todo'[w] = NothingToDo
    <3>1. WatcherOK(r)
      BY DEF TypeInv, WatchersOK
    <3> QED BY <1>4, <3>1 DEF WatcherOK, On, LeaseInv
  <2>2. ~Freed(c)
    BY <1>4 DEF Freed
  <2>3. \/ /\ event'[c].state = event[c].state \/ (event'[c].state \in Open /\ event[c].state \in Open)
           /\ event'[c].phase = event[c].phase /\ event'[c].attempt = event[c].attempt
           /\ event'[c].decision = event[c].decision
           /\ event'[c].owner = event[c].owner
           /\ event[c].lease > 1 => event'[c].lease > 1
        \/ \E v \in Watchers :
             /\ watcher[v].pc = "persisted" /\ On(v) = c /\ event[c].owner = v
             /\ event'[c].owner = v /\ event'[c].lease > 1 /\ event'[c].state = "processing"
             /\ event'[c].phase = "delivery_in_progress" /\ event'[c].attempt = event[c].attempt
             /\ event'[c].decision = Decision(v)
    <3>1. RowStep(c)
      BY <1>1, <2>1
    <3> QED BY <2>2, <3>1 DEF RowStep, RowBecomes
  <2>4. Held(w)'
    BY <1>4, <2>1, <2>3 DEF Held, Open
  <2>5. ASSUME q.pc \in Calling PROVE AtBoundary(w)'
    <3>1. CASE AtBoundary(w)'
      BY <3>1
    <3>2. CASE r.pc \in Calling /\ q.face = r.face
      <4>1. AtBoundary(w) /\ Decision(w)' = Decision(w)
        BY <1>4, <2>1, <3>2 DEF LeaseInv, Decision
      <4>2. event[c].owner = w /\ r.pc # "persisted"
        BY <1>0, <2>1, <3>2 DEF Held
      <4>3. event'[c].phase = event[c].phase /\ event'[c].decision = event[c].decision
        BY <2>1, <2>3, <4>2
      <4> QED BY <2>1, <4>1, <4>3 DEF AtBoundary
    <3> QED BY <1>4, <2>5, <3>1, <3>2
  <2> QED BY <2>1, <2>4, <2>5
<1>5. q.pc \notin Holding \cup {"received"} \/ q.pc = "received" => q.pc \notin Holding
  BY <1>0
<1> QED BY <1>1, <1>2, <1>3, <1>4, <1>5 DEF WatcherStep

\* Nobody works at first.
LEMMA LeaseInit == Init => LeaseInv
BY DEF Init, LeaseInv, Resting, Holding, Facing, Calling

\* Two watchers are never both between begin_delivery_attempt and the end of the
\* ERPNext call for one capture (watch_service.py), for any number of watchers,
\* if none stops for longer than its lease, and startup recovery only finishes
\* events that no other watcher has been given meanwhile.
THEOREM SubmitsAlone ==
  ASSUME ~Stalls PROVE Spec /\ []RecoveryApart => []OneSubmitter
<1>1. Init => TypeInv /\ LeaseInv
  BY TypesInit, LeaseInit
<1>2. TypeInv /\ LeaseInv /\ RecoveryApart /\ [Next]_vars => (TypeInv /\ LeaseInv)'
  BY TypesStep, LeaseStep
<1>3. LeaseInv => OneSubmitter
  BY OneHolder DEF OneSubmitter, Holding, Facing, Calling
<1> QED BY <1>1, <1>2, <1>3, PTL DEF Spec

-----------------------------------------------------------------------------
(***************************************************************************)
(* One capture, one check-in.                                              *)
(***************************************************************************)

\* What the ledger still says of each submission: its event was not taken up
\* for another attempt, unless it was pruned, and then there is its tombstone.
SentInv ==
  \A d \in sent :
    /\ d.event \in tombstone
    /\ event[d.event].state # "absent" =>
         Past(event[d.event]) /\ event[d.event].attempt = d.attempt

\* The tombstones stay.
LEMMA TombstonesStay == [Next]_vars => tombstone \subseteq tombstone'
<1> USE DEF ledger, vars
<1> SUFFICES ASSUME [Next]_vars PROVE tombstone \subseteq tombstone'
  OBVIOUS
<1>1. ASSUME NEW w \in Watchers, Ledgered(w) PROVE UNCHANGED tombstone
  BY <1>1 DEF Ledgered, Acquire, AcquireAmbiguous, AcquireRefused, TurnAway, Renew,
              RenewRefused, Advance, Fails, Breaks, BreaksOff
<1>2. ASSUME NEW w \in Watchers, Judged(w) \/ Submitted(w) PROVE UNCHANGED tombstone
  BY <1>2 DEF Judged, Submitted, Reject, Unaccepted, DecisionTaken, Reserve, Suppress, Persist,
              PersistFails, Begin, BeginFails, Call, Raised, Doubt, DoubtFails, MarkDelivered,
              MarkDeliveredFails, Commit, CommitFails
<1>3. ASSUME NEW w \in Watchers, Closed(w) \/ Started(w) \/ Crash(w) PROVE UNCHANGED tombstone
  BY <1>3 DEF Closed, Started, Release, ReleaseFails, AllScored, Dispose, Finalize, FinalizeFails,
              Restart, Recover, Crash
<1>4. ASSUME NEW w \in Watchers, NEW c \in Captures,
             Recovered(w, c) \/ \E file \in Uploads : Polled(w, c, file)
      PROVE  tombstone \subseteq tombstone'
  BY <1>4 DEF Recovered, Polled, RetryReady, RetryMissing, RetainDoubtful, RecordRetention,
              Receive, Replay
<1>5. ASSUME NEW o \in Operators,
             \/ Commands(o) \/ OperatorDies(o)
             \/ \E c \in Captures : Stage(o, c) \/ Dismiss(o, c)
      PROVE  UNCHANGED tombstone
  BY <1>5 DEF Commands, Request, RequestRefused, Unstage, Publish, Complete, Rollback,
              MarkFailed, OperatorDies, Stage, Dismiss
<1>6. ASSUME \/ \E c \in Captures : Upload(c)
             \/ \E d \in Decisions : DeliverQueued(d)
             \/ Prune \/ Tick \/ UNCHANGED vars
      PROVE  UNCHANGED tombstone
  BY <1>6 DEF Upload, DeliverQueued, Prune, Tick
<1> QED BY <1>1, <1>2, <1>3, <1>4, <1>5, <1>6 DEF Next, Steps

\* Without a worker, only the call of a watcher submits anything.
LEMMA OnlyCallsSubmit ==
  ASSUME ~WorkerMode, [Next]_vars
  PROVE  \/ UNCHANGED <<sent, docs>>
         \/ \E w \in Watchers : Call(w)
<1> USE DEF delivery, vars
<1>1. ASSUME NEW w \in Watchers, Ledgered(w) PROVE UNCHANGED <<sent, docs>>
  BY <1>1 DEF Ledgered, Acquire, AcquireAmbiguous, AcquireRefused, TurnAway, Renew,
              RenewRefused, Advance, Fails, Breaks, BreaksOff
<1>2. ASSUME NEW w \in Watchers, Judged(w) \/ Submitted(w), ~Call(w) PROVE UNCHANGED <<sent, docs>>
  BY <1>2 DEF Judged, Submitted, Reject, Unaccepted, DecisionTaken, Reserve, Suppress, Persist,
              PersistFails, Begin, BeginFails, Raised, Doubt, DoubtFails, MarkDelivered,
              MarkDeliveredFails, Commit, CommitFails
<1>3. ASSUME NEW w \in Watchers, Closed(w) \/ Started(w) \/ Crash(w) PROVE UNCHANGED <<sent, docs>>
  BY <1>3 DEF Closed, Started, Release, ReleaseFails, AllScored, Dispose, Finalize, FinalizeFails,
              Restart, Recover, Crash
<1>4. ASSUME NEW w \in Watchers, NEW c \in Captures,
             Recovered(w, c) \/ \E file \in Uploads : Polled(w, c, file)
      PROVE  UNCHANGED <<sent, docs>>
  BY <1>4 DEF Recovered, Polled, RetryReady, RetryMissing, RetainDoubtful, RecordRetention,
              Receive, Replay
<1>5. ASSUME NEW o \in Operators,
             \/ Commands(o) \/ OperatorDies(o)
             \/ \E c \in Captures : Stage(o, c) \/ Dismiss(o, c)
      PROVE  UNCHANGED <<sent, docs>>
  BY <1>5 DEF Commands, Request, RequestRefused, Unstage, Publish, Complete, Rollback,
              MarkFailed, OperatorDies, Stage, Dismiss
<1>6. ASSUME \/ \E c \in Captures : Upload(c)
             \/ \E d \in Decisions : DeliverQueued(d)
             \/ Prune \/ Tick \/ UNCHANGED vars
      PROVE  UNCHANGED <<sent, docs>>
  BY <1>6 DEF Upload, DeliverQueued, Prune, Tick
<1> QED BY <1>1, <1>2, <1>3, <1>4, <1>5, <1>6 DEF Next, Steps

\* NoDecision is the id of none.
LEMMA DecisionsApart == NoDecision \notin Decisions /\ \A d \in Decisions : d.event \in Captures
BY ProcessingAssumption DEF NoDecision, Decisions

\* A delivery is of a decision of the event.
LEMMA BegunIs ==
  ASSUME TypeInv, NEW w \in Watchers, watcher[w].pc \in Facing
  PROVE  /\ Decision(w) \in Decisions /\ Decision(w) # NoDecision /\ Decision(w).event = On(w)
         /\ Decision(w).attempt = watcher[w].attempt /\ Decision(w).face = watcher[w].face
         /\ On(w) \in Captures
<1>1. Decision(w) \in Decisions /\ On(w) \in Captures
  BY AtFace
<1> QED BY <1>1, DecisionsApart DEF Decision

\* The ledger stays in order.
LEMMA LedgerStep ==
  ASSUME TypeInv, LedgerInv, [Next]_vars, \A c \in Captures : RowStep(c)
  PROVE  LedgerInv'
<1> SUFFICES ASSUME NEW c \in Captures
             PROVE  /\ event'[c].state # "absent" => c \in tombstone'
                    /\ event'[c].decision # NoDecision => event'[c].decision.event = c
  BY DEF LedgerInv
<1>1. RowStep(c) /\ tombstone \subseteq tombstone'
  BY TombstonesStay
<1>2. \A w \in Watchers : watcher[w].pc = "persisted" => Decision(w).event = On(w)
  BY BegunIs DEF Facing
<1>3. \A w \in Watchers : watcher[w].pc = "persisted" /\ event[c].owner = w => event[c].state # "absent"
  BY OwnersApart DEF TypeInv, RowsOK, RowOK
<1> QED BY <1>1, <1>2, <1>3 DEF LedgerInv, RowStep, RowBecomes, Open, Terminal

\* What the ledger says of a submission, it goes on to say.
LEMMA PastStays ==
  ASSUME TypeInv, NEW c \in Captures, RowStep(c), c \in tombstone,
         event[c].state # "absent" => Past(event[c])
  PROVE  event'[c].state # "absent" =>
           /\ event[c].state # "absent"
           /\ Past(event'[c]) /\ event'[c].attempt = event[c].attempt
<1>1. \A w \in Watchers : watcher[w].pc = "persisted" => Decision(w) # NoDecision
  BY BegunIs DEF Facing
<1>2. \A w \in Watchers : watcher[w].pc = "persisted" /\ event[c].owner = w => event[c].state # "absent"
  BY OwnersApart DEF TypeInv, RowsOK, RowOK
<1> QED BY <1>1, <1>2 DEF RowStep, RowBecomes, Past, CrossedBoundary, Open, Terminal

\* So it stays true of all of them, and no face of a capture has two.
LEMMA SentStep ==
  ASSUME TypeInv, LeaseInv, LedgerInv, ~WorkerMode, [Next]_vars,
         \A c \in Captures : RowStep(c), SentInv, SubmittedOnce
  PROVE  SentInv' /\ SubmittedOnce'
<1>1. \A d \in sent : d \in Decisions /\ d.event \in Captures
  BY DecisionsApart DEF TypeInv, DeliveriesOK
<1>2. ASSUME NEW d \in sent
      PROVE  /\ d.event \in tombstone'
             /\ event'[d.event].state # "absent" =>
                  Past(event'[d.event]) /\ event'[d.event].attempt = d.attempt
  BY <1>1, <1>2, PastStays, TombstonesStay DEF SentInv
<1>3. CASE UNCHANGED <<sent, docs>>
  BY <1>2, <1>3 DEF SentInv, SubmittedOnce
<1>4. ASSUME NEW w \in Watchers, Call(w)
      PROVE  SentInv' /\ SubmittedOnce'
  <2> DEFINE d == Decision(w)
             c == On(w)
  <2>1. /\ watcher[w].pc = "submitting" /\ sent' = sent \cup {d}
        /\ UNCHANGED <<event, tombstone>>
    BY <1>4 DEF Call, At, ledger
  <2>2. /\ Held(w) /\ AtBoundary(w)
        /\ d \in Decisions /\ d # NoDecision /\ d.event = c /\ d.attempt = watcher[w].attempt
        /\ c \in Captures
    BY <2>1, BegunIs DEF LeaseInv, Holding, Facing, Calling
  <2>3. event[c].state # "absent" /\ c \in tombstone /\ event[c].attempt = d.attempt /\ Past(event[c])
    BY <2>2 DEF Held, AtBoundary, LedgerInv, Open, Past
  <2>4. SentInv'
    BY <1>2, <2>1, <2>2, <2>3 DEF SentInv
  <2>5. ASSUME NEW e \in sent, e.event = d.event, e.face = d.face PROVE e = d
    <3>1. e.attempt = d.attempt
      BY <2>2, <2>3, <2>5 DEF SentInv
    <3> HIDE DEF d
    <3> QED BY <1>1, <2>2, <2>5, <3>1 DEF Decisions
  <2> HIDE DEF d
  <2>6. SubmittedOnce'
    BY <2>1, <2>5 DEF SubmittedOnce
  <2> QED BY <2>4, <2>6
<1> QED BY <1>3, <1>4, OnlyCallsSubmit

\* Everything that is proved of the lease and the ledger.
OnceInv == TypeInv /\ LeaseInv /\ LedgerInv /\ SentInv /\ SubmittedOnce

\* Nothing is submitted at first.
LEMMA OnceInit == Init => OnceInv
<1> SUFFICES ASSUME Init PROVE LedgerInv /\ SentInv /\ SubmittedOnce
  BY TypesInit, LeaseInit DEF OnceInv
<1> QED BY DEF Init, LedgerInv, SentInv, SubmittedOnce, NoRow

\* And every step keeps it, while time waits for those at work and recovery is apart.
LEMMA OnceStep ==
  ASSUME ~Stalls, ~WorkerMode
  PROVE  OnceInv /\ RecoveryApart /\ [Next]_vars => OnceInv'
<1> SUFFICES ASSUME OnceInv, RecoveryApart, [Next]_vars PROVE OnceInv'
  OBVIOUS
<1>1. \A c \in Captures : RowStep(c)
  BY StepsAre DEF OnceInv
<1>2. TypeInv' /\ LeaseInv' /\ LedgerInv'
  BY <1>1, TypesStep, LeaseStep, LedgerStep DEF OnceInv
<1> QED BY <1>1, <1>2, SentStep DEF OnceInv

\* ERPNext is asked at most once for each face of a capture in the synchronous
\* mode, whatever is uploaded, reprocessed, dismissed, pruned or restarted
\* (processing_recovery.py, watch_service.py), unless a process stops for longer
\* than its lease, or startup recovery overlaps another watcher's work.
THEOREM AskedOnce ==
  ASSUME ~Stalls, ~WorkerMode PROVE Spec /\ []RecoveryApart => []SubmittedOnce
<1>1. OnceInv => SubmittedOnce
  BY DEF OnceInv
<1> QED BY <1>1, OnceInit, OnceStep, PTL DEF Spec

\* Once ERPNext was asked, acquire_event_lease gives no further attempt of the
\* event, neither to recovery nor to an operator's reprocess.
THEOREM NeverTakenUpAgain ==
  ASSUME ~Stalls, ~WorkerMode PROVE Spec /\ []RecoveryApart => NeverRetried
<1> DEFINE Kept == \A d \in sent : event'[d.event].attempt <= d.attempt
<1>1. ASSUME OnceInv, RecoveryApart, [Next]_vars PROVE Kept
  <2>1. \A c \in Captures : RowStep(c)
    BY <1>1, StepsAre DEF OnceInv
  <2>2. TypeInv'
    BY <1>1, TypesStep DEF OnceInv
  <2>3. ASSUME NEW d \in sent PROVE event'[d.event].attempt <= d.attempt
    <3>1. d \in Decisions /\ d.event \in Captures /\ d.attempt \in Nat /\ d.attempt >= 0
      BY <1>1, DecisionsApart, ProcessingAssumption DEF OnceInv, TypeInv, DeliveriesOK, Decisions
    <3>2. RowOK(event'[d.event])
      BY <2>2, <3>1 DEF TypeInv, RowsOK
    <3>3. CASE event'[d.event].state = "absent"
      BY <3>1, <3>2, <3>3 DEF RowOK
    <3>4. CASE event'[d.event].state # "absent"
      BY <1>1, <2>1, <3>1, <3>4, PastStays DEF OnceInv, SentInv
    <3> QED BY <3>3, <3>4
  <2> QED BY <2>3
<1>2. NeverRetried <=> [][Kept]_vars
  BY DEF NeverRetried
<1> HIDE DEF Kept
<1> QED BY <1>1, <1>2, OnceInit, OnceStep, PTL DEF Spec

\* With one watcher, no other one is recovering.
LEMMA OneWatcherApart ==
  ASSUME \A v, w \in Watchers : v = w PROVE RecoveryApart
BY DEF RecoveryApart

\* So, of one watcher process that no command outlives by a lease, it holds
\* without more: whatever it dies of, and wherever.
THEOREM AskedOnceByOne ==
  ASSUME ~Stalls, ~WorkerMode, \A v, w \in Watchers : v = w
  PROVE  Spec => []SubmittedOnce /\ NeverRetried
<1>1. RecoveryApart
  BY OneWatcherApart
<1> QED BY <1>1, AskedOnce, NeverTakenUpAgain, PTL

-----------------------------------------------------------------------------
(***************************************************************************)
(* The synchronous mode keeps the promise of CheckinDelivery.              *)
(***************************************************************************)

\* A job has the event it is of, or that event was pruned; a check-in has a job
\* that was begun, and a delivered job has its check-in.
JobInv ==
  \A d \in Decisions :
    /\ job[d] # "absent" =>
         d.event \in tombstone /\ (d \in decided \/ event[d.event].state = "absent")
    /\ d \in docs => job[d] \notin {"absent", "pending"}
    /\ job[d] = "delivered" => d \in docs

\* From begin_delivery_attempt to the answer, the job is the watcher's, and the
\* first check-in comes from its call.
CallInv ==
  \A w \in Watchers :
    /\ watcher[w].pc \in {"submitting", "answered", "raised"} => job[Decision(w)] = "leased"
    /\ watcher[w].pc = "submitting" => Decision(w) \notin docs
    /\ watcher[w].pc \in {"answered", "delivered"} => Decision(w) \in docs
    /\ watcher[w].pc = "delivered" => job[Decision(w)] = "delivered"

\* Steps of a watcher that move the job of the decision it is at.
MovesJob(w) == Persist(w) \/ Begin(w) \/ Raised(w) \/ MarkDelivered(w) \/ MarkDeliveredFails(w)

\* Nothing else moves a job but the two transactions that end an abandoned event.
LEMMA OnlyTheseMoveJobs ==
  ASSUME ~WorkerMode, [Next]_vars
  PROVE  \/ UNCHANGED job
         \/ \E w \in Watchers : MovesJob(w) \/ AcquireAmbiguous(w) \/ Recover(w)
<1> USE DEF delivery, vars, MovesJob
<1>1. ASSUME NEW w \in Watchers, Ledgered(w), ~AcquireAmbiguous(w) PROVE UNCHANGED job
  BY <1>1 DEF Ledgered, Acquire, AcquireRefused, TurnAway, Renew,
              RenewRefused, Advance, Fails, Breaks, BreaksOff
<1>2. ASSUME NEW w \in Watchers, Judged(w) \/ Submitted(w), ~MovesJob(w) PROVE UNCHANGED job
  BY <1>2 DEF Judged, Submitted, Reject, Unaccepted, DecisionTaken, Reserve, Suppress,
              PersistFails, BeginFails, Call, Doubt, DoubtFails, Commit, CommitFails
<1>3. ASSUME NEW w \in Watchers, Closed(w) \/ Restart(w) \/ Crash(w) PROVE UNCHANGED job
  BY <1>3 DEF Closed, Release, ReleaseFails, AllScored, Dispose, Finalize, FinalizeFails, Restart,
              Crash
<1>4. ASSUME NEW w \in Watchers, NEW c \in Captures,
             Recovered(w, c) \/ \E file \in Uploads : Polled(w, c, file)
      PROVE  UNCHANGED job
  BY <1>4 DEF Recovered, Polled, RetryReady, RetryMissing, RetainDoubtful, RecordRetention,
              Receive, Replay
<1>5. ASSUME NEW o \in Operators,
             \/ Commands(o) \/ OperatorDies(o)
             \/ \E c \in Captures : Stage(o, c) \/ Dismiss(o, c)
      PROVE  UNCHANGED job
  BY <1>5 DEF Commands, Request, RequestRefused, Unstage, Publish, Complete, Rollback,
              MarkFailed, OperatorDies, Stage, Dismiss
<1>6. ASSUME \/ \E c \in Captures : Upload(c)
             \/ \E d \in Decisions : DeliverQueued(d)
             \/ Prune \/ Tick \/ UNCHANGED vars
      PROVE  UNCHANGED job
  BY <1>6 DEF Upload, DeliverQueued, Prune, Tick
<1> QED BY <1>1, <1>2, <1>3, <1>4, <1>5, <1>6 DEF Next, Steps, Started

\* All that a step may make of a job, and of whom it may be.
JobStep(d) ==
  \/ job'[d] = job[d]
  \/ \E w \in Watchers :
       /\ Decision(w) = d /\ watcher[w].pc = "reserved" /\ Persist(w)
       /\ job[d] = "absent" /\ job'[d] = "pending" /\ d \in decided'
       /\ event[d.event].state # "absent"
  \/ \E w \in Watchers :
       /\ Decision(w) = d /\ watcher[w].pc = "persisted"
       /\ job[d] = "pending" /\ job'[d] = "leased"
  \/ \E w \in Watchers :
       /\ Decision(w) = d /\ watcher[w].pc = "answered" /\ watcher'[w].pc = "delivered"
       /\ job[d] = "leased" /\ job'[d] = "delivered"
  \/ /\ job[d] \in {"pending", "leased"} /\ job'[d] = "uncertain"
     /\ \A w \in Watchers :
          watcher[w].pc \in Calling /\ Decision(w) = d =>
            watcher'[w].pc \in {"doubting", "conceding"}

\* A watcher that delivers has an event that nobody else ends.
LEMMA DeliversHeld ==
  ASSUME TypeInv, LeaseInv, NEW w \in Watchers, watcher[w].pc \in Calling
  PROVE  /\ Decision(w) \in Decisions /\ Decision(w).event = On(w) /\ On(w) \in Captures
         /\ ~Abandoned(event[On(w)]) /\ ActiveLease(event[On(w)])
<1>1. Held(w) /\ watcher[w].pc \in Facing
  BY DEF LeaseInv, Holding, Facing
<1>2. Decision(w) \in Decisions /\ Decision(w).event = On(w) /\ On(w) \in Captures
  BY <1>1, BegunIs
<1>3. event[On(w)].lease \in Nat
  BY <1>2, ProcessingAssumption DEF TypeInv, RowsOK, Row, FullLease
<1> QED BY <1>1, <1>2, <1>3, OwnersApart DEF Held, Abandoned, ActiveLease

\* Two watchers at work never have the same decision.
LEMMA DecisionsDiffer ==
  ASSUME TypeInv, LeaseInv, NEW v \in Watchers, NEW w \in Watchers, v # w,
         watcher[v].pc \in Facing, watcher[w].pc \in Facing
  PROVE  Decision(v) # Decision(w)
<1>1. Decision(v).event = On(v) /\ Decision(w).event = On(w)
  BY BegunIs
<1>2. On(v) # On(w)
  BY OneHolder DEF Holding
<1> QED BY <1>1, <1>2

\* Every step moves the jobs like that.
LEMMA JobSteps ==
  ASSUME TypeInv, LeaseInv, LedgerInv, JobInv, CallInv, ~WorkerMode, [Next]_vars
  PROVE  \A d \in Decisions : JobStep(d)
<1> SUFFICES ASSUME NEW d \in Decisions PROVE JobStep(d)
  OBVIOUS
<1>0. job \in [Decisions -> JobStates] /\ Calling \subseteq Facing /\ d # NoDecision
  BY DecisionsApart DEF TypeInv, DeliveriesOK, Facing
<1>1. CASE UNCHANGED job
  BY <1>1 DEF JobStep
<1>2. ASSUME NEW w \in Watchers, MovesJob(w) PROVE JobStep(d)
  <2> DEFINE e == Decision(w)
  <2>1. watcher[w].pc \in Facing
    BY <1>2 DEF MovesJob, Persist, Begin, Raised, MarkDelivered, MarkDeliveredFails, At,
                Facing, Calling
  <2>2. e \in Decisions /\ e # NoDecision /\ e.event = On(w) /\ On(w) \in Captures
    BY <2>1, BegunIs
  <2>3. CASE d # e
    BY <1>0, <1>2, <2>3 DEF MovesJob, Persist, Begin, Raised, MarkDelivered, MarkDeliveredFails,
                            Doubted, JobStep
  <2>4. CASE d = e /\ Persist(w)
    <3>1. /\ watcher[w].pc = "reserved" /\ d \notin decided /\ event[d.event].state # "absent"
          /\ job' = [job EXCEPT ![d] = "pending"] /\ d \in decided'
      BY <2>2, <2>4 DEF Persist, At
    <3>2. job[d] = "absent"
      BY <3>1 DEF JobInv
    <3> QED BY <1>0, <2>4, <3>1, <3>2 DEF JobStep
  <2>5. CASE d = e /\ Begin(w)
    BY <1>0, <2>5 DEF Begin, At, JobStep
  <2>6. CASE d = e /\ MarkDelivered(w)
    <3>1. watcher[w].pc = "answered" /\ job' = [job EXCEPT ![d] = "delivered"] /\ job[d] = "leased"
      BY <2>6 DEF MarkDelivered, At, CallInv
    <3>2. watcher'[w].pc = "delivered"
      BY <2>6, Stays DEF MarkDelivered, Goes, TypeInv, WatchersOK, Stages
    <3> QED BY <1>0, <2>6, <3>1, <3>2 DEF JobStep
  <2>7. CASE d = e /\ (Raised(w) \/ MarkDeliveredFails(w)) /\ job' # job
    <3>1. /\ watcher[w].pc \in {"raised", "answered"} /\ job' = [job EXCEPT ![d] = Doubtful(job[d])]
      BY <2>2, <2>7 DEF Raised, MarkDeliveredFails, At, Doubted
    <3>2. job[d] = "leased"
      BY <2>7, <3>1 DEF CallInv
    <3>3. job'[d] = "uncertain"
      BY <1>0, <3>1, <3>2 DEF Doubtful
    <3>4. \E pc \in {"doubting", "conceding"} : watcher' = [watcher EXCEPT ![w] = [watcher[w] EXCEPT !.pc = pc]]
      BY <2>7 DEF Raised, MarkDeliveredFails, Goes
    <3>5. watcher'[w].pc \in {"doubting", "conceding"}
      BY <3>4, Stays DEF TypeInv, WatchersOK, Stages
    <3>6. ASSUME NEW v \in Watchers, watcher[v].pc \in Calling, Decision(v) = d PROVE v = w
      BY <1>0, <2>1, <2>7, <3>6, DecisionsDiffer
    <3> QED BY <3>2, <3>3, <3>5, <3>6 DEF JobStep
  <2> QED BY <1>1, <1>2, <2>3, <2>4, <2>5, <2>6, <2>7 DEF MovesJob
<1>3. ASSUME NEW w \in Watchers, AcquireAmbiguous(w) PROVE JobStep(d)
  <2> DEFINE c == On(w)
             e == event[c].decision
  <2>1. watcher[w].pc = "received" /\ job' = Doubted(e) /\ Finds(event[c], w) = "ambiguous"
    BY <1>3 DEF AcquireAmbiguous, At
  <2>2. c \in Captures /\ event[c] \in Row
    <3>1. WatcherOK(watcher[w])
      BY DEF TypeInv, WatchersOK
    <3> QED BY <2>1, <3>1 DEF WatcherOK, On, TypeInv, RowsOK
  <2>3. ~ActiveLease(event[c])
    BY <2>1, <2>2, Found
  <2>4. CASE d # e \/ job[d] \notin {"pending", "leased"}
    <3>1. job' = job \/ job' = [job EXCEPT ![e] = Doubtful(job[e])]
      BY <2>1 DEF Doubted
    <3>2. job'[d] = job[d]
      BY <1>0, <2>4, <3>1 DEF Doubtful
    <3> QED BY <3>2 DEF JobStep
  <2>5. CASE d = e /\ job[d] \in {"pending", "leased"}
    <3>1. d.event = c
      BY <1>0, <2>2, <2>5 DEF LedgerInv
    <3>2. job'[d] = "uncertain"
      BY <1>0, <2>1, <2>5 DEF Doubted, Doubtful
    <3>3. \A v \in Watchers : ~(watcher[v].pc \in Calling /\ Decision(v) = d)
      BY <2>3, <3>1, DeliversHeld
    <3> QED BY <2>5, <3>2, <3>3 DEF JobStep
  <2> QED BY <2>4, <2>5
<1>4. ASSUME NEW w \in Watchers, Recover(w) PROVE JobStep(d)
  <2>1. job'[d] = IF InDoubt(d.event) /\ event[d.event].decision = d
                  THEN Doubtful(job[d]) ELSE job[d]
    BY <1>4 DEF Recover
  <2>2. CASE job'[d] = job[d]
    BY <2>2 DEF JobStep
  <2>3. CASE job'[d] # job[d]
    <3>1. Abandoned(event[d.event]) /\ job[d] \in {"pending", "leased"} /\ job'[d] = "uncertain"
      BY <2>1, <2>3 DEF InDoubt, Doubtful
    <3>2. \A v \in Watchers : ~(watcher[v].pc \in Calling /\ Decision(v) = d)
      BY <3>1, DeliversHeld
    <3> QED BY <3>1, <3>2 DEF JobStep
  <2> QED BY <2>2, <2>3
<1> QED BY <1>1, <1>2, <1>3, <1>4, OnlyTheseMoveJobs

\* The stages from the boundary to the record of the answer.
Asking == {"submitting", "answered", "raised", "delivered"}

\* The number of an attempt.
LEMMA AttemptIs ==
  ASSUME NEW x, RowOK(x)
  PROVE  x.attempt \in 0..MaxAttempts
<1>1. x \in Row /\ x.attempt <= MaxAttempts
  BY DEF RowOK
<1>2. x.attempt \in Nat
  BY <1>1 DEF Row
<1> QED BY <1>1, <1>2, ProcessingAssumption

\* They are entered by begin_delivery_attempt, the call, and its record.
LEMMA OthersDoNotAsk ==
  ASSUME TypeInv, NEW w \in Watchers, Steps(w) \/ Crash(w),
         ~Begin(w), ~Call(w), ~MarkDelivered(w)
  PROVE  watcher'[w].pc \notin Asking
<1> DEFINE r == watcher[w]
<1> SUFFICES ASSUME NEW q, Goes(w, q),
                    \/ \E pc \in Stages \ Asking : q = [r EXCEPT !.pc = pc]
                    \/ \E pc \in Stages \ Asking, v \in Verdicts : q = [r EXCEPT !.pc = pc, !.verdict = v]
                    \/ \E pc \in Stages \ Asking, a \in Places \cup {Nowhere} : q = [r EXCEPT !.pc = pc, !.at = a]
                    \/ \E n \in 0..MaxAttempts : q = [r EXCEPT !.pc = "leased", !.attempt = n]
                    \/ q = [r EXCEPT !.pc = "scoring", !.face = 1]
                    \/ q = NextFace(w) \/ q = [NextFace(w) EXCEPT !.queued = TRUE]
                    \/ q = [NextFace(w) EXCEPT !.made = TRUE]
                    \/ q \in {Resting, Down, [Down EXCEPT !.pc = "recovering"]}
             PROVE  q.pc \notin Asking
  <2>0. {"refused", "renewed", "failing", "breaking", "finalizing", "disposing", "reserved",
         "persisted", "doubting", "conceding", "scoring"} \subseteq Stages \ Asking
        /\ {"uncertain", "duplicate", "broken", "rejected", "failed", "checkin_created", "processed"}
             \subseteq Verdicts
    BY DEF Stages, Asking, Verdicts
  <2>1. ASSUME NEW q, Goes(w, q) PROVE watcher'[w] = q
    BY <2>1 DEF Goes, TypeInv, WatchersOK
  <2>2. CASE Ledgered(w)
    <3>1. CASE Acquire(w)
      <4>1. r.pc = "received"
        BY <3>1 DEF Acquire, At
      <4>2. On(w) \in Captures /\ TypeInv'
        BY <2>2, <4>1, LedgeredTypes DEF TypeInv, WatchersOK, WatcherOK, On
      <4>3. event'[On(w)].attempt \in 0..MaxAttempts
        <5>1. \A c \in Captures : RowOK(event'[c])
          <6>1. RowsOK'
            BY <4>2 DEF TypeInv
          <6> QED BY <6>1 DEF RowsOK
        <5>2. RowOK(event'[On(w)])
          BY <4>2, <5>1
        <5> QED BY <5>2, AttemptIs
      <4>4. Goes(w, [r EXCEPT !.pc = "leased", !.attempt = event'[On(w)].attempt])
        BY <3>1 DEF Acquire
      <4> QED BY <2>1, <4>3, <4>4
    <3>2. CASE ~Acquire(w)
      <4>1. CASE AcquireAmbiguous(w)
        BY <2>0, <2>1, <4>1 DEF AcquireAmbiguous
      <4>2. CASE AcquireRefused(w)
        BY <2>0, <2>1, <4>2 DEF AcquireRefused
      <4>3. CASE TurnAway(w) \/ RenewRefused(w)
        BY <2>1, <4>3 DEF TurnAway, RenewRefused
      <4>4. CASE Renew(w) \/ Fails(w)
        BY <2>0, <2>1, <4>4 DEF Renew, Fails, Failing
      <4>5. CASE Advance(w)
        BY <2>1, <4>5 DEF Advance
      <4>6. CASE Breaks(w) \/ BreaksOff(w)
        BY <2>0, <2>1, <4>6 DEF Breaks, BreaksOff
      <4> QED BY <2>2, <3>2, <4>1, <4>2, <4>3, <4>4, <4>5, <4>6 DEF Ledgered
    <3> QED BY <3>1, <3>2
  <2>3. CASE Judged(w)
    <3>1. CASE Reject(w)
      BY <2>0, <2>1, <3>1 DEF Reject, Disposing
    <3>2. CASE Unaccepted(w) \/ Suppress(w)
      BY <2>1, <3>2 DEF Unaccepted, Suppress
    <3>3. CASE DecisionTaken(w) \/ Reserve(w)
      BY <2>0, <2>1, <3>3 DEF DecisionTaken, Reserve, Failing
    <3> QED BY <2>3, <3>1, <3>2, <3>3 DEF Judged
  <2>4. CASE Submitted(w)
    <3>1. CASE Persist(w)
      BY <2>0, <2>1, <3>1 DEF Persist
    <3>2. CASE PersistFails(w) \/ BeginFails(w)
      BY <2>0, <2>1, <3>2 DEF PersistFails, BeginFails, Failing
    <3>3. CASE Raised(w) \/ MarkDeliveredFails(w) \/ CommitFails(w)
      BY <2>0, <2>1, <3>3 DEF Raised, MarkDeliveredFails, CommitFails
    <3>4. CASE Doubt(w) \/ DoubtFails(w)
      BY <2>0, <2>1, <3>4 DEF Doubt, DoubtFails, Failing, Disposing
    <3>5. CASE Commit(w)
      BY <2>1, <3>5 DEF Commit
    <3> QED BY <2>4, <3>1, <3>2, <3>3, <3>4, <3>5 DEF Submitted
  <2>5. CASE Closed(w)
    <3>1. CASE Release(w) \/ AllScored(w)
      BY <2>0, <2>1, <3>1 DEF Release, AllScored, Disposing
    <3>2. CASE Dispose(w)
      <4>1. r.file \in Uploads
        BY DEF TypeInv, WatchersOK, Watching
      <4>2. PICK a \in Places \cup {Nowhere} : Goes(w, [r EXCEPT !.pc = "finalizing", !.at = a])
        BY <3>2, <4>1 DEF Dispose, RejectedTo, Places
      <4> QED BY <2>0, <2>1, <4>2
    <3>3. CASE Finalize(w) \/ FinalizeFails(w)
      BY <2>1, <3>3 DEF Finalize, FinalizeFails, Closing
    <3>4. CASE ReleaseFails(w)
      BY <2>0, <2>1, <3>4 DEF ReleaseFails
    <3> QED BY <2>5, <3>1, <3>2, <3>3, <3>4 DEF Closed
  <2>6. CASE Started(w) \/ Crash(w)
    BY <2>1, <2>6 DEF Started, Restart, Recover, Crash
  <2> QED BY <2>2, <2>3, <2>4, <2>5, <2>6 DEF Steps
<1>0. Stages \ Asking \subseteq Stages /\ {"leased", "scoring"} \cap Asking = {}
  BY DEF Asking
<1>1. ASSUME NEW pc \in Stages \ Asking, q = [r EXCEPT !.pc = pc] PROVE q.pc \notin Asking
  BY <1>1, Stays
<1>2. ASSUME NEW pc \in Stages \ Asking, NEW v \in Verdicts, q = [r EXCEPT !.pc = pc, !.verdict = v]
      PROVE q.pc \notin Asking
  <2>1. pc \in Stages /\ pc \notin Asking
    OBVIOUS
  <2>2. [r EXCEPT !.pc = pc, !.verdict = v].pc = pc
    BY <2>1 DEF TypeInv, WatchersOK, Watching
  <2> QED BY <1>2, <2>1, <2>2
<1>3. ASSUME NEW pc \in Stages \ Asking, NEW a \in Places \cup {Nowhere},
             q = [r EXCEPT !.pc = pc, !.at = a]
      PROVE q.pc \notin Asking
  <2>1. pc \in Stages /\ pc \notin Asking
    OBVIOUS
  <2>2. [r EXCEPT !.pc = pc, !.at = a].pc = pc
    BY <2>1 DEF TypeInv, WatchersOK, Watching
  <2> QED BY <1>3, <2>1, <2>2
<1>4. ASSUME NEW n \in 0..MaxAttempts, q = [r EXCEPT !.pc = "leased", !.attempt = n]
      PROVE q.pc \notin Asking
  <2>1. [r EXCEPT !.pc = "leased", !.attempt = n].pc = "leased"
    BY Stays
  <2> QED BY <1>0, <1>4, <2>1
<1>5. CASE q = [r EXCEPT !.pc = "scoring", !.face = 1]
  <2>1. 1 \in Nat /\ "scoring" \in Stages
    BY DEF Stages
  <2> QED BY <1>0, <1>5, <2>1, Stays
<1>6. CASE q = NextFace(w)
  BY <1>0, <1>6, Stays
<1>7. CASE q = [NextFace(w) EXCEPT !.queued = TRUE]
  BY <1>0, <1>7, Stays
<1>8. CASE q = [NextFace(w) EXCEPT !.made = TRUE]
  BY <1>0, <1>8, Stays
<1>9. CASE q \in {Resting, Down, [Down EXCEPT !.pc = "recovering"]}
  <2>1. {Resting.pc, Down.pc, [Down EXCEPT !.pc = "recovering"].pc} \cap Asking = {}
    BY DEF Resting, Down, Asking
  <2> QED BY <1>9, <2>1
<1> QED BY <1>1, <1>2, <1>3, <1>4, <1>5, <1>6, <1>7, <1>8, <1>9

\* So a watcher that asks did so before, or has just taken one of these steps.
LEMMA WhoAsks ==
  ASSUME TypeInv, LeaseInv, RecoveryApart, ~Stalls, [Next]_vars, NEW w \in Watchers
  PROVE  \/ watcher'[w] = watcher[w]
         \/ watcher'[w].pc \notin Asking
         \/ Begin(w) \/ Call(w) \/ MarkDelivered(w)
<1>1. ASSUME NEW v \in Watchers, Steps(v) \/ Crash(v), v # w PROVE watcher'[w] = watcher[w]
  BY <1>1, LedgeredSteps, JudgedSteps, SubmittedSteps, ClosedSteps, StartedSteps DEF Steps, Alone
<1>2. ASSUME Steps(w) \/ Crash(w), ~Begin(w), ~Call(w), ~MarkDelivered(w)
      PROVE  watcher'[w].pc \notin Asking
  BY <1>2, OthersDoNotAsk
<1>3. ASSUME NEW v \in Watchers, NEW c \in Captures,
             Recovered(v, c) \/ \E file \in Uploads : Polled(v, c, file)
      PROVE  watcher'[w] = watcher[w] \/ watcher'[w].pc \notin Asking
  <2>1. CASE UNCHANGED watcher
    BY <2>1
  <2>2. ASSUME NEW file \in Uploads, Receive(v, c, file)
        PROVE  watcher'[w] = watcher[w] \/ watcher'[w].pc = "received"
    BY <2>2 DEF Receive, Goes, TypeInv, WatchersOK, Resting
  <2> QED BY <1>3, <2>1, <2>2 DEF Recovered, Polled, RetryReady, RetryMissing, RetainDoubtful,
                                  RecordRetention, Replay, processes, Asking
<1>4. ASSUME NEW o \in Operators,
             \/ Commands(o) \/ OperatorDies(o)
             \/ \E c \in Captures : Stage(o, c) \/ Dismiss(o, c)
      PROVE  watcher'[w] = watcher[w]
  BY <1>4, OperatorSteps
<1>5. ASSUME \/ \E c \in Captures : Upload(c)
             \/ \E d \in Decisions : DeliverQueued(d)
             \/ Prune \/ Tick \/ UNCHANGED vars
      PROVE  watcher'[w] = watcher[w]
  BY <1>5, OtherSteps
<1> QED BY <1>1, <1>2, <1>3, <1>4, <1>5 DEF Next

\* Only prune_events forgets a decision, together with its event.
LEMMA DecisionsStay ==
  ASSUME TypeInv, [Next]_vars, NEW d \in decided, d \notin decided'
  PROVE  event'[d.event].state = "absent"
<1> USE DEF delivery, vars
<1>0. d \in Decisions /\ d.event \in Captures
  BY DecisionsApart DEF TypeInv, DeliveriesOK
<1>1. ASSUME NEW w \in Watchers, Ledgered(w) PROVE d \in decided'
  BY <1>1 DEF Ledgered, Acquire, AcquireAmbiguous, AcquireRefused, TurnAway, Renew,
              RenewRefused, Advance, Fails, Breaks, BreaksOff
<1>2. ASSUME NEW w \in Watchers, Judged(w) \/ Submitted(w) PROVE d \in decided'
  BY <1>2 DEF Judged, Submitted, Reject, Unaccepted, DecisionTaken, Reserve, Suppress, Persist,
              PersistFails, Begin, BeginFails, Call, Raised, Doubt, DoubtFails, MarkDelivered,
              MarkDeliveredFails, Commit, CommitFails
<1>3. ASSUME NEW w \in Watchers, Closed(w) \/ Started(w) \/ Crash(w) PROVE d \in decided'
  BY <1>3 DEF Closed, Started, Release, ReleaseFails, AllScored, Dispose, Finalize, FinalizeFails,
              Restart, Recover, Crash
<1>4. ASSUME NEW w \in Watchers, NEW c \in Captures,
             Recovered(w, c) \/ \E file \in Uploads : Polled(w, c, file)
      PROVE  d \in decided'
  BY <1>4 DEF Recovered, Polled, RetryReady, RetryMissing, RetainDoubtful, RecordRetention,
              Receive, Replay
<1>5. ASSUME NEW o \in Operators,
             \/ Commands(o) \/ OperatorDies(o)
             \/ \E c \in Captures : Stage(o, c) \/ Dismiss(o, c)
      PROVE  d \in decided'
  BY <1>5 DEF Commands, Request, RequestRefused, Unstage, Publish, Complete, Rollback,
              MarkFailed, OperatorDies, Stage, Dismiss
<1>6. ASSUME \/ \E c \in Captures : Upload(c)
             \/ \E e \in Decisions : DeliverQueued(e)
             \/ Tick \/ UNCHANGED vars
      PROVE  d \in decided'
  BY <1>6 DEF Upload, DeliverQueued, Tick
<1>7. ASSUME Prune PROVE event'[d.event].state = "absent"
  <2>1. Prunable(d.event)
    BY <1>7 DEF Prune
  <2>2. event'[d.event] = NoRow
    BY <1>0, <1>7, <2>1 DEF Prune
  <2> QED BY <2>2 DEF NoRow
<1> QED BY <1>1, <1>2, <1>3, <1>4, <1>5, <1>6, <1>7 DEF Next, Steps

\* So no job is left without its event or its tombstone, and none is found
\* before its check-in or its check-in before it.
LEMMA JobInvStep ==
  ASSUME OnceInv, RecoveryApart, JobInv, CallInv, ~Stalls, ~WorkerMode, [Next]_vars
  PROVE  JobInv'
<1> SUFFICES ASSUME NEW d \in Decisions
             PROVE  /\ job'[d] # "absent" =>
                         /\ d.event \in tombstone'
                         /\ d \in decided' \/ event'[d.event].state = "absent"
                    /\ d \in docs' => job'[d] \notin {"absent", "pending"}
                    /\ job'[d] = "delivered" => d \in docs'
  BY DEF JobInv
<1>0. TypeInv /\ LeaseInv /\ LedgerInv /\ d.event \in Captures
  BY DecisionsApart DEF OnceInv
<1>1. JobStep(d)
  BY <1>0, JobSteps
<1>2. tombstone \subseteq tombstone'
  BY TombstonesStay
<1>3. docs \subseteq docs'
  BY OnlyCallsSubmit DEF Call
<1>4. RowStep(d.event)
  BY <1>0, StepsAre
<1>5. job'[d] # "absent" =>
         d.event \in tombstone' /\ (d \in decided' \/ event'[d.event].state = "absent")
  <2>1. CASE job[d] # "absent"
    <3>1. d.event \in tombstone /\ (d \in decided \/ event[d.event].state = "absent")
      BY <2>1 DEF JobInv
    <3>2. CASE d \in decided
      BY <1>0, <1>2, <3>1, <3>2, DecisionsStay
    <3>3. CASE event[d.event].state = "absent"
      <4>1. event'[d.event].state = "absent"
        <5>1. \A w \in Watchers : watcher[w].pc = "persisted" => event[d.event].owner # w
          BY <1>0, <3>3, OwnersApart DEF TypeInv, RowsOK, RowOK
        <5> QED BY <1>4, <3>1, <3>3, <5>1 DEF RowStep, RowBecomes, Open, Terminal
      <4> QED BY <1>2, <3>1, <4>1
    <3> QED BY <3>1, <3>2, <3>3
  <2>2. CASE job[d] = "absent" /\ job'[d] # "absent"
    <3>1. d \in decided' /\ event[d.event].state # "absent"
      BY <1>1, <2>2 DEF JobStep
    <3> QED BY <1>0, <1>2, <3>1 DEF LedgerInv
  <2> QED BY <2>1, <2>2
<1>6. d \in docs' => job'[d] \notin {"absent", "pending"}
  <2>1. CASE d \in docs
    BY <1>1, <2>1 DEF JobStep, JobInv
  <2>2. CASE d \in docs' /\ d \notin docs
    <3>1. PICK w \in Watchers : Call(w)
      BY <2>2, OnlyCallsSubmit
    <3>2. d = Decision(w) /\ watcher[w].pc = "submitting" /\ job' = job
      BY <2>2, <3>1 DEF Call, At
    <3> QED BY <3>2 DEF CallInv
  <2> QED BY <2>1, <2>2
<1>7. job'[d] = "delivered" => d \in docs'
  BY <1>1, <1>3 DEF JobStep, JobInv, CallInv
<1> QED BY <1>5, <1>6, <1>7

\* And a watcher that asks keeps its job, which nobody else ends meanwhile.
LEMMA CallInvStep ==
  ASSUME OnceInv, RecoveryApart, JobInv, CallInv, ~Stalls, ~WorkerMode, [Next]_vars
  PROVE  CallInv'
<1> SUFFICES ASSUME NEW w \in Watchers, watcher'[w].pc \in Asking
    PROVE  /\ watcher'[w].pc \in {"submitting", "answered", "raised"} => job'[Decision(w)'] = "leased"
           /\ watcher'[w].pc = "submitting" => Decision(w)' \notin docs'
           /\ watcher'[w].pc \in {"answered", "delivered"} => Decision(w)' \in docs'
           /\ watcher'[w].pc = "delivered" => job'[Decision(w)'] = "delivered"
  BY DEF CallInv, Asking
<1> DEFINE d == Decision(w)
           r == watcher[w]
<1>0. TypeInv /\ LeaseInv /\ LedgerInv /\ Asking \subseteq Calling /\ Calling \subseteq Facing
  BY DEF OnceInv, Asking, Calling, Facing
<1>1. docs \subseteq docs' /\ job \in [Decisions -> JobStates]
  BY <1>0, OnlyCallsSubmit DEF Call, TypeInv, DeliveriesOK
<1>2. ASSUME watcher'[w] = r PROVE Decision(w)' = d
  BY <1>2 DEF Decision, On
<1>3. ASSUME NEW pc \in Stages, Goes(w, [r EXCEPT !.pc = pc])
      PROVE  watcher'[w].pc = pc /\ Decision(w)' = d
  <2>1. watcher'[w] = [r EXCEPT !.pc = pc]
    BY <1>0, <1>3 DEF Goes, TypeInv, WatchersOK
  <2>2. /\ watcher'[w].pc = pc /\ watcher'[w].capture = r.capture
        /\ watcher'[w].face = r.face /\ watcher'[w].attempt = r.attempt
    BY <1>0, <1>3, <2>1, Stays
  <2> QED BY <2>2 DEF Decision, On
<1>4. {"submitting", "answered", "raised", "delivered"} \subseteq Stages
  BY DEF Stages
<1>5. CASE watcher'[w] = r
  <2>1. r.pc \in Asking /\ r.pc \in Facing /\ d \in Decisions
    BY <1>0, <1>5, BegunIs
  <2>2. JobStep(d)
    BY <1>0, <2>1, JobSteps
  <2>3. \A v \in Watchers : v # w /\ watcher[v].pc \in Facing => Decision(v) # d
    BY <1>0, <2>1, DecisionsDiffer
  <2>4. r.pc \in {"submitting", "answered", "raised"} => job'[d] = "leased"
    <3>1. ASSUME r.pc \in {"submitting", "answered", "raised"} PROVE job'[d] = "leased"
      <4>1. job[d] = "leased"
        BY <3>1 DEF CallInv
      <4>2. ~(watcher'[w].pc \in {"doubting", "conceding"}) /\ r.pc \in Calling
        BY <1>5, <3>1 DEF Calling
      <4>3. ~\E v \in Watchers :
               /\ Decision(v) = d /\ watcher[v].pc = "answered" /\ watcher'[v].pc = "delivered"
        BY <1>5, <2>3 DEF Facing, Calling
      <4> QED BY <2>2, <4>1, <4>2, <4>3 DEF JobStep
    <3> QED BY <3>1
  <2>5. r.pc = "submitting" => d \notin docs'
    <3>1. ASSUME r.pc = "submitting", d \in docs' PROVE FALSE
      <4>1. d \notin docs
        BY <3>1 DEF CallInv
      <4>2. PICK v \in Watchers : Call(v)
        BY <3>1, <4>1, OnlyCallsSubmit
      <4>3. Decision(v) = d /\ watcher[v].pc = "submitting"
        BY <3>1, <4>1, <4>2 DEF Call, At
      <4>4. v = w
        BY <2>3, <4>3 DEF Facing, Calling
      <4>5. watcher'[w].pc \in {"answered", "raised"}
        BY <1>3, <1>4, <4>2, <4>4 DEF Call
      <4> QED BY <1>5, <3>1, <4>5
    <3> QED BY <3>1
  <2>6. r.pc \in {"answered", "delivered"} => d \in docs'
    BY <1>1 DEF CallInv
  <2>7. r.pc = "delivered" => job'[d] = "delivered"
    BY <2>2 DEF CallInv, JobStep
  <2> HIDE DEF d
  <2> QED BY <1>2, <1>5, <2>4, <2>5, <2>6, <2>7
<1>6. CASE Begin(w)
  <2>1. watcher'[w].pc = "submitting" /\ Decision(w)' = d
    BY <1>3, <1>4, <1>6 DEF Begin
  <2>2. d \in Decisions /\ job[d] = "pending" /\ job' = [job EXCEPT ![d] = "leased"] /\ docs' = docs
    BY <1>0, <1>6, BegunIs DEF Begin, At, Facing
  <2>3. job'[d] = "leased" /\ d \notin docs'
    BY <1>1, <2>2 DEF JobInv
  <2> HIDE DEF d
  <2> QED BY <2>1, <2>3
<1>7. CASE Call(w)
  <2>1. r.pc = "submitting" /\ job' = job /\ job[d] = "leased"
    BY <1>7 DEF Call, At, CallInv
  <2>2. CASE docs' = docs \cup {d} /\ Goes(w, [r EXCEPT !.pc = "answered"])
    <3>1. watcher'[w].pc = "answered" /\ Decision(w)' = d /\ d \in docs'
      BY <1>3, <1>4, <2>2
    <3> HIDE DEF d
    <3> QED BY <2>1, <3>1
  <2>3. CASE Goes(w, [r EXCEPT !.pc = "raised"])
    <3>1. watcher'[w].pc = "raised" /\ Decision(w)' = d
      BY <1>3, <1>4, <2>3
    <3> HIDE DEF d
    <3> QED BY <2>1, <3>1
  <2> QED BY <1>7, <2>2, <2>3 DEF Call
<1>8. CASE MarkDelivered(w)
  <2>1. watcher'[w].pc = "delivered" /\ Decision(w)' = d
    BY <1>3, <1>4, <1>8 DEF MarkDelivered
  <2>2. r.pc = "answered" /\ job' = [job EXCEPT ![d] = "delivered"] /\ d \in Decisions
    BY <1>0, <1>8, BegunIs DEF MarkDelivered, At, Facing, Calling
  <2>3. job'[d] = "delivered" /\ d \in docs'
    BY <1>1, <2>2 DEF CallInv
  <2> HIDE DEF d
  <2> QED BY <2>1, <2>3
<1> QED BY <1>0, <1>5, <1>6, <1>7, <1>8, WhoAsks

\* Everything that the promise rests on.
PromiseInv == OnceInv /\ JobInv /\ CallInv

\* There is no job at first, and it stays true of every job.
LEMMA PromiseInit == Init => PromiseInv
<1> SUFFICES ASSUME Init PROVE JobInv /\ CallInv
  BY OnceInit DEF PromiseInv
<1> QED BY DEF Init, JobInv, CallInv, Resting

\* Every step keeps it, under the same hypotheses.
LEMMA PromiseStep ==
  ASSUME ~Stalls, ~WorkerMode
  PROVE  PromiseInv /\ RecoveryApart /\ [Next]_vars => PromiseInv'
BY OnceStep, JobInvStep, CallInvStep DEF PromiseInv

\* What the promise calls the states of a job.
LEMMA OutcomeIs ==
  ASSUME NEW d \in Decisions
  PROVE  /\ job[d] = "absent" => Outcome(d) = "none"
         /\ job[d] \in {"pending", "leased"} => Outcome(d) = "queued"
         /\ job[d] = "delivered" => Outcome(d) = "delivered"
         /\ job[d] = "uncertain" => Outcome(d) = "unknown"
BY DEF Outcome

\* A job that is there has an outcome.
LEMMA OutcomeFound ==
  ASSUME NEW d \in Decisions, job[d] = "leased"
  PROVE  Outcome(d) # "none"
BY OutcomeIs

\* Persisting a decision accepts it, and no other.
LEMMA PersistAccepts ==
  ASSUME PromiseInv, ~WorkerMode, NEW w \in Watchers, Persist(w)
  PROVE  Abstract!Accept(Decision(w)) /\ Decision(w) \in Decisions
<1> DEFINE e == Decision(w)
<1>1. /\ e \in Decisions /\ e \notin decided /\ event[e.event].state # "absent"
      /\ job' = [job EXCEPT ![e] = "pending"] /\ docs' = docs
      /\ job \in [Decisions -> JobStates]
  <2>1. watcher[w].pc = "reserved" /\ TypeInv
    BY DEF Persist, At, PromiseInv, OnceInv
  <2>2. e \in Decisions /\ e.event = On(w)
    BY <2>1, BegunIs DEF Facing
  <2> QED BY <2>1, <2>2 DEF Persist, TypeInv, DeliveriesOK
<1> HIDE DEF e
<1>2. job[e] = "absent"
  BY <1>1 DEF PromiseInv, JobInv
<1>3. \A d \in Decisions : job'[d] = IF d = e THEN "pending" ELSE job[d]
  BY <1>1
<1>4. Outcome(e) = "none"
  BY <1>1, <1>2, OutcomeIs
<1>5. ASSUME NEW d \in Decisions PROVE Outcome(d)' = IF d = e THEN "queued" ELSE Outcome(d)
  <2>1. CASE d = e
    <3>1. job'[d] = "pending"
      BY <1>3, <2>1
    <3> QED BY <2>1, <3>1 DEF Outcome
  <2>2. CASE d # e
    <3>1. job'[d] = job[d]
      BY <1>3, <2>2
    <3>2. Outcome(d)' = Outcome(d)
      BY <3>1 DEF Outcome
    <3> QED BY <2>2, <3>2
  <2> QED BY <2>1, <2>2
<1>6. [d \in Decisions |-> Outcome(d)']
        = [[d \in Decisions |-> Outcome(d)] EXCEPT ![e] = "queued"]
  BY <1>5
<1>7. Abstract!Accept(e)
  BY <1>1, <1>4, <1>6 DEF Abstract!Accept
<1> QED BY <1>1, <1>7 DEF e

\* The first check-in of a decision comes from its call.
LEMMA CallCreates ==
  ASSUME PromiseInv, NEW w \in Watchers, Call(w), docs' # docs
  PROVE  \E d \in Decisions : Abstract!Create(d)
<1>0. watcher[w].pc = "submitting" /\ TypeInv /\ job' = job /\ docs' = docs \cup {Decision(w)}
  BY DEF Call, At, PromiseInv, OnceInv
<1>1. PICK e \in Decisions : e = Decision(w)
  BY <1>0, BegunIs DEF Facing, Calling
<1>2. e \notin docs /\ job[e] = "leased" /\ job' = job /\ docs' = docs \cup {e}
  BY <1>0, <1>1 DEF PromiseInv, CallInv
<1>3. Outcome(e) # "none"
  BY <1>2, OutcomeFound
<1>4. \A d \in Decisions : Outcome(d)' = Outcome(d)
  BY <1>2 DEF Outcome
<1>5. [d \in Decisions |-> IF d \in docs' THEN {"checkin"} ELSE {}]
        = [[d \in Decisions |-> IF d \in docs THEN {"checkin"} ELSE {}] EXCEPT ![e] = {"checkin"}]
  BY <1>2
<1>6. Abstract!Create(e)
  BY <1>2, <1>3, <1>4, <1>5 DEF Abstract!Create
<1> QED BY <1>6

\* Any other step settles jobs, each once, and as delivered only with a check-in.
LEMMA OthersSettle ==
  ASSUME PromiseInv, ~WorkerMode, [Next]_vars, docs' = docs,
         \A w \in Watchers : ~Persist(w)
  PROVE  Abstract!Settle
<1>1. ASSUME NEW d \in Decisions
      PROVE  \/ Outcome(d)' = Outcome(d)
             \/ Outcome(d) = "queued" /\ Outcome(d)' = "unknown"
             \/ Outcome(d) = "queued" /\ Outcome(d)' = "delivered" /\ d \in docs
  <2>1. JobStep(d)
    BY JobSteps DEF PromiseInv, OnceInv
  <2>2. CASE job'[d] = job[d]
    BY <2>2 DEF Outcome
  <2>3. CASE job[d] = "pending" /\ job'[d] = "leased"
    BY <2>3 DEF Outcome
  <2>4. ASSUME NEW w \in Watchers, Decision(w) = d, watcher[w].pc = "answered",
               job[d] = "leased", job'[d] = "delivered"
        PROVE  Outcome(d) = "queued" /\ Outcome(d)' = "delivered" /\ d \in docs
    BY <2>4 DEF Outcome, PromiseInv, CallInv
  <2>5. CASE job[d] \in {"pending", "leased"} /\ job'[d] = "uncertain"
    BY <2>5 DEF Outcome
  <2> QED BY <2>1, <2>2, <2>3, <2>4, <2>5 DEF JobStep
<1> QED BY <1>1 DEF Abstract!Settle

\* So every step is one of the promise, or none.
LEMMA PromiseSteps ==
  ASSUME PromiseInv, ~WorkerMode, [Next]_vars
  PROVE  [Abstract!Next]_(Abstract!vars)
<1>1. ASSUME NEW w \in Watchers, Persist(w) PROVE Abstract!Next
  BY <1>1, PersistAccepts DEF Abstract!Next
<1>2. ASSUME NEW w \in Watchers, Call(w), docs' # docs PROVE Abstract!Next
  BY <1>2, CallCreates DEF Abstract!Next
<1>3. CASE docs' = docs /\ \A w \in Watchers : ~Persist(w)
  BY <1>3, OthersSettle DEF Abstract!Next
<1> QED BY <1>1, <1>2, <1>3, OnlyCallsSubmit

\* The synchronous mode implements the delivery service of CheckinDelivery, as
\* the delivery worker does: no check-in before its decision is accepted, one for
\* each, one outcome, and "delivered" only with a check-in (watch_service.py),
\* unless a process stops for longer than its lease, or startup recovery overlaps
\* another watcher's work.
THEOREM SynchronousKeepsPromise ==
  ASSUME ~Stalls, ~WorkerMode PROVE Spec /\ []RecoveryApart => ImplementsCheckinDelivery
<1>1. Init => Abstract!Init
  BY OutcomeIs DEF Init, Abstract!Init
<1>2. PromiseInv /\ [Next]_vars => [Abstract!Next]_(Abstract!vars)
  BY PromiseSteps
<1> QED BY <1>1, <1>2, PromiseInit, PromiseStep, PTL DEF Spec, ImplementsCheckinDelivery, Abstract!Spec

\* So does one watcher process, whatever it dies of and is recovered from.
THEOREM OneWatcherKeepsPromise ==
  ASSUME ~Stalls, ~WorkerMode, \A v, w \in Watchers : v = w
  PROVE  Spec => ImplementsCheckinDelivery
<1>1. RecoveryApart
  BY OneWatcherApart
<1> QED BY <1>1, SynchronousKeepsPromise, PTL

=============================================================================
