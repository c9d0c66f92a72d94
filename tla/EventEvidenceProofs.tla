-------------------------- MODULE EventEvidenceProofs --------------------------
(***************************************************************************)
(* What becomes of the faces that were queued and of the files: a queued   *)
(* face keeps its scope until its delivery is settled, the last copy of an *)
(* upload goes only with a finished event, a bad end is where the ledger   *)
(* says, and nothing is pruned while its file is in quarantine.            *)
(*                                                                         *)
(* All of it is about the way from a receipt to the end of the event and   *)
(* back through an operator's command, so that the watchers must come to   *)
(* the end: the runs show that one that dies between the move of a file    *)
(* and the record of where it went leaves neither true, and that one that  *)
(* fails at a later face gives up the scopes of those it queued.           *)
(* Operators may die anywhere.                                             *)
(***************************************************************************)
EXTENDS EventOutcomeProofs

\* What process_path ends an event as when it looked at every face ...
Finished == {"processed", "checkin_created"}

\* ... and when it did not, so that reject_file gets the upload.
Bad == {"rejected", "failed", "uncertain"}

\* No watcher dies or stops at an exception that nothing foresees, and ending an
\* event under an unexpired lease succeeds.
WatchersFinish ==
  \A w \in Watchers :
    /\ ~Crash(w) /\ ~Breaks(w) /\ ~ReleaseFails(w)
    /\ FinalizeFails(w) => UNCHANGED faults

-----------------------------------------------------------------------------
(***************************************************************************)
(* Watchers that come to the end, and the commands of operators.           *)
(***************************************************************************)

\* Every watcher is up, and none has anything left to recover.
AllUp ==
  \A w \in Watchers :
    /\ watcher[w].pc \notin {"down", "recovering", "breaking"}
    /\ watcher[w].verdict # "broken"
    /\ todo[w] = NothingToDo

\* The lease of a watcher is on the event it works at.
LeasesHeld ==
  \A c \in Captures, w \in Watchers :
    event[c].owner = w => watcher[w].pc \in Holding /\ On(w) = c

\* An open event names an upload, and one that is being delivered has a watcher.
RowPaths ==
  \A c \in Captures :
    /\ event[c].state = "absent" => event[c].path = Nowhere
    /\ event[c].state \in Open => event[c].path \in Uploads
    /\ event[c].state \in Open /\ event[c].phase = "delivery_in_progress" =>
         event[c].owner \in Watchers

\* A command took quarantined evidence and hides it, and its event stays as it was;
\* then the event is the operator's until the file is published.
Attended(o) ==
  LET c == Subject(o)
      r == event[c]
      pc == operator[o].pc IN
  pc # "idle" =>
    /\ pc \in {"staged", "refused", "requested", "published"}
    /\ operator[o].from = "kept"
    /\ pc # "published" => "stage" \in media[c]
    /\ pc \in {"staged", "refused"} => r.state \in Terminal /\ r.path = "kept"
    /\ pc \in {"requested", "published"} => CanComplete(r, o) /\ r.path = "target"

\* No two commands are about one event.
SubjectsApart ==
  \A o, p \in Operators :
    o # p /\ operator[o].pc # "idle" /\ operator[p].pc # "idle" => Subject(o) # Subject(p)

AttendedInv ==
  AllUp /\ LeasesHeld /\ RowPaths /\ (\A o \in Operators : Attended(o)) /\ SubjectsApart

\* The steps of a watcher that comes to the end ...
WatcherActs(w) ==
  \/ Acquire(w) \/ AcquireRefused(w) \/ TurnAway(w) \/ Renew(w) \/ Advance(w) \/ Fails(w)
  \/ Judged(w) \/ Submitted(w) \/ Release(w) \/ AllScored(w) \/ Dispose(w) \/ Finalize(w)
  \/ \E c \in Captures, file \in Uploads : Receive(w, c, file) \/ Replay(w, c, file)

\* ... of an operator whose command goes through ...
OperatorActs(o) ==
  \/ Request(o) \/ RequestRefused(o) \/ Unstage(o) \/ Publish(o) \/ Complete(o)
  \/ OperatorDies(o)
  \/ \E c \in Captures : Stage(o, c) \/ Dismiss(o, c)

\* ... and of nobody of them.
OtherActs ==
  \/ \E c \in Captures : Upload(c)
  \/ \E d \in Decisions : DeliverQueued(d)
  \/ Prune \/ Tick \/ UNCHANGED vars

\* A watcher at work has a row that it can end, and nothing to wonder about.
LEMMA HolderFinds ==
  ASSUME TypeInv, LeaseInv, LeasesHeld, RowPaths, NEW w \in Watchers
  PROVE  /\ watcher[w].pc \in Holding => /\ CanRenew(event[On(w)], w) /\ CanFinalize(event[On(w)], w)
                                         /\ On(w) \in Captures /\ Held(w)
         /\ watcher[w].pc = "received" =>
              On(w) \in Captures /\ Finds(event[On(w)], w) \notin {"owned", "ambiguous"}
<1>1. ASSUME watcher[w].pc \in Holding
      PROVE  /\ CanRenew(event[On(w)], w) /\ CanFinalize(event[On(w)], w)
             /\ On(w) \in Captures /\ Held(w)
  <2>1. Held(w) /\ On(w) \in Captures
    BY <1>1, WatcherGoesOn DEF LeaseInv, TypeInv, WatchersOK, On
  <2>2. event[On(w)].lease \in Nat
    BY <2>1, ProcessingAssumption DEF TypeInv, RowsOK, Row, FullLease
  <2> QED BY <2>1, <2>2 DEF Held, CanRenew, CanFinalize, Open, Terminal
<1>2. ASSUME watcher[w].pc = "received"
      PROVE  On(w) \in Captures /\ Finds(event[On(w)], w) \notin {"owned", "ambiguous"}
  <2> DEFINE r == event[On(w)]
  <2>1. On(w) \in Captures /\ r \in Row
    BY <1>2, WatcherGoesOn DEF TypeInv, WatchersOK, RowsOK, On
  <2>2. "received" \notin Holding
    BY DEF Holding, Facing, Calling
  <2>3. r.owner # w
    BY <1>2, <2>1, <2>2 DEF LeasesHeld
  <2>4. ASSUME Finds(r, w) = "ambiguous" PROVE FALSE
    <3>1. r.state \in Open /\ ~ActiveLease(r) /\ r.phase = "delivery_in_progress"
      BY <2>1, <2>4, Found
    <3>2. r.owner \in Watchers
      BY <2>1, <3>1 DEF RowPaths
    <3>3. watcher[r.owner].pc \in Holding /\ On(r.owner) = On(w)
      BY <2>1, <3>2 DEF LeasesHeld
    <3>4. Held(r.owner)
      BY <3>2, <3>3 DEF LeaseInv
    <3> QED BY <3>1, <3>2, <3>3, <3>4, OwnersApart DEF Held, ActiveLease
  <2>5. Finds(r, w) # "owned"
    BY <2>1, <2>3, Found
  <2> QED BY <2>1, <2>4, <2>5
<1> QED BY <1>1, <1>2

\* So these are all the steps that there are.
LEMMA AttendedSteps ==
  ASSUME TypeInv, LeaseInv, AttendedInv, [Next]_vars, [WatchersFinish]_vars
  PROVE  \/ \E w \in Watchers : WatcherActs(w)
         \/ \E o \in Operators : OperatorActs(o)
         \/ OtherActs
<1>0. faults \in Nat /\ faults + 1 # faults
  BY ProcessingAssumption DEF TypeInv, BoundsOK
<1>1. ASSUME NEW w \in Watchers, Fault
      PROVE  ~Crash(w) /\ ~Breaks(w) /\ ~ReleaseFails(w) /\ ~FinalizeFails(w)
  BY <1>0, <1>1 DEF Fault, WatchersFinish, vars
<1>2. ASSUME NEW w \in Watchers, Steps(w) \/ Crash(w) PROVE WatcherActs(w)
  <2>1. ~Crash(w) /\ ~Breaks(w) /\ ~ReleaseFails(w)
    BY <1>1 DEF Crash, Breaks, ReleaseFails
  <2>2. ~BreaksOff(w) /\ ~Restart(w) /\ ~Recover(w)
    BY DEF AttendedInv, AllUp, BreaksOff, Restart, Recover, At
  <2>3. ~AcquireAmbiguous(w)
    BY HolderFinds DEF AttendedInv, AcquireAmbiguous, At
  <2>4. ~RenewRefused(w)
    BY HolderFinds DEF AttendedInv, RenewRefused, At, Holding
  <2>5. ~FinalizeFails(w)
    BY <1>1, HolderFinds DEF AttendedInv, FinalizeFails, Refused, At, Holding
  <2> QED BY <1>2, <2>1, <2>2, <2>3, <2>4, <2>5 DEF Steps, Ledgered, Closed, Started, WatcherActs
<1>3. ASSUME NEW w \in Watchers, NEW c \in Captures,
             Recovered(w, c) \/ \E file \in Uploads : Polled(w, c, file)
      PROVE  WatcherActs(w)
  <2>1. ~Recovered(w, c)
    BY DEF AttendedInv, AllUp, NothingToDo, Recovered, RetryReady, RetryMissing, RetainDoubtful,
           RecordRetention
  <2> QED BY <1>3, <2>1 DEF Polled, WatcherActs
<1>4. ASSUME NEW o \in Operators,
             \/ Commands(o) \/ OperatorDies(o)
             \/ \E c \in Captures : Stage(o, c) \/ Dismiss(o, c)
      PROVE  OperatorActs(o)
  <2>1. ~Rollback(o) /\ ~MarkFailed(o)
    BY DEF AttendedInv, Attended, Rollback, MarkFailed, Does
  <2> QED BY <1>4, <2>1 DEF Commands, OperatorActs
<1> QED BY <1>2, <1>3, <1>4 DEF Next, OtherActs

-----------------------------------------------------------------------------
(***************************************************************************)
(* What a step makes of a watcher.                                         *)
(***************************************************************************)

\* Stages before a watcher knows how its event ends.
Working == Holding \ {"disposing", "finalizing", "breaking"}

\* The event, the attempt and the file stay.
SameHand(q, r) ==
  q.capture = r.capture /\ q.attempt = r.attempt /\ q.file = r.file /\ q.at = r.at

\* Where the file goes at the end.
DisposedTo(w) ==
  IF watcher[w].verdict \notin Finished THEN RejectedTo(On(w), watcher[w].file)
  ELSE IF Deletes THEN Nowhere ELSE watcher[w].file

\* The updates of a watcher, as far as its file goes: another stage,
LEMMA HandAtStage ==
  ASSUME TypeInv, NEW w \in Watchers, NEW pc \in Stages
  PROVE  LET r == watcher[w]
             q == [r EXCEPT !.pc = pc] IN
         q.pc = pc /\ SameHand(q, r) /\ q.verdict = r.verdict /\ q.face = r.face
<1>1. watcher[w] \in Watching
  BY DEF TypeInv, WatchersOK
<1> QED BY <1>1 DEF Watching, SameHand

\* a verdict,
LEMMA HandAtVerdict ==
  ASSUME TypeInv, NEW w \in Watchers, NEW pc \in Stages, NEW v \in Verdicts
  PROVE  LET r == watcher[w]
             q == [r EXCEPT !.pc = pc, !.verdict = v] IN
         q.pc = pc /\ SameHand(q, r) /\ q.verdict = v
<1>1. watcher[w] \in Watching
  BY DEF TypeInv, WatchersOK
<1> QED BY <1>1 DEF Watching, SameHand

\* a place,
LEMMA HandAtPlace ==
  ASSUME TypeInv, NEW w \in Watchers, NEW pc \in Stages, NEW a \in Places \cup {Nowhere}
  PROVE  LET r == watcher[w]
             q == [r EXCEPT !.pc = pc, !.at = a] IN
         /\ q.pc = pc /\ q.at = a /\ q.capture = r.capture /\ q.attempt = r.attempt
         /\ q.file = r.file /\ q.verdict = r.verdict
<1>1. watcher[w] \in Watching
  BY DEF TypeInv, WatchersOK
<1> QED BY <1>1 DEF Watching

\* an attempt,
LEMMA HandAtAttempt ==
  ASSUME TypeInv, NEW w \in Watchers, NEW n \in 0..MaxAttempts
  PROVE  LET r == watcher[w]
             q == [r EXCEPT !.pc = "leased", !.attempt = n] IN
         /\ q.pc = "leased" /\ q.attempt = n /\ q.capture = r.capture /\ q.file = r.file
         /\ q.verdict = r.verdict
<1>1. watcher[w] \in Watching
  BY DEF TypeInv, WatchersOK
<1> QED BY <1>1 DEF Watching

\* the first face, and the next.
LEMMA HandAtFace ==
  ASSUME TypeInv, NEW w \in Watchers
  PROVE  LET r == watcher[w] IN
         /\ LET q == [r EXCEPT !.pc = "scoring", !.face = 1] IN
            q.pc = "scoring" /\ SameHand(q, r) /\ q.verdict = r.verdict /\ q.face = 1
         /\ \A q \in {NextFace(w), [NextFace(w) EXCEPT !.queued = TRUE],
                      [NextFace(w) EXCEPT !.made = TRUE]} :
              q.pc = "scoring" /\ SameHand(q, r) /\ q.verdict = r.verdict /\ q.face = r.face + 1
<1> DEFINE r == watcher[w]
<1>1. r \in Watching
  BY DEF TypeInv, WatchersOK
<1> HIDE DEF r
<1> USE <1>1 DEF SameHand
<1>2. LET q == [r EXCEPT !.pc = "scoring", !.face = 1] IN
      q.pc = "scoring" /\ SameHand(q, r) /\ q.verdict = r.verdict /\ q.face = 1
  BY DEF Watching
<1> DEFINE n == r.face + 1
           s == [r EXCEPT !.pc = "scoring", !.face = n]
<1>3. NextFace(w) = s /\ n \in Nat /\ "scoring" \in Stages
  BY DEF NextFace, r, Watching, Stages
<1>4. n = r.face + 1
  OBVIOUS
<1> HIDE DEF n
<1>5. /\ s.pc = "scoring" /\ s.face = n
      /\ SameHand(s, r) /\ s.verdict = r.verdict /\ s \in Watching
  BY <1>3 DEF Watching
<1> HIDE DEF s
<1>6. ASSUME NEW q \in {s, [s EXCEPT !.queued = TRUE], [s EXCEPT !.made = TRUE]}
      PROVE  q.pc = "scoring" /\ SameHand(q, r) /\ q.verdict = r.verdict /\ q.face = r.face + 1
  BY <1>4, <1>5, <1>6 DEF Watching
<1> QED BY <1>2, <1>3, <1>6 DEF r

\* All that a step may make of a watcher: it rests; it lets go of its event; it
\* starts at a file; it is given the lease or refused it; it goes on; it comes to a
\* verdict; it disposes of the file.
HandStep(w) ==
  LET r == watcher[w]
      q == watcher'[w] IN
  \/ q = r
  \/ q = Resting /\ (r.pc \in {"received", "refused"} \/ Finalize(w))
  \/ /\ r.pc = "idle" /\ q.pc = "received" /\ q.verdict = "none"
     /\ \E c \in Captures, file \in Uploads :
          Receive(w, c, file) /\ q.capture = c /\ q.file = file
  \/ /\ Acquire(w) /\ r.pc = "received" /\ q.pc = "leased"
     /\ q.capture = r.capture /\ q.file = r.file /\ q.verdict = r.verdict
     /\ q.attempt = event'[On(w)].attempt
  \/ /\ AcquireRefused(w) /\ r.pc = "received" /\ q.pc = "refused" /\ SameHand(q, r)
     /\ event[On(w)].state \in Terminal
     /\ q.verdict = IF event[On(w)].state = "uncertain" THEN "uncertain" ELSE "duplicate"
  \/ /\ r.pc \in Working /\ q.pc \in Working
     /\ SameHand(q, r) /\ q.verdict = r.verdict
  \/ /\ r.pc \in Working /\ q.pc = "disposing"
     /\ SameHand(q, r) /\ q.verdict \in Endings
     /\ q.verdict = "uncertain" => r.pc \in Calling
     /\ event' = event
  \/ /\ Dispose(w) /\ r.pc = "disposing" /\ q.pc = "finalizing" /\ q.at = DisposedTo(w)
     /\ q.capture = r.capture /\ q.attempt = r.attempt /\ q.file = r.file
     /\ q.verdict = r.verdict

\* A watcher that goes on to another stage, or to its next face.
LEMMA HandGoesOn ==
  ASSUME TypeInv, NEW w \in Watchers, watcher[w].pc \in Working,
         \/ \E pc \in Working : Goes(w, [watcher[w] EXCEPT !.pc = pc])
         \/ Goes(w, [watcher[w] EXCEPT !.pc = "scoring", !.face = 1])
         \/ Goes(w, NextFace(w)) \/ Goes(w, [NextFace(w) EXCEPT !.queued = TRUE])
         \/ Goes(w, [NextFace(w) EXCEPT !.made = TRUE])
  PROVE  HandStep(w)
<1>1. PICK q : /\ Goes(w, q)
               /\ \/ \E pc \in Working : q = [watcher[w] EXCEPT !.pc = pc]
                  \/ q = [watcher[w] EXCEPT !.pc = "scoring", !.face = 1]
                  \/ q \in {NextFace(w), [NextFace(w) EXCEPT !.queued = TRUE],
                            [NextFace(w) EXCEPT !.made = TRUE]}
  OBVIOUS
<1>2. Working \subseteq Stages /\ "scoring" \in Working
  BY DEF Working, Holding, Facing, Calling, Stages
<1>3. q.pc \in Working /\ SameHand(q, watcher[w]) /\ q.verdict = watcher[w].verdict
  <2>1. CASE \E pc \in Working : q = [watcher[w] EXCEPT !.pc = pc]
    BY <1>2, <2>1, HandAtStage
  <2>2. CASE q = [watcher[w] EXCEPT !.pc = "scoring", !.face = 1]
    BY <1>2, <2>2, HandAtFace
  <2> QED BY <1>1, <1>2, <2>1, <2>2, HandAtFace
<1>4. watcher'[w] = q
  BY <1>1 DEF Goes, TypeInv, WatchersOK
<1> QED BY <1>3, <1>4 DEF HandStep

\* One that comes to a verdict.
LEMMA HandEnds ==
  ASSUME TypeInv, NEW w \in Watchers, watcher[w].pc \in Working, NEW v \in Endings,
         v = "uncertain" => watcher[w].pc \in Calling, Disposing(w, v), event' = event
  PROVE  HandStep(w)
<1> DEFINE q == [watcher[w] EXCEPT !.pc = "disposing", !.verdict = v]
<1>0. v \in Verdicts
  BY DEF Endings, Verdicts
<1>1. "disposing" \in Stages
  BY DEF Stages
<1>2. q.pc = "disposing" /\ SameHand(q, watcher[w]) /\ q.verdict = v
  BY <1>0, <1>1, HandAtVerdict DEF SameHand
<1>3. watcher'[w] = q
  BY DEF Disposing, Goes, TypeInv, WatchersOK
<1> HIDE DEF q
<1> QED BY <1>2, <1>3 DEF HandStep

\* A watcher that is given the lease.
LEMMA TakesUp ==
  ASSUME TypeInv, NEW w \in Watchers, Acquire(w), RowsOK'
  PROVE  LET r == watcher[w]
             q == watcher'[w] IN
         /\ r.pc = "received" /\ q.pc = "leased" /\ On(w) \in Captures
         /\ q.capture = r.capture /\ q.file = r.file /\ q.verdict = r.verdict
         /\ q.attempt = event'[On(w)].attempt
<1> DEFINE r == watcher[w]
           n == event'[On(w)].attempt
           q == [r EXCEPT !.pc = "leased", !.attempt = n]
<1>1. r.pc = "received" /\ watcher'[w] = q /\ On(w) \in Captures
  BY WatcherGoesOn DEF Acquire, At, Goes, TypeInv, WatchersOK, On
<1>2. n \in 0..MaxAttempts
  <2>1. RowOK(event'[On(w)])
    BY <1>1 DEF RowsOK
  <2> QED BY <2>1, AttemptIs
<1> HIDE DEF n
<1>3. /\ q.pc = "leased" /\ q.attempt = n /\ q.capture = r.capture /\ q.file = r.file
      /\ q.verdict = r.verdict
  BY <1>2, HandAtAttempt
<1> HIDE DEF q
<1> QED BY <1>1, <1>3 DEF n

\* One that is rid of the file.
LEMMA PutsAway ==
  ASSUME TypeInv, NEW w \in Watchers, Dispose(w)
  PROVE  LET r == watcher[w]
             q == watcher'[w] IN
         /\ r.pc = "disposing" /\ q.pc = "finalizing" /\ q.at = DisposedTo(w)
         /\ q.capture = r.capture /\ q.attempt = r.attempt /\ q.file = r.file
         /\ q.verdict = r.verdict
<1> DEFINE r == watcher[w]
           at == DisposedTo(w)
           q == [r EXCEPT !.pc = "finalizing", !.at = at]
<1>1. r.pc = "disposing" /\ watcher'[w] = q
  BY DEF Dispose, At, Goes, TypeInv, WatchersOK, DisposedTo, Finished
<1>2. at \in Places \cup {Nowhere} /\ "finalizing" \in Stages
  <2>1. r.file \in Places
    BY DEF TypeInv, WatchersOK, Watching, Places
  <2> QED BY <2>1 DEF DisposedTo, RejectedTo, Places, Stages
<1> HIDE DEF at
<1>3. /\ q.pc = "finalizing" /\ q.at = at /\ q.capture = r.capture /\ q.attempt = r.attempt
      /\ q.file = r.file /\ q.verdict = r.verdict
  BY <1>2, HandAtPlace
<1> HIDE DEF q
<1> QED BY <1>1, <1>3 DEF at

\* Every step moves the watchers like that.
LEMMA HandSteps ==
  ASSUME TypeInv, LeaseInv, AttendedInv, [Next]_vars, [WatchersFinish]_vars, NEW w \in Watchers
  PROVE  HandStep(w)
<1> DEFINE r == watcher[w]
<1>a. RowsOK'
  BY TypesStep DEF TypeInv
<1>0. /\ Working = Facing \cup {"leased", "renewed", "scoring", "failing"}
      /\ "idle" \notin Holding /\ "received" \notin Holding
  BY DEF Working, Holding, Facing, Calling
<1>1. CASE watcher'[w] = r
  BY <1>1 DEF HandStep
<1>2. ASSUME NEW v \in Watchers, WatcherActs(v), v # w PROVE watcher'[w] = r
  <2>1. \A q : Goes(v, q) => watcher'[w] = r
    BY <1>2 DEF Goes, TypeInv, WatchersOK
  <2>2. (\E q : Goes(v, q)) \/ UNCHANGED watcher
    <3>1. CASE Judged(v)
      BY <3>1 DEF Judged, Reject, Unaccepted, Reserve, DecisionTaken, Suppress, Disposing, Failing
    <3>2. CASE Submitted(v)
      BY <3>2 DEF Submitted, Persist, PersistFails, Begin, BeginFails, Call, Raised, Doubt,
                  DoubtFails, MarkDelivered, MarkDeliveredFails, Commit, CommitFails, Disposing,
                  Failing
    <3>3. CASE Finalize(v)
      BY <3>3 DEF Finalize, Closing
    <3>4. CASE \E c \in Captures, file \in Uploads : Receive(v, c, file) \/ Replay(v, c, file)
      BY <3>4 DEF Receive, Replay, processes
    <3> QED BY <1>2, <3>1, <3>2, <3>3, <3>4
            DEF WatcherActs, Acquire, AcquireRefused, TurnAway, Renew, Advance, Fails, Failing,
                Release, AllScored, Dispose, Disposing
  <2> QED BY <2>1, <2>2
<1>3. ASSUME WatcherActs(w) PROVE HandStep(w)
  <2>1. CASE Acquire(w)
    BY <1>a, <2>1, TakesUp DEF HandStep
  <2>2. CASE AcquireRefused(w)
    <3> DEFINE v == IF event[On(w)].state = "uncertain" THEN "uncertain" ELSE "duplicate"
               q == [r EXCEPT !.pc = "refused", !.verdict = v]
    <3>1. /\ r.pc = "received"
          /\ \/ watcher'[w] = Resting
             \/ watcher'[w] = q /\ Finds(event[On(w)], w) = "terminal"
      BY <2>2 DEF AcquireRefused, At, Goes, TypeInv, WatchersOK
    <3>2. CASE watcher'[w] = Resting
      BY <3>1, <3>2 DEF HandStep
    <3>3. CASE watcher'[w] = q /\ Finds(event[On(w)], w) = "terminal"
      <4>1. event[On(w)].state \in Terminal
        BY <3>3 DEF Finds
      <4>0. v \in Verdicts
        BY DEF Verdicts
      <4>2. "refused" \in Stages
        BY DEF Stages
      <4> HIDE DEF v
      <4>3. q.pc = "refused" /\ SameHand(q, r) /\ q.verdict = v
        BY <4>0, <4>2, HandAtVerdict DEF SameHand
      <4> HIDE DEF q
      <4> QED BY <2>2, <3>1, <3>3, <4>1, <4>3 DEF HandStep, v
    <3> QED BY <3>1, <3>2, <3>3
  <2>3. CASE TurnAway(w)
    BY <2>3 DEF TurnAway, At, Goes, TypeInv, WatchersOK, HandStep
  <2>4. CASE Renew(w) \/ Advance(w) \/ Fails(w)
    <3>1. /\ r.pc \in Working
          /\ \/ \E pc \in Working : Goes(w, [r EXCEPT !.pc = pc])
             \/ Goes(w, [r EXCEPT !.pc = "scoring", !.face = 1])
      BY <1>0, <2>4 DEF Renew, Advance, Fails, Failing, At
    <3> QED BY <3>1, HandGoesOn
  <2>5. CASE Judged(w)
    <3>1. r.pc \in Working
      BY <1>0, <2>5 DEF Judged, Reject, Unaccepted, Reserve, DecisionTaken, Suppress, At
    <3>2. CASE Reject(w)
      BY <3>1, <3>2, HandEnds DEF Reject, Endings, ledger
    <3>3. CASE ~Reject(w)
      <4>1. \/ \E pc \in Working : Goes(w, [r EXCEPT !.pc = pc])
            \/ Goes(w, NextFace(w))
        BY <1>0, <2>5, <3>3 DEF Judged, Unaccepted, Reserve, DecisionTaken, Suppress, Failing, Facing
      <4> QED BY <3>1, <4>1, HandGoesOn
    <3> QED BY <3>2, <3>3
  <2>6. CASE Submitted(w)
    <3>1. r.pc \in Working
      BY <1>0, <2>6 DEF Submitted, Persist, PersistFails, Begin, BeginFails, Call, Raised, Doubt,
                        DoubtFails, MarkDelivered, MarkDeliveredFails, Commit, CommitFails, At,
                        Facing, Calling
    <3>2. CASE Doubt(w) \/ DoubtFails(w)
      <4>1. /\ r.pc \in Calling /\ event' = event
            /\ Goes(w, [r EXCEPT !.pc = "failing"]) \/ Disposing(w, "uncertain")
        <5>1. CASE Doubt(w)
          BY <5>1 DEF Doubt, Calling, ledger, Failing
        <5>2. CASE DoubtFails(w)
          BY <5>2 DEF DoubtFails, At, Calling, ledger, Failing
        <5> QED BY <3>2, <5>1, <5>2
      <4>2. "failing" \in Working /\ "uncertain" \in Endings
        BY <1>0 DEF Endings
      <4> QED BY <3>1, <4>1, <4>2, HandEnds, HandGoesOn
    <3>3. CASE ~Doubt(w) /\ ~DoubtFails(w)
      <4>1. \/ \E pc \in Working : Goes(w, [r EXCEPT !.pc = pc])
            \/ Goes(w, [NextFace(w) EXCEPT !.queued = TRUE])
            \/ Goes(w, [NextFace(w) EXCEPT !.made = TRUE])
        BY <1>0, <2>6, <3>3 DEF Submitted, Persist, PersistFails, Begin, BeginFails, Call, Raised,
                 MarkDelivered, MarkDeliveredFails, Commit, CommitFails, Failing, Facing, Calling
      <4> QED BY <3>1, <4>1, HandGoesOn
    <3> QED BY <3>2, <3>3
  <2>7. CASE Release(w) \/ AllScored(w)
    <3>1. /\ r.pc \in Working /\ event' = event
          /\ \E v \in Endings \ {"uncertain"} : Disposing(w, v)
      BY <1>0, <2>7 DEF Release, AllScored, At, Endings, ledger
    <3> QED BY <3>1, HandEnds
  <2>8. CASE Dispose(w)
    BY <2>8, PutsAway DEF HandStep
  <2>9. CASE Finalize(w)
    <3>1. r.verdict # "broken"
      BY DEF AttendedInv, AllUp
    <3>2. watcher'[w] = Resting
      BY <2>9, <3>1 DEF Finalize, Closing, Goes, TypeInv, WatchersOK
    <3> QED BY <2>9, <3>2 DEF HandStep
  <2>10. ASSUME NEW c \in Captures, NEW file \in Uploads, Receive(w, c, file)
         PROVE  HandStep(w)
    <3>1. /\ r.pc = "idle"
          /\ watcher'[w] = [Resting EXCEPT !.pc = "received", !.capture = c, !.file = file]
      BY <2>10 DEF Receive, At, Goes, TypeInv, WatchersOK
    <3> QED BY <2>10, <3>1 DEF HandStep, Resting
  <2>11. ASSUME NEW c \in Captures, NEW file \in Uploads, Replay(w, c, file)
         PROVE  HandStep(w)
    BY <1>1, <2>11 DEF Replay, processes
  <2> QED BY <1>3, <2>1, <2>2, <2>3, <2>4, <2>5, <2>6, <2>7, <2>8, <2>9, <2>10, <2>11 DEF WatcherActs
<1>4. ASSUME NEW o \in Operators, OperatorActs(o) PROVE UNCHANGED watcher
  BY <1>4 DEF OperatorActs, Request, RequestRefused, Unstage, Publish, Complete, OperatorDies,
              Stage, Dismiss, processes
<1>5. ASSUME OtherActs PROVE UNCHANGED watcher
  BY <1>5 DEF OtherActs, Upload, DeliverQueued, Prune, Tick, processes, vars
<1> QED BY <1>1, <1>2, <1>3, <1>4, <1>5, AttendedSteps

-----------------------------------------------------------------------------
(***************************************************************************)
(* What a step makes of an event, as far as its file goes.                 *)
(***************************************************************************)

\* The row names the same file, and goes on to a new state only in the hands of a
\* watcher that holds it.
SamePath(r, q) ==
  /\ q.path = r.path /\ q.action = r.action /\ q.owner = r.owner
  /\ \/ q.state = r.state /\ q.phase = r.phase /\ q.decision = r.decision
     \/ /\ r.owner \in Watchers /\ watcher[r.owner].pc \in Working
        /\ r.state \in Open /\ q.state \in Open
  /\ r.owner \in Operators /\ operator[r.owner].pc # "idle" /\ r.lease > 1 => q.lease > 1

\* The lease of an operator who died is nobody's.
Orphaning(o, r, q) ==
  /\ q.path = r.path /\ q.state = r.state /\ q.phase = r.phase /\ q.decision = r.decision
  /\ q.lease = r.lease
  /\ q.owner = IF r.owner = o THEN Dead ELSE r.owner
  /\ q.action = IF r.action = o THEN Dead ELSE r.action

\* All that a step may make of a row: it is much the same; the operator at it died; a
\* receipt; an attempt; an end; a request; a publication; a dismissal; pruning.
PathStep(c) ==
  LET r == event[c]
      q == event'[c] IN
  \/ SamePath(r, q)
  \/ \E o \in Operators : OperatorDies(o) /\ Orphaning(o, r, q)
  \/ /\ \E w \in Watchers, file \in Uploads :
          Receive(w, c, file) /\ q.path = file /\ file \in media[c]
     /\ r.state = "absent" /\ c \notin tombstone
     /\ q.state = "received" /\ q.phase = "idle" /\ q.owner = NoOwner /\ q.decision = NoDecision
  \/ /\ \E w \in Watchers :
          Acquire(w) /\ On(w) = c /\ q.owner = w /\ watcher'[w].pc = "leased" /\ On(w)' = c
     /\ r.state \in Open /\ ~ActiveLease(r)
     /\ q.state = "processing" /\ q.phase = "pre_delivery" /\ q.path = r.path
  \/ /\ \E w \in Watchers :
          /\ Finalize(w) /\ watcher'[w] = Resting /\ On(w) = c /\ r.owner = w
          /\ q.state = watcher[w].verdict /\ q.path = watcher[w].at
     /\ r.state \in Open
     /\ q.state \in Terminal /\ q.owner = NoOwner /\ q.decision = r.decision
  \/ /\ \E o \in Operators :
          Request(o) /\ Subject(o) = c /\ q.owner = o /\ q.action = o
     /\ Reprocessable(r)
     /\ q.state = "received" /\ q.phase = "idle" /\ q.lease > 1 /\ q.path = "target"
  \/ /\ \E o \in Operators : Complete(o) /\ Subject(o) = c /\ CanComplete(r, o)
     /\ q.state = "received" /\ q.phase = r.phase /\ q.path = "target" /\ q.owner = NoOwner
  \/ /\ \E o \in Operators : Dismiss(o, c)
     /\ Dismissable(r)
     /\ q.state = "dismissed" /\ q.path = r.path /\ q.decision = r.decision /\ q.owner = NoOwner
  \/ Prune /\ Prunable(c) /\ q = NoRow

\* A row that the step leaves alone.
LEMMA PathRests ==
  ASSUME NEW c \in Captures, event'[c] = event[c] PROVE PathStep(c)
BY DEF PathStep, SamePath

\* A watcher that ends its event.
LEMMA EndsEvent ==
  ASSUME TypeInv, AttendedInv, NEW w \in Watchers, Finalize(w)
  PROVE  LET r == event[On(w)]
             q == event'[On(w)] IN
         /\ On(w) \in Captures /\ watcher'[w] = Resting /\ media' = media
         /\ \A c \in Captures : c # On(w) => event'[c] = event[c]
         /\ q.state = watcher[w].verdict /\ q.state \in Terminal /\ q.path = watcher[w].at
         /\ q.owner = NoOwner /\ q.decision = r.decision
<1> DEFINE c == On(w)
           q == [Ended(event[c], watcher[w].verdict) EXCEPT !.path = watcher[w].at]
<1>1. /\ watcher[w].verdict # "broken" /\ watcher[w].verdict \in Terminal
      /\ watcher[w].at \in Places \cup {Nowhere} /\ event \in [Captures -> Row]
  BY DEF AttendedInv, AllUp, TypeInv, RowsOK, WatchersOK, WatcherOK, Endings, Terminal, Watching,
         Finalize, At
<1>2. c \in Captures
  BY WatcherGoesOn DEF TypeInv, WatchersOK, On, Finalize, At, Holding
<1>3. /\ event' = [event EXCEPT ![c] = q] /\ watcher'[w] = Resting /\ media' = media
  BY <1>1 DEF Finalize, Closing, Final, Goes, TypeInv, WatchersOK
<1>4. IsRow(q, watcher[w].verdict, "terminal", NoOwner, 0, event[c].attempt, event[c].decision,
            event[c].action, watcher[w].at)
  BY <1>1, <1>2, RowMoved
<1> HIDE DEF q
<1> QED BY <1>1, <1>2, <1>3, <1>4 DEF IsRow

\* A watcher's steps.
LEMMA WatcherPaths ==
  ASSUME TypeInv, LeaseInv, AttendedInv, RowsOK', NEW w \in Watchers, WatcherActs(w),
         NEW c \in Captures
  PROVE  PathStep(c)
<1> DEFINE e == On(w)
           x == event[e]
           r == event[c]
<1>0. r \in Row /\ event \in [Captures -> Row]
  BY DEF TypeInv, RowsOK
<1>1. CASE event' = event
  BY <1>1, PathRests
<1>2. CASE Acquire(w)
  <2>1. /\ Finds(event[e], w) = "free" /\ e \in Captures
        /\ watcher'[w].pc = "leased" /\ On(w)' = e
    BY <1>2, HolderFinds, TakesUp DEF AttendedInv, Acquire, At, On
  <2>2. event' = [event EXCEPT ![e] = Acquired(@, w)]
    BY <1>2, <2>1 DEF Acquire
  <2>3. CASE c = e
    <3>1. r.state \in Open /\ ~ActiveLease(r)
      BY <1>0, <2>1, <2>3, Found
    <3>2. IsRow(Acquired(r, w), "processing", "pre_delivery", w, FullLease, r.attempt + 1,
                NoDecision, r.action, r.path)
      BY <1>0, OwnersApart, RowMoved
    <3>3. event'[c] = Acquired(r, w)
      BY <1>0, <2>2, <2>3
    <3> QED BY <1>2, <2>1, <2>3, <3>1, <3>2, <3>3 DEF PathStep, IsRow
  <2>4. CASE c # e
    BY <1>0, <2>2, <2>4, PathRests
  <2> QED BY <2>3, <2>4
<1>3. CASE Renew(w) \/ Advance(w) \/ Begin(w)
  <2>1. watcher[w].pc \in Working /\ watcher[w].pc \in Holding
    BY <1>3 DEF Renew, Advance, Begin, At, Working, Holding, Facing, Calling
  <2>2. e \in Captures /\ Held(w)
    BY <2>1, HolderFinds DEF AttendedInv
  <2>3. PICK q : /\ event' = [event EXCEPT ![e] = q]
                 /\ q.path = event[e].path /\ q.action = event[e].action
                 /\ q.owner = event[e].owner /\ q.state \in Open
    <3>1. CASE Renew(w)
      <4>1. event' = [event EXCEPT ![e] = Renewed(event[e])]
        BY <3>1 DEF Renew
      <4>2. IsRow(Renewed(x), x.state, x.phase, x.owner, FullLease, x.attempt, x.decision,
                  x.action, x.path)
        BY <1>0, <2>2, RowMoved
      <4> QED BY <2>2, <4>1, <4>2 DEF IsRow, Held
    <3>2. CASE Advance(w)
      <4>1. event' = [event EXCEPT ![e] = Moved(event[e], "processing")]
        BY <3>2 DEF Advance
      <4>2. IsRow(Moved(x, "processing"), "processing", x.phase, x.owner, x.lease, x.attempt,
                  x.decision, x.action, x.path)
        BY <1>0, <2>2, RowMoved
      <4> QED BY <4>1, <4>2 DEF IsRow, Open
    <3>3. CASE Begin(w)
      <4>1. event' = [event EXCEPT ![e] = Delivering(event[e], Decision(w))]
        BY <3>3 DEF Begin
      <4>2. Decision(w) \in Decisions
        BY <3>3, BegunIs DEF Begin, At, Facing
      <4>3. IsRow(Delivering(x, Decision(w)), "processing", "delivery_in_progress", x.owner,
                  FullLease, x.attempt, Decision(w), x.action, x.path)
        BY <1>0, <2>2, <4>2, RowMoved
      <4> QED BY <4>1, <4>3 DEF IsRow, Open
    <3> QED BY <1>3, <3>1, <3>2, <3>3
  <2>4. CASE c = e
    <3>1. event'[c] = q
      BY <1>0, <2>3, <2>4
    <3>2. r.owner = w /\ r.state \in Open /\ r.owner \notin Operators
      BY <2>2, <2>4, OwnersApart DEF Held
    <3> QED BY <2>1, <2>3, <2>4, <3>1, <3>2 DEF PathStep, SamePath
  <2>5. CASE c # e
    BY <1>0, <2>3, <2>5, PathRests
  <2> QED BY <2>4, <2>5
<1>4. CASE Finalize(w)
  <2>1. watcher[w].pc \in Holding /\ watcher[w].pc = "finalizing"
    BY <1>4 DEF Finalize, At, Holding
  <2>2. e \in Captures /\ Held(w)
    BY <2>1, HolderFinds DEF AttendedInv
  <2>3. CASE c = e
    BY <1>4, <2>2, <2>3, EndsEvent DEF PathStep, Held
  <2>4. CASE c # e
    BY <1>4, <2>4, EndsEvent, PathRests
  <2> QED BY <2>3, <2>4
<1>5. ASSUME NEW d \in Captures, NEW file \in Uploads, Receive(w, d, file)
      PROVE  PathStep(c)
  <2>1. CASE event[d].state # "absent" \/ c # d
    <3>1. event'[c] = r
      BY <1>0, <1>5, <2>1 DEF Receive
    <3> QED BY <3>1, PathRests
  <2>2. CASE event[d].state = "absent" /\ c = d
    <3>1. event'[c] = Receipt(file) /\ c \notin tombstone /\ file \in media[c]
      BY <1>0, <1>5, <2>2 DEF Receive
    <3>2. /\ Receipt(file).state = "received" /\ Receipt(file).path = file
          /\ Receipt(file).phase = "idle" /\ Receipt(file).owner = NoOwner
          /\ Receipt(file).decision = NoDecision
      BY DEF Receipt, NoRow
    <3> QED BY <1>5, <2>2, <3>1, <3>2 DEF PathStep
  <2> QED BY <2>1, <2>2
<1>6. ASSUME NEW d \in Captures, NEW file \in Uploads, Replay(w, d, file)
      PROVE  PathStep(c)
  BY <1>1, <1>6 DEF Replay, ledger
<1>7. ASSUME \/ AcquireRefused(w) \/ TurnAway(w) \/ Fails(w) \/ Judged(w)
             \/ Submitted(w) /\ ~Begin(w)
             \/ Release(w) \/ AllScored(w) \/ Dispose(w)
      PROVE  event' = event
  <2>1. CASE Submitted(w) /\ ~Begin(w)
    BY <2>1 DEF Submitted, Persist, PersistFails, BeginFails, Call, Raised, Doubt, DoubtFails,
                MarkDelivered, MarkDeliveredFails, Commit, CommitFails, ledger
  <2>2. CASE Judged(w)
    BY <2>2 DEF Judged, Reject, Unaccepted, Reserve, DecisionTaken, Suppress, ledger
  <2> QED BY <1>7, <2>1, <2>2 DEF AcquireRefused, TurnAway, Fails, Release,
                                  AllScored, Dispose, ledger
<1> QED BY <1>1, <1>2, <1>3, <1>4, <1>5, <1>6, <1>7 DEF WatcherActs

\* An operator's.
LEMMA OperatorPaths ==
  ASSUME TypeInv, AttendedInv, NEW o \in Operators, OperatorActs(o), NEW c \in Captures
  PROVE  PathStep(c)
<1> DEFINE e == Subject(o)
           r == event[c]
<1>0. /\ r \in Row /\ event \in [Captures -> Row] /\ o \in Owners
      /\ operator[o].pc # "idle" => e \in Captures
  BY OwnersApart DEF TypeInv, RowsOK, CommandsOK, CommandOK, Subject
<1>1. CASE event' = event
  BY <1>1, PathRests
<1>2. CASE Request(o)
  <2>1. event' = [event EXCEPT ![e] = Requested(@, o)] /\ Reprocessable(event[e]) /\ e \in Captures
    BY <1>0, <1>2 DEF Request, Does
  <2>2. CASE c = e
    <3>1. event'[c] = Requested(r, o)
      BY <1>0, <2>1, <2>2
    <3>2. IsRow(Requested(r, o), "received", "idle", o, FullLease, r.attempt, NoDecision, o, "target")
      BY <1>0, RowTaken
    <3> QED BY <1>2, <2>1, <2>2, <3>1, <3>2, FullLeaseLasts DEF PathStep, IsRow
  <2>3. CASE c # e
    BY <1>0, <2>1, <2>3, PathRests
  <2> QED BY <2>2, <2>3
<1>3. CASE Complete(o)
  <2>1. CanComplete(event[e], o) /\ e \in Captures
    BY <1>0, <1>3 DEF AttendedInv, Attended, Complete, Does
  <2>2. event' = [event EXCEPT ![e] = Published(@)]
    BY <1>3, <2>1 DEF Complete
  <2>3. CASE c = e
    <3>1. event'[c] = Published(r)
      BY <1>0, <2>2, <2>3
    <3>2. IsRow(Published(r), r.state, r.phase, NoOwner, 0, r.attempt, r.decision, r.action, "target")
      BY <1>0, RowTaken
    <3> QED BY <1>3, <2>1, <2>3, <3>1, <3>2 DEF PathStep, IsRow, CanComplete
  <2>4. CASE c # e
    BY <1>0, <2>2, <2>4, PathRests
  <2> QED BY <2>3, <2>4
<1>4. CASE OperatorDies(o)
  <2> DEFINE owner == IF r.owner = o THEN Dead ELSE r.owner
             action == IF r.action = o THEN Dead ELSE r.action
  <2>1. event'[c] = [r EXCEPT !.owner = owner, !.action = action]
    BY <1>0, <1>4 DEF OperatorDies, Orphans
  <2>2. owner \in Owners \cup {NoOwner} /\ action \in Owners \cup {NoOwner}
    BY <1>0, OwnersApart DEF Row
  <2> HIDE DEF owner, action
  <2>3. /\ event'[c].path = r.path /\ event'[c].state = r.state /\ event'[c].phase = r.phase
        /\ event'[c].decision = r.decision /\ event'[c].lease = r.lease
        /\ event'[c].owner = owner /\ event'[c].action = action
    BY <1>0, <2>1, <2>2 DEF Row
  <2>4. Orphaning(o, r, event'[c])
    BY <2>3 DEF Orphaning, owner, action
  <2> QED BY <1>4, <2>4 DEF PathStep
<1>5. ASSUME NEW d \in Captures, Dismiss(o, d) PROVE PathStep(c)
  <2>1. event' = [event EXCEPT ![d] = Dismissed(@)] /\ Dismissable(event[d])
    BY <1>5 DEF Dismiss
  <2>2. CASE c = d
    <3>1. event'[c] = Dismissed(r)
      BY <1>0, <2>1, <2>2
    <3>2. IsRow(Dismissed(r), "dismissed", "terminal", NoOwner, 0, r.attempt, r.decision, NoOwner,
                r.path)
      BY <1>0, RowTaken
    <3> QED BY <1>5, <2>1, <2>2, <3>1, <3>2 DEF PathStep, IsRow
  <2>3. CASE c # d
    BY <1>0, <2>1, <2>3, PathRests
  <2> QED BY <2>2, <2>3
<1>6. ASSUME RequestRefused(o) \/ Unstage(o) \/ Publish(o) \/ \E d \in Captures : Stage(o, d)
      PROVE  event' = event
  BY <1>6 DEF RequestRefused, Unstage, Publish, Stage, ledger
<1> QED BY <1>1, <1>2, <1>3, <1>4, <1>5, <1>6 DEF OperatorActs

\* The others', and so every step's.
LEMMA PathSteps ==
  ASSUME TypeInv, LeaseInv, AttendedInv, ~Stalls, [Next]_vars, [WatchersFinish]_vars,
         NEW c \in Captures
  PROVE  PathStep(c)
<1> DEFINE r == event[c]
<1>0. r \in Row /\ event \in [Captures -> Row] /\ RowsOK'
  BY TypesStep DEF TypeInv, RowsOK
<1>1. ASSUME Prune PROVE PathStep(c)
  <2>1. event'[c] = IF Prunable(c) THEN NoRow ELSE r
    BY <1>1 DEF Prune
  <2> QED BY <1>1, <2>1, PathRests DEF PathStep
<1>2. ASSUME Tick PROVE PathStep(c)
  <2>1. event'[c] = Older(r) /\ ~RunsOut(c)
    BY <1>2 DEF Tick
  <2>2. IsRow(Older(r), r.state, r.phase, r.owner, Older(r).lease, r.attempt, r.decision,
              r.action, r.path)
    BY <1>0, RowTaken DEF IsRow
  <2>3. ASSUME r.owner \in Operators, operator[r.owner].pc # "idle", r.lease > 1
        PROVE  Older(r).lease > 1
    <3>1. AtWork(r.owner) /\ ActiveLease(r)
      BY <2>3, OwnersApart DEF AtWork, ActiveLease
    <3>2. ActiveLease(Older(r))
      BY <2>1, <3>1 DEF RunsOut
    <3> QED BY <3>2 DEF ActiveLease
  <2> QED BY <2>1, <2>2, <2>3 DEF PathStep, SamePath, IsRow
<1>3. ASSUME OtherActs PROVE PathStep(c)
  <2>1. ASSUME \/ \E d \in Captures : Upload(d)
               \/ \E d \in Decisions : DeliverQueued(d)
               \/ UNCHANGED vars
        PROVE  event' = event
    BY <2>1 DEF Upload, DeliverQueued, ledger, vars
  <2> QED BY <1>1, <1>2, <1>3, <2>1, PathRests DEF OtherActs
<1> QED BY <1>0, <1>3, AttendedSteps, WatcherPaths, OperatorPaths

-----------------------------------------------------------------------------
(***************************************************************************)
(* What a step makes of the copies of an upload.                           *)
(***************************************************************************)

\* A copy moves, under one name and then under another.
Moves(c, from, to) == from \in media[c] /\ media'[c] = (media[c] \ {from}) \cup {to}

\* The camera sends a copy; a watcher removes one, or puts one into quarantine; a command
\* hides one, puts it back, or publishes it.
MovesCopy(c) ==
  \/ Upload(c) /\ media'[c] = media[c] \cup {"upload"}
  \/ \E w \in Watchers, file \in Uploads :
       /\ Replay(w, c, file) /\ watcher[w].pc = "idle" /\ event[c].state = "absent"
       /\ watcher' = watcher /\ media'[c] = media[c] \ {file}
  \/ \E w \in Watchers :
       /\ TurnAway(w) /\ watcher[w].pc = "refused" /\ watcher'[w] = Resting /\ On(w) = c
       /\ \/ watcher[w].verdict = "uncertain" /\ Quarantines /\ Moves(c, watcher[w].file, "kept")
          \/ watcher[w].verdict = "duplicate" /\ media'[c] = media[c] \ {watcher[w].file}
  \/ \E w \in Watchers :
       /\ Dispose(w) /\ watcher[w].pc = "disposing" /\ watcher'[w].pc = "finalizing" /\ On(w) = c
       /\ \/ watcher[w].verdict \in Finished /\ media'[c] = media[c] \ {watcher[w].file}
          \/ watcher[w].verdict \notin Finished /\ Quarantines /\ Moves(c, watcher[w].file, "kept")
  \/ \E o \in Operators :
       /\ Stage(o, c) /\ event[c].path = "kept" /\ {"stage", "target"} \cap media[c] = {}
       /\ Moves(c, "kept", "stage")
  \/ \E o \in Operators :
       Unstage(o) /\ operator[o].pc = "refused" /\ Subject(o) = c /\ Moves(c, "stage", "kept")
  \/ \E o \in Operators :
       Publish(o) /\ operator[o].pc = "requested" /\ Subject(o) = c /\ Moves(c, "stage", "target")

\* All that a step may make of the copies.
MediaStep(c) ==
  \/ media'[c] = media[c]
  \/ event' = event /\ MovesCopy(c)

\* Every step makes that of them.
LEMMA MediaSteps ==
  ASSUME TypeInv, LeaseInv, AttendedInv, QuarantineOnly, [Next]_vars, [WatchersFinish]_vars,
         NEW c \in Captures
  PROVE  MediaStep(c)
<1>0. media \in [Captures -> SUBSET Places]
  BY DEF TypeInv
<1>1. CASE media'[c] = media[c]
  BY <1>1 DEF MediaStep
<1>2. ASSUME NEW w \in Watchers, WatcherActs(w) PROVE MediaStep(c)
  <2> DEFINE e == On(w)
             file == watcher[w].file
  <2>1. CASE TurnAway(w)
    <3>1. /\ watcher[w].pc = "refused" /\ watcher'[w] = Resting /\ event' = event
          /\ media' = CASE watcher[w].verdict = "uncertain" -> RejectedFile(e, file)
                        [] watcher[w].verdict = "duplicate" /\ Deletes -> Removed(e, file)
                        [] OTHER -> media
      BY <2>1 DEF TurnAway, At, Goes, ledger, TypeInv, WatchersOK
    <3>2. e \in Captures
      BY <3>1, WatcherGoesOn DEF TypeInv, WatchersOK, On
    <3>3. CASE e = c /\ watcher[w].verdict = "uncertain"
      <4>1. media' = RejectedFile(c, file)
        BY <3>1, <3>3
      <4>2. CASE Quarantines /\ file \in media[c]
        <5>1. Moves(c, file, "kept")
          BY <1>0, <4>1, <4>2 DEF RejectedFile, Moves
        <5> QED BY <2>1, <3>1, <3>3, <4>2, <5>1 DEF MediaStep, MovesCopy
      <4>3. CASE ~(Quarantines /\ file \in media[c])
        BY <1>1, <4>1, <4>3 DEF RejectedFile
      <4> QED BY <4>2, <4>3
    <3>4. CASE e = c /\ watcher[w].verdict = "duplicate" /\ Deletes
      <4>1. media'[c] = media[c] \ {file}
        BY <1>0, <3>1, <3>4 DEF Removed
      <4> QED BY <2>1, <3>1, <3>4, <4>1 DEF MediaStep, MovesCopy
    <3>5. CASE e # c
      BY <1>0, <1>1, <3>1, <3>2, <3>5 DEF RejectedFile, Removed
    <3>6. CASE watcher[w].verdict # "uncertain" /\ ~(watcher[w].verdict = "duplicate" /\ Deletes)
      BY <1>1, <3>1, <3>6
    <3> QED BY <3>3, <3>4, <3>5, <3>6
  <2>2. CASE Dispose(w)
    <3>1. /\ watcher[w].pc = "disposing" /\ watcher'[w].pc = "finalizing" /\ event' = event
          /\ media' = CASE watcher[w].verdict \in Finished /\ Deletes -> Removed(e, file)
                        [] watcher[w].verdict \in Finished /\ ~Deletes -> media
                        [] OTHER -> RejectedFile(e, file)
      BY <2>2, PutsAway DEF Dispose, At, Finished, ledger
    <3>2. e \in Captures
      BY <3>1, WatcherGoesOn DEF TypeInv, WatchersOK, On, Holding
    <3>3. CASE e = c /\ watcher[w].verdict \notin Finished
      <4>1. media' = RejectedFile(c, file)
        BY <3>1, <3>3
      <4>2. CASE Quarantines /\ file \in media[c]
        <5>1. Moves(c, file, "kept")
          BY <1>0, <4>1, <4>2 DEF RejectedFile, Moves
        <5> QED BY <2>2, <3>1, <3>3, <4>2, <5>1 DEF MediaStep, MovesCopy
      <4>3. CASE ~(Quarantines /\ file \in media[c])
        BY <1>1, <4>1, <4>3 DEF RejectedFile
      <4> QED BY <4>2, <4>3
    <3>4. CASE e = c /\ watcher[w].verdict \in Finished /\ Deletes
      <4>1. media'[c] = media[c] \ {file}
        BY <1>0, <3>1, <3>4 DEF Removed
      <4> QED BY <2>2, <3>1, <3>4, <4>1 DEF MediaStep, MovesCopy
    <3>5. CASE e # c
      BY <1>0, <1>1, <3>1, <3>2, <3>5 DEF RejectedFile, Removed
    <3>6. CASE watcher[w].verdict \in Finished /\ ~Deletes
      BY <1>1, <3>1, <3>6
    <3> QED BY <3>3, <3>4, <3>5, <3>6
  <2>3. ASSUME NEW d \in Captures, NEW f \in Uploads, Replay(w, d, f) PROVE MediaStep(c)
    BY <1>0, <1>1, <2>3 DEF Replay, At, Removed, MediaStep, MovesCopy, ledger, processes
  <2>4. ASSUME \/ Acquire(w) \/ AcquireRefused(w) \/ Renew(w) \/ Advance(w) \/ Fails(w)
               \/ Judged(w) \/ Submitted(w) \/ Release(w) \/ AllScored(w) \/ Finalize(w)
               \/ \E d \in Captures, f \in Uploads : Receive(w, d, f)
        PROVE  media' = media
    <3>1. CASE Submitted(w)
      BY <3>1 DEF Submitted, Persist, PersistFails, Begin, BeginFails, Call, Raised, Doubt,
                  DoubtFails, MarkDelivered, MarkDeliveredFails, Commit, CommitFails
    <3>2. CASE Judged(w)
      BY <3>2 DEF Judged, Reject, Unaccepted, Reserve, DecisionTaken, Suppress
    <3> QED BY <2>4, <3>1, <3>2 DEF Acquire, AcquireRefused, Renew, Advance, Fails, Release,
                                    AllScored, Finalize, Receive
  <2> QED BY <1>1, <1>2, <2>1, <2>2, <2>3, <2>4 DEF WatcherActs
<1>3. ASSUME NEW o \in Operators, OperatorActs(o) PROVE MediaStep(c)
  <2> DEFINE e == Subject(o)
  <2>1. ASSUME NEW d \in Captures, Stage(o, d) PROVE MediaStep(c)
    <3>1. /\ event[d].path = "kept" /\ "kept" \in media[d] /\ {"stage", "target"} \cap media[d] = {}
          /\ media' = [media EXCEPT ![d] = (@ \ {"kept"}) \cup {"stage"}] /\ event' = event
      BY <2>1 DEF Stage, ledger
    <3>2. CASE c = d
      BY <1>0, <2>1, <3>1, <3>2 DEF MediaStep, MovesCopy, Moves
    <3>3. CASE c # d
      BY <1>0, <1>1, <3>1, <3>3
    <3> QED BY <3>2, <3>3
  <2>2. CASE Unstage(o)
    <3>1. /\ operator[o].pc = "refused" /\ operator[o].from = "kept" /\ "stage" \in media[e]
      BY <2>2 DEF Unstage, Does, AttendedInv, Attended
    <3>2. media' = [media EXCEPT ![e] = (@ \ {"stage"}) \cup {"kept"}] /\ event' = event
      BY <2>2, <3>1 DEF Unstage, ledger
    <3>3. CASE c = e
      BY <1>0, <2>2, <3>1, <3>2, <3>3 DEF MediaStep, MovesCopy, Moves
    <3>4. CASE c # e
      BY <1>0, <1>1, <3>2, <3>4
    <3> QED BY <3>3, <3>4
  <2>3. CASE Publish(o)
    <3>1. operator[o].pc = "requested" /\ "stage" \in media[e]
      BY <2>3 DEF Publish, Does, AttendedInv, Attended
    <3>2. media' = [media EXCEPT ![e] = (@ \ {"stage"}) \cup {"target"}] /\ event' = event
      BY <2>3, <3>1 DEF Publish, ledger
    <3>3. CASE c = e
      BY <1>0, <2>3, <3>1, <3>2, <3>3 DEF MediaStep, MovesCopy, Moves
    <3>4. CASE c # e
      BY <1>0, <1>1, <3>2, <3>4
    <3> QED BY <3>3, <3>4
  <2>4. ASSUME \/ Request(o) \/ RequestRefused(o) \/ Complete(o) \/ OperatorDies(o)
               \/ \E d \in Captures : Dismiss(o, d)
        PROVE  media' = media
    BY <2>4 DEF Request, RequestRefused, Complete, OperatorDies, Dismiss
  <2> QED BY <1>1, <1>3, <2>1, <2>2, <2>3, <2>4 DEF OperatorActs
<1>4. ASSUME OtherActs PROVE MediaStep(c)
  <2>1. ASSUME NEW d \in Captures, Upload(d) PROVE MediaStep(c)
    BY <1>0, <1>1, <2>1 DEF Upload, MediaStep, MovesCopy, ledger
  <2>2. ASSUME Prune \/ Tick \/ UNCHANGED vars \/ \E d \in Decisions : DeliverQueued(d)
        PROVE  media' = media
    BY <2>2 DEF Prune, Tick, DeliverQueued, vars
  <2> QED BY <1>1, <1>4, <2>1, <2>2 DEF OtherActs
<1> QED BY <1>2, <1>3, <1>4, AttendedSteps

-----------------------------------------------------------------------------
(***************************************************************************)
(* What a step makes of a command, and so: every one goes through or its   *)
(* operator dies.                                                          *)
(***************************************************************************)

\* A command hides the quarantined file of an event that has no other one hidden.
Hides(o, c) ==
  /\ operator[o].pc = "idle"
  /\ operator'[o] = [pc |-> "staged", capture |-> c, from |-> "kept"]
  /\ event[c].path = "kept" /\ "kept" \in media[c] /\ {"stage", "target"} \cap media[c] = {}
  /\ event' = event /\ "stage" \in media'[c] /\ "kept" \notin media'[c]
  /\ \A p \in Operators \ {o} : operator'[p] = operator[p]

\* All that a step may make of a command: nothing; it ends; it has the file; it has the
\* event, or is refused it; its file is published.
CommandStep(o) ==
  LET r == operator[o]
      q == operator'[o] IN
  \/ q = r
  \/ q = NoCommand
  \/ \E c \in Captures : Stage(o, c) /\ Hides(o, c)
  \/ /\ r.pc = "staged" /\ q.capture = r.capture /\ q.from = r.from /\ media' = media
     /\ \/ /\ q.pc = "requested" /\ CanComplete(event'[Subject(o)], o)
           /\ event'[Subject(o)].path = "target"
        \/ q.pc = "refused" /\ event' = event
  \/ /\ r.pc = "requested" /\ q.pc = "published" /\ q.capture = r.capture /\ q.from = r.from
     /\ event' = event

\* Every step moves the commands like that.
LEMMA CommandSteps ==
  ASSUME TypeInv, LeaseInv, AttendedInv, QuarantineOnly, [Next]_vars, [WatchersFinish]_vars,
         NEW o \in Operators
  PROVE  CommandStep(o)
<1> DEFINE r == operator[o]
           e == Subject(o)
<1>0. /\ operator \in [Operators -> Command] /\ r \in Command
      /\ media \in [Captures -> SUBSET Places] /\ event \in [Captures -> Row]
      /\ r.pc # "idle" => e \in Captures
  BY DEF TypeInv, RowsOK, CommandsOK, CommandOK, Subject
<1>1. CASE operator'[o] = r
  BY <1>1 DEF CommandStep
<1>2. ASSUME NEW p \in Operators, OperatorActs(p), p # o PROVE operator'[o] = r
  <2>1. \A q : Turns(p, q) => operator'[o] = r
    BY <1>0, <1>2 DEF Turns
  <2>2. (\E q : Turns(p, q)) \/ UNCHANGED operator
    BY <1>2 DEF OperatorActs, Request, RequestRefused, Unstage, Publish, Complete, OperatorDies,
                Stage, Dismiss, processes
  <2> QED BY <2>1, <2>2
<1>3. ASSUME OperatorActs(o) PROVE CommandStep(o)
  <2>1. \A q : Turns(o, q) => operator'[o] = q
    BY <1>0 DEF Turns
  <2>2. \A pc \in {"requested", "refused", "published"} :
          LET q == [r EXCEPT !.pc = pc] IN q.pc = pc /\ q.capture = r.capture /\ q.from = r.from
    BY <1>0 DEF Command
  <2>3. CASE Request(o)
    <3>1. /\ r.pc = "staged" /\ media' = media /\ e \in Captures
          /\ operator'[o] = [r EXCEPT !.pc = "requested"]
      BY <1>0, <2>1, <2>3 DEF Request, Does
    <3>2. event'[e] = Requested(event[e], o)
      BY <1>0, <2>3, <3>1 DEF Request
    <3>3. IsRow(Requested(event[e], o), "received", "idle", o, FullLease, event[e].attempt,
                NoDecision, o, "target")
      BY <1>0, <3>1, OwnersApart, RowTaken
    <3>4. CanComplete(event'[e], o) /\ event'[e].path = "target"
      BY <3>2, <3>3, FullLeaseLasts DEF CanComplete, IsRow
    <3> QED BY <2>2, <3>1, <3>4 DEF CommandStep
  <2>4. CASE RequestRefused(o)
    <3>1. /\ r.pc = "staged" /\ media' = media /\ event' = event
          /\ operator'[o] = [r EXCEPT !.pc = "refused"]
      BY <2>1, <2>4 DEF RequestRefused, Does, ledger
    <3> QED BY <2>2, <3>1 DEF CommandStep
  <2>5. CASE Publish(o)
    <3>1. /\ r.pc = "requested" /\ "stage" \in media[e]
      BY <2>5 DEF Publish, Does, AttendedInv, Attended
    <3>2. event' = event /\ operator'[o] = [r EXCEPT !.pc = "published"]
      BY <2>1, <2>5, <3>1 DEF Publish, ledger
    <3> QED BY <2>2, <3>1, <3>2 DEF CommandStep
  <2>6. CASE Unstage(o) \/ OperatorDies(o)
    BY <2>1, <2>6 DEF Unstage, OperatorDies, CommandStep
  <2>7. CASE Complete(o)
    <3>1. CanComplete(event[e], o)
      BY <2>7 DEF Complete, Does, AttendedInv, Attended
    <3> QED BY <2>1, <2>7, <3>1 DEF Complete, CommandStep
  <2>8. ASSUME NEW c \in Captures, Stage(o, c) PROVE CommandStep(o)
    <3>1. /\ r.pc = "idle" /\ event[c].path = "kept" /\ "kept" \in media[c]
          /\ {"stage", "target"} \cap media[c] = {}
          /\ event' = event /\ media' = [media EXCEPT ![c] = (@ \ {"kept"}) \cup {"stage"}]
          /\ operator'[o] = [pc |-> "staged", capture |-> c, from |-> "kept"]
          /\ \A p \in Operators \ {o} : operator'[p] = operator[p]
      BY <1>0, <2>1, <2>8 DEF Stage, Does, ledger, Turns
    <3>2. "stage" \in media'[c] /\ "kept" \notin media'[c]
      BY <1>0, <3>1
    <3> QED BY <2>8, <3>1, <3>2 DEF CommandStep, Hides
  <2>9. ASSUME NEW c \in Captures, Dismiss(o, c) PROVE CommandStep(o)
    BY <1>1, <2>9 DEF Dismiss, processes
  <2> QED BY <1>3, <2>3, <2>4, <2>5, <2>6, <2>7, <2>8, <2>9 DEF OperatorActs
<1>4. ASSUME NEW w \in Watchers, WatcherActs(w) PROVE UNCHANGED operator
  <2>1. CASE Judged(w)
    BY <2>1 DEF Judged, Reject, Unaccepted, Reserve, DecisionTaken, Suppress
  <2>2. CASE Submitted(w)
    BY <2>2 DEF Submitted, Persist, PersistFails, Begin, BeginFails, Call, Raised, Doubt,
                DoubtFails, MarkDelivered, MarkDeliveredFails, Commit, CommitFails
  <2>3. CASE \E c \in Captures, file \in Uploads : Receive(w, c, file) \/ Replay(w, c, file)
    BY <2>3 DEF Receive, Replay, processes
  <2> QED BY <1>4, <2>1, <2>2, <2>3 DEF WatcherActs, Acquire, AcquireRefused, TurnAway, Renew,
               Advance, Fails, Release, AllScored, Dispose, Finalize
<1>5. ASSUME OtherActs PROVE UNCHANGED operator
  BY <1>5 DEF OtherActs, Upload, DeliverQueued, Prune, Tick, processes, vars
<1> QED BY <1>1, <1>2, <1>3, <1>4, <1>5, AttendedSteps

\* A watcher works until its event is ended.
LEMMA GoesOnHolding ==
  ASSUME TypeInv, NEW w \in Watchers, HandStep(w), watcher[w].pc \in Holding
  PROVE  Finalize(w) \/ (watcher'[w].pc \in Holding /\ On(w)' = On(w))
BY DEF HandStep, SameHand, On, Working, Holding, Facing, Calling

\* Every command goes on as it should.
LEMMA AttendedOn ==
  ASSUME TypeInv, LeaseInv, AttendedInv, QuarantineOnly, ~Stalls, [Next]_vars,
         [WatchersFinish]_vars, NEW o \in Operators
  PROVE  Attended(o)'
<1> DEFINE r == operator[o]
           q == operator'[o]
           c == q.capture
<1>1. Subject(o)' = c /\ Subject(o) = r.capture /\ CommandStep(o)
  BY CommandSteps DEF Subject
<1>2. CASE q.pc = "idle"
  BY <1>2 DEF Attended
<1>3. CASE q = r /\ r.pc # "idle"
  <2>1. /\ c \in Captures /\ PathStep(c) /\ MediaStep(c) /\ c = Subject(o)
        /\ Attended(o)
    BY <1>1, <1>3, PathSteps, MediaSteps DEF TypeInv, CommandsOK, CommandOK, AttendedInv
  <2>2. ASSUME NEW p \in Operators, operator[p].pc # "idle", Subject(p) = c PROVE p = o
    BY <1>3, <2>1, <2>2 DEF AttendedInv, SubjectsApart
  <2>3. ~Request(o) /\ ~Unstage(o) /\ ~Publish(o) /\ ~Complete(o) /\ ~OperatorDies(o)
    <3>1. operator \in [Operators -> Command] /\ r \in Command
      BY DEF TypeInv, CommandsOK
    <3>2. \A x : Turns(o, x) => x = r
      BY <1>3, <3>1 DEF Turns
    <3>3. \A pc \in {"requested", "published", "rollback"} : [r EXCEPT !.pc = pc].pc = pc
      BY <3>1 DEF Command
    <3>4. r # NoCommand
      BY <1>3 DEF NoCommand
    <3>5. ~Request(o) /\ ~Publish(o)
      BY <3>2, <3>3 DEF Request, Publish, Does
    <3>6. ~Unstage(o) /\ ~OperatorDies(o)
      BY <3>2, <3>4 DEF Unstage, OperatorDies
    <3>7. ~Complete(o)
      BY <3>2, <3>3, <3>4 DEF Complete, Does
    <3> QED BY <3>5, <3>6, <3>7
  <2>4. r.pc # "published" => "stage" \in media'[c]
    <3>1. \A w \in Watchers : watcher[w].file # "stage"
      BY DEF TypeInv, WatchersOK, Watching, Uploads
    <3>2. "stage" \notin Uploads
      BY DEF Uploads
    <3> QED BY <1>3, <2>1, <2>2, <2>3, <3>1, <3>2
            DEF Attended, MediaStep, MovesCopy, Moves, Unstage, Publish, Does
  <2>5. r.pc \in {"staged", "refused"} => event'[c].state \in Terminal /\ event'[c].path = "kept"
    BY <1>3, <2>1, <2>2, <2>3
       DEF Attended, PathStep, SamePath, Orphaning, Request, Does, CanComplete, Prunable, Terminal, Open
  <2>6. r.pc \in {"requested", "published"} => CanComplete(event'[c], o) /\ event'[c].path = "target"
    <3> SUFFICES ASSUME r.pc \in {"requested", "published"}
                 PROVE  CanComplete(event'[c], o) /\ event'[c].path = "target"
      OBVIOUS
    <3>1. CanComplete(event[c], o) /\ event[c].path = "target" /\ ActiveLease(event[c])
      BY <1>3, <2>1, OwnersApart DEF Attended, CanComplete, ActiveLease
    <3>2. \A w \in Watchers : o # w
      BY OwnersApart
    <3>3. CASE SamePath(event[c], event'[c])
      BY <1>3, <3>1, <3>2, <3>3 DEF SamePath, CanComplete
    <3>4. ASSUME NEW p \in Operators, OperatorDies(p), Orphaning(p, event[c], event'[c])
          PROVE  CanComplete(event'[c], o) /\ event'[c].path = "target"
      BY <2>3, <3>1, <3>4 DEF Orphaning, CanComplete
    <3>5. \/ SamePath(event[c], event'[c])
          \/ \E p \in Operators : OperatorDies(p) /\ Orphaning(p, event[c], event'[c])
      BY <2>1, <2>3, <3>1, <3>2
         DEF PathStep, CanComplete, Reprocessable, Dismissable, Prunable, Terminal
    <3> QED BY <3>3, <3>4, <3>5
  <2> QED BY <1>1, <1>3, <2>1, <2>4, <2>5, <2>6 DEF Attended
<1>4. ASSUME NEW d \in Captures, Hides(o, d) PROVE Attended(o)'
  <2>1. event[d].state \in Terminal
    BY <1>4 DEF Hides, AttendedInv, RowPaths, TypeInv, RowsOK, Row, Uploads, Nowhere
  <2> QED BY <1>1, <1>4, <2>1 DEF Attended, Hides
<1>5. CASE /\ r.pc = "staged" /\ q.capture = r.capture /\ q.from = r.from /\ media' = media
           /\ \/ /\ q.pc = "requested" /\ CanComplete(event'[Subject(o)], o)
                 /\ event'[Subject(o)].path = "target"
              \/ q.pc = "refused" /\ event' = event
  BY <1>1, <1>5 DEF AttendedInv, Attended
<1>6. CASE /\ r.pc = "requested" /\ q.pc = "published" /\ q.capture = r.capture /\ q.from = r.from
           /\ event' = event
  BY <1>1, <1>6 DEF AttendedInv, Attended
<1>7. NoCommand.pc = "idle"
  BY DEF NoCommand
<1> QED
  <2>1. \/ q = r \/ q = NoCommand
        \/ \E d \in Captures : Hides(o, d)
        \/ /\ r.pc = "staged" /\ q.capture = r.capture /\ q.from = r.from /\ media' = media
           /\ \/ /\ q.pc = "requested" /\ CanComplete(event'[Subject(o)], o)
                 /\ event'[Subject(o)].path = "target"
              \/ q.pc = "refused" /\ event' = event
        \/ /\ r.pc = "requested" /\ q.pc = "published" /\ q.capture = r.capture
           /\ q.from = r.from /\ event' = event
    BY <1>1 DEF CommandStep
  <2> HIDE DEF q, r, c
  <2> QED BY <1>2, <1>3, <1>4, <1>5, <1>6, <1>7, <2>1

\* Two commands stay apart: a second one would need the file that the first one has.
LEMMA ApartOn ==
  ASSUME TypeInv, LeaseInv, AttendedInv, QuarantineOnly, [Next]_vars, [WatchersFinish]_vars
  PROVE  SubjectsApart'
<1> SUFFICES ASSUME NEW o \in Operators, NEW p \in Operators, o # p,
                    operator'[o].pc # "idle", operator'[p].pc # "idle",
                    operator'[o].capture = operator'[p].capture
             PROVE  FALSE
  BY DEF SubjectsApart, Subject
<1>1. ASSUME NEW x \in Operators, operator'[x].pc # "idle"
      PROVE  \/ operator[x].pc # "idle" /\ operator'[x].capture = Subject(x)
             \/ \E c \in Captures : Hides(x, c)
  <2> DEFINE q == operator'[x]
             r == operator[x]
  <2>1. CommandStep(x)
    BY CommandSteps
  <2>2. NoCommand.pc = "idle"
    BY DEF NoCommand
  <2>3. \/ q = r \/ q = NoCommand
        \/ r.pc \in {"staged", "requested"} /\ q.capture = r.capture
        \/ \E c \in Captures : Hides(x, c)
    BY <2>1 DEF CommandStep
  <2>4. q.pc # "idle" /\ r.capture = Subject(x)
    BY <1>1 DEF Subject
  <2> HIDE DEF q, r
  <2> QED BY <2>2, <2>3, <2>4 DEF q, r
<1>2. ASSUME NEW x \in Operators, NEW y \in Operators, x # y, operator'[y].pc # "idle",
             NEW c \in Captures, Hides(x, c), operator'[x].capture = operator'[y].capture
      PROVE  FALSE
  <2>1. Subject(y) = c /\ operator[y].pc # "idle"
    BY <1>2 DEF Subject, Hides
  <2>2. Attended(y)
    BY DEF AttendedInv
  <2> QED BY <1>2, <2>1, <2>2 DEF Attended, Hides
<1>3. CASE /\ operator[o].pc # "idle" /\ operator'[o].capture = Subject(o)
           /\ operator[p].pc # "idle" /\ operator'[p].capture = Subject(p)
  BY <1>3 DEF AttendedInv, SubjectsApart
<1> QED BY <1>1, <1>2, <1>3

\* No watcher falls.
LEMMA UpOn ==
  ASSUME TypeInv, LeaseInv, AttendedInv, [Next]_vars, [WatchersFinish]_vars
  PROVE  AllUp'
<1>1. ASSUME NEW w \in Watchers
      PROVE  /\ watcher'[w].pc \notin {"down", "recovering", "breaking"}
             /\ watcher'[w].verdict # "broken"
  <2>1. HandStep(w)
    BY HandSteps
  <2>2. /\ watcher[w].pc \notin {"down", "recovering", "breaking"}
        /\ watcher[w].verdict # "broken"
    BY DEF AttendedInv, AllUp
  <2> QED BY <2>1, <2>2 DEF HandStep, Resting, Working, Holding, Facing, Calling, Endings
<1>2. UNCHANGED todo
  <2>1. ASSUME NEW w \in Watchers, WatcherActs(w) PROVE UNCHANGED todo
    <3>1. CASE Judged(w)
      BY <3>1 DEF Judged, Reject, Unaccepted, Reserve, DecisionTaken, Suppress
    <3>2. CASE Submitted(w)
      BY <3>2 DEF Submitted, Persist, PersistFails, Begin, BeginFails, Call, Raised, Doubt,
                  DoubtFails, MarkDelivered, MarkDeliveredFails, Commit, CommitFails
    <3>3. CASE \E c \in Captures, file \in Uploads : Receive(w, c, file) \/ Replay(w, c, file)
      BY <3>3 DEF Receive, Replay, processes
    <3> QED BY <2>1, <3>1, <3>2, <3>3 DEF WatcherActs, Acquire, AcquireRefused, TurnAway, Renew,
                 Advance, Fails, Release, AllScored, Dispose, Finalize
  <2>2. ASSUME NEW o \in Operators, OperatorActs(o) PROVE UNCHANGED todo
    BY <2>2 DEF OperatorActs, Request, RequestRefused, Unstage, Publish, Complete, OperatorDies,
                Stage, Dismiss, processes
  <2>3. ASSUME OtherActs PROVE UNCHANGED todo
    BY <2>3 DEF OtherActs, Upload, DeliverQueued, Prune, Tick, processes, vars
  <2> QED BY <2>1, <2>2, <2>3, AttendedSteps
<1>3. NothingToDo' = NothingToDo
  BY DEF NothingToDo
<1> QED BY <1>1, <1>2, <1>3 DEF AttendedInv, AllUp

\* No lease is left behind.
LEMMA LeasesOn ==
  ASSUME TypeInv, LeaseInv, AttendedInv, ~Stalls, [Next]_vars, [WatchersFinish]_vars
  PROVE  LeasesHeld'
<1> SUFFICES ASSUME NEW c \in Captures, NEW w \in Watchers, event'[c].owner = w
             PROVE  watcher'[w].pc \in Holding /\ On(w)' = c
  BY DEF LeasesHeld
<1>1. PathStep(c) /\ HandStep(w)
  BY PathSteps, HandSteps
<1>2. CASE event[c].owner = w
  <2>1. watcher[w].pc \in Holding /\ On(w) = c
    BY <1>2 DEF AttendedInv, LeasesHeld
  <2>2. ~Finalize(w)
    BY <1>2, <2>1, EndsEvent, OwnersApart
  <2> QED BY <1>1, <2>1, <2>2, GoesOnHolding
<1>3. CASE event[c].owner # w
  <2>1. /\ w # NoOwner /\ w # Dead /\ \A o \in Operators : o # w
    BY OwnersApart
  <2>2. \E v \in Watchers : event'[c].owner = v /\ watcher'[v].pc = "leased" /\ On(v)' = c
    BY <1>1, <1>3, <2>1 DEF PathStep, SamePath, Orphaning, NoRow
  <2> QED BY <2>2 DEF Holding
<1> QED BY <1>2, <1>3

\* An open event goes on naming its upload.
LEMMA RowPathsOn ==
  ASSUME TypeInv, LeaseInv, AttendedInv, ~Stalls, [Next]_vars, [WatchersFinish]_vars
  PROVE  RowPaths'
<1> SUFFICES ASSUME NEW c \in Captures
             PROVE  /\ event'[c].state = "absent" => event'[c].path = Nowhere
                    /\ event'[c].state \in Open => event'[c].path \in Uploads
                    /\ event'[c].state \in Open /\ event'[c].phase = "delivery_in_progress" =>
                         event'[c].owner \in Watchers
  BY DEF RowPaths
<1>1. PathStep(c)
  BY PathSteps
<1>2. /\ event[c].state = "absent" => event[c].path = Nowhere
      /\ event[c].state \in Open => event[c].path \in Uploads
      /\ event[c].state \in Open /\ event[c].phase = "delivery_in_progress" =>
           event[c].owner \in Watchers
  BY DEF AttendedInv, RowPaths
<1>3. CASE SamePath(event[c], event'[c])
  BY <1>2, <1>3 DEF SamePath, Open
<1>4. ASSUME NEW o \in Operators, Orphaning(o, event[c], event'[c])
      PROVE  /\ event'[c].state = "absent" => event'[c].path = Nowhere
             /\ event'[c].state \in Open => event'[c].path \in Uploads
             /\ event'[c].state \in Open /\ event'[c].phase = "delivery_in_progress" =>
                  event'[c].owner \in Watchers
  BY <1>2, <1>4, OwnersApart DEF Orphaning
<1>5. CASE \E o \in Operators : Complete(o) /\ Subject(o) = c /\ CanComplete(event[c], o)
  <2>1. event[c].owner \notin Watchers /\ event[c].state \in Open
    BY <1>5, OwnersApart DEF CanComplete, Open
  <2>2. event[c].phase # "delivery_in_progress"
    BY <1>2, <2>1
  <2> QED BY <1>1, <1>2, <1>3, <1>4, <2>2 DEF PathStep, NoRow, Open, Terminal, Uploads
<1> QED BY <1>1, <1>2, <1>3, <1>4, <1>5 DEF PathStep, NoRow, Open, Terminal, Uploads

\* A watcher that comes to the end leaves nothing to recover.
LEMMA NothingApart == ASSUME TypeInv, AttendedInv PROVE RecoveryApart
<1> SUFFICES ASSUME NEW v \in Watchers, NEW w \in Watchers, watcher[w].pc \in Holding
             PROVE  todo[v][On(w)] = "none"
  BY DEF RecoveryApart
<1>1. On(w) \in Captures
  BY WatcherGoesOn DEF TypeInv, WatchersOK, On
<1> QED BY <1>1 DEF AttendedInv, AllUp, NothingToDo

\* All that is known of watchers that come to the end and of commands.
FinishInv == TypeInv /\ LeaseInv /\ LedgerInv /\ AttendedInv

\* It holds at first, and every step keeps it.
LEMMA FinishInit == Init => FinishInv
<1> SUFFICES ASSUME Init PROVE FinishInv
  OBVIOUS
<1>1. TypeInv /\ LeaseInv
  BY TypesInit, LeaseInit
<1>2. LedgerInv
  BY DEF Init, LedgerInv, NoRow
<1>3. AllUp /\ \A o \in Operators : operator[o].pc = "idle"
  BY DEF Init, AllUp, Resting, NoCommand
<1>4. LeasesHeld /\ RowPaths
  BY OwnersApart DEF Init, LeasesHeld, RowPaths, NoRow, Open
<1> QED BY <1>1, <1>2, <1>3, <1>4 DEF FinishInv, AttendedInv, Attended, SubjectsApart

\* See there.
LEMMA FinishStep ==
  ASSUME FinishInv, ~Stalls, QuarantineOnly, [Next]_vars, [WatchersFinish]_vars
  PROVE  FinishInv'
<1> USE DEF FinishInv
<1>1. RecoveryApart
  BY NothingApart
<1>2. TypeInv' /\ LeaseInv'
  BY <1>1, TypesStep, LeaseStep
<1>3. LedgerInv'
  BY <1>1, StepsAre, LedgerStep
<1>4. AllUp' /\ LeasesHeld' /\ RowPaths' /\ SubjectsApart'
  BY UpOn, LeasesOn, RowPathsOn, ApartOn
<1>5. \A o \in Operators : Attended(o)'
  BY AttendedOn
<1> QED BY <1>2, <1>3, <1>4, <1>5 DEF AttendedInv

-----------------------------------------------------------------------------
(***************************************************************************)
(* The files of one watcher.                                               *)
(***************************************************************************)

\* The file is there until the watcher is rid of it.
HasFile ==
  \A w \in Watchers :
    watcher[w].pc \in (Holding \ {"finalizing"}) \cup {"received", "refused"} =>
      watcher[w].file \in media[On(w)]

\* An event in doubt was submitted, and a file that was put away is where the watcher
\* says that it is.
PutAway ==
  \A w \in Watchers :
    LET r == watcher[w] IN
    /\ r.pc \in {"disposing", "finalizing"} /\ r.verdict = "uncertain" =>
         event[On(w)].decision # NoDecision
    /\ r.pc = "finalizing" /\ r.verdict \in Bad =>
         r.at \in media[On(w)] /\ r.at = IF Quarantines THEN "kept" ELSE "upload"

\* The ledger knows of every quarantined file, or is about to.
KeptRecorded ==
  \A c \in Captures : "kept" \in media[c] =>
    \/ event[c].state \in Terminal /\ event[c].path = "kept"
    \/ /\ event[c].state \in Open
       /\ \E w \in Watchers :
            watcher[w].pc = "finalizing" /\ On(w) = c /\ watcher[w].at = "kept"

\* The file of an event that ended badly is in quarantine or with a command.
BadKept ==
  \A c \in Captures : event[c].state \in Bad =>
    /\ event[c].state = "uncertain" => event[c].decision # NoDecision
    /\ IF Quarantines THEN event[c].path = "kept" /\ {"kept", "stage"} \cap media[c] # {}
                      ELSE event[c].path = "upload"

\* Another copy of an upload whose event is settled: when it is removed, an event that
\* was taken up again meanwhile has its file; when it is quarantined, its event is there.
TurnedAway ==
  \A w \in Watchers :
    LET r == watcher[w]
        e == event[On(w)] IN
    r.pc = "refused" =>
      /\ Quarantines /\ r.verdict = "uncertain" =>
           e.state \in {"uncertain", "dismissed"} /\ e.decision # NoDecision /\ e.path = "kept"
      /\ e.state \in Open => r.file # "target" /\ {"stage", "target"} \cap media[On(w)] # {}

\* At most one copy is on its way from quarantine to the watcher.
OneCopy == \A c \in Captures : ~({"stage", "target"} \subseteq media[c])

\* A quarantined copy beside a hidden one is of an event in doubt.
StagedAlone ==
  \A o \in Operators : operator[o].pc = "staged" /\ "kept" \in media[Subject(o)] =>
    event[Subject(o)].decision # NoDecision

\* Without a quarantine the files are where the camera put them.
LeftInPlace ==
  ~Quarantines => /\ \A c \in Captures : media[c] \subseteq {"upload"}
                  /\ \A o \in Operators : operator[o].pc = "idle"

FilesInv == HasFile /\ PutAway /\ KeptRecorded /\ BadKept /\ TurnedAway /\ OneCopy
            /\ StagedAlone /\ LeftInPlace

OneWatcher == \A v, w \in Watchers : v = w

\* What becomes of the row of an event that a watcher works at.
LEMMA HeldOn ==
  ASSUME FinishInv, ~Stalls, [Next]_vars, [WatchersFinish]_vars,
         NEW w \in Watchers, watcher[w].pc \in Holding
  PROVE  LET r == event[On(w)]
             q == event'[On(w)] IN
         \/ /\ q.path = r.path /\ q.state \in Open
            /\ q.decision = r.decision \/ watcher[w].pc \in Working
         \/ /\ Finalize(w) /\ watcher'[w] = Resting /\ q.decision = r.decision
            /\ q.state = watcher[w].verdict /\ q.path = watcher[w].at
<1> DEFINE c == On(w)
           r == event[c]
           q == event'[c]
<1>1. /\ On(w) \in Captures /\ Held(w) /\ ActiveLease(r)
      /\ r.owner = w /\ r.owner # NoOwner /\ r.state \in Open
  BY HolderFinds, OwnersApart DEF FinishInv, AttendedInv, Held, ActiveLease
<1>2. PathStep(c)
  BY <1>1, PathSteps DEF FinishInv
<1>3. r.state \notin Terminal /\ r.state # "absent"
  BY <1>1 DEF Open, Terminal
<1>4. \A o \in Operators : r.owner # o
  BY <1>1, OwnersApart
<1>5. CASE SamePath(r, q)
  BY <1>1, <1>5 DEF SamePath
<1>6. CASE \E o \in Operators : Orphaning(o, r, q)
  BY <1>1, <1>6 DEF Orphaning
<1>7. CASE \E v \in Watchers :
             /\ Finalize(v) /\ watcher'[v] = Resting /\ On(v) = c /\ r.owner = v
             /\ q.state = watcher[v].verdict /\ q.path = watcher[v].at /\ q.decision = r.decision
  BY <1>1, <1>7
<1> QED
  BY <1>1, <1>2, <1>3, <1>4, <1>5, <1>6, <1>7
     DEF PathStep, Reprocessable, CanComplete, Dismissable, Prunable, Terminal, Open

\* A copy that the camera or an operator put there stays until a watcher removes it.
LEMMA CopyStays ==
  ASSUME FinishInv, QuarantineOnly, OneWatcher, [Next]_vars, [WatchersFinish]_vars,
         NEW w \in Watchers, NEW c \in Captures, NEW file \in Uploads, file \in media[c]
  PROVE  \/ file \in media'[c]
         \/ /\ event' = event /\ On(w) = c
            /\ \/ TurnAway(w) /\ watcher[w].pc = "refused" /\ watcher'[w] = Resting
               \/ Dispose(w) /\ watcher[w].pc = "disposing" /\ watcher'[w].pc = "finalizing"
         \/ event' = event /\ event[c].state = "absent" /\ watcher[w].pc = "idle" /\ watcher' = watcher
<1>1. MediaStep(c) /\ \A v \in Watchers : v = w
  BY MediaSteps DEF FinishInv, OneWatcher
<1>2. file # "kept" /\ file # "stage"
  BY DEF Uploads
<1> QED BY <1>1, <1>2 DEF MediaStep, MovesCopy, Moves

\* So a watcher has its file.
LEMMA HasFileOn ==
  ASSUME FinishInv, FilesInv, QuarantineOnly, OneWatcher, [Next]_vars, [WatchersFinish]_vars
  PROVE  HasFile'
<1> SUFFICES ASSUME NEW w \in Watchers,
                    watcher'[w].pc \in (Holding \ {"finalizing"}) \cup {"received", "refused"}
             PROVE  watcher'[w].file \in media'[On(w)']
  BY DEF HasFile
<1> DEFINE r == watcher[w]
           q == watcher'[w]
           has == (Holding \ {"finalizing"}) \cup {"received", "refused"}
<1>1. /\ HandStep(w)
      /\ "idle" \notin has /\ "finalizing" \notin has /\ "received" \in has /\ "refused" \in has
      /\ "disposing" \in has /\ Working \subseteq has
      /\ On(w)' = q.capture /\ On(w) = r.capture /\ Resting.pc = "idle"
  BY HandSteps DEF FinishInv, Working, Holding, Facing, Calling, On, Resting
<1>2. CASE r.pc \in has /\ q.capture = r.capture /\ q.file = r.file
  <2>1. r.file \in media[On(w)] /\ r.file \in Uploads /\ On(w) \in Captures
    BY <1>2, WatcherGoesOn DEF FilesInv, HasFile, FinishInv, TypeInv, WatchersOK, Watching, On
  <2>2. q # Resting /\ q.pc # "finalizing" /\ r.pc # "idle"
    BY <1>1, <1>2
  <2> QED BY <1>1, <1>2, <2>1, <2>2, CopyStays
<1>3. ASSUME NEW c \in Captures, NEW file \in Uploads,
             Receive(w, c, file), q.capture = c, q.file = file
      PROVE  q.file \in media'[On(w)']
  BY <1>1, <1>3 DEF Receive
<1> HIDE DEF q, r, has
<1>4. \/ r.pc \in has /\ q.capture = r.capture /\ q.file = r.file
      \/ \E c \in Captures, file \in Uploads :
           Receive(w, c, file) /\ q.capture = c /\ q.file = file
  <2>1. q.pc \in has
    BY DEF q, has
  <2> QED BY <1>1, <2>1 DEF HandStep, SameHand, q, r
<1> QED BY <1>2, <1>3, <1>4 DEF q

\* What a watcher disposed of is where it says.
LEMMA PutAwayOn ==
  ASSUME FinishInv, FilesInv, ~Stalls, QuarantineOnly, OneWatcher, [Next]_vars,
         [WatchersFinish]_vars
  PROVE  PutAway'
<1> SUFFICES ASSUME NEW w \in Watchers
             PROVE  LET q == watcher'[w] IN
                    /\ q.pc \in {"disposing", "finalizing"} /\ q.verdict = "uncertain" =>
                         event'[On(w)'].decision # NoDecision
                    /\ q.pc = "finalizing" /\ q.verdict \in Bad =>
                         /\ q.at \in media'[On(w)']
                         /\ q.at = IF Quarantines THEN "kept" ELSE "upload"
  BY DEF PutAway
<1> DEFINE r == watcher[w]
           q == watcher'[w]
           c == On(w)
<1>1. /\ HandStep(w) /\ c = r.capture /\ On(w)' = q.capture
      /\ Resting.pc = "idle" /\ "finalizing" \notin Working /\ "disposing" \notin Working
  BY HandSteps DEF FinishInv, On, Resting, Working
<1>2. /\ r.pc \in {"disposing", "finalizing"} /\ r.verdict = "uncertain" =>
           event[c].decision # NoDecision
      /\ r.pc = "finalizing" /\ r.verdict \in Bad =>
           r.at \in media[c] /\ r.at = IF Quarantines THEN "kept" ELSE "upload"
  BY DEF FilesInv, PutAway
<1>3. CASE q = r /\ r.pc \in {"disposing", "finalizing"}
  <2>1. /\ r.pc \in Holding /\ q # Resting /\ c \in Captures
    BY <1>1, <1>3, WatcherGoesOn DEF Holding, FinishInv, TypeInv, WatchersOK, On
  <2>2. event'[c].decision = event[c].decision
    BY <1>1, <1>3, <2>1, HeldOn
  <2>3. ASSUME r.pc = "finalizing", r.verdict \in Bad PROVE r.at \in media'[c]
    <3>1. event[c].path \in Uploads
      BY <2>1, HolderFinds DEF FinishInv, AttendedInv, RowPaths, Held
    <3>2. "kept" \in media[c] => "kept" \in media'[c]
      <4>1. MediaStep(c) /\ \A v \in Watchers : watcher[v].file # "kept"
        BY <2>1, MediaSteps DEF FinishInv, TypeInv, WatchersOK, Watching, Uploads
      <4> QED BY <3>1, <4>1 DEF MediaStep, MovesCopy, Moves, Uploads
    <3>3. "upload" \in media[c] => "upload" \in media'[c]
      BY <1>3, <2>1, <2>3, CopyStays DEF Uploads
    <3> QED BY <1>2, <2>3, <3>2, <3>3
  <2> QED BY <1>1, <1>2, <1>3, <2>2, <2>3
<1>4. CASE /\ r.pc \in Working /\ q.pc = "disposing" /\ SameHand(q, r) /\ event' = event
           /\ q.verdict = "uncertain" => r.pc \in Calling
  <2>1. q.verdict = "uncertain" => AtBoundary(w) /\ Decision(w) # NoDecision
    BY <1>4, BegunIs DEF FinishInv, LeaseInv, Facing
  <2> QED BY <1>1, <1>4, <2>1 DEF AtBoundary, SameHand, On
<1>5. CASE /\ Dispose(w) /\ r.pc = "disposing" /\ q.pc = "finalizing" /\ q.at = DisposedTo(w)
           /\ q.capture = r.capture /\ q.verdict = r.verdict
  <2>1. event' = event
    BY <1>5 DEF Dispose, ledger
  <2>2. ASSUME r.verdict \in Bad
        PROVE  q.at \in media'[c] /\ q.at = IF Quarantines THEN "kept" ELSE "upload"
    <3>1. r.file \in media[c] /\ c \in Captures /\ media \in [Captures -> SUBSET Places]
      BY <1>5, WatcherGoesOn DEF FilesInv, HasFile, FinishInv, TypeInv, WatchersOK, On, Holding
    <3>2. r.verdict \notin Finished
      BY <2>2 DEF Bad, Finished
    <3>3. media' = RejectedFile(c, r.file) /\ q.at = RejectedTo(c, r.file)
      BY <1>5, <3>2 DEF Dispose, Finished, DisposedTo
    <3>4. ~Quarantines => r.file = "upload"
      BY <3>1 DEF FilesInv, LeftInPlace
    <3> QED BY <3>1, <3>3, <3>4 DEF RejectedFile, RejectedTo
  <2> QED BY <1>1, <1>2, <1>5, <2>1, <2>2
<1> HIDE DEF q, r, c
<1> QED BY <1>1, <1>3, <1>4, <1>5 DEF HandStep, q, r

\* A file that is quarantined, or put back there, is the ledger's.
LEMMA KeptOn ==
  ASSUME FinishInv, FilesInv, ~Stalls, QuarantineOnly, OneWatcher, [Next]_vars,
         [WatchersFinish]_vars
  PROVE  KeptRecorded'
<1> SUFFICES ASSUME NEW c \in Captures, "kept" \in media'[c]
             PROVE  \/ event'[c].state \in Terminal /\ event'[c].path = "kept"
                    \/ /\ event'[c].state \in Open
                       /\ \E w \in Watchers :
                            watcher'[w].pc = "finalizing" /\ On(w)' = c /\ watcher'[w].at = "kept"
  BY DEF KeptRecorded
<1>1. PathStep(c) /\ MediaStep(c)
  BY PathSteps, MediaSteps DEF FinishInv
<1>2. CASE "kept" \in media[c] /\ event[c].state \in Terminal /\ event[c].path = "kept"
  <2>1. ASSUME NEW o \in Operators, Request(o), Subject(o) = c, Reprocessable(event[c])
        PROVE  FALSE
    BY <1>2, <2>1 DEF FilesInv, StagedAlone, Request, Does, Reprocessable, CrossedBoundary
  <2> QED BY <1>1, <1>2, <2>1
          DEF PathStep, SamePath, Orphaning, CanComplete, Prunable, Open, Terminal
<1>3. ASSUME event[c].state \in Open, NEW w \in Watchers, watcher[w].pc = "finalizing", On(w) = c,
             watcher[w].at = "kept"
      PROVE  \/ event'[c].state \in Terminal /\ event'[c].path = "kept"
             \/ /\ event'[c].state \in Open
                /\ watcher'[w].pc = "finalizing" /\ On(w)' = c /\ watcher'[w].at = "kept"
  <2>1. /\ HandStep(w) /\ watcher[w].pc \in Holding /\ "finalizing" \notin Working
        /\ watcher[w].verdict \in Terminal
    BY <1>3, HandSteps DEF FinishInv, Working, Holding, AttendedInv, AllUp, TypeInv, WatchersOK,
                           WatcherOK, Endings, Terminal
  <2>2. CASE Finalize(w) /\ event'[c].state = watcher[w].verdict /\ event'[c].path = watcher[w].at
    BY <1>3, <2>1, <2>2
  <2>3. CASE event'[c].state \in Open /\ ~Finalize(w)
    BY <1>3, <2>1, <2>3 DEF HandStep, On
  <2>4. Finalize(w) => event'[c].state = watcher[w].verdict /\ event'[c].path = watcher[w].at
    BY <1>3, EndsEvent DEF FinishInv
  <2> QED BY <1>3, <2>1, <2>2, <2>3, <2>4, HeldOn
<1>4. CASE "kept" \notin media[c]
  <2>1. event' = event /\ MovesCopy(c)
    BY <1>1, <1>4 DEF MediaStep
  <2>2. \/ \E w \in Watchers :
             /\ watcher[w].pc = "refused" /\ On(w) = c /\ Quarantines
             /\ watcher[w].verdict = "uncertain"
        \/ \E w \in Watchers :
             Dispose(w) /\ On(w) = c /\ watcher[w].verdict \notin Finished /\ Quarantines
        \/ \E o \in Operators : operator[o].pc = "refused" /\ Subject(o) = c
    BY <1>4, <2>1 DEF MovesCopy, Moves, Uploads
  <2>3. CASE \E w \in Watchers :
               /\ watcher[w].pc = "refused" /\ On(w) = c /\ Quarantines
               /\ watcher[w].verdict = "uncertain"
    BY <2>1, <2>3 DEF FilesInv, TurnedAway, Terminal
  <2>4. ASSUME NEW w \in Watchers, Dispose(w), On(w) = c, watcher[w].verdict \notin Finished, Quarantines
        PROVE  /\ event'[c].state \in Open
               /\ watcher'[w].pc = "finalizing" /\ On(w)' = c /\ watcher'[w].at = "kept"
    <3>1. /\ watcher[w].pc = "disposing" /\ watcher'[w].pc = "finalizing" /\ On(w)' = c
          /\ watcher'[w].at = RejectedTo(c, watcher[w].file)
      BY <2>4, PutsAway DEF FinishInv, DisposedTo, On
    <3>2. watcher[w].file \in media[c] /\ event[c].state \in Open
      BY <2>4, <3>1 DEF FilesInv, HasFile, FinishInv, LeaseInv, Held, Holding
    <3> QED BY <2>1, <2>4, <3>1, <3>2 DEF RejectedTo
  <2>5. CASE \E o \in Operators : operator[o].pc = "refused" /\ Subject(o) = c
    BY <2>1, <2>5 DEF FinishInv, AttendedInv, Attended
  <2> QED BY <2>2, <2>3, <2>4, <2>5
<1> QED BY <1>2, <1>3, <1>4 DEF FilesInv, KeptRecorded

\* A bad end stays where the ledger says.
LEMMA BadKeptOn ==
  ASSUME FinishInv, FilesInv, ~Stalls, QuarantineOnly, OneWatcher, [Next]_vars,
         [WatchersFinish]_vars
  PROVE  BadKept'
<1> SUFFICES ASSUME NEW c \in Captures, event'[c].state \in Bad
             PROVE  /\ event'[c].state = "uncertain" => event'[c].decision # NoDecision
                    /\ IF Quarantines
                       THEN event'[c].path = "kept" /\ {"kept", "stage"} \cap media'[c] # {}
                       ELSE event'[c].path = "upload"
  BY DEF BadKept
<1>1. PathStep(c) /\ MediaStep(c)
  BY PathSteps, MediaSteps DEF FinishInv
<1>2. CASE /\ event[c].state = event'[c].state /\ event[c].path = event'[c].path
           /\ event[c].decision = event'[c].decision
  <2>1. /\ event[c].state = "uncertain" => event[c].decision # NoDecision
        /\ IF Quarantines THEN event[c].path = "kept" /\ {"kept", "stage"} \cap media[c] # {}
                          ELSE event[c].path = "upload"
    BY <1>2 DEF FilesInv, BadKept
  <2>2. {"kept", "stage"} \cap media[c] # {} => {"kept", "stage"} \cap media'[c] # {}
    <3>1. \A w \in Watchers : watcher[w].file \notin {"kept", "stage"}
      BY DEF FinishInv, TypeInv, WatchersOK, Watching, Uploads
    <3>2. \A o \in Operators : operator[o].pc = "requested" => Subject(o) # c
      BY <1>2 DEF FinishInv, AttendedInv, Attended, CanComplete, Bad
    <3> QED BY <1>1, <3>1, <3>2 DEF MediaStep, MovesCopy, Moves, Uploads
  <2> QED BY <1>2, <2>1, <2>2
<1>3. ASSUME NEW w \in Watchers, Finalize(w), On(w) = c, event'[c].state = watcher[w].verdict,
             event'[c].path = watcher[w].at, event'[c].decision = event[c].decision
      PROVE  /\ event'[c].state = "uncertain" => event'[c].decision # NoDecision
             /\ IF Quarantines
                THEN event'[c].path = "kept" /\ {"kept", "stage"} \cap media'[c] # {}
                ELSE event'[c].path = "upload"
  <2>1. watcher[w].pc = "finalizing" /\ media' = media
    BY <1>3 DEF Finalize, At
  <2> QED BY <1>3, <2>1 DEF FilesInv, PutAway
<1>4. "dismissed" \notin Bad /\ "received" \notin Bad /\ "processing" \notin Bad
  BY DEF Bad
<1>5. \/ /\ event[c].state = event'[c].state /\ event[c].path = event'[c].path
         /\ event[c].decision = event'[c].decision
      \/ \E w \in Watchers :
           /\ Finalize(w) /\ On(w) = c /\ event'[c].state = watcher[w].verdict
           /\ event'[c].path = watcher[w].at /\ event'[c].decision = event[c].decision
  BY <1>1, <1>4 DEF PathStep, SamePath, Orphaning, NoRow, Open, Bad
<1> QED BY <1>2, <1>3, <1>5

\* A file that is turned away is not the last one of an event that is to be looked at.
LEMMA TurnedAwayOn ==
  ASSUME FinishInv, FilesInv, ~Stalls, QuarantineOnly, OneWatcher, [Next]_vars,
         [WatchersFinish]_vars
  PROVE  TurnedAway'
<1> SUFFICES ASSUME NEW w \in Watchers, watcher'[w].pc = "refused"
             PROVE  LET q == watcher'[w]
                        e == event'[On(w)'] IN
                    /\ Quarantines /\ q.verdict = "uncertain" =>
                         /\ e.state \in {"uncertain", "dismissed"} /\ e.decision # NoDecision
                         /\ e.path = "kept"
                    /\ e.state \in Open =>
                         q.file # "target" /\ {"stage", "target"} \cap media'[On(w)'] # {}
  BY DEF TurnedAway
<1> DEFINE r == watcher[w]
           q == watcher'[w]
           c == On(w)
<1>1. /\ HandStep(w) /\ c = r.capture /\ On(w)' = q.capture
      /\ Resting.pc = "idle" /\ "refused" \notin Working
  BY HandSteps DEF FinishInv, On, Resting, Working, Holding, Facing, Calling
<1>2. CASE q = r
  <2>1. /\ r.pc = "refused" /\ On(w)' = c /\ c \in Captures /\ q # Resting
        /\ \A v \in Watchers : v = w
    BY <1>1, <1>2, WatcherGoesOn DEF FinishInv, TypeInv, WatchersOK, On, OneWatcher
  <2>2. PathStep(c) /\ MediaStep(c)
    BY <2>1, PathSteps, MediaSteps DEF FinishInv
  <2>3. /\ Quarantines /\ r.verdict = "uncertain" =>
             /\ event[c].state \in {"uncertain", "dismissed"} /\ event[c].decision # NoDecision
             /\ event[c].path = "kept"
        /\ event[c].state \in Open => r.file # "target" /\ {"stage", "target"} \cap media[c] # {}
    BY <2>1 DEF FilesInv, TurnedAway
  <2>4. ASSUME Quarantines, r.verdict = "uncertain"
        PROVE  /\ event'[c].state \in {"uncertain", "dismissed"} /\ event'[c].decision # NoDecision
               /\ event'[c].path = "kept"
    BY <2>2, <2>3, <2>4
       DEF PathStep, SamePath, Orphaning, Reprocessable, CrossedBoundary, CanComplete, Prunable, Open
  <2>5. ASSUME event'[c].state \in Open
        PROVE  r.file # "target" /\ {"stage", "target"} \cap media'[c] # {}
    <3>1. CASE event[c].state \in Open
      <4>1. "target" \in media[c] => "target" \in media'[c]
        <5>1. ~Dispose(w)
          BY <2>1 DEF Dispose, At
        <5> QED BY <2>1, <5>1, CopyStays DEF Uploads
      <4>2. "stage" \in media[c] => {"stage", "target"} \cap media'[c] # {}
        <5>1. \A o \in Operators : operator[o].pc = "refused" => Subject(o) # c
          BY <3>1 DEF FinishInv, AttendedInv, Attended, Open, Terminal
        <5>2. \A v \in Watchers : watcher[v].file # "stage"
          BY DEF FinishInv, TypeInv, WatchersOK, Watching, Uploads
        <5> QED BY <2>2, <5>1, <5>2 DEF MediaStep, MovesCopy, Moves, Uploads
      <4> QED BY <2>3, <3>1, <4>1, <4>2
    <3>2. CASE event[c].state \notin Open
      <4>1. event' # event
        BY <2>5, <3>2
      <4>2. media'[c] = media[c]
        BY <2>2, <4>1 DEF MediaStep
      <4>3. ~(\E v \in Watchers, file \in Uploads : Receive(v, c, file))
        BY <2>1 DEF Receive, At
      <4>4. \E o \in Operators : Request(o) /\ Subject(o) = c
        BY <2>2, <2>5, <3>2, <4>3
           DEF PathStep, SamePath, Orphaning, CanComplete, NoRow, Open, Terminal
      <4>5. "stage" \in media[c]
        BY <4>4 DEF FinishInv, AttendedInv, Attended, Request, Does
      <4>6. r.file \in media[c]
        BY <2>1 DEF FilesInv, HasFile
      <4> QED BY <2>1, <4>2, <4>5, <4>6 DEF FilesInv, OneCopy
    <3> QED BY <3>1, <3>2
  <2> QED BY <1>2, <2>1, <2>4, <2>5
<1>3. CASE /\ AcquireRefused(w) /\ r.pc = "received" /\ SameHand(q, r)
           /\ event[c].state \in Terminal
           /\ q.verdict = IF event[c].state = "uncertain" THEN "uncertain" ELSE "duplicate"
  <2>1. event' = event /\ On(w)' = c /\ c \in Captures
    BY <1>1, <1>3, WatcherGoesOn DEF AcquireRefused, ledger, SameHand, FinishInv, TypeInv,
                                     WatchersOK, On
  <2>2. event[c].state = "uncertain" /\ Quarantines =>
          event[c].decision # NoDecision /\ event[c].path = "kept"
    BY <2>1 DEF FilesInv, BadKept, Bad
  <2> QED BY <1>3, <2>1, <2>2 DEF Open, Terminal
<1> HIDE DEF q, r, c
<1> QED BY <1>1, <1>2, <1>3 DEF HandStep, q, r, c

\* No second copy joins one that is on its way.
LEMMA OneCopyOn ==
  ASSUME FinishInv, FilesInv, QuarantineOnly, [Next]_vars, [WatchersFinish]_vars
  PROVE  OneCopy'
<1> SUFFICES ASSUME NEW c \in Captures PROVE ~({"stage", "target"} \subseteq media'[c])
  BY DEF OneCopy
<1>1. MediaStep(c) /\ ~({"stage", "target"} \subseteq media[c])
  BY MediaSteps DEF FinishInv, FilesInv, OneCopy
<1>2. \A w \in Watchers : watcher[w].file \in {"upload", "target"}
  BY DEF FinishInv, TypeInv, WatchersOK, Watching, Uploads
<1> QED BY <1>1, <1>2 DEF MediaStep, MovesCopy, Moves, Uploads

\* What is quarantined while another copy is hidden, is of an event in doubt.
LEMMA StagedOn ==
  ASSUME FinishInv, FilesInv, ~Stalls, QuarantineOnly, OneWatcher, [Next]_vars,
         [WatchersFinish]_vars
  PROVE  StagedAlone'
<1> SUFFICES ASSUME NEW o \in Operators, operator'[o].pc = "staged",
                    "kept" \in media'[operator'[o].capture]
             PROVE  event'[operator'[o].capture].decision # NoDecision
  BY DEF StagedAlone, Subject
<1> DEFINE c == operator'[o].capture
<1>1. CommandStep(o)
  BY CommandSteps DEF FinishInv
<1>2. operator'[o] = operator[o]
  <2>1. ASSUME NEW d \in Captures, Hides(o, d) PROVE FALSE
    BY <2>1 DEF Hides
  <2> QED BY <1>1, <2>1 DEF CommandStep, NoCommand
<1>3. /\ c \in Captures /\ Subject(o) = c /\ event[c].state \in Terminal
      /\ PathStep(c) /\ MediaStep(c)
  BY <1>2, PathSteps, MediaSteps
     DEF Subject, FinishInv, TypeInv, CommandsOK, CommandOK, AttendedInv, Attended
<1>4. ASSUME NEW p \in Operators, operator[p].pc = "refused" PROVE Subject(p) # c
  BY <1>2, <1>3, <1>4 DEF FinishInv, AttendedInv, SubjectsApart
<1>5. CASE "kept" \in media[c]
  <2>1. event[c].decision # NoDecision
    BY <1>2, <1>3, <1>5 DEF FilesInv, StagedAlone
  <2>2. ~Prunable(c)
    BY <1>2, <1>3 DEF FinishInv, AttendedInv, Attended, Prunable
  <2> QED BY <1>3, <2>1, <2>2
          DEF PathStep, SamePath, Orphaning, Reprocessable, CrossedBoundary, CanComplete, Open, Terminal
<1>6. CASE "kept" \notin media[c]
  <2>1. event' = event /\ MovesCopy(c)
    BY <1>3, <1>6 DEF MediaStep
  <2>2. \E w \in Watchers :
          /\ On(w) = c /\ Quarantines
          /\ \/ watcher[w].pc = "refused" /\ watcher[w].verdict = "uncertain"
             \/ watcher[w].pc = "disposing"
    BY <1>4, <1>6, <2>1 DEF MovesCopy, Moves, Uploads
  <2>3. \A w \in Watchers : On(w) = c => watcher[w].pc # "disposing"
    BY <1>3 DEF FinishInv, LeaseInv, Held, Holding, Open, Terminal
  <2> QED BY <2>1, <2>2, <2>3 DEF FilesInv, TurnedAway
<1> QED BY <1>5, <1>6

\* Without a quarantine nothing leaves for another name.
LEMMA LeftOn ==
  ASSUME FinishInv, FilesInv, QuarantineOnly, [Next]_vars, [WatchersFinish]_vars
  PROVE  LeftInPlace'
<1> SUFFICES ASSUME ~Quarantines
             PROVE  /\ \A c \in Captures : media'[c] \subseteq {"upload"}
                    /\ \A o \in Operators : operator'[o].pc = "idle"
  BY DEF LeftInPlace
<1>1. /\ \A c \in Captures : media[c] \subseteq {"upload"}
      /\ \A o \in Operators : operator[o].pc = "idle"
  BY DEF FilesInv, LeftInPlace
<1>2. ASSUME NEW c \in Captures PROVE media'[c] \subseteq {"upload"}
  <2>1. MediaStep(c)
    BY MediaSteps DEF FinishInv
  <2> QED BY <1>1, <2>1 DEF MediaStep, MovesCopy, Moves
<1>3. ASSUME NEW o \in Operators PROVE operator'[o].pc = "idle"
  <2>1. CommandStep(o)
    BY CommandSteps DEF FinishInv
  <2>2. \A c \in Captures : ~Hides(o, c)
    BY <1>1 DEF Hides
  <2> QED BY <1>1, <2>1, <2>2 DEF CommandStep, NoCommand
<1> QED BY <1>2, <1>3

\* Nothing is there at first.
LEMMA FilesInit == Init => FilesInv
<1> SUFFICES ASSUME Init PROVE FilesInv
  OBVIOUS
<1>1. \A w \in Watchers : watcher[w] = Resting
  BY DEF Init
<1>2. Resting.pc = "idle"
  BY DEF Resting
<1>3. HasFile /\ PutAway /\ TurnedAway
  BY <1>1, <1>2 DEF HasFile, PutAway, TurnedAway, Holding, Facing, Calling
<1>4. KeptRecorded /\ BadKept /\ OneCopy
  BY DEF Init, KeptRecorded, BadKept, OneCopy, NoRow, Bad
<1>5. StagedAlone /\ LeftInPlace
  BY DEF Init, StagedAlone, LeftInPlace, NoCommand
<1> QED BY <1>3, <1>4, <1>5 DEF FilesInv

\* Every step keeps it.
LEMMA FilesStep ==
  ASSUME FinishInv, FilesInv, ~Stalls, QuarantineOnly, OneWatcher, [Next]_vars,
         [WatchersFinish]_vars
  PROVE  FilesInv'
BY HasFileOn, PutAwayOn, KeptOn, BadKeptOn, TurnedAwayOn, OneCopyOn, StagedOn, LeftOn DEF FilesInv

\* The file of an event that ended badly is where retention_path says, or is hidden by a
\* command, once nobody works on it (watch_service.py reject_file and finish_claim,
\* event_operations.py): for any number of captures, uploads, attempts and operators,
\* wherever these die, with one watcher that comes to the end.
THEOREM EvidenceIsFound ==
  ASSUME ~Stalls, QuarantineOnly, OneWatcher
  PROVE  Spec /\ [][WatchersFinish]_vars => []EvidenceFound
<1>1. Init => FinishInv /\ FilesInv
  BY FinishInit, FilesInit
<1>2. FinishInv /\ FilesInv /\ [Next]_vars /\ [WatchersFinish]_vars => (FinishInv /\ FilesInv)'
  BY FinishStep, FilesStep
<1>3. FinishInv /\ FilesInv => EvidenceFound
  <2> SUFFICES ASSUME FilesInv, NEW c \in Captures, event[c].state \in Bad, media[c] # {}
               PROVE  event[c].path \in media[c] \/ "stage" \in media[c]
    BY DEF EvidenceFound, Bad
  <2>1. CASE Quarantines
    BY <2>1 DEF FilesInv, BadKept
  <2>2. CASE ~Quarantines
    BY <2>2 DEF FilesInv, BadKept, LeftInPlace
  <2> QED BY <2>1, <2>2
<1> QED BY <1>1, <1>2, <1>3, PTL DEF Spec

\* While a copy of its upload is in quarantine, no event is pruned (event_ledger.py
\* prune_events): the retention path that keeps the row is the path of that copy.
THEOREM QuarantineIsNotPruned ==
  ASSUME ~Stalls, QuarantineOnly, OneWatcher
  PROVE  Spec /\ [][WatchersFinish]_vars => QuarantinedNotPruned
<1>1. Init => FinishInv /\ FilesInv
  BY FinishInit, FilesInit
<1>2. FinishInv /\ FilesInv /\ [Next]_vars /\ [WatchersFinish]_vars => (FinishInv /\ FilesInv)'
  BY FinishStep, FilesStep
<1>3. FinishInv /\ FilesInv /\ [Next]_vars /\ [WatchersFinish]_vars =>
        [\A c \in Captures :
           event[c].state # "absent" /\ event'[c].state = "absent" => "kept" \notin media[c]]_vars
  <2> SUFFICES ASSUME FinishInv, FilesInv, [Next]_vars, [WatchersFinish]_vars, NEW c \in Captures,
                      event[c].state # "absent", event'[c].state = "absent", "kept" \in media[c]
               PROVE  FALSE
    OBVIOUS
  <2>1. PathStep(c)
    BY PathSteps DEF FinishInv
  <2>2. Prunable(c)
    BY <2>1 DEF PathStep, SamePath, Orphaning, Open, Terminal
  <2> QED BY <2>2 DEF FilesInv, KeptRecorded, Prunable, Open, Terminal
<1> QED BY <1>1, <1>2, <1>3, PTL DEF Spec, QuarantinedNotPruned

\* The last copy of an upload goes only when its event was finished, dismissed or pruned
\* (watch_service.py remove_source, and its treatment of a second copy of a settled
\* event): a command that takes an event up again brings the file with it.  Where nothing
\* is quarantined, a rejected file may be removed as the duplicate that it is not.
THEOREM LastCopyStays ==
  ASSUME ~Stalls, QuarantineOnly, OneWatcher, Quarantines
  PROVE  Spec /\ [][WatchersFinish]_vars => LastCopyKept
<1>1. Init => FinishInv /\ FilesInv
  BY FinishInit, FilesInit
<1>2. FinishInv /\ FilesInv /\ [Next]_vars /\ [WatchersFinish]_vars => (FinishInv /\ FilesInv)'
  BY FinishStep, FilesStep
<1>3. FinishInv /\ FilesInv /\ [Next]_vars /\ [WatchersFinish]_vars =>
        [\A c \in Captures :
           media[c] # {} /\ media'[c] = {} =>
             \/ event[c].state \in {"absent", "processed", "checkin_created", "dismissed"}
             \/ \E w \in Watchers :
                  On(w) = c /\ watcher[w].verdict \in {"processed", "checkin_created"}]_vars
  <2> SUFFICES ASSUME FinishInv, FilesInv, [Next]_vars, [WatchersFinish]_vars, NEW c \in Captures,
                      media[c] # {}, media'[c] = {},
                      event[c].state \notin {"absent", "processed", "checkin_created", "dismissed"},
                      ~ \E w \in Watchers :
                          On(w) = c /\ watcher[w].verdict \in {"processed", "checkin_created"}
               PROVE  FALSE
    OBVIOUS
  <2>1. MediaStep(c)
    BY MediaSteps DEF FinishInv
  <2>2. PICK w \in Watchers :
          /\ watcher[w].pc = "refused" /\ On(w) = c /\ media'[c] = media[c] \ {watcher[w].file}
    BY <2>1 DEF MediaStep, MovesCopy, Moves, Finished
  <2>3. watcher[w].file \in Uploads /\ event[c].state \in Open \cup Bad
    BY DEF FinishInv, TypeInv, WatchersOK, Watching, RowsOK, Row, Bad, Terminal
  <2>4. event[c].state \notin Bad
    BY <2>2, <2>3 DEF FilesInv, BadKept, Uploads
  <2>5. watcher[w].file # "target" /\ {"stage", "target"} \cap media[c] # {}
    BY <2>2, <2>3, <2>4 DEF FilesInv, TurnedAway
  <2> QED BY <2>2, <2>3, <2>5 DEF Uploads
<1> QED BY <1>1, <1>2, <1>3, PTL DEF Spec, LastCopyKept

-----------------------------------------------------------------------------
(***************************************************************************)
(* The worker mode: what a queued face holds.  Nothing fails in a watcher  *)
(* here, since one that fails at a later face gives back the reservations  *)
(* of the faces that it has queued already.                                *)
(***************************************************************************)

\* Only the death of an operator is a fault.
OnlyOperatorsFail == faults' # faults => \E o \in Operators : OperatorDies(o)

\* Stages of a watcher that leaves the delivery to the worker and does not fail there.
Queueing == {"idle", "received", "leased", "renewed", "scoring", "reserved", "failing",
             "disposing", "finalizing", "refused"}

\* A pass over the faces has decided those before this one, and none else.
FacesFresh ==
  \A w \in Watchers :
    LET r == watcher[w] IN
    /\ r.pc \in Queueing
    /\ \A d \in decided : d.event = On(w) /\ d.attempt = r.attempt =>
         /\ r.pc \notin {"leased", "renewed"}
         /\ r.pc \in {"scoring", "reserved"} => d.face < r.face

\* A decision is of an attempt that its event has had.
DecidedKnown ==
  \A d \in decided : event[d.event].state # "absent" /\ d.attempt <= event[d.event].attempt

\* A watcher that will end the event of this decision as finished.
Queues(w, d) ==
  LET r == watcher[w] IN
  \/ r.pc \in {"scoring", "reserved"} /\ d.face < r.face
  \/ r.pc = "disposing" /\ r.verdict \in Finished
  \/ r.pc = "finalizing" /\ r.verdict \in Finished /\ r.at # "kept"

\* A job is of a face with a scope and of an event that is known.
JobsKnown ==
  \A d \in Decisions : job[d] # "absent" =>
    /\ d.event \in tombstone /\ ScopeOf(d) \in Scopes
    /\ d \in decided \/ event[d.event].state = "absent"

\* The event of a queued face was finished, or is about to be: it is not taken up again.
QueuedFinishes ==
  \A d \in Decisions : job[d] # "absent" =>
    LET r == event[d.event] IN
    \/ r.state = "absent"
    \/ r.state \in Finished \cup {"dismissed"} /\ r.path # "kept"
    \/ \E w \in Watchers : On(w) = d.event /\ Queues(w, d)

\* A reservation is of a queued face or of one that is about to be queued.
HoldersQueued ==
  \A s \in Scopes :
    LET d == policy[s].decision IN
    d # NoDecision =>
      \/ job[d] # "absent"
      \/ \E w \in Watchers : watcher[w].pc = "reserved" /\ Decision(w) = d

\* Whoever is about to queue a face has its scope reserved, and not run out.
ReservedHeld ==
  \A w \in Watchers : watcher[w].pc = "reserved" =>
    LET p == policy[Scope(w)] IN
    p.state = "pending" /\ p.decision = Decision(w) /\ p.window > 0

QueueInv ==
  /\ FacesFresh /\ DecidedKnown /\ JobsKnown /\ QueuedFinishes
  /\ HoldersQueued /\ ReservedHeld /\ QueuedHoldsScope

\* A watcher that does not fail comes to the end.
LEMMA FailingNot ==
  ASSUME TypeInv, [OnlyOperatorsFail]_vars
  PROVE  [WatchersFinish]_vars /\ (Fault => operator' # operator)
<1>1. Fault => operator' # operator
  <2> SUFFICES ASSUME Fault PROVE operator' # operator
    OBVIOUS
  <2>1. faults' # faults
    BY ProcessingAssumption DEF Fault, TypeInv, BoundsOK
  <2>2. PICK o \in Operators : OperatorDies(o)
    BY <2>1 DEF OnlyOperatorsFail, vars
  <2> QED BY <2>2 DEF OperatorDies, Does, Turns, NoCommand, TypeInv, CommandsOK
<1>2. \A w \in Watchers : ~Crash(w) /\ ~Breaks(w) /\ ~ReleaseFails(w)
  BY <1>1 DEF Crash, Breaks, ReleaseFails, processes
<1>3. \A w \in Watchers : FinalizeFails(w) => UNCHANGED faults
  BY <1>1 DEF FinalizeFails, Refused
<1> QED BY <1>1, <1>2, <1>3 DEF WatchersFinish

\* The steps of a watcher in the worker mode.
QueueActs(w) ==
  \/ Acquire(w) \/ AcquireRefused(w) \/ TurnAway(w) \/ Renew(w) \/ Advance(w)
  \/ watcher[w].pc \in {"leased", "renewed"} /\ Fails(w)
  \/ Reject(w) \/ Unaccepted(w) \/ Reserve(w) \/ Suppress(w) \/ Persist(w)
  \/ Release(w) \/ AllScored(w) \/ Dispose(w) \/ Finalize(w)
  \/ \E c \in Captures, file \in Uploads : Receive(w, c, file) \/ Replay(w, c, file)

\* The decision a watcher is at is not there yet.
LEMMA FaceIsFresh ==
  ASSUME TypeInv, FacesFresh, NEW w \in Watchers,
         watcher[w].pc = "reserved" \/ (watcher[w].pc = "scoring" /\ FacesLeft(w))
  PROVE  /\ Decision(w) \notin decided /\ Decision(w) \in Decisions /\ On(w) \in Captures
         /\ Decision(w).event = On(w) /\ Decision(w).attempt = watcher[w].attempt
         /\ Decision(w).face = watcher[w].face /\ watcher[w].face \in Nat
         /\ Scope(w) \in Scopes /\ ScopeOf(Decision(w)) = Scope(w)
<1>1. /\ Decision(w) \in Decisions /\ On(w) \in Captures /\ Scope(w) \in Scopes
  BY AtFace DEF Facing
<1>2. watcher[w].face \in Nat
  BY DEF TypeInv, WatchersOK, Watching, WatcherOK
<1>3. /\ Decision(w).event = On(w) /\ Decision(w).attempt = watcher[w].attempt
      /\ Decision(w).face = watcher[w].face
  BY DEF Decision
<1>4. ScopeOf(Decision(w)) = Scope(w)
  BY <1>3 DEF ScopeOf, Scope
<1>5. Decision(w) \notin decided
  BY <1>2, <1>3 DEF FacesFresh
<1> QED BY <1>1, <1>2, <1>3, <1>4, <1>5

\* There are no others.
LEMMA QueueActsAre ==
  ASSUME TypeInv, LeaseInv, FacesFresh, WorkerMode, [OnlyOperatorsFail]_vars,
         NEW w \in Watchers, WatcherActs(w)
  PROVE  QueueActs(w)
<1>0. Fault => operator' # operator
  BY FailingNot
<1>1. ASSUME Fails(w) PROVE QueueActs(w)
  BY <1>0, <1>1 DEF Fails, QueueActs
<1>2. ~DecisionTaken(w)
  BY FaceIsFresh DEF DecisionTaken, At
<1>3. ~PersistFails(w)
  <2> SUFFICES ASSUME PersistFails(w) PROVE FALSE
    OBVIOUS
  <2>1. watcher[w].pc = "reserved" /\ Refused(Decision(w) \in decided \/ event[On(w)].state = "absent")
        /\ operator' = operator
    BY DEF PersistFails, At
  <2>2. event[On(w)].state # "absent"
    BY <2>1 DEF LeaseInv, Held, Holding, Facing, Open
  <2> QED BY <1>0, <2>1, <2>2, FaceIsFresh DEF Refused
<1>4. ASSUME Submitted(w) PROVE Persist(w)
  <2>1. watcher[w].pc \in Queueing
    BY DEF FacesFresh
  <2> QED BY <1>3, <1>4, <2>1 DEF Submitted, Begin, BeginFails, Call, Raised, Doubt, DoubtFails,
                                  MarkDelivered, MarkDeliveredFails, Commit, CommitFails, At,
                                  Queueing
<1> QED BY <1>1, <1>2, <1>4 DEF WatcherActs, Judged, QueueActs

\* A watcher goes on to its next face, of which this one has its decision now.
PassesFace(w) ==
  /\ watcher[w].pc \in {"scoring", "reserved"} /\ watcher'[w].pc = "scoring"
  /\ SameHand(watcher'[w], watcher[w]) /\ watcher'[w].face = watcher[w].face + 1
  /\ Decision(w) \in decided' /\ Decision(w) \notin decided
  /\ watcher[w].pc = "reserved" => job'[Decision(w)] = "pending"

\* All that a step may make of a watcher between a lease and the end of its event.
FaceStep(w) ==
  LET r == watcher[w]
      q == watcher'[w] IN
  \/ q = r
  \/ q.pc \in {"idle", "received", "refused"}
  \/ Acquire(w) /\ q.pc = "leased"
  \/ r.pc = "leased" /\ q.pc = "renewed"
  \/ r.pc = "renewed" /\ q.pc = "scoring" /\ q.face = 1
  \/ r.pc \in {"leased", "renewed", "failing"} /\ q.pc \in {"failing", "disposing"}
  \/ r.pc = "scoring" /\ r.face = 1 /\ q.pc = "disposing"
  \/ r.pc = "scoring" /\ q.pc = "disposing" /\ q.verdict \in Finished
  \/ r.pc = "scoring" /\ q.pc = "reserved" /\ q.face = r.face /\ Reserve(w)
  \/ PassesFace(w)
  \/ r.pc = "disposing" /\ q.pc = "finalizing"

\* A watcher that passes a face.
LEMMA FacePasses ==
  ASSUME TypeInv, FacesFresh, WorkerMode, NEW w \in Watchers,
         Unaccepted(w) \/ Suppress(w) \/ Persist(w)
  PROVE  PassesFace(w)
<1> DEFINE q == watcher'[w]
<1>1. /\ \/ watcher[w].pc = "reserved"
         \/ watcher[w].pc = "scoring" /\ FacesLeft(w)
      /\ Decision(w) \in decided'
      /\ q \in {NextFace(w), [NextFace(w) EXCEPT !.queued = TRUE]}
  BY DEF Unaccepted, Suppress, Persist, At, Goes, TypeInv, WatchersOK
<1>2. q.pc = "scoring" /\ SameHand(q, watcher[w]) /\ q.face = watcher[w].face + 1
  BY <1>1, HandAtFace
<1>3. Decision(w) \notin decided /\ Decision(w) \in Decisions
  BY <1>1, FaceIsFresh
<1>4. watcher[w].pc = "reserved" => job'[Decision(w)] = "pending"
  BY <1>3 DEF Unaccepted, Suppress, Persist, At, TypeInv, DeliveriesOK
<1> QED BY <1>1, <1>2, <1>3, <1>4 DEF PassesFace

\* Every step moves the watchers like that.
LEMMA FaceSteps ==
  ASSUME TypeInv, LeaseInv, AttendedInv, FacesFresh, WorkerMode, [Next]_vars,
         [OnlyOperatorsFail]_vars, NEW w \in Watchers
  PROVE  FaceStep(w) /\ (QueueActs(w) \/ watcher'[w] = watcher[w])
<1> DEFINE r == watcher[w]
           q == watcher'[w]
<1>0. /\ {"renewed", "failing", "reserved", "disposing", "finalizing"} \subseteq Stages
      /\ {"rejected", "failed", "processed", "checkin_created"} \subseteq Verdicts
  BY DEF Stages, Verdicts
<1>1. CASE q = r
  BY <1>1 DEF FaceStep
<1>2. ASSUME NEW v \in Watchers, WatcherActs(v), v # w PROVE q = r
  <2>1. QueueActs(v)
    BY <1>2, QueueActsAre
  <2>2. \A to : Goes(v, to) => q = r
    BY <1>2 DEF Goes, TypeInv, WatchersOK
  <2>3. (\E to : Goes(v, to)) \/ UNCHANGED watcher
    BY <2>1 DEF QueueActs, Acquire, AcquireRefused, TurnAway, Renew, Advance, Fails, Failing,
                Release, AllScored, Dispose, Disposing, Reject, Unaccepted, Reserve,
                Suppress, Persist, Finalize, Closing, Receive, Replay, processes
  <2> QED BY <2>2, <2>3
<1>3. ASSUME QueueActs(w) PROVE FaceStep(w)
  <2>a. \A to : Goes(w, to) => q = to
    BY DEF Goes, TypeInv, WatchersOK
  <2>1. CASE Acquire(w)
    <3>1. RowsOK'
      BY TypesStep DEF TypeInv
    <3> QED BY <2>1, <3>1, TakesUp DEF FaceStep
  <2>2. CASE AcquireRefused(w)
    <3> DEFINE v == IF event[On(w)].state = "uncertain" THEN "uncertain" ELSE "duplicate"
               to == [r EXCEPT !.pc = "refused", !.verdict = v]
    <3>1. q = Resting \/ q = to
      BY <2>2, <2>a DEF AcquireRefused
    <3>2. v \in Verdicts /\ "refused" \in Stages
      BY DEF Verdicts, Stages
    <3> HIDE DEF v
    <3>3. to.pc = "refused"
      BY <3>2, HandAtVerdict
    <3> HIDE DEF to
    <3> QED BY <3>1, <3>3 DEF FaceStep, Resting
  <2>3. CASE TurnAway(w) \/ Finalize(w)
    <3>1. r.verdict # "broken"
      BY DEF AttendedInv, AllUp
    <3>2. q = Resting
      BY <2>3, <2>a, <3>1 DEF TurnAway, Finalize, Closing
    <3> QED BY <3>2 DEF FaceStep, Resting
  <2>4. CASE Renew(w)
    <3> DEFINE to == [r EXCEPT !.pc = "renewed"]
    <3>1. r.pc = "leased" /\ q = to
      BY <2>4, <2>a DEF Renew, At
    <3>2. to.pc = "renewed"
      BY <1>0, HandAtStage
    <3> HIDE DEF to
    <3> QED BY <3>1, <3>2 DEF FaceStep
  <2>5. CASE Advance(w)
    <3> DEFINE to == [r EXCEPT !.pc = "scoring", !.face = 1]
    <3>1. r.pc = "renewed" /\ q = to
      BY <2>5, <2>a DEF Advance, At
    <3>2. to.pc = "scoring" /\ to.face = 1
      BY HandAtFace
    <3> HIDE DEF to
    <3> QED BY <3>1, <3>2 DEF FaceStep
  <2>6. CASE r.pc \in {"leased", "renewed"} /\ Fails(w)
    <3> DEFINE to == [r EXCEPT !.pc = "failing"]
    <3>1. q = to
      BY <2>6, <2>a DEF Fails, Failing
    <3>2. to.pc = "failing"
      BY <1>0, HandAtStage
    <3> HIDE DEF to
    <3> QED BY <2>6, <3>1, <3>2 DEF FaceStep
  <2>7. CASE Reject(w) \/ Release(w)
    <3>1. PICK v \in {"rejected", "failed"} : q = [r EXCEPT !.pc = "disposing", !.verdict = v]
      BY <2>7, <2>a DEF Reject, Release, Disposing
    <3> DEFINE to == [r EXCEPT !.pc = "disposing", !.verdict = v]
    <3>4. v \in Verdicts /\ "disposing" \in Stages
      BY <1>0
    <3>5. to.pc = "disposing"
      BY <3>4, HandAtVerdict DEF SameHand
    <3> HIDE DEF to
    <3>2. q.pc = "disposing"
      BY <3>1, <3>5 DEF to
    <3>3. \/ r.pc \in {"leased", "renewed", "failing"}
          \/ r.pc = "scoring" /\ r.face = 1
      BY <2>7 DEF Reject, Release, At
    <3> QED BY <3>2, <3>3 DEF FaceStep
  <2>8. CASE AllScored(w)
    <3>1. PICK v \in Finished : r.pc = "scoring" /\ q = [r EXCEPT !.pc = "disposing", !.verdict = v]
      BY <2>8, <2>a DEF AllScored, Disposing, At, Finished
    <3> DEFINE to == [r EXCEPT !.pc = "disposing", !.verdict = v]
    <3>4. v \in Verdicts /\ "disposing" \in Stages
      BY <1>0 DEF Finished
    <3>5. to.pc = "disposing" /\ to.verdict = v
      BY <3>4, HandAtVerdict DEF SameHand
    <3> HIDE DEF to
    <3>2. q.pc = "disposing" /\ q.verdict \in Finished
      BY <3>1, <3>5 DEF to
    <3> QED BY <3>1, <3>2 DEF FaceStep
  <2>9. CASE Reserve(w)
    <3> DEFINE to == [r EXCEPT !.pc = "reserved"]
    <3>1. r.pc = "scoring" /\ q = to
      BY <2>9, <2>a DEF Reserve, At
    <3>2. to.pc = "reserved" /\ to.face = r.face
      BY <1>0, HandAtStage
    <3> HIDE DEF to
    <3> QED BY <2>9, <3>1, <3>2 DEF FaceStep
  <2>10. CASE Dispose(w)
    BY <2>10, PutsAway DEF FaceStep
  <2>11. ASSUME NEW c \in Captures, NEW file \in Uploads, Receive(w, c, file) \/ Replay(w, c, file)
         PROVE  FaceStep(w)
    <3>1. \/ q = r
          \/ q = [Resting EXCEPT !.pc = "received", !.capture = c, !.file = file]
      BY <2>11, <2>a DEF Receive, Replay, processes
    <3> QED BY <3>1 DEF FaceStep, Resting
  <2>12. CASE Unaccepted(w) \/ Suppress(w) \/ Persist(w)
    BY <2>12, FacePasses DEF FaceStep
  <2> QED BY <1>3, <2>1, <2>2, <2>3, <2>4, <2>5, <2>6, <2>7, <2>8, <2>9, <2>10, <2>11, <2>12
          DEF QueueActs
<1>4. ASSUME NEW o \in Operators, OperatorActs(o) PROVE UNCHANGED watcher
  BY <1>4 DEF OperatorActs, Request, RequestRefused, Unstage, Publish, Complete, OperatorDies,
              Stage, Dismiss, processes
<1>5. ASSUME OtherActs PROVE UNCHANGED watcher
  BY <1>5 DEF OtherActs, Upload, DeliverQueued, Prune, Tick, processes, vars
<1>6. ASSUME WatcherActs(w) PROVE QueueActs(w)
  BY <1>6, QueueActsAre
<1> QED BY <1>1, <1>2, <1>3, <1>4, <1>5, <1>6, AttendedSteps, FailingNot

\* So these are all the steps that there are.
LEMMA QueueSteps ==
  ASSUME TypeInv, LeaseInv, AttendedInv, FacesFresh, WorkerMode, [Next]_vars,
         [OnlyOperatorsFail]_vars
  PROVE  \/ \E w \in Watchers : QueueActs(w)
         \/ \E o \in Operators : OperatorActs(o)
         \/ OtherActs
BY AttendedSteps, FailingNot, QueueActsAre

\* A decision is new to the watcher that passes its face.
LEMMA WhoDecides ==
  ASSUME TypeInv, LeaseInv, AttendedInv, FacesFresh, WorkerMode, [Next]_vars,
         [OnlyOperatorsFail]_vars, NEW d \in decided', d \notin decided
  PROVE  \E w \in Watchers : PassesFace(w) /\ d = Decision(w)
<1>1. ASSUME NEW w \in Watchers, QueueActs(w) PROVE PassesFace(w) /\ d = Decision(w)
  <2>1. CASE Unaccepted(w) \/ Suppress(w) \/ Persist(w)
    <3>1. decided' = decided \cup {Decision(w)}
      BY <2>1 DEF Unaccepted, Suppress, Persist
    <3> QED BY <2>1, <3>1, FacePasses
  <2>2. CASE ~(Unaccepted(w) \/ Suppress(w) \/ Persist(w))
    <3>1. UNCHANGED decided
      BY <1>1, <2>2 DEF QueueActs, Acquire, AcquireRefused, TurnAway, Renew, Advance, Fails,
                        Reject, Reserve, Release, AllScored, Dispose, Finalize,
                        Receive, Replay, delivery
    <3> QED BY <3>1
  <2> QED BY <2>1, <2>2
<1>2. ASSUME NEW o \in Operators, OperatorActs(o) PROVE UNCHANGED decided
  BY <1>2 DEF OperatorActs, Request, RequestRefused, Unstage, Publish, Complete, OperatorDies,
              Stage, Dismiss, delivery
<1>3. ASSUME OtherActs PROVE decided' \subseteq decided
  BY <1>3 DEF OtherActs, Upload, DeliverQueued, Prune, Tick, delivery, vars
<1> QED BY <1>1, <1>2, <1>3, QueueSteps

\* All that a step may make of a job: a face is queued; the worker settles it.
QueueJobStep(d) ==
  \/ job'[d] = job[d]
  \/ /\ job'[d] = "pending" /\ policy' = policy
     /\ \E w \in Watchers : PassesFace(w) /\ watcher[w].pc = "reserved" /\ d = Decision(w)
  \/ /\ DeliverQueued(d) /\ job[d] = "pending"
     /\ job'[d] \in {"delivered", "uncertain", "permanent_failure"}

\* Every step makes that of it.
LEMMA QueueJobSteps ==
  ASSUME TypeInv, LeaseInv, AttendedInv, FacesFresh, WorkerMode, [Next]_vars,
         [OnlyOperatorsFail]_vars, NEW d \in Decisions
  PROVE  QueueJobStep(d)
<1>0. job \in [Decisions -> JobStates]
  BY DEF TypeInv, DeliveriesOK
<1>1. ASSUME NEW w \in Watchers, QueueActs(w) PROVE QueueJobStep(d)
  <2>1. CASE Persist(w)
    <3>1. /\ watcher[w].pc = "reserved" /\ policy' = policy
          /\ job' = [job EXCEPT ![Decision(w)] = "pending"]
      BY <2>1 DEF Persist, At
    <3>2. PassesFace(w)
      BY <2>1, FacePasses
    <3>3. CASE d = Decision(w)
      BY <1>0, <3>1, <3>2, <3>3 DEF QueueJobStep
    <3>4. CASE d # Decision(w)
      BY <1>0, <3>1, <3>4 DEF QueueJobStep
    <3> QED BY <3>3, <3>4
  <2>2. CASE ~Persist(w)
    <3>1. UNCHANGED job
      BY <1>1, <2>2 DEF QueueActs, Acquire, AcquireRefused, TurnAway, Renew, Advance, Fails,
                        Reject, Unaccepted, Reserve, Suppress, Release, AllScored,
                        Dispose, Finalize, Receive, Replay, delivery
    <3> QED BY <3>1 DEF QueueJobStep
  <2> QED BY <2>1, <2>2
<1>2. ASSUME NEW o \in Operators, OperatorActs(o) PROVE UNCHANGED job
  BY <1>2 DEF OperatorActs, Request, RequestRefused, Unstage, Publish, Complete, OperatorDies,
              Stage, Dismiss, delivery
<1>3. ASSUME NEW e \in Decisions, DeliverQueued(e) PROVE QueueJobStep(d)
  <2>1. /\ job[e] = "pending"
        /\ \E o \in {"delivered", "uncertain", "permanent_failure"} : job' = [job EXCEPT ![e] = o]
    BY <1>3 DEF DeliverQueued
  <2>2. CASE d = e
    <3>1. job'[d] \in {"delivered", "uncertain", "permanent_failure"}
      BY <1>0, <2>1, <2>2
    <3> QED BY <1>3, <2>1, <2>2, <3>1 DEF QueueJobStep
  <2>3. CASE d # e
    BY <1>0, <2>1, <2>3 DEF QueueJobStep
  <2> QED BY <2>2, <2>3
<1>4. ASSUME OtherActs PROVE QueueJobStep(d)
  <2>1. CASE \E e \in Decisions : DeliverQueued(e)
    BY <1>3, <2>1
  <2>2. CASE ~\E e \in Decisions : DeliverQueued(e)
    <3>1. UNCHANGED job
      BY <1>4, <2>2 DEF OtherActs, Upload, Prune, Tick, delivery, vars
    <3> QED BY <3>1 DEF QueueJobStep
  <2> QED BY <2>1, <2>2
<1> QED BY <1>1, <1>2, <1>4, QueueSteps DEF QueueJobStep

\* A face that finds its scope free has not reserved it before.
LEMMA ReservesFresh ==
  ASSUME TypeInv, LeaseInv, QueueInv, NEW w \in Watchers, Reserve(w)
  PROVE  /\ policy[Scope(w)].decision # Decision(w)
         /\ MayReserve(policy[Scope(w)], Decision(w))
<1> DEFINE d == Decision(w)
           p == policy[Scope(w)]
<1>1. /\ watcher[w].pc = "scoring" /\ FacesLeft(w)
      /\ p.decision = d \/ MayReserve(p, d)
  BY DEF Reserve, At
<1>2. /\ d \notin decided /\ d \in Decisions /\ On(w) \in Captures /\ d.event = On(w)
      /\ Scope(w) \in Scopes
  BY <1>1, FaceIsFresh DEF QueueInv
<1>3. p.decision # d
  <2> SUFFICES ASSUME p.decision = d PROVE FALSE
    OBVIOUS
  <2>1. d # NoDecision
    BY <1>2, DecisionsApart
  <2>2. event[On(w)].state # "absent"
    BY <1>1 DEF LeaseInv, Held, Holding, Facing, Open
  <2>3. job[d] = "absent"
    BY <1>2, <2>2 DEF QueueInv, JobsKnown
  <2>4. PICK v \in Watchers : watcher[v].pc = "reserved" /\ Decision(v) = d
    BY <1>2, <2>1, <2>3 DEF QueueInv, HoldersQueued
  <2>5. On(v) = On(w)
    BY <2>4 DEF Decision
  <2>6. v = w
    BY <1>1, <2>4, <2>5, OneHolder DEF Holding, Facing
  <2> QED BY <1>1, <2>4, <2>6
<1> QED BY <1>1, <1>3

\* All that a step may make of a reservation: it stays, but for its time, which does not
\* run out on a watcher at work; a face reserves it; it is in doubt when it has run out;
\* the worker settles its job; it is given up with an event that nobody works at, by the
\* watcher that fails at the event, or by an operator who takes the event up or dismisses it.
QueueScope(s) ==
  LET p == policy[s]
      q == policy'[s]
      d == p.decision IN
  \/ /\ q.state = p.state /\ q.decision = d
     /\ p.state = "pending" /\ p.window > 0 => q.window > 0 \/ Unworked(d.event)
  \/ \E w \in Watchers :
       /\ Reserve(w) /\ s = Scope(w) /\ MayReserve(p, Decision(w))
       /\ q.state = "pending" /\ q.decision = Decision(w) /\ q.window > 0
  \/ Policy!Expired(p) /\ q.state = "uncertain" /\ q.decision = d
  \/ /\ d \in Decisions /\ DeliverQueued(d) /\ job[d] = "pending" /\ q.decision \in {d, NoDecision}
     /\ \/ job'[d] \in {"delivered", "permanent_failure"}
        \/ q.decision = d /\ (p.state # "none" => q.state # "none")
  \/ /\ d \in Decisions /\ q.decision = NoDecision
     /\ \/ Unworked(d.event) /\ (event[d.event].state \in Open \/ event'[d.event].state = "dismissed")
        \/ \E w \in Watchers : watcher[w].pc = "failing" /\ On(w) = d.event
        \/ \E o \in Operators : operator[o].pc = "staged" /\ Subject(o) = d.event

\* A reservation that a step leaves alone.
LEMMA QueueScopeRests ==
  ASSUME NEW s, policy'[s] = policy[s]
  PROVE  QueueScope(s)
BY DEF QueueScope

\* The holder of a reservation is a decision, or nobody.
LEMMA HolderIs ==
  ASSUME TypeInv, NEW s \in Scopes
  PROVE  /\ policy[s] \in Policy!PolicyRow
         /\ policy[s].decision = NoDecision \/ policy[s].decision \in Decisions
         /\ policy[s].decision.event \in Captures => policy[s].decision \in Decisions
<1>1. policy[s] \in Policy!PolicyRow
  BY DEF TypeInv
<1>2. policy[s].decision = NoDecision \/ policy[s].decision \in Decisions
  BY <1>1, DecisionsOf
<1>3. NoDecision.event \notin Captures
  BY ProcessingAssumption DEF NoDecision
<1> QED BY <1>1, <1>2, <1>3

\* The steps of a watcher.
LEMMA WatcherQueueScopes ==
  ASSUME TypeInv, LeaseInv, AttendedInv, QueueInv, NEW w \in Watchers, QueueActs(w),
         NEW s \in Scopes
  PROVE  QueueScope(s)
<1> DEFINE p == policy[s]
           c == On(w)
<1>0. /\ p \in Policy!PolicyRow
      /\ p.decision.event \in Captures => p.decision \in Decisions
  BY HolderIs
<1>1. CASE Acquire(w)
  <2>1. c \in Captures /\ event[c] \in Row /\ Finds(event[c], w) \in {"free", "owned"}
    BY <1>1, WatcherGoesOn DEF Acquire, At, TypeInv, WatchersOK, On, RowsOK, RowOK
  <2>2. CASE Finds(event[c], w) = "free" /\ p.decision.event = c
    <3>1. event[c].state \in Open /\ ~ActiveLease(event[c])
      BY <2>1, <2>2, Found
    <3>2. Unworked(c)
      BY <3>1, FreeUnworked
    <3>3. policy'[s] = p \/ policy'[s] = Policy!GivenUp(p)
      BY <1>1 DEF Acquire, OfEvent
    <3>4. Frees(Policy!GivenUp(p), p)
      BY <1>0, ReservationIs
    <3> QED BY <1>0, <2>1, <2>2, <3>1, <3>2, <3>3, <3>4 DEF QueueScope, Frees
  <2>3. CASE ~(Finds(event[c], w) = "free" /\ p.decision.event = c)
    <3>1. policy'[s] = p
      BY <1>1, <2>3 DEF Acquire, OfEvent
    <3> QED BY <3>1, QueueScopeRests
  <2> QED BY <2>2, <2>3
<1>2. CASE Reserve(w)
  <2>1. /\ policy[Scope(w)].decision # Decision(w) /\ MayReserve(policy[Scope(w)], Decision(w))
    BY <1>2, ReservesFresh
  <2>2. Decision(w) \in Decisions
    BY <1>2, FaceIsFresh DEF Reserve, At, QueueInv
  <2>3. CASE s = Scope(w)
    <3>1. policy'[s] = Policy!Reserved(p, Decision(w), WindowTicks)
      BY <1>2, <2>1, <2>3 DEF Reserve, TypeInv
    <3>2. /\ policy'[s].state = "pending" /\ policy'[s].decision = Decision(w)
          /\ policy'[s].window > 0
      BY <1>0, <2>2, <3>1, ReservationIs
    <3> QED BY <1>2, <2>1, <2>3, <3>2 DEF QueueScope
  <2>4. CASE s # Scope(w)
    <3>1. policy'[s] = p
      BY <1>2, <2>4 DEF Reserve, TypeInv
    <3> QED BY <3>1, QueueScopeRests
  <2> QED BY <2>3, <2>4
<1>3. CASE Suppress(w)
  <2>1. policy'[s] = p \/ (Policy!Expired(p) /\ policy'[s] = Policy!MarkedUncertain(p))
    BY <1>3 DEF Suppress, TypeInv, Policy!HolderUnresolved
  <2>2. CASE policy'[s] = p
    BY <2>2, QueueScopeRests
  <2>3. CASE Policy!Expired(p) /\ policy'[s] = Policy!MarkedUncertain(p)
    <3>1. p.state = "pending"
      BY <2>3 DEF Policy!Expired
    <3>2. policy'[s].state = "uncertain" /\ policy'[s].decision = p.decision
      BY <1>0, <2>3, <3>1, ReservationIs
    <3> QED BY <2>3, <3>2 DEF QueueScope
  <2> QED BY <2>1, <2>2, <2>3
<1>4. CASE Release(w)
  <2>1. watcher[w].pc = "failing" /\ c \in Captures
    BY <1>4, WatcherGoesOn DEF Release, At, TypeInv, WatchersOK, On, Holding
  <2>2. policy'[s] = p \/ (p.decision.event = c /\ policy'[s] = Policy!Released(p))
    BY <1>4 DEF Release, OfEvent
  <2>3. CASE policy'[s] = p
    BY <2>3, QueueScopeRests
  <2>4. CASE p.decision.event = c /\ policy'[s] = Policy!Released(p)
    <3>1. policy'[s] = p \/ Frees(policy'[s], p)
      BY <1>0, <2>4, ReservationIs
    <3> QED BY <1>0, <2>1, <2>4, <3>1, QueueScopeRests DEF QueueScope, Frees
  <2> QED BY <2>2, <2>3, <2>4
<1>5. CASE ~(Acquire(w) \/ Reserve(w) \/ Suppress(w) \/ Release(w))
  <2>1. UNCHANGED policy
    BY <1>5 DEF QueueActs, AcquireRefused, TurnAway, Renew, Advance, Fails, Reject, Unaccepted,
                Persist, AllScored, Dispose, Finalize, Receive, Replay
  <2> QED BY <2>1, QueueScopeRests
<1> QED BY <1>1, <1>2, <1>3, <1>4, <1>5

\* An operator's.
LEMMA OperatorQueueScopes ==
  ASSUME TypeInv, LeaseInv, NEW o \in Operators, OperatorActs(o), NEW s \in Scopes
  PROVE  QueueScope(s)
<1> DEFINE p == policy[s]
<1>0. /\ p \in Policy!PolicyRow
      /\ p.decision.event \in Captures => p.decision \in Decisions
  BY HolderIs
<1>1. Frees(Policy!GivenUp(p), p)
  BY <1>0, ReservationIs
<1>2. CASE Request(o)
  <2> DEFINE c == Subject(o)
  <2>1. operator[o].pc = "staged" /\ c \in Captures
    BY <1>2 DEF Request, Does, TypeInv, CommandsOK, CommandOK, Subject
  <2>2. policy'[s] = p \/ (p.decision.event = c /\ policy'[s] = Policy!GivenUp(p))
    BY <1>2 DEF Request, OfEvent
  <2>3. CASE policy'[s] = p
    BY <2>3, QueueScopeRests
  <2>4. CASE p.decision.event = c /\ policy'[s] = Policy!GivenUp(p)
    BY <1>0, <1>1, <2>1, <2>4 DEF QueueScope, Frees
  <2> QED BY <2>2, <2>3, <2>4
<1>3. ASSUME NEW c \in Captures, Dismiss(o, c) PROVE QueueScope(s)
  <2>1. ~ActiveLease(event[c])
    BY <1>3 DEF Dismiss, Dismissable
  <2>2. Unworked(c)
    BY <2>1, FreeUnworked
  <2>3. event'[c].state = "dismissed"
    <3>1. event'[c] = Dismissed(event[c])
      BY <1>3 DEF Dismiss, TypeInv, RowsOK
    <3> QED BY <3>1, RowTaken DEF IsRow, TypeInv, RowsOK
  <2>4. policy'[s] = p \/ (p.decision.event = c /\ policy'[s] = Policy!GivenUp(p))
    BY <1>3 DEF Dismiss, OfEvent
  <2>5. CASE policy'[s] = p
    BY <2>5, QueueScopeRests
  <2>6. CASE p.decision.event = c /\ policy'[s] = Policy!GivenUp(p)
    BY <1>0, <1>1, <2>2, <2>3, <2>6 DEF QueueScope, Frees
  <2> QED BY <2>4, <2>5, <2>6
<1>4. CASE ~(Request(o) \/ \E c \in Captures : Dismiss(o, c))
  <2>1. UNCHANGED policy
    BY <1>4 DEF OperatorActs, RequestRefused, Unstage, Publish, Complete, OperatorDies, Stage
  <2> QED BY <2>1, QueueScopeRests
<1> QED BY <1>2, <1>3, <1>4

\* The delivery worker's.
LEMMA WorkerQueueScopes ==
  ASSUME TypeInv, NEW d \in Decisions, DeliverQueued(d), NEW s \in Scopes
  PROVE  QueueScope(s)
<1> DEFINE p == policy[s]
           q == policy'[s]
<1>0. p \in Policy!PolicyRow
  BY DEF TypeInv
<1>1. CASE p.decision # d
  <2>1. q = p
    BY <1>1 DEF DeliverQueued, OfDecision
  <2> QED BY <2>1, QueueScopeRests
<1>2. CASE p.decision = d
  <2>1. /\ job[d] = "pending" /\ job \in [Decisions -> JobStates]
        /\ \/ job' = [job EXCEPT ![d] = "delivered"] /\ q = Policy!Committed(p)
           \/ job' = [job EXCEPT ![d] = "uncertain"] /\ q = Policy!MarkedUncertain(p)
           \/ job' = [job EXCEPT ![d] = "permanent_failure"] /\ q = Policy!Released(p)
    BY <1>2 DEF DeliverQueued, OfDecision, TypeInv, DeliveriesOK
  <2>2. CASE job' = [job EXCEPT ![d] = "delivered"] /\ q = Policy!Committed(p)
    <3>1. q.decision \in {d, NoDecision}
      BY <1>0, <1>2, <2>2, ReservationIs
    <3>2. job'[d] = "delivered"
      BY <2>1, <2>2
    <3> QED BY <1>2, <2>1, <3>1, <3>2 DEF QueueScope
  <2>3. CASE job' = [job EXCEPT ![d] = "uncertain"] /\ q = Policy!MarkedUncertain(p)
    <3>1. q.decision = d /\ (p.state # "none" => q.state # "none")
      BY <1>0, <1>2, <2>3, ReservationIs
    <3> QED BY <1>2, <2>1, <3>1 DEF QueueScope
  <2>4. CASE job' = [job EXCEPT ![d] = "permanent_failure"] /\ q = Policy!Released(p)
    <3>1. q.decision \in {d, NoDecision}
      BY <1>0, <1>2, <2>4, ReservationIs DEF Frees
    <3>2. job'[d] = "permanent_failure"
      BY <2>1, <2>4
    <3> QED BY <1>2, <2>1, <3>1, <3>2 DEF QueueScope
  <2> QED BY <2>1, <2>2, <2>3, <2>4
<1> QED BY <1>1, <1>2

\* And time, so that every step moves the reservations like that.
LEMMA QueueScopes ==
  ASSUME TypeInv, LeaseInv, AttendedInv, QueueInv, WorkerMode, ~Stalls, [Next]_vars,
         [OnlyOperatorsFail]_vars, NEW s \in Scopes
  PROVE  QueueScope(s)
<1> DEFINE p == policy[s]
<1>1. CASE Tick
  <2>1. policy'[s] = Policy!Elapsed(p) /\ ~WindowRunsOut(s)
    BY <1>1 DEF Tick
  <2>2. Keeps(policy'[s], p) /\ (p.window > 0 /\ p.window # 1 => policy'[s].window > 0)
    BY <2>1, ReservationIs DEF TypeInv
  <2>3. p.state = "pending" /\ p.window = 1 => Unworked(p.decision.event)
    BY <2>1 DEF WindowRunsOut, Unworked
  <2> QED BY <2>2, <2>3 DEF QueueScope, Keeps
<1>2. CASE \E c \in Captures : Upload(c)
  BY <1>2, QueueScopeRests DEF Upload
<1>3. CASE Prune \/ UNCHANGED vars
  BY <1>3, QueueScopeRests DEF Prune, vars
<1>4. FacesFresh
  BY DEF QueueInv
<1> QED BY <1>1, <1>2, <1>3, <1>4, QueueSteps, WatcherQueueScopes, OperatorQueueScopes,
           WorkerQueueScopes DEF OtherActs

-----------------------------------------------------------------------------
(***************************************************************************)
(* So a queued face keeps its scope.                                       *)
(***************************************************************************)

\* An open event with a queued face has the watcher that will finish it; an ended one
\* is not in quarantine, so that no command takes it up.
LEMMA QueuedAre ==
  ASSUME FinishInv, QueueInv, NEW d \in Decisions, job[d] # "absent"
  PROVE  LET r == event[d.event] IN
         /\ d.event \in Captures
         /\ r.state \in Open =>
              \E w \in Watchers : watcher[w].pc \in Holding /\ On(w) = d.event /\ Queues(w, d)
         /\ r.state \in Terminal => r.path # "kept"
         /\ \A o \in Operators : operator[o].pc = "staged" => Subject(o) # d.event
<1> DEFINE r == event[d.event]
<1>1. \A w \in Watchers : Queues(w, d) => watcher[w].pc \in Holding
  BY DEF Queues, Holding, Facing
<1>2. \A w \in Watchers : On(w) = d.event /\ Queues(w, d) => r.state \in Open
  BY <1>1 DEF FinishInv, LeaseInv, Held
<1>3. \/ r.state = "absent"
      \/ r.state \in Finished \cup {"dismissed"} /\ r.path # "kept"
      \/ \E w \in Watchers : On(w) = d.event /\ Queues(w, d)
  BY DEF QueueInv, QueuedFinishes
<1>4. r.state \in Terminal => r.path # "kept"
  BY <1>2, <1>3 DEF Open, Terminal
<1>5. r.state \in Open =>
        \E w \in Watchers : watcher[w].pc \in Holding /\ On(w) = d.event /\ Queues(w, d)
  BY <1>1, <1>3 DEF Open, Finished
<1>6. ASSUME NEW o \in Operators, operator[o].pc = "staged" PROVE Subject(o) # d.event
  BY <1>4, <1>6 DEF FinishInv, AttendedInv, Attended
<1> QED BY <1>4, <1>5, <1>6, DecisionsApart

\* A watcher keeps its event and attempt from the lease to the end.
LEMMA HandStays ==
  ASSUME NEW w \in Watchers, HandStep(w), watcher[w].pc \in Holding, watcher'[w].pc \in Holding
  PROVE  /\ watcher'[w].capture = watcher[w].capture /\ watcher'[w].attempt = watcher[w].attempt
         /\ On(w)' = On(w)
<1>1. /\ "received" \notin Holding /\ "idle" \notin Holding /\ "refused" \notin Holding
      /\ Resting.pc = "idle"
  BY DEF Holding, Facing, Calling, Resting
<1> QED BY <1>1 DEF HandStep, SameHand, On

\* A decision of a watcher that passes its face is of its event and attempt.
LEMMA PassedIs ==
  ASSUME FinishInv, QueueInv, NEW w \in Watchers, PassesFace(w)
  PROVE  /\ Decision(w).event = On(w) /\ Decision(w).attempt = watcher[w].attempt
         /\ Decision(w).face = watcher[w].face /\ watcher[w].face \in Nat
         /\ On(w)' = On(w) /\ watcher'[w].attempt = watcher[w].attempt
         /\ watcher[w].pc \in Holding /\ watcher'[w].pc \in Holding
<1>1. watcher[w].face \in Nat
  BY DEF FinishInv, TypeInv, WatchersOK, Watching, WatcherOK
<1> QED BY <1>1 DEF PassesFace, SameHand, Decision, On, Holding, Facing

\* A watcher that was given the lease begins an attempt that nothing was decided in.
LEMMA AttemptIsNew ==
  ASSUME FinishInv, QueueInv, NEW w \in Watchers, Acquire(w), [Next]_vars,
         NEW d \in decided, d.event = On(w)
  PROVE  d.attempt # event'[On(w)].attempt
<1> DEFINE c == On(w)
<1>1. watcher[w].pc = "received" /\ c \in Captures /\ Finds(event[c], w) = "free"
  BY HolderFinds DEF Acquire, At, FinishInv, AttendedInv
<1>2. event[c] \in Row /\ w \in Owners
  BY <1>1 DEF FinishInv, TypeInv, RowsOK, RowOK, Owners
<1>3. event'[c] = Acquired(event[c], w)
  BY <1>1 DEF Acquire, FinishInv, TypeInv, RowsOK
<1>4. event'[c].attempt = event[c].attempt + 1
  BY <1>2, <1>3, RowMoved DEF IsRow
<1>5. d.attempt <= event[c].attempt /\ d.attempt \in Nat /\ event[c].attempt \in Nat
  BY <1>2, DecisionsOf DEF QueueInv, DecidedKnown, FinishInv, TypeInv, DeliveriesOK, Row
<1> QED BY <1>4, <1>5

\* A pass over the faces goes on in order.
LEMMA FreshOn ==
  ASSUME FinishInv, FinishInv', QueueInv, WorkerMode, [Next]_vars, [OnlyOperatorsFail]_vars
  PROVE  FacesFresh'
<1> SUFFICES ASSUME NEW w \in Watchers
             PROVE  /\ watcher'[w].pc \in Queueing
                    /\ \A d \in decided' : d.event = On(w)' /\ d.attempt = watcher'[w].attempt =>
                         /\ watcher'[w].pc \notin {"leased", "renewed"}
                         /\ watcher'[w].pc \in {"scoring", "reserved"} => d.face < watcher'[w].face
  BY DEF FacesFresh
<1> DEFINE r == watcher[w]
           q == watcher'[w]
<1>1. FaceStep(w) /\ HandStep(w)
  BY FaceSteps, HandSteps, FailingNot DEF FinishInv, QueueInv
<1>2. q.pc \in Queueing
  BY <1>1 DEF FaceStep, PassesFace, QueueInv, FacesFresh, Queueing
<1>3. ASSUME NEW d \in decided', d.event = On(w)', d.attempt = q.attempt,
             q.pc \in {"leased", "renewed", "scoring", "reserved"}
      PROVE  q.pc \in {"scoring", "reserved"} /\ d.face < q.face
  <2>0. {"leased", "renewed", "scoring", "reserved"} \subseteq Holding
    BY DEF Holding, Facing
  <2>1. CASE d \notin decided
    <3>1. PICK v \in Watchers : PassesFace(v) /\ d = Decision(v)
      BY <2>1, WhoDecides DEF FinishInv, QueueInv
    <3>2. On(v)' = On(w)' /\ watcher'[v].pc \in Holding /\ d.face = watcher[v].face
          /\ watcher[v].face \in Nat
      BY <1>3, <3>1, PassedIs
    <3>3. v = w
      BY <1>3, <2>0, <3>2 DEF FinishInv, LeaseInv, Held
    <3> QED BY <3>1, <3>2, <3>3 DEF PassesFace
  <2>2. CASE d \in decided
    <3>1. d.event = On(w) /\ d.attempt = r.attempt =>
            /\ r.pc \notin {"leased", "renewed"}
            /\ r.pc \in {"scoring", "reserved"} => d.face < r.face
      BY <2>2 DEF QueueInv, FacesFresh
    <3>2. r.pc \in Holding => d.event = On(w) /\ d.attempt = r.attempt
      BY <1>1, <1>3, <2>0, HandStays
    <3>3. ~(Acquire(w) /\ q.pc = "leased")
      <4> SUFFICES ASSUME Acquire(w) PROVE FALSE
        OBVIOUS
      <4>1. RowsOK'
        BY DEF FinishInv, TypeInv
      <4>2. q.capture = r.capture /\ q.attempt = event'[On(w)].attempt
        BY <4>1, TakesUp DEF FinishInv
      <4> QED BY <1>3, <2>2, <4>2, AttemptIsNew DEF On
    <3>4. d.face \in Nat /\ r.face \in Nat
      BY <2>2, FacesCount DEF FinishInv, TypeInv, DeliveriesOK, WatchersOK, Watching, WatcherOK
    <3>5. CASE q = r
      BY <1>3, <2>0, <3>1, <3>2, <3>5
    <3>6. CASE r.pc \in {"leased", "renewed"}
      BY <2>0, <3>1, <3>2, <3>6
    <3>7. CASE r.pc \in {"scoring", "reserved"} /\ (PassesFace(w) \/ q.face = r.face)
               /\ q.pc \in {"scoring", "reserved"}
      BY <2>0, <3>1, <3>2, <3>4, <3>7 DEF PassesFace
    <3> QED BY <1>1, <1>3, <3>3, <3>5, <3>6, <3>7 DEF FaceStep, PassesFace
  <2> QED BY <2>1, <2>2
<1> QED BY <1>2, <1>3

\* What is decided is of an attempt that the event has had.
LEMMA DecidedOn ==
  ASSUME FinishInv, FinishInv', QueueInv, WorkerMode, ~Stalls, [Next]_vars,
         [OnlyOperatorsFail]_vars
  PROVE  DecidedKnown'
<1> SUFFICES ASSUME NEW d \in decided'
             PROVE  event'[d.event].state # "absent" /\ d.attempt <= event'[d.event].attempt
  BY DEF DecidedKnown
<1>1. CASE d \notin decided
  <2>1. PICK w \in Watchers : PassesFace(w) /\ d = Decision(w)
    BY <1>1, WhoDecides DEF FinishInv, QueueInv
  <2>2. d.event = On(w)' /\ d.attempt = watcher'[w].attempt /\ watcher'[w].pc \in Holding
    BY <2>1, PassedIs
  <2>3. event'[d.event].state \in Open /\ event'[d.event].attempt = d.attempt
    BY <2>2 DEF FinishInv, LeaseInv, Held
  <2>4. d.attempt \in Nat
    BY DecisionsOf DEF FinishInv, TypeInv, DeliveriesOK
  <2> QED BY <2>3, <2>4 DEF Open
<1>2. CASE d \in decided
  <2> DEFINE c == d.event
  <2>0. c \in Captures /\ d.attempt \in Nat
    BY <1>2, DecisionsOf DEF FinishInv, TypeInv, DeliveriesOK
  <2>1. event[c].state # "absent" /\ d.attempt <= event[c].attempt
    BY <1>2 DEF QueueInv, DecidedKnown
  <2>2. RowStep(c) /\ PathStep(c)
    BY <2>0, StepsAre, NothingApart, PathSteps, FailingNot DEF FinishInv
  <2>3. event'[c].state # "absent"
    <3>1. ~(Prune /\ Prunable(c))
      BY DEF Prune
    <3> QED BY <2>1, <2>2, <3>1 DEF PathStep, SamePath, Orphaning, Open, Terminal
  <2>4. event[c].attempt \in Nat /\ event'[c].attempt \in Nat
    BY <2>0 DEF FinishInv, TypeInv, RowsOK, RowOK, Row
  <2>5. event'[c].attempt = event[c].attempt \/ event'[c].attempt = event[c].attempt + 1
    BY <2>1, <2>2, <2>3 DEF RowStep, RowBecomes
  <2> QED BY <2>0, <2>1, <2>3, <2>4, <2>5
<1> QED BY <1>1, <1>2

\* An event that was pruned stays so.
LEMMA GoneStays ==
  ASSUME FinishInv, ~Stalls, [Next]_vars, [WatchersFinish]_vars, NEW c \in Captures,
         c \in tombstone, event[c].state = "absent"
  PROVE  event'[c].state = "absent"
<1>1. PathStep(c)
  BY PathSteps DEF FinishInv
<1> QED BY <1>1 DEF PathStep, SamePath, Orphaning, Open, Reprocessable, CanComplete, Dismissable,
                    Prunable, Terminal, NoRow

\* A job is of a known event.
LEMMA JobsOn ==
  ASSUME FinishInv, QueueInv, WorkerMode, ~Stalls, [Next]_vars, [OnlyOperatorsFail]_vars
  PROVE  JobsKnown'
<1> SUFFICES ASSUME NEW d \in Decisions, job'[d] # "absent"
             PROVE  /\ d.event \in tombstone' /\ ScopeOf(d) \in Scopes
                    /\ d \in decided' \/ event'[d.event].state = "absent"
  BY DEF JobsKnown, ScopeOf
<1>0. d.event \in Captures /\ tombstone \subseteq tombstone'
  BY DecisionsApart, TombstonesStay
<1>1. CASE job[d] # "absent"
  <2>1. /\ d.event \in tombstone /\ ScopeOf(d) \in Scopes
        /\ d \in decided \/ event[d.event].state = "absent"
    BY <1>1 DEF QueueInv, JobsKnown
  <2>2. d \in decided => d \in decided' \/ event'[d.event].state = "absent"
    BY DecisionsStay DEF FinishInv
  <2>3. event[d.event].state = "absent" => event'[d.event].state = "absent"
    BY <1>0, <2>1, GoneStays, FailingNot DEF FinishInv
  <2> QED BY <1>0, <2>1, <2>2, <2>3
<1>2. CASE job[d] = "absent"
  <2>1. PICK w \in Watchers : PassesFace(w) /\ watcher[w].pc = "reserved" /\ d = Decision(w)
    BY <1>2, QueueJobSteps DEF QueueJobStep, FinishInv, QueueInv
  <2>2. d.event = On(w) /\ ScopeOf(d) \in Scopes
    BY <2>1, FaceIsFresh DEF FinishInv, QueueInv
  <2>3. event[d.event].state # "absent"
    BY <2>1, <2>2 DEF FinishInv, LeaseInv, Held, Holding, Facing, Open
  <2>4. d.event \in tombstone
    BY <1>0, <2>3 DEF FinishInv, LedgerInv
  <2> QED BY <1>0, <2>1, <2>2, <2>4 DEF PassesFace
<1> QED BY <1>1, <1>2

\* A watcher that is about to finish the event of a queued face goes on to, or has.
LEMMA QueuesOn ==
  ASSUME FinishInv, FinishInv', QueueInv, WorkerMode, ~Stalls, [Next]_vars,
         [OnlyOperatorsFail]_vars,
         NEW d \in Decisions, NEW w \in Watchers, On(w) = d.event, Queues(w, d)
  PROVE  \/ On(w)' = d.event /\ Queues(w, d)'
         \/ event'[d.event].state \in Finished /\ event'[d.event].path # "kept"
<1> DEFINE r == watcher[w]
           q == watcher'[w]
<1>1. FaceStep(w) /\ HandStep(w)
  BY FaceSteps, HandSteps, FailingNot DEF FinishInv, QueueInv
<1>2. /\ r.pc \in Holding /\ r.pc \in {"scoring", "reserved", "disposing", "finalizing"}
      /\ d.face \in Nat /\ d.face >= 1 /\ r.face \in Nat /\ r.file # "kept"
  BY FacesCount DEF Queues, Holding, Facing, FinishInv, TypeInv, WatchersOK, Watching, WatcherOK, Uploads
<1>3. CASE q = r
  BY <1>3 DEF On, Queues
<1>4. CASE Finalize(w) /\ q = Resting
  <2>1. r.pc = "finalizing" /\ r.verdict \in Finished /\ r.at # "kept"
    BY <1>4 DEF Finalize, At, Queues
  <2>2. event'[On(w)].state = r.verdict /\ event'[On(w)].path = r.at
    BY <1>4, EndsEvent DEF FinishInv
  <2> QED BY <2>1, <2>2
<1>5. CASE r.pc \in {"scoring", "reserved"} /\ q.pc \in Holding
  <2>1. On(w)' = On(w) /\ d.face < r.face
    BY <1>1, <1>2, <1>5, HandStays DEF Queues
  <2>2. CASE q.pc \in {"scoring", "reserved"}
    <3>1. q.face = r.face \/ q.face = r.face + 1
      BY <1>1, <1>2, <1>5, <2>2 DEF FaceStep, PassesFace, Acquire, At
    <3> QED BY <1>2, <2>1, <2>2, <3>1 DEF Queues
  <2>3. CASE q.pc \notin {"scoring", "reserved"}
    <3>1. q.pc = "disposing" /\ q.verdict \in Finished
      BY <1>1, <1>2, <1>5, <2>1, <2>3 DEF FaceStep, PassesFace, Acquire, At, Holding, Facing, Calling
    <3> QED BY <2>1, <3>1 DEF Queues
  <2> QED BY <2>2, <2>3
<1>6. CASE r.pc = "disposing" /\ q.pc = "finalizing"
  <2>1. r.verdict \in Finished /\ q.verdict = r.verdict /\ q.at = DisposedTo(w) /\ On(w)' = On(w)
    BY <1>1, <1>6 DEF HandStep, Queues, SameHand, Working, Resting, On
  <2>2. q.at # "kept"
    BY <1>2, <2>1 DEF DisposedTo, Nowhere
  <2> QED BY <1>6, <2>1, <2>2 DEF Queues
<1>7. \/ q = r \/ (Finalize(w) /\ q = Resting)
      \/ r.pc \in {"scoring", "reserved"} /\ q.pc \in Holding
      \/ r.pc = "disposing" /\ q.pc = "finalizing"
  BY <1>1, <1>2 DEF HandStep, Working, Holding, Facing, Calling
<1> QED BY <1>3, <1>4, <1>5, <1>6, <1>7

\* So its event is finished and not taken up again.
LEMMA FinishesOn ==
  ASSUME FinishInv, FinishInv', QueueInv, WorkerMode, ~Stalls, [Next]_vars,
         [OnlyOperatorsFail]_vars
  PROVE  QueuedFinishes'
<1> SUFFICES ASSUME NEW d \in Decisions, job'[d] # "absent"
             PROVE  \/ event'[d.event].state = "absent"
                    \/ /\ event'[d.event].state \in Finished \cup {"dismissed"}
                       /\ event'[d.event].path # "kept"
                    \/ \E w \in Watchers : On(w)' = d.event /\ Queues(w, d)'
  BY DEF QueuedFinishes
<1> DEFINE c == d.event
<1>1. CASE job[d] = "absent"
  <2>1. PICK w \in Watchers : PassesFace(w) /\ watcher[w].pc = "reserved" /\ d = Decision(w)
    BY <1>1, QueueJobSteps DEF QueueJobStep, FinishInv, QueueInv
  <2>2. On(w)' = d.event /\ d.face = watcher[w].face /\ watcher[w].face \in Nat
    BY <2>1, PassedIs
  <2>3. Queues(w, d)'
    BY <2>1, <2>2 DEF PassesFace, Queues
  <2> QED BY <2>2, <2>3
<1>2. CASE job[d] # "absent"
  <2>0. c \in Captures /\ c \in tombstone /\ PathStep(c)
    BY <1>2, DecisionsApart, PathSteps, FailingNot DEF QueueInv, JobsKnown, FinishInv
  <2>1. \/ event[c].state = "absent"
        \/ event[c].state \in Finished \cup {"dismissed"} /\ event[c].path # "kept"
        \/ \E w \in Watchers : On(w) = c /\ Queues(w, d)
    BY <1>2 DEF QueueInv, QueuedFinishes
  <2>2. CASE event[c].state = "absent"
    BY <2>0, <2>2, GoneStays, FailingNot DEF FinishInv
  <2>3. CASE event[c].state \in Finished \cup {"dismissed"} /\ event[c].path # "kept"
    <3>1. event[c].state \notin Open
      BY <2>3 DEF Open, Finished
    <3>2. ~\E o \in Operators : Request(o) /\ Subject(o) = c
      BY <1>2, QueuedAre DEF Request, Does
    <3> QED BY <2>0, <2>3, <3>1, <3>2 DEF PathStep, SamePath, Orphaning, CanComplete, NoRow, Open
  <2>4. CASE \E w \in Watchers : On(w) = c /\ Queues(w, d)
    BY <2>4, QueuesOn
  <2> QED BY <2>1, <2>2, <2>3, <2>4
<1> QED BY <1>1, <1>2

\* A watcher that reserves a scope is at that face then.
LEMMA ReserveGoes ==
  ASSUME TypeInv, NEW w \in Watchers, Reserve(w)
  PROVE  /\ watcher'[w].pc = "reserved" /\ watcher[w].pc = "scoring" /\ FacesLeft(w)
         /\ Decision(w)' = Decision(w) /\ Scope(w)' = Scope(w)
<1> DEFINE r == watcher[w]
           q == [r EXCEPT !.pc = "reserved"]
<1>1. watcher'[w] = q /\ r.pc = "scoring" /\ FacesLeft(w)
  BY DEF Reserve, Goes, At, TypeInv, WatchersOK
<1>2. "reserved" \in Stages
  BY DEF Stages
<1>3. q.pc = "reserved" /\ SameHand(q, r) /\ q.face = r.face
  BY <1>2, HandAtStage DEF SameHand
<1> HIDE DEF q
<1> QED BY <1>1, <1>3 DEF SameHand, Decision, Scope, On

\* A watcher that is about to queue a face queues it, or is still about to.
LEMMA ReservedStays ==
  ASSUME TypeInv, LeaseInv, AttendedInv, FacesFresh, WorkerMode, [Next]_vars,
         [OnlyOperatorsFail]_vars, NEW w \in Watchers, watcher[w].pc = "reserved"
  PROVE  \/ watcher'[w] = watcher[w]
         \/ PassesFace(w) /\ watcher'[w].pc = "scoring" /\ job'[Decision(w)] = "pending"
<1>1. FaceStep(w) /\ HandStep(w)
  BY FaceSteps, HandSteps, FailingNot
<1>2. watcher'[w].pc \notin {"idle", "received", "refused"} \/ watcher'[w] = watcher[w]
  BY <1>1 DEF HandStep, Working, Holding, Facing, Calling, Finalize, At
<1> QED BY <1>1, <1>2 DEF FaceStep, PassesFace, Acquire, At

\* A reservation goes from the watcher to the job.
LEMMA HoldersOn ==
  ASSUME FinishInv, QueueInv, WorkerMode, ~Stalls, [Next]_vars, [OnlyOperatorsFail]_vars
  PROVE  HoldersQueued'
<1> SUFFICES ASSUME NEW s \in Scopes, policy'[s].decision # NoDecision
             PROVE  \/ job'[policy'[s].decision] # "absent"
                    \/ \E w \in Watchers :
                         watcher'[w].pc = "reserved" /\ Decision(w)' = policy'[s].decision
  BY DEF HoldersQueued
<1> DEFINE d == policy'[s].decision
<1>1. QueueScope(s)
  BY QueueScopes DEF FinishInv
<1>2. CASE d = policy[s].decision
  <2>1. d \in Decisions
    BY <1>2, HolderIs DEF FinishInv
  <2>2. CASE job[d] # "absent"
    <3>1. QueueJobStep(d)
      BY <2>1, QueueJobSteps DEF FinishInv, QueueInv
    <3> QED BY <2>2, <3>1 DEF QueueJobStep
  <2>3. CASE job[d] = "absent"
    <3>1. PICK w \in Watchers : watcher[w].pc = "reserved" /\ Decision(w) = d
      BY <1>2, <2>3 DEF QueueInv, HoldersQueued
    <3>2. \/ watcher'[w] = watcher[w]
          \/ job'[Decision(w)] = "pending"
      BY <3>1, ReservedStays DEF FinishInv, QueueInv
    <3>3. watcher'[w] = watcher[w] => Decision(w)' = Decision(w)
      BY DEF Decision, On
    <3> QED BY <3>1, <3>2, <3>3
  <2> QED BY <2>2, <2>3
<1>3. CASE \E w \in Watchers : Reserve(w) /\ d = Decision(w)
  BY <1>3, ReserveGoes DEF FinishInv
<1> QED BY <1>1, <1>2, <1>3 DEF QueueScope

\* Nobody takes the reservation of a watcher that is about to queue the face.
LEMMA ReservedOn ==
  ASSUME FinishInv, QueueInv, WorkerMode, ~Stalls, [Next]_vars, [OnlyOperatorsFail]_vars
  PROVE  ReservedHeld'
<1> SUFFICES ASSUME NEW w \in Watchers, watcher'[w].pc = "reserved"
             PROVE  /\ policy'[Scope(w)'].state = "pending"
                    /\ policy'[Scope(w)'].decision = Decision(w)'
                    /\ policy'[Scope(w)'].window > 0
  BY DEF ReservedHeld
<1>0. TypeInv /\ LeaseInv /\ AttendedInv /\ FacesFresh
  BY DEF FinishInv, QueueInv
<1>1. CASE Reserve(w)
  <2> DEFINE s == Scope(w)
             d == Decision(w)
             p == policy[s]
  <2>1. s \in Scopes /\ d \in Decisions /\ p \in Policy!PolicyRow
    BY <1>0, <1>1, FaceIsFresh, ReserveGoes DEF TypeInv
  <2>2. p.decision # d
    BY <1>0, <1>1, ReservesFresh
  <2>3. policy'[s] = Policy!Reserved(p, d, WindowTicks)
    BY <1>0, <1>1, <2>1, <2>2 DEF Reserve, TypeInv
  <2>4. policy'[s].state = "pending" /\ policy'[s].decision = d /\ policy'[s].window > 0
    BY <2>1, <2>3, ReservationIs
  <2>5. Decision(w)' = d /\ Scope(w)' = s
    BY <1>0, <1>1, ReserveGoes
  <2> QED BY <2>4, <2>5
<1>2. CASE ~Reserve(w)
  <2>1. watcher'[w] = watcher[w] /\ watcher[w].pc = "reserved"
    <3>1. FaceStep(w)
      BY <1>0, FaceSteps
    <3> QED BY <1>2, <3>1 DEF FaceStep, PassesFace
  <2> DEFINE s == Scope(w)
             d == Decision(w)
             p == policy[s]
  <2>2. Decision(w)' = d /\ Scope(w)' = s
    BY <2>1 DEF Decision, Scope, On
  <2>3. /\ s \in Scopes /\ d \in Decisions /\ d \notin decided /\ d.event = On(w)
        /\ p \in Policy!PolicyRow
    BY <1>0, <2>1, FaceIsFresh DEF TypeInv
  <2>4. p.state = "pending" /\ p.decision = d /\ p.window > 0
    BY <2>1 DEF QueueInv, ReservedHeld
  <2>5. watcher[w].pc \in Holding /\ event[On(w)].state \in Open
    BY <1>0, <2>1 DEF LeaseInv, Held, Holding, Facing
  <2>6. ~Policy!Expired(p) /\ p.state # "none"
    BY <2>4 DEF Policy!Expired
  <2>7. \A e : ~MayReserve(p, e)
    BY <2>6 DEF MayReserve, Policy!Reservable
  <2>8. job[d] = "absent"
    BY <2>3, <2>5 DEF QueueInv, JobsKnown, Open
  <2>9. ~Unworked(d.event)
    BY <2>3, <2>5 DEF Unworked
  <2>10. ASSUME NEW v \in Watchers, watcher[v].pc = "failing" PROVE On(v) # d.event
    BY <1>0, <2>1, <2>3, <2>5, <2>10, OneHolder DEF Holding
  <2>11. ASSUME NEW o \in Operators, operator[o].pc = "staged" PROVE Subject(o) # d.event
    BY <1>0, <2>3, <2>5, <2>11 DEF AttendedInv, Attended, Open, Terminal
  <2>12. QueueScope(s)
    BY <1>0, <2>3, QueueScopes
  <2>13. policy'[s].state = "pending" /\ policy'[s].decision = d /\ policy'[s].window > 0
    BY <2>4, <2>6, <2>7, <2>8, <2>9, <2>10, <2>11, <2>12 DEF QueueScope
  <2> QED BY <2>2, <2>13
<1> QED BY <1>1, <1>2

\* A queued face keeps its scope.
LEMMA QueuedOn ==
  ASSUME FinishInv, QueueInv, WorkerMode, ~Stalls, [Next]_vars, [OnlyOperatorsFail]_vars
  PROVE  QueuedHoldsScope'
<1> SUFFICES ASSUME NEW d \in Decisions, job'[d] \in {"pending", "uncertain"},
                    event'[d.event].state # "dismissed"
             PROVE  policy'[ScopeOf(d)].decision = d /\ policy'[ScopeOf(d)].state # "none"
  BY DEF QueuedHoldsScope, ScopeOf
<1> DEFINE c == d.event
           s == ScopeOf(d)
           p == policy[s]
<1>0. TypeInv /\ LeaseInv /\ AttendedInv /\ FacesFresh
  BY DEF FinishInv, QueueInv
<1>1. QueueJobStep(d)
  BY <1>0, QueueJobSteps
<1>2. CASE job[d] \notin {"pending", "uncertain"}
  <2>1. PICK w \in Watchers : /\ watcher[w].pc = "reserved" /\ d = Decision(w)
                              /\ policy' = policy
    BY <1>1, <1>2 DEF QueueJobStep
  <2>2. Scope(w) = s
    BY <1>0, <2>1, FaceIsFresh
  <2> QED BY <2>1, <2>2 DEF QueueInv, ReservedHeld
<1>3. CASE job[d] \in {"pending", "uncertain"}
  <2>1. /\ c \in Captures /\ s \in Scopes /\ job[d] # "absent"
        /\ PathStep(c) /\ QueueScope(s)
    BY <1>0, <1>3, DecisionsApart, PathSteps, QueueScopes, FailingNot DEF QueueInv, JobsKnown
  <2>2. /\ event[c].state \in Open =>
             \E w \in Watchers : watcher[w].pc \in Holding /\ On(w) = c /\ Queues(w, d)
        /\ \A o \in Operators : operator[o].pc = "staged" => Subject(o) # c
    BY <2>1, QueuedAre
  <2>3. event[c].state # "dismissed"
    <3>1. ~Prunable(c)
      BY <1>3 DEF Prunable
    <3>2. ~\E o \in Operators : Request(o) /\ Subject(o) = c
      BY <2>2 DEF Request, Does
    <3> QED BY <2>1, <3>1, <3>2 DEF PathStep, SamePath, Orphaning, CanComplete, Dismissable, Open
  <2>4. p.decision = d /\ p.state # "none"
    BY <1>3, <2>3 DEF QueueInv, QueuedHoldsScope
  <2>5. \A e : ~MayReserve(p, e)
    <3>1. HolderJob(p) = job[d]
      BY <2>4, DecisionsApart DEF HolderJob
    <3> QED BY <1>3, <2>4, <3>1 DEF MayReserve, Policy!Reservable
  <2>6. ~(Unworked(c) /\ event[c].state \in Open)
    BY <2>2 DEF Unworked
  <2>7. ASSUME NEW v \in Watchers, watcher[v].pc = "failing" PROVE On(v) # c
    <3> SUFFICES ASSUME On(v) = c PROVE FALSE
      OBVIOUS
    <3>1. watcher[v].pc \in Holding /\ event[c].state \in Open
      BY <1>0, <2>7 DEF LeaseInv, Held, Holding
    <3>2. PICK w \in Watchers : watcher[w].pc \in Holding /\ On(w) = c /\ Queues(w, d)
      BY <2>2, <3>1
    <3>3. w = v
      BY <1>0, <3>1, <3>2, OneHolder
    <3> QED BY <2>7, <3>2, <3>3 DEF Queues
  <2> QED BY <2>1, <2>2, <2>4, <2>5, <2>6, <2>7, QueueJobSteps DEF QueueScope, Policy!Expired
<1> QED BY <1>2, <1>3

\* Nothing is queued at first.
LEMMA QueueInit == Init => QueueInv
<1> SUFFICES ASSUME Init PROVE QueueInv
  OBVIOUS
<1>1. FacesFresh /\ DecidedKnown /\ ReservedHeld
  BY DEF Init, Resting, FacesFresh, DecidedKnown, ReservedHeld, Queueing
<1>2. JobsKnown /\ QueuedFinishes /\ QueuedHoldsScope
  BY DEF Init, JobsKnown, QueuedFinishes, QueuedHoldsScope
<1>3. HoldersQueued
  BY DEF Init, HoldersQueued, Policy!FreshRow
<1> QED BY <1>1, <1>2, <1>3 DEF QueueInv

\* Worker mode: while its job is queued or in doubt an accepted decision holds its scope,
\* unless an operator dismissed the event (watch_service.py deliver_candidate,
\* processing_recovery.py reserve_attendance_policy, event_operations.py): for any number
\* of watchers, captures, faces and scopes, whatever operators do and wherever they die,
\* as long as no watcher dies or fails: a crash is recovered with the release of every
\* pending reservation of the event (processing_recovery.py:953), and so is a failure
\* after a face was queued (watch_service.py:1215, 1336, 1423).
THEOREM QueuedKeepScope ==
  ASSUME WorkerMode, ~Stalls, QuarantineOnly
  PROVE  Spec /\ [][OnlyOperatorsFail]_vars => []QueuedHoldsScope
<1>1. Init => FinishInv /\ QueueInv
  BY FinishInit, QueueInit
<1>2. FinishInv /\ QueueInv /\ [Next]_vars /\ [OnlyOperatorsFail]_vars => (FinishInv /\ QueueInv)'
  <2> SUFFICES ASSUME FinishInv, QueueInv, [Next]_vars, [OnlyOperatorsFail]_vars
               PROVE  FinishInv' /\ QueueInv'
    OBVIOUS
  <2>1. FinishInv'
    <3>1. [WatchersFinish]_vars
      BY FailingNot DEF FinishInv
    <3> QED BY <3>1, FinishStep
  <2>2. FacesFresh' /\ DecidedKnown' /\ JobsKnown' /\ QueuedFinishes'
    BY <2>1, FreshOn, DecidedOn, JobsOn, FinishesOn
  <2>3. HoldersQueued' /\ ReservedHeld' /\ QueuedHoldsScope'
    BY HoldersOn, ReservedOn, QueuedOn
  <2> QED BY <2>1, <2>2, <2>3 DEF QueueInv
<1>3. FinishInv /\ QueueInv => QueuedHoldsScope
  BY DEF QueueInv
<1> QED BY <1>1, <1>2, <1>3, PTL DEF Spec

=============================================================================
