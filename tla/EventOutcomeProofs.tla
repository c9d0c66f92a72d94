-------------------------- MODULE EventOutcomeProofs --------------------------
(***************************************************************************)
(* What the synchronous mode makes of a capture: an event that says        *)
(* checkin_created has its check-ins, the scope of every submission stays  *)
(* closed, and no two check-ins of a scope fall inside the cooldown.       *)
(*                                                                         *)
(* The first argument follows a watcher over the faces of a capture.  Each *)
(* face takes its decision before the next is looked at, so a watcher that *)
(* is given the same attempt a second time (it could not end the event,    *)
(* and found the file again under its own lease) gets no further than the  *)
(* first face; and one that reaches the end has settled all it submitted.  *)
(*                                                                         *)
(* The second follows a reservation from the face that makes it, through   *)
(* the call, to its commit or its doubt, and shows that nothing else opens *)
(* the scope of a submission on the way.                                   *)
(***************************************************************************)
EXTENDS EventProcessingProofs

\* The decision of a face in an attempt.
FaceOf(c, k, n) == [event |-> c, face |-> k, attempt |-> n]

Delivered(d) == d \in docs /\ job[d] = "delivered"

\* What DeliveredAgrees says of an event.
Agreed(c) ==
  /\ \E d \in docs : d.event = c
  /\ \A d \in sent : d.event = c => Delivered(d)

\* Stages in which a watcher goes over the faces of its capture.
AtFaces == Facing \cup {"scoring"}

\* Stages in which it has not begun to.
BeforeFaces == {"received", "leased", "renewed"}

\* Of the faces before this one each has its decision, and of this one too once
\* it is persisted.
InOrder(w) ==
  LET r == watcher[w] IN
  /\ r.pc \in AtFaces => \A k \in 1..(r.face - 1) : FaceOf(On(w), k, r.attempt) \in decided
  /\ r.pc \in Calling \cup {"persisted"} => Decision(w) \in decided

\* The attempt has its first decision from an earlier pass, so that this pass will
\* not get beyond the first face.
Barred(w) ==
  /\ watcher[w].face = 1 /\ watcher[w].pc \in {"scoring", "reserved"}
  /\ Decision(w) \in decided

\* Whatever was submitted of the capture is delivered, but for this face.
Clean(w) ==
  watcher[w].pc \in AtFaces =>
    \/ Barred(w)
    \/ \A d \in sent : d.event = On(w) =>
         Delivered(d) \/ (watcher[w].pc \in Calling /\ d = Decision(w))

\* The verdict is of what was made.
Truthful(w) ==
  LET r == watcher[w] IN
  r.pc \in Holding \cup {"received"} =>
    /\ r.made => /\ r.pc \notin BeforeFaces /\ r.face > 1
                 /\ \E d \in docs : d.event = On(w)
    /\ r.verdict = "checkin_created" =>
         r.pc \in {"disposing", "finalizing"} /\ Agreed(On(w))

\* A submitted face has its decision and those of the faces before it, until the
\* event is pruned.
SentInOrder ==
  \A d \in sent : event[d.event].state # "absent" =>
    \A k \in 1..d.face : FaceOf(d.event, k, d.attempt) \in decided

PassInv == \A w \in Watchers : InOrder(w) /\ Clean(w) /\ Truthful(w)

-----------------------------------------------------------------------------
(***************************************************************************)
(* What a watcher keeps in hand.                                           *)
(***************************************************************************)

\* Only the stage changes, or where the file is.
SameWork(q, r) ==
  /\ q.capture = r.capture /\ q.attempt = r.attempt /\ q.face = r.face
  /\ q.made = r.made /\ q.verdict = r.verdict

\* Only the stage and the verdict change.
SameFace(q, r) ==
  q.capture = r.capture /\ q.attempt = r.attempt /\ q.face = r.face /\ q.made = r.made

\* The updates of a watcher, field by field.
LEMMA WorkOf ==
  ASSUME TypeInv, NEW w \in Watchers
  PROVE  LET r == watcher[w] IN
         /\ \A pc \in Stages : LET q == [r EXCEPT !.pc = pc] IN q.pc = pc /\ SameWork(q, r)
         /\ \A pc \in Stages, a \in Places \cup {Nowhere} :
              LET q == [r EXCEPT !.pc = pc, !.at = a] IN q.pc = pc /\ SameWork(q, r)
         /\ \A pc \in Stages, v \in Verdicts :
              LET q == [r EXCEPT !.pc = pc, !.verdict = v] IN
              q.pc = pc /\ q.verdict = v /\ SameFace(q, r)
         /\ \A n \in 0..MaxAttempts :
              LET q == [r EXCEPT !.pc = "leased", !.attempt = n] IN
              q.pc = "leased" /\ q.capture = r.capture /\ q.made = r.made /\ q.verdict = r.verdict
         /\ LET q == [r EXCEPT !.pc = "scoring", !.face = 1] IN
            /\ q.pc = "scoring" /\ q.face = 1
            /\ q.capture = r.capture /\ q.attempt = r.attempt
            /\ q.made = r.made /\ q.verdict = r.verdict
         /\ LET q == NextFace(w) IN
            /\ q.pc = "scoring" /\ q.face = r.face + 1
            /\ q.capture = r.capture /\ q.attempt = r.attempt
            /\ q.made = r.made /\ q.verdict = r.verdict
         /\ LET q == [NextFace(w) EXCEPT !.made = TRUE] IN
            /\ q.pc = "scoring" /\ q.face = r.face + 1
            /\ q.capture = r.capture /\ q.attempt = r.attempt
            /\ q.verdict = r.verdict
<1> DEFINE r == watcher[w]
<1>1. r \in Watching
  BY DEF TypeInv, WatchersOK
<1> HIDE DEF r
<1> USE <1>1 DEF SameWork, SameFace
<1>2. ASSUME NEW pc \in Stages
      PROVE  LET q == [r EXCEPT !.pc = pc] IN q.pc = pc /\ SameWork(q, r)
  BY DEF Watching
<1>3. ASSUME NEW pc \in Stages, NEW a \in Places \cup {Nowhere}
      PROVE  LET q == [r EXCEPT !.pc = pc, !.at = a] IN q.pc = pc /\ SameWork(q, r)
  BY DEF Watching
<1>4. ASSUME NEW pc \in Stages, NEW v \in Verdicts
      PROVE  LET q == [r EXCEPT !.pc = pc, !.verdict = v] IN
             q.pc = pc /\ q.verdict = v /\ SameFace(q, r)
  BY DEF Watching
<1>5. ASSUME NEW n \in 0..MaxAttempts
      PROVE  LET q == [r EXCEPT !.pc = "leased", !.attempt = n] IN
             q.pc = "leased" /\ q.capture = r.capture /\ q.made = r.made /\ q.verdict = r.verdict
  BY DEF Watching
<1>6. LET q == [r EXCEPT !.pc = "scoring", !.face = 1] IN
      /\ q.pc = "scoring" /\ q.face = 1
      /\ q.capture = r.capture /\ q.attempt = r.attempt
      /\ q.made = r.made /\ q.verdict = r.verdict
  BY DEF Watching
<1> DEFINE n == r.face + 1
           s == [r EXCEPT !.pc = "scoring", !.face = n]
<1>7. NextFace(w) = s /\ n \in Nat /\ "scoring" \in Stages
  BY DEF NextFace, r, Watching, Stages
<1> HIDE DEF n
<1>8. /\ s.pc = "scoring" /\ s.face = n
      /\ s.capture = r.capture /\ s.attempt = r.attempt
      /\ s.made = r.made /\ s.verdict = r.verdict /\ s \in Watching
  BY <1>7 DEF Watching
<1> HIDE DEF s
<1>9. LET q == [s EXCEPT !.made = TRUE] IN
      /\ q.pc = s.pc /\ q.face = s.face /\ q.capture = s.capture /\ q.attempt = s.attempt
      /\ q.verdict = s.verdict
  BY <1>8 DEF Watching
<1>10. n = r.face + 1
  BY DEF n
<1> QED BY <1>2, <1>3, <1>4, <1>5, <1>6, <1>7, <1>8, <1>9, <1>10 DEF r

-----------------------------------------------------------------------------
(***************************************************************************)
(* What no step takes back.                                                *)
(***************************************************************************)

\* Check-ins stay, and a delivered job is delivered for good.
LEMMA OutcomesStay ==
  ASSUME PromiseInv, ~WorkerMode, [Next]_vars
  PROVE  /\ docs \subseteq docs' /\ sent \subseteq sent'
         /\ \A d \in Decisions : Delivered(d) => Delivered(d)'
<1>1. docs \subseteq docs' /\ sent \subseteq sent'
  BY OnlyCallsSubmit DEF Call
<1>2. \A d \in Decisions : JobStep(d)
  BY JobSteps DEF PromiseInv, OnceInv
<1> QED BY <1>1, <1>2 DEF JobStep, Delivered

\* A submission is new only to the watcher that makes it.
LEMMA NewSubmission ==
  ASSUME ~WorkerMode, [Next]_vars, NEW d \in sent', d \notin sent
  PROVE  \E w \in Watchers : Call(w) /\ d = Decision(w)
BY OnlyCallsSubmit DEF Call

\* The decisions of an event stay as long as it is there.
LEMMA DecidedStay ==
  ASSUME PromiseInv, [Next]_vars, NEW c, event'[c].state # "absent"
  PROVE  \A d \in decided : d.event = c => d \in decided'
BY DecisionsStay DEF PromiseInv, OnceInv

\* What was submitted of a capture nobody calls for now stays what it is.
LEMMA AgreedStays ==
  ASSUME PromiseInv, ~WorkerMode, [Next]_vars, NEW c \in Captures, Agreed(c),
         \A w \in Watchers : Call(w) => On(w) # c
  PROVE  Agreed(c)'
<1>1. /\ docs \subseteq docs' /\ sent \subseteq Decisions
      /\ \A d \in Decisions : Delivered(d) => Delivered(d)'
  BY OutcomesStay DEF PromiseInv, OnceInv, TypeInv, DeliveriesOK
<1>2. ASSUME NEW d \in sent', d.event = c PROVE Delivered(d)'
  <2>1. CASE d \in sent
    BY <1>1, <1>2, <2>1 DEF Agreed
  <2>2. CASE d \notin sent
    <3>1. PICK w \in Watchers : Call(w) /\ d = Decision(w)
      BY <2>2, NewSubmission
    <3> QED BY <1>2, <3>1 DEF Decision
  <2> QED BY <2>1, <2>2
<1>3. \E d \in docs' : d.event = c
  BY <1>1 DEF Agreed
<1> QED BY <1>2, <1>3 DEF Agreed


-----------------------------------------------------------------------------
(***************************************************************************)
(* The steps of a watcher, as far as the faces are concerned.              *)
(***************************************************************************)

\* All that a step may make of what a watcher has in hand: it lets go of its
\* event or starts at a file; it goes on before the faces, or after them with no
\* better verdict; it takes up the first face, and each face in turn.
WorkStep(w) ==
  LET r == watcher[w]
      q == watcher'[w] IN
  \/ q.pc \notin Holding \cup {"received"}
  \/ q.pc = "received" /\ ~q.made /\ q.verdict = "none"
  \/ /\ r.pc \in Holding \cup {"received"} /\ r.pc # "finalizing"
     /\ q.pc \in Holding \ AtFaces
     /\ q.pc \in BeforeFaces => r.pc \in BeforeFaces
     /\ q.capture = r.capture /\ q.face = r.face /\ q.made = r.made
     /\ q.verdict = "checkin_created" =>
          \/ r.verdict = "checkin_created" /\ (r.pc = "disposing" => q.pc = "finalizing")
          \/ r.pc = "scoring" /\ q.pc = "disposing" /\ r.made
  \/ /\ r.pc = "renewed" /\ q.pc = "scoring" /\ q.face = 1
     /\ q.capture = r.capture /\ q.attempt = r.attempt
     /\ q.made = r.made /\ q.verdict = r.verdict
  \/ /\ r.pc = "scoring" /\ q.pc = "scoring" /\ q.face = r.face + 1
     /\ Decision(w) \notin decided /\ Decision(w) \in decided'
     /\ q.capture = r.capture /\ q.attempt = r.attempt
     /\ q.made = r.made /\ q.verdict = r.verdict
  \/ r.pc = "scoring" /\ q.pc = "reserved" /\ SameWork(q, r) /\ Reserve(w)
  \/ /\ r.pc = "reserved" /\ q.pc = "persisted" /\ SameWork(q, r)
     /\ Decision(w) \notin decided /\ Decision(w) \in decided'
  \/ r.pc \in Calling \cup {"persisted"} /\ q.pc \in Calling /\ SameWork(q, r)
  \/ /\ r.pc = "delivered" /\ q.pc = "scoring" /\ q.face = r.face + 1
     /\ q.capture = r.capture /\ q.attempt = r.attempt /\ q.verdict = r.verdict

\* A step to a stage before or after the faces that changes no more.
LEMMA PassesOn ==
  ASSUME TypeInv, NEW w \in Watchers, NEW q, Goes(w, q),
         watcher[w].pc \in Holding \cup {"received"}, watcher[w].pc # "finalizing",
         q.pc \in Holding \ AtFaces,
         q.pc \in BeforeFaces => watcher[w].pc \in BeforeFaces,
         q.capture = watcher[w].capture, q.face = watcher[w].face, q.made = watcher[w].made,
         \/ q.verdict # "checkin_created"
         \/ q.verdict = watcher[w].verdict /\ (watcher[w].pc = "disposing" => q.pc = "finalizing")
  PROVE  WorkStep(w)
<1>1. watcher'[w] = q
  BY DEF Goes, TypeInv, WatchersOK
<1> QED BY <1>1 DEF WorkStep

\* A step that lets go of the event.
LEMMA LetsGo ==
  ASSUME TypeInv, NEW w \in Watchers, NEW q, Goes(w, q), q.pc \notin Holding \cup {"received"}
  PROVE  WorkStep(w)
<1>1. watcher'[w] = q
  BY DEF Goes, TypeInv, WatchersOK
<1> QED BY <1>1 DEF WorkStep

\* Taking an event's lease and renewing it come before the faces.
LEMMA LedgeredWork ==
  ASSUME TypeInv, NEW w \in Watchers, Ledgered(w) PROVE WorkStep(w)
<1> DEFINE r == watcher[w]
<1>0. /\ {"renewed", "failing", "breaking", "finalizing", "refused"} \subseteq Stages
      /\ {"broken", "uncertain", "duplicate"} \subseteq Verdicts
      /\ {"leased", "renewed", "failing", "breaking", "finalizing"} \subseteq Holding \ AtFaces
      /\ Resting.pc \notin Holding \cup {"received"} /\ "refused" \notin Holding \cup {"received"}
      /\ "leased" \in Stages
  BY DEF Stages, Verdicts, Holding, AtFaces, Facing, Calling, Resting
<1>1. CASE Acquire(w)
  <2> DEFINE n == event'[On(w)].attempt
             q == [r EXCEPT !.pc = "leased", !.attempt = n]
  <2>1. r.pc = "received" /\ Goes(w, q)
    BY <1>1 DEF Acquire, At
  <2>2. WatcherOK(r) /\ On(w) \in Captures
    BY <2>1, WatcherGoesOn DEF TypeInv, WatchersOK, On
  <2>3. TypeInv'
    BY <1>1, LedgeredTypes DEF Ledgered
  <2>4. n \in 0..MaxAttempts
    <3>1. RowsOK'
      BY <2>3 DEF TypeInv
    <3>2. RowOK(event'[On(w)])
      BY <2>2, <3>1 DEF RowsOK
    <3> QED BY <3>2, AttemptIs
  <2> HIDE DEF n
  <2>5. q.pc = "leased" /\ q.capture = r.capture /\ q.made = r.made /\ q.verdict = r.verdict
    BY <2>4, WorkOf
  <2>6. q.face = r.face
    BY <2>2, <2>4 DEF WatcherOK, Watching
  <2> HIDE DEF q, r
  <2> QED BY <1>0, <2>1, <2>5, <2>6, PassesOn DEF BeforeFaces, r
<1>2. CASE Renew(w)
  <2> DEFINE q == [r EXCEPT !.pc = "renewed"]
  <2>1. r.pc = "leased" /\ Goes(w, q)
    BY <1>2 DEF Renew, At
  <2>2. q.pc = "renewed" /\ SameWork(q, r)
    BY <1>0, WorkOf
  <2> HIDE DEF q
  <2> QED BY <1>0, <2>1, <2>2, PassesOn DEF BeforeFaces, SameWork
<1>3. CASE Advance(w)
  <2> DEFINE q == [r EXCEPT !.pc = "scoring", !.face = 1]
  <2>1. r.pc = "renewed" /\ Goes(w, q)
    BY <1>3 DEF Advance, At
  <2>2. watcher'[w] = q
    BY <2>1 DEF Goes, TypeInv, WatchersOK
  <2>3. /\ q.pc = "scoring" /\ q.face = 1
        /\ q.capture = r.capture /\ q.attempt = r.attempt
        /\ q.made = r.made /\ q.verdict = r.verdict
    BY WorkOf
  <2> HIDE DEF q
  <2> QED BY <2>1, <2>2, <2>3 DEF WorkStep
<1>4. CASE Fails(w)
  <2> DEFINE q == [r EXCEPT !.pc = "failing"]
  <2>1. r.pc \in Holding /\ Goes(w, q)
    BY <1>4 DEF Fails, At, Failing, Holding
  <2>2. q.pc = "failing" /\ SameWork(q, r)
    BY <1>0, WorkOf
  <2>3. r.pc # "disposing" /\ r.pc # "finalizing"
    BY <1>4 DEF Fails, At
  <2> HIDE DEF q
  <2> QED BY <1>0, <2>1, <2>2, <2>3, PassesOn DEF BeforeFaces, SameWork
<1>5. CASE Breaks(w)
  <2> DEFINE q == [r EXCEPT !.pc = "breaking", !.verdict = "broken"]
  <2>1. r.pc \in Holding /\ r.pc # "finalizing" /\ Goes(w, q)
    BY <1>5 DEF Breaks, Holding
  <2>2. q.pc = "breaking" /\ q.verdict = "broken" /\ SameFace(q, r)
    <3>1. "breaking" \in Stages /\ "broken" \in Verdicts
      BY <1>0
    <3> QED BY <3>1, WorkOf DEF q, r
  <2> HIDE DEF q
  <2> QED BY <1>0, <2>1, <2>2, PassesOn DEF BeforeFaces, SameFace
<1>6. CASE BreaksOff(w)
  <2> DEFINE q == [r EXCEPT !.pc = "finalizing"]
  <2>1. r.pc \in Holding /\ r.pc # "finalizing" /\ Goes(w, q)
    BY <1>6 DEF BreaksOff, At, Holding
  <2>2. q.pc = "finalizing" /\ SameWork(q, r)
    BY <1>0, WorkOf
  <2> HIDE DEF q
  <2> QED BY <1>0, <2>1, <2>2, PassesOn DEF BeforeFaces, SameWork
<1>7. CASE TurnAway(w) \/ RenewRefused(w)
  <2>1. Goes(w, Resting)
    BY <1>7 DEF TurnAway, RenewRefused
  <2> QED BY <1>0, <2>1, LetsGo
<1>8. CASE AcquireAmbiguous(w) \/ AcquireRefused(w)
  <2>1. PICK q : /\ Goes(w, q)
                 /\ q = Resting \/ \E v \in {"uncertain", "duplicate"} :
                                     q = [r EXCEPT !.pc = "refused", !.verdict = v]
    <3>1. CASE AcquireAmbiguous(w)
      BY <3>1 DEF AcquireAmbiguous
    <3>2. CASE AcquireRefused(w)
      BY <3>2 DEF AcquireRefused
    <3> QED BY <1>8, <3>1, <3>2
  <2>2. q.pc \notin Holding \cup {"received"}
    <3>1. ASSUME NEW v \in {"uncertain", "duplicate"}, q = [r EXCEPT !.pc = "refused", !.verdict = v]
          PROVE  q.pc = "refused"
      <4>1. "refused" \in Stages /\ v \in Verdicts
        BY <1>0
      <4> QED BY <3>1, <4>1, Stays
    <3> QED BY <1>0, <2>1, <3>1
  <2> QED BY <2>1, <2>2, LetsGo
<1> QED BY <1>1, <1>2, <1>3, <1>4, <1>5, <1>6, <1>7, <1>8 DEF Ledgered


\* Judging a face takes the faces in turn.
LEMMA JudgedWork ==
  ASSUME TypeInv, NEW w \in Watchers, Judged(w) PROVE WorkStep(w)
<1> DEFINE r == watcher[w]
<1>0. /\ {"disposing", "failing", "reserved"} \subseteq Stages /\ "rejected" \in Verdicts
      /\ {"disposing", "failing"} \subseteq Holding \ AtFaces
  BY DEF Stages, Verdicts, Holding, AtFaces, Facing, Calling
<1>1. CASE Reject(w)
  <2> DEFINE q == [r EXCEPT !.pc = "disposing", !.verdict = "rejected"]
  <2>1. r.pc \in Holding /\ r.pc # "finalizing" /\ Goes(w, q)
    BY <1>1 DEF Reject, Disposing, At, Holding
  <2>2. q.pc = "disposing" /\ q.verdict = "rejected" /\ SameFace(q, r)
    <3>1. "disposing" \in Stages /\ "rejected" \in Verdicts
      BY <1>0
    <3> QED BY <3>1, WorkOf DEF q, r
  <2> HIDE DEF q
  <2> QED BY <1>0, <2>1, <2>2, PassesOn DEF BeforeFaces, SameFace
<1>2. CASE DecisionTaken(w)
  <2> DEFINE q == [r EXCEPT !.pc = "failing"]
  <2>1. r.pc = "scoring" /\ r.pc \in Holding /\ Goes(w, q)
    BY <1>2 DEF DecisionTaken, Failing, At, Holding
  <2>2. q.pc = "failing" /\ SameWork(q, r)
    BY <1>0, WorkOf
  <2> HIDE DEF q
  <2> QED BY <1>0, <2>1, <2>2, PassesOn DEF BeforeFaces, SameWork
<1>3. CASE Reserve(w)
  <2> DEFINE q == [r EXCEPT !.pc = "reserved"]
  <2>1. r.pc = "scoring" /\ Goes(w, q)
    BY <1>3 DEF Reserve, At
  <2>2. q.pc = "reserved" /\ SameWork(q, r)
    BY <1>0, WorkOf
  <2>3. watcher'[w] = q
    BY <2>1 DEF Goes, TypeInv, WatchersOK
  <2> HIDE DEF q
  <2> QED BY <1>3, <2>1, <2>2, <2>3 DEF WorkStep
<1>4. CASE Unaccepted(w) \/ Suppress(w)
  <2> DEFINE q == NextFace(w)
  <2>1. r.pc = "scoring" /\ Decision(w) \notin decided /\ decided' = decided \cup {Decision(w)}
        /\ Goes(w, q)
    BY <1>4 DEF Unaccepted, Suppress, At
  <2>2. /\ q.pc = "scoring" /\ q.face = r.face + 1
        /\ q.capture = r.capture /\ q.attempt = r.attempt
        /\ q.made = r.made /\ q.verdict = r.verdict
    BY WorkOf
  <2>3. watcher'[w] = q
    BY <2>1 DEF Goes, TypeInv, WatchersOK
  <2> HIDE DEF q
  <2> QED BY <2>1, <2>2, <2>3 DEF WorkStep
<1> QED BY <1>1, <1>2, <1>3, <1>4 DEF Judged

\* Delivering a face stays with it, and goes on to the next one once its
\* check-in is committed.
LEMMA SubmittedWork ==
  ASSUME TypeInv, ~WorkerMode, NEW w \in Watchers, Submitted(w) PROVE WorkStep(w)
<1> DEFINE r == watcher[w]
<1>0. /\ {"disposing", "failing", "persisted"} \subseteq Stages /\ "uncertain" \in Verdicts
      /\ {"disposing", "failing"} \subseteq Holding \ AtFaces
      /\ Calling \subseteq Stages
  BY DEF Stages, Verdicts, Holding, AtFaces, Facing, Calling
<1>00. r.pc \in Facing /\ r.pc \in Holding /\ r.pc # "finalizing"
  BY DEF Submitted, Persist, PersistFails, Begin, BeginFails, Call, Raised, Doubt, DoubtFails,
         MarkDelivered, MarkDeliveredFails, Commit, CommitFails, At, Facing, Calling, Holding
<1>1. CASE Persist(w)
  <2> DEFINE q == [r EXCEPT !.pc = "persisted"]
  <2>1. r.pc = "reserved" /\ Decision(w) \notin decided /\ decided' = decided \cup {Decision(w)}
        /\ Goes(w, q)
    BY <1>1 DEF Persist, At
  <2>2. q.pc = "persisted" /\ SameWork(q, r)
    BY <1>0, WorkOf
  <2>3. watcher'[w] = q
    BY <2>1 DEF Goes, TypeInv, WatchersOK
  <2> HIDE DEF q
  <2> QED BY <2>1, <2>2, <2>3 DEF WorkStep
<1>2. ASSUME Failing(w) PROVE WorkStep(w)
  <2> DEFINE q == [r EXCEPT !.pc = "failing"]
  <2>1. r.pc # "disposing" /\ Goes(w, q)
    BY <1>2, <1>00 DEF Failing, Facing, Calling
  <2>2. q.pc = "failing" /\ SameWork(q, r)
    BY <1>0, WorkOf
  <2> HIDE DEF q
  <2> QED BY <1>0, <1>00, <2>1, <2>2, PassesOn DEF BeforeFaces, SameWork
<1>3. ASSUME Disposing(w, "uncertain") PROVE WorkStep(w)
  <2> DEFINE q == [r EXCEPT !.pc = "disposing", !.verdict = "uncertain"]
  <2>1. Goes(w, q)
    BY <1>3 DEF Disposing
  <2>2. q.pc = "disposing" /\ q.verdict = "uncertain" /\ SameFace(q, r)
    <3>1. "disposing" \in Stages /\ "uncertain" \in Verdicts
      BY <1>0
    <3> QED BY <3>1, WorkOf DEF q, r
  <2> HIDE DEF q
  <2> QED BY <1>0, <1>00, <2>1, <2>2, PassesOn DEF BeforeFaces, SameFace
<1>4. CASE Begin(w) \/ Call(w) \/ Raised(w) \/ MarkDelivered(w) \/ MarkDeliveredFails(w) \/ CommitFails(w)
  <2>1. /\ r.pc \in Calling \cup {"persisted"}
        /\ {"submitting", "answered", "raised", "doubting", "delivered", "conceding"} \subseteq Calling
    BY <1>4 DEF Begin, Call, Raised, MarkDelivered, MarkDeliveredFails, CommitFails, At, Calling
  <2>2. PICK pc \in {"submitting", "answered", "raised", "doubting", "delivered", "conceding"} :
          Goes(w, [r EXCEPT !.pc = pc])
    BY <1>4 DEF Begin, Call, Raised, MarkDelivered, MarkDeliveredFails, CommitFails
  <2> DEFINE q == [r EXCEPT !.pc = pc]
  <2>3. pc \in Calling /\ pc \in Stages
    BY <1>0, <2>1
  <2>4. q.pc = pc /\ SameWork(q, r)
    BY <2>3, WorkOf
  <2>5. watcher'[w] = q
    BY <2>2 DEF Goes, TypeInv, WatchersOK
  <2> HIDE DEF q
  <2> QED BY <2>1, <2>3, <2>4, <2>5 DEF WorkStep
<1>5. CASE Commit(w)
  <2> DEFINE q == [NextFace(w) EXCEPT !.made = TRUE]
  <2>1. r.pc = "delivered" /\ Goes(w, q)
    BY <1>5 DEF Commit, At
  <2>2. /\ q.pc = "scoring" /\ q.face = r.face + 1
        /\ q.capture = r.capture /\ q.attempt = r.attempt /\ q.verdict = r.verdict
    BY WorkOf
  <2>3. watcher'[w] = q
    BY <2>1 DEF Goes, TypeInv, WatchersOK
  <2> HIDE DEF q
  <2> QED BY <2>1, <2>2, <2>3 DEF WorkStep
<1>6. CASE PersistFails(w) \/ BeginFails(w)
  BY <1>2, <1>6 DEF PersistFails, BeginFails
<1>7. CASE Doubt(w) \/ DoubtFails(w)
  <2>1. Failing(w) \/ Disposing(w, "uncertain")
    BY <1>7 DEF Doubt, DoubtFails
  <2> QED BY <1>2, <1>3, <2>1
<1> QED BY <1>1, <1>4, <1>5, <1>6, <1>7 DEF Submitted

\* After the faces, the verdict is that a check-in was made only when one was.
LEMMA ClosedWork ==
  ASSUME TypeInv, NEW w \in Watchers, Closed(w) PROVE WorkStep(w)
<1> DEFINE r == watcher[w]
<1>0. /\ {"disposing", "finalizing"} \subseteq Stages
      /\ {"failed", "processed", "checkin_created"} \subseteq Verdicts
      /\ {"disposing", "finalizing"} \subseteq Holding \ AtFaces
      /\ Resting.pc \notin Holding \cup {"received"} /\ Down.pc \notin Holding \cup {"received"}
  BY DEF Stages, Verdicts, Holding, AtFaces, Facing, Calling, Resting, Down
<1>00. r.pc \in Holding /\ WatcherOK(r)
  BY DEF Closed, Release, ReleaseFails, AllScored, Dispose, Finalize, FinalizeFails, At, Holding,
         TypeInv, WatchersOK
<1>1. CASE Release(w)
  <2> DEFINE q == [r EXCEPT !.pc = "disposing", !.verdict = "failed"]
  <2>1. Goes(w, q) /\ r.pc # "finalizing"
    BY <1>1 DEF Release, Disposing, At
  <2>2. q.pc = "disposing" /\ q.verdict = "failed" /\ SameFace(q, r)
    <3>1. "disposing" \in Stages /\ "failed" \in Verdicts
      BY <1>0
    <3> QED BY <3>1, WorkOf DEF q, r
  <2> HIDE DEF q
  <2> QED BY <1>0, <1>00, <2>1, <2>2, PassesOn DEF BeforeFaces, SameFace
<1>2. CASE AllScored(w)
  <2>1. r.pc = "scoring"
    BY <1>2 DEF AllScored, At
  <2>2. PICK v \in {"checkin_created", "processed"} :
          Disposing(w, v) /\ (v = "checkin_created" => r.made)
    <3>1. CASE r.made /\ ~r.queued
      BY <1>2, <3>1 DEF AllScored
    <3>2. CASE ~(r.made /\ ~r.queued)
      BY <1>2, <3>2 DEF AllScored
    <3> QED BY <3>1, <3>2
  <2> DEFINE q == [r EXCEPT !.pc = "disposing", !.verdict = v]
  <2>3. q.pc = "disposing" /\ q.verdict = v /\ SameFace(q, r)
    <3>1. "disposing" \in Stages /\ v \in Verdicts
      BY <1>0
    <3> QED BY <3>1, WorkOf DEF q, r
  <2>4. watcher'[w] = q
    BY <2>2 DEF Disposing, Goes, TypeInv, WatchersOK
  <2> HIDE DEF q
  <2> QED BY <1>0, <1>00, <2>1, <2>2, <2>3, <2>4 DEF WorkStep, BeforeFaces, SameFace
<1>3. CASE Dispose(w)
  <2>0. r.pc = "disposing"
    BY <1>3 DEF Dispose, At
  <2>1. PICK at \in Places \cup {Nowhere} : Goes(w, [r EXCEPT !.pc = "finalizing", !.at = at])
    BY <1>3, <1>00 DEF Dispose, RejectedTo, WatcherOK, Watching, Places
  <2> DEFINE q == [r EXCEPT !.pc = "finalizing", !.at = at]
  <2>2. q.pc = "finalizing" /\ SameWork(q, r)
    BY <1>0, WorkOf
  <2> HIDE DEF q
  <2> QED BY <1>0, <1>00, <2>0, <2>1, <2>2, PassesOn DEF BeforeFaces, SameWork, q
<1>4. CASE Finalize(w) \/ FinalizeFails(w)
  <2>1. Goes(w, Resting) \/ Goes(w, Down)
    BY <1>4 DEF Finalize, FinalizeFails, Closing
  <2> QED BY <1>0, <2>1, LetsGo
<1>5. CASE ReleaseFails(w)
  <2> DEFINE q == [r EXCEPT !.pc = "breaking", !.verdict = "broken"]
  <2>1. Goes(w, q) /\ r.pc = "failing"
    BY <1>5 DEF ReleaseFails, At
  <2>2. q.pc = "breaking" /\ q.verdict = "broken" /\ SameFace(q, r)
    <3>1. "breaking" \in Stages /\ "broken" \in Verdicts
      BY DEF Stages, Verdicts
    <3> QED BY <3>1, WorkOf DEF q, r
  <2>3. "breaking" \in Holding \ AtFaces
    BY DEF Holding, AtFaces, Facing, Calling
  <2> HIDE DEF q
  <2> QED BY <1>00, <2>1, <2>2, <2>3, PassesOn DEF BeforeFaces, SameFace
<1> QED BY <1>1, <1>2, <1>3, <1>4, <1>5 DEF Closed

\* A watcher that starts has nothing in hand.
LEMMA StartedWork ==
  ASSUME TypeInv, NEW w \in Watchers, Started(w) \/ Crash(w) PROVE WorkStep(w)
<1>1. PICK q : Goes(w, q) /\ q \in {Resting, Down, [Down EXCEPT !.pc = "recovering"]}
  BY DEF Started, Restart, Recover, Crash
<1>2. /\ Resting.pc \notin Holding \cup {"received"} /\ Down.pc \notin Holding \cup {"received"}
      /\ [Down EXCEPT !.pc = "recovering"].pc \notin Holding \cup {"received"}
  BY DEF Resting, Down, Holding, Facing, Calling
<1>3. q.pc \notin Holding \cup {"received"}
  BY <1>1, <1>2
<1> QED BY <1>1, <1>3, LetsGo


\* So every step of the system takes a watcher on like that, or leaves it alone.
LEMMA WorksAre ==
  ASSUME TypeInv, LeaseInv, RecoveryApart, ~Stalls, ~WorkerMode, [Next]_vars, NEW w \in Watchers
  PROVE  watcher'[w] = watcher[w] \/ WorkStep(w)
<1>1. ASSUME NEW v \in Watchers, Steps(v) \/ Crash(v), v # w PROVE watcher'[w] = watcher[w]
  BY <1>1, LedgeredSteps, JudgedSteps, SubmittedSteps, ClosedSteps, StartedSteps DEF Steps, Alone
<1>2. ASSUME Steps(w) \/ Crash(w) PROVE WorkStep(w)
  BY <1>2, LedgeredWork, JudgedWork, SubmittedWork, ClosedWork, StartedWork DEF Steps
<1>3. ASSUME NEW v \in Watchers, NEW c \in Captures,
             Recovered(v, c) \/ \E file \in Uploads : Polled(v, c, file)
      PROVE  watcher'[w] = watcher[w] \/ WorkStep(w)
  <2>1. CASE UNCHANGED watcher
    BY <2>1
  <2>2. ASSUME NEW file \in Uploads, Receive(v, c, file)
        PROVE  watcher'[w] = watcher[w] \/ WorkStep(w)
    <3> DEFINE q == [Resting EXCEPT !.pc = "received", !.capture = c, !.file = file]
    <3>1. watcher' = [watcher EXCEPT ![v] = q]
      BY <2>2 DEF Receive, Goes
    <3>2. q.pc = "received" /\ ~q.made /\ q.verdict = "none"
      BY DEF Resting
    <3> HIDE DEF q
    <3>3. watcher'[w] = watcher[w] \/ watcher'[w] = q
      BY <3>1 DEF TypeInv, WatchersOK
    <3> QED BY <3>2, <3>3 DEF WorkStep
  <2> QED BY <1>3, <2>1, <2>2 DEF Recovered, Polled, RetryReady, RetryMissing, RetainDoubtful,
                                  RecordRetention, Replay, processes
<1>4. ASSUME NEW o \in Operators,
             \/ Commands(o) \/ OperatorDies(o)
             \/ \E c \in Captures : Stage(o, c) \/ Dismiss(o, c)
      PROVE  watcher'[w] = watcher[w]
  BY <1>4, OperatorSteps
<1>5. ASSUME \/ \E c \in Captures : Upload(c)
             \/ \E d \in Decisions : DeliverQueued(d)
             \/ Prune \/ Tick \/ UNCHANGED vars
      PROVE  watcher'[w] = watcher[w]
  BY <1>5, OtherSteps
<1> QED BY <1>1, <1>2, <1>3, <1>4, <1>5 DEF Next

\* What is new of the event a watcher has, it submits itself.
LEMMA MySubmissions ==
  ASSUME PromiseInv, ~WorkerMode, [Next]_vars, NEW w \in Watchers, watcher[w].pc \in Holding,
         NEW d \in sent', d \notin sent, d.event = On(w)
  PROVE  watcher[w].pc = "submitting" /\ watcher'[w].pc \in Calling /\ d = Decision(w)
<1>1. PICK v \in Watchers : Call(v) /\ d = Decision(v)
  BY NewSubmission
<1>2. watcher[v].pc = "submitting" /\ On(v) = On(w)
  BY <1>1 DEF Call, At, Decision
<1>3. v = w
  BY <1>2, OneHolder DEF PromiseInv, OnceInv, Holding, Facing, Calling
<1>4. /\ {"answered", "raised"} \subseteq Stages /\ {"answered", "raised"} \subseteq Calling
  BY DEF Stages, Calling
<1>5. PICK pc \in {"answered", "raised"} : watcher'[w] = [watcher[w] EXCEPT !.pc = pc]
  BY <1>1, <1>3 DEF Call, Goes, PromiseInv, OnceInv, TypeInv, WatchersOK
<1>6. watcher'[w].pc = pc
  BY <1>4, <1>5, Stays DEF PromiseInv, OnceInv
<1> QED BY <1>1, <1>2, <1>3, <1>4, <1>6

\* So of an event at whose watcher it is not the time to submit, what was
\* submitted of it stays.
LEMMA MineAgrees ==
  ASSUME PromiseInv, ~WorkerMode, [Next]_vars, NEW w \in Watchers, NEW c \in Captures,
         watcher[w].pc \in Holding, watcher[w].pc # "submitting", c = On(w), Agreed(c)
  PROVE  Agreed(c)'
<1>1. /\ docs \subseteq docs' /\ sent \subseteq Decisions
      /\ \A d \in Decisions : Delivered(d) => Delivered(d)'
  BY OutcomesStay DEF PromiseInv, OnceInv, TypeInv, DeliveriesOK
<1>2. \A d \in sent' : d.event = c => d \in sent
  BY MySubmissions
<1>3. \A d \in sent' : d.event = c => Delivered(d)'
  BY <1>1, <1>2 DEF Agreed
<1>4. \E d \in docs' : d.event = c
  BY <1>1 DEF Agreed
<1> QED BY <1>3, <1>4 DEF Agreed

-----------------------------------------------------------------------------
(***************************************************************************)
(* Going over the faces.                                                   *)
(***************************************************************************)

\* A watcher at work has an event whose decisions, check-ins and delivered jobs
\* stay.
LEMMA WorkStays ==
  ASSUME PromiseInv, PromiseInv', ~WorkerMode, [Next]_vars, NEW w \in Watchers,
         watcher'[w].pc \in Holding, watcher'[w].capture = On(w)
  PROVE  /\ \A d \in decided : d.event = On(w) => d \in decided'
         /\ docs \subseteq docs' /\ sent \subseteq sent'
         /\ \A d \in sent : d \in Decisions /\ (Delivered(d) => Delivered(d)')
<1>1. Held(w)' /\ On(w)' = On(w)
  BY DEF PromiseInv, OnceInv, LeaseInv, On
<1>2. event'[On(w)].state # "absent"
  BY <1>1 DEF Held, Open
<1>3. \A d \in decided : d.event = On(w) => d \in decided'
  BY <1>2, DecidedStay
<1>4. sent \subseteq Decisions
  BY DEF PromiseInv, OnceInv, TypeInv, DeliveriesOK
<1> QED BY <1>3, <1>4, OutcomesStay

\* What the watcher's stage says of its event, it goes on to say when it does
\* nothing.
LEMMA PassRests ==
  ASSUME PromiseInv, PromiseInv', ~WorkerMode, [Next]_vars, NEW w \in Watchers,
         watcher'[w] = watcher[w], InOrder(w), Clean(w), Truthful(w)
  PROVE  InOrder(w)' /\ Clean(w)' /\ Truthful(w)'
<1> DEFINE r == watcher[w]
           c == On(w)
<1>0. /\ On(w)' = c /\ Decision(w)' = Decision(w) /\ watcher'[w] = r
      /\ AtFaces \subseteq Holding /\ Calling \subseteq AtFaces
      /\ {"disposing", "finalizing"} \subseteq Holding
  BY DEF On, Decision, AtFaces, Facing, Calling, Holding
<1>1. InOrder(w)'
  <2>1. ASSUME r.pc \in AtFaces PROVE \A d \in decided : d.event = c => d \in decided'
    BY <1>0, <2>1, WorkStays DEF On
  <2>2. \A k : FaceOf(c, k, r.attempt).event = c
    BY DEF FaceOf
  <2>3. Decision(w).event = c
    BY DEF Decision
  <2>4. {"persisted"} \subseteq AtFaces
    BY DEF AtFaces, Facing
  <2>5. r.pc \in AtFaces => \A k \in 1..(r.face - 1) : FaceOf(c, k, r.attempt) \in decided'
    BY <2>1, <2>2 DEF InOrder
  <2>6. r.pc \in Calling \cup {"persisted"} => Decision(w) \in decided'
    BY <1>0, <2>1, <2>3, <2>4 DEF InOrder
  <2> QED BY <1>0, <2>5, <2>6 DEF InOrder
<1>2. Clean(w)'
  <2>1. CASE r.pc \notin AtFaces
    BY <1>0, <2>1 DEF Clean
  <2>2. CASE r.pc \in AtFaces
    <3>1. /\ \A d \in decided : d.event = c => d \in decided'
          /\ \A d \in sent : d \in Decisions /\ (Delivered(d) => Delivered(d)')
      BY <1>0, <2>2, WorkStays DEF On
    <3>2. CASE Barred(w)
      <4>1. Decision(w) \in decided'
        BY <3>1, <3>2 DEF Barred, Decision
      <4>2. Barred(w)'
        BY <1>0, <3>2, <4>1 DEF Barred
      <4> QED BY <4>2 DEF Clean
    <3>3. CASE ~Barred(w)
      <4>1. \A d \in sent : d.event = c => Delivered(d) \/ (r.pc \in Calling /\ d = Decision(w))
        BY <2>2, <3>3 DEF Clean
      <4>2. ASSUME NEW d \in sent', d.event = c
            PROVE  Delivered(d)' \/ (r.pc \in Calling /\ d = Decision(w))
        <5>1. CASE d \in sent
          BY <3>1, <4>1, <4>2, <5>1
        <5>2. CASE d \notin sent
          BY <1>0, <2>2, <4>2, <5>2, MySubmissions
        <5> QED BY <5>1, <5>2
      <4> HIDE DEF r, c
      <4> QED BY <1>0, <4>2 DEF Clean
    <3> QED BY <3>2, <3>3
  <2> QED BY <2>1, <2>2
<1>3. Truthful(w)'
  <2>1. docs \subseteq docs'
    BY OutcomesStay
  <2>2. ASSUME r.pc \in Holding \cup {"received"}, r.verdict = "checkin_created"
        PROVE  Agreed(c)'
    <3>1. /\ r.pc \in {"disposing", "finalizing"} /\ Agreed(c)
      BY <2>2 DEF Truthful
    <3>2. c \in Captures
      BY <1>0, <3>1, WatcherGoesOn DEF PromiseInv, OnceInv, TypeInv, WatchersOK, On
    <3> QED BY <1>0, <3>1, <3>2, MineAgrees
  <2>3. ASSUME r.pc \in Holding \cup {"received"}, r.made
        PROVE  r.pc \notin BeforeFaces /\ r.face > 1 /\ \E d \in docs' : d.event = c
    BY <2>1, <2>3 DEF Truthful
  <2>4. r.pc \in Holding \cup {"received"} /\ r.verdict = "checkin_created" =>
          r.pc \in {"disposing", "finalizing"}
    BY DEF Truthful
  <2>5. Agreed(On(w))' <=> Agreed(c)'
    BY <1>0 DEF Agreed
  <2> QED BY <1>0, <2>2, <2>3, <2>4, <2>5 DEF Truthful
<1> QED BY <1>1, <1>2, <1>3


\* A face has a number from one on.
LEMMA FacesCount == \A d \in Decisions : d.face \in Nat /\ d.face >= 1
<1>1. ASSUME NEW c \in Captures, NEW k \in DOMAIN FaceScopes[c] PROVE k \in Nat /\ k >= 1
  <2>1. FaceScopes[c] \in Seq(Scopes)
    BY ProcessingAssumption
  <2> DEFINE s == FaceScopes[c]
  <2> HIDE DEF s
  <2>2. s \in Seq(Scopes) => \A i \in DOMAIN s : i \in Nat /\ i >= 1
    OBVIOUS
  <2> QED BY <2>1, <2>2 DEF s
<1>2. \A d \in Decisions : \E c \in Captures : d.face \in DOMAIN FaceScopes[c]
  BY DEF Decisions, Faces
<1> QED BY <1>1, <1>2

\* A watcher that begins with the first face either finds that its attempt has
\* the decision already, or nothing of the capture was submitted.
LEMMA FirstFace ==
  ASSUME PromiseInv, PromiseInv', SentInOrder, ~WorkerMode, [Next]_vars, NEW w \in Watchers,
         Truthful(w), watcher[w].pc = "renewed",
         watcher'[w].pc = "scoring", watcher'[w].face = 1,
         watcher'[w].capture = watcher[w].capture, watcher'[w].attempt = watcher[w].attempt,
         watcher'[w].made = watcher[w].made, watcher'[w].verdict = watcher[w].verdict
  PROVE  InOrder(w)' /\ Clean(w)' /\ Truthful(w)'
<1> DEFINE r == watcher[w]
           q == watcher'[w]
           c == On(w)
           n == r.attempt
<1>0. /\ r.pc \in Holding /\ q.pc \in Holding /\ On(w)' = c /\ Decision(w)' = FaceOf(c, 1, n)
      /\ q.pc \notin Calling \cup {"persisted"}
  BY DEF On, Decision, FaceOf, Holding, Calling
<1>1. InOrder(w)'
  BY <1>0 DEF InOrder, AtFaces
<1>2. Truthful(w)'
  BY <1>0 DEF Truthful, BeforeFaces
<1>3. /\ \A d \in decided : d.event = c => d \in decided'
      /\ sent \subseteq Decisions
  BY <1>0, WorkStays DEF On
<1>4. \A d \in sent' : d.event = c => d \in sent
  BY <1>0, MySubmissions
<1>5. ASSUME \A d \in sent : d.event # c PROVE Clean(w)'
  <2>1. \A d \in sent' : d.event # On(w)'
    BY <1>0, <1>4, <1>5
  <2> QED BY <2>1 DEF Clean
<1>6. ASSUME NEW d \in sent, d.event = c PROVE Clean(w)'
  <2>1. event[c].state # "absent" /\ event[c].attempt = n
    BY <1>0 DEF PromiseInv, OnceInv, LeaseInv, Held, Open
  <2>2. d.attempt = n /\ d.face \in Nat /\ d.face >= 1
    BY <1>3, <1>6, <2>1, FacesCount DEF PromiseInv, OnceInv, SentInv
  <2>3. FaceOf(c, 1, n) \in decided
    <3>1. \A k \in 1..d.face : FaceOf(d.event, k, d.attempt) \in decided
      BY <1>6, <2>1 DEF SentInOrder
    <3>2. 1 \in 1..d.face
      BY <2>2
    <3> QED BY <1>6, <2>2, <3>1, <3>2
  <2>4. FaceOf(c, 1, n) \in decided'
    BY <1>3, <2>3 DEF FaceOf
  <2>5. Barred(w)'
    BY <1>0, <2>4 DEF Barred
  <2> QED BY <2>5 DEF Clean
<1> QED BY <1>1, <1>2, <1>5, <1>6

\* One that goes on to the next face has settled this one.
LEMMA FollowingFace ==
  ASSUME PromiseInv, PromiseInv', ~WorkerMode, [Next]_vars, NEW w \in Watchers,
         InOrder(w), Clean(w), Truthful(w),
         watcher[w].pc \in AtFaces, watcher[w].pc # "submitting", watcher[w].face > 0,
         Decision(w) \in decided', \A d \in sent : d.event = On(w) => Delivered(d)',
         watcher'[w].made => \E d \in docs' : d.event = On(w),
         watcher'[w].pc = "scoring", watcher'[w].face = watcher[w].face + 1,
         watcher'[w].capture = watcher[w].capture, watcher'[w].attempt = watcher[w].attempt,
         watcher'[w].verdict = watcher[w].verdict
  PROVE  InOrder(w)' /\ Clean(w)' /\ Truthful(w)'
<1> DEFINE r == watcher[w]
           q == watcher'[w]
           c == On(w)
           n == r.attempt
<1>0. /\ r.pc \in Holding /\ q.pc \in Holding /\ On(w)' = c /\ Decision(w) = FaceOf(c, r.face, n)
      /\ q.pc \notin Calling \cup {"persisted"} /\ r.pc \notin {"disposing", "finalizing"}
      /\ r.face \in Nat
  BY DEF On, Decision, FaceOf, Holding, AtFaces, Facing, Calling,
         PromiseInv, OnceInv, TypeInv, WatchersOK, Watching
<1>1. \A d \in decided : d.event = c => d \in decided'
  BY <1>0, WorkStays DEF On
<1>2. InOrder(w)'
  <2>1. \A k \in 1..(r.face - 1) : FaceOf(c, k, n) \in decided'
    BY <1>0, <1>1 DEF InOrder, FaceOf
  <2>2. \A k \in 1..(q.face - 1) : k = r.face \/ k \in 1..(r.face - 1)
    BY <1>0
  <2>3. \A k \in 1..(q.face - 1) : FaceOf(c, k, n) \in decided'
    BY <1>0, <2>1, <2>2
  <2> QED BY <1>0, <2>3 DEF InOrder
<1>3. \A d \in sent' : d.event = c => d \in sent
  BY <1>0, MySubmissions
<1>4. Clean(w)'
  BY <1>0, <1>3 DEF Clean
<1>5. Truthful(w)'
  <2>1. r.verdict # "checkin_created"
    BY <1>0 DEF Truthful
  <2>2. q.face > 1 /\ q.pc \notin BeforeFaces
    BY <1>0 DEF BeforeFaces
  <2> QED BY <1>0, <2>1, <2>2 DEF Truthful
<1> QED BY <1>2, <1>4, <1>5

\* One that goes on with a face has what it had, or has just decided it.
LEMMA SameFacePass ==
  ASSUME PromiseInv, PromiseInv', ~WorkerMode, [Next]_vars, NEW w \in Watchers,
         InOrder(w), Clean(w), Truthful(w),
         watcher[w].pc \in AtFaces, watcher'[w].pc \in Facing, SameWork(watcher'[w], watcher[w]),
         watcher'[w].pc # "reserved" => Decision(w) \in decided' /\ ~Barred(w),
         watcher'[w].pc = "reserved" => watcher[w].pc = "scoring",
         watcher[w].pc \in Calling => watcher'[w].pc \in Calling
  PROVE  InOrder(w)' /\ Clean(w)' /\ Truthful(w)'
<1> DEFINE r == watcher[w]
           q == watcher'[w]
           c == On(w)
<1>0. /\ r.pc \in Holding /\ q.pc \in Holding /\ q.pc \in AtFaces
      /\ On(w)' = c /\ Decision(w)' = Decision(w)
      /\ q.capture = c /\ q.attempt = r.attempt /\ q.face = r.face /\ q.verdict = r.verdict
      /\ r.pc \notin {"disposing", "finalizing"} /\ r.pc \notin BeforeFaces
      /\ q.pc \notin BeforeFaces
  BY DEF SameWork, On, Decision, Holding, AtFaces, Facing, Calling, BeforeFaces
<1>1. /\ \A d \in decided : d.event = c => d \in decided'
      /\ docs \subseteq docs'
      /\ \A d \in sent : d \in Decisions /\ (Delivered(d) => Delivered(d)')
  BY <1>0, WorkStays
<1>2. InOrder(w)'
  <2>1. \A k \in 1..(r.face - 1) : FaceOf(c, k, r.attempt) \in decided'
    BY <1>0, <1>1 DEF InOrder, FaceOf
  <2>2. q.pc \in Calling \cup {"persisted"} => Decision(w) \in decided'
    BY DEF Calling
  <2> QED BY <1>0, <2>1, <2>2 DEF InOrder
<1>3. Clean(w)'
  <2>1. CASE Barred(w)
    <3>1. q.pc = "reserved" /\ Decision(w) \in decided'
      BY <1>1, <2>1 DEF Barred, Decision
    <3>2. Barred(w)'
      BY <1>0, <2>1, <3>1 DEF Barred
    <3> QED BY <3>2 DEF Clean
  <2>2. CASE ~Barred(w)
    <3>1. \A d \in sent : d.event = c => Delivered(d) \/ (q.pc \in Calling /\ d = Decision(w))
      BY <2>2 DEF Clean
    <3>2. ASSUME NEW d \in sent', d.event = c
          PROVE  Delivered(d)' \/ (q.pc \in Calling /\ d = Decision(w))
      <4>1. CASE d \in sent
        BY <1>1, <3>1, <3>2, <4>1
      <4>2. CASE d \notin sent
        BY <1>0, <3>2, <4>2, MySubmissions
      <4> QED BY <4>1, <4>2
    <3> HIDE DEF r, q, c
    <3>3. Decision(w)' = Decision(w) /\ On(w)' = c
      BY <1>0
    <3> QED BY <3>2, <3>3 DEF Clean, q
  <2> QED BY <2>1, <2>2
<1>4. Truthful(w)'
  <2>1. r.verdict # "checkin_created"
    BY <1>0 DEF Truthful
  <2>2. q.made => r.made
    BY DEF SameWork
  <2>3. r.made => r.face > 1 /\ \E d \in docs' : d.event = c
    BY <1>0, <1>1 DEF Truthful
  <2> QED BY <1>0, <2>1, <2>2, <2>3 DEF Truthful
<1> QED BY <1>2, <1>3, <1>4


\* One that leaves the faces, or has not come to them, is truthful: it says that a
\* check-in was made only when one was, and all that it submitted is delivered.
LEMMA OutsideFaces ==
  ASSUME PromiseInv, PromiseInv', ~WorkerMode, [Next]_vars, NEW w \in Watchers,
         Clean(w), Truthful(w),
         watcher[w].pc \in Holding \cup {"received"}, watcher'[w].pc \in Holding \ AtFaces,
         watcher'[w].pc \in BeforeFaces => watcher[w].pc \in BeforeFaces,
         watcher'[w].capture = watcher[w].capture, watcher'[w].face = watcher[w].face,
         watcher'[w].made = watcher[w].made,
         watcher'[w].verdict = "checkin_created" =>
           \/ watcher[w].verdict = "checkin_created"
              /\ (watcher[w].pc = "disposing" => watcher'[w].pc = "finalizing")
           \/ watcher[w].pc = "scoring" /\ watcher'[w].pc = "disposing" /\ watcher[w].made,
         watcher[w].pc # "finalizing"
  PROVE  InOrder(w)' /\ Clean(w)' /\ Truthful(w)'
<1> DEFINE r == watcher[w]
           q == watcher'[w]
           c == On(w)
<1>0. /\ On(w)' = c /\ q.pc \notin AtFaces /\ q.pc \notin Calling \cup {"persisted"}
      /\ c \in Captures /\ q.pc \in Holding
  <2>1. c \in Captures
    BY WatcherGoesOn DEF PromiseInv, OnceInv, TypeInv, WatchersOK, On
  <2> QED BY <2>1 DEF On, AtFaces, Facing
<1>1. InOrder(w)' /\ Clean(w)'
  BY <1>0 DEF InOrder, Clean
<1>2. docs \subseteq docs'
  BY OutcomesStay
<1>3. r.made => q.pc \notin BeforeFaces /\ q.face > 1 /\ \E d \in docs' : d.event = c
  BY <1>2 DEF Truthful
<1>4. ASSUME q.verdict = "checkin_created"
      PROVE  q.pc \in {"disposing", "finalizing"} /\ Agreed(c)'
  <2>1. CASE r.verdict = "checkin_created" /\ (r.pc = "disposing" => q.pc = "finalizing")
    <3>1. r.pc = "disposing" /\ Agreed(c)
      BY <2>1 DEF Truthful
    <3>2. Agreed(c)'
      <4>1. r.pc \in Holding /\ r.pc # "submitting"
        BY <3>1 DEF Holding
      <4> QED BY <1>0, <3>1, <4>1, MineAgrees
    <3> QED BY <2>1, <3>1, <3>2
  <2>2. CASE r.pc = "scoring" /\ q.pc = "disposing" /\ r.made
    <3>1. r.face > 1 /\ \E d \in docs : d.event = c
      BY <2>2 DEF Truthful
    <3>2. ~Barred(w) /\ r.pc \in AtFaces /\ r.pc \notin Calling /\ r.pc \in Holding
      BY <2>2, <3>1 DEF Barred, AtFaces, Calling, Holding
    <3>3. Agreed(c)
      BY <3>1, <3>2 DEF Clean, Agreed
    <3> QED BY <1>0, <2>2, <3>2, <3>3, MineAgrees
  <2> QED BY <1>4, <2>1, <2>2
<1>5. Agreed(On(w))' <=> Agreed(c)'
  BY <1>0 DEF Agreed
<1>6. q.made => r.made
  OBVIOUS
<1> HIDE DEF q, r, c
<1>7. Truthful(w)'
  BY <1>0, <1>3, <1>4, <1>5, <1>6 DEF Truthful, q
<1> QED BY <1>1, <1>7

\* So what a watcher's stage says stays true as it goes on.
LEMMA PassWorks ==
  ASSUME PromiseInv, PromiseInv', SentInOrder, ~WorkerMode, [Next]_vars, NEW w \in Watchers,
         WorkStep(w), InOrder(w), Clean(w), Truthful(w)
  PROVE  InOrder(w)' /\ Clean(w)' /\ Truthful(w)'
<1> DEFINE r == watcher[w]
           q == watcher'[w]
<1>1. CASE q.pc \notin Holding \cup {"received"}
  <2>1. q.pc \notin AtFaces /\ q.pc \notin Calling \cup {"persisted"}
    BY <1>1 DEF AtFaces, Facing, Holding
  <2> QED BY <1>1, <2>1 DEF InOrder, Clean, Truthful
<1>2. CASE q.pc = "received" /\ ~q.made /\ q.verdict = "none"
  <2>1. q.pc \notin AtFaces /\ q.pc \notin Calling \cup {"persisted"}
    BY <1>2 DEF AtFaces, Facing, Calling
  <2> QED BY <1>2, <2>1 DEF InOrder, Clean, Truthful
<1>3. CASE /\ r.pc \in Holding \cup {"received"} /\ r.pc # "finalizing"
           /\ q.pc \in Holding \ AtFaces
           /\ q.pc \in BeforeFaces => r.pc \in BeforeFaces
           /\ q.capture = r.capture /\ q.face = r.face /\ q.made = r.made
           /\ q.verdict = "checkin_created" =>
                \/ r.verdict = "checkin_created" /\ (r.pc = "disposing" => q.pc = "finalizing")
                \/ r.pc = "scoring" /\ q.pc = "disposing" /\ r.made
  BY <1>3, OutsideFaces
<1>4. CASE /\ r.pc = "renewed" /\ q.pc = "scoring" /\ q.face = 1
           /\ q.capture = r.capture /\ q.attempt = r.attempt
           /\ q.made = r.made /\ q.verdict = r.verdict
  BY <1>4, FirstFace
<1>5. CASE /\ r.pc = "scoring" /\ q.pc = "scoring" /\ q.face = r.face + 1
           /\ Decision(w) \notin decided /\ Decision(w) \in decided'
           /\ q.capture = r.capture /\ q.attempt = r.attempt
           /\ q.made = r.made /\ q.verdict = r.verdict
  <2>1. r.pc \in AtFaces /\ r.pc \notin Calling /\ ~Barred(w) /\ r.face > 0 /\ q.pc \in Holding
        /\ r.pc \in Holding
    BY <1>5 DEF AtFaces, Calling, Barred, Holding, PromiseInv, OnceInv, TypeInv, WatchersOK, WatcherOK
  <2>2. /\ docs \subseteq docs'
        /\ \A d \in sent : d \in Decisions /\ (Delivered(d) => Delivered(d)')
    BY <1>5, <2>1, WorkStays DEF On
  <2>3. \A d \in sent : d.event = On(w) => Delivered(d)'
    BY <2>1, <2>2 DEF Clean
  <2>4. q.made => \E d \in docs' : d.event = On(w)
    BY <1>5, <2>1, <2>2 DEF Truthful
  <2> QED BY <1>5, <2>1, <2>3, <2>4, FollowingFace
<1>6. CASE r.pc = "scoring" /\ q.pc = "reserved" /\ SameWork(q, r)
  <2>1. r.pc \in AtFaces /\ q.pc \in Facing /\ r.pc \notin Calling
    BY <1>6 DEF AtFaces, Facing, Calling
  <2> QED BY <1>6, <2>1, SameFacePass
<1>7. CASE /\ r.pc = "reserved" /\ q.pc = "persisted" /\ SameWork(q, r)
           /\ Decision(w) \notin decided /\ Decision(w) \in decided'
  <2>1. r.pc \in AtFaces /\ q.pc \in Facing /\ r.pc \notin Calling /\ ~Barred(w)
    BY <1>7 DEF AtFaces, Facing, Calling, Barred
  <2> QED BY <1>7, <2>1, SameFacePass
<1>8. CASE r.pc \in Calling \cup {"persisted"} /\ q.pc \in Calling /\ SameWork(q, r)
  <2>1. r.pc \in AtFaces /\ q.pc \in Facing /\ q.pc # "reserved" /\ ~Barred(w) /\ q.pc \in Holding
    BY <1>8 DEF AtFaces, Facing, Calling, Barred, Holding
  <2>2. Decision(w) \in decided'
    <3>1. \A d \in decided : d.event = On(w) => d \in decided'
      BY <1>8, <2>1, WorkStays DEF SameWork, On
    <3> QED BY <1>8, <3>1 DEF InOrder, Decision
  <2> QED BY <1>8, <2>1, <2>2, SameFacePass
<1>9. CASE /\ r.pc = "delivered" /\ q.pc = "scoring" /\ q.face = r.face + 1
           /\ q.capture = r.capture /\ q.attempt = r.attempt /\ q.verdict = r.verdict
  <2>1. /\ r.pc \in AtFaces /\ r.pc \in Calling /\ r.pc \in Facing /\ ~Barred(w) /\ q.pc \in Holding
    BY <1>9 DEF AtFaces, Facing, Calling, Barred, Holding
  <2>2. /\ \A d \in decided : d.event = On(w) => d \in decided'
        /\ docs \subseteq docs'
        /\ \A d \in sent : d \in Decisions /\ (Delivered(d) => Delivered(d)')
    BY <1>9, <2>1, WorkStays DEF On
  <2>3. Delivered(Decision(w)) /\ Decision(w).event = On(w)
    BY <1>9 DEF PromiseInv, CallInv, Delivered, Decision
  <2>4. \A d \in sent : d.event = On(w) => Delivered(d)'
    <3>1. \A d \in sent : d.event = On(w) => Delivered(d) \/ d = Decision(w)
      BY <2>1 DEF Clean
    <3> QED BY <2>2, <2>3, <3>1
  <2>5. r.face > 0
    <3>1. Decision(w) \in Decisions /\ Decision(w).face = r.face
      BY <2>1, BegunIs DEF PromiseInv, OnceInv
    <3> QED BY <3>1, FacesCount
  <2>6. Decision(w) \in decided'
    BY <2>1, <2>2, <2>3 DEF InOrder
  <2>7. \E d \in docs' : d.event = On(w)
    BY <2>2, <2>3 DEF Delivered
  <2> QED BY <1>9, <2>1, <2>4, <2>5, <2>6, <2>7, FollowingFace
<1> QED BY <1>1, <1>2, <1>3, <1>4, <1>5, <1>6, <1>7, <1>8, <1>9 DEF WorkStep


\* A face is only submitted with its decision and those of the faces before it.
LEMMA SentInOrderStep ==
  ASSUME PromiseInv, PromiseInv', RecoveryApart, ~Stalls, ~WorkerMode, [Next]_vars,
         PassInv, SentInOrder
  PROVE  SentInOrder'
<1> SUFFICES ASSUME NEW d \in sent', event'[d.event].state # "absent", NEW k \in 1..d.face
             PROVE  FaceOf(d.event, k, d.attempt) \in decided'
  BY DEF SentInOrder, FaceOf
<1>1. \A c \in Captures : RowStep(c)
  BY StepsAre DEF PromiseInv, OnceInv
<1>2. CASE d \in sent
  <2>1. d.event \in Captures
    BY <1>2, DecisionsApart DEF PromiseInv, OnceInv, TypeInv, DeliveriesOK
  <2>2. event[d.event].state # "absent"
    BY <1>1, <1>2, <2>1, PastStays DEF PromiseInv, OnceInv, SentInv
  <2>3. FaceOf(d.event, k, d.attempt) \in decided
    BY <1>2, <2>2 DEF SentInOrder
  <2> QED BY <2>3, DecidedStay DEF FaceOf
<1>3. CASE d \notin sent
  <2>1. PICK w \in Watchers : Call(w) /\ d = Decision(w)
    BY <1>3, NewSubmission
  <2>2. watcher[w].pc = "submitting" /\ decided' = decided
    BY <2>1 DEF Call, At
  <2>3. /\ d.event = On(w) /\ d.attempt = watcher[w].attempt /\ d.face = watcher[w].face
        /\ d.face \in Nat
    <3>1. Decision(w) \in Decisions
      BY <2>2, BegunIs DEF PromiseInv, OnceInv, Facing, Calling
    <3> QED BY <2>1, <3>1, FacesCount DEF Decision
  <2>4. /\ \A i \in 1..(d.face - 1) : FaceOf(d.event, i, d.attempt) \in decided
        /\ Decision(w) \in decided
    BY <2>2, <2>3 DEF PassInv, InOrder, AtFaces, Facing, Calling
  <2>5. CASE k = d.face
    BY <2>2, <2>3, <2>4, <2>5 DEF Decision, FaceOf
  <2>6. CASE k # d.face
    <3>1. k \in 1..(d.face - 1)
      BY <2>3, <2>6
    <3> QED BY <2>2, <2>4, <3>1
  <2> QED BY <2>5, <2>6
<1> QED BY <1>2, <1>3

\* So what is said of the passes holds in every reachable state.
LEMMA PassStep ==
  ASSUME ~Stalls, ~WorkerMode
  PROVE  PromiseInv /\ RecoveryApart /\ PassInv /\ SentInOrder /\ [Next]_vars
         => PassInv' /\ SentInOrder'
<1> SUFFICES ASSUME PromiseInv, RecoveryApart, PassInv, SentInOrder, [Next]_vars
             PROVE  PassInv' /\ SentInOrder'
  OBVIOUS
<1>1. PromiseInv'
  BY PromiseStep
<1>2. SentInOrder'
  BY <1>1, SentInOrderStep
<1>3. ASSUME NEW w \in Watchers PROVE InOrder(w)' /\ Clean(w)' /\ Truthful(w)'
  <2>1. InOrder(w) /\ Clean(w) /\ Truthful(w)
    BY DEF PassInv
  <2>2. watcher'[w] = watcher[w] \/ WorkStep(w)
    BY WorksAre DEF PromiseInv, OnceInv
  <2> QED BY <1>1, <2>1, <2>2, PassRests, PassWorks
<1> QED BY <1>2, <1>3 DEF PassInv

\* Nothing was submitted at first, and nobody works.
LEMMA PassInit == Init => PassInv /\ SentInOrder
BY DEF Init, PassInv, SentInOrder, InOrder, Clean, Truthful, Resting, AtFaces, Facing, Calling,
       Holding


-----------------------------------------------------------------------------
(***************************************************************************)
(* Who records that a check-in was made, and who is given a lease.         *)
(***************************************************************************)

\* The step makes no event one that says checkin_created.
NoneCreated ==
  \A c \in Captures : event'[c].state = "checkin_created" => event[c].state = "checkin_created"

\* The step gives no watcher a lease.
NoneTaken ==
  \A c \in Captures, w \in Watchers : event'[c].owner = w => event[c].owner = w

\* A step that changes one row, and not to that.
LEMMA RowNotCreated ==
  ASSUME TypeInv, NEW c \in Captures, NEW q, event' = [event EXCEPT ![c] = q]
  PROVE  /\ q.state = event[c].state \/ q.state # "checkin_created" => NoneCreated
         /\ q.owner = event[c].owner \/ q.owner \notin Watchers => NoneTaken
BY DEF NoneCreated, NoneTaken, TypeInv, RowsOK

\* The death of a process ends no event, and nobody has its lease.
LEMMA OrphansNotCreated ==
  ASSUME NEW rows, NEW o,
         \A c \in Captures :
           /\ rows[c] \in Row
           /\ rows[c].state = event[c].state \/ rows[c].state # "checkin_created"
           /\ rows[c].owner = event[c].owner \/ rows[c].owner \notin Watchers,
         event' = Orphans(rows, o)
  PROVE  NoneCreated /\ NoneTaken
<1>1. ASSUME NEW c \in Captures
      PROVE  event'[c].state = rows[c].state /\ event'[c].owner \in {rows[c].owner, Dead}
  <2> DEFINE r == rows[c]
  <2>1. event'[c] = [r EXCEPT !.owner  = IF @ = o THEN Dead ELSE @,
                              !.action = IF @ = o THEN Dead ELSE @]
    BY DEF Orphans
  <2>2. r \in Row
    OBVIOUS
  <2> HIDE DEF r
  <2>3. event'[c].state = r.state /\ event'[c].owner \in {r.owner, Dead}
    BY <2>1, <2>2 DEF Row
  <2> QED BY <2>3 DEF r
<1> QED BY <1>1, OwnersApart DEF NoneCreated, NoneTaken

\* Of the process that dies, too.
LEMMA DeathCreatesNone ==
  ASSUME TypeInv, NEW o, event' = Orphans(event, o)
  PROVE  NoneCreated /\ NoneTaken
BY OrphansNotCreated DEF TypeInv, RowsOK

\* Neither the lease nor the calls end an event so, and only the acquisition gives
\* a lease.
LEMMA WorkersCreateNone ==
  ASSUME TypeInv, LeaseInv, NEW w \in Watchers, Ledgered(w) \/ Judged(w) \/ Submitted(w)
  PROVE  NoneCreated /\ (NoneTaken \/ Acquire(w))
<1> DEFINE c == On(w)
           r == event[c]
<1>0. ASSUME watcher[w].pc \in Holding \cup {"received"} PROVE c \in Captures /\ r \in Row
  BY <1>0, WatcherGoesOn DEF TypeInv, WatchersOK, RowsOK, On
<1>1. CASE UNCHANGED event
  BY <1>1 DEF NoneCreated, NoneTaken
<1>2. CASE Acquire(w)
  <2>1. PICK q \in {Renewed(r), Acquired(r, w)} : event' = [event EXCEPT ![c] = q]
    BY <1>2 DEF Acquire
  <2>2. c \in Captures /\ r \in Row /\ w \in Owners
    BY <1>0, <1>2, OwnersApart DEF Acquire, At
  <2>3. q.state = r.state \/ q.state # "checkin_created"
    BY <2>1, <2>2, RowMoved DEF IsRow
  <2> QED BY <1>2, <2>1, <2>2, <2>3, RowNotCreated
<1>3. CASE AcquireAmbiguous(w)
  <2> DEFINE q == Ended(r, "uncertain")
  <2>1. event' = [event EXCEPT ![c] = q]
    BY <1>3 DEF AcquireAmbiguous
  <2>2. c \in Captures /\ r \in Row
    BY <1>0, <1>3 DEF AcquireAmbiguous, At
  <2>3. q.state # "checkin_created" /\ q.owner \notin Watchers
    BY <2>2, OwnersApart, RowMoved DEF IsRow, Terminal
  <2> HIDE DEF q
  <2> QED BY <2>1, <2>2, <2>3, RowNotCreated
<1>4. CASE Renew(w)
  <2> DEFINE q == Renewed(r)
  <2>1. event' = [event EXCEPT ![c] = q]
    BY <1>4 DEF Renew
  <2>2. c \in Captures /\ r \in Row
    BY <1>0, <1>4 DEF Renew, At, Holding
  <2>3. q.state = r.state /\ q.owner = r.owner
    BY <2>2, RowMoved DEF IsRow
  <2> HIDE DEF q
  <2> QED BY <2>1, <2>2, <2>3, RowNotCreated
<1>5. CASE Advance(w)
  <2> DEFINE q == Moved(r, "processing")
  <2>1. event' = [event EXCEPT ![c] = q]
    BY <1>5 DEF Advance
  <2>2. c \in Captures /\ r \in Row
    BY <1>0, <1>5 DEF Advance, At, Holding
  <2>3. q.state # "checkin_created" /\ q.owner = r.owner
    BY <2>2, RowMoved DEF IsRow
  <2> HIDE DEF q
  <2> QED BY <2>1, <2>2, <2>3, RowNotCreated
<1>6. CASE Begin(w)
  <2> DEFINE q == Delivering(r, Decision(w))
  <2>1. event' = [event EXCEPT ![c] = q] /\ watcher[w].pc = "persisted"
    BY <1>6 DEF Begin, At
  <2>2. c \in Captures /\ r \in Row /\ Decision(w) \in Decisions
    BY <1>0, <2>1, BegunIs DEF Holding, Facing
  <2>3. q.state # "checkin_created" /\ q.owner = r.owner
    BY <2>2, RowMoved DEF IsRow
  <2> HIDE DEF q
  <2> QED BY <2>1, <2>2, <2>3, RowNotCreated
<1> QED BY <1>1, <1>2, <1>3, <1>4, <1>5, <1>6
        DEF Ledgered, Judged, Submitted, AcquireRefused, TurnAway, RenewRefused, Fails, Breaks,
            BreaksOff, Reject, Unaccepted, Reserve, DecisionTaken, Suppress, Persist,
            PersistFails, BeginFails, Call, Raised, Doubt, DoubtFails, MarkDelivered,
            MarkDeliveredFails, Commit, CommitFails, ledger

\* finalize_event_with_lease ends one with the watcher's verdict.
LEMMA VerdictCreates ==
  ASSUME TypeInv, NEW w \in Watchers, Closed(w)
  PROVE  /\ NoneTaken
         /\ \/ NoneCreated
            \/ /\ watcher[w].pc = "finalizing" /\ watcher[w].verdict = "checkin_created"
               /\ UNCHANGED <<job, sent, docs>>
               /\ \A c \in Captures : c # On(w) => event'[c] = event[c]
<1> DEFINE c == On(w)
           r == event[c]
<1>1. CASE UNCHANGED event
  BY <1>1 DEF NoneCreated, NoneTaken
<1>2. CASE FinalizeFails(w)
  <2>1. event' = event \/ event' = Orphans(event, w)
    BY <1>2 DEF FinalizeFails, Closing
  <2> QED BY <1>1, <2>1, DeathCreatesNone
<1>3. CASE Finalize(w)
  <2>0. /\ watcher[w].pc = "finalizing" /\ watcher[w].pc \in Holding
        /\ UNCHANGED <<job, sent, docs>>
    BY <1>3 DEF Finalize, At, Holding, delivery
  <2>1. /\ c \in Captures /\ r \in Row /\ watcher[w].verdict \in Endings \cup {"broken"}
        /\ watcher[w].at \in Places \cup {Nowhere}
    <3>1. WatcherOK(watcher[w])
      BY DEF TypeInv, WatchersOK
    <3>2. c \in Captures /\ r \in Row
      BY <2>0, <3>1, WatcherGoesOn DEF TypeInv, RowsOK, On
    <3> QED BY <2>0, <3>1, <3>2 DEF WatcherOK, Watching
  <2> DEFINE rows == [event EXCEPT ![c] = Final(w, @)]
  <2>2. CASE watcher[w].verdict = "broken"
    <3> DEFINE q == Ended(r, "failed")
    <3>1. event' = Orphans(rows, w) /\ rows = [event EXCEPT ![c] = q]
      BY <1>3, <2>2 DEF Finalize, Closing, Final
    <3>2. IsRow(q, "failed", "terminal", NoOwner, 0, r.attempt, r.decision, r.action, r.path)
      BY <2>1, RowMoved DEF Terminal
    <3> HIDE DEF q, rows
    <3>3. \A e \in Captures :
            /\ rows[e] \in Row
            /\ rows[e].state = event[e].state \/ rows[e].state # "checkin_created"
            /\ rows[e].owner = event[e].owner \/ rows[e].owner \notin Watchers
      BY <3>1, <3>2, OwnersApart DEF IsRow, TypeInv, RowsOK
    <3> QED BY <3>1, <3>3, OrphansNotCreated
  <2>3. CASE watcher[w].verdict # "broken"
    <3> DEFINE q == [Ended(r, watcher[w].verdict) EXCEPT !.path = watcher[w].at]
    <3>1. event' = [event EXCEPT ![c] = q]
      BY <1>3, <2>3 DEF Finalize, Closing, Final
    <3>2. watcher[w].verdict \in Terminal
      BY <2>1, <2>3 DEF Endings, Terminal
    <3>0. IsRow(q, watcher[w].verdict, "terminal", NoOwner, 0, r.attempt, r.decision, r.action,
                watcher[w].at)
      BY <2>1, <3>2, RowMoved
    <3> HIDE DEF q
    <3>3. q.state = watcher[w].verdict /\ q.owner \notin Watchers
      BY <3>0, OwnersApart DEF IsRow
    <3>6. NoneTaken
      BY <2>1, <3>1, <3>3, RowNotCreated
    <3>4. CASE watcher[w].verdict = "checkin_created"
      <4>1. \A e \in Captures : e # c => event'[e] = event[e]
        BY <3>1 DEF TypeInv, RowsOK
      <4> QED BY <2>0, <3>4, <3>6, <4>1
    <3>5. CASE watcher[w].verdict # "checkin_created"
      <4>1. NoneCreated
        BY <2>1, <3>1, <3>3, <3>5, RowNotCreated
      <4> QED BY <3>6, <4>1
    <3> QED BY <3>4, <3>5
  <2> QED BY <2>2, <2>3
<1> QED BY <1>1, <1>2, <1>3 DEF Closed, Release, ReleaseFails, AllScored, Dispose, ledger


\* Neither a crash nor recovery ends an event so or leases it, nor the poll of a
\* file.
LEMMA RecoveryCreatesNone ==
  ASSUME TypeInv, NEW w \in Watchers,
         \/ Started(w) \/ Crash(w)
         \/ \E c \in Captures : Recovered(w, c) \/ \E file \in Uploads : Polled(w, c, file)
  PROVE  NoneCreated /\ NoneTaken
<1>0. \A c \in Captures : event[c] \in Row
  BY DEF TypeInv, RowsOK
<1>1. CASE UNCHANGED event
  BY <1>1 DEF NoneCreated, NoneTaken
<1>2. CASE Crash(w)
  BY <1>2, DeathCreatesNone DEF Crash
<1>3. CASE Recover(w)
  <2>1. ASSUME NEW c \in Captures
        PROVE  /\ event'[c].state = "checkin_created" => event[c].state = "checkin_created"
               /\ event'[c].owner = event[c].owner \/ event'[c].owner = NoOwner
    <3>1. \/ event'[c] = Ended(event[c], "uncertain")
          \/ event'[c] = Retried(event[c])
          \/ event'[c] = event[c]
      BY <1>3 DEF Recover
    <3>2. /\ Ended(event[c], "uncertain").state = "uncertain"
          /\ Ended(event[c], "uncertain").owner = NoOwner
      BY <1>0, RowMoved DEF IsRow, Terminal
    <3>3. Retried(event[c]).state = "processing" /\ Retried(event[c]).owner = NoOwner
      BY <1>0, RowTaken DEF IsRow
    <3> QED BY <3>1, <3>2, <3>3
  <2> QED BY <2>1, OwnersApart DEF NoneCreated, NoneTaken
<1>4. ASSUME NEW c \in Captures, RetryMissing(w, c), event[c].state \in Open PROVE NoneCreated /\ NoneTaken
  <2> DEFINE q == Ended(event[c], "failed")
  <2>1. event' = [event EXCEPT ![c] = q]
    BY <1>4 DEF RetryMissing
  <2>2. q.state # "checkin_created" /\ q.owner \notin Watchers
    BY <1>0, OwnersApart, RowMoved DEF IsRow, Terminal
  <2> HIDE DEF q
  <2> QED BY <2>1, <2>2, RowNotCreated
<1>5. ASSUME NEW c \in Captures, RecordRetention(w, c) PROVE NoneCreated /\ NoneTaken
  <2> DEFINE p == IF Quarantines THEN "kept" ELSE event[c].path
             x == UncertainAt(event[c], p)
             q == IF event[c].state = "absent" THEN event[c] ELSE x
  <2>1. event' = [event EXCEPT ![c] = q] /\ p \in Places \cup {Nowhere}
    BY <1>0, <1>5 DEF RecordRetention, Row, Places
  <2> HIDE DEF p
  <2>2. IsRow(x, "uncertain", "terminal", NoOwner, 0,
              event[c].attempt, event[c].decision, event[c].action, p)
    BY <1>0, <2>1, RowMoved DEF UncertainAt, Terminal
  <2> HIDE DEF x
  <2>3. /\ q.state = event[c].state \/ q.state # "checkin_created"
        /\ q.owner = event[c].owner \/ q.owner \notin Watchers
    BY <2>2, OwnersApart DEF IsRow
  <2> HIDE DEF q
  <2> QED BY <2>1, <2>3, RowNotCreated
<1>6. ASSUME NEW c \in Captures, NEW file \in Uploads, Receive(w, c, file) PROVE NoneCreated /\ NoneTaken
  <2> DEFINE q == IF event[c].state = "absent" THEN Receipt(file) ELSE event[c]
  <2>1. event' = [event EXCEPT ![c] = q]
    BY <1>6 DEF Receive
  <2>2. /\ q.state = event[c].state \/ q.state = "received"
        /\ q.owner = event[c].owner \/ q.owner \notin Watchers
    BY FirstRows, OwnersApart DEF Receipt, NoRow
  <2> HIDE DEF q
  <2> QED BY <2>1, <2>2, RowNotCreated
<1>7. ASSUME NEW c \in Captures, Recovered(w, c) PROVE NoneCreated /\ NoneTaken
  BY <1>1, <1>4, <1>5, <1>7 DEF Recovered, RetryReady, RetryMissing, RetainDoubtful, ledger
<1>8. ASSUME NEW c \in Captures, NEW file \in Uploads, Polled(w, c, file) PROVE NoneCreated /\ NoneTaken
  BY <1>1, <1>6, <1>8 DEF Polled, Replay, ledger
<1>9. CASE Restart(w)
  BY <1>1, <1>9 DEF Restart, ledger
<1> QED BY <1>2, <1>3, <1>7, <1>8, <1>9 DEF Started

\* Nor do an operator, pruning or time.
LEMMA OthersCreateNone ==
  ASSUME TypeInv,
         \/ \E o \in Operators : \/ Commands(o) \/ OperatorDies(o)
                                 \/ \E c \in Captures : Stage(o, c) \/ Dismiss(o, c)
         \/ \E c \in Captures : Upload(c)
         \/ \E d \in Decisions : DeliverQueued(d)
         \/ Prune \/ Tick \/ UNCHANGED vars
  PROVE  NoneCreated /\ NoneTaken
<1> USE DEF ledger
<1>0. \A c \in Captures : event[c] \in Row
  BY DEF TypeInv, RowsOK
<1>1. CASE UNCHANGED event
  BY <1>1 DEF NoneCreated, NoneTaken
<1>2. ASSUME NEW o \in Operators, operator[o].pc # "idle"
      PROVE  /\ Subject(o) \in Captures /\ operator[o].from \in Places /\ o \in Owners
             /\ event[Subject(o)] \in Row
  <2>1. Subject(o) \in Captures /\ operator[o].from \in Places /\ o \in Owners
    BY <1>2, OwnersApart DEF TypeInv, CommandsOK, CommandOK, Subject
  <2> QED BY <1>0, <2>1
<1>3. ASSUME NEW o \in Operators, Request(o) PROVE NoneCreated /\ NoneTaken
  <2> DEFINE q == Requested(event[Subject(o)], o)
  <2>1. event' = [event EXCEPT ![Subject(o)] = q] /\ operator[o].pc # "idle"
    BY <1>3 DEF Request, Does
  <2>2. q.state # "checkin_created"
    BY <1>2, <2>1, RowTaken DEF IsRow
  <2>3. q.owner = o /\ o \notin Watchers
    BY <1>2, <2>1, OwnersApart, RowTaken DEF IsRow
  <2> HIDE DEF q
  <2> QED BY <1>2, <2>1, <2>2, <2>3, RowNotCreated
<1>4. ASSUME NEW o \in Operators, Complete(o), CanComplete(event[Subject(o)], o)
      PROVE  NoneCreated /\ NoneTaken
  <2> DEFINE q == Published(event[Subject(o)])
  <2>1. event' = [event EXCEPT ![Subject(o)] = q] /\ operator[o].pc # "idle"
    BY <1>4 DEF Complete, Does
  <2>2. q.state = event[Subject(o)].state /\ q.owner \notin Watchers
    BY <1>2, <2>1, OwnersApart, RowTaken DEF IsRow
  <2> HIDE DEF q
  <2> QED BY <1>2, <2>1, <2>2, RowNotCreated
<1>5. ASSUME NEW o \in Operators, MarkFailed(o) PROVE NoneCreated /\ NoneTaken
  <2> DEFINE r == event[Subject(o)]
             x == PublishFailed(r, operator[o].from)
             q == IF r.state # "absent" /\ CanMarkFailed(r, o) THEN x ELSE r
  <2>1. event' = [event EXCEPT ![Subject(o)] = q] /\ operator[o].pc # "idle"
    BY <1>5 DEF MarkFailed, Does
  <2>2. x.state # "checkin_created" /\ x.owner \notin Watchers
    BY <1>2, <2>1, OwnersApart, RowTaken DEF IsRow
  <2> HIDE DEF x
  <2>3. /\ q.state = r.state \/ q.state # "checkin_created"
        /\ q.owner = r.owner \/ q.owner \notin Watchers
    BY <2>2
  <2> HIDE DEF q
  <2> QED BY <1>2, <2>1, <2>3, RowNotCreated
<1>6. ASSUME NEW o \in Operators, OperatorDies(o) PROVE NoneCreated /\ NoneTaken
  BY <1>6, DeathCreatesNone DEF OperatorDies
<1>7. ASSUME NEW o \in Operators, NEW c \in Captures, Dismiss(o, c) PROVE NoneCreated /\ NoneTaken
  <2> DEFINE q == Dismissed(event[c])
  <2>1. event' = [event EXCEPT ![c] = q]
    BY <1>7 DEF Dismiss
  <2>2. q.state # "checkin_created" /\ q.owner \notin Watchers
    BY <1>0, OwnersApart, RowTaken DEF IsRow
  <2> HIDE DEF q
  <2> QED BY <2>1, <2>2, RowNotCreated
<1>8. CASE Prune
  <2>1. \A c \in Captures : event'[c] = NoRow \/ event'[c] = event[c]
    BY <1>8 DEF Prune
  <2> QED BY <2>1, OwnersApart DEF NoneCreated, NoneTaken, NoRow
<1>9. CASE Tick
  <2>1. \A c \in Captures : event'[c] = Older(event[c])
    BY <1>9 DEF Tick
  <2>2. \A c \in Captures :
          Older(event[c]).state = event[c].state /\ Older(event[c]).owner = event[c].owner
    BY <1>0, RowTaken DEF IsRow
  <2> QED BY <2>1, <2>2 DEF NoneCreated, NoneTaken
<1>10. ASSUME NEW o \in Operators, Commands(o) PROVE NoneCreated /\ NoneTaken
  BY <1>1, <1>3, <1>4, <1>5, <1>10
     DEF Commands, RequestRefused, Unstage, Publish, Complete, Rollback
<1>11. ASSUME NEW o \in Operators, NEW c \in Captures, Stage(o, c) PROVE NoneCreated /\ NoneTaken
  BY <1>1, <1>11 DEF Stage
<1> QED BY <1>1, <1>6, <1>7, <1>8, <1>9, <1>10, <1>11 DEF Upload, DeliverQueued, vars

\* A lease is given to the watcher that acquires it.
LEMMA WhoTakes ==
  ASSUME TypeInv, LeaseInv, [Next]_vars
  PROVE  NoneTaken \/ \E w \in Watchers : Acquire(w)
<1>1. ASSUME NEW w \in Watchers, Steps(w) \/ Crash(w) PROVE NoneTaken \/ Acquire(w)
  BY <1>1, WorkersCreateNone, VerdictCreates, RecoveryCreatesNone DEF Steps
<1>2. ASSUME NEW w \in Watchers, NEW c \in Captures,
             Recovered(w, c) \/ \E file \in Uploads : Polled(w, c, file)
      PROVE  NoneTaken
  BY <1>2, RecoveryCreatesNone
<1> QED BY <1>1, <1>2, OthersCreateNone DEF Next

\* So only a watcher whose verdict it is makes an event say checkin_created.
LEMMA WhoCreates ==
  ASSUME TypeInv, LeaseInv, [Next]_vars
  PROVE  \/ NoneCreated
         \/ \E w \in Watchers :
              /\ watcher[w].pc = "finalizing" /\ watcher[w].verdict = "checkin_created"
              /\ UNCHANGED <<job, sent, docs>>
              /\ \A c \in Captures : c # On(w) => event'[c] = event[c]
<1>1. ASSUME NEW w \in Watchers, Steps(w) \/ Crash(w)
      PROVE  \/ NoneCreated
             \/ /\ watcher[w].pc = "finalizing" /\ watcher[w].verdict = "checkin_created"
                /\ UNCHANGED <<job, sent, docs>>
                /\ \A c \in Captures : c # On(w) => event'[c] = event[c]
  BY <1>1, WorkersCreateNone, VerdictCreates, RecoveryCreatesNone DEF Steps
<1>2. ASSUME NEW w \in Watchers, NEW c \in Captures,
             Recovered(w, c) \/ \E file \in Uploads : Polled(w, c, file)
      PROVE  NoneCreated
  BY <1>2, RecoveryCreatesNone
<1> QED BY <1>1, <1>2, OthersCreateNone DEF Next

-----------------------------------------------------------------------------
(***************************************************************************)
(* The event and its check-ins agree.                                      *)
(***************************************************************************)

\* What the events say of their check-ins stays true.
LEMMA AgreesStep ==
  ASSUME PromiseInv, PassInv, ~WorkerMode, [Next]_vars, DeliveredAgrees
  PROVE  DeliveredAgrees'
<1> SUFFICES ASSUME NEW c \in Captures, event'[c].state = "checkin_created"
             PROVE  Agreed(c)'
  BY DEF DeliveredAgrees, Agreed, Delivered
<1>1. ASSUME event[c].state = "checkin_created" PROVE Agreed(c)'
  <2>1. Agreed(c)
    BY <1>1 DEF DeliveredAgrees, Agreed, Delivered
  <2>2. ASSUME NEW w \in Watchers, Call(w), On(w) = c PROVE FALSE
    <3>1. watcher[w].pc \in Holding
      BY <2>2 DEF Call, At, Holding, Facing, Calling
    <3>2. event[c].state \in Open
      BY <2>2, <3>1 DEF PromiseInv, OnceInv, LeaseInv, Held
    <3> QED BY <1>1, <3>2 DEF Open
  <2> QED BY <2>1, <2>2, AgreedStays
<1>2. CASE NoneCreated
  BY <1>1, <1>2 DEF NoneCreated
<1>3. ASSUME NEW w \in Watchers, watcher[w].pc = "finalizing",
             watcher[w].verdict = "checkin_created", UNCHANGED <<job, sent, docs>>,
             \A e \in Captures : e # On(w) => event'[e] = event[e]
      PROVE  Agreed(c)'
  <2>1. CASE c # On(w)
    BY <1>1, <1>3, <2>1
  <2>2. CASE c = On(w)
    <3>1. Agreed(c)
      BY <1>3, <2>2 DEF PassInv, Truthful, Holding
    <3> QED BY <1>3, <3>1 DEF Agreed, Delivered
  <2> QED BY <2>1, <2>2
<1> QED BY <1>2, <1>3, WhoCreates DEF PromiseInv, OnceInv

\* In the synchronous mode an event that says checkin_created has its check-ins:
\* whatever was submitted of the capture, in this attempt or an earlier pass of it,
\* was answered and recorded as delivered (watch_service.py process_path,
\* finalize_event_with_lease), unless a process stops for longer than its lease,
\* or startup recovery overlaps another watcher's work.
THEOREM CreatedMeansDelivered ==
  ASSUME ~Stalls, ~WorkerMode PROVE Spec /\ []RecoveryApart => []DeliveredAgrees
<1> DEFINE Inv == PromiseInv /\ PassInv /\ SentInOrder /\ DeliveredAgrees
<1>1. Init => Inv
  <2>1. Init => DeliveredAgrees
    BY DEF Init, DeliveredAgrees, NoRow
  <2> QED BY <2>1, PromiseInit, PassInit
<1>2. Inv /\ RecoveryApart /\ [Next]_vars => Inv'
  BY PromiseStep, PassStep, AgreesStep
<1>3. Inv => DeliveredAgrees
  OBVIOUS
<1> HIDE DEF Inv
<1> QED BY <1>1, <1>2, <1>3, PTL DEF Spec

\* So it does with one watcher process, whatever it dies of and is recovered from.
THEOREM CreatedMeansDeliveredByOne ==
  ASSUME ~Stalls, ~WorkerMode, \A v, w \in Watchers : v = w
  PROVE  Spec => []DeliveredAgrees
<1>1. RecoveryApart
  BY OneWatcherApart
<1> QED BY <1>1, CreatedMeansDelivered, PTL

-----------------------------------------------------------------------------
(***************************************************************************)
(* The reservations of the faces that were submitted.                      *)
(***************************************************************************)

\* The operators dismiss no event of which ERPNext was asked something.
DismissesNoSubmission ==
  \A o \in Operators, c \in Captures : Dismiss(o, c) => \A d \in sent : d.event # c

\* No write of mark_attendance_policy_uncertain fails: the exception ends in
\* process_path, which gives back what is still pending of the event.
DoubtsWritten == \A w \in Watchers : ~DoubtFails(w)

Time(d) == EffectiveAt[d.event]

\* Nobody works at the event.
Unworked(c) == \A w \in Watchers : watcher[w].pc \in Holding => On(w) # c

\* A reservation is of a decision about its scope, and of a capture after the
\* cooldown of what is committed.
ReservationsOwned ==
  \A s \in Scopes :
    LET p == policy[s]
        d == p.decision IN
    /\ p.state # "none" <=> d # NoDecision
    /\ d # NoDecision => ScopeOf(d) = s
    /\ d # NoDecision /\ p.committed # NoDecision =>
         Time(d) > Time(p.committed) /\ Time(d) >= Time(p.committed) + Cooldown

\* The ledger knows the event it is of, in this attempt or a later one.
HoldersKnown ==
  \A s \in Scopes :
    LET d == policy[s].decision IN
    d # NoDecision =>
      /\ d.event \in tombstone
      /\ event[d.event].state # "absent" => event[d.event].attempt >= d.attempt

\* A watcher that is at a face has its scope reserved, and not run out.
FacesReserved ==
  \A w \in Watchers : watcher[w].pc \in Facing =>
    LET p == policy[Scope(w)] IN
    p.state = "pending" /\ p.decision = Decision(w) /\ p.window > 0

\* A reservation that is pending is of the face at which the watcher is that has
\* the lease of the event.
PendingHeld ==
  \A s \in Scopes, w \in Watchers :
    LET p == policy[s] IN
    p.state = "pending" /\ event[p.decision.event].owner = w =>
      watcher[w].pc \in Facing /\ p.decision = Decision(w)

\* A face that is not submitted yet was not submitted in an earlier pass.
Unsent ==
  \A w \in Watchers : watcher[w].pc \in {"reserved", "persisted"} => Decision(w) \notin sent

\* Startup recovery retries no event that was submitted.
RetriesUnsent ==
  \A w \in Watchers, c \in Captures :
    todo[w][c] = "retry" => \A d \in sent : d.event # c

\* A submitted decision is of a face with a scope, and has a job that began.
SentJobs ==
  \A d \in sent : ScopeOf(d) \in Scopes /\ job[d] \in {"leased", "delivered", "uncertain"}

-----------------------------------------------------------------------------
(***************************************************************************)
(* What a step makes of a reservation.                                     *)
(***************************************************************************)

Keeps(q, p) == q.state = p.state /\ q.decision = p.decision /\ q.committed = p.committed

Frees(q, p) == q.state = "none" /\ q.decision = NoDecision /\ q.committed = p.committed

\* The updates of a reservation, field by field.
LEMMA ReservationIs ==
  ASSUME NEW p \in Policy!PolicyRow
  PROVE  /\ p.state = "pending" => Frees(Policy!Released(p), p)
         /\ p.state # "pending" => Policy!Released(p) = p
         /\ p.state # "none" =>
              LET q == Policy!MarkedUncertain(p) IN
              q.state = "uncertain" /\ q.decision = p.decision /\ q.committed = p.committed
         /\ p.state = "none" => Policy!MarkedUncertain(p) = p
         /\ Frees(Policy!GivenUp(p), p)
         /\ p.state = "pending" =>
              LET q == Policy!Committed(p) IN
              q.state = "none" /\ q.decision = NoDecision /\ q.committed = p.decision
         /\ p.state # "pending" => Policy!Committed(p) = p
         /\ Keeps(Policy!Elapsed(p), p)
         /\ p.window > 0 /\ p.window # 1 => Policy!Elapsed(p).window > 0
         /\ \A d \in Decisions :
              LET q == Policy!Reserved(p, d, WindowTicks) IN
              q.state = "pending" /\ q.decision = d /\ q.window > 0 /\ q.committed = p.committed
<1> USE DEF Policy!PolicyRow, Policy!Holders, Policy!ReservationStates, Keeps, Frees
<1>1. /\ p.state = "pending" => Frees(Policy!Released(p), p)
      /\ p.state # "pending" => Policy!Released(p) = p
      /\ Frees(Policy!GivenUp(p), p)
  BY DEF Policy!Released, Policy!GivenUp
<1>2. /\ p.state # "none" =>
           LET q == Policy!MarkedUncertain(p) IN
           q.state = "uncertain" /\ q.decision = p.decision /\ q.committed = p.committed
      /\ p.state = "none" => Policy!MarkedUncertain(p) = p
  BY DEF Policy!MarkedUncertain
<1>3. /\ p.state = "pending" =>
           LET q == Policy!Committed(p) IN
           q.state = "none" /\ q.decision = NoDecision /\ q.committed = p.decision
      /\ p.state # "pending" => Policy!Committed(p) = p
  BY DEF Policy!Committed, Policy!FreshRow
<1>4. /\ Keeps(Policy!Elapsed(p), p)
      /\ p.window > 0 /\ p.window # 1 => Policy!Elapsed(p).window > 0
  BY DEF Policy!Elapsed
<1>5. ASSUME NEW d \in Decisions
      PROVE  LET q == Policy!Reserved(p, d, WindowTicks) IN
             q.state = "pending" /\ q.decision = d /\ q.window > 0 /\ q.committed = p.committed
  BY ProcessingAssumption DEF Policy!Reserved
<1> QED BY <1>1, <1>2, <1>3, <1>4, <1>5

\* Steps of a watcher that move a reservation.
MovesScope(w) ==
  \/ Acquire(w) \/ AcquireAmbiguous(w) \/ BreaksOff(w) \/ Reserve(w) \/ Suppress(w)
  \/ PersistFails(w) \/ BeginFails(w) \/ Doubt(w) \/ Commit(w) \/ Release(w) \/ Recover(w)

\* Nothing else does but time, the end of a retry and the operator.
LEMMA OnlyTheseMoveScopes ==
  ASSUME ~WorkerMode, [Next]_vars
  PROVE  \/ UNCHANGED policy
         \/ \E w \in Watchers : MovesScope(w) \/ \E c \in Captures : RetryMissing(w, c)
         \/ \E o \in Operators : Request(o) \/ \E c \in Captures : Dismiss(o, c)
         \/ Tick
<1> USE DEF delivery, vars, MovesScope
<1>1. ASSUME NEW w \in Watchers, Ledgered(w), ~MovesScope(w) PROVE UNCHANGED policy
  BY <1>1 DEF Ledgered, AcquireRefused, TurnAway, Renew, RenewRefused, Advance, Fails, Breaks
<1>2. ASSUME NEW w \in Watchers, Judged(w) \/ Submitted(w), ~MovesScope(w) PROVE UNCHANGED policy
  BY <1>2 DEF Judged, Submitted, Reject, Unaccepted, DecisionTaken, Persist, Begin, Call, Raised,
              DoubtFails, MarkDelivered, MarkDeliveredFails, CommitFails
<1>3. ASSUME NEW w \in Watchers, Closed(w) \/ Started(w) \/ Crash(w), ~MovesScope(w)
      PROVE  UNCHANGED policy
  BY <1>3 DEF Closed, Started, ReleaseFails, AllScored, Dispose, Finalize, FinalizeFails, Restart,
              Crash
<1>4. ASSUME NEW w \in Watchers, NEW c \in Captures,
             Recovered(w, c) \/ \E file \in Uploads : Polled(w, c, file), ~RetryMissing(w, c)
      PROVE  UNCHANGED policy
  BY <1>4 DEF Recovered, Polled, RetryReady, RetainDoubtful, RecordRetention, Receive, Replay
<1>5. ASSUME NEW o \in Operators,
             \/ Commands(o) \/ OperatorDies(o)
             \/ \E c \in Captures : Stage(o, c) \/ Dismiss(o, c),
             ~Request(o), \A c \in Captures : ~Dismiss(o, c)
      PROVE  UNCHANGED policy
  BY <1>5 DEF Commands, RequestRefused, Unstage, Publish, Complete, Rollback, MarkFailed,
              OperatorDies, Stage
<1>6. ASSUME \/ \E c \in Captures : Upload(c)
             \/ \E d \in Decisions : DeliverQueued(d)
             \/ Prune \/ UNCHANGED vars
      PROVE  UNCHANGED policy
  BY <1>6 DEF Upload, DeliverQueued, Prune
<1> QED BY <1>1, <1>2, <1>3, <1>4, <1>5, <1>6 DEF Next, Steps

\* All that a step may make of a reservation: it stays, but for its time, which
\* does not run out on a watcher at work; a face reserves it; the watcher at the
\* face, or at the event, gives it back; it is given up with an event that was not
\* submitted; it is in doubt; it is committed.
ScopeStep(s) ==
  LET p == policy[s]
      q == policy'[s]
      d == p.decision IN
  \/ /\ Keeps(q, p)
     /\ p.state = "pending" /\ p.window > 0 => q.window > 0 \/ Unworked(d.event)
  \/ \E w \in Watchers :
       /\ Reserve(w) /\ s = Scope(w) /\ d # Decision(w) /\ MayReserve(p, Decision(w))
       /\ q.state = "pending" /\ q.decision = Decision(w) /\ q.window > 0
       /\ q.committed = p.committed
  \/ /\ p.state = "pending" /\ Frees(q, p)
     /\ \E w \in Watchers :
          \/ (BreaksOff(w) \/ Release(w)) /\ On(w) = d.event
          \/ (PersistFails(w) \/ BeginFails(w)) /\ Decision(w) = d
  \/ /\ Frees(q, p) /\ Unworked(d.event) /\ d \notin sent
  \/ /\ p.state # "none"
     /\ q.state = "uncertain" /\ q.decision = d /\ q.committed = p.committed
     /\ \/ Unworked(d.event) \/ Policy!Expired(p)
        \/ \E w \in Watchers : Doubt(w) /\ Decision(w) = d
  \/ /\ p.state = "pending"
     /\ q.state = "none" /\ q.decision = NoDecision /\ q.committed = d
     /\ \E w \in Watchers : Commit(w) /\ Decision(w) = d

\* An event whose lease is free is not worked at.
LEMMA FreeUnworked ==
  ASSUME LeaseInv, NEW c,
         ~ActiveLease(event[c]) \/ event[c].state \notin Open \/ event[c].owner \notin Watchers
  PROVE  Unworked(c)
BY OwnersApart DEF LeaseInv, Held, ActiveLease, Unworked

\* One that is not past its submission has none.
LEMMA NotSubmitted ==
  ASSUME SentInv, NEW c, event[c].state # "absent", ~Past(event[c])
  PROVE  \A d \in sent : d.event # c
BY DEF SentInv

\* A reservation that a step leaves alone.
LEMMA ScopeRests ==
  ASSUME NEW s, policy'[s] = policy[s]
  PROVE  ScopeStep(s)
BY DEF ScopeStep, Keeps

\* One that is given up with its event.
LEMMA ScopeGivenUp ==
  ASSUME TypeInv, NEW s \in Scopes, NEW c \in Captures, Unworked(c), \A d \in sent : d.event # c,
         policy[s].decision.event = c, policy'[s] = Policy!GivenUp(policy[s])
  PROVE  ScopeStep(s)
<1>1. Frees(policy'[s], policy[s])
  BY ReservationIs DEF TypeInv
<1> QED BY <1>1 DEF ScopeStep

\* One that comes in doubt when nobody works at its event, when it has run out, or
\* after the call.
LEMMA ScopeInDoubt ==
  ASSUME TypeInv, NEW s \in Scopes, policy'[s] = Policy!MarkedUncertain(policy[s]),
         \/ Unworked(policy[s].decision.event)
         \/ Policy!Expired(policy[s])
         \/ \E w \in Watchers : Doubt(w) /\ Decision(w) = policy[s].decision
  PROVE  ScopeStep(s)
<1>1. CASE policy[s].state = "none"
  <2>1. policy'[s] = policy[s]
    BY <1>1, ReservationIs DEF TypeInv
  <2> QED BY <2>1, ScopeRests
<1>2. CASE policy[s].state # "none"
  BY <1>2, ReservationIs DEF TypeInv, ScopeStep
<1> QED BY <1>1, <1>2

\* One that a watcher gives back.
LEMMA ScopeReleased ==
  ASSUME TypeInv, NEW s \in Scopes, policy'[s] = Policy!Released(policy[s]), NEW w \in Watchers,
         \/ (BreaksOff(w) \/ Release(w)) /\ On(w) = policy[s].decision.event
         \/ (PersistFails(w) \/ BeginFails(w)) /\ Decision(w) = policy[s].decision
  PROVE  ScopeStep(s)
<1>1. CASE policy[s].state # "pending"
  <2>1. policy'[s] = policy[s]
    BY <1>1, ReservationIs DEF TypeInv
  <2> QED BY <2>1, ScopeRests
<1>2. CASE policy[s].state = "pending"
  <2>1. Frees(policy'[s], policy[s])
    BY <1>2, ReservationIs DEF TypeInv
  <2> QED BY <1>2, <2>1 DEF ScopeStep
<1> QED BY <1>1, <1>2

\* The steps of a watcher.
LEMMA WatcherScopes ==
  ASSUME TypeInv, LeaseInv, SentInv, NEW w \in Watchers, MovesScope(w), NEW s \in Scopes
  PROVE  ScopeStep(s)
<1> DEFINE p == policy[s]
           c == On(w)
<1>0. p \in Policy!PolicyRow
  BY DEF TypeInv
<1>00. ASSUME watcher[w].pc = "received" PROVE c \in Captures /\ event[c] \in Row
  BY <1>00, WatcherGoesOn DEF TypeInv, WatchersOK, RowsOK, On
<1>1. CASE Acquire(w)
  <2> DEFINE given == Finds(event[c], w) = "free" /\ Recovering(event[c])
  <2>1. c \in Captures /\ event[c] \in Row
    BY <1>1, <1>00 DEF Acquire, At
  <2>2. policy'[s] = IF p.decision.event = c THEN IF given THEN Policy!GivenUp(p) ELSE p ELSE p
    BY <1>1 DEF Acquire, OfEvent
  <2>3. CASE given /\ p.decision.event = c
    <3>1. event[c].state \in Open /\ ~ActiveLease(event[c]) /\ event[c].phase # "delivery_in_progress"
      BY <2>1, <2>3, Found
    <3>2. Unworked(c)
      BY <3>1, FreeUnworked
    <3>3. \A d \in sent : d.event # c
      BY <3>1, NotSubmitted DEF Open, Terminal, Past
    <3> QED BY <2>1, <2>2, <2>3, <3>2, <3>3, ScopeGivenUp
  <2>4. CASE ~given \/ p.decision.event # c
    BY <2>2, <2>4, ScopeRests
  <2> QED BY <2>3, <2>4
<1>2. CASE AcquireAmbiguous(w)
  <2>1. c \in Captures /\ event[c] \in Row /\ Finds(event[c], w) = "ambiguous"
    BY <1>2, <1>00 DEF AcquireAmbiguous, At
  <2>2. policy'[s] = IF p.decision.event = c THEN Policy!MarkedUncertain(p) ELSE p
    BY <1>2 DEF AcquireAmbiguous, OfEvent
  <2>3. Unworked(c)
    BY <2>1, Found, FreeUnworked
  <2> QED BY <2>2, <2>3, ScopeInDoubt, ScopeRests
<1>3. CASE BreaksOff(w) \/ Release(w)
  <2>1. policy'[s] = IF p.decision.event = c THEN Policy!Released(p) ELSE p
    BY <1>3 DEF BreaksOff, Release, ReleaseFails, OfEvent
  <2> QED BY <1>3, <2>1, ScopeReleased, ScopeRests
<1>4. CASE PersistFails(w) \/ BeginFails(w)
  <2>1. policy'[s] = IF p.decision = Decision(w) THEN Policy!Released(p) ELSE p
    BY <1>4 DEF PersistFails, BeginFails, OfDecision
  <2> QED BY <1>4, <2>1, ScopeReleased, ScopeRests
<1>5. CASE Doubt(w)
  <2>1. policy'[s] = IF p.decision = Decision(w) THEN Policy!MarkedUncertain(p) ELSE p
    BY <1>5 DEF Doubt, DoubtFails, OfDecision
  <2> QED BY <1>5, <2>1, ScopeInDoubt, ScopeRests
<1>6. CASE Commit(w)
  <2>1. policy'[s] = IF p.decision = Decision(w) THEN Policy!Committed(p) ELSE p
    BY <1>6 DEF Commit, OfDecision
  <2>2. CASE p.decision = Decision(w) /\ p.state = "pending"
    <3>1. LET q == policy'[s] IN
          q.state = "none" /\ q.decision = NoDecision /\ q.committed = p.decision
      BY <1>0, <2>1, <2>2, ReservationIs
    <3> QED BY <1>6, <2>2, <3>1 DEF ScopeStep
  <2>3. CASE p.decision # Decision(w) \/ p.state # "pending"
    <3>1. policy'[s] = p
      BY <1>0, <2>1, <2>3, ReservationIs
    <3> QED BY <3>1, ScopeRests
  <2> QED BY <2>2, <2>3
<1>7. CASE Suppress(w)
  <2>1. CASE policy'[s] = p
    BY <2>1, ScopeRests
  <2>2. CASE policy'[s] # p
    <3>1. policy'[s] = Policy!MarkedUncertain(p) /\ Policy!Expired(p)
      BY <1>7, <2>2 DEF Suppress, TypeInv, Policy!HolderUnresolved
    <3> QED BY <3>1, ScopeInDoubt
  <2> QED BY <2>1, <2>2
<1>8. CASE Reserve(w)
  <2> DEFINE d == Decision(w)
  <2>1. watcher[w].pc = "scoring" /\ Scope(w) \in Scopes /\ d \in Decisions
    BY <1>8, AtFace DEF Reserve, At
  <2>2. CASE policy'[s] = p
    BY <2>2, ScopeRests
  <2>3. CASE policy'[s] # p
    <3>1. /\ s = Scope(w) /\ p.decision # d /\ MayReserve(p, d)
          /\ policy'[s] = Policy!Reserved(p, d, WindowTicks)
      BY <1>8, <2>1, <2>3 DEF Reserve, TypeInv
    <3>2. LET q == policy'[s] IN
          q.state = "pending" /\ q.decision = d /\ q.window > 0 /\ q.committed = p.committed
      BY <1>0, <2>1, <3>1, ReservationIs
    <3> QED BY <1>8, <3>1, <3>2 DEF ScopeStep
  <2> QED BY <2>2, <2>3
<1>9. CASE Recover(w)
  <2> DEFINE e == p.decision.event
  <2>1. \/ policy'[s] = p
        \/ p.decision # NoDecision /\ InDoubt(e) /\ policy'[s] = Policy!MarkedUncertain(p)
        \/ p.decision # NoDecision /\ ToRetry(e) /\ policy'[s] = Policy!GivenUp(p)
    BY <1>9 DEF Recover
  <2>2. CASE policy'[s] = p
    BY <2>2, ScopeRests
  <2>3. CASE p.decision # NoDecision /\ (InDoubt(e) \/ ToRetry(e))
    <3>1. e \in Captures
      BY <1>0, <2>3, DecisionsApart DEF Policy!PolicyRow, Policy!Holders
    <3>2. Unworked(e)
      <4>1. event[e].lease \in Nat
        BY <3>1, ProcessingAssumption DEF TypeInv, RowsOK, Row, FullLease
      <4>2. ~ActiveLease(event[e])
        BY <2>3, <4>1 DEF InDoubt, ToRetry, Abandoned, ActiveLease
      <4> QED BY <4>2, FreeUnworked
    <3>3. ToRetry(e) => \A d \in sent : d.event # e
      BY NotSubmitted DEF ToRetry, Abandoned, CrossedBoundary, Past, Open
    <3> QED BY <2>1, <2>2, <3>1, <3>2, <3>3, ScopeInDoubt, ScopeGivenUp
  <2> QED BY <2>1, <2>2, <2>3
<1> QED BY <1>1, <1>2, <1>3, <1>4, <1>5, <1>6, <1>7, <1>8, <1>9 DEF MovesScope

\* What is left of a recovery: nobody works at its event, nor was it submitted.
LEMMA RetryScopes ==
  ASSUME TypeInv, LeaseInv, RecoveryApart, RetriesUnsent,
         NEW v \in Watchers, NEW c \in Captures, RetryMissing(v, c), NEW s \in Scopes
  PROVE  ScopeStep(s)
<1>1. todo[v][c] = "retry"
  BY DEF RetryMissing
<1>2. Unworked(c)
  <2> SUFFICES ASSUME NEW w \in Watchers, watcher[w].pc \in Holding, On(w) = c PROVE FALSE
    BY DEF Unworked
  <2>1. CASE v = w
    BY <1>1, <2>1 DEF LeaseInv, NothingToDo
  <2>2. CASE v # w
    BY <1>1, <2>2 DEF RecoveryApart
  <2> QED BY <2>1, <2>2
<1>3. policy'[s] = policy[s] \/ (policy[s].decision.event = c /\ policy'[s] = Policy!GivenUp(policy[s]))
  BY DEF RetryMissing, OfEvent
<1> QED BY <1>1, <1>2, <1>3, ScopeRests, ScopeGivenUp DEF RetriesUnsent

\* An operator's request and dismissal take no event that a watcher has.
LEMMA OperatorScopes ==
  ASSUME TypeInv, LeaseInv, SentInv, [DismissesNoSubmission]_vars, NEW o \in Operators,
         Request(o) \/ \E c \in Captures : Dismiss(o, c), NEW s \in Scopes
  PROVE  ScopeStep(s)
<1>1. CASE Request(o)
  <2> DEFINE c == Subject(o)
  <2>1. c \in Captures
    BY <1>1 DEF Request, Does, TypeInv, CommandsOK, CommandOK, Subject
  <2>2. ~ActiveLease(event[c]) /\ event[c].state # "absent" /\ ~Past(event[c])
    BY <1>1 DEF Request, Reprocessable, CrossedBoundary, Past
  <2>3. Unworked(c) /\ \A d \in sent : d.event # c
    BY <2>2, FreeUnworked, NotSubmitted
  <2>4. policy'[s] = policy[s] \/ (policy[s].decision.event = c /\ policy'[s] = Policy!GivenUp(policy[s]))
    BY <1>1 DEF Request, OfEvent
  <2> QED BY <2>1, <2>3, <2>4, ScopeRests, ScopeGivenUp
<1>2. ASSUME NEW c \in Captures, Dismiss(o, c) PROVE ScopeStep(s)
  <2>1. ~ActiveLease(event[c])
    BY <1>2 DEF Dismiss, Dismissable
  <2>2. \A d \in sent : d.event # c
    <3>1. event'[c] # event[c]
      <4>1. event' = [event EXCEPT ![c] = Dismissed(event[c])] /\ event[c].state # "dismissed"
        BY <1>2 DEF Dismiss, Dismissable
      <4>2. Dismissed(event[c]).state = "dismissed"
        BY RowTaken DEF IsRow, TypeInv, RowsOK
      <4> QED BY <4>1, <4>2 DEF TypeInv, RowsOK
    <3> QED BY <1>2, <3>1 DEF DismissesNoSubmission, vars
  <2>3. policy'[s] = policy[s] \/ (policy[s].decision.event = c /\ policy'[s] = Policy!GivenUp(policy[s]))
    BY <1>2 DEF Dismiss, OfEvent
  <2> QED BY <2>1, <2>2, <2>3, FreeUnworked, ScopeRests, ScopeGivenUp
<1> QED BY <1>1, <1>2

\* Time runs out no reservation of a watcher at work.
LEMMA TimeScopes ==
  ASSUME TypeInv, ~Stalls, Tick, NEW s \in Scopes
  PROVE  ScopeStep(s)
<1> DEFINE p == policy[s]
<1>1. policy'[s] = Policy!Elapsed(p) /\ ~WindowRunsOut(s)
  BY DEF Tick
<1>2. Keeps(policy'[s], p) /\ (p.window > 0 /\ p.window # 1 => policy'[s].window > 0)
  BY <1>1, ReservationIs DEF TypeInv
<1>3. p.state = "pending" /\ p.window = 1 => Unworked(p.decision.event)
  BY <1>1 DEF WindowRunsOut, Unworked
<1> QED BY <1>2, <1>3 DEF ScopeStep

\* So every step moves the reservations like that.
LEMMA ScopeSteps ==
  ASSUME TypeInv, LeaseInv, SentInv, RetriesUnsent, RecoveryApart, ~Stalls, ~WorkerMode,
         [Next]_vars, [DismissesNoSubmission]_vars
  PROVE  \A s \in Scopes : ScopeStep(s)
<1> SUFFICES ASSUME NEW s \in Scopes PROVE ScopeStep(s)
  OBVIOUS
<1>1. CASE UNCHANGED policy
  BY <1>1, ScopeRests
<1> QED BY <1>1, OnlyTheseMoveScopes, WatcherScopes, RetryScopes, OperatorScopes, TimeScopes

-----------------------------------------------------------------------------
(***************************************************************************)
(* Coming to a face and leaving it.                                        *)
(***************************************************************************)

\* The decision and the scope of a watcher are of what it has in hand.
LEMMA SameWorkIs ==
  ASSUME NEW w, SameWork(watcher'[w], watcher[w])
  PROVE  Decision(w)' = Decision(w) /\ Scope(w)' = Scope(w) /\ On(w)' = On(w)
BY DEF SameWork, Decision, Scope, On

\* A watcher at a face was there before, or has just reserved it.
LEMMA ComesToFace ==
  ASSUME TypeInv, LeaseInv, RecoveryApart, ~Stalls, ~WorkerMode, [Next]_vars, NEW w \in Watchers,
         watcher'[w].pc \in Facing
  PROVE  /\ SameWork(watcher'[w], watcher[w])
         /\ \/ watcher[w].pc \in Facing
               /\ (watcher'[w].pc \in {"reserved", "persisted"} =>
                     watcher[w].pc \in {"reserved", "persisted"})
            \/ Reserve(w) /\ watcher'[w].pc = "reserved"
<1>1. CASE watcher'[w] = watcher[w]
  BY <1>1 DEF SameWork
<1>2. CASE WorkStep(w)
  BY <1>2 DEF WorkStep, Facing, Calling, Holding, AtFaces, BeforeFaces
<1> QED BY <1>1, <1>2, WorksAre

\* Steps with which a watcher leaves a face.
LeavesFace(w) == PersistFails(w) \/ BeginFails(w) \/ Doubt(w) \/ DoubtFails(w) \/ Commit(w)
                 \/ Crash(w)

\* They lead away from it.
LEMMA LeavesIt ==
  ASSUME TypeInv, NEW w \in Watchers, LeavesFace(w)
  PROVE  watcher'[w].pc \notin Facing
<1> DEFINE r == watcher[w]
<1>0. /\ {"failing", "disposing"} \subseteq Stages /\ "uncertain" \in Verdicts
      /\ "failing" \notin Facing /\ "disposing" \notin Facing /\ "scoring" \notin Facing
      /\ Down.pc \notin Facing
  BY DEF Stages, Verdicts, Facing, Calling, Down, Resting
<1>1. ASSUME NEW q, Goes(w, q), q.pc \notin Facing PROVE watcher'[w].pc \notin Facing
  BY <1>1 DEF Goes, TypeInv, WatchersOK
<1>2. LET q == [r EXCEPT !.pc = "failing"] IN q.pc = "failing"
  BY <1>0, Stays
<1>3. LET q == [r EXCEPT !.pc = "disposing", !.verdict = "uncertain"] IN q.pc = "disposing"
  BY <1>0, Stays
<1>4. LET q == [NextFace(w) EXCEPT !.made = TRUE] IN q.pc = "scoring"
  BY Stays
<1>5. CASE PersistFails(w) \/ BeginFails(w)
  BY <1>0, <1>1, <1>2, <1>5 DEF PersistFails, BeginFails, Failing
<1>6. CASE Doubt(w) \/ DoubtFails(w)
  BY <1>0, <1>1, <1>2, <1>3, <1>6 DEF Doubt, DoubtFails, Failing, Disposing
<1>7. CASE Commit(w)
  BY <1>0, <1>1, <1>4, <1>7 DEF Commit
<1>8. CASE Crash(w)
  BY <1>0, <1>1, <1>8 DEF Crash
<1> QED BY <1>5, <1>6, <1>7, <1>8 DEF LeavesFace

\* With any other step it stays.
LEMMA StaysAtFace ==
  ASSUME TypeInv, LeaseInv, RecoveryApart, ~Stalls, ~WorkerMode, [Next]_vars, NEW w \in Watchers,
         watcher[w].pc \in Facing, ~LeavesFace(w)
  PROVE  watcher'[w].pc \in Facing /\ SameWork(watcher'[w], watcher[w])
<1> DEFINE r == watcher[w]
<1>0. {"persisted", "submitting", "answered", "raised", "delivered", "doubting", "conceding"}
      \subseteq Stages \cap Facing
  BY DEF Stages, Facing, Calling
<1>1. CASE watcher'[w] = watcher[w]
  BY <1>1 DEF SameWork
<1>2. ASSUME NEW pc \in Stages \cap Facing, Goes(w, [r EXCEPT !.pc = pc])
      PROVE  watcher'[w].pc \in Facing
  BY <1>2, Stays DEF Goes, TypeInv, WatchersOK
<1>3. CASE Submitted(w)
  <2>1. \E pc \in {"persisted", "submitting", "answered", "raised", "delivered", "doubting", "conceding"} :
          Goes(w, [r EXCEPT !.pc = pc])
    BY <1>3 DEF Submitted, LeavesFace, Persist, Begin, Call, Raised, MarkDelivered,
                MarkDeliveredFails, CommitFails
  <2> QED BY <1>0, <1>2, <2>1, ComesToFace
<1>4. CASE Steps(w)
  <2>1. Submitted(w)
    BY <1>4 DEF Steps, Ledgered, Judged, Closed, Started, Acquire, AcquireAmbiguous,
                AcquireRefused, TurnAway, Renew, RenewRefused, Advance, Fails, Breaks, BreaksOff,
                Reject, Unaccepted, Reserve, DecisionTaken, Suppress, Release, ReleaseFails,
                AllScored, Dispose, Finalize, FinalizeFails, Restart, Recover, At, Facing, Calling
  <2> QED BY <1>3, <2>1
<1>5. ASSUME NEW v \in Watchers, Steps(v) \/ Crash(v), v # w PROVE watcher'[w] = watcher[w]
  BY <1>5, LedgeredSteps, JudgedSteps, SubmittedSteps, ClosedSteps, StartedSteps DEF Steps, Alone
<1>6. ASSUME NEW v \in Watchers, NEW c \in Captures,
             Recovered(v, c) \/ \E file \in Uploads : Polled(v, c, file)
      PROVE  watcher'[w] = watcher[w]
  <2>1. CASE UNCHANGED watcher
    BY <2>1
  <2>2. ASSUME NEW file \in Uploads, Receive(v, c, file) PROVE watcher'[w] = watcher[w]
    <3>1. watcher[v].pc = "idle" /\ v # w
      BY <2>2 DEF Receive, At, Facing, Calling
    <3> QED BY <2>2, <3>1 DEF Receive, Goes, TypeInv, WatchersOK
  <2> QED BY <1>6, <2>1, <2>2 DEF Recovered, Polled, RetryReady, RetryMissing, RetainDoubtful,
                                  RecordRetention, Replay, processes
<1>7. ASSUME NEW o \in Operators,
             \/ Commands(o) \/ OperatorDies(o)
             \/ \E c \in Captures : Stage(o, c) \/ Dismiss(o, c)
      PROVE  watcher'[w] = watcher[w]
  BY <1>7, OperatorSteps
<1>8. ASSUME \/ \E c \in Captures : Upload(c)
             \/ \E d \in Decisions : DeliverQueued(d)
             \/ Prune \/ Tick \/ UNCHANGED vars
      PROVE  watcher'[w] = watcher[w]
  BY <1>8, OtherSteps
<1>9. ~Crash(w)
  BY DEF LeavesFace
<1>10. \/ watcher'[w] = watcher[w]
       \/ Steps(w)
  BY <1>5, <1>6, <1>7, <1>8, <1>9 DEF Next
<1> QED BY <1>1, <1>4, <1>10

\* Its reservation is not pending after it, but for a crash and a failing write.
LEMMA LeavesNoReservation ==
  ASSUME TypeInv, NEW w \in Watchers, LeavesFace(w), ~Crash(w), ~DoubtFails(w), NEW s \in Scopes,
         policy[s].state = "pending", policy[s].decision = Decision(w)
  PROVE  policy'[s].state # "pending"
<1> DEFINE p == policy[s]
<1>1. CASE PersistFails(w) \/ BeginFails(w)
  <2>1. policy'[s] = Policy!Released(p)
    BY <1>1 DEF PersistFails, BeginFails, OfDecision
  <2> QED BY <2>1, ReservationIs DEF TypeInv, Frees
<1>2. CASE Doubt(w)
  <2>1. policy'[s] = Policy!MarkedUncertain(p)
    BY <1>2 DEF Doubt, OfDecision
  <2> QED BY <2>1, ReservationIs DEF TypeInv
<1>3. CASE Commit(w)
  <2>1. policy'[s] = Policy!Committed(p)
    BY <1>3 DEF Commit, OfDecision
  <2> QED BY <2>1, ReservationIs DEF TypeInv
<1> QED BY <1>1, <1>2, <1>3 DEF LeavesFace

-----------------------------------------------------------------------------
(***************************************************************************)
(* What holds of the reservations.                                         *)
(***************************************************************************)

\* A decision has an event, an attempt and a time, and a row holds decisions.
LEMMA DecisionsOf ==
  /\ NoDecision \notin Decisions
  /\ \A d \in Decisions :
       d.event \in Captures /\ d.attempt \in Nat /\ d.attempt >= 1 /\ Time(d) \in Nat
  /\ Cooldown \in Nat
  /\ \A p \in Policy!PolicyRow :
       /\ p.decision # NoDecision => p.decision \in Decisions
       /\ p.committed # NoDecision => p.committed \in Decisions
       /\ p.state \in {"none", "pending", "uncertain"} /\ p.window \in Nat
<1>1. \A d \in Decisions : d.attempt \in Nat /\ d.attempt >= 1
  BY ProcessingAssumption DEF Decisions
<1> QED BY <1>1, DecisionsApart, ProcessingAssumption
        DEF Time, Policy!PolicyRow, Policy!Holders, Policy!ReservationStates

\* A scope that is not cooling down is free for a capture after the cooldown.
LEMMA CooledDown ==
  ASSUME NEW p \in Policy!PolicyRow, NEW d \in Decisions, p.committed # NoDecision,
         ~Policy!CoolingDown(p, d)
  PROVE  Time(d) > Time(p.committed) /\ Time(d) >= Time(p.committed) + Cooldown
<1> DEFINE c == p.committed
<1>1. c \in Decisions /\ Time(c) \in Nat /\ Time(d) \in Nat /\ Cooldown \in Nat
  BY DecisionsOf
<1>2. ~(Time(d) <= Time(c)) /\ ~(Time(d) < Time(c) + Cooldown)
  BY <1>1 DEF Policy!CoolingDown, Time
<1> HIDE DEF c
<1>3. Time(d) > Time(c) /\ Time(d) >= Time(c) + Cooldown
  BY <1>1, <1>2
<1> QED BY <1>3 DEF c

\* A watcher reserves a face that has no reservation yet, and that no submission
\* made in an earlier pass could have left open.
LEMMA ReservesAnew ==
  ASSUME TypeInv, LeaseInv, ReservationsOwned, PendingHeld, SubmissionGuardsScope,
         NEW w \in Watchers, Reserve(w)
  PROVE  /\ On(w) \in Captures /\ Decision(w) \in Decisions /\ Decision(w).event = On(w)
         /\ Decision(w).attempt = watcher[w].attempt
         /\ Scope(w) \in Scopes /\ ScopeOf(Decision(w)) = Scope(w)
         /\ Held(w) /\ policy[Scope(w)].decision # Decision(w)
         /\ MayReserve(policy[Scope(w)], Decision(w))
         /\ Decision(w) \notin sent
<1> DEFINE d == Decision(w)
           s == Scope(w)
           p == policy[s]
<1>1. watcher[w].pc = "scoring" /\ watcher[w].pc \in Holding /\ watcher[w].pc \notin Facing
  BY DEF Reserve, At, Holding, Facing, Calling
<1>2. On(w) \in Captures /\ d \in Decisions /\ s \in Scopes
  BY <1>1, AtFace DEF Reserve
<1>3. d.event = On(w) /\ d.attempt = watcher[w].attempt /\ ScopeOf(d) = s
  BY DEF Decision, ScopeOf, Scope
<1>4. Held(w) /\ p \in Policy!PolicyRow /\ p.state # "uncertain"
  BY <1>1, <1>2 DEF LeaseInv, TypeInv, Reserve
<1> HIDE DEF d, s
<1>5. p.decision # d
  <2> SUFFICES ASSUME p.decision = d PROVE FALSE
    OBVIOUS
  <2>1. p.state = "pending"
    BY <1>2, <1>4, DecisionsOf DEF ReservationsOwned
  <2> QED BY <1>1, <1>2, <1>3, <1>4, <2>1 DEF PendingHeld, Held
<1>6. MayReserve(p, d)
  BY <1>5 DEF Reserve, d, s
<1>7. d \notin sent
  <2> SUFFICES ASSUME d \in sent PROVE FALSE
    OBVIOUS
  <2>1. p.committed # NoDecision /\ Time(p.committed) >= Time(d)
    BY <1>3, <1>5 DEF SubmissionGuardsScope, Guarded, Time
  <2>2. Time(d) > Time(p.committed)
    BY <1>2, <1>4, <1>6, <2>1, CooledDown DEF MayReserve
  <2>3. Time(d) \in Nat /\ Time(p.committed) \in Nat
    BY <1>2, <1>4, <2>1, DecisionsOf
  <2> QED BY <2>1, <2>2, <2>3
<1> QED BY <1>1, <1>2, <1>3, <1>4, <1>5, <1>6, <1>7 DEF d, s

\* A reservation stays in order.
LEMMA OwnedStep ==
  ASSUME TypeInv, LeaseInv, ReservationsOwned, PendingHeld, SubmissionGuardsScope,
         \A s \in Scopes : ScopeStep(s)
  PROVE  ReservationsOwned'
<1> SUFFICES ASSUME NEW s \in Scopes
             PROVE  LET p == policy'[s]
                        d == p.decision IN
                    /\ p.state # "none" <=> d # NoDecision
                    /\ d # NoDecision => ScopeOf(d) = s
                    /\ d # NoDecision /\ p.committed # NoDecision =>
                         Time(d) > Time(p.committed) /\ Time(d) >= Time(p.committed) + Cooldown
  BY DEF ReservationsOwned, ScopeOf, Time
<1> DEFINE p == policy[s]
           q == policy'[s]
<1>1. p \in Policy!PolicyRow
  BY DEF TypeInv
<1>2. ASSUME NEW w \in Watchers, Reserve(w), s = Scope(w), MayReserve(p, Decision(w)),
             q.state = "pending", q.decision = Decision(w), q.committed = p.committed
      PROVE  /\ q.state # "none" /\ q.decision # NoDecision /\ ScopeOf(q.decision) = s
             /\ q.committed # NoDecision =>
                  /\ Time(q.decision) > Time(q.committed)
                  /\ Time(q.decision) >= Time(q.committed) + Cooldown
  <2>1. Decision(w) \in Decisions /\ ScopeOf(Decision(w)) = s
    BY <1>2, ReservesAnew
  <2> QED BY <1>1, <1>2, <2>1, CooledDown, DecisionsOf DEF MayReserve
<1>3. CASE q.decision = p.decision /\ q.committed = p.committed
           /\ (q.state = p.state \/ (p.state # "none" /\ q.state = "uncertain"))
  BY <1>3 DEF ReservationsOwned
<1>4. CASE q.state = "none" /\ q.decision = NoDecision
  BY <1>4
<1> QED BY <1>2, <1>3, <1>4 DEF ScopeStep, Keeps, Frees

\* The ledger goes on to know the event.
LEMMA HoldersStep ==
  ASSUME TypeInv, TypeInv', LeaseInv, LedgerInv, ReservationsOwned, PendingHeld, HoldersKnown,
         SubmissionGuardsScope, [Next]_vars,
         \A s \in Scopes : ScopeStep(s), \A c \in Captures : RowStep(c)
  PROVE  HoldersKnown'
<1> SUFFICES ASSUME NEW s \in Scopes, policy'[s].decision # NoDecision
             PROVE  LET d == policy'[s].decision IN
                    /\ d.event \in tombstone'
                    /\ event'[d.event].state # "absent" => event'[d.event].attempt >= d.attempt
  BY DEF HoldersKnown
<1> DEFINE d == policy'[s].decision
<1>1. d \in Decisions /\ d.event \in Captures /\ d.attempt \in Nat
  BY DecisionsOf DEF TypeInv
<1>2. /\ d.event \in tombstone
      /\ event[d.event].state # "absent" => event[d.event].attempt >= d.attempt
  <2>1. CASE d = policy[s].decision
    BY <2>1 DEF HoldersKnown
  <2>2. ASSUME NEW w \in Watchers, Reserve(w), d = Decision(w)
        PROVE  /\ d.event \in tombstone
               /\ event[d.event].state # "absent" => event[d.event].attempt >= d.attempt
    <3>1. /\ d.event = On(w) /\ On(w) \in Captures /\ Held(w) /\ d.attempt = watcher[w].attempt
      BY <2>2, ReservesAnew
    <3> HIDE DEF d
    <3>2. event[d.event].state # "absent" /\ event[d.event].attempt = d.attempt
      BY <3>1 DEF Held, Open
    <3> QED BY <1>1, <3>1, <3>2 DEF LedgerInv
  <2> QED BY <2>1, <2>2 DEF ScopeStep, Keeps, Frees
<1> HIDE DEF d
<1>3. d.event \in tombstone'
  BY <1>2, TombstonesStay
<1>4. event[d.event].attempt \in Nat /\ event'[d.event].attempt \in Nat
  BY <1>1 DEF TypeInv, RowsOK, Row
<1>5. event'[d.event].state # "absent" => event'[d.event].attempt >= d.attempt
  <2>1. RowBecomes(d.event, event[d.event], event'[d.event])
    BY <1>1 DEF RowStep
  <2>2. ASSUME NEW w \in Watchers, event[d.event].owner = w PROVE event[d.event].state # "absent"
    BY <1>1, <2>2, OwnersApart DEF TypeInv, RowsOK, RowOK
  <2> QED BY <1>1, <1>2, <1>4, <2>1, <2>2 DEF RowBecomes, Open, Terminal
<1> QED BY <1>3, <1>5 DEF d

\* While a watcher is at a face, its reservation stays.
LEMMA FacesStep ==
  ASSUME TypeInv, LeaseInv, RecoveryApart, ~Stalls, ~WorkerMode, [Next]_vars,
         ReservationsOwned, PendingHeld, SubmissionGuardsScope, FacesReserved,
         \A s \in Scopes : ScopeStep(s)
  PROVE  FacesReserved'
<1> SUFFICES ASSUME NEW w \in Watchers, watcher'[w].pc \in Facing
             PROVE  LET q == policy'[Scope(w)'] IN
                    q.state = "pending" /\ q.decision = Decision(w)' /\ q.window > 0
  BY DEF FacesReserved
<1> DEFINE s == Scope(w)
           d == Decision(w)
           p == policy[s]
           q == policy'[s]
<1>1. Scope(w)' = s /\ Decision(w)' = d
  BY ComesToFace, SameWorkIs
<1>2. CASE Reserve(w)
  <2>1. s \in Scopes /\ d \in Decisions /\ p.decision # d
    BY <1>2, ReservesAnew
  <2>2. q = Policy!Reserved(p, d, WindowTicks)
    BY <1>2, <2>1 DEF Reserve, TypeInv
  <2> QED BY <1>1, <2>1, <2>2, ReservationIs DEF TypeInv
<1>3. CASE watcher[w].pc \in Facing
  <2>1. /\ p.state = "pending" /\ p.decision = d /\ p.window > 0
        /\ s \in Scopes /\ d \in Decisions /\ d.event = On(w)
    BY <1>3, AtFace, BegunIs DEF FacesReserved
  <2>2. watcher[w].pc \in Holding /\ ~Unworked(d.event)
    BY <1>3, <2>1 DEF Holding, Unworked
  <2>3. ASSUME NEW v \in Watchers, watcher[v].pc \in Facing, Decision(v) = d PROVE v = w
    BY <1>3, <2>3, DecisionsDiffer
  <2>4. ~LeavesFace(w)
    BY LeavesIt
  <2>5. ASSUME NEW v \in Watchers, Reserve(v), MayReserve(p, Decision(v)) PROVE FALSE
    BY <2>1, <2>5 DEF MayReserve, Policy!Reservable, Policy!Expired
  <2>6. ASSUME NEW v \in Watchers, BreaksOff(v) \/ Release(v), On(v) = d.event PROVE FALSE
    <3>1. watcher[v].pc \in {"breaking", "failing"}
      BY <2>6 DEF BreaksOff, Release, ReleaseFails, At
    <3>2. v = w
      BY <2>1, <2>2, <2>6, <3>1, OneHolder DEF Holding
    <3> QED BY <1>3, <3>1, <3>2 DEF Facing, Calling
  <2>7. ASSUME NEW v \in Watchers, PersistFails(v) \/ BeginFails(v) \/ Doubt(v) \/ Commit(v),
               Decision(v) = d
        PROVE  FALSE
    <3>1. watcher[v].pc \in Facing
      BY <2>7 DEF PersistFails, BeginFails, Doubt, DoubtFails, Commit, At, Facing, Calling
    <3> QED BY <2>3, <2>4, <2>7, <3>1 DEF LeavesFace
  <2>8. ~Policy!Expired(p)
    BY <2>1 DEF Policy!Expired
  <2>9. Keeps(q, p) /\ q.window > 0
    BY <2>1, <2>2, <2>5, <2>6, <2>7, <2>8 DEF ScopeStep
  <2> QED BY <1>1, <2>1, <2>9 DEF Keeps
<1> QED BY <1>2, <1>3, ComesToFace

\* The lease of a process that died is nobody's.
LEMMA DeadHoldNone ==
  ASSUME TypeInv, NEW w \in Watchers, Crash(w), NEW c \in Captures
  PROVE  event'[c].owner # w
<1> DEFINE r == event[c]
           owner == IF r.owner = w THEN Dead ELSE r.owner
           action == IF r.action = w THEN Dead ELSE r.action
<1>1. r \in Row /\ event'[c] = [r EXCEPT !.owner = owner, !.action = action]
  BY DEF TypeInv, RowsOK, Crash, Orphans
<1>2. owner # w
  BY OwnersApart
<1> HIDE DEF owner, action, r
<1>3. event'[c].owner = owner
  BY <1>1 DEF Row
<1> QED BY <1>2, <1>3

\* A watcher that is given a lease is given none of an event with a pending
\* reservation.
LEMMA TakesNone ==
  ASSUME TypeInv, HoldersKnown, NEW v \in Watchers, Acquire(v),
         NEW s \in Scopes, policy'[s].state = "pending", policy[s].state = "pending",
         policy[s].decision \in Decisions, NEW w \in Watchers,
         LET c == policy[s].decision.event IN event'[c].owner = w
  PROVE  event[policy[s].decision.event].owner = w
<1> DEFINE d == policy[s].decision
           c == On(v)
           r == event[c]
<1>1. c \in Captures /\ r \in Row /\ v \in Owners /\ d.event \in Captures
  BY WatcherGoesOn, OwnersApart, DecisionsOf DEF Acquire, At, TypeInv, WatchersOK, RowsOK, On
<1>2. CASE d.event # c
  BY <1>1, <1>2 DEF Acquire, TypeInv, RowsOK
<1>3. CASE d.event = c /\ Finds(r, v) = "owned"
  <2>1. event'[c] = Renewed(r)
    BY <1>1, <1>3 DEF Acquire, TypeInv, RowsOK
  <2> QED BY <1>1, <1>3, <2>1, RowMoved DEF IsRow
<1>4. CASE d.event = c /\ Finds(r, v) = "free"
  <2>1. Recovering(r)
    <3>1. r.state \in Open
      BY <1>1, <1>4, Found
    <3>2. r.attempt >= d.attempt /\ d.attempt >= 1 /\ d.attempt \in Nat /\ r.attempt \in Nat
      BY <1>1, <1>4, <3>1, DecisionsOf DEF HoldersKnown, Open, Row
    <3> QED BY <3>2 DEF Recovering
  <2>2. policy'[s] = Policy!GivenUp(policy[s])
    BY <1>4, <2>1 DEF Acquire, OfEvent
  <2> QED BY <2>2, ReservationIs DEF TypeInv, Frees
<1> QED BY <1>2, <1>3, <1>4 DEF Acquire

\* A step with which such a write fails counts its fault.
LEMMA DoubtsAreWritten ==
  ASSUME TypeInv, [DoubtsWritten]_vars, NEW w \in Watchers
  PROVE  ~DoubtFails(w)
<1>1. faults \in Nat
  BY ProcessingAssumption DEF TypeInv, BoundsOK
<1>2. CASE UNCHANGED vars
  BY <1>1, <1>2 DEF vars, DoubtFails, Fault
<1> QED BY <1>2 DEF DoubtsWritten

\* A pending reservation stays with the face of the watcher that has the lease.
LEMMA PendingStep ==
  ASSUME TypeInv, TypeInv', LeaseInv, RecoveryApart, ~Stalls, ~WorkerMode, [Next]_vars,
         [DoubtsWritten]_vars, ReservationsOwned, HoldersKnown, PendingHeld, SubmissionGuardsScope,
         \A s \in Scopes : ScopeStep(s)
  PROVE  PendingHeld'
<1> SUFFICES ASSUME NEW s \in Scopes, NEW w \in Watchers, policy'[s].state = "pending",
                    LET c == policy'[s].decision.event IN event'[c].owner = w
             PROVE  watcher'[w].pc \in Facing /\ policy'[s].decision = Decision(w)'
  BY DEF PendingHeld
<1> DEFINE p == policy[s]
           q == policy'[s]
<1>1. CASE Keeps(q, p)
  <2> DEFINE d == p.decision
             c == d.event
  <2>1. p.state = "pending" /\ q.decision = d /\ d \in Decisions /\ c \in Captures
    BY <1>1, DecisionsOf DEF Keeps, ReservationsOwned, TypeInv
  <2>2. event'[c].owner = w
    BY <2>1
  <2>3. event[c].owner = w
    <3>1. CASE NoneTaken
      BY <2>1, <2>2, <3>1 DEF NoneTaken
    <3>2. ASSUME NEW v \in Watchers, Acquire(v) PROVE event[c].owner = w
      BY <2>1, <2>2, <3>2, TakesNone
    <3> QED BY <3>1, <3>2, WhoTakes
  <2>4. watcher[w].pc \in Facing /\ d = Decision(w)
    BY <2>1, <2>3 DEF PendingHeld
  <2>5. ~Crash(w)
    BY <2>1, <2>2, DeadHoldNone
  <2>6. ~LeavesFace(w)
    BY <2>1, <2>4, <2>5, LeavesNoReservation, DoubtsAreWritten
  <2> QED BY <2>1, <2>4, <2>6, StaysAtFace, SameWorkIs
<1>2. ASSUME NEW v \in Watchers, Reserve(v), q.decision = Decision(v)
      PROVE  watcher'[w].pc \in Facing /\ q.decision = Decision(w)'
  <2>1. Decision(v).event = On(v) /\ Held(v) /\ event' = event
    BY <1>2, ReservesAnew DEF Reserve, ledger
  <2>2. v = w
    BY <1>2, <2>1 DEF Held
  <2> DEFINE x == [watcher[v] EXCEPT !.pc = "reserved"]
  <2>3. watcher'[v] = x
    BY <1>2 DEF Reserve, Goes, TypeInv, WatchersOK
  <2>4. x.pc = "reserved" /\ SameWork(x, watcher[v])
    <3>1. "reserved" \in Stages
      BY DEF Stages
    <3> QED BY <3>1, WorkOf
  <2> HIDE DEF x
  <2> QED BY <1>2, <2>2, <2>3, <2>4, SameWorkIs DEF Facing
<1> QED BY <1>1, <1>2 DEF ScopeStep, Frees

\* Nobody else submits the face that a watcher is at.
LEMMA UnsentStep ==
  ASSUME TypeInv, LeaseInv, RecoveryApart, ~Stalls, ~WorkerMode, [Next]_vars,
         ReservationsOwned, PendingHeld, SubmissionGuardsScope, Unsent
  PROVE  Unsent'
<1> SUFFICES ASSUME NEW w \in Watchers, watcher'[w].pc \in {"reserved", "persisted"}
             PROVE  Decision(w)' \notin sent'
  BY DEF Unsent
<1>1. watcher'[w].pc \in Facing
  BY DEF Facing
<1>2. Decision(w)' = Decision(w)
  BY <1>1, ComesToFace, SameWorkIs
<1>3. Decision(w) \notin sent
  BY <1>1, ComesToFace, ReservesAnew DEF Unsent
<1>4. ASSUME NEW v \in Watchers, Call(v), Decision(v) = Decision(w) PROVE FALSE
  <2>1. watcher[v].pc = "submitting" /\ ~Reserve(w)
    <3>1. watcher[v].pc = "submitting" /\ \E x : Goes(v, x)
      BY <1>4 DEF Call, At
    <3>2. ASSUME watcher[w].pc = "scoring" PROVE FALSE
      BY <3>1, <3>2 DEF Goes, TypeInv, WatchersOK
    <3> QED BY <3>1, <3>2 DEF Reserve, At
  <2>2. watcher[w].pc \in {"reserved", "persisted"} /\ watcher[w].pc \in Facing
    BY <1>1, <2>1, ComesToFace DEF Facing
  <2>3. watcher[v].pc \in Facing
    BY <2>1 DEF Facing, Calling
  <2> QED BY <1>4, <2>1, <2>2, <2>3, DecisionsDiffer
<1> QED BY <1>2, <1>3, <1>4, NewSubmission

\* Only recovery puts a retry ahead.
LEMMA OnlyRecoveryRetries ==
  ASSUME TypeInv, LeaseInv, RecoveryApart, ~Stalls, [Next]_vars,
         NEW w \in Watchers, NEW c \in Captures, todo[w][c] # "retry", todo'[w][c] = "retry"
  PROVE  Recover(w)
<1> USE DEF processes, vars
<1>1. ASSUME NEW v \in Watchers, Steps(v) \/ Crash(v), v # w PROVE FALSE
  BY <1>1, LedgeredSteps, JudgedSteps, SubmittedSteps, ClosedSteps, StartedSteps DEF Steps, Alone
<1>2. CASE Ledgered(w)
  BY <1>2 DEF Ledgered, Acquire, AcquireAmbiguous, AcquireRefused, TurnAway, Renew,
              RenewRefused, Advance, Fails, Breaks, BreaksOff
<1>3. CASE Judged(w) \/ Submitted(w)
  BY <1>3 DEF Judged, Submitted, Reject, Unaccepted, DecisionTaken, Reserve, Suppress, Persist,
              PersistFails, Begin, BeginFails, Call, Raised, Doubt, DoubtFails, MarkDelivered,
              MarkDeliveredFails, Commit, CommitFails
<1>4. CASE Closed(w) \/ Restart(w)
  BY <1>4 DEF Closed, Release, ReleaseFails, AllScored, Dispose, Finalize, FinalizeFails, Restart
<1>5. CASE Crash(w)
  BY <1>5 DEF Crash, TypeInv, NothingToDo
<1>6. ASSUME NEW v \in Watchers, NEW e \in Captures,
             Recovered(v, e) \/ \E file \in Uploads : Polled(v, e, file)
      PROVE  FALSE
  <2>1. todo' = todo \/ \E x \in {"none", "retained"} : todo' = [todo EXCEPT ![v][e] = x]
    BY <1>6 DEF Recovered, Polled, RetryReady, RetryMissing, RetainDoubtful, RecordRetention,
                Receive, Replay, Done
  <2> QED BY <2>1 DEF TypeInv
<1>7. ASSUME NEW o \in Operators,
             \/ Commands(o) \/ OperatorDies(o)
             \/ \E e \in Captures : Stage(o, e) \/ Dismiss(o, e)
      PROVE  FALSE
  BY <1>7, OperatorSteps
<1>8. ASSUME \/ \E e \in Captures : Upload(e)
             \/ \E d \in Decisions : DeliverQueued(d)
             \/ Prune \/ Tick \/ UNCHANGED vars
      PROVE  FALSE
  BY <1>8, OtherSteps
<1> QED BY <1>1, <1>2, <1>3, <1>4, <1>5, <1>6, <1>7, <1>8 DEF Next, Steps, Started

\* What is submitted has no retry of its recovery ahead.
LEMMA RetriesStep ==
  ASSUME TypeInv, LeaseInv, SentInv, RecoveryApart, ~Stalls, ~WorkerMode, [Next]_vars,
         RetriesUnsent
  PROVE  RetriesUnsent'
<1> SUFFICES ASSUME NEW w \in Watchers, NEW c \in Captures, todo'[w][c] = "retry",
                    NEW d \in sent', d.event = c
             PROVE  FALSE
  BY DEF RetriesUnsent
<1>1. CASE todo[w][c] = "retry"
  <2>1. PICK v \in Watchers : Call(v) /\ d = Decision(v)
    BY <1>1, NewSubmission DEF RetriesUnsent
  <2>2. watcher[v].pc \in Holding /\ On(v) = c
    BY <2>1 DEF Call, At, Holding, Facing, Calling, Decision
  <2>3. v = w => todo[w] = NothingToDo
    BY <2>2 DEF LeaseInv
  <2> QED BY <1>1, <2>2, <2>3 DEF RecoveryApart, NothingToDo
<1>2. CASE todo[w][c] # "retry"
  <2>1. Recover(w)
    BY <1>2, OnlyRecoveryRetries
  <2>2. ToRetry(c) /\ sent' = sent
    BY <1>2, <2>1 DEF Recover, TypeInv
  <2> QED BY <2>2, NotSubmitted DEF ToRetry, Abandoned, CrossedBoundary, Past, Open
<1> QED BY <1>1, <1>2

\* The job of a submission goes on from where it is.
LEMMA SentJobsStep ==
  ASSUME PromiseInv, ~WorkerMode, [Next]_vars, SentJobs
  PROVE  SentJobs'
<1> SUFFICES ASSUME NEW d \in sent'
             PROVE  ScopeOf(d) \in Scopes /\ job'[d] \in {"leased", "delivered", "uncertain"}
  BY DEF SentJobs, ScopeOf
<1>1. CASE d \in sent
  <2>1. d \in Decisions
    BY <1>1 DEF PromiseInv, OnceInv, TypeInv, DeliveriesOK
  <2>2. JobStep(d)
    BY <2>1, JobSteps DEF PromiseInv, OnceInv
  <2> QED BY <1>1, <2>2 DEF SentJobs, JobStep
<1>2. CASE d \notin sent
  <2>1. PICK v \in Watchers : Call(v) /\ d = Decision(v)
    BY <1>2, NewSubmission
  <2>2. watcher[v].pc = "submitting" /\ watcher[v].pc \in Facing /\ job' = job
    BY <2>1 DEF Call, At, Facing, Calling
  <2>3. job[d] = "leased"
    BY <2>1, <2>2 DEF PromiseInv, CallInv
  <2>4. ScopeOf(d) = Scope(v) /\ Scope(v) \in Scopes
    BY <2>1, <2>2, AtFace DEF PromiseInv, OnceInv, ScopeOf, Scope, Decision
  <2> QED BY <2>2, <2>3, <2>4
<1> QED BY <1>1, <1>2

\* A scope that a submission guards stays guarded.
LEMMA GuardsStep ==
  ASSUME PromiseInv, ~WorkerMode, [Next]_vars,
         ReservationsOwned, FacesReserved, PendingHeld, Unsent, SentJobs, SubmissionGuardsScope,
         \A s \in Scopes : ScopeStep(s)
  PROVE  SubmissionGuardsScope'
<1>0. TypeInv /\ LeaseInv
  BY DEF PromiseInv, OnceInv
<1> SUFFICES ASSUME NEW d \in sent' PROVE Guarded(d)'
  BY DEF SubmissionGuardsScope
<1>1. CASE d \notin sent
  <2>1. PICK v \in Watchers : Call(v) /\ d = Decision(v)
    BY <1>1, NewSubmission
  <2>2. policy[Scope(v)].decision = d /\ policy' = policy
    BY <2>1 DEF FacesReserved, Call, At, Facing, Calling
  <2>3. ScopeOf(d) = Scope(v)
    BY <2>1 DEF ScopeOf, Scope, Decision
  <2> QED BY <2>2, <2>3 DEF Guarded
<1>2. CASE d \in sent
  <2> DEFINE s == ScopeOf(d)
             p == policy[s]
             q == policy'[s]
  <2>1. d \in Decisions /\ d # NoDecision /\ s \in Scopes
    <3>1. d \in Decisions /\ d # NoDecision
      BY <1>0, <1>2, DecisionsOf DEF TypeInv, DeliveriesOK
    <3>2. s \in Scopes
      BY <1>2 DEF SentJobs
    <3> QED BY <3>1, <3>2
  <2>2. p \in Policy!PolicyRow
    BY <1>0, <2>1 DEF TypeInv
  <2>3. p.decision = d \/ (p.committed # NoDecision /\ Time(p.committed) >= Time(d))
    BY <1>2 DEF SubmissionGuardsScope, Guarded, Time
  <2>4. ScopeStep(s)
    BY <2>1
  <2>5. p.decision = d => p.state # "none"
    BY <2>1 DEF ReservationsOwned
  <2> HIDE DEF s
  <2>6. CASE q.decision = p.decision /\ q.committed = p.committed
    BY <2>3, <2>6 DEF Guarded, Time, s
  <2>7. CASE p.decision # d /\ q.committed = p.committed
    BY <2>3, <2>7 DEF Guarded, Time, s
  <2>8. ASSUME NEW v \in Watchers, MayReserve(p, Decision(v)), p.decision = d PROVE FALSE
    <3>1. HolderJob(p) = job[d] /\ job[d] \in {"leased", "delivered", "uncertain"}
      BY <1>2, <2>1, <2>8 DEF HolderJob, SentJobs
    <3>2. p.state = "none" \/ HolderJob(p) \in {"absent", "permanent_failure", "cancelled"}
      BY <2>8 DEF MayReserve, Policy!Reservable
    <3> QED BY <2>5, <2>8, <3>1, <3>2
  <2>9. ASSUME NEW v \in Watchers, p.state = "pending", p.decision = d,
               \/ (BreaksOff(v) \/ Release(v)) /\ On(v) = d.event
               \/ (PersistFails(v) \/ BeginFails(v)) /\ Decision(v) = d
        PROVE  FALSE
    <3>1. CASE (BreaksOff(v) \/ Release(v)) /\ On(v) = d.event
      <4>1. watcher[v].pc \in {"breaking", "failing"}
        BY <3>1 DEF BreaksOff, Release, ReleaseFails, At
      <4>2. event[d.event].owner = v
        BY <1>0, <3>1, <4>1 DEF LeaseInv, Held, Holding
      <4> QED BY <2>1, <2>9, <4>1, <4>2 DEF PendingHeld, Facing, Calling
    <3>2. CASE (PersistFails(v) \/ BeginFails(v)) /\ Decision(v) = d
      BY <1>2, <3>2 DEF Unsent, PersistFails, BeginFails, At
    <3> QED BY <2>9, <3>1, <3>2
  <2>10. CASE p.state = "pending" /\ q.committed = p.decision
    <3>1. p.decision # NoDecision
      BY <2>1, <2>10 DEF ReservationsOwned
    <3>2. Time(q.committed) >= Time(d)
      <4>1. CASE p.decision = d
        BY <2>1, <2>10, <4>1, DecisionsOf
      <4>2. CASE p.decision # d
        <5>1. p.committed # NoDecision /\ Time(p.committed) >= Time(d)
          BY <2>3, <4>2
        <5>2. Time(p.decision) > Time(p.committed)
          BY <2>1, <3>1, <5>1 DEF ReservationsOwned
        <5>3. Time(p.decision) \in Nat /\ Time(p.committed) \in Nat /\ Time(d) \in Nat
          BY <2>1, <2>2, <3>1, <5>1, DecisionsOf
        <5> QED BY <2>10, <5>1, <5>2, <5>3
      <4> QED BY <4>1, <4>2
    <3> QED BY <2>10, <3>1, <3>2 DEF Guarded, Time, s
  <2> QED BY <1>2, <2>4, <2>6, <2>7, <2>8, <2>9, <2>10 DEF ScopeStep, Keeps, Frees
<1> QED BY <1>1, <1>2

\* The capture that is submitted is after the cooldown of every check-in of its scope.
LEMMA CallCooled ==
  ASSUME TypeInv, NEW w \in Watchers, Call(w), ReservationsOwned, FacesReserved,
         SubmissionGuardsScope, NEW d \in docs, d # Decision(w), ScopeOf(d) = ScopeOf(Decision(w))
  PROVE  Time(Decision(w)) > Time(d) /\ Time(Decision(w)) >= Time(d) + Cooldown
<1> DEFINE e == Decision(w)
           s == Scope(w)
           p == policy[s]
           k == p.committed
<1>1. watcher[w].pc \in Facing
  BY DEF Call, At, Facing, Calling
<1>2. s \in Scopes /\ e \in Decisions /\ p \in Policy!PolicyRow
  BY <1>1, AtFace DEF TypeInv
<1>3. p.decision = e /\ ScopeOf(d) = s
  BY <1>1 DEF FacesReserved, ScopeOf, Scope, Decision
<1>4. d \in sent /\ d \in Decisions
  BY DEF TypeInv, DeliveriesOK
<1> HIDE DEF e, s
<1>5. k # NoDecision /\ Time(k) >= Time(d)
  BY <1>3, <1>4 DEF SubmissionGuardsScope, Guarded, Time, e
<1>6. Time(e) > Time(k) /\ Time(e) >= Time(k) + Cooldown
  BY <1>2, <1>3, <1>5, DecisionsOf DEF ReservationsOwned
<1>7. Time(e) \in Nat /\ Time(k) \in Nat /\ Time(d) \in Nat /\ Cooldown \in Nat
  BY <1>2, <1>4, <1>5, DecisionsOf
<1> HIDE DEF k
<1>8. Time(e) > Time(d) /\ Time(e) >= Time(d) + Cooldown
  BY <1>5, <1>6, <1>7
<1> QED BY <1>8 DEF e

\* So the check-ins of a scope stay apart.
LEMMA CooldownStep ==
  ASSUME TypeInv, ~WorkerMode, [Next]_vars, ReservationsOwned, FacesReserved,
         SubmissionGuardsScope, CooldownKept
  PROVE  CooldownKept'
<1>1. CASE docs' = docs
  BY <1>1 DEF CooldownKept, ScopeOf
<1>2. ASSUME NEW w \in Watchers, Call(w), docs' = docs \cup {Decision(w)} PROVE CooldownKept'
  <2> DEFINE e == Decision(w)
  <2>1. \A d \in docs : d # e /\ ScopeOf(d) = ScopeOf(e) =>
          Time(e) > Time(d) /\ Time(e) >= Time(d) + Cooldown
    BY <1>2, CallCooled
  <2>2. \A d \in docs \cup {e} : Time(d) \in Nat
    <3>1. watcher[w].pc \in Facing
      BY <1>2 DEF Call, At, Facing, Calling
    <3> QED BY <3>1, AtFace, DecisionsOf DEF TypeInv, DeliveriesOK
  <2> HIDE DEF e
  <2>3. \A d, f \in docs \cup {e} :
          d # f /\ ScopeOf(d) = ScopeOf(f) /\ Time(d) <= Time(f) => Time(f) >= Time(d) + Cooldown
    BY <2>1, <2>2 DEF CooldownKept, Time
  <2> QED BY <1>2, <2>3 DEF CooldownKept, ScopeOf, Time, e
<1>3. \A w \in Watchers : Call(w) => docs' = docs \/ docs' = docs \cup {Decision(w)}
  BY DEF Call
<1> QED BY <1>1, <1>2, <1>3, OnlyCallsSubmit

-----------------------------------------------------------------------------
(***************************************************************************)
(* The scopes of the submissions stay closed.                              *)
(***************************************************************************)

\* What every step keeps of the reservations.
GuardInv ==
  /\ ReservationsOwned /\ HoldersKnown /\ FacesReserved /\ PendingHeld
  /\ Unsent /\ RetriesUnsent /\ SentJobs
  /\ SubmissionGuardsScope /\ CooldownKept

\* Nothing is reserved at first.
LEMMA GuardInit == Init => GuardInv
<1> SUFFICES ASSUME Init PROVE GuardInv
  OBVIOUS
<1>1. \A s \in Scopes : policy[s].state = "none" /\ policy[s].decision = NoDecision
  BY DEF Init, Policy!FreshRow
<1>2. \A w \in Watchers : watcher[w].pc \notin Facing
  BY DEF Init, Resting, Facing, Calling
<1>3. \A w \in Watchers, c \in Captures : todo[w][c] # "retry"
  BY DEF Init, NothingToDo
<1>4. sent = {} /\ docs = {}
  BY DEF Init
<1>5. ReservationsOwned /\ HoldersKnown /\ PendingHeld
  BY <1>1 DEF ReservationsOwned, HoldersKnown, PendingHeld
<1>6. FacesReserved /\ Unsent
  BY <1>2, <1>4 DEF FacesReserved, Unsent
<1>7. RetriesUnsent /\ SentJobs /\ SubmissionGuardsScope /\ CooldownKept
  BY <1>3, <1>4 DEF RetriesUnsent, SentJobs, SubmissionGuardsScope, CooldownKept
<1> QED BY <1>5, <1>6, <1>7 DEF GuardInv

\* And every step keeps it, but the dismissal of a submission, and a reservation
\* of one that is not marked.
LEMMA GuardStep ==
  ASSUME ~Stalls, ~WorkerMode
  PROVE  PromiseInv /\ GuardInv /\ RecoveryApart /\ [Next]_vars
             /\ [DismissesNoSubmission]_vars /\ [DoubtsWritten]_vars
           => GuardInv'
<1> SUFFICES ASSUME PromiseInv, GuardInv, RecoveryApart, [Next]_vars,
                    [DismissesNoSubmission]_vars, [DoubtsWritten]_vars
             PROVE  GuardInv'
  OBVIOUS
<1>1. TypeInv /\ LeaseInv /\ LedgerInv /\ SentInv
  BY DEF PromiseInv, OnceInv
<1>2. /\ ReservationsOwned /\ HoldersKnown /\ FacesReserved /\ PendingHeld
      /\ Unsent /\ RetriesUnsent /\ SentJobs
      /\ SubmissionGuardsScope /\ CooldownKept
  BY DEF GuardInv
<1>3. TypeInv'
  BY PromiseStep DEF PromiseInv, OnceInv
<1>4. \A c \in Captures : RowStep(c)
  BY <1>1, StepsAre
<1>5. \A s \in Scopes : ScopeStep(s)
  BY <1>1, <1>2, ScopeSteps
<1>6. ReservationsOwned' /\ HoldersKnown'
  BY <1>1, <1>2, <1>3, <1>4, <1>5, OwnedStep, HoldersStep
<1>7. FacesReserved' /\ PendingHeld'
  BY <1>1, <1>2, <1>3, <1>5, FacesStep, PendingStep
<1>8. Unsent' /\ RetriesUnsent' /\ SentJobs'
  BY <1>1, <1>2, UnsentStep, RetriesStep, SentJobsStep
<1>9. SubmissionGuardsScope' /\ CooldownKept'
  BY <1>1, <1>2, <1>5, GuardsStep, CooldownStep
<1> QED BY <1>6, <1>7, <1>8, <1>9 DEF GuardInv

\* In the synchronous mode the scope of a submission stays closed: its reservation
\* is held or in doubt, or a check-in at least as late is committed
\* (processing_recovery.py reserve_attendance_policy, mark_attendance_policy_uncertain,
\* commit_attendance_policy_reservation), as long as no operator dismisses an event
\* of which ERPNext was asked something (event_operations.py dismiss_event gives the
\* reservation up), no write of mark_attendance_policy_uncertain fails
\* (watch_service.py:1258: the exception gives the reservation back; a failing one
\* at 1284 or 1303 leaves it pending for a later release), no process stops for
\* longer than its lease, and no startup recovery overlaps another watcher's work.
\* Every other write for a face may fail, and a watcher may die anywhere.
THEOREM SubmissionsGuard ==
  ASSUME ~Stalls, ~WorkerMode
  PROVE  Spec /\ []RecoveryApart /\ [][DismissesNoSubmission]_vars /\ [][DoubtsWritten]_vars
           => []SubmissionGuardsScope
<1> DEFINE Inv == PromiseInv /\ GuardInv
<1>1. Init => Inv
  BY PromiseInit, GuardInit
<1>2. Inv /\ RecoveryApart /\ [Next]_vars /\ [DismissesNoSubmission]_vars
          /\ [DoubtsWritten]_vars => Inv'
  BY PromiseStep, GuardStep
<1>3. Inv => SubmissionGuardsScope
  BY DEF GuardInv
<1> HIDE DEF Inv
<1> QED BY <1>1, <1>2, <1>3, PTL DEF Spec

\* So no two check-ins of a scope fall inside the cooldown: whatever is submitted
\* was reserved against the latest capture the scope has committed, and that is the
\* latest of the check-ins made before (processing_recovery.py
\* reserve_attendance_policy, commit_attendance_policy_reservation), under the same
\* conditions.
THEOREM CheckinsCoolDown ==
  ASSUME ~Stalls, ~WorkerMode
  PROVE  Spec /\ []RecoveryApart /\ [][DismissesNoSubmission]_vars /\ [][DoubtsWritten]_vars
           => []CooldownKept
<1> DEFINE Inv == PromiseInv /\ GuardInv
<1>1. Init => Inv
  BY PromiseInit, GuardInit
<1>2. Inv /\ RecoveryApart /\ [Next]_vars /\ [DismissesNoSubmission]_vars
          /\ [DoubtsWritten]_vars => Inv'
  BY PromiseStep, GuardStep
<1>3. Inv => CooldownKept
  BY DEF GuardInv
<1> HIDE DEF Inv
<1> QED BY <1>1, <1>2, <1>3, PTL DEF Spec

\* With one watcher process and no operator at work both hold whatever the process
\* dies of and is recovered from, as long as those writes do not fail.
THEOREM CooledDownByOne ==
  ASSUME ~Stalls, ~WorkerMode, \A v, w \in Watchers : v = w, Operators = {}
  PROVE  Spec /\ [][DoubtsWritten]_vars => []SubmissionGuardsScope /\ []CooldownKept
<1>1. RecoveryApart
  BY OneWatcherApart
<1>2. DismissesNoSubmission
  BY DEF DismissesNoSubmission
<1> QED BY <1>1, <1>2, SubmissionsGuard, CheckinsCoolDown, PTL

=============================================================================
