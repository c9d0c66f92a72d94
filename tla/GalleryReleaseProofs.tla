------------------------ MODULE GalleryReleaseProofs ------------------------
(***************************************************************************)
(* What holds of GalleryRelease for every number of processes, releases,   *)
(* ticks, retries and faults, and whatever the central server serves.      *)
(***************************************************************************)
EXTENDS GalleryRelease, TLAPS

-----------------------------------------------------------------------------
(***************************************************************************)
(* Types.                                                                  *)
(***************************************************************************)

\* There is a release to serve first, and nothing is installed yet.
LEMMA Members ==
  /\ NoRelease \in Installable /\ NoRelease \notin Releases
  /\ Releases \subseteq Installable
  /\ Idle \in Syncing /\ Down \in Watching
BY GalleryAssumption
   DEF NoRelease, Installable, Releases, Idle, Syncing, Down, Watching

\* What a process does next to the release it handles leaves it well formed.
LEMMA SyncerTypes ==
  ASSUME NEW p \in Syncing
  PROVE  /\ p.prior \in Installable /\ p.release \in Installable
         /\ p.attempt \in 0..Retries
BY DEF Syncing

\* Every step of a synchronization keeps the process and the files well formed.
LEMMA SyncWellTyped ==
  ASSUME TypeOK, NEW s \in Syncers,
         SyncStep(s) \/ RequestFails(s) \/ WriteFails(s) \/ CrashSync(s)
  PROVE  TypeOK'
<1> USE DEF TypeOK, Goes, files, node, server
<1>0. syncer[s] \in Syncing
  OBVIOUS
<1>1. CASE StartSync(s)
  BY <1>1, Members DEF StartSync, Idle, Syncing
<1>2. CASE Request(s)
  BY <1>0, <1>2, Members DEF Request, Syncing
<1>3. CASE RequestFails(s)
  BY <1>0, <1>3, GalleryAssumption DEF RequestFails, Fault, Syncing
<1>4. CASE Confirm(s)
  BY <1>0, <1>4 DEF Confirm, Syncing
<1>5. CASE Accept(s)
  BY <1>0, <1>5 DEF Accept, Syncing
<1>6. CASE Install(s)
  BY <1>0, <1>6 DEF Install, Syncing
<1>7. CASE Record(s)
  BY <1>0, <1>7, Members, SyncerTypes DEF Record
<1>8. CASE WriteFails(s)
  BY <1>0, <1>8, GalleryAssumption DEF WriteFails, Fault, Syncing
<1>9. CASE ReadForFailure(s)
  BY <1>0, <1>9 DEF ReadForFailure, Syncing
<1>10. CASE NoteFailure(s)
  BY <1>0, <1>10, Members, SyncerTypes DEF NoteFailure
<1>11. CASE CrashSync(s)
  BY <1>11, Members, GalleryAssumption DEF CrashSync, Fault
<1> QED
  BY <1>1, <1>2, <1>3, <1>4, <1>5, <1>6, <1>7, <1>8, <1>9, <1>10, <1>11 DEF SyncStep

\* So does every step of the watcher, and its crash.
LEMMA WatcherWellTyped ==
  ASSUME TypeOK, WatcherStep \/ CrashWatcher
  PROVE  TypeOK'
<1> USE Members DEF TypeOK, files, node, server
<1>1. CASE StartWatcher
  BY <1>1 DEF StartWatcher, Watching
<1>2. CASE Poll
  BY <1>2 DEF Poll, Watching
<1>3. CASE ReadGallery
  BY <1>3 DEF ReadGallery, Watching
<1>4. CASE Validate
  BY <1>4 DEF Validate, Watching
<1>5. CASE Adopt
  BY <1>5 DEF Adopt, Watching
<1>6. CASE Decide
  BY <1>6 DEF Decide, Watching
<1>7. CASE CrashWatcher
  BY <1>7, GalleryAssumption DEF CrashWatcher, Fault
<1> QED
  BY <1>1, <1>2, <1>3, <1>4, <1>5, <1>6, <1>7 DEF WatcherStep

\* And time and the server.
LEMMA ServerWellTyped ==
  ASSUME TypeOK, Publish \/ Misserve \/ Tick
  PROVE  TypeOK'
<1> USE GalleryAssumption DEF TypeOK, files, node
<1>1. CASE Publish
  <2>1. [sequence |-> latest + 1, edition |-> 1, generated |-> clock] \in Releases
    BY <1>1 DEF Publish, Releases
  <2> QED BY <1>1, <2>1 DEF Publish
<1>2. CASE Misserve
  <2>1. central'.sequence \in 1..MaxSequence
    BY <1>2 DEF Misserve, Releases
  <2> QED BY <1>2, <2>1 DEF Misserve, Fault
<1>3. CASE Tick
  BY <1>3 DEF Tick
<1> QED BY <1>1, <1>2, <1>3

\* A node that has never synchronized is well formed.
LEMMA GalleryTypeInit == Init => TypeOK
<1> SUFFICES ASSUME Init PROVE TypeOK
  OBVIOUS
<1>1. central \in Releases
  BY GalleryAssumption DEF Init, Releases
<1>2. unseen \in BOOLEAN
  BY DEF Init
<1>3. clock \in 0..MaxTime /\ latest \in 1..MaxSequence /\ faults \in 0..MaxFaults
  BY GalleryAssumption DEF Init
<1>4. gallery \in Installable /\ accepted \in Installable /\ used \in Installable
  BY Members DEF Init
<1>5. syncer \in [Syncers -> Syncing] /\ watcher \in Watching
  BY Members DEF Init
<1> QED BY <1>1, <1>2, <1>3, <1>4, <1>5 DEF TypeOK

\* Every step keeps it well formed.
LEMMA GalleryTypeStep ==
  ASSUME TypeOK, [Next]_vars
  PROVE  TypeOK'
<1>1. CASE UNCHANGED vars
  BY <1>1 DEF vars, TypeOK
<1>2. CASE Next
  BY <1>2, SyncWellTyped, WatcherWellTyped, ServerWellTyped DEF Next
<1> QED BY <1>1, <1>2

\* Types hold in every reachable state, for any number of processes.
THEOREM GalleryTypeCorrect == Spec => []TypeOK
BY GalleryTypeInit, GalleryTypeStep, PTL DEF Spec

-----------------------------------------------------------------------------
(***************************************************************************)
(* Releases that follow one another.                                       *)
(***************************************************************************)

Follows(new, old) == new = old \/ Newer(new, old)

\* Releases that each replaced the one before form a chain: the last may
\* replace the first.
LEMMA FollowsTransitive ==
  ASSUME NEW a \in Installable, NEW b \in Installable, NEW c \in Installable,
         Follows(a, b), Follows(b, c)
  PROVE  Follows(a, c)
<1>1. \A r \in Installable : r.sequence \in Int /\ r.generated \in Int /\ r.sequence >= 0
  BY GalleryAssumption DEF Installable, Releases, NoRelease
<1>2. \A r \in Installable : r # NoRelease => r.sequence > 0
  BY GalleryAssumption DEF Installable, Releases
<1>3. NoRelease.sequence = 0
  BY DEF NoRelease
<1> QED BY <1>1, <1>2, <1>3 DEF Follows, Newer

\* What validate_release accepts after a release follows it.
LEMMA AcceptedFollows ==
  ASSUME NEW r, NEW prior, ValidRelease(r, prior)
  PROVE  Follows(r, prior)
BY DEF ValidRelease, Succeeds, Follows, Newer

-----------------------------------------------------------------------------
(***************************************************************************)
(* Synchronizations that do not overlap.  Nothing in the code prevents an  *)
(* overlap (two processes do roll back: doc_concurrent_rollback), so it is *)
(* a hypothesis of the theorems and not of the model; a node with one      *)
(* synchronizing process satisfies it.                                     *)
(***************************************************************************)

OneAtATime ==
  \A s, t \in Syncers : s # t => syncer[s].pc = "idle" \/ syncer[t].pc = "idle"

\* A process works from the release that is still the accepted one.
PriorStands == \A s \in Syncers : syncer[s].pc # "idle" => syncer[s].prior = accepted

\* What it is about to install or to record may replace the accepted one.
HandlesSuccessor ==
  \A s \in Syncers : syncer[s].pc \in {"installing", "recording"} =>
    Follows(syncer[s].release, accepted)

\* There is a release in its hands from the answer to the status file.
HasRelease ==
  \A s \in Syncers : syncer[s].pc \in {"received", "installing", "recording"} =>
    syncer[s].release # NoRelease

\* What it is about to record is installed.
RecordsInstalled ==
  \A s \in Syncers : syncer[s].pc = "recording" => gallery = syncer[s].release

SyncInv ==
  /\ TypeOK /\ PriorStands /\ HandlesSuccessor /\ HasRelease /\ RecordsInstalled
  /\ InstalledFirst

\* A step of one process, while the others are idle, leaves the invariant.
LEMMA SyncKeeps ==
  ASSUME SyncInv, TypeOK', OneAtATime, NEW s \in Syncers,
         SyncStep(s) \/ RequestFails(s) \/ WriteFails(s) \/ CrashSync(s)
  PROVE  SyncInv' /\ (accepted' # accepted => Newer(accepted', accepted))
<1> USE DEF SyncInv, TypeOK, PriorStands, HandlesSuccessor, HasRelease,
            RecordsInstalled, InstalledFirst, Goes, files, node, server
<1>0. syncer[s] \in Syncing /\ syncer \in [Syncers -> Syncing]
  OBVIOUS
<1>1. CASE StartSync(s)
  BY <1>0, <1>1 DEF StartSync, Idle, Syncing
<1>2. CASE Request(s)
  BY <1>0, <1>2, Members DEF Request, Syncing
<1>3. CASE RequestFails(s)
  BY <1>0, <1>3 DEF RequestFails, Syncing
<1>4. CASE Confirm(s)
  BY <1>0, <1>4 DEF Confirm, ValidInstalled, Follows, Syncing
<1>5. CASE Accept(s)
  BY <1>0, <1>5, AcceptedFollows DEF Accept, Syncing
<1>6. CASE Install(s)
  BY <1>0, <1>6 DEF Install, Syncing, OneAtATime, Follows
<1>7. CASE Record(s)
  BY <1>0, <1>7 DEF Record, Idle, OneAtATime, Follows
<1>8. CASE WriteFails(s)
  BY <1>0, <1>8 DEF WriteFails, Syncing
<1>9. CASE ReadForFailure(s)
  BY <1>0, <1>9 DEF ReadForFailure, Syncing
<1>10. CASE NoteFailure(s)
  BY <1>0, <1>10 DEF NoteFailure, Idle
<1>11. CASE CrashSync(s)
  BY <1>0, <1>11 DEF CrashSync, Idle
<1> QED
  BY <1>1, <1>2, <1>3, <1>4, <1>5, <1>6, <1>7, <1>8, <1>9, <1>10, <1>11 DEF SyncStep

\* Neither the watcher, nor the server, nor time touches what the invariant
\* speaks of.
LEMMA OthersKeep ==
  ASSUME SyncInv, TypeOK', UNCHANGED <<gallery, accepted, syncer>>
  PROVE  SyncInv'
BY DEF SyncInv, PriorStands, HandlesSuccessor, HasRelease, RecordsInstalled, InstalledFirst

\* They change neither the two files nor a synchronization.
LEMMA OthersLeave ==
  ASSUME \/ WatcherStep \/ CrashWatcher \/ Publish \/ Misserve \/ Tick
         \/ UNCHANGED vars
  PROVE  UNCHANGED <<gallery, accepted, syncer>>
BY DEF WatcherStep, CrashWatcher, Publish, Misserve, Tick, vars, files,
       StartWatcher, Poll, ReadGallery, Validate, Adopt, Decide

\* Nothing is installed, accepted or under way at first.
LEMMA SyncInvInit == Init => SyncInv
<1> SUFFICES ASSUME Init, TypeOK PROVE SyncInv
  BY GalleryTypeInit
<1>1. \A s \in Syncers : syncer[s].pc = "idle"
  BY DEF Init, Idle
<1> QED
  BY <1>1 DEF Init, SyncInv, PriorStands, HandlesSuccessor, HasRelease,
              RecordsInstalled, InstalledFirst

\* While synchronizations do not overlap, every step keeps the invariant, and
\* a newly accepted release is newer than the one it replaces.
LEMMA SyncInvStep ==
  ASSUME SyncInv, OneAtATime, [Next]_vars
  PROVE  SyncInv' /\ (accepted' # accepted => Newer(accepted', accepted))
<1>1. TypeOK'
  BY GalleryTypeStep DEF SyncInv
<1>2. CASE \E s \in Syncers : SyncStep(s) \/ RequestFails(s) \/ WriteFails(s) \/ CrashSync(s)
  BY <1>1, <1>2, SyncKeeps
<1>3. CASE WatcherStep \/ CrashWatcher \/ Publish \/ Misserve \/ Tick \/ UNCHANGED vars
  BY <1>1, <1>3, OthersKeep, OthersLeave
<1> QED BY <1>2, <1>3 DEF Next

\* As long as synchronizations do not overlap, no crash, failed write or
\* answer of the server leaves the status file naming an accepted release
\* that is not installed, nor succeeded by the installed one: the gallery
\* file is replaced before its acceptance is recorded (install_gallery and
\* record_acceptance in secure_sync.py).
THEOREM InstalledBeforeAccepted == Spec /\ []OneAtATime => []InstalledFirst
<1>1. Init => SyncInv
  BY SyncInvInit
<1>2. SyncInv /\ OneAtATime /\ [Next]_vars => SyncInv'
  BY SyncInvStep
<1>3. SyncInv => InstalledFirst
  BY DEF SyncInv
<1> QED BY <1>1, <1>2, <1>3, PTL DEF Spec

\* Nor does any of them, or any release the server signs, roll the accepted
\* release back or replace it by another content of the same sequence
\* (validate_release).
THEOREM AcceptanceNeverRollsBack == Spec /\ []OneAtATime => NoRollback
<1>1. Init => SyncInv
  BY SyncInvInit
<1>2. SyncInv /\ OneAtATime /\ [Next]_vars => SyncInv'
  BY SyncInvStep
<1>3. SyncInv /\ OneAtATime /\ [Next]_vars
      => [accepted' # accepted => Newer(accepted', accepted)]_vars
  BY SyncInvStep
<1> QED BY <1>1, <1>2, <1>3, PTL DEF Spec, NoRollback

-----------------------------------------------------------------------------
(***************************************************************************)
(* The watcher.  It validates a gallery against the accepted release and   *)
(* adopts it later, so what it holds is only known to be behind the        *)
(* accepted release, and ahead of everything it used before.               *)
(***************************************************************************)

\* The gallery in use, and the one the watcher holds, may be behind the
\* accepted one and never ahead of it.
BehindAccepted == Follows(accepted, used) /\ Follows(accepted, watcher.known)

\* A running watcher holds a gallery that may follow the one last used.
AheadOfUsed == watcher.known # NoRelease => Follows(watcher.known, used)

\* So does a gallery between its validation and its adoption.
AdoptsSuccessor ==
  watcher.pc = "adopting" =>
    /\ watcher.payload # NoRelease /\ Follows(accepted, watcher.payload)
    /\ Follows(watcher.payload, used)

\* Only a watcher with a gallery polls for a new one and recognises faces.
HoldsGallery == watcher.pc \in {"polling", "deciding"} => watcher.known # NoRelease

WatchInv == BehindAccepted /\ AheadOfUsed /\ AdoptsSuccessor /\ HoldsGallery

\* A watcher that is down holds no gallery.
LEMMA WatchInvInit == Init => WatchInv
BY DEF Init, Down, WatchInv, BehindAccepted, AheadOfUsed, AdoptsSuccessor,
       HoldsGallery, Follows

\* Every step of the watcher keeps it.
LEMMA WatcherKeeps ==
  ASSUME TypeOK, WatchInv, WatcherStep \/ CrashWatcher
  PROVE  WatchInv' /\ (used' # used => Newer(used', used))
<1> USE DEF WatchInv, BehindAccepted, AheadOfUsed, AdoptsSuccessor, HoldsGallery, files
<1>0. watcher \in Watching
  BY DEF TypeOK
<1>1. CASE StartWatcher
  BY <1>0, <1>1 DEF StartWatcher, Watching
<1>2. CASE Poll
  BY <1>0, <1>2 DEF Poll, Watching
<1>3. CASE ReadGallery
  BY <1>0, <1>3 DEF ReadGallery, Watching
<1>4. CASE Validate
  BY <1>0, <1>4 DEF Validate, ValidInstalled, Follows, Watching, Down, Newer
<1>5. CASE Adopt
  BY <1>0, <1>5 DEF Adopt, Follows, Watching, Down, Newer
<1>6. CASE Decide
  BY <1>0, <1>6 DEF Decide, Follows, Watching
<1>7. CASE CrashWatcher
  BY <1>0, <1>7 DEF CrashWatcher, Down, Follows, Newer
<1> QED
  BY <1>1, <1>2, <1>3, <1>4, <1>5, <1>6, <1>7 DEF WatcherStep

\* A newly accepted release follows everything the one before followed.
LEMMA AcceptanceKeeps ==
  ASSUME TypeOK, TypeOK', WatchInv, UNCHANGED <<watcher, used>>,
         accepted' # accepted => Newer(accepted', accepted)
  PROVE  WatchInv'
<1>1. Follows(accepted', accepted)
  BY DEF Follows
<1>2. /\ accepted \in Installable /\ accepted' \in Installable /\ used \in Installable
      /\ watcher.known \in Installable /\ watcher.payload \in Installable
  BY DEF TypeOK, Watching
<1>3. \A r \in Installable : Follows(accepted, r) => Follows(accepted', r)
  BY <1>1, <1>2, FollowsTransitive
<1> QED
  BY <1>2, <1>3 DEF WatchInv, BehindAccepted, AheadOfUsed, AdoptsSuccessor, HoldsGallery

\* No synchronization touches the watcher or what it has used.
LEMMA SyncLeavesWatcher ==
  ASSUME \/ Publish \/ Misserve \/ Tick \/ UNCHANGED vars
         \/ \E s \in Syncers :
              SyncStep(s) \/ RequestFails(s) \/ WriteFails(s) \/ CrashSync(s)
  PROVE  UNCHANGED <<watcher, used>>
BY DEF Publish, Misserve, Tick, vars, node, SyncStep, StartSync, Request, Confirm,
       Accept, Install, Record, ReadForFailure, NoteFailure, RequestFails,
       WriteFails, CrashSync

\* Every step keeps both invariants together, and a gallery the watcher starts
\* to use is newer than the one it used before.
LEMMA WatchInvStep ==
  ASSUME SyncInv, OneAtATime, WatchInv, [Next]_vars
  PROVE  WatchInv' /\ (used' # used => Newer(used', used))
<1>1. /\ TypeOK /\ TypeOK'
      /\ accepted' # accepted => Newer(accepted', accepted)
  BY SyncInvStep DEF SyncInv
<1>2. CASE WatcherStep \/ CrashWatcher
  BY <1>1, <1>2, WatcherKeeps
<1>3. CASE \/ Publish \/ Misserve \/ Tick \/ UNCHANGED vars
           \/ \E s \in Syncers :
                SyncStep(s) \/ RequestFails(s) \/ WriteFails(s) \/ CrashSync(s)
  BY <1>1, <1>3, AcceptanceKeeps, SyncLeavesWatcher
<1> QED BY <1>2, <1>3 DEF Next

\* The node never goes back to recognising faces with a release older than
\* one it has used, although the watcher validates what it read against a
\* status file that is replaced meanwhile, adopts it later, and forgets what
\* it held when it restarts (GalleryReloader.reload,
\* validate_installed_release): if synchronizations do not overlap.
THEOREM RecognitionNeverRollsBack == Spec /\ []OneAtATime => NeverReactivated
<1>1. Init => SyncInv /\ WatchInv
  BY SyncInvInit, WatchInvInit
<1>2. SyncInv /\ WatchInv /\ OneAtATime /\ [Next]_vars => SyncInv' /\ WatchInv'
  BY SyncInvStep, WatchInvStep
<1>3. SyncInv /\ WatchInv /\ OneAtATime /\ [Next]_vars
      => [used' # used => Newer(used', used)]_vars
  BY WatchInvStep
<1> QED BY <1>1, <1>2, <1>3, PTL DEF Spec, NeverReactivated

=============================================================================
