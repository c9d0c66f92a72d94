--------------------------- MODULE GalleryRelease ---------------------------
(***************************************************************************)
(* How a signed release of the embedding gallery reaches the recognition   *)
(* of an attendance node: the central server, the processes that           *)
(* synchronize with it (secure_sync.py; the systemd timer's and the one    *)
(* behind the web administration's button share no lock), the two files    *)
(* they replace one after the other (embedding_gallery.json and            *)
(* embedding_sync_status.json), and the watcher that reloads the gallery   *)
(* while they are replaced (embedding_gallery.py, face_attendance.py).     *)
(*                                                                         *)
(* One source scope, in the profile that requires signed releases. A       *)
(* checksum or an ETag names the content it was computed from, so it is    *)
(* modelled by that content.                                               *)
(***************************************************************************)
EXTENDS Integers

CONSTANTS
  Syncers,      \* processes that may synchronize the gallery
  MaxSequence,  \* bound on release sequences
  MaxTime,      \* bound on the clock
  MaxAge,       \* embedding_max_age_seconds, in ticks
  Tolerance,    \* embedding_release_future_tolerance_seconds, in ticks
  Retries,      \* embedding_sync_retries
  MaxFaults,    \* bound on crashes, failed writes and bad answers
  Misbehaves    \* may the server serve any signed release at all?

ASSUME GalleryAssumption ==
  /\ MaxSequence \in Nat \ {0} /\ MaxTime \in Nat /\ MaxAge \in Nat
  /\ Tolerance \in Nat /\ Retries \in Nat /\ MaxFaults \in Nat
  /\ Misbehaves \in BOOLEAN

VARIABLES
  clock,
  central,   \* the release the central server answers with
  latest,    \* the highest sequence signed so far
  gallery,   \* embedding_gallery.json
  accepted,  \* release_scopes of this scope, in embedding_sync_status.json
  syncer,
  watcher,
  unseen,    \* has the gallery been replaced since the watcher took its signature?
  used,      \* the release the watcher last recognised faces with
  faults

vars == <<clock, central, latest, gallery, accepted, syncer, watcher, unseen, used, faults>>

Releases == [sequence : 1..MaxSequence, edition : {1, 2}, generated : 0..MaxTime]

NoRelease == [sequence |-> 0, edition |-> 0, generated |-> 0]

Installable == Releases \cup {NoRelease}

\* "prior" is the accepted release as the process read it, whose content the
\* ETag it sends names; "release" is the one it handles.
Syncing == [pc : {"idle", "requesting", "unchanged", "received", "installing",
                  "recording", "failing", "noting"},
            prior : Installable, release : Installable, attempt : 0..Retries]

Idle == [pc |-> "idle", prior |-> NoRelease, release |-> NoRelease, attempt |-> 0]

Watching == [pc : {"down", "polling", "reading", "validating", "adopting", "deciding"},
             known : Installable, payload : Installable]

Down == [pc |-> "down", known |-> NoRelease, payload |-> NoRelease]

TypeOK ==
  /\ clock \in 0..MaxTime
  /\ central \in Releases
  /\ latest \in 1..MaxSequence
  /\ gallery \in Installable
  /\ accepted \in Installable
  /\ syncer \in [Syncers -> Syncing]
  /\ watcher \in Watching
  /\ unseen \in BOOLEAN
  /\ used \in Installable
  /\ faults \in 0..MaxFaults

Init ==
  /\ clock = 0 /\ faults = 0 /\ latest = 1
  /\ central = [sequence |-> 1, edition |-> 1, generated |-> 0]
  /\ gallery = NoRelease /\ accepted = NoRelease /\ used = NoRelease
  /\ syncer = [s \in Syncers |-> Idle]
  /\ watcher = Down
  /\ unseen = FALSE

files  == <<gallery, accepted, unseen>>
node   == <<watcher, used>>
server == <<clock, central, latest>>

Fault == faults < MaxFaults /\ faults' = faults + 1

(***************************************************************************)
(* What makes a release acceptable.                                        *)
(***************************************************************************)

\* gallery_freshness_status, with reject_stale_embedding_gallery set.
Fresh(r) == clock - r.generated <= MaxAge

TooFarAhead(r) == r.generated > clock + Tolerance

\* Mutant: only a lower sequence is refused.
NotOlder(r, prior) == r.sequence >= prior.sequence

\* The comparison of validate_release with the prior accepted state.
Succeeds(r, prior) ==
  \/ prior = NoRelease
  \/ r = prior
  \/ r.sequence > prior.sequence /\ r.generated >= prior.generated

ValidRelease(r, prior) == ~TooFarAhead(r) /\ Succeeds(r, prior)

\* Mutant: the watcher and a 304 trust any signed gallery in the file.
ValidSignature(r, state) == r # NoRelease /\ ~TooFarAhead(r)

ValidInstalled(r, state) ==
  state # NoRelease /\ r = state /\ ValidRelease(r, state)

(***************************************************************************)
(* The central server and time.                                            *)
(***************************************************************************)

\* The publisher signs a new gallery under the next sequence.
Publish ==
  /\ latest < MaxSequence
  /\ latest' = latest + 1
  /\ central' = [sequence |-> latest + 1, edition |-> 1, generated |-> clock]
  /\ UNCHANGED <<clock, files, syncer, node, faults>>

\* It serves another signed release: an older one, one whose sequence was
\* used twice, or one signed with a wrong clock.
Misserve ==
  /\ Misbehaves /\ Fault
  /\ central' \in Releases \ {central}
  /\ latest' = IF central'.sequence > latest THEN central'.sequence ELSE latest
  /\ UNCHANGED <<clock, files, syncer, node>>

Tick ==
  /\ clock < MaxTime
  /\ clock' = clock + 1
  /\ UNCHANGED <<central, latest, files, syncer, node, faults>>

(***************************************************************************)
(* One synchronization.                                                    *)
(***************************************************************************)
Goes(s, pc) == syncer' = [syncer EXCEPT ![s].pc = pc]

StartSync(s) ==
  /\ syncer[s].pc = "idle"
  /\ syncer' = [syncer EXCEPT ![s] = [Idle EXCEPT !.pc = "requesting", !.prior = accepted]]
  /\ UNCHANGED <<server, files, node, faults>>

\* If-None-Match is sent only when there is a gallery to keep.
Request(s) ==
  /\ syncer[s].pc = "requesting"
  /\ LET known == syncer[s].prior
     IN  IF gallery # NoRelease /\ known = central
         THEN Goes(s, "unchanged")
         ELSE syncer' = [syncer EXCEPT ![s].pc = "received", ![s].release = central]
  /\ UNCHANGED <<server, files, node, faults>>

\* Mutant: one retry more than configured.
RequestFailsTwice(s) ==
  /\ syncer[s].pc = "requesting"
  /\ Fault
  /\ \/ /\ syncer[s].attempt <= Retries
        /\ syncer' = [syncer EXCEPT ![s].attempt = @ + 1]
     \/ Goes(s, "failing")
     \/ Goes(s, "unchanged")
  /\ UNCHANGED <<server, files, node>>

\* A server error or a broken connection is retried, an answer that is not
\* a signed gallery is not; nor is a 304 to a request that named no release.
RequestFails(s) ==
  /\ syncer[s].pc = "requesting"
  /\ Fault
  /\ \/ /\ syncer[s].attempt < Retries
        /\ syncer' = [syncer EXCEPT ![s].attempt = @ + 1]
     \/ Goes(s, "failing")
     \/ Goes(s, "unchanged")
  /\ UNCHANGED <<server, files, node>>

\* 304: the installed gallery must be the accepted one, as it was read.
Confirm(s) ==
  /\ syncer[s].pc = "unchanged"
  /\ IF ValidInstalled(gallery, syncer[s].prior) /\ Fresh(gallery)
     THEN syncer' = [syncer EXCEPT ![s].pc = "recording", ![s].release = gallery]
     ELSE Goes(s, "failing")
  /\ UNCHANGED <<server, files, node, faults>>

\* Mutant: a gallery that is already installed needs no new status.
AcceptUnlessInstalled(s) ==
  /\ syncer[s].pc = "received"
  /\ LET r == syncer[s].release
     IN  IF ~(ValidRelease(r, syncer[s].prior) /\ Fresh(r))
         THEN Goes(s, "failing")
         ELSE Goes(s, IF gallery = r THEN "idle" ELSE "installing")
  /\ UNCHANGED <<server, files, node, faults>>

\* The file is only replaced when the received content differs.
Accept(s) ==
  /\ syncer[s].pc = "received"
  /\ LET r == syncer[s].release
     IN  IF ~(ValidRelease(r, syncer[s].prior) /\ Fresh(r))
         THEN Goes(s, "failing")
         ELSE Goes(s, IF gallery = r THEN "recording" ELSE "installing")
  /\ UNCHANGED <<server, files, node, faults>>

Install(s) ==
  /\ syncer[s].pc = "installing"
  /\ gallery' = syncer[s].release
  /\ unseen' = TRUE
  /\ Goes(s, "recording")
  /\ UNCHANGED <<server, accepted, node, faults>>

\* record_acceptance builds the scopes from the file as it was read at
\* the start; write_sync_status puts them over whatever it holds now.
Record(s) ==
  /\ syncer[s].pc = "recording"
  /\ accepted' = syncer[s].release
  /\ syncer' = [syncer EXCEPT ![s] = Idle]
  /\ UNCHANGED <<server, gallery, unseen, node, faults>>

\* Mutant: a gallery that cannot be written is recorded all the same.
WriteIgnored(s) ==
  /\ syncer[s].pc \in {"installing", "recording"}
  /\ Fault
  /\ Goes(s, IF syncer[s].pc = "installing" THEN "recording" ELSE "failing")
  /\ UNCHANGED <<server, files, node>>

WriteFails(s) ==
  /\ syncer[s].pc \in {"installing", "recording"}
  /\ Fault
  /\ Goes(s, "failing")
  /\ UNCHANGED <<server, files, node>>

\* The failure is noted in a copy of the file, which then replaces it.
ReadForFailure(s) ==
  /\ syncer[s].pc = "failing"
  /\ syncer' = [syncer EXCEPT ![s].pc = "noting", ![s].prior = accepted]
  /\ UNCHANGED <<server, files, node, faults>>

NoteFailure(s) ==
  /\ syncer[s].pc = "noting"
  /\ accepted' = syncer[s].prior
  /\ syncer' = [syncer EXCEPT ![s] = Idle]
  /\ UNCHANGED <<server, gallery, unseen, node, faults>>

CrashSync(s) ==
  /\ syncer[s].pc # "idle"
  /\ Fault
  /\ syncer' = [syncer EXCEPT ![s] = Idle]
  /\ UNCHANGED <<server, files, node>>

(***************************************************************************)
(* The watcher: GalleryRuntime and GalleryReloader.                        *)
(***************************************************************************)
StartWatcher ==
  /\ watcher.pc = "down"
  /\ watcher' = [watcher EXCEPT !.pc = "reading"]
  /\ UNCHANGED <<server, files, syncer, used, faults>>

\* The release of a gallery whose signature has not changed is not checked again.
Poll ==
  /\ watcher.pc = "polling"
  /\ watcher' = [watcher EXCEPT !.pc = IF unseen THEN "reading" ELSE "deciding"]
  /\ UNCHANGED <<server, files, syncer, used, faults>>

ReadGallery ==
  /\ watcher.pc = "reading"
  /\ watcher' = [watcher EXCEPT !.pc = "validating", !.payload = gallery]
  /\ UNCHANGED <<server, files, syncer, used, faults>>

\* A watcher with a gallery keeps it when the new one is refused; one that
\* has none exits.
Validate ==
  /\ watcher.pc = "validating"
  /\ watcher' = IF ValidInstalled(watcher.payload, accepted)
                THEN [watcher EXCEPT !.pc = "adopting"]
                ELSE IF watcher.known = NoRelease THEN Down
                     ELSE [watcher EXCEPT !.pc = "deciding", !.payload = NoRelease]
  /\ UNCHANGED <<server, files, syncer, used, faults>>

\* The signature is taken of the file as it is now. A stale gallery stops
\* start(), but not refresh(): it is logged and the gallery is used.
Adopt ==
  /\ watcher.pc = "adopting"
  /\ LET starting == watcher.known = NoRelease
     IN  watcher' = IF starting /\ ~Fresh(watcher.payload) THEN Down
                    ELSE [pc |-> "deciding", known |-> watcher.payload, payload |-> NoRelease]
  /\ unseen' = FALSE
  /\ UNCHANGED <<server, gallery, accepted, syncer, used, faults>>

Decide ==
  /\ watcher.pc = "deciding"
  /\ used' = watcher.known
  /\ watcher' = [watcher EXCEPT !.pc = "polling"]
  /\ UNCHANGED <<server, files, syncer, faults>>

CrashWatcher ==
  /\ watcher.pc # "down"
  /\ Fault
  /\ watcher' = Down
  /\ UNCHANGED <<server, files, syncer, used>>

SyncStep(s) == \/ StartSync(s) \/ Request(s) \/ Confirm(s) \/ Accept(s) \/ Install(s)
               \/ Record(s) \/ ReadForFailure(s) \/ NoteFailure(s)

WatcherStep == StartWatcher \/ Poll \/ ReadGallery \/ Validate \/ Adopt \/ Decide

Next ==
  \/ \E s \in Syncers : SyncStep(s) \/ RequestFails(s) \/ WriteFails(s) \/ CrashSync(s)
  \/ WatcherStep \/ CrashWatcher
  \/ Publish \/ Misserve \/ Tick

Spec == Init /\ [][Next]_vars

\* The timer starts a synchronization every five minutes and the watcher's
\* loop polls every second; nothing makes the publisher publish.
LiveSpec == Spec /\ WF_vars(WatcherStep) /\ \A s \in Syncers : WF_vars(SyncStep(s))

(***************************************************************************)
(* Properties.                                                             *)
(***************************************************************************)
Newer(new, old) ==
  \/ old = NoRelease
  \/ new.sequence > old.sequence /\ new.generated >= old.generated

\* The accepted release of a scope is only ever replaced by one with a higher
\* sequence that was not generated earlier: no rollback, and no second
\* content under one sequence, whatever the server serves and wherever a
\* synchronization is killed (validate_release, record_acceptance).
NoRollback == [][accepted' # accepted => Newer(accepted', accepted)]_vars

\* The node never goes back to recognising faces with a release older than
\* one it has used, across reloads and restarts of the watcher
\* (GalleryReloader.reload, validate_installed_release).
NeverReactivated == [][used' # used => Newer(used', used)]_vars

\* What the status file says was accepted is installed, or something newer
\* is: the gallery file is replaced before its acceptance is recorded, so a
\* crash between the two never leaves a state without its gallery.
InstalledFirst == accepted # NoRelease => gallery = accepted \/ Newer(gallery, accepted)

\* Whatever crashed or failed before, synchronization ends with the release
\* the server serves both installed and accepted, so that the watcher can
\* load it (README.md:18, "atomic validation and activation"), if the server
\* comes to serve a fresh release that may follow the accepted one and is not
\* older than the installed one.
Servable == /\ Fresh(central)
            /\ ValidRelease(central, accepted) /\ ValidRelease(central, gallery)

Converges == <>[]Servable => <>[](gallery = central /\ accepted = central)

\* "The watcher reloads a valid changed gallery without a service restart"
\* (HANDOFF.md:31): it ends up with the installed gallery.
ReloadsChanged == <>[](watcher.known = gallery)

\* "an empty or stale gallery ... remains a blocker" for the canonical
\* watcher (docs/production-readiness.md:128): it recognises no face with a
\* gallery that is too old.
StaleBlocks == [][Decide => Fresh(watcher.known)]_vars
=============================================================================
