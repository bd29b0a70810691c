------------------------------ MODULE Updates ------------------------------
(***************************************************************************)
(* The update check and the install of a newer release: self_update.rs of  *)
(* throng-platform and of throng-app, update_check.rs, update.rs, and the  *)
(* update notice of app.rs.                                                *)
(*                                                                         *)
(* The install runs on a thread of its own, one step of the file system    *)
(* each; the window follows it through a channel and may be closed, or the *)
(* process end, between any two.  A version is a number.  An app on disk   *)
(* is its version and whether it is as it was published: what codesign,    *)
(* spctl and the checksum tell is exactly that.                            *)
(***************************************************************************)
EXTENDS Integers, Sequences

CONSTANTS
    Newest,       \* releases are the versions 2..Newest; throng starts as 1
    MaxChecks,    \* bound: update checks made
    MaxInstalls   \* bound: installs begun

VARIABLES
    kind,         \* what Target::detect finds: "bundle", "appimage" or "other"
    running,      \* the version this process is; 0: no process
    place,        \* the app where it is installed
    aside,        \* staging/previous
    staged,       \* the app downloaded into the staging folder
    stuck,        \* both renames of a swap failed: the new app in, the old one back
    thread,       \* the next step of the install's thread
    events,       \* its channel to the window
    installing,   \* Option<Installing>: the release being installed
    offer,        \* ThrongApp::update_offer
    notice,       \* the update notice on screen
    skipped,      \* UPDATE_SKIPPED_KEY in the store
    check,        \* UpdateCheck: "due", "asked" or "waits" (for tomorrow)
    checks, installs

vars == <<kind, running, place, aside, staged, stuck, thread, events, installing, offer, notice,
          skipped, check, checks, installs>>
disk == <<place, aside, staged, stuck>>
job == <<thread, events, installing, installs>>

None == [version |-> 0, sound |-> FALSE]
App(v) == [version |-> v, sound |-> TRUE]
Release == [version : 2..Newest, complete : BOOLEAN]
NoRelease == [version |-> 0, complete |-> FALSE]
Quiet == [about |-> 0, actions |-> {}]

Init ==
    /\ kind \in {"bundle", "appimage", "other"}
    /\ running = 1 /\ place = App(1) /\ aside = None /\ staged = None /\ stuck = FALSE
    /\ thread = "none" /\ events = <<>> /\ installing = NoRelease
    /\ offer = NoRelease /\ notice = Quiet /\ skipped = 0
    /\ check = "due" /\ checks = 0 /\ installs = 0

\* A release can be installed in place when it has the files this kind of install needs.
CanInstall(release) == kind # "other" /\ release.complete

UpdateNotice(release, installable) ==
    [about |-> release.version,
     actions |-> {"download", "skip"} \cup IF installable THEN {"install"} ELSE {}]
InstallingNotice(release) == [about |-> release.version, actions |-> {}]

(***************************************************************************)
(* The window                                                              *)
(***************************************************************************)
\* One check at a time, once a day; none is started while an install runs.
Ask ==
    /\ running # 0 /\ installing = NoRelease /\ check = "due" /\ checks < MaxChecks
    /\ check' = "asked" /\ checks' = checks + 1
    /\ UNCHANGED <<kind, running, disk, job, offer, notice, skipped>>

Tomorrow ==
    /\ check = "waits" /\ check' = "due"
    /\ UNCHANGED <<kind, running, disk, job, offer, notice, skipped, checks>>

\* The request failed, or its answer is of no newer release or of the skipped one.
NoNews ==
    /\ running # 0 /\ installing = NoRelease /\ check = "asked" /\ check' = "waits"
    /\ UNCHANGED <<kind, running, disk, job, offer, notice, skipped, checks>>

Offer(release) ==
    /\ running # 0 /\ installing = NoRelease /\ check = "asked" /\ check' = "waits"
    /\ release.version > running /\ release.version # skipped
    /\ offer' = release /\ notice' = UpdateNotice(release, CanInstall(release))
    /\ UNCHANGED <<kind, running, disk, job, skipped, checks>>

Dismiss ==
    /\ running # 0 /\ notice # Quiet /\ notice' = Quiet
    /\ UNCHANGED <<kind, running, disk, job, offer, skipped, check, checks>>

\* The version is remembered unless the store cannot be written.
Skip ==
    /\ running # 0 /\ "skip" \in notice.actions
    /\ skipped' \in {skipped} \cup IF offer = NoRelease THEN {} ELSE {offer.version}
    /\ offer' = NoRelease /\ notice' = Quiet
    /\ UNCHANGED <<kind, running, disk, job, check, checks>>

Install ==
    /\ running # 0 /\ "install" \in notice.actions /\ installs < MaxInstalls
    /\ IF offer = NoRelease
       THEN notice' = Quiet /\ UNCHANGED job
       ELSE /\ installing' = offer /\ thread' = "download" /\ events' = <<>>
            /\ installs' = installs + 1 /\ notice' = InstallingNotice(offer)
    /\ UNCHANGED <<kind, running, disk, offer, skipped, check, checks>>

\* progress_install: what the channel holds is taken up to the outcome.  Installed, throng
\* quits and the new one opens, unless the shell that is to open it cannot be started.
Done(outcome) == thread = "ended" /\ events # <<>> /\ events[Len(events)] = outcome
Progress ==
    /\ running # 0 /\ installing # NoRelease
    /\ events # <<>> /\ ~Done("ok") /\ ~Done("error")
    /\ events' = <<>> /\ notice' = InstallingNotice(installing)
    /\ UNCHANGED <<kind, running, disk, thread, installing, installs, offer, skipped, check, checks>>

\* A thread that ends without a word has failed too.
Failed ==
    /\ running # 0 /\ installing # NoRelease
    /\ Done("error") \/ thread = "lost"
    /\ installing' = NoRelease /\ thread' = "none" /\ events' = <<>>
    /\ notice' = UpdateNotice(installing, CanInstall(offer))
    /\ UNCHANGED <<kind, running, disk, installs, offer, skipped, check, checks>>

\* A new process knows nothing of the old one's offers; its first check is due at once.
Opens(version) ==
    /\ running' = version /\ installing' = NoRelease /\ thread' = "none" /\ events' = <<>>
    /\ offer' = NoRelease /\ notice' = Quiet /\ check' = "due"

Installed ==
    /\ running # 0 /\ installing # NoRelease /\ Done("ok")
    /\ \/ Opens(place.version)
       \/ /\ installing' = NoRelease /\ thread' = "none" /\ events' = <<>>
          /\ notice' = InstallingNotice(installing) /\ UNCHANGED <<running, offer, check>>
    /\ UNCHANGED <<kind, disk, installs, skipped, checks>>

(***************************************************************************)
(* The thread: platform/self_update.rs, step by step                       *)
(***************************************************************************)
Goes(step) == thread' = step /\ UNCHANGED <<events>>
Tells(step, event) == thread' = step /\ events' = Append(events, event)
Thread(step) ==
    /\ running # 0 /\ thread = step
    /\ UNCHANGED <<kind, running, installing, installs, offer, notice, skipped, check, checks>>

\* A failure drops the staging folder with all it holds.
GivesUp == Tells("ended", "error") /\ aside' = None /\ staged' = None /\ UNCHANGED stuck

\* Or there is no thread to begin with, or its download fails.
Download ==
    /\ Thread("download") /\ UNCHANGED place
    /\ \/ Tells("stage", "Downloading") /\ UNCHANGED disk
       \/ thread' = "lost" /\ UNCHANGED <<events, disk>>
       \/ GivesUp

\* The folder is still writable, the package unpacks: whole and of its publisher, or not.
Stage ==
    /\ Thread("stage")
    /\ \/ /\ \E sound \in BOOLEAN : staged' = [version |-> installing.version, sound |-> sound]
          /\ Tells("verify", "Verifying") /\ UNCHANGED <<place, aside, stuck>>
       \/ GivesUp /\ UNCHANGED place

Checked(app) == app.sound
Verify ==
    /\ Thread("verify")
    /\ IF Checked(staged)
       THEN Goes(IF kind = "bundle" THEN "move aside" ELSE "replace") /\ UNCHANGED disk
       ELSE GivesUp /\ UNCHANGED place

\* An AppImage is replaced by one rename, or not at all.
Replace ==
    /\ Thread("replace")
    /\ \/ place' = staged /\ Tells("ended", "ok") /\ staged' = None /\ UNCHANGED <<aside, stuck>>
       \/ GivesUp /\ UNCHANGED place

\* A bundle is swapped by two; the first is taken back when the second fails.
MoveAside ==
    /\ Thread("move aside")
    /\ \/ aside' = place /\ place' = None /\ Goes("move in") /\ UNCHANGED <<staged, stuck>>
       \/ GivesUp /\ UNCHANGED place

MoveIn ==
    /\ Thread("move in")
    /\ \/ place' = staged /\ staged' = None /\ Goes("drop") /\ UNCHANGED <<aside, stuck>>
       \/ Goes("put back") /\ UNCHANGED disk

PutBackUnmoved == Thread("put back") /\ GivesUp /\ UNCHANGED place   (* Mutant: only reported *)
PutBack ==
    /\ Thread("put back") /\ Tells("ended", "error") /\ aside' = None /\ staged' = None
    /\ \/ place' = aside /\ UNCHANGED stuck
       \/ stuck' = TRUE /\ UNCHANGED place

DropStaging ==
    /\ Thread("drop") /\ aside' = None /\ UNCHANGED <<place, staged, stuck>>
    /\ Tells("ended", "ok")

(***************************************************************************)
(* The process                                                             *)
(***************************************************************************)
\* Quitting does not wait for the thread; a crash does not either.  Neither drops the
\* staging folder.
Exit ==
    /\ running # 0 /\ Opens(0)
    /\ UNCHANGED <<kind, disk, installs, skipped, checks>>

Launch ==
    /\ running = 0 /\ place # None /\ Opens(place.version)
    /\ UNCHANGED <<kind, disk, installs, skipped, checks>>

Next ==
    \/ Ask \/ Tomorrow \/ NoNews \/ Dismiss \/ Skip \/ Install \/ Progress \/ Failed \/ Installed
    \/ \E release \in Release : Offer(release)
    \/ Download \/ Stage \/ Verify \/ Replace \/ MoveAside \/ MoveIn \/ PutBack \/ DropStaging
    \/ Exit \/ Launch

Spec == Init /\ [][Next]_vars

-----------------------------------------------------------------------------
\* Whatever fails and wherever the process ends, the app in its place is one whose checks
\* passed, and when there is none the old one waits beside it; only a second failure, of
\* putting it back, may leave neither (swap, self_update.rs).
SwapLeavesApp ==
    /\ place # None => place.sound
    /\ place = None => aside # None \/ stuck

\* The old app is never lost (self_update.rs: "a failure after the old install was moved
\* puts it back"): it is, when the put-back fails and the staging folder is dropped.
AppKept == place # None \/ aside # None
=============================================================================
