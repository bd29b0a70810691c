----------------------------- MODULE Documents -----------------------------
(***************************************************************************)
(* Open documents, the files they come from and the recovery files that    *)
(* keep their unsaved text: editing, saving, the disk changing underneath, *)
(* moving and trashing, closing and displacing panels, auto-save, the      *)
(* recovery thread, quitting, crashing and the next launch.                *)
(*                                                                         *)
(* A text is a number: 0 is the empty one, every edit and every write from *)
(* outside makes a new one.  A file's stamp (length and time) stands for   *)
(* what it holds.  A document's key is its file, or its panel if untitled. *)
(***************************************************************************)
EXTENDS Integers, Sequences, FiniteSets

CONSTANTS
    Files, Panels,
    MaxTexts,     \* bound: edits and outside writes
    MaxMoves,     \* bound: renames, trashes, outside deletions, changes of the setting
    MaxJobs,      \* bound: jobs waiting when a tick adds its own
    MaxLaunches   \* bound: launches after the first

VARIABLES
    disk,         \* what each file holds, or Gone
    told,         \* the watcher has reported every change there was
    docs,         \* Documents: key :> document
    panels,       \* what each panel is: Closed, Untitled, or an editor of a file
    saves,        \* recovery files: key :> text
    jobs,         \* what the recovery thread has still to do
    written,      \* key :> version last sent to it
    adopted,      \* keys whose recovery file is from the last session
    recovered,    \* key :> text waiting for its editor to open
    histories,    \* the setting: recovery files hold undo histories
    phase,        \* of a frame: "logic", then "ui" (one action of the user); or "quit"
    fresh, moves, launches,  \* counters for the bounds
    raced,        \* keys an outside write slipped past: between a read or a write
                  \* and its stamp, or before a move or a save looked
    kept,         \* keys whose user chose to overwrite what the disk held
    mistaken      \* keys the number sent for may be taken for another text's: their deleted
                  \* file came back under unsaved edits, or another document took the key

vars == <<disk, told, docs, panels, saves, jobs, written, adopted, recovered,
          histories, phase, fresh, moves, launches, raced, kept, mistaken>>
recoveryVars == <<saves, jobs, written, adopted>>

Gone == -1
NoStamp == -2
Closed == "closed"
Untitled == "untitled"

Without(f, S) == [k \in DOMAIN f \ S |-> f[k]]
With(f, k, x) == [j \in DOMAIN f \cup {k} |-> IF j = k THEN x ELSE f[j]]

Doc(content, stamp) ==
    [text |-> content, saved |-> content, version |-> 0, disk |-> "insync", stamp |-> stamp]

Init ==
    /\ disk \in [Files -> {1, Gone}] /\ \E f \in Files : disk[f] = 1
    /\ told = TRUE /\ docs = <<>>
    /\ panels = [p \in Panels |-> Closed]
    /\ saves = <<>> /\ jobs = <<>> /\ written = <<>>
    /\ adopted = {} /\ recovered = <<>>
    /\ histories = TRUE /\ phase = "ui"
    /\ fresh = 2 /\ moves = 0 /\ launches = 0
    /\ raced = {} /\ kept = {} /\ mistaken = {}

---------------------------------------------------------------------------
(* editor.rs: a document *)

KeyOf(p) == IF panels[p] = Untitled THEN p ELSE panels[p]
Open(p)  == panels[p] # Closed
Shown(k) == {p \in Panels : Open(p) /\ KeyOf(p) = k}
ShownKeys == {KeyOf(p) : p \in {q \in Panels : Open(q)}}
PanelOn(p) == Open(p) /\ KeyOf(p) \in DOMAIN docs

Unsaved(d) == d.text # d.saved
IsDirty(d) == Unsaved(d) \/ d.disk = "deleted"

NewText(d, content) == [d EXCEPT !.text = content, !.version = @ + 1]
RestoreUnsaved(d, content) == NewText(d, content)
Saved(d) == [d EXCEPT !.saved = d.text, !.disk = "insync"]
Marked(d, state, stamp) == [d EXCEPT !.disk = state, !.stamp = stamp]
MovedTo(d, stamp) == [d EXCEPT !.stamp = stamp]

(* Mutant: what was said of the disk stays. *)
ReloadOnly(d, content) == [d EXCEPT !.text = content, !.saved = content, !.version = @ + 1, !.stamp = content]
ReloadFrom(d, content) ==
    [d EXCEPT !.text = content, !.saved = content, !.version = @ + 1, !.disk = "insync", !.stamp = content]

\* A clean buffer follows the disk; a dirty one is marked.
CheckDisk(d, f) ==
    LET now == disk[f]
    IN  IF now = Gone THEN Marked(d, "deleted", NoStamp)
        ELSE IF d.stamp = now /\ d.disk # "deleted" THEN d
        ELSE IF d.saved = now
             THEN Marked(d, IF d.disk = "deleted" /\ Unsaved(d) THEN "changed" ELSE "insync", now)
        ELSE IF Unsaved(d) THEN Marked(d, "changed", now)
        ELSE ReloadFrom(d, now)

\* An outside write lands on f or none does, while it is read or written; the stamp
\* taken afterwards is what the file holds then.
Slips(f, held) ==
    \/ disk' = held /\ raced' = raced \ {f} /\ UNCHANGED fresh
    \/ /\ fresh <= MaxTexts /\ fresh' = fresh + 1
       /\ disk' = [held EXCEPT ![f] = fresh] /\ raced' = raced \cup {f}
\* What is read is current unless something slipped in behind the stamp.
Stamped(d, f) == [d EXCEPT !.stamp = disk'[f]]

\* No more is known of a file whose document is read from it afresh.
Forgetting(f) == kept' = kept \ {f} /\ mistaken' = mistaken \ {f}

---------------------------------------------------------------------------
(* Panels open and draw their documents *)

Unrecorded == UNCHANGED <<jobs, saves, written, adopted, histories, launches>>
\* The user interface of a frame does what the user asks, and the next frame begins.
Frame == phase = "ui" /\ phase' = "logic" /\ Unrecorded
Idle == Frame /\ UNCHANGED <<disk, told, docs, panels, recovered, fresh, moves, raced, kept, mistaken>>
\* Its logic came first: notifications, auto-save, and last a tick of the recovery.
InLogic == phase = "logic" /\ UNCHANGED phase /\ Unrecorded
\* Other programs work beside it.
Beside == phase # "quit" /\ phase' = phase /\ Unrecorded

\* An untitled editor gets its text back from the last session if there is one.
DrawUntitled(p) ==
    /\ panels[p] = Untitled /\ p \notin DOMAIN docs
    /\ LET d == Doc(0, NoStamp)
       IN  docs' = With(docs, p, IF p \in DOMAIN recovered THEN RestoreUnsaved(d, recovered[p]) ELSE d)
    /\ recovered' = Without(recovered, {p})
    /\ Frame /\ UNCHANGED <<disk, told, panels, fresh, moves, raced, kept, mistaken>>

\* A file is read when its editor is drawn (ensure_file); one that went while throng
\* was closed, but whose unsaved text did not, comes back deleted.
DrawFile(p) ==
    LET f == panels[p]
        back == f \in DOMAIN recovered
        Restored(d) == IF back THEN RestoreUnsaved(d, recovered[f]) ELSE d
    IN  /\ f \in Files /\ f \notin DOMAIN docs
        /\ \/ /\ disk[f] # Gone
              /\ Slips(f, disk)
              /\ docs' = With(docs, f, Stamped(Restored(Doc(disk[f], Gone)), f))
           \/ /\ disk[f] = Gone /\ back
              /\ docs' = With(docs, f, Marked(Restored(Doc(0, NoStamp)), "deleted", NoStamp))
              /\ UNCHANGED <<disk, fresh, raced>>
        /\ recovered' = Without(recovered, {f})
        /\ Forgetting(f)
        /\ Frame /\ UNCHANGED <<told, panels, moves>>

\* A file opens in an editor of its own, unless one shows it already.
OpenInEditor(f) == \E p \in Panels :
    /\ ~Open(p) /\ \A q \in Panels : panels[q] # f
    /\ panels' = [panels EXCEPT ![p] = f]
    /\ Frame /\ UNCHANGED <<disk, told, docs, recovered, fresh, moves, raced, kept, mistaken>>
NewEditor(p) ==
    /\ ~Open(p)
    /\ panels' = [panels EXCEPT ![p] = Untitled]
    /\ Frame /\ UNCHANGED <<disk, told, docs, recovered, fresh, moves, raced, kept, mistaken>>

\* Quick Open puts a file in an editor that is there, unless that would displace the
\* only view of unsaved edits.
OpenHere(p, f) ==
    /\ Open(p) /\ panels[p] # f
    /\ ~(KeyOf(p) \in DOMAIN docs /\ IsDirty(docs[KeyOf(p)]) /\ Cardinality(Shown(KeyOf(p))) <= 1)
    /\ docs' = IF Cardinality(Shown(KeyOf(p))) <= 1 THEN Without(docs, {KeyOf(p)}) ELSE docs
    /\ panels' = [panels EXCEPT ![p] = f]
    /\ Frame /\ UNCHANGED <<disk, told, recovered, fresh, moves, raced, kept, mistaken>>

---------------------------------------------------------------------------
(* Editing and saving *)

Edit(p) ==
    /\ PanelOn(p) /\ fresh <= MaxTexts
    /\ docs' = [docs EXCEPT ![KeyOf(p)] = NewText(@, fresh)]
    /\ fresh' = fresh + 1
    /\ Frame /\ UNCHANGED <<disk, told, panels, recovered, moves, raced, kept, mistaken>>

\* Undoing back to the saved text is clean.
UndoEdits(p) ==
    /\ PanelOn(p) /\ Unsaved(docs[KeyOf(p)])
    /\ docs' = [docs EXCEPT ![KeyOf(p)] = NewText(@, docs[KeyOf(p)].saved)]
    /\ Frame /\ UNCHANGED <<disk, told, panels, recovered, fresh, moves, raced, kept, mistaken>>

\* What was sent of a key stays when another document takes it (rekey).
Taken(k, f) == (mistaken \ {k, f}) \cup ({f} \cap DOMAIN written)

\* The document k written to f (save_to).
SaveTo(k, f) ==
    LET d == docs[k]
    IN  /\ Slips(f, [disk EXCEPT ![f] = d.text])
        /\ docs' = With(Without(docs, {k}), f, Stamped(Saved(d), f))
        /\ kept' = kept \ {k, f}
        /\ mistaken' = IF k = f THEN mistaken ELSE Taken(k, f)

Save(p) ==
    /\ PanelOn(p) /\ KeyOf(p) \in Files
    /\ IsDirty(docs[KeyOf(p)])
    /\ SaveTo(KeyOf(p), KeyOf(p))
    /\ Frame /\ UNCHANGED <<told, panels, recovered, moves>>

\* Save As takes no file's place, and the document its key with it.
SaveAs(p, f) ==
    /\ PanelOn(p) /\ KeyOf(p) # f /\ disk[f] = Gone
    /\ SaveTo(KeyOf(p), f)
    /\ panels' = [panels EXCEPT ![p] = f]
    /\ Frame /\ UNCHANGED <<told, recovered, moves>>

AutoSave(f) ==
    /\ f \in DOMAIN docs
    /\ docs[f].disk = "insync" /\ IsDirty(docs[f])
    /\ SaveTo(f, f)
    /\ InLogic /\ UNCHANGED <<told, panels, recovered, moves>>

---------------------------------------------------------------------------
(* The disk changes outside, and the program hears of it *)

OutsideWrite(f) ==
    /\ fresh <= MaxTexts /\ fresh' = fresh + 1
    /\ disk' = [disk EXCEPT ![f] = fresh] /\ told' = FALSE
    /\ Beside /\ UNCHANGED <<docs, panels, recovered, moves, raced, kept, mistaken>>
OutsideDelete(f) ==
    /\ moves < MaxMoves /\ moves' = moves + 1
    /\ disk[f] # Gone /\ disk' = [disk EXCEPT ![f] = Gone] /\ told' = FALSE
    /\ Beside /\ UNCHANGED <<docs, panels, recovered, fresh, raced, kept, mistaken>>

Checked(S) == [k \in DOMAIN docs |-> IF k \in S THEN CheckDisk(docs[k], k) ELSE docs[k]]
Revived(S) == {k \in S \cap DOMAIN docs : docs[k].disk = "deleted" /\ Unsaved(docs[k]) /\ disk'[k] # Gone}

\* A notification makes every document of the folder look (process_watch).
Watch ==
    /\ ~told /\ told' = TRUE
    /\ UNCHANGED disk
    /\ docs' = Checked(Files) /\ mistaken' = mistaken \cup Revived(Files)
    /\ InLogic /\ UNCHANGED <<panels, recovered, fresh, moves, raced, kept>>

Reload(p) ==
    /\ PanelOn(p) /\ KeyOf(p) \in Files /\ disk[KeyOf(p)] # Gone /\ docs[KeyOf(p)].disk = "changed"
    /\ docs' = [docs EXCEPT ![KeyOf(p)] = ReloadFrom(@, disk[KeyOf(p)])]
    /\ raced' = raced \ {KeyOf(p)} /\ kept' = kept \ {KeyOf(p)}
    /\ Frame /\ UNCHANGED <<disk, told, panels, recovered, fresh, moves, mistaken>>
KeepMine(p) ==
    /\ PanelOn(p) /\ KeyOf(p) \in Files /\ docs[KeyOf(p)].disk = "changed"
    /\ LET f == KeyOf(p)
           now == IF disk[f] = Gone THEN NoStamp ELSE disk[f]
       IN  docs' = [docs EXCEPT ![f] = Marked(@, "insync", now)]
    /\ kept' = kept \cup {KeyOf(p)}
    /\ Frame /\ UNCHANGED <<disk, told, panels, recovered, fresh, moves, raced, mistaken>>

---------------------------------------------------------------------------
(* Files moved and trashed from the tree *)

\* A move takes the open document along, and every editor of the file (follow_move).
Rename(f, g) ==
    /\ moves < MaxMoves /\ moves' = moves + 1
    /\ disk[f] # Gone /\ disk[g] = Gone
    /\ disk' = [disk EXCEPT ![g] = disk[f], ![f] = Gone]
    /\ told' = FALSE
    /\ \/ /\ f \in DOMAIN docs
          /\ docs' = With(Without(docs, {f}), g, MovedTo(docs[f], disk[f]))
          /\ raced' = (raced \ {f, g}) \cup (IF f \in raced \/ docs[f].stamp # disk[f] THEN {g} ELSE {})
          /\ kept' = (kept \ {f, g}) \cup (IF f \in kept THEN {g} ELSE {})
          /\ mistaken' = Taken(f, g)
       \/ f \notin DOMAIN docs /\ UNCHANGED <<docs, raced, kept, mistaken>>
    /\ panels' = [p \in Panels |-> IF panels[p] = f THEN g ELSE panels[p]]
    /\ Frame /\ UNCHANGED <<recovered, fresh>>

Trash(f) ==
    /\ moves < MaxMoves /\ moves' = moves + 1
    /\ disk[f] # Gone /\ disk' = [disk EXCEPT ![f] = Gone]
    /\ docs' = IF f \in DOMAIN docs THEN [docs EXCEPT ![f] = Marked(@, "deleted", NoStamp)] ELSE docs
    /\ Frame /\ UNCHANGED <<told, panels, recovered, fresh, raced, kept, mistaken>>

---------------------------------------------------------------------------
(* Panels close *)

\* The panels closed one after the other: a document goes with its last.
Closing(S) ==
    /\ panels' = [p \in Panels |-> IF p \in S THEN Closed ELSE panels[p]]
    /\ docs' = Without(docs, {k \in DOMAIN docs : Shown(k) # {} /\ Shown(k) \subseteq S})
    /\ Frame /\ UNCHANGED <<disk, told, recovered, fresh, moves, raced, kept, mistaken>>

LastOfDirty(p) == /\ KeyOf(p) \in DOMAIN docs /\ IsDirty(docs[KeyOf(p)])
                  /\ Cardinality(Shown(KeyOf(p))) <= 1

ClosePanel(p) == Open(p) /\ ~LastOfDirty(p) /\ Closing({p})
\* The user was told that closing discards the changes, and said so.
ClosePanelAnyway(p) == Open(p) /\ LastOfDirty(p) /\ Closing({p})
\* A tab is refused while it has the only view of unsaved edits.
CloseTab(tab) ==
    /\ \A p \in tab : Open(p) /\ ~LastOfDirty(p)
    /\ Closing(tab)

---------------------------------------------------------------------------
(* recovery.rs *)

Version(k) == docs[k].version + (IF docs[k].disk = "deleted" THEN 1 ELSE 0)
DirtyDocs == {k \in DOMAIN docs : IsDirty(docs[k])}
Clean == DOMAIN docs \ DirtyDocs
NotOpen(sent) == DOMAIN sent \ DOMAIN docs

(* Mutant: a document is sent once. *)
DueOnce(sent, settled) == (settled \cap DirtyDocs) \ DOMAIN sent
\* The dirty documents whose last edit is old enough (all of them, when flushing) and
\* that were not sent as they are now.
Due(sent, settled) == {k \in settled \cap DirtyDocs : ~(k \in DOMAIN sent /\ sent[k] = Version(k))}

\* What one tick sends, in any order: the text of each document to write, Gone for
\* each file to delete.
Batch(sent, now) ==
    [k \in now \cup (Clean \cap (DOMAIN sent \cup adopted)) \cup NotOpen(sent) |->
        IF k \in now THEN docs[k].text ELSE Gone]

Tick(sent, now) ==
    /\ written' = [k \in now \cup (DOMAIN sent \ (Clean \cup NotOpen(sent))) |->
                     IF k \in now THEN Version(k) ELSE sent[k]]
    /\ adopted' = adopted \ (Clean \cup now)
    /\ mistaken' = mistaken \ (Clean \cup now)

\* A tick of the user interface.  When histories are no longer kept, every record is
\* to be stripped of its own and the open documents' are written anew.
TickRecovery(drop) == \E settled \in SUBSET DirtyDocs :
    /\ phase = "logic" /\ phase' = "ui"
    /\ drop => histories /\ moves < MaxMoves
    /\ histories' = (histories /\ ~drop) /\ moves' = IF drop THEN moves + 1 ELSE moves
    /\ LET before == IF drop THEN <<>> ELSE written
           now == Due(before, settled)
           batch == Batch(before, now)
       IN  /\ Tick(before, now)
           /\ IF DOMAIN batch = {} THEN UNCHANGED jobs ELSE Len(jobs) < MaxJobs /\ jobs' = Append(jobs, batch)
    /\ UNCHANGED <<disk, told, docs, panels, saves, recovered, fresh, launches, raced, kept>>

\* One file written or deleted.
Done(held, k, x) == IF x = Gone THEN Without(held, {k}) ELSE With(held, k, x)
\* What is left of k when all of js is done, one after the other: what the last of them
\* that names it says.
Naming(js, k) == {i \in DOMAIN js : k \in DOMAIN js[i]}
LastNaming(js, k) == CHOOSE i \in Naming(js, k) : \A j \in Naming(js, k) : j <= i
Left(held, js, k) ==
    IF Naming(js, k) # {} THEN js[LastNaming(js, k)][k]
    ELSE IF k \in DOMAIN held THEN held[k] ELSE Gone
AllDone(held, js) ==
    [k \in {j \in DOMAIN held \cup UNION {DOMAIN js[i] : i \in DOMAIN js} : Left(held, js, j) # Gone} |->
        Left(held, js, k)]

\* The recovery thread does one job.
Writer ==
    /\ phase # "quit" /\ jobs # <<>>
    /\ \E k \in DOMAIN Head(jobs) :
         /\ saves' = Done(saves, k, Head(jobs)[k])
         /\ LET left == Without(Head(jobs), {k})
            IN  jobs' = IF DOMAIN left = {} THEN Tail(jobs) ELSE [jobs EXCEPT ![1] = left]
    /\ UNCHANGED <<disk, told, docs, panels, written, adopted, recovered, histories,
                   phase, fresh, moves, launches, raced, kept, mistaken>>

---------------------------------------------------------------------------
(* The program saves its layouts, ends and starts again *)

\* Everything is written, and the recovery thread waited for (finish_close).
Quit ==
    /\ phase = "ui" /\ phase' = "quit"
    /\ LET now == Due(written, DirtyDocs)
       IN  Tick(written, now) /\ saves' = AllDone(saves, Append(jobs, Batch(written, now)))
    /\ jobs' = <<>>
    /\ UNCHANGED <<disk, told, docs, panels, recovered, histories, fresh, moves,
                   launches, raced, kept>>

\* Records of documents no layout shows are deleted, the others wait for their
\* editors (start_recovery, reconcile).
Restart ==
    /\ launches < MaxLaunches /\ launches' = launches + 1
    /\ phase' = "ui" /\ docs' = <<>> /\ told' = TRUE
    /\ saves' = Without(saves, DOMAIN saves \ ShownKeys)
    /\ recovered' = saves' /\ adopted' = DOMAIN saves'
    /\ jobs' = <<>> /\ written' = <<>>
    /\ raced' = {} /\ kept' = {} /\ mistaken' = {}
    /\ UNCHANGED <<disk, panels, histories, fresh, moves>>

Launch == phase = "quit" /\ Restart
\* A crash loses what the recovery thread has not written.
Crash == phase # "quit" /\ Restart

Next ==
    \/ \E p \in Panels :
         \/ DrawUntitled(p) \/ DrawFile(p) \/ NewEditor(p) \/ Edit(p) \/ UndoEdits(p) \/ Save(p)
         \/ Reload(p) \/ KeepMine(p) \/ ClosePanel(p) \/ ClosePanelAnyway(p)
         \/ \E f \in Files : OpenHere(p, f) \/ SaveAs(p, f)
    \/ \E f \in Files :
         \/ OpenInEditor(f) \/ AutoSave(f) \/ OutsideWrite(f) \/ OutsideDelete(f) \/ Trash(f)
         \/ \E g \in Files : Rename(f, g)
    \/ \E tab \in SUBSET Panels : tab # {} /\ CloseTab(tab)
    \/ Watch \/ Writer
    \/ \E drop \in BOOLEAN : TickRecovery(drop)
    \/ Idle
    \/ Quit \/ Crash \/ Launch

Spec == Init /\ [][Next]_vars

---------------------------------------------------------------------------
(* Properties *)

\* What a document says of its file is so, once every change is told of: in sync,
\* the file holds what was loaded or saved, or what the user chose to overwrite;
\* deleted, it is gone (editor.rs check_disk, save_to, moved_to, keep_mine).  An
\* outside write the stamp was taken after is not noticed, and is left out.
DiskStateTrue ==
    phase # "quit" /\ told => \A f \in (DOMAIN docs \cap Files) \ raced :
        /\ docs[f].disk = "insync" => \/ disk[f] = docs[f].saved
                                      \/ f \in kept /\ disk[f] \in {docs[f].stamp, Gone}
        /\ docs[f].disk = "deleted" => disk[f] = Gone

\* "Quitting never asks about unsaved edits: they are kept on disk as you type and
\* come back ... on the next launch" (README.md:56-58).
UnsavedComesBack ==
    phase = "quit" => \A k \in DirtyDocs : k \in DOMAIN saves /\ saves[k] = docs[k].text

\* So they do, except for edits made after the deleted file they belong to came back or
\* the document took another's key (recovery.rs tick, writer, reconcile): the text on disk
\* is the text on screen.
UnsavedComesBackElse ==
    phase = "quit" => \A k \in DirtyDocs \ mistaken : k \in DOMAIN saves /\ saves[k] = docs[k].text

\* After quitting no document that was saved, undone or discarded has a recovery file,
\* so nothing the user is done with comes back at the next launch (recovery.rs tick,
\* adopt); only what the last session left is kept until its editor opens.  Dropping the
\* histories forgets which documents have a file, and can leave one behind.
NoGhosts ==
    phase = "quit" /\ histories => DOMAIN saves \subseteq DirtyDocs \cup (adopted \ DOMAIN docs)

Lost == {k \in DOMAIN docs : /\ Unsaved(docs[k])
                             /\ \A j \in DOMAIN docs' : docs'[j].text # docs[k].text}
UserSays(p) == Edit(p) \/ UndoEdits(p) \/ Reload(p) \/ ClosePanelAnyway(p)

\* Unsaved text leaves the program only by the user's word: an edit, an undo, a reload
\* that was asked for, or a panel closed after the warning.
UnsavedKept == [][phase = "ui" /\ phase' = "logic" => Lost = {} \/ \E p \in Panels : UserSays(p)]_vars
=============================================================================
