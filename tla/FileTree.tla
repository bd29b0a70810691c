------------------------------ MODULE FileTree ------------------------------
(* The file tree of a project (explorer.rs): folders listed once and cached, *)
(* refreshed by watching those that are expanded (watch.rs, app.rs           *)
(* process_watch), while the tree's own operations, other programs, and      *)
(* switching to another project change what there is.                        *)
(*                                                                           *)
(* A path is a sequence of names below the root, at most two deep; a folder  *)
(* is a path of one of the FolderNames. Every item ever made has its own     *)
(* number, as the file system has. The names typed are any free ones; the    *)
(* undo history is FileOps', so an undo here is the move or restore it does. *)
EXTENDS Integers, Sequences, FiniteSets, SequencesExt, Functions

CONSTANTS
    FolderNames, FileNames,
    MaxItems,      \* bound: items ever made
    MaxChanges,    \* bound: changes other programs make
    MaxActs        \* bound: what the user does

Root == <<>>
Folders == {Root} \cup {<<n>> : n \in FolderNames}
Paths == Folders \cup {Append(d, n) : d \in Folders, n \in FileNames}
Parent(p) == Front(p)

VARIABLES
    disk,       \* path -> the number of the item there
    trashed,    \* what the last item trashed was, as on disk
    active,     \* the tree's project is the one on screen
    phase,      \* the frame: "logic" next, then "draw", then "act"
    expanded, listings, clipboard, hidden,    \* Explorer (hidden: the project's)
    watch,      \* watched path -> the item it watches (DirWatcher)
    events,     \* changes seen by the watches and not yet delivered
    old,        \* ghost: folders whose listing is older than their watch
    opened,     \* ghost: the items the user has expanded, and not trashed since
    made, changes, acts

tree == <<expanded, listings, clipboard, hidden>>
bounds == <<made, changes, acts>>
vars == <<disk, trashed, active, phase, tree, watch, events, old, opened, bounds>>

---------------------------------------------------------------------------
(* The file system *)

InIt(files, dir) == {p \in DOMAIN files : p # Root /\ Parent(p) = dir}
Tree(files, p) == {q \in DOMAIN files : IsPrefix(p, q)}
Free(p) == p \notin DOMAIN disk /\ Parent(p) \in DOMAIN disk /\ Parent(p) \in Folders

Rebased(p, from, to) ==
    IF IsPrefix(from, p) THEN to \o SubSeq(p, Len(from) + 1, Len(p)) ELSE p

Made(p, n) == [q \in {p} \cup DOMAIN disk |-> IF q = p THEN n ELSE disk[q]]
Gone(p) == Restrict(disk, DOMAIN disk \ Tree(disk, p))
Moved(from, to) ==
    [p \in (DOMAIN disk \ Tree(disk, from)) \cup {Rebased(q, from, to) : q \in Tree(disk, from)}
        |-> IF IsPrefix(to, p) THEN disk[Rebased(p, to, from)] ELSE disk[p]]

\* What the watches say of an item that came or went at `p`: a watch reports
\* under the path it was set on, whatever the folder is called by now.
Says(files, p) ==
    {Append(w, Last(p)) : w \in {v \in DOMAIN watch : watch[v] = files[Parent(p)]}}
        \cup {w \in DOMAIN watch : p \in DOMAIN files /\ watch[w] = files[p]}

---------------------------------------------------------------------------
(* Frames *)

\* `item` is a ghost: the number of what was cut or copied, 0 once it is trashed.
Nothing == [path |-> Root, cut |-> FALSE, item |-> 0]

Invalidated(dirs) == Restrict(listings, DOMAIN listings \ dirs)

\* Mutant: an event re-reads the folder it names only.
StaleByName(seen) == seen

\* process_watch: an event at a path is a change in its folder, or of itself.
Stale(seen) == seen \cup {Parent(p) : p \in seen \ {Root}}

Wanted == IF active THEN {p \in expanded : p \in DOMAIN disk} ELSE {}

\* DirWatcher::sync keeps the watches it has.
Logic ==
    /\ phase \in {"act", "logic"} /\ phase' = "draw"
    /\ \E seen \in SUBSET events :
           /\ events' = events \ seen
           /\ listings' = Invalidated(Stale(seen))
    /\ watch' = [p \in Wanted |-> IF p \in DOMAIN watch THEN watch[p] ELSE disk[p]]
    /\ old' = (old \cup (Wanted \ DOMAIN watch)) \cap DOMAIN listings'
    /\ UNCHANGED <<disk, trashed, active, expanded, clipboard, hidden, opened, bounds>>

\* read_listing, without what is hidden; a folder that is gone lists as empty.
Read(dir) == IF dir \in DOMAIN disk THEN InIt(disk, dir) \ hidden ELSE {}

ListingOf(dir) == IF dir \in DOMAIN listings THEN listings[dir] ELSE Read(dir)

\* collect_rows: the folders whose rows are drawn.
Shown == {Root} \cup (ListingOf(Root) \cap expanded \cap Folders)

Draw ==
    /\ phase = "draw" /\ phase' = "act"
    /\ listings' = IF active THEN [d \in Shown \cup DOMAIN listings |-> ListingOf(d)] ELSE listings
    /\ old' = old \ {d \in Shown : active /\ d \notin DOMAIN listings}
    /\ UNCHANGED <<disk, trashed, active, expanded, clipboard, hidden, watch, events, opened, bounds>>

---------------------------------------------------------------------------
(* What the user does with the tree *)

\* One action a frame, once it is drawn.
Act ==
    /\ phase = "act" /\ acts < MaxActs
    /\ phase' = "logic" /\ acts' = acts + 1 /\ changes' = changes

InTree == Act /\ active /\ active' = active

Rows == UNION {listings[d] : d \in Shown \cap DOMAIN listings}

Toggle(d) ==
    /\ InTree /\ d \in Rows \cap Folders
    /\ LET items == {disk[p] : p \in {d} \cap DOMAIN disk}
       IN IF d \in expanded THEN expanded' = expanded \ {d} /\ opened' = opened \ items
          ELSE expanded' = expanded \cup {d} /\ opened' = opened \cup items
    /\ UNCHANGED <<disk, trashed, listings, clipboard, hidden, watch, events, old, made>>

Refresh ==
    /\ InTree /\ listings' = <<>> /\ old' = {}
    /\ UNCHANGED <<disk, trashed, expanded, clipboard, hidden, watch, events, opened, made>>

HideUnhide(p) ==
    /\ InTree /\ (p \in hidden \/ p \in Rows)
    /\ hidden' = (hidden \ {p}) \cup ({p} \ hidden)
    /\ listings' = <<>> /\ old' = {}
    /\ UNCHANGED <<disk, trashed, expanded, clipboard, watch, events, opened, made>>

\* A new file or folder: begin_create expands where it goes.
Create(p) ==
    /\ InTree /\ Free(p) /\ made < MaxItems
    /\ Parent(p) \in (Rows \cap Folders) \cup {Root}
    /\ disk' = Made(p, made + 1) /\ made' = made + 1
    /\ expanded' = expanded \cup {Parent(p)} /\ opened' = opened \cup {disk[Parent(p)]}
    /\ listings' = Invalidated({Parent(p)}) /\ old' = old \ {Parent(p)}
    /\ events' = events \cup Says(disk', p)
    /\ UNCHANGED <<trashed, clipboard, hidden, watch>>

\* Explorer::follow_move
ClipFollows(from, to) == [clipboard EXCEPT !.path = Rebased(@, from, to)]

\* A rename, a move to another folder, a cut pasted, or one of them undone.
Move(from, to) ==
    /\ InTree /\ from \in DOMAIN disk \ {Root} /\ Free(to)
    /\ from \in Rows \cup {clipboard.path} /\ ~IsPrefix(from, to) /\ (from \in Folders <=> to \in Folders)
    /\ disk' = Moved(from, to)
    /\ expanded' = {Rebased(p, from, to) : p \in expanded}
    /\ \E pasted \in {FALSE, clipboard.cut /\ clipboard.path = from} :
           clipboard' = IF pasted THEN Nothing ELSE ClipFollows(from, to)
    /\ listings' = Invalidated({Parent(from), Parent(to)})
    /\ old' = old \ {Parent(from), Parent(to)}
    /\ events' = events \cup Says(disk, from) \cup Says(disk', to)
    /\ UNCHANGED <<trashed, hidden, watch, opened, made>>

\* A copy, pasted or dragged: the folder it lands in opens.
Copy(from, to) ==
    /\ InTree /\ from \in DOMAIN disk \ Folders /\ Free(to) /\ made < MaxItems
    /\ from \in Rows \cup {clipboard.path}
    /\ disk' = Made(to, made + 1) /\ made' = made + 1
    /\ expanded' = expanded \cup {Parent(to)} /\ opened' = opened \cup {disk[Parent(to)]}
    /\ listings' = Invalidated({Parent(to)}) /\ old' = old \ {Parent(to)}
    /\ events' = events \cup Says(disk', to)
    /\ UNCHANGED <<trashed, clipboard, hidden, watch>>

CutOrCopy(p) ==
    /\ InTree /\ p \in Rows \cap DOMAIN disk
    /\ \E cut \in BOOLEAN : clipboard' = [path |-> p, cut |-> cut, item |-> disk[p]]
    /\ UNCHANGED <<disk, trashed, expanded, listings, hidden, watch, events, old, opened, made>>

\* disk_changed_at
Trash(p) ==
    /\ InTree /\ p \in Rows \cap DOMAIN disk
    /\ trashed' = Restrict(disk, Tree(disk, p)) /\ disk' = Gone(p)
    /\ listings' = Invalidated({p, Parent(p)}) /\ old' = old \ {p, Parent(p)}
    /\ events' = events \cup Says(disk, p)
    /\ opened' = opened \ Range(trashed')
    /\ clipboard' = IF clipboard.item \in Range(trashed') THEN [clipboard EXCEPT !.item = 0] ELSE clipboard
    /\ UNCHANGED <<expanded, hidden, watch, made>>

Restore ==
    \E p \in DOMAIN trashed :
        /\ InTree /\ Tree(trashed, p) = DOMAIN trashed /\ Free(p)
        /\ disk' = [q \in DOMAIN trashed \cup DOMAIN disk |->
                       IF q \in DOMAIN trashed THEN trashed[q] ELSE disk[q]]
        /\ trashed' = <<>>
        /\ listings' = Invalidated({p, Parent(p)}) /\ old' = old \ {p, Parent(p)}
        /\ events' = events \cup Says(disk', p)
        /\ UNCHANGED <<expanded, clipboard, hidden, watch, opened, made>>

\* Another project comes on screen, or this one back.
Switch ==
    /\ Act /\ active' = ~active
    /\ UNCHANGED <<disk, trashed, tree, watch, events, old, opened, made>>

User ==
    \/ Refresh \/ Restore \/ Switch
    \/ \E p \in Paths : \/ Toggle(p) \/ HideUnhide(p) \/ Create(p) \/ CutOrCopy(p) \/ Trash(p)
                        \/ \E q \in Paths : Move(p, q) \/ Copy(p, q)

---------------------------------------------------------------------------
(* Other programs *)

Outside ==
    /\ changes < MaxChanges /\ changes' = changes + 1
    /\ \E p \in Paths \ {Root} :
          \/ /\ Free(p) /\ made < MaxItems
             /\ disk' = Made(p, made + 1) /\ made' = made + 1
             /\ events' = events \cup Says(disk', p)
          \/ /\ p \in DOMAIN disk
             /\ disk' = Gone(p) /\ made' = made
             /\ events' = events \cup UNION {Says(disk, q) : q \in Tree(disk, p)}
    /\ UNCHANGED <<trashed, active, phase, tree, watch, old, opened, acts>>

Init ==
    /\ disk = [p \in {Root} \cup {<<n>> : n \in FolderNames} |->
                 IF p = Root THEN 1
                 ELSE (CHOOSE f \in [FolderNames -> 2 .. Cardinality(FolderNames) + 1] :
                          IsInjective(f))[Head(p)]]
    /\ trashed = <<>> /\ active = TRUE /\ phase = "logic"
    /\ expanded = {Root} /\ listings = <<>> /\ clipboard = Nothing /\ hidden = {}
    /\ watch = <<>> /\ events = {} /\ old = {} /\ opened = {1}
    /\ made = Cardinality(FolderNames) + 1 /\ changes = 0 /\ acts = 0

Next == Logic \/ Draw \/ User \/ Outside

Spec == Init /\ [][Next]_vars

---------------------------------------------------------------------------

\* Once the news of the changes made so far has arrived and been drawn, every
\* folder on screen lists what is on disk, less what is hidden: whoever made the
\* changes, and however they met the frames, the watches being set and the
\* tree's own operations. It does not hold of a folder listed before its watch was
\* set (one collapsed, gone or in the background since: nothing re-reads it), nor of
\* one deleted and made anew between two frames, whose watch is of the old one.
TreeIsTheDisk ==
    phase = "act" /\ active /\ events = {} =>
        \A d \in Shown \ old :
            d \in DOMAIN watch /\ d \in DOMAIN disk /\ watch[d] = disk[d]
                => listings[d] = InIt(disk, d) \ hidden

\* What was cut or copied, and what was expanded, stays so wherever the tree's
\* own operations move it (Explorer::follow_move), until it is trashed: a path is
\* all that is kept, and while its item is in the trash another may take it.
MovesAreFollowed ==
    \A p \in DOMAIN disk :
        /\ disk[p] = clipboard.item => p = clipboard.path
        /\ disk[p] \in opened => p \in expanded
=============================================================================
