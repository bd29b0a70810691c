--------------------------- MODULE DocumentParts ---------------------------
(***************************************************************************)
(* What an editor is made of, side by side: editing one document in its    *)
(* panels, its highlighter, its find bar, the open documents with their    *)
(* files and recovery, and the file tree's operations.  They share no  *)
(* state, so a behaviour is one component's: part says which.              *)
(***************************************************************************)
EXTENDS Integers, Sequences, FiniteSets

CONSTANTS
    Views, Typed, Opening, Indent, MaxEntries, MaxLen, MaxEdits, MaxCaretMoves, MaxActs, Places,
    Tokens, Stride, CacheLines, MaxLines, Texts, Queries, Replacements, MaxVersion, Files,
    Panels, MaxTexts, MaxFileMoves, MaxJobs, MaxLaunches, Names, MaxDepth, Limit, MaxItems,
    MaxOutside, MaxOps

\* A document's key is a file or, untitled, a panel, and no file is a panel (DocKey).
ASSUME KeysApart == Files \cap Panels = {}

VARIABLES
    part,  \* which component this behaviour is of
    text, undo, redo, sealed, sel, counted, clip, frame, rebuilt, edits, moves,
    lines, syntax, checkpoints, cache, late,
    findText, version, findSel, open, query, typing, matches, current, computed, reseat,
    anchor, findFrame,
    disk, told, docs, panels, saves, jobs, written, adopted, recovered, histories, phase,
    fresh, fileMoves, launches, raced, kept, mistaken,
    tree, bin, undoOps, redoOps, items, mixed, newItem, outside, ops

E == INSTANCE Editing WITH
         Panels <- Views, MaxMoves <- MaxCaretMoves
H == INSTANCE Highlight
F == INSTANCE FindBar WITH
         text <- findText, sel <- findSel, frame <- findFrame
D == INSTANCE Documents WITH
         MaxMoves <- MaxFileMoves, moves <- fileMoves
T == INSTANCE FileOps WITH
         undo <- undoOps, redo <- redoOps, fresh <- newItem

EVars ==
    <<text, undo, redo, sealed, sel, counted, clip, frame, rebuilt, edits, moves>>
HVars ==
    <<lines, syntax, checkpoints, cache, late>>
FVars ==
    <<findText, version, findSel, open, query, typing, matches, current, computed, reseat,
    anchor, findFrame>>
DVars ==
    <<disk, told, docs, panels, saves, jobs, written, adopted, recovered, histories, phase,
    fresh, fileMoves, launches, raced, kept, mistaken>>
TVars ==
    <<tree, bin, undoOps, redoOps, items, mixed, newItem, outside, ops>>
vars == <<part, EVars, HVars, FVars, DVars, TVars>>

\* The state of the components a behaviour is not of is held at nothing.
Nothing == <<>>

EIdle ==
    /\ text = Nothing  /\ undo = Nothing  /\ redo = Nothing  /\ sealed = Nothing
    /\ sel = Nothing  /\ counted = Nothing  /\ clip = Nothing  /\ frame = Nothing
    /\ rebuilt = Nothing  /\ edits = Nothing  /\ moves = Nothing
HIdle ==
    /\ lines = Nothing  /\ syntax = Nothing  /\ checkpoints = Nothing  /\ cache = Nothing
    /\ late = Nothing
FIdle ==
    /\ findText = Nothing  /\ version = Nothing  /\ findSel = Nothing  /\ open = Nothing
    /\ query = Nothing  /\ typing = Nothing  /\ matches = Nothing  /\ current = Nothing
    /\ computed = Nothing  /\ reseat = Nothing  /\ anchor = Nothing  /\ findFrame = Nothing
DIdle ==
    /\ disk = Nothing  /\ told = Nothing  /\ docs = Nothing  /\ panels = Nothing
    /\ saves = Nothing  /\ jobs = Nothing  /\ written = Nothing  /\ adopted = Nothing
    /\ recovered = Nothing  /\ histories = Nothing  /\ phase = Nothing  /\ fresh = Nothing
    /\ fileMoves = Nothing  /\ launches = Nothing  /\ raced = Nothing  /\ kept = Nothing
    /\ mistaken = Nothing
TIdle ==
    /\ tree = Nothing  /\ bin = Nothing  /\ undoOps = Nothing  /\ redoOps = Nothing
    /\ items = Nothing  /\ mixed = Nothing  /\ newItem = Nothing  /\ outside = Nothing
    /\ ops = Nothing

Init ==
    \/ part = "editing" /\ E!Init /\ HIdle /\ FIdle /\ DIdle /\ TIdle
    \/ part = "highlight" /\ H!Init /\ EIdle /\ FIdle /\ DIdle /\ TIdle
    \/ part = "find" /\ F!Init /\ EIdle /\ HIdle /\ DIdle /\ TIdle
    \/ part = "documents" /\ D!Init /\ EIdle /\ HIdle /\ FIdle /\ TIdle
    \/ part = "files" /\ T!Init /\ EIdle /\ HIdle /\ FIdle /\ DIdle

Next ==
    \/ part = "editing" /\ E!Next /\ UNCHANGED <<part, HVars, FVars, DVars, TVars>>
    \/ part = "highlight" /\ H!Next /\ UNCHANGED <<part, EVars, FVars, DVars, TVars>>
    \/ part = "find" /\ F!Next /\ UNCHANGED <<part, EVars, HVars, DVars, TVars>>
    \/ part = "documents" /\ D!Next /\ UNCHANGED <<part, EVars, HVars, FVars, TVars>>
    \/ part = "files" /\ T!Next /\ UNCHANGED <<part, EVars, HVars, FVars, DVars>>

Spec == Init /\ [][Next]_vars

---------------------------------------------------------------------------
(* The components' properties, of the behaviours that are theirs *)

\* Undo and redo replay exactly the texts there were (Editing: history.rs).
HistoryReplays == part = "editing" => E!HistoryReplays

\* Every panel's selection and wrap cache fit the text, whichever panel edited it (Editing:
\* selection.rs, wrap.rs).
ViewsFit == part = "editing" => E!SelectionsFit /\ E!WrapFollows

\* What an edit makes the highlighter forget is enough (Highlight: highlight.rs).
InvalidationSuffices == part = "highlight" => H!InvalidationSuffices

\* Replacing replaces matches of the query shown, in the text as it is (FindBar:
\* find_bar.rs, find.rs).
ReplacesMatches == part = "find" => F!ReplacesMatches

\* What a document says of its file is so (Documents: editor.rs check_disk).
DiskStateTrue == part = "documents" => D!DiskStateTrue

\* After quitting, unsaved text is on disk as it is on screen, but for files that came back
\* or took another's key, and nothing the user was done with comes back (Documents: recovery.rs tick, adopt).
RecoveryExact == part = "documents" => D!UnsavedComesBackElse /\ D!NoGhosts

\* No operation of the tree loses or replaces an item, and an undo finds the disk as its
\* operation left it and puts it back exactly (FileOps: fs.rs, file_ops.rs,
\* file_history.rs).
OperationsReverse == part = "files" => T!NothingLost /\ T!UndoReplays
=============================================================================
