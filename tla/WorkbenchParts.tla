-------------------------- MODULE WorkbenchParts --------------------------
(***************************************************************************)
(* What surrounds the terminals and the documents, side by side: the       *)
(* program's update, the project search, quick open's file list, the       *)
(* layouts, a preview, the file tree's listings, the connection to the     *)
(* daemon and the settings files.  They share no state, so a behaviour is  *)
(* one component's: part says which. (The preview is PreviewPart's.)       *)
(***************************************************************************)
EXTENDS PreviewPart, Functions

CONSTANTS
    Newest, MaxChecks, MaxInstalls, Walk, Texts, FirstTexts, Terms, Replacements, MatchCap,
    MaxScans, MaxTextChanges, Order, Top, Queries, IndexLimit, MaxAppear, MaxHides,
    MaxBuilds, Projects, Subs, Placements, MaxPanels, MaxTabs, MaxEdits, MaxStops,
    FolderNames, FileNames, MaxItems, MaxDiskChanges, MaxTreeActs, MaxRequests, MaxWrites,
    MaxLosses, MaxAttempts, Commands, Scopes, Defaults, Reserved, Chords, HandLists, Numbers,
    Low, High, Normal, Themes, MaxSettingActs, MaxHands

\* The tree's folders are those of a disk (FileTree numbers them).
ASSUME FoldersFinite == IsFiniteSet(FolderNames)

\* A walk lists each file once, and those of the root are files.
ASSUME OrderSound ==
    Order \in Seq(Range(Order)) /\ IsInjective(Order) /\ Top \subseteq Range(Order) /\ IndexLimit \in Nat

\* A setting's default is within its bounds, and only numbers are numbers in its file.
ASSUME BoundsSound == Low \in Int /\ High \in Int /\ Normal \in Low .. High /\ Numbers \subseteq Int

\* No default is given twice, or is the terminal's own where the command is live in one
\* (a test of keymap.rs looks after that); what is typed into the file is chords.
ASSUME ChordsSound ==
    /\ Commands \in Seq(Range(Commands)) /\ HandLists \subseteq Seq(Chords)
    /\ \A c \in Range(Commands) :
           /\ Defaults[c] \in Seq(Chords) /\ IsInjective(Defaults[c])
           /\ "terminal" \in Scopes[c] => Range(Defaults[c]) \cap Reserved = {}

\* Of the names in the settings file, the themes' are the user's own.
ASSUME ThemesNamed == {"none", "builtin"} \cap Themes = {}

VARIABLES
    part,  \* which component this behaviour is of
    kind, running, place, aside, staged, stuck, thread, events, installing, offer, notice,
    skipped, check, checks, installs,
    disk, buf, unsaved, term, settling, generation, scans, channel, results, status, dialog,
    searched, astray, changes,
    present, hidden, index, building, walk, list, quick, chosen, steady, seen, appeared,
    hides,
    up, book, subs, layout, dirty, rows, terminals, lost, edits, stops,
    treeDisk, trashed, active, phase, expanded, listings, clipboard, treeHidden, watch,
    treeEvents, old, opened, made, diskChanges, treeActs,
    link, call, asked, connected, reader, writer, waiters, nextId, outgoing, arrivals, net,
    wire, replies, daemon, daemonStuck, served, writes, losses, attempts,
    settingsFile, keysFile, themeFiles, settings, keymap, themes, draft, capturing, pending,
    noticed, byHand, bound, themeEdits, settingActs, hands

U == INSTANCE Updates
S == INSTANCE Searches WITH
         MaxChanges <- MaxTextChanges
I == INSTANCE ProjectFiles
L == INSTANCE Workspaces
T == INSTANCE FileTree WITH
         MaxActs <- MaxTreeActs, MaxChanges <- MaxDiskChanges, disk <- treeDisk,
         hidden <- treeHidden, events <- treeEvents, changes <- diskChanges,
         acts <- treeActs
C == INSTANCE ClientConn WITH
         stuck <- daemonStuck, events <- arrivals, answers <- replies
P == INSTANCE Preferences WITH
         MaxActs <- MaxSettingActs, seen <- noticed, edits <- themeEdits,
         acts <- settingActs

UVars ==
    <<kind, running, place, aside, staged, stuck, thread, events, installing, offer, notice,
    skipped, check, checks, installs>>
SVars ==
    <<disk, buf, unsaved, term, settling, generation, scans, channel, results, status,
    dialog, searched, astray, changes>>
IVars ==
    <<present, hidden, index, building, walk, list, quick, chosen, steady, seen, appeared,
    hides>>
LVars ==
    <<up, book, subs, layout, dirty, rows, terminals, lost, edits, stops>>
VVars ==
    <<previewed, doc, config, view, drawn, cap, editorFirst, trail, answers, reading>>
TVars ==
    <<treeDisk, trashed, active, phase, expanded, listings, clipboard, treeHidden, watch,
    treeEvents, old, opened, made, diskChanges, treeActs>>
CVars ==
    <<link, call, asked, connected, reader, writer, waiters, nextId, outgoing, arrivals,
    net, wire, replies, daemon, daemonStuck, served, writes, losses, attempts>>
PVars ==
    <<settingsFile, keysFile, themeFiles, settings, keymap, themes, draft, capturing,
    pending, noticed, byHand, bound, themeEdits, settingActs, hands>>
vars == <<part, UVars, SVars, IVars, LVars, VVars, TVars, CVars, PVars>>

\* The state of the components a behaviour is not of is held at nothing.
Nothing == <<>>

UIdle ==
    /\ kind = Nothing  /\ running = Nothing  /\ place = Nothing  /\ aside = Nothing
    /\ staged = Nothing  /\ stuck = Nothing  /\ thread = Nothing  /\ events = Nothing
    /\ installing = Nothing  /\ offer = Nothing  /\ notice = Nothing  /\ skipped = Nothing
    /\ check = Nothing  /\ checks = Nothing  /\ installs = Nothing
SIdle ==
    /\ disk = Nothing  /\ buf = Nothing  /\ unsaved = Nothing  /\ term = Nothing
    /\ settling = Nothing  /\ generation = Nothing  /\ scans = Nothing  /\ channel = Nothing
    /\ results = Nothing  /\ status = Nothing  /\ dialog = Nothing  /\ searched = Nothing
    /\ astray = Nothing  /\ changes = Nothing
IIdle ==
    /\ present = Nothing  /\ hidden = Nothing  /\ index = Nothing  /\ building = Nothing
    /\ walk = Nothing  /\ list = Nothing  /\ quick = Nothing  /\ chosen = Nothing
    /\ steady = Nothing  /\ seen = Nothing  /\ appeared = Nothing  /\ hides = Nothing
LIdle ==
    /\ up = Nothing  /\ book = Nothing  /\ subs = Nothing  /\ layout = Nothing
    /\ dirty = Nothing  /\ rows = Nothing  /\ terminals = Nothing  /\ lost = Nothing
    /\ edits = Nothing  /\ stops = Nothing
VIdle ==
    /\ previewed = Nothing  /\ doc = Nothing  /\ config = Nothing  /\ view = Nothing
    /\ drawn = Nothing  /\ cap = Nothing  /\ editorFirst = Nothing  /\ trail = Nothing
    /\ answers = Nothing  /\ reading = Nothing
TIdle ==
    /\ treeDisk = Nothing  /\ trashed = Nothing  /\ active = Nothing  /\ phase = Nothing
    /\ expanded = Nothing  /\ listings = Nothing  /\ clipboard = Nothing
    /\ treeHidden = Nothing  /\ watch = Nothing  /\ treeEvents = Nothing  /\ old = Nothing
    /\ opened = Nothing  /\ made = Nothing  /\ diskChanges = Nothing  /\ treeActs = Nothing
CIdle ==
    /\ link = Nothing  /\ call = Nothing  /\ asked = Nothing  /\ connected = Nothing
    /\ reader = Nothing  /\ writer = Nothing  /\ waiters = Nothing  /\ nextId = Nothing
    /\ outgoing = Nothing  /\ arrivals = Nothing  /\ net = Nothing  /\ wire = Nothing
    /\ replies = Nothing  /\ daemon = Nothing  /\ daemonStuck = Nothing  /\ served = Nothing
    /\ writes = Nothing  /\ losses = Nothing  /\ attempts = Nothing
PIdle ==
    /\ settingsFile = Nothing  /\ keysFile = Nothing  /\ themeFiles = Nothing
    /\ settings = Nothing  /\ keymap = Nothing  /\ themes = Nothing  /\ draft = Nothing
    /\ capturing = Nothing  /\ pending = Nothing  /\ noticed = Nothing  /\ byHand = Nothing
    /\ bound = Nothing  /\ themeEdits = Nothing  /\ settingActs = Nothing
    /\ hands = Nothing

Init ==
    \/ part = "updates" /\ U!Init /\ SIdle /\ IIdle /\ LIdle /\ VIdle /\ TIdle /\ CIdle /\ PIdle
    \/ part = "search" /\ S!Init /\ UIdle /\ IIdle /\ LIdle /\ VIdle /\ TIdle /\ CIdle /\ PIdle
    \/ part = "index" /\ I!Init /\ UIdle /\ SIdle /\ LIdle /\ VIdle /\ TIdle /\ CIdle /\ PIdle
    \/ part = "layouts" /\ L!Init /\ UIdle /\ SIdle /\ IIdle /\ VIdle /\ TIdle /\ CIdle /\ PIdle
    \/ part = "preview" /\ V!Init /\ UIdle /\ SIdle /\ IIdle /\ LIdle /\ TIdle /\ CIdle /\ PIdle
    \/ part = "tree" /\ T!Init /\ UIdle /\ SIdle /\ IIdle /\ LIdle /\ VIdle /\ CIdle /\ PIdle
    \/ part = "client" /\ C!Init /\ UIdle /\ SIdle /\ IIdle /\ LIdle /\ VIdle /\ TIdle /\ PIdle
    \/ part = "prefs" /\ P!Init /\ UIdle /\ SIdle /\ IIdle /\ LIdle /\ VIdle /\ TIdle /\ CIdle

Next ==
    \/ part = "updates" /\ U!Next /\ UNCHANGED <<part, SVars, IVars, LVars, VVars, TVars, CVars, PVars>>
    \/ part = "search" /\ S!Next /\ UNCHANGED <<part, UVars, IVars, LVars, VVars, TVars, CVars, PVars>>
    \/ part = "index" /\ I!Next /\ UNCHANGED <<part, UVars, SVars, LVars, VVars, TVars, CVars, PVars>>
    \/ part = "layouts" /\ L!Next /\ UNCHANGED <<part, UVars, SVars, IVars, VVars, TVars, CVars, PVars>>
    \/ part = "preview" /\ V!Next /\ UNCHANGED <<part, UVars, SVars, IVars, LVars, TVars, CVars, PVars>>
    \/ part = "tree" /\ T!Next /\ UNCHANGED <<part, UVars, SVars, IVars, LVars, VVars, CVars, PVars>>
    \/ part = "client" /\ C!Next /\ UNCHANGED <<part, UVars, SVars, IVars, LVars, VVars, TVars, PVars>>
    \/ part = "prefs" /\ P!Next /\ UNCHANGED <<part, UVars, SVars, IVars, LVars, VVars, TVars, CVars>>

Spec == Init /\ [][Next]_vars

---------------------------------------------------------------------------
(* The components' properties, of the behaviours that are theirs *)

\* An update that fails leaves the app that was there, in place or set aside, unless putting
\* it back fails as well (Updates: self_update.rs swap).
SwapLeavesApp == part = "updates" => U!SwapLeavesApp

\* Replacing in a project takes out the term that was found and nothing else (Searches:
\* app.rs commit, file_search.rs).
ReplacesFound == part = "search" => S!ReplacesFound

\* The list quick open filters is that of a walk, with all that was there throughout, and
\* what is picked matches the query its row was drawn of (ProjectFiles: project_files.rs, quick_open.rs).
IndexHonest ==
    /\ [](part = "index" => I!PicksWhatMatches)
    /\ [][part = "index" => I!ListedFromTheWalk]_vars

\* Every panel of a layout is in one place, and what is shown and focused exists
\* (Workspaces: workspace.rs, app.rs).
LayoutWhole == part = "layouts" => L!LayoutWhole

\* A preview shows its file's text in time, keeps the trail of what was read, and never
\* chases the editor it is synced with (Previews: preview.rs).
PreviewFollows == part = "preview" => V!ShowsTheFile /\ V!NeverLate /\ V!NeverChase /\ V!HistoryIsTheTrail

\* The tree lists what the disk holds, and what was moved keeps its place in it (FileTree:
\* explorer.rs, app.rs).
TreeFollows == part = "tree" => T!TreeIsTheDisk /\ T!MovesAreFollowed

\* A lost connection fails every request that waits on it, and no request gets another's
\* answer (ClientConn: client.rs, link.rs).
FailsAtOnce == part = "client" => C!FailsAtOnce /\ C!AnswersFindTheirAsker /\ C!LinkKnows

\* What is in force is what the files say, and a bound chord runs its command (Preferences:
\* settings.rs, keymap.rs, prefs.rs).
FilesInForce == part = "prefs" => P!FilesInForce /\ P!ChordsRun
=============================================================================
