----------------------------- MODULE Workspaces -----------------------------
(* The docking workspaces: the layout of a project and of each               *)
(* sub-workspace (core/workspace.rs), the panels that are shown in, or moved *)
(* to, a sub-workspace and come back (app.rs), and their rows in the         *)
(* database, each saved on its own some time after it changed.               *)
(*                                                                           *)
(* A split tree is its leaves in layout order, each a sequence of stacked    *)
(* panels: the axes, the shares and which panel of a leaf shows are left     *)
(* out. A panel is a terminal, a mirror of a project's panel, or untyped     *)
(* (which stands for every kind no sub-workspace shows). Titles, and which   *)
(* windows are open, are left out.                                           *)
EXTENDS Integers, Sequences, FiniteSets, SequencesExt

CONSTANTS
    Projects,     \* ids a project may have
    Subs,         \* ids a sub-workspace may have
    Placements,   \* where a split may put the new panel
    MaxPanels,    \* bound: panels in the program and in its database
    MaxTabs,      \* bound: tabs of a layout
    MaxEdits,     \* bound: what the user does
    MaxStops      \* bound: times the program ends

NoPanel == 0
NoTab == 0

VARIABLES
    up,           \* the program runs
    book,         \* the projects
    subs,         \* the list of sub-workspaces, saved as it changes
    layout,       \* the loaded workspaces (app.rs, workspaces)
    dirty,        \* those with something unsaved (dirty_at)
    rows,         \* the saved layouts
    terminals,    \* panels whose terminal has been started and not killed
    lost,         \* an end of the program or a bad row lost part of a layout
    edits, stops

vars == <<up, book, subs, layout, dirty, rows, terminals, lost, edits, stops>>

---------------------------------------------------------------------------
(* Split trees *)

Untyped == [is |-> "untyped"]
Terminal == [is |-> "terminal"]
Mirror(w, p) == [is |-> "mirror", project |-> w, panel |-> p]

PanelsOf(tab) == ToSet(FlattenSeq(tab.leaves))

\* SplitTree::remove: leaves left empty collapse.
Pruned(leaves, p) ==
    SelectSeq([i \in DOMAIN leaves |-> SelectSeq(leaves[i], LAMBDA q : q # p)],
              LAMBDA leaf : leaf # <<>>)

\* SplitTree::insert
Inserted(leaves, anchor, p, placement) ==
    LET i == SelectInSeq(leaves, LAMBDA leaf : anchor \in ToSet(leaf))
        k == SelectInSeq(leaves[i], LAMBDA q : q = anchor)
    IN CASE placement = "stack" -> [leaves EXCEPT ![i] = InsertAt(@, k + 1, p)]
         [] placement = "after" -> InsertAt(leaves, i + 1, <<p>>)
         [] placement = "before" -> InsertAt(leaves, i, <<p>>)

---------------------------------------------------------------------------
(* Layouts *)

TabOf(l, p) == SelectInSeq(l.tabs, LAMBDA t : p \in PanelsOf(t))   \* 0: in none
TabAt(l, id) == SelectInSeq(l.tabs, LAMBDA t : t.id = id)

\* The active tab's active panel, where a panel with no anchor goes.
ActivePanel(l) ==
    IF l.tabs = <<>> THEN NoPanel
    ELSE LET at == TabAt(l, l.active)
         IN l.tabs[IF at = 0 THEN 1 ELSE at].active

OwnTab(l, p) ==
    LET ids == {l.tabs[i].id : i \in DOMAIN l.tabs}
        id == CHOOSE n \in 1 .. Len(l.tabs) + 1 : n \notin ids
    IN [l EXCEPT !.tabs = Append(@, [id |-> id, leaves |-> <<<<p>>>>, active |-> p]),
                 !.active = id]

Place(l, p, anchor, placement) ==
    LET wanted == {a \in {anchor} : TabOf(l, a) # 0}
        other == {a \in {ActivePanel(l)} : TabOf(l, a) # 0}
        PutAt(a) ==
            LET i == TabOf(l, a)
            IN [l EXCEPT !.tabs[i].leaves = Inserted(@, a, p, placement),
                         !.tabs[i].active = p,
                         !.active = l.tabs[i].id]
    IN IF wanted \cup other = {} THEN OwnTab(l, p)
       ELSE PutAt(CHOOSE a \in IF wanted = {} THEN other ELSE wanted : TRUE)

CloseTabInner(l, i) ==
    LET left == RemoveAt(l.tabs, i)
    IN [l EXCEPT !.tabs = left,
                 !.active = IF @ \notin {l.tabs[i].id, NoTab} THEN @
                            ELSE IF left = <<>> THEN NoTab
                            ELSE left[IF i > 1 THEN i - 1 ELSE 1].id]

Detach(l, p) ==
    LET i == TabOf(l, p)
        order == FlattenSeq(l.tabs[i].leaves)
        k == SelectInSeq(order, LAMBDA q : q = p)
        left == Pruned(l.tabs[i].leaves, p)
    IN IF left = <<>> THEN CloseTabInner(l, i)
       ELSE [l EXCEPT !.tabs[i].leaves = left,
                      !.tabs[i].active =
                          IF @ # p THEN @ ELSE order[IF k > 1 THEN k - 1 ELSE 2]]

Without(panels, gone) == [p \in DOMAIN panels \ gone |-> panels[p]]

RemovePanel(l, p) ==
    LET out == IF TabOf(l, p) # 0 THEN Detach(l, p) ELSE l
    IN IF TabOf(l, p) = 0 /\ p \notin l.away THEN l
       ELSE [out EXCEPT !.away = @ \ {p}, !.panels = Without(@, {p})]

SendAway(l, p) ==
    IF TabOf(l, p) = 0 THEN l ELSE [Detach(l, p) EXCEPT !.away = @ \cup {p}]

BringBack(l, p) == Place([l EXCEPT !.away = @ \ {p}], p, NoPanel, "stack")

Focused(l, p) ==
    LET i == TabOf(l, p)
    IN IF i = 0 THEN l ELSE [l EXCEPT !.tabs[i].active = p, !.active = l.tabs[i].id]

InTabs(l) == UNION {PanelsOf(l.tabs[i]) : i \in DOMAIN l.tabs}

\* Layout::check
Sound(l) ==
    /\ \A i \in DOMAIN l.tabs : l.tabs[i].leaves # <<>>
    /\ IsInjective(FlattenSeq(FlattenSeq([i \in DOMAIN l.tabs |-> l.tabs[i].leaves])))
    /\ InTabs(l) \subseteq DOMAIN l.panels

\* Layout::prune_orphans
PruneOrphans(l) ==
    LET away == l.away \cap DOMAIN l.panels
    IN [l EXCEPT !.away = away,
                 !.panels = Without(@, DOMAIN @ \ (InTabs(l) \cup away))]

TerminalsOf(l) == {p \in DOMAIN l.panels : l.panels[p] = Terminal}

MirrorsOf(l, w, only) ==
    {p \in DOMAIN l.panels : \E q \in only : l.panels[p] = Mirror(w, q)}

---------------------------------------------------------------------------
(* What the program holds, and the operations on it *)

State == [subs |-> subs, layout |-> layout, dirty |-> dirty, rows |-> rows,
          terminals |-> terminals]

Become(st) ==
    /\ subs' = st.subs /\ layout' = st.layout /\ dirty' = st.dirty
    /\ rows' = st.rows /\ terminals' = st.terminals

UsedPanels(st) ==
    UNION {DOMAIN st.layout[w].panels : w \in DOMAIN st.layout}
        \cup UNION {DOMAIN st.rows[w].panels : w \in DOMAIN st.rows}

\* PanelId::new
Fresh(st) ==
    LET used == UsedPanels(st)
    IN CHOOSE p \in 1 .. Cardinality(used) + 1 :
           p \notin used /\ \A q \in 1 .. p - 1 : q \in used

Edited(st, w, l) == [st EXCEPT !.layout[w] = l, !.dirty = @ \cup {w}]

\* A panel made: its record, and its terminal when it is one.
Made(st, w, l, p, kind) ==
    [Edited(st, w, [l EXCEPT !.panels = (p :> kind) @@ @])
        EXCEPT !.terminals = IF kind = Terminal THEN @ \cup {p} ELSE @]

AddTab(st, w, kind) ==
    LET p == Fresh(st) IN Made(st, w, OwnTab(st.layout[w], p), p, kind)

AddPanel(st, w, anchor, placement, kind) ==
    LET l == st.layout[w]
        a == IF anchor = NoPanel THEN ActivePanel(l) ELSE anchor
        p == Fresh(st)
    IN IF TabOf(l, a) = 0 THEN AddTab(st, w, kind)
       ELSE Made(st, w, Place(l, p, a, placement), p, kind)

Blank == [tabs |-> <<>>, active |-> NoTab, panels |-> <<>>, away |-> {}]

\* Layout::new_default, with the kind its panel is given at once.
NewLayout(st, w, kind) == AddTab([st EXCEPT !.layout = (w :> Blank) @@ @], w, kind)

\* return_home
ReturnHome(st, w, p) ==
    IF w \in DOMAIN st.layout /\ p \in st.layout[w].away
    THEN Edited(st, w, BringBack(st.layout[w], p)) ELSE st

\* remove_sub
RemoveSub(st, s) ==
    LET l == st.layout[s]
        gone == [st EXCEPT !.layout = Without(@, {s}), !.dirty = @ \ {s}]
        mirrors == {m \in DOMAIN l.panels : l.panels[m].is = "mirror"}
        home == FoldSet(LAMBDA m, x : ReturnHome(x, l.panels[m].project, l.panels[m].panel),
                        gone, mirrors)
    IN [home EXCEPT !.terminals = @ \ TerminalsOf(l),
                    !.rows = Without(@, {s}), !.subs = @ \ {s}]

EndIfEmpty(st, s) == IF st.layout[s].tabs = <<>> THEN RemoveSub(st, s) ELSE st

\* drop_mirrors
DropMirrors(st, w, only) ==
    LET DropIn(s, x) ==
            LET mirrors == MirrorsOf(x.layout[s], w, only)
                l == FoldSet(LAMBDA m, y : RemovePanel(y, m), x.layout[s], mirrors)
            IN IF mirrors = {} THEN x ELSE EndIfEmpty(Edited(x, s, l), s)
    IN FoldSet(DropIn, st, st.subs)

\* Mutant: the mirrors of a project's panel stay when it is closed.
ClosePanelHere(st, w, p) ==
    LET kind == st.layout[w].panels[p]
        let_go == IF kind = Terminal THEN [st EXCEPT !.terminals = @ \ {p}]
                  ELSE IF kind.is = "mirror" THEN ReturnHome(st, kind.project, kind.panel) ELSE st
        closed == Edited(let_go, w, RemovePanel(let_go.layout[w], p))
    IN IF w \in st.subs THEN EndIfEmpty(closed, w) ELSE closed

\* close_panel, of a panel with nothing to ask about
ClosePanel(st, w, p) ==
    LET kind == st.layout[w].panels[p]
        let_go == CASE kind = Terminal -> [st EXCEPT !.terminals = @ \ {p}]
                    [] kind.is = "mirror" -> ReturnHome(st, kind.project, kind.panel)
                    [] OTHER -> st
        closed == Edited(let_go, w, RemovePanel(let_go.layout[w], p))
    IN IF w \in st.subs THEN EndIfEmpty(closed, w) ELSE DropMirrors(closed, w, {p})

\* sync_to: into `s`, made when it is not there yet, beside the active panel of
\* `tab` or in a tab of its own; `moved` takes the panel out of its project's tabs.
Synced(st, w, p, s, tab, moved) ==
    LET mirror == Mirror(w, p)
        shown == IF s \notin st.subs
                 THEN NewLayout([st EXCEPT !.subs = @ \cup {s}], s, mirror)
                 ELSE LET at == TabAt(st.layout[s], tab)
                      IN IF at = 0 THEN AddTab(st, s, mirror)
                         ELSE AddPanel(st, s, st.layout[s].tabs[at].active, "after", mirror)
    IN IF ~moved THEN shown ELSE Edited(shown, w, SendAway(shown.layout[w], p))

Showable(w, p) == w \notin subs /\ layout[w].panels[p] = Terminal

\* load_workspace: the saved row; a fresh layout when there is none, or when
\* it cannot be read and has been put aside.
Loaded(st, w, bad) ==
    IF w \in DOMAIN st.rows /\ w \notin bad
    THEN LET l == PruneOrphans(st.rows[w])
         IN [st EXCEPT !.layout = (w :> l) @@ @,
                       !.dirty = IF l = st.rows[w] THEN @ ELSE @ \cup {w},
                       !.terminals = @ \cup TerminalsOf(l)]
    ELSE NewLayout(st, w, IF w \in st.subs THEN Untyped ELSE Terminal)

---------------------------------------------------------------------------
(* What the user does *)

\* Bounds on what one more step of the user may add.
UserDid(st) ==
    /\ up /\ edits < MaxEdits /\ edits' = edits + 1
    /\ UsedPanels(st) \subseteq 1 .. MaxPanels
    /\ \A w \in DOMAIN st.layout : Len(st.layout[w].tabs) =< MaxTabs
    /\ Become(st)
    /\ UNCHANGED <<up, lost, stops>>

Did(st) == UserDid(st) /\ UNCHANGED book

NewTab(w) == Did(AddTab(State, w, Terminal))

\* The panel menu's splits, the "+" of a leaf, which adds an untyped panel, and the
\* chords', which act on the panel last focused in the main window: it may be away.
Split(w, p) ==
    \/ \E placement \in Placements : Did(AddPanel(State, w, p, placement, Terminal))
    \/ \E placement \in Placements \ {"before"} : Did(AddPanel(State, w, p, placement, Untyped))

\* A file, a search or a preview opened: beside the panel last focused in the
\* main window, which may by now be away.
OpenBeside(w, anchor) == Did(AddPanel(State, w, anchor, "stack", Untyped))

\* The picker turns an untyped panel into a terminal; ending a terminal turns
\* it back. (A mirror's own kind never changes: its content's does.)
SetKind(w, p) ==
    /\ layout[w].panels[p].is # "mirror"
    /\ LET kind == IF layout[w].panels[p] = Terminal THEN Untyped ELSE Terminal
       IN Did([Edited(State, w, [layout[w] EXCEPT !.panels[p] = kind])
                  EXCEPT !.terminals = IF kind = Terminal THEN @ \cup {p} ELSE @ \ {p}])

\* Ending the terminal a mirror shows: it is done to the project's own panel.
EndMirrored(s, m) ==
    LET of == layout[s].panels[m]
    IN /\ of.is = "mirror" /\ of.project \in DOMAIN layout
       /\ of.panel \in TerminalsOf(layout[of.project])
       /\ Did([Edited(State, of.project,
                      [layout[of.project] EXCEPT !.panels[of.panel] = Untyped])
                  EXCEPT !.terminals = @ \ {of.panel}])

\* A panel dragged within its tab, by the dock.
Drag(w, p) ==
    LET i == TabOf(layout[w], p)
    IN \E a \in PanelsOf(layout[w].tabs[i]) \ {p}, placement \in Placements :
           Did(Edited(State, w,
                 [layout[w] EXCEPT
                     !.tabs[i].leaves = Inserted(Pruned(@, p), a, p, placement),
                     !.tabs[i].active = p]))

\* The focus alone marks nothing dirty.
FocusPanel(w, p) ==
    /\ Focused(layout[w], p) # layout[w]
    /\ Did([State EXCEPT !.layout[w] = Focused(layout[w], p)])

Close(w, p) == Did(ClosePanel(State, w, p))

CloseTab(w, i) ==
    LET Next1(st, p) == ClosePanel(st, w, p)
    IN Did(FoldLeft(Next1, State, FlattenSeq(layout[w].tabs[i].leaves)))

MoveInStrip(w, i) ==
    \E to \in DOMAIN layout[w].tabs \ {i} :
        Did(Edited(State, w,
              [layout[w] EXCEPT !.tabs = InsertAt(RemoveAt(@, i), to, layout[w].tabs[i])]))

\* Sync to, Move to, and a panel torn off its dock (into a new one, moved).
SyncTo(w, p) ==
    /\ Showable(w, p)
    /\ \E s \in Subs, moved \in BOOLEAN :
       \E tab \in {NoTab} \cup IF s \in subs THEN {t.id : t \in ToSet(layout[s].tabs)} ELSE {} :
           Did(Synced(State, w, p, s, tab, moved))

MoveTab(w, i) ==
    LET movable == SelectSeq(FlattenSeq(layout[w].tabs[i].leaves), LAMBDA p : Showable(w, p))
    IN /\ movable # <<>>
       /\ \E s \in Subs \ subs :
              LET Move(st, p) ==
                      Synced(st, w, p, s, IF s \in st.subs THEN st.layout[s].tabs[1].id ELSE NoTab, TRUE)
              IN Did(FoldLeft(Move, State, movable))

DestroySub(s) == Did(RemoveSub(State, s))

NewProject ==
    \E w \in Projects \ book :
        /\ UserDid(NewLayout(State, w, Terminal))
        /\ book' = book \cup {w}

DeleteProject(w) ==
    LET cut == DropMirrors(State, w, DOMAIN layout[w].panels)
        gone == [cut EXCEPT !.terminals = @ \ TerminalsOf(cut.layout[w]),
                            !.layout = Without(@, {w}), !.dirty = @ \ {w},
                            !.rows = Without(@, {w})]
    IN UserDid(gone) /\ book' = book \ {w}

User ==
    \/ \E w \in DOMAIN layout :
          \/ NewTab(w)
          \/ \E p \in InTabs(layout[w]) :
                SetKind(w, p) \/ Drag(w, p) \/ FocusPanel(w, p) \/ SyncTo(w, p)
          \/ \E p \in DOMAIN layout[w].panels : Split(w, p) \/ Close(w, p)
          \/ \E m \in DOMAIN layout[w].panels : EndMirrored(w, m)
          \/ \E anchor \in DOMAIN layout[w].panels : OpenBeside(w, anchor)
          \/ \E i \in DOMAIN layout[w].tabs : CloseTab(w, i) \/ MoveInStrip(w, i) \/ MoveTab(w, i)
    \/ \E s \in subs : DestroySub(s)
    \/ NewProject
    \/ \E w \in book : DeleteProject(w)

---------------------------------------------------------------------------
(* Saving, ending and starting *)

\* flush_layouts: a layout that does not pass the check is not saved.
Flushed(st, w) ==
    LET l == PruneOrphans(st.layout[w])
    IN [st EXCEPT !.layout[w] = l, !.dirty = @ \ {w},
                  !.rows = IF Sound(l) THEN (w :> l) @@ @ ELSE @]

\* Each workspace is saved some time after it was first changed.
Flush(w) ==
    /\ up /\ w \in dirty
    /\ Become(Flushed(State, w))
    /\ UNCHANGED <<up, book, lost, edits, stops>>

\* The program ends: `kept` of its unsaved layouts are saved, all of them at a
\* clean exit, none when it crashes.
Stop ==
    /\ up /\ stops < MaxStops
    /\ \E kept \in SUBSET dirty :
           /\ rows' = FoldSet(LAMBDA w, st : Flushed(st, w), State, kept).rows
           /\ lost' = (lost \/ kept # dirty)
    /\ up' = FALSE /\ stops' = stops + 1
    /\ layout' = <<>> /\ dirty' = {} /\ terminals' = {}
    /\ UNCHANGED <<book, subs, edits>>

\* Any one saved layout, or the list of sub-workspaces, may be unreadable now.
Start ==
    /\ ~up
    /\ \E bad \in {{}} \cup {{w} : w \in DOMAIN rows}, list \in {subs, {}} :
           /\ Become(FoldSet(LAMBDA w, st : Loaded(st, w, bad),
                             [State EXCEPT !.subs = list], book \cup list))
           /\ lost' = (lost \/ bad # {} \/ list # subs)
    /\ up' = TRUE
    /\ UNCHANGED <<book, edits, stops>>

Init ==
    /\ up = FALSE /\ book = Projects /\ subs = {}
    /\ layout = <<>> /\ dirty = {} /\ rows = <<>>
    /\ terminals = {} /\ lost = FALSE /\ edits = 0 /\ stops = 0

Next == User \/ (\E w \in DOMAIN layout : Flush(w)) \/ Stop \/ Start

Spec == Init /\ [][Next]_vars

---------------------------------------------------------------------------

\* Every panel of a layout is in one tab, once, or it is away.
EveryPanelPlaced ==
    \A w \in DOMAIN layout :
        /\ Sound(layout[w])
        /\ DOMAIN layout[w].panels = InTabs(layout[w]) \cup layout[w].away
        /\ InTabs(layout[w]) \cap layout[w].away = {}

\* The focus is always somewhere: the active tab, and its active panel, exist.
FocusExists ==
    \A w \in DOMAIN layout : LET l == layout[w] IN
        /\ l.tabs # <<>> => TabAt(l, l.active) # 0
        /\ \A i \in DOMAIN l.tabs : l.tabs[i].active \in PanelsOf(l.tabs[i])

\* A panel away is shown by a sub-workspace, a mirror shows a panel there is.
MirrorsMatch ==
    LET Shown(w) == {q \in DOMAIN layout[w].panels :
                        \E s \in subs : MirrorsOf(layout[s], w, {q}) # {}}
    IN /\ \A w \in book : layout[w].away \subseteq Shown(w)
       /\ \A s \in subs, w \in Projects, q \in 1 .. MaxPanels :
              MirrorsOf(layout[s], w, {q}) # {} => w \in book /\ q \in DOMAIN layout[w].panels

\* Layouts stay whole through every split, drag, close, move to a
\* sub-workspace and return, and through saves and restarts: no panel is in two
\* places or nowhere, no mirror or panel away is left without its other half
\* (unless a crash or a bad row took one of the two), no sub-workspace is left
\* empty, and no terminal outlives its panel.
LayoutWhole ==
    up => /\ EveryPanelPlaced
          /\ FocusExists
          /\ lost \/ MirrorsMatch
          /\ \A s \in subs : layout[s].tabs # <<>>
          /\ terminals = UNION {TerminalsOf(layout[w]) : w \in DOMAIN layout}
=============================================================================
