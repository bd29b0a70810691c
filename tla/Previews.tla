------------------------------ MODULE Previews ------------------------------
(* A Markdown preview panel (preview.rs, workspace_ui.rs preview_ui, app.rs  *)
(* preview_open and preview_step): the open document or the file on disk it  *)
(* follows, the history of the places it showed, and the scrolling it shares *)
(* with the file's editor.  The panel may also be shown by a mirror, with a  *)
(* state of its own, in another window.                                      *)
(*                                                                           *)
(* A text is a number, new with every change; the stamp of a file is the     *)
(* number of its last write.  Every text has the same blocks, so that its    *)
(* lines and offsets are constants.  Parsing, images and code colours are    *)
(* left out; a heading jumped to is a block.                                 *)
EXTENDS Integers, Sequences, SequencesExt, FiniteSetsExt

CONSTANTS
    Files,        \* the previewable files
    Views,        \* "own", and "mirror" when a sub-workspace shows the panel
    Lines,        \* the source line each block starts at
    Tops,         \* the offset each block is drawn at
    LastOffset,   \* how far a preview scrolls
    LastTop,      \* the last line an editor can have at its top
    Delay, Wait,  \* preview_timing
    Caps,         \* history sizes the settings may name
    MaxActs       \* bound: what the user and other programs do (and the files)

None == -1
NoDoc == [id |-> None]
NoView == [path |-> None]
Gone == 0

VARIABLES
    disk,     \* file -> [text, stamp]; text Gone: no such file
    doc,      \* file -> the open document and its editor, or NoDoc
    config,   \* the panel's saved part: [path, history, at]
    view,     \* the PreviewStates: of the panel, and of its mirror
    drawn,    \* the views on screen
    cap,      \* the history size set
    editorFirst,  \* the layout draws the editor before the preview
    trail,    \* ghost: every place shown, as a browser would keep them
    answers,  \* ghost: moves the sync made since a side last moved by itself
    acts      \* bound, and the number of the next text, stamp and document

vars == <<disk, doc, config, view, drawn, cap, editorFirst, trail, answers, acts>>

\* An action of the user's or of another program, and the number of what it writes.
Acts == acts < MaxActs /\ acts' = acts + 1
Fresh == acts + 1

---------------------------------------------------------------------------
(* Scrolling *)

\* offset_for_line, line_for_offset
OffsetForLine(line) ==
    LET i == Max({k \in DOMAIN Lines : Lines[k] =< line})
        span == Max({1, Lines[i + 1] - Lines[i]})
    IN IF \A k \in DOMAIN Lines : Lines[k] > line THEN None
       ELSE IF i = Len(Lines) THEN Tops[i]
       ELSE Tops[i] + ((Tops[i + 1] - Tops[i]) * Min({line - Lines[i], span})) \div span

LineForOffset(offset) ==
    LET i == Max({1} \cup {k \in DOMAIN Tops : Tops[k] =< offset})
        height == Max({1, Tops[i + 1] - Tops[i]})
    IN IF i = Len(Tops) THEN Lines[i]
       ELSE Lines[i] + (Max({0, Min({offset - Tops[i], height})}) * (Lines[i + 1] - Lines[i])) \div height

\* PreviewState::sync: the state after it, and the line it puts the editor at.
SyncWith(p, top, Settles) ==
    LET moved == top # p.line \/ p.redrawn
        offset == OffsetForLine(top)
        line == LineForOffset(p.scroll)
        follow == [p EXCEPT !.redrawn = FALSE, !.line = top]
        asked(q) == [q EXCEPT !.settling = Settles]
    IN CASE p.settling ->
              [state |-> [p EXCEPT !.settling = FALSE, !.line = top, !.offset = p.scroll],
               ask |-> None]
         [] ~p.settling /\ moved ->
              [state |-> IF offset \notin {None, p.scroll}
                         THEN asked([follow EXCEPT !.restore = offset]) ELSE follow,
               ask |-> None]
         [] ~p.settling /\ ~moved /\ p.scroll # p.offset ->
              IF line # top
              THEN [state |-> asked([p EXCEPT !.offset = p.scroll, !.line = line]), ask |-> line]
              ELSE [state |-> [p EXCEPT !.offset = p.scroll], ask |-> None]
         [] OTHER -> [state |-> p, ask |-> None]

Sync(p, top) == SyncWith(p, top, TRUE)

---------------------------------------------------------------------------
(* What a preview shows *)

NoPending == [first |-> None, last |-> None, version |-> None]
Nothing == [of |-> "nothing"]
OfDisk(stamp) == [of |-> "disk", stamp |-> stamp]
OfDoc(version) == [of |-> "document", version |-> version]

\* PreviewState::new. `redrawn`: not synced since it last showed a text. Ghosts:
\* `from`, the document it shows, and `behind`, how long it has shown less.
NewView(path, jump) ==
    [path |-> path, shown |-> Nothing, text |-> None, from |-> None, pending |-> NoPending,
     due |-> TRUE, refresh |-> FALSE, jump |-> jump, restore |-> None, scroll |-> 0,
     redrawn |-> FALSE, behind |-> 0, line |-> None, offset |-> 0, settling |-> FALSE]

ShowText(p, text, shown, from) ==
    [p EXCEPT !.text = text, !.shown = shown, !.from = from, !.redrawn = TRUE,
              !.behind = 0, !.pending = NoPending, !.refresh = FALSE]

\* How long since the first change not shown, and since the last.
Since(p, version) ==
    [first |-> IF p.pending = NoPending THEN 0 ELSE p.pending.first,
     last |-> IF p.pending.version = version THEN p.pending.last ELSE 0,
     version |-> version]

FollowDocument(p, d) ==
    LET since == Since(p, d.version)
        now == p.refresh \/ p.shown.of # "document" \/ since.last >= Delay \/ since.first >= Wait
    IN IF p.shown = OfDoc(d.version) /\ ~p.refresh THEN [p EXCEPT !.pending = NoPending, !.behind = 0]
       ELSE IF now THEN ShowText(p, d.text, OfDoc(d.version), d.id)
       ELSE [p EXCEPT !.pending = since]

\* `stamped` is the file when its stamp is taken, `read` when it is read.
FollowDiskFrom(p, stamped, read) ==
    LET looked == [p EXCEPT !.due = FALSE]
        failed == [looked EXCEPT !.shown = OfDisk(stamped.stamp), !.refresh = FALSE, !.from = None]
    IN IF ~(p.refresh \/ p.shown.of # "disk" \/ p.due) THEN p
       ELSE IF p.shown = OfDisk(stamped.stamp) /\ ~p.refresh THEN looked
       ELSE IF read.text = Gone THEN failed
       ELSE ShowText(looked, read.text, OfDisk(stamped.stamp), None)

\* Mutant: the file is read first, and its stamp taken after.
ReadThenStamp(p, before, after) == FollowDiskFrom(p, after, before)

\* follow_disk
FollowDisk(p, before, after) == FollowDiskFrom(p, before, after)

---------------------------------------------------------------------------
(* Frames *)

\* The editor scrolls where it was asked to, when its next frame draws.
EditorDraws(d) ==
    IF d = NoDoc \/ ~d.drawn \/ d.ask = None THEN d
    ELSE [d EXCEPT !.top = Min({d.ask, LastTop}), !.ask = None]

\* The scroll area: a restore, then a jump to a heading, within what there is.
Scrolled(p) ==
    LET to == IF p.jump # None THEN Tops[p.jump]
              ELSE IF p.restore # None THEN p.restore ELSE p.scroll
    IN [p EXCEPT !.scroll = Min({to, LastOffset}), !.restore = None, !.jump = None]

\* preview_ui of one view, up to the scroll sync: `raced` has another program
\* write the file between its stamp and the read.
Follows(v, written) ==
    LET known == view[v] # NoView /\ view[v].path = config.path
        p == IF known THEN view[v] ELSE NewView(config.path, None)
    IN IF doc[config.path] # NoDoc THEN FollowDocument(p, doc[config.path])
       ELSE FollowDisk(p, disk[config.path], written)

Draws(v, raced) ==
    LET f == config.path
        written == IF raced THEN [text |-> Fresh, stamp |-> Fresh] ELSE disk[f]
        editor == IF editorFirst THEN EditorDraws(doc[f]) ELSE doc[f]
        p == Scrolled(Follows(v, written))
        both == v = "own" /\ editor # NoDoc /\ editor.drawn
        synced == IF both THEN Sync(p, editor.top) ELSE [state |-> p, ask |-> None]
        asked == IF synced.ask = None THEN editor ELSE [editor EXCEPT !.ask = synced.ask]
        moves == IF synced.ask # None \/ synced.state.restore # None THEN 1 ELSE 0
    IN /\ raced => acts < MaxActs /\ disk[f].text # Gone /\ doc[f] = NoDoc
       /\ acts' = acts + IF raced THEN 1 ELSE 0
       /\ disk' = [disk EXCEPT ![f] = written]
       /\ doc' = [doc EXCEPT ![f] = IF editorFirst THEN asked ELSE EditorDraws(asked)]
       /\ view' = [view EXCEPT ![v] = synced.state]
       /\ answers' = IF v # "own" THEN answers ELSE moves + IF p.redrawn THEN 0 ELSE answers
       /\ UNCHANGED <<config, drawn, cap, trail, editorFirst>>

Frame == \E v \in drawn, raced \in BOOLEAN : Draws(v, raced)

\* A preview that waits to show its document asks to be drawn again when that is due.
Waits(p) == p # NoView /\ p.pending # NoPending /\ p.shown.of = "document"
Older(p, onScreen) ==
    LET older(age) == Min({age + 1, Wait})
        since == [p.pending EXCEPT !.first = older(p.pending.first), !.last = older(p.pending.last)]
    IN [p EXCEPT !.due = TRUE, !.pending = IF @ = NoPending THEN @ ELSE since,
                 !.behind = IF onScreen /\ Waits(p) THEN @ + 1 ELSE @]
TimePasses ==
    /\ \A v \in drawn :
           Waits(view[v]) => view[v].pending.first < Wait /\ view[v].pending.last < Delay
    /\ view' = [v \in Views |-> IF view[v] = NoView THEN NoView ELSE Older(view[v], v \in drawn)]
    /\ UNCHANGED <<disk, doc, config, drawn, cap, trail, answers, acts, editorFirst>>

---------------------------------------------------------------------------
(* The file *)

\* Typing may scroll the editor, and wins over where the preview asked it to be.
Type(f) ==
    /\ Acts /\ doc[f] # NoDoc
    /\ \E top \in {doc[f].top, LastTop} :
           doc' = [doc EXCEPT ![f] = [doc[f] EXCEPT !.version = @ + 1, !.text = Fresh,
                                                    !.top = top, !.ask = None]]
    /\ answers' = 0
    /\ UNCHANGED <<disk, config, view, drawn, cap, trail, editorFirst>>

Save(f) ==
    /\ Acts /\ doc[f] # NoDoc
    /\ disk' = [disk EXCEPT ![f] = [text |-> doc[f].text, stamp |-> Fresh]]
    /\ UNCHANGED <<doc, config, view, drawn, cap, trail, answers, editorFirst>>

\* A clean document whose file another program wrote takes its text.
Reload(f) ==
    /\ Acts /\ doc[f] # NoDoc /\ disk[f].text # Gone
    /\ doc' = [doc EXCEPT ![f] = [doc[f] EXCEPT !.version = @ + 1, !.text = disk[f].text]]
    /\ UNCHANGED <<disk, config, view, drawn, cap, trail, answers, editorFirst>>

NewDoc(f, id) ==
    [id |-> id, version |-> 0, text |-> disk[f].text, top |-> 0, ask |-> None, drawn |-> TRUE]

OpenEditor(f) ==
    /\ Acts /\ doc[f] = NoDoc /\ disk[f].text # Gone
    /\ doc' = [doc EXCEPT ![f] = NewDoc(f, Fresh)]
    /\ answers' = 0
    /\ UNCHANGED <<disk, config, view, drawn, cap, trail, editorFirst>>

CloseEditor(f) ==
    /\ Acts /\ doc[f] # NoDoc
    /\ doc' = [doc EXCEPT ![f] = NoDoc]
    /\ UNCHANGED <<disk, config, view, drawn, cap, trail, answers, editorFirst>>

\* Another program writes or deletes the file.
Outside(f) ==
    /\ Acts
    /\ \E now \in {[text |-> Fresh, stamp |-> Fresh], [text |-> Gone, stamp |-> None]} :
           disk' = [disk EXCEPT ![f] = now]
    /\ UNCHANGED <<doc, config, view, drawn, cap, trail, answers, editorFirst>>

\* follow_move: the file is renamed, and all that names it follows. (A panel that showed
\* the missing file of the new name has another text now, as if opened.)
To(f, g, path) == IF path = f THEN g ELSE path
Moved(f, g, place) == [place EXCEPT !.path = To(f, g, place.path)]
AllMoved(f, g, places) == [i \in DOMAIN places |-> Moved(f, g, places[i])]
Renames(f, g) ==
    /\ Acts /\ disk[f].text # Gone /\ disk[g].text = Gone /\ doc[g] = NoDoc
    /\ disk' = [disk EXCEPT ![g] = disk[f], ![f] = [text |-> Gone, stamp |-> None]]
    /\ doc' = [doc EXCEPT ![g] = doc[f], ![f] = NoDoc]
    /\ config' = [config EXCEPT !.path = To(f, g, config.path),
                                !.history = AllMoved(f, g, config.history)]
    /\ view' = [v \in Views |-> IF view[v] = NoView THEN NoView ELSE Moved(f, g, view[v])]
    /\ trail' = [trail EXCEPT !.places = AllMoved(f, g, trail.places)]
    /\ answers' = IF config.path = g THEN 0 ELSE answers
    /\ UNCHANGED <<drawn, cap, editorFirst>>

---------------------------------------------------------------------------
(* What the user does with the panel *)

\* Panels are shown and hidden as tabs are switched; a mirror is closed.
Switch ==
    /\ Acts
    /\ \/ \E v \in Views :
              drawn' = (drawn \ {v}) \cup ({v} \ drawn) /\ UNCHANGED <<doc, view>>
       \/ \E f \in Files : /\ doc[f] # NoDoc
                           /\ doc' = [doc EXCEPT ![f].drawn = ~@] /\ UNCHANGED <<drawn, view>>
       \/ /\ "mirror" \in Views
          /\ drawn' = drawn \ {"mirror"}
          /\ view' = [view EXCEPT !["mirror"] = NoView] /\ UNCHANGED doc
    /\ answers' = 0
    /\ UNCHANGED <<disk, config, cap, trail, editorFirst>>

Refresh(v) ==
    /\ Acts /\ v \in drawn /\ view[v] # NoView
    /\ view' = [view EXCEPT ![v] = [@ EXCEPT !.refresh = TRUE]]
    /\ UNCHANGED <<disk, doc, config, drawn, cap, trail, answers, editorFirst>>

ScrollPreview(v) ==
    /\ Acts /\ v \in drawn /\ view[v] # NoView
    /\ \E to \in 0 .. LastOffset : view' = [view EXCEPT ![v] = [@ EXCEPT !.scroll = to]]
    /\ answers' = 0
    /\ UNCHANGED <<disk, doc, config, drawn, cap, trail, editorFirst>>

ScrollEditor(f) ==
    /\ Acts /\ doc[f] # NoDoc
    /\ \E to \in 0 .. LastTop : doc' = [doc EXCEPT ![f] = [@ EXCEPT !.top = to]]
    /\ answers' = 0
    /\ UNCHANGED <<disk, config, view, drawn, cap, trail, editorFirst>>

SetCap ==
    /\ Acts /\ cap' \in Caps
    /\ UNCHANGED <<disk, doc, config, view, drawn, trail, answers, editorFirst>>

---------------------------------------------------------------------------
(* Its history *)

Place(path, scroll) == [path |-> path, scroll |-> scroll]

\* PreviewPanelConfig::started
Started(c) ==
    IF c.at \in DOMAIN c.history /\ c.history[c.at].path = c.path THEN c
    ELSE [c EXCEPT !.history = <<Place(c.path, 0)>>, !.at = 1]

\* PreviewPanelConfig::cap
Capped(c, n) ==
    LET most == Max({n, 1})
        drop == Min({Max({Len(c.history) - most, 0}), c.at - 1})
        at == c.at - drop
    IN IF c.history = <<>> THEN c
       ELSE [c EXCEPT !.at = at,
                      !.history = SubSeq(@, drop + 1, Min({Len(@), drop + Max({most, at})}))]

\* PreviewPanelConfig::open
Opened(c, path, scroll, n) ==
    LET s == Started(c)
        left == SubSeq([s.history EXCEPT ![s.at].scroll = scroll], 1, s.at)
    IN Capped([path |-> path, at |-> s.at + 1, history |-> Append(left, Place(path, 0))], n)

\* preview_open: a link to a previewable file, or a heading of this one. It is
\* the panel's own state that goes there, though a mirror's link was followed.
Open(path, jump) ==
    LET p == view["own"]
    IN /\ Acts /\ p # NoView /\ disk[path].text # Gone
       /\ config' = Opened(config, path, p.scroll, cap)
       /\ trail' = [places |-> Append([SubSeq(trail.places, 1, trail.at)
                                          EXCEPT ![trail.at].scroll = p.scroll], Place(path, 0)),
                    at |-> trail.at + 1]
       /\ view' = [view EXCEPT !["own"] = IF p.path = path THEN [p EXCEPT !.jump = jump]
                                          ELSE NewView(path, jump)]
       /\ answers' = 0
       /\ UNCHANGED <<disk, doc, drawn, cap, editorFirst>>

\* preview_step
Step(by) ==
    LET p == view["own"]
        c == Started(Capped(config, cap))
        to == c.at + by
    IN /\ Acts /\ p # NoView /\ to \in DOMAIN c.history
       /\ config' = [path |-> c.history[to].path, at |-> to,
                     history |-> [c.history EXCEPT ![c.at].scroll = p.scroll]]
       /\ trail' = [places |-> [trail.places EXCEPT ![trail.at].scroll = p.scroll],
                    at |-> trail.at + by]
       /\ LET there == IF p.path = c.history[to].path THEN p
                       ELSE NewView(c.history[to].path, None)
          IN view' = [view EXCEPT !["own"] = [there EXCEPT !.restore = c.history[to].scroll]]
       /\ answers' = 0
       /\ UNCHANGED <<disk, doc, drawn, cap, editorFirst>>

---------------------------------------------------------------------------

Init ==
    /\ LET number == CHOOSE n \in [Files -> 1 .. Cardinality(Files)] : IsInjective(n)
       IN disk = [f \in Files |-> [text |-> number[f], stamp |-> number[f]]]
    /\ \E f \in Files :
           /\ doc \in {[g \in Files |-> NoDoc],
                      [g \in Files |-> IF g = f THEN NewDoc(g, 0) ELSE NoDoc]}
           /\ config = [path |-> f, history |-> <<>>, at |-> 1]
           /\ trail = [places |-> <<Place(f, 0)>>, at |-> 1]
    /\ view = [v \in Views |-> NoView]
    /\ editorFirst \in BOOLEAN
    /\ drawn = {"own"} /\ cap = Max(Caps) /\ answers = 0 /\ acts = Cardinality(Files)

Next ==
    \/ Frame \/ TimePasses \/ Switch \/ SetCap
    \/ \E f \in Files : \/ Type(f) \/ Save(f) \/ Reload(f) \/ OpenEditor(f) \/ CloseEditor(f)
                        \/ Outside(f) \/ ScrollEditor(f)
                        \/ \E g \in Files : Renames(f, g)
                        \/ \E jump \in DOMAIN Tops : Open(f, jump)
    \/ \E v \in Views : Refresh(v) \/ ScrollPreview(v)
    \/ Step(-1) \/ Step(1)

Spec == Init /\ [][Next]_vars

---------------------------------------------------------------------------

\* What a preview takes for shown is what it shows: a preview that finds the
\* version, or the stamp, it has shown has the text of it on screen, whatever was
\* typed, saved, renamed, or written by others while it read. (But for a
\* document closed and opened anew out of the preview's sight, whose versions
\* start over.)
ShowsTheFile ==
    \A v \in Views : view[v] # NoView =>
        LET p == view[v]  d == doc[p.path]
        IN IF d # NoDoc THEN p.shown = OfDoc(d.version) /\ p.from = d.id => p.text = d.text
           ELSE p.shown = OfDisk(disk[p.path].stamp) /\ disk[p.path].text # Gone
                    => p.text = disk[p.path].text

\* However steadily the user types, a preview on screen is never behind its
\* document for longer than the wait (preview.rs follow_document).
NeverLate == \A v \in Views : view[v] # NoView => view[v].behind =< Wait

\* The editor and the preview never chase each other: once a side has moved,
\* the other is moved at most once, and that move is not answered (sync).
NeverChase == answers =< 1

\* What the history keeps is a run of the places shown, in order, with where
\* each was left, the current one among them, and no more than was allowed when
\* it last moved (workspace.rs open, back, forward, cap, rebase).
HistoryIsTheTrail ==
    LET c == Started(config)
        k == trail.at - c.at
    IN /\ k >= 0 /\ k + Len(c.history) =< Len(trail.places)
       /\ Len(c.history) =< Max(Caps)
       /\ \A i \in DOMAIN c.history : i # c.at => c.history[i] = trail.places[k + i]
       /\ config.path = trail.places[trail.at].path
=============================================================================
