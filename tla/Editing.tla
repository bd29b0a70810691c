------------------------------ MODULE Editing ------------------------------
(***************************************************************************)
(* One document and the panels that show it: the text, the history every   *)
(* panel shares, each panel's selection and the lines its wrap cache has   *)
(* counted.  A panel edits in a frame of its own, with one or two events;  *)
(* the other panels are carried across the frame's edits when it ends.     *)
(***************************************************************************)
EXTENDS TextEdits

CONSTANTS
    Panels,       \* the panels that show the document
    Typed,        \* what is typed, pasted or put in by a replacement
    Opening,      \* the texts a file may hold when it is opened or reloaded
    Indent,       \* spaces per level
    MaxEntries,   \* undo steps kept
    MaxLen,       \* bound: edits are made while the text is shorter
    MaxEdits,     \* bound: edits and copies made
    MaxMoves,     \* bound: caret moves made
    MaxActs,      \* bound: edits, copies and caret moves made, together
    Places        \* bound: the offsets a caret is put at

VARIABLES
    text,
    undo, redo,        \* the steps, oldest first
    sealed,            \* the next edit starts a step of its own
    sel,               \* each panel's selection
    counted,           \* the lines each panel's wrap cache counted, or NoRows
    clip,              \* the last thing copied, or NoClip
    frame,             \* the panel whose frame it is and the edits made in it
    rebuilt,           \* a cache's line count went wrong and was redone
    edits, moves       \* counters for the bounds

vars == <<text, undo, redo, sealed, sel, counted, clip, frame, rebuilt, edits, moves>>

NoRows == <<>>
NoClip == [text |-> <<>>, mode |-> "none"]
NoFrame == [panel |-> {}, open |-> FALSE, done |-> <<>>]

Init ==
    /\ text \in Opening
    /\ undo = <<>> /\ redo = <<>> /\ sealed = FALSE
    /\ sel = [p \in Panels |-> Caret(0)]
    /\ counted = [p \in Panels |-> LinesOf(text)]
    /\ clip = NoClip /\ frame = NoFrame /\ rebuilt = FALSE
    /\ edits = 0 /\ moves = 0

---------------------------------------------------------------------------
(* history.rs: each step keeps, besides what the code keeps, the text before *)
(* it (was) and after it (is), for the properties only.                      *)

Revision(tx, before, after, kind, was, is) ==
    [tx |-> tx, before |-> before, after |-> after, kind |-> kind, was |-> was, is |-> is]

SamePlace(a, b) ==
    /\ Len(a.ranges) = Len(b.ranges)
    /\ \A i \in DOMAIN a.ranges : /\ From(a.ranges[i]) = From(b.ranges[i])
                                  /\ To(a.ranges[i]) = To(b.ranges[i])

\* soon: within the coalescing time of the last edit.
CanMerge(last, next, soon) ==
    /\ last.kind = next.kind /\ last.kind # "other"
    /\ soon
    /\ SamePlace(last.after, next.before)
    /\ \A i \in DOMAIN next.tx : Breaks(next.tx[i].inserted) = 0

Kept(steps) == SubSeq(steps, Most(1, Len(steps) + 1 - MaxEntries), Len(steps))

Record(rev, soon) ==
    LET n == Len(undo)
        merge == ~sealed /\ n > 0 /\ CanMerge(undo[n], rev, soon)
    IN  /\ undo' = IF merge
                   THEN [undo EXCEPT ![n].tx = @ \o rev.tx, ![n].after = rev.after, ![n].is = rev.is]
                   ELSE Kept(Append(undo, rev))
        /\ redo' = <<>>
        /\ sealed' = FALSE

---------------------------------------------------------------------------
(* doc.rs, wrap.rs: what an edit touched, and the row counts carried across it *)

(* Mutant: a touched line's number is not carried past the changes after it. *)
AppliedUnshifted(tx) ==
    LET new == Apply(text, tx)
        starts == {LineOf(text, tx[i].at) : i \in DOMAIN tx}
        ends == {LineOf(text, tx[i].at) + Breaks(tx[i].inserted) : i \in DOMAIN tx}
    IN  [tx |-> tx, text |-> new, first |-> CHOOSE l \in starts : \A k \in starts : l <= k,
         last |-> CHOOSE l \in ends : \A k \in ends : l >= k,
         delta |-> NumLines(new) - NumLines(text)]
\* The lines the changes touched, numbered after the last of them.
Applied(tx) ==
    LET Touch(acc, c) ==
          LET start  == LineOf(acc.text, c.at)
              endOld == LineOf(acc.text, c.at + Len(c.removed))
              new    == ApplyChange(acc.text, c)
              endNew == LineOf(new, c.at + Len(c.inserted))
              Shift(line, within) == CASE line < start  -> line
                                       [] line > endOld -> line + endNew - endOld
                                       [] OTHER         -> within
          IN  [text  |-> new,
               first |-> IF acc.any THEN Least(Shift(acc.first, start), start) ELSE start,
               last  |-> IF acc.any THEN Most(Shift(acc.last, endNew), endNew) ELSE endNew,
               any   |-> TRUE]
        end == FoldLeft(Touch, [text |-> text, first |-> 0, last |-> 0, any |-> FALSE], tx)
    IN  [tx |-> tx, text |-> end.text, first |-> end.first, last |-> end.last,
         delta |-> NumLines(end.text) - NumLines(text)]

\* Only the touched lines are counted again.
Recounted(rows, new, a) ==
    LET len == Len(rows)
        oldLast == Most(a.last - a.delta, a.first - 1)
        upto == Least(Most(oldLast + 1, a.first), len)
        fresh == [i \in 1 .. Least(a.last + 1, NumLines(new)) - a.first |->
                    LineText(new, a.first + i - 1)]
    IN  Splice(rows, Least(a.first, len), upto, fresh)

WrapApply(rows, new, a) ==
    LET carried == Recounted(rows, new, a)
    IN  IF Len(carried) = NumLines(new) THEN carried ELSE LinesOf(new)
Miscounted(rows, new, a) == Len(Recounted(rows, new, a)) # NumLines(new)

---------------------------------------------------------------------------
(* commands.rs: a command's replacements, and the selection it leaves *)

\* Every range replaced by f of it, its caret f(i).caret characters in.
ReplaceEach(s, f(_)) ==
    LET r == s.ranges
        tx == Replace(text, [i \in DOMAIN r |-> Edit(From(r[i]), To(r[i]), f(i).text)])
    IN  [tx |-> tx,
         after |-> Selection([i \in DOMAIN r |->
                      Point(MapPos(tx, From(r[i]), Before) + f(i).caret)], s.primary)]

InsertText(s, t) ==
    ReplaceEach(s, LAMBDA i : [text |-> t, caret |-> Len(t)])
TypedKind(t) == IF Len(t) = 1 /\ t # <<"n">> THEN "insert" ELSE "other"

Spaces(k) == [i \in 1 .. k |-> "s"]

\* Enter keeps the indentation, and opens a bracket pair onto its own lines.
InsertNewline(s) ==
    LET Broken(i) ==
          LET r == s.ranges[i]
              start == LineStart(text, LineOf(text, From(r)))
              indent == Spaces(Indentation(Slice(text, start, From(r))))
              pair == /\ From(r) > start /\ To(r) < Len(text)
                      /\ text[From(r)] = "(" /\ text[To(r) + 1] = ")"
              inner == <<"n">> \o indent \o Spaces(Indent)
          IN  IF pair THEN [text |-> inner \o <<"n">> \o indent, caret |-> Len(inner)]
              ELSE [text |-> <<"n">> \o indent, caret |-> 1 + Len(indent)]
    IN  ReplaceEach(s, Broken)

\* Overlapping deletions merged, empty ones left out.
Merged(spans) ==
    LET before(a, b) == a[1] < b[1] \/ (a[1] = b[1] /\ a[2] < b[2])
        Join(acc, x) ==
          IF acc # <<>> /\ x[1] < Last(acc)[2]
          THEN [acc EXCEPT ![Len(acc)] = <<@[1], Most(@[2], x[2])>>]
          ELSE Append(acc, x)
    IN  SelectSeq(FoldLeft(Join, <<>>, SortSeq(spans, before)), LAMBDA x : x[1] < x[2])

DeleteSpans(s, spans) ==
    LET cut == Merged(spans)
        tx == Replace(text, [i \in DOMAIN cut |-> Edit(cut[i][1], cut[i][2], <<>>)])
    IN  IF cut = <<>> THEN [tx |-> <<>>, after |-> s]
        ELSE [tx |-> tx, after |-> Transform(s, LAMBDA r : Point(MapPos(tx, From(r), Before)))]

\* In leading spaces Backspace takes the caret back to the indent stop before it.
DeleteBackward(s) ==
    LET Gone(r) ==
          LET ahead == Slice(text, LineStart(text, LineOf(text, r.head)), r.head)
              col == Len(ahead)
              back == IF col > 0 /\ Indentation(ahead) = col THEN col - ((col - 1) \div Indent) * Indent
                      ELSE 1
          IN  IF IsCaret(r) THEN <<Most(r.head - back, 0), r.head>> ELSE <<From(r), To(r)>>
    IN  DeleteSpans(s, [i \in DOMAIN s.ranges |-> Gone(s.ranges[i])])

DeleteForward(s) ==
    DeleteSpans(s, [i \in DOMAIN s.ranges |->
        LET r == s.ranges[i] IN
        IF IsCaret(r) THEN <<r.head, Least(r.head + 1, Len(text))>> ELSE <<From(r), To(r)>>])

\* A selection that ends at a line's start does not touch that line.
TouchedLines(s) ==
    LET Touches(r, l) == /\ LineOf(text, From(r)) <= l /\ l <= LineOf(text, To(r))
                         /\ l > LineOf(text, From(r)) => To(r) # LineStart(text, l)
    IN  {l \in 0 .. NumLines(text) - 1 : \E i \in DOMAIN s.ranges : Touches(s.ranges[i], l)}

LineEdits(lines, f(_)) == [i \in DOMAIN lines |-> f(lines[i])]
InOrder(lines) == SetToSortSeq(lines, LAMBDA a, b : a < b)

IndentLines(s) ==
    LET touched == TouchedLines(s)
        lines == {l \in touched : ~(Cardinality(touched) > 1 /\ LineText(text, l) = <<>>)}
        tx == Replace(text, LineEdits(InOrder(lines),
                LAMBDA l : Edit(LineStart(text, l), LineStart(text, l), Spaces(Indent))))
        Moved(r) ==
          LET keep == ~IsCaret(r) /\ From(r) = LineStart(text, LineOf(text, From(r)))
              from == MapPos(tx, From(r), ~keep)
          IN  Facing(r, from, Most(MapPos(tx, To(r), After), from))
    IN  [tx |-> tx, after |-> Transform(s, Moved)]

OutdentLines(s) ==
    LET Depth(l) == Least(Indent, Indentation(LineText(text, l)))
        lines == {l \in TouchedLines(s) : Depth(l) > 0}
        tx == Replace(text, LineEdits(InOrder(lines),
                LAMBDA l : Edit(LineStart(text, l), LineStart(text, l) + Depth(l), <<>>)))
    IN  [tx |-> tx, after |-> MapSelection(tx, s)]

InsertTab(s) ==
    LET To1(i) ==
          LET r == s.ranges[i]
              col == r.head - LineStart(text, LineOf(text, r.head))
              n == Indent - (col % Indent)
          IN  [text |-> Spaces(n), caret |-> n]
    IN  IF AllCarets(s) THEN ReplaceEach(s, To1) ELSE IndentLines(s)

HeadLines(s) == [i \in DOMAIN s.ranges |-> LineOf(text, s.ranges[i].head)]
FirstOfLine(s, i) == \A j \in 1 .. i - 1 : HeadLines(s)[j] # HeadLines(s)[i]
Firsts(s) == SelectSeq([i \in DOMAIN s.ranges |-> i], LAMBDA i : FirstOfLine(s, i))

Copied(s) ==
    LET n == Len(s.ranges)
        part(i) == LET r == s.ranges[i] IN
                   IF IsCaret(r) THEN LineText(text, LineOf(text, r.head))
                   ELSE Slice(text, From(r), To(r))
    IN  IF AllCarets(s)
        THEN [mode |-> "lines",
              text |-> FoldLeft(LAMBDA t, i : t \o part(i) \o <<"n">>, <<>>, Firsts(s))]
        ELSE [mode |-> "plain",
              text |-> FoldLeft(LAMBDA t, i : t \o (IF i = 1 THEN <<>> ELSE <<"n">>) \o part(i),
                                <<>>, [i \in 1 .. n |-> i])]

\* The last line has no break of its own: it takes the one before it.
WholeLine(l) ==
    IF l + 1 < NumLines(text) THEN <<LineStart(text, l), LineStart(text, l + 1)>>
    ELSE <<IF l > 0 THEN LineStart(text, l) - 1 ELSE 0, Len(text)>>

CutOut(s) ==
    DeleteSpans(s, [i \in DOMAIN s.ranges |->
        LET r == s.ranges[i] IN
        IF IsCaret(r) THEN WholeLine(LineOf(text, r.head)) ELSE <<From(r), To(r)>>])

Rows(t) == LinesOf(t)

\* Whole lines go above the caret's line; one row per caret when they match.
Pasted(s, c) ==
    LET n == Len(s.ranges)
        firsts == Firsts(s)
        tx == Replace(text, LineEdits([k \in DOMAIN firsts |-> HeadLines(s)[firsts[k]]],
                LAMBDA l : Edit(LineStart(text, l), LineStart(text, l), c.text)))
        rows == Rows(c.text)
    IN  IF c.mode = "lines" /\ AllCarets(s)
        THEN [tx |-> tx, after |-> Transform(s, LAMBDA r : Point(MapPos(tx, r.head, After)))]
        ELSE IF n > 1 /\ Len(rows) = n
        THEN ReplaceEach(s, LAMBDA i : [text |-> rows[i], caret |-> Len(rows[i])])
        ELSE InsertText(s, c.text)

---------------------------------------------------------------------------
(* code.rs: a panel's frame *)

\* A panel whose cache was dropped counts the whole text again when it is drawn.
BeginFrame(p) ==
    /\ ~frame.open
    /\ frame' = [panel |-> p, open |-> TRUE, done |-> <<>>]
    /\ counted' = [counted EXCEPT ![p] = IF @ = NoRows THEN LinesOf(text) ELSE @]
    /\ UNCHANGED <<text, undo, redo, sealed, sel, clip, rebuilt, edits, moves>>

MayEdit == edits < MaxEdits /\ edits + moves < MaxActs
MayMove == moves < MaxMoves /\ edits + moves < MaxActs

Acting(p) == frame.open /\ frame.panel = p

\* The panel that made an edit follows it at once; the others when the frame ends.
Follow(p, tx, after) ==
    LET a == Applied(tx) IN
    /\ text' = a.text
    /\ sel' = [sel EXCEPT ![p] = after]
    /\ counted' = [counted EXCEPT ![p] = WrapApply(@, a.text, a)]
    /\ rebuilt' = (rebuilt \/ Miscounted(counted[p], a.text, a))
    /\ frame' = [frame EXCEPT !.done = Append(@, a)]

Commit(p, result, kind, soon) ==
    LET tx == result.tx IN
    /\ MayEdit /\ Len(text) < MaxLen /\ Len(frame.done) < 2
    /\ edits' = edits + 1
    /\ IF tx = <<>>
       THEN /\ sel' = [sel EXCEPT ![p] = result.after]
            /\ UNCHANGED <<text, undo, redo, sealed, counted, rebuilt, frame>>
       ELSE /\ Follow(p, tx, result.after)
            /\ Record(Revision(tx, sel[p], result.after, kind, text, Apply(text, tx)), soon)
    /\ UNCHANGED moves

Type(p) == \E t \in Typed, soon \in BOOLEAN :
    Acting(p) /\ Commit(p, InsertText(sel[p], t), TypedKind(t), soon) /\ UNCHANGED clip
Enter(p) == Acting(p) /\ Commit(p, InsertNewline(sel[p]), "other", TRUE) /\ UNCHANGED clip
Tab(p) == Acting(p) /\ UNCHANGED clip
          /\ Commit(p, InsertTab(sel[p]), IF AllCarets(sel[p]) THEN "insert" ELSE "other", TRUE)
Outdent(p) == Acting(p) /\ Commit(p, OutdentLines(sel[p]), "other", TRUE) /\ UNCHANGED clip
Backspace(p) == \E soon \in BOOLEAN :
    Acting(p) /\ Commit(p, DeleteBackward(sel[p]), "delete", soon) /\ UNCHANGED clip
Delete(p) == \E soon \in BOOLEAN :
    Acting(p) /\ Commit(p, DeleteForward(sel[p]), "delete", soon) /\ UNCHANGED clip
Copy(p) == Acting(p) /\ MayEdit /\ edits' = edits + 1 /\ clip' = Copied(sel[p])
           /\ UNCHANGED <<text, undo, redo, sealed, sel, counted, frame, rebuilt, moves>>
CutLines(p) == Acting(p) /\ clip' = Copied(sel[p]) /\ Commit(p, CutOut(sel[p]), "other", TRUE)
Paste(p) == Acting(p) /\ clip # NoClip /\ Commit(p, Pasted(sel[p], clip), "other", TRUE) /\ UNCHANGED clip

\* Mutant: the oldest step is undone, not the last.
UndoOldest(p) ==
    /\ Acting(p) /\ undo # <<>> /\ Len(frame.done) < 2
    /\ LET rev == Head(undo)
           tx == Invert(rev.tx)
       IN  /\ Follow(p, tx, Clamp(rev.before, Len(Apply(text, tx))))
           /\ undo' = Tail(undo) /\ redo' = Append(redo, rev) /\ sealed' = TRUE
    /\ UNCHANGED <<clip, edits, moves>>

\* Undo and redo put back the selection the edit was made from, or left.
Undo(p) ==
    /\ Acting(p) /\ undo # <<>> /\ Len(frame.done) < 2
    /\ LET rev == Last(undo)
           tx == Invert(rev.tx)
       IN  /\ Follow(p, tx, Clamp(rev.before, Len(Apply(text, tx))))
           /\ undo' = Front(undo) /\ redo' = Append(redo, rev) /\ sealed' = TRUE
    /\ UNCHANGED <<clip, edits, moves>>
Redo(p) ==
    /\ Acting(p) /\ redo # <<>> /\ Len(frame.done) < 2
    /\ LET rev == Last(redo)
       IN  /\ Follow(p, rev.tx, Clamp(rev.after, Len(Apply(text, rev.tx))))
           /\ redo' = Front(redo) /\ undo' = Append(undo, rev) /\ sealed' = TRUE
    /\ UNCHANGED <<clip, edits, moves>>

Offsets == {Least(o, Len(text)) : o \in Places}

Selects(p, new) ==
    /\ Acting(p) /\ MayMove /\ new # sel[p]
    /\ moves' = moves + 1 /\ sel' = [sel EXCEPT ![p] = new]
    /\ UNCHANGED <<text, undo, redo, counted, clip, frame, rebuilt, edits>>

PutHead(r, head, extend) == Span(IF extend THEN r.anchor ELSE head, head)

\* Keys move every head, wherever a character, word, line or page takes it, and end
\* the undo step.
MoveKeys(p) == \E to \in Offsets, extend \in BOOLEAN :
    /\ Selects(p, Transform(sel[p], LAMBDA r : PutHead(r, to, extend)))
    /\ sealed' = TRUE
\* The mouse places or drags the only range, or adds one; the undo step goes on.
Mouse(p) == \E from, to \in Offsets, add \in BOOLEAN :
    /\ LET old == sel[p].ranges
       IN  Selects(p, IF add THEN Selection(Append(old, Span(from, to)), Len(old) + 1)
                      ELSE Selection(<<Span(from, to)>>, 1))
    /\ UNCHANGED sealed

\* Every other panel is carried across the frame's edits, in order, clamped to the
\* text as it is now; its cache survives only a single edit.
EndFrame ==
    /\ frame.open
    /\ LET Carried(p) == FoldLeft(LAMBDA s, a : Clamp(MapSelection(a.tx, s), Len(text)),
                                  sel[p], frame.done)
           Cache(p) == CASE frame.done = <<>> -> counted[p]
                         [] Len(frame.done) = 1 /\ counted[p] # NoRows ->
                              WrapApply(counted[p], text, frame.done[1])
                         [] OTHER -> NoRows
           others == Panels \ {frame.panel}
       IN  /\ sel' = [p \in Panels |-> IF p \in others THEN Carried(p) ELSE sel[p]]
           /\ counted' = [p \in Panels |-> IF p \in others THEN Cache(p) ELSE counted[p]]
           /\ rebuilt' = (rebuilt \/ \E p \in others :
                /\ Len(frame.done) = 1 /\ counted[p] # NoRows
                /\ Miscounted(counted[p], text, frame.done[1]))
    /\ frame' = NoFrame
    /\ UNCHANGED <<text, undo, redo, sealed, clip, edits, moves>>

---------------------------------------------------------------------------
(* editor.rs: what happens to the document between frames *)

\* A change made outside the panels: every one of them is carried across it.
Transact(p) == \E from, to \in Offsets, t \in Typed :
    LET tx == Replace(text, <<Edit(from, to, t)>>)
        a == Applied(tx)
    IN  /\ ~frame.open /\ MayEdit /\ Len(text) < MaxLen
        /\ from < to /\ tx # <<>>
        /\ edits' = edits + 1
        /\ text' = a.text
        /\ Record(Revision(tx, sel[p], MapSelection(tx, sel[p]), "other", text, a.text), TRUE)
        /\ sel' = [q \in Panels |-> Clamp(MapSelection(tx, sel[q]), Len(a.text))]
        /\ counted' = [q \in Panels |-> IF counted[q] = NoRows THEN NoRows
                                        ELSE WrapApply(counted[q], a.text, a)]
        /\ rebuilt' = (rebuilt \/ \E q \in Panels : counted[q] # NoRows /\ Miscounted(counted[q], a.text, a))
        /\ UNCHANGED <<clip, frame, moves>>

\* A save ends the undo step.
Save ==
    /\ ~frame.open /\ ~sealed
    /\ sealed' = TRUE
    /\ UNCHANGED <<text, undo, redo, sel, counted, clip, frame, rebuilt, edits, moves>>

\* The whole text comes from the disk: history gone, carets kept in range.
Reload == \E fresh \in Opening :
    /\ ~frame.open /\ fresh # text
    /\ text' = fresh
    /\ undo' = <<>> /\ redo' = <<>> /\ sealed' = TRUE
    /\ sel' = [p \in Panels |-> Clamp(sel[p], Len(fresh))]
    /\ counted' = [p \in Panels |-> NoRows]
    /\ UNCHANGED <<clip, frame, rebuilt, edits, moves>>

Next ==
    \/ \E p \in Panels :
         \/ BeginFrame(p) \/ Type(p) \/ Enter(p) \/ Tab(p) \/ Outdent(p)
         \/ Backspace(p) \/ Delete(p) \/ Copy(p) \/ CutLines(p) \/ Paste(p)
         \/ Undo(p) \/ Redo(p) \/ MoveKeys(p) \/ Mouse(p) \/ Transact(p)
    \/ EndFrame \/ Save \/ Reload

Spec == Init /\ [][Next]_vars

---------------------------------------------------------------------------
(* Properties *)

\* Undo and redo walk back and forth over exactly the texts the document had:
\* whatever was merged, sealed, trimmed, saved or reloaded in between, the step
\* on top of either stack fits the text as it is, and gives the text it came
\* from (history.rs record, undo, redo; change.rs invert).
HistoryReplays ==
    /\ undo # <<>> => /\ Last(undo).is = text
                      /\ Apply(text, Invert(Last(undo).tx)) = Last(undo).was
    /\ redo # <<>> => /\ Last(redo).was = text
                      /\ Apply(text, Last(redo).tx) = Last(redo).is
    /\ \A i \in 1 .. Len(undo) - 1 : undo[i].is = undo[i + 1].was
    /\ \A i \in 1 .. Len(redo) - 1 : redo[i].was = redo[i + 1].is

Normalised(s) ==
    /\ s.primary \in DOMAIN s.ranges
    /\ \A i \in 1 .. Len(s.ranges) - 1 : ~Overlaps(s.ranges[i], s.ranges[i + 1])
Within(s, len) == \A i \in DOMAIN s.ranges : From(s.ranges[i]) >= 0 /\ To(s.ranges[i]) <= len

\* Every panel's ranges lie in the text, sorted and apart, whichever panel made
\* the edits and however many one frame had (selection.rs map, clamp; code.rs
\* follow).  Between its edits and its end a frame's other panels lag behind.
SelectionsFit ==
    \A p \in Panels : (~frame.open \/ frame.panel = p \/ frame.done = <<>>) =>
        Normalised(sel[p]) /\ Within(sel[p], Len(text))

\* The lines an edit says it touched are enough: a wrap cache carried across it
\* holds every line as it is, and the fallback for a wrong count is never taken
\* (doc.rs apply, wrap.rs apply: "Should not happen").
WrapFollows ==
    /\ ~rebuilt
    /\ \A p \in Panels : (~frame.open \/ frame.panel = p \/ frame.done = <<>>) =>
           counted[p] \in {NoRows, LinesOf(text)}
=============================================================================
