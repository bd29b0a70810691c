----------------------------- MODULE TextEdits -----------------------------
(***************************************************************************)
(* Edits as data: a transaction is a sequence of changes, each at an       *)
(* offset of the text its predecessors left, which can be applied,         *)
(* inverted and used to carry positions.  A text is a sequence of          *)
(* characters; offsets lie between characters, 0 .. Len(text), as in the   *)
(* code.  "n" is a line break, "s" a space, "(" and ")" a bracket pair,    *)
(* anything else a letter.                                                 *)
(***************************************************************************)
EXTENDS Integers, Sequences, FiniteSets, SequencesExt

Least(a, b) == IF a < b THEN a ELSE b
Most(a, b)  == IF a > b THEN a ELSE b

Slice(s, from, to)     == SubSeq(s, from + 1, to)
Splice(s, from, to, t) == SubSeq(s, 1, from) \o t \o SubSeq(s, to + 1, Len(s))

---------------------------------------------------------------------------
(* change.rs *)

Change(at, removed, inserted) ==
    [at |-> at, removed |-> removed, inserted |-> inserted]
Edit(from, to, t) == [from |-> from, to |-> to, text |-> t]

\* The last range first, so that every offset is still good when it is used.
Replace(text, edits) ==
    LET later(e, f) == e.from > f.from \/ (e.from = f.from /\ e.to > f.to)
        back == SortSeq(edits, later)
    IN  SelectSeq([i \in DOMAIN back |->
                     Change(back[i].from, Slice(text, back[i].from, back[i].to), back[i].text)],
                  LAMBDA c : c.removed # c.inserted)

ApplyChange(text, c) == Splice(text, c.at, c.at + Len(c.removed), c.inserted)
Apply(text, tx)      == FoldLeft(ApplyChange, text, tx)

Invert(tx) == [i \in DOMAIN tx |->
    LET c == tx[Len(tx) + 1 - i] IN Change(c.at, c.inserted, c.removed)]

\* Before keeps a position in front of what is inserted at it, After behind.
Before == FALSE
After  == TRUE

MapPos(tx, pos, assoc) ==
    LET Step(p, c) ==
          LET end == c.at + Len(c.removed)
              past == c.at + Len(c.inserted)
          IN  CASE p < c.at                          -> p
                [] p > end                           -> p - Len(c.removed) + Len(c.inserted)
                [] Len(c.removed) = 0                -> IF assoc THEN past ELSE c.at
                [] p = c.at /\ Len(c.removed) > 0    -> c.at
                [] OTHER -> IF p = end \/ assoc THEN past ELSE c.at
    IN  FoldLeft(Step, pos, tx)

---------------------------------------------------------------------------
(* selection.rs *)

Span(anchor, head) == [anchor |-> anchor, head |-> head]
Point(at)   == Span(at, at)
From(r)     == Least(r.anchor, r.head)
To(r)       == Most(r.anchor, r.head)
IsCaret(r)  == r.anchor = r.head
Facing(r, from, to) == IF r.anchor <= r.head THEN Span(from, to) ELSE Span(to, from)

Overlaps(last, r) ==
    \/ From(r) < To(last)
    \/ From(r) = To(last) /\ (IsCaret(r) \/ IsCaret(last))

\* Ranges in any order: sorted, and those that overlap merged.
Selection(ranges, primary) ==
    LET before(i, j) == \/ From(ranges[i]) < From(ranges[j])
                        \/ /\ From(ranges[i]) = From(ranges[j])
                           /\ To(ranges[i]) < To(ranges[j])
        order == SortSeq([i \in DOMAIN ranges |-> i], before)
        Merge(acc, i) ==
          LET r == ranges[i]
              n == Len(acc.ranges)
              join == n > 0 /\ Overlaps(acc.ranges[n], r)
              m == IF join THEN n ELSE n + 1
          IN  [ranges |-> IF join
                          THEN [acc.ranges EXCEPT ![n] =
                                  Facing(@, Least(From(@), From(r)), Most(To(@), To(r)))]
                          ELSE Append(acc.ranges, r),
               primary |-> IF i = primary THEN m ELSE acc.primary]
    IN  FoldLeft(Merge, [ranges |-> <<>>, primary |-> 1], order)

Transform(sel, f(_)) == Selection([i \in DOMAIN sel.ranges |-> f(sel.ranges[i])], sel.primary)
Caret(at)  == [ranges |-> <<Point(at)>>, primary |-> 1]
Primary(sel)  == sel.ranges[sel.primary]
AllCarets(sel) == \A i \in DOMAIN sel.ranges : IsCaret(sel.ranges[i])

MapRange(tx, r) ==
    IF IsCaret(r) THEN Point(MapPos(tx, r.head, After))
    ELSE LET from == MapPos(tx, From(r), After)
         IN  Facing(r, from, Most(MapPos(tx, To(r), Before), from))

MapSelection(tx, sel) == Transform(sel, LAMBDA r : MapRange(tx, r))
Clamp(sel, len) == Transform(sel, LAMBDA r : Span(Least(r.anchor, len), Least(r.head, len)))

---------------------------------------------------------------------------
(* lines.rs: lines are numbered from 0 *)

Breaks(s)  == Cardinality({i \in DOMAIN s : s[i] = "n"})
NumLines(text)      == Breaks(text) + 1
LineOf(text, pos)   == Breaks(Slice(text, 0, Least(pos, Len(text))))
LineStart(text, l)  == CHOOSE p \in 0 .. Len(text) :
                          /\ Breaks(Slice(text, 0, p)) = l
                          /\ p = 0 \/ text[p] = "n"
LineEnd(text, l)    == CHOOSE p \in LineStart(text, l) .. Len(text) :
                          /\ Breaks(Slice(text, 0, p)) = l
                          /\ p = Len(text) \/ text[p + 1] = "n"
LineText(text, l)   == Slice(text, LineStart(text, l), LineEnd(text, l))
LinesOf(text)       == [i \in 1 .. NumLines(text) |-> LineText(text, i - 1)]
Indentation(line)   == CHOOSE k \in 0 .. Len(line) :
                          /\ \A i \in 1 .. k : line[i] = "s"
                          /\ k = Len(line) \/ line[k + 1] # "s"
=============================================================================
