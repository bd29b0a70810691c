------------------------------ MODULE FindBar ------------------------------
(***************************************************************************)
(* The find bar of one editor panel: the query as it is typed, the matches *)
(* last computed and the text they were computed for, and what stepping    *)
(* and replacing do with them while the text changes under the bar.        *)
(***************************************************************************)
EXTENDS TextEdits

CONSTANTS
    Texts,        \* what a document may hold
    Queries,      \* what may be looked for
    Replacements, \* what a match may be replaced by
    MaxVersion    \* bound: changes of the text

VARIABLES
    text, version,      \* the document
    sel,                \* the panel's selection
    open,               \* the bar is open
    query,              \* what it looks for
    typing,             \* the query changed, and has not settled (edited_at)
    matches, current,   \* what was found, and which of it is current (0: none)
    computed,           \* the version and query they were found for
    reseat, anchor,     \* look again from the caret, or from anchor (-1: none)
    frame               \* what the last frame did, for the properties

vars == <<text, version, sel, open, query, typing, matches, current, computed, reseat, anchor, frame>>

NoQuery == [term |-> <<>>, cased |-> FALSE, whole |-> FALSE]
Quiet == [was |-> <<>>, tx |-> <<>>, typing |-> FALSE]

Init ==
    /\ text \in Texts /\ version = 0 /\ sel = Caret(0)
    /\ open = FALSE /\ query = NoQuery /\ typing = FALSE
    /\ matches = <<>> /\ current = 0 /\ computed = <<>>
    /\ reseat = FALSE /\ anchor = -1 /\ frame = Quiet

---------------------------------------------------------------------------
(* find.rs *)

Fold1(c, cased) == IF c = "A" /\ ~cased THEN "a" ELSE c
IsWord(t, i) == i \in DOMAIN t /\ t[i] \notin {"n", "s"}

\* The term stands at offset i of t, on its own if a whole word is asked for.
MatchesAt(t, q, i) ==
    LET n == Len(q.term) IN
    /\ i + n <= Len(t)
    /\ \A k \in 1 .. n : Fold1(t[i + k], q.cased) = Fold1(q.term[k], q.cased)
    /\ q.whole => /\ ~(IsWord(t, i) /\ IsWord(t, i + 1))
                  /\ ~(IsWord(t, i + n) /\ IsWord(t, i + n + 1))

\* From left to right, and none inside another.
FindAll(t, q) ==
    LET Look(acc, i) == IF i >= acc.next /\ MatchesAt(t, q, i)
                        THEN [found |-> Append(acc.found, <<i, i + Len(q.term)>>),
                              next |-> i + Len(q.term)]
                        ELSE acc
    IN  IF q.term = <<>> THEN <<>>
        ELSE FoldLeft(Look, [found |-> <<>>, next |-> 0], [i \in 1 .. Len(t) |-> i - 1]).found

\* The first match at or after pos, around the end if need be.
FirstFrom(found, pos) ==
    IF found = <<>> THEN 0
    ELSE LET ahead == {i \in DOMAIN found : found[i][1] >= pos}
         IN  IF ahead = {} THEN 1 ELSE CHOOSE i \in ahead : \A j \in ahead : i <= j

---------------------------------------------------------------------------
(* code.rs: the session, as a record s of the variables that hold it *)

Session == [query |-> query, typing |-> typing, matches |-> matches, current |-> current,
            computed |-> computed, reseat |-> reseat, anchor |-> anchor,
            text |-> text, version |-> version, sel |-> sel, tx |-> <<>>]

CurrentMatch(s) == IF s.current \in DOMAIN s.matches THEN s.matches[s.current] ELSE <<>>

(* Mutant: the matches of an older text pass for those of this one. *)
LookedQuery(s) == <<s.query>>
\* What matches are computed for.
Looked(s) == <<s.version, s.query>>
\* Within the debounce nothing is looked for; settled: it has passed.
Refresh(s, settled, caret) ==
    LET quiet == IF s.typing THEN [s EXCEPT !.typing = FALSE, !.reseat = TRUE] ELSE s
        key == Looked(s)
        found == FindAll(s.text, s.query)
        from == IF quiet.reseat THEN (IF s.anchor >= 0 THEN s.anchor ELSE caret)
                ELSE IF CurrentMatch(s) = <<>> THEN caret ELSE CurrentMatch(s)[1]
    IN  IF s.typing /\ ~settled THEN s
        ELSE IF quiet.computed = key /\ ~quiet.reseat THEN quiet
        ELSE [quiet EXCEPT !.matches = found, !.current = FirstFrom(found, from),
                           !.anchor = IF quiet.reseat THEN -1 ELSE @,
                           !.reseat = FALSE, !.computed = key]

Step(s, forward) ==
    LET n == Len(s.matches) IN
    IF n = 0 THEN s
    ELSE [s EXCEPT !.current = IF @ = 0 THEN 1
                               ELSE IF forward THEN (@ % n) + 1 ELSE ((@ + n - 2) % n) + 1]

Selected(s) == IF CurrentMatch(s) = <<>> THEN s
               ELSE [s EXCEPT !.sel = [ranges |-> <<Span(CurrentMatch(s)[1], CurrentMatch(s)[2])>>,
                                       primary |-> 1]]

\* One undo step, which the panel's own selection follows (editor.rs transact).
Transacted(s, edits) ==
    LET tx == Replace(s.text, edits) IN
    IF tx = <<>> THEN s
    ELSE [s EXCEPT !.text = Apply(@, tx), !.version = @ + 1, !.tx = tx,
                   !.sel = Clamp(MapSelection(tx, @), Len(Apply(s.text, tx)))]

---------------------------------------------------------------------------
(* workspace_ui.rs find_in_editor: one frame of the bar *)

Settle(s, pending, shut) ==
    /\ query' = s.query /\ typing' = s.typing /\ matches' = s.matches /\ current' = s.current
    /\ computed' = s.computed /\ reseat' = s.reseat /\ anchor' = s.anchor
    /\ text' = s.text /\ version' = s.version /\ sel' = s.sel
    /\ frame' = [was |-> text, tx |-> s.tx, typing |-> pending]
    /\ open' = ~shut

\* The frame looks again if it may, then the bar takes what is typed, and its keys
\* and buttons act.
Drawn(settled, q) ==
    LET s == Refresh(Session, settled, Primary(sel).head)
    IN  IF q = s.query THEN s ELSE [s EXCEPT !.query = q, !.typing = TRUE]

\* Enter and F3 look at once, without waiting for the debounce.
Stepped(s, forward) ==
    Selected(Step(Refresh([s EXCEPT !.typing = FALSE], TRUE, Primary(sel).head), forward))

ReplacedOne(s, t) ==
    LET m == CurrentMatch(s)
        done == [Transacted(s, <<Edit(m[1], m[2], t)>>) EXCEPT !.anchor = m[1] + Len(t), !.reseat = TRUE]
    IN  IF m = <<>> THEN s ELSE Selected(Refresh(done, TRUE, Primary(sel).head))

ReplacedAll(s, t) ==
    Transacted(s, [i \in DOMAIN s.matches |-> Edit(s.matches[i][1], s.matches[i][2], t)])

\* A match past the end of a text that has since been cut short would end the
\* program (rope.slice); such a frame is left out.
InText(s) == \A i \in DOMAIN s.matches : s.matches[i][2] <= Len(s.text)

Frame == open /\ \E settled \in BOOLEAN, q \in Queries \cup {query} :
    LET s == Drawn(settled, q) IN
    \/ Settle(s, s.typing, FALSE)
    \/ \E forward \in BOOLEAN : Settle(Stepped(s, forward), s.typing, FALSE)
    \/ \E t \in Replacements : /\ version < MaxVersion /\ InText(s)
                               /\ \/ Settle(ReplacedOne(s, t), s.typing, FALSE)
                                  \/ s.matches # <<>> /\ Settle(ReplacedAll(s, t), s.typing, FALSE)

\* Closing forgets the session.
Close == open /\ Settle([Session EXCEPT !.query = NoQuery, !.typing = FALSE, !.matches = <<>>, !.current = 0,
                                        !.computed = <<>>, !.reseat = FALSE, !.anchor = -1], FALSE, TRUE)

\* Ctrl+F looks for what is selected, if that is within a line.
OpenFind ==
    LET r == Primary(sel)
        word == Slice(text, From(r), To(r))
        seeded == Len(sel.ranges) = 1 /\ ~IsCaret(r) /\ Breaks(word) = 0
    IN  /\ open' = TRUE /\ frame' = Quiet
        /\ query' = IF seeded THEN [query EXCEPT !.term = word] ELSE query
        /\ reseat' = (reseat \/ seeded) /\ anchor' = IF seeded THEN From(r) ELSE anchor
        /\ UNCHANGED <<text, version, sel, typing, matches, current, computed>>

\* The document changes outside the bar: another panel's edit, undo, or the disk.
Changed == version < MaxVersion /\ \E t \in Texts :
    /\ t # text /\ text' = t /\ version' = version + 1
    /\ sel' = Clamp(sel, Len(t)) /\ frame' = Quiet
    /\ UNCHANGED <<open, query, typing, matches, current, computed, reseat, anchor>>

Next == Frame \/ Close \/ OpenFind \/ Changed

Spec == Init /\ [][Next]_vars

---------------------------------------------------------------------------
(* Properties *)

\* Once the query has settled a frame replaces nothing but matches of the query the
\* bar shows in the text as it is, and all of them if it replaces more than one,
\* whatever has changed the text or the query before (code.rs refresh;
\* workspace_ui.rs find_in_editor).  While it settles the last one's matches are
\* still there to be replaced.
ReplacesMatches ==
    frame.tx # <<>> /\ ~frame.typing =>
        LET found == FindAll(frame.was, query)
            Found(c) == \E i \in DOMAIN found :
                /\ c.at = found[i][1] /\ c.at + Len(c.removed) = found[i][2]
                /\ c.removed = Slice(frame.was, found[i][1], found[i][2])
        IN  /\ \A i \in DOMAIN frame.tx : Found(frame.tx[i])
            /\ Len(frame.tx) > 1 => \A i \in DOMAIN found :
                 \/ \E k \in DOMAIN frame.tx : frame.tx[k].at = found[i][1]
                 \/ Slice(frame.was, found[i][1], found[i][2]) \in Replacements
=============================================================================
