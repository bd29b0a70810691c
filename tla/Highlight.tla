----------------------------- MODULE Highlight -----------------------------
(***************************************************************************)
(* The highlighter of one document: parser states kept every Stride lines, *)
(* spans kept per line, and a budget per frame after which lines are drawn *)
(* plain.  A line is a token: "open" enters a comment, "close" leaves it,  *)
(* "x" does neither, "long" is too long to be parsed.  A line's spans are  *)
(* the state it begins in and the line itself.                             *)
(***************************************************************************)
EXTENDS Integers, Sequences, SequencesExt, FiniteSets

CONSTANTS
    Tokens,       \* the lines there are
    Stride,       \* lines between two checkpoints
    CacheLines,   \* spans kept before they are all dropped
    MaxLines      \* bound: lines of the document

VARIABLES
    lines,        \* the document, one token per line, numbered from 0
    syntax,       \* "code", or "plain" which has no comments
    checkpoints,  \* checkpoints[k + 1] is the state kept for line k * Stride
    cache,        \* line number :> spans
    late          \* some frame has run out of time

vars == <<lines, syntax, checkpoints, cache, late>>

Initial == "out"

Parse(s, line) == CASE syntax = "plain" -> s
                    [] line = "open"  -> "in"
                    [] line = "close" -> "out"
                    [] OTHER          -> s
ParseLine(s, l) == IF l < Len(lines) THEN Parse(s, lines[l + 1]) ELSE s

NoLines == [l \in {} |-> <<>>]

Init ==
    /\ lines \in UNION {[1 .. n -> Tokens] : n \in 1 .. MaxLines}
    /\ syntax = "code"
    /\ checkpoints = <<Initial>> /\ cache = NoLines
    /\ late = FALSE

Reset == checkpoints' = <<Initial>> /\ cache' = NoLines

(* Mutant: the checkpoint past the edited line's stride is kept. *)
InvalidateTooLate(line) ==
    /\ checkpoints' = LET kept == line \div Stride + 2
                      IN  IF Len(checkpoints) <= kept THEN checkpoints ELSE SubSeq(checkpoints, 1, kept)
    /\ cache' = [l \in {k \in DOMAIN cache : k < line} |-> cache[l]]
InvalidateFrom(line) ==
    /\ checkpoints' = LET kept == line \div Stride + 1
                      IN  IF Len(checkpoints) <= kept THEN checkpoints ELSE SubSeq(checkpoints, 1, kept)
    /\ cache' = [l \in {k \in DOMAIN cache : k < line} |-> cache[l]]

\* The checkpoints up to the one before the lines wanted; each line takes a look at
\* the clock, and it has gone past the deadline after left of them.
Reach(wanted, left) ==
    LET Advance(acc, k) ==
          IF acc.left < Stride THEN [acc EXCEPT !.left = -1]
          ELSE [marks |-> Append(acc.marks,
                            FoldLeft(ParseLine, Last(acc.marks),
                                     [i \in 1 .. Stride |-> (k - 1) * Stride + i - 1])),
                left |-> acc.left - Stride]
        missing == [i \in 1 .. wanted + 1 - Len(checkpoints) |-> Len(checkpoints) + i - 1]
    IN  FoldLeft(Advance, [marks |-> checkpoints, left |-> left], missing)

\* From the checkpoint on: a line at a stride's start leaves the state it has, a
\* cached line is passed over, and past the deadline a line is left plain.
Walk(marks, kept, base, start, end, left) ==
    LET Line(acc, l) ==
          LET marked == IF l % Stride = 0 /\ l \div Stride = Len(acc.marks)
                        THEN Append(acc.marks, acc.state) ELSE acc.marks
              timed == l >= start /\ l \notin DOMAIN acc.cache
              next == ParseLine(acc.state, l)
          IN  IF timed /\ acc.left = 0 THEN [acc EXCEPT !.marks = marked, !.late = TRUE]
              ELSE [acc EXCEPT !.marks = marked, !.state = next,
                               !.left = IF timed THEN @ - 1 ELSE @,
                               !.cache = IF ~timed THEN @
                                         ELSE [k \in DOMAIN @ \cup {l} |->
                                                 IF k = l THEN <<acc.state, lines[l + 1]>> ELSE @[k]]]
    IN  FoldLeft(Line,
                 [marks |-> marks, state |-> marks[base \div Stride + 1], cache |-> kept,
                  left |-> left, late |-> FALSE],
                 [i \in 1 .. end - base |-> base + i - 1])

\* One frame draws lines start .. end - 1 (spans), with time for left of them.
Spans == \E start \in 0 .. Len(lines) - 1 : \E end \in start + 1 .. Len(lines), left \in 0 .. MaxLines :
    /\ \E l \in start .. end - 1 : l \notin DOMAIN cache
    /\ LET kept == IF Cardinality(DOMAIN cache) > CacheLines THEN NoLines ELSE cache
           wanted == start \div Stride
           reached == Reach(wanted, left)
           drawn == Walk(reached.marks, kept, wanted * Stride, start, end, reached.left)
       IN  IF reached.left < 0
           THEN checkpoints' = reached.marks /\ cache' = kept /\ late' = TRUE
           ELSE checkpoints' = drawn.marks /\ cache' = drawn.cache /\ late' = (late \/ drawn.late)
    /\ UNCHANGED <<lines, syntax>>

\* An edit that touched lines first .. (doc.rs Applied) puts others in their place.
Edit == \E first \in 0 .. Len(lines) - 1, new \in {<<>>} \cup {<<t>> : t \in Tokens} \cup {<<t, "x">> : t \in Tokens} :
    /\ LET text == SubSeq(lines, 1, first) \o new \o SubSeq(lines, first + 2, Len(lines))
       IN  Len(text) \in 1 .. MaxLines /\ lines' = text
    /\ InvalidateFrom(first)
    /\ UNCHANGED <<syntax, late>>

\* Another language or theme; the same language again changes nothing (set_syntax).
SetSyntax == \E s \in {"code", "plain"} :
    /\ s # syntax
    /\ syntax' = s /\ Reset /\ UNCHANGED <<lines, late>>
SetTheme == Reset /\ UNCHANGED <<lines, syntax, late>>

\* The text comes from the disk.
Reload == \E n \in 1 .. MaxLines, t \in Tokens :
    /\ lines' = [i \in 1 .. n |-> t]
    /\ Reset /\ UNCHANGED <<syntax, late>>

Next == Spans \/ Edit \/ SetSyntax \/ SetTheme \/ Reload

Spec == Init /\ [][Next]_vars

---------------------------------------------------------------------------
(* Properties *)

StateAt(l) == FoldLeft(ParseLine, Initial, [i \in 1 .. l |-> i - 1])

\* "`checkpoints[k]` is the state at the start of line `k * STRIDE`"
\* (highlight.rs:115), whenever the highlighter is at rest.
CheckpointsExact ==
    \A k \in DOMAIN checkpoints : checkpoints[k] = StateAt((k - 1) * Stride)

\* As long as no frame ran out of time, what an edit forgets is enough: every state
\* and every line's colours kept are those of the text as it is (highlight.rs
\* invalidate_from, spans).
InvalidationSuffices ==
    ~late => /\ CheckpointsExact
             /\ \A l \in DOMAIN cache : l < Len(lines) /\ cache[l] = <<StateAt(l), lines[l + 1]>>
=============================================================================
