---------------------------- MODULE ProjectFiles ----------------------------
(***************************************************************************)
(* The list of a project's files, built in the background                  *)
(* (project_files.rs), and Quick Open, which picks from it (quick_open.rs, *)
(* app.rs).  The walk reads one folder at a time while files come and go   *)
(* and the exclusions change; the list it makes replaces the old one under *)
(* the user's arrow keys.                                                  *)
(***************************************************************************)
EXTENDS Integers, Sequences, FiniteSets, Functions

CONSTANTS
    Order,         \* the files there may be, as a walk lists them: a folder's own first
    Top,           \* those in the root; the others are in a folder of it
    Queries,       \* what may be typed: [named, anywhere], the files matched
    IndexLimit,    \* INDEX_LIMIT
    MaxAppear,     \* bound: files made or deleted
    MaxHides,      \* bound: changes of what is hidden
    MaxBuilds      \* bound: walks begun

VARIABLES
    present,       \* the files on disk
    hidden,        \* those hidden in this project
    index,         \* FileIndex: files (a sequence), built (fresh, aged or never), generation
    building,
    walk,          \* the thread: folders left, files found, those hidden when it began
    list,          \* the channel: finished lists
    quick,         \* QuickOpen, or Shut
    chosen,        \* the file picked, and the query its row was drawn of
    steady, seen,  \* files there throughout the walk, and at any time in it
    appeared, hides

vars == <<present, hidden, index, building, walk, list, quick, chosen, steady, seen, appeared, hides>>
indexVars == <<index, building, walk, list, steady, seen>>

PathSet == Range(Order)
Shut == [open |-> FALSE]
NoWalk == [on |-> FALSE]
Anything == [named |-> {}, anywhere |-> PathSet]

Init ==
    /\ present \in {Top, PathSet} /\ hidden = {}
    /\ index = [files |-> <<>>, built |-> "never", generation |-> 0] /\ building = FALSE
    /\ walk = NoWalk /\ list = <<>> /\ quick = Shut /\ chosen = <<>>
    /\ steady = {} /\ seen = {} /\ appeared = 0 /\ hides = 0

\* Some of a list's places, in order.
InOrder(places) ==
    [n \in 1 .. Cardinality(places) |-> CHOOSE i \in places : Cardinality({j \in places : j =< i}) = n]

ProjectFile(path, hides0) == [path |-> path, hidden |-> path \in hides0]

(***************************************************************************)
(* FileIndex                                                               *)
(***************************************************************************)
\* poll: a finished list is taken if its generation is still the newest.
Taken == IF list # <<>> /\ list[1].generation = index.generation
         THEN [index EXCEPT !.files = list[1].files, !.built = "fresh"] ELSE index
StillBuilding == building /\ (list = <<>> \/ list[1].generation # index.generation)

\* refresh: poll, and begin a walk unless one is under way or the list is fresh.
Refresh ==
    /\ list' = <<>>
    /\ IF StillBuilding \/ Taken.built = "fresh" \/ Taken.generation = MaxBuilds
       THEN /\ index' = Taken /\ building' = StillBuilding /\ UNCHANGED walk
            /\ IF StillBuilding THEN UNCHANGED <<steady, seen>> ELSE steady' = {} /\ seen' = {}
       ELSE /\ building' = TRUE /\ index' = [Taken EXCEPT !.generation = @ + 1]
            /\ walk' = [on |-> TRUE, generation |-> index.generation + 1, left |-> <<Top, PathSet \ Top>>,
                        found |-> <<>>, hidden |-> hidden]
            /\ steady' = present /\ seen' = present

\* read_dir of the next folder: its files in order, the hidden ones flagged, up to the limit.
LimitBefore == IndexLimit - 1               (* Mutant: the limit counts one too many *)
Limit == IndexLimit
ReadFolder ==
    /\ walk.on /\ walk.left # <<>>
    /\ LET here == InOrder({i \in DOMAIN Order : Order[i] \in Head(walk.left) \cap present})
           all == walk.found \o [n \in DOMAIN here |-> ProjectFile(Order[here[n]], walk.hidden)]
           full == Len(all) >= Limit
       IN  walk' = [walk EXCEPT !.found = IF full THEN SubSeq(all, 1, Limit) ELSE all,
                                !.left = IF full THEN <<>> ELSE Tail(@)]
    /\ UNCHANGED <<present, hidden, index, building, list, quick, chosen, steady, seen, appeared, hides>>

WalkEnds ==
    /\ walk.on /\ walk.left = <<>> /\ walk' = NoWalk
    /\ list' = <<[generation |-> walk.generation, files |-> walk.found]>>
    /\ UNCHANGED <<present, hidden, index, building, quick, chosen, steady, seen, appeared, hides>>

Ages ==
    /\ index.built = "fresh" /\ index' = [index EXCEPT !.built = "aged"]
    /\ UNCHANGED <<present, hidden, building, walk, list, quick, chosen, steady, seen, appeared, hides>>

(***************************************************************************)
(* Quick Open                                                              *)
(***************************************************************************)
\* rank: hits in the name before hits in the folders, ties in the list's order.
Visible(q) == {i \in DOMAIN q.files : q.includeHidden \/ ~q.files[i].hidden}
Rank(q) ==
    LET hits(set) == InOrder({i \in Visible(q) : q.files[i].path \in set})
    IN  hits(q.query.named) \o hits(q.query.anywhere \ q.query.named)

\* What a frame keeps the hits by: the query, the check box, and which list they are of.
Cached(q) == [query |-> q.query, includeHidden |-> q.includeHidden, files |-> q.files]
Hits(q) == IF q.cache.of = Cached(q) THEN q.cache.hits ELSE Rank(q)

QuickOpen ==
    /\ ~quick.open /\ Refresh
    /\ quick' = [open |-> TRUE, query |-> Anything, selected |-> 1, includeHidden |-> FALSE,
                  files |-> index'.files, building |-> building', cache |-> [of |-> <<>>, hits |-> <<>>]]
    /\ chosen' = <<>> /\ UNCHANGED <<present, hidden, appeared, hides>>

\* Each frame takes a new list and finds its rows before the input takes what is typed; then
\* come the arrows, the check box, and a row picked by Enter or a click: of the rows drawn.
Refreshed == [quick EXCEPT !.files = index'.files, !.building = building']
KeepsHits(q) == [q EXCEPT !.cache = [of |-> Cached(q), hits |-> Hits(q)]]
Typing(q) == {q} \cup {[q EXCEPT !.query = query, !.selected = 1] : query \in Queries}
Above(row) == IF row > 1 THEN row - 1 ELSE 1
Below(row, rows) == IF row < rows THEN row + 1 ELSE IF rows = 0 THEN 1 ELSE rows
Arrows(row, rows) == {row, Above(row), Below(row, rows), Above(Below(row, rows))}
Boxing(q) == {q, [q EXCEPT !.includeHidden = ~@, !.selected = 1]}
Pick(q, file) == quick' = Shut /\ chosen' = <<q.files[file], q.query>>
Frame ==
    /\ quick.open /\ Refresh
    /\ LET drawn == KeepsHits(Refreshed)
           hits == Hits(Refreshed)
       IN  \E typed \in Typing(drawn) : \E row \in Arrows(typed.selected, Len(hits)) :
           \E q \in Boxing([typed EXCEPT !.selected = row]) :
               \/ quick' = q /\ UNCHANGED chosen
               \/ hits # <<>> /\ Pick(drawn, hits[IF q.selected > Len(hits) THEN Len(hits) ELSE q.selected])
               \/ \E n \in DOMAIN hits : Pick(drawn, hits[n])
    /\ UNCHANGED <<present, hidden, appeared, hides>>

Escape ==
    /\ quick.open /\ quick' = Shut
    /\ UNCHANGED <<present, hidden, indexVars, chosen, appeared, hides>>

(***************************************************************************)
(* The project meanwhile                                                   *)
(***************************************************************************)
Appear(f) ==
    /\ appeared < MaxAppear /\ appeared' = appeared + 1
    /\ present' = IF f \in present THEN present \ {f} ELSE present \cup {f}
    /\ steady' = steady \cap present' /\ seen' = IF building THEN seen \cup present' ELSE {}
    /\ UNCHANGED <<hidden, index, building, walk, list, quick, chosen, hides>>

Hide(f) ==
    /\ hides < MaxHides /\ hides' = hides + 1 /\ ~quick.open
    /\ hidden' = IF f \in hidden THEN hidden \ {f} ELSE hidden \cup {f}
    /\ UNCHANGED <<present, indexVars, quick, chosen, appeared>>

Next ==
    \/ ReadFolder \/ WalkEnds \/ Ages \/ QuickOpen \/ Frame \/ Escape
    \/ \E f \in PathSet : Appear(f) \/ Hide(f)

Spec == Init /\ [][Next]_vars

-----------------------------------------------------------------------------
\* A list that was built is one of the walk: files that were there all along are in it, up to
\* the limit, and none that never was (FileIndex::refresh, walk).
ListedFromTheWalk ==
    index'.files # index.files =>
        LET paths == {index'.files[i].path : i \in DOMAIN index'.files}
        IN  /\ paths \subseteq seen
            /\ steady \subseteq paths \/ Len(index'.files) = IndexLimit
            /\ Len(index'.files) = Cardinality(paths)
ListsTheWalk == [][ListedFromTheWalk]_vars

\* What is picked matches the query its row was drawn of, whichever list came in meanwhile: what was
\* typed, unless it was typed in the very frame of the pick (Hit::index, hits, show).
PicksWhatMatches == chosen # <<>> => chosen[1].path \in chosen[2].named \cup chosen[2].anywhere
=============================================================================
