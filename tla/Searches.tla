------------------------------ MODULE Searches ------------------------------
(***************************************************************************)
(* Find in Files: the panel of search_panel.rs, the scans behind it        *)
(* (file_search.rs) and the replacements the app commits (app.rs, commit). *)
(*                                                                         *)
(* A scan is a thread: it looks at one file at a time, while files change  *)
(* under it and further scans are begun; a newer one makes it stale by the *)
(* generation counter.  Replacing goes through the buffers of open files   *)
(* and straight to the disk of the others, after a dialog.  A text is a    *)
(* short sequence of characters, a term one character.                     *)
(***************************************************************************)
EXTENDS TextEdits

CONSTANTS
    Walk,          \* the project's files, in the order a scan walks them
    Texts,         \* what other programs, and users, make of a file
    FirstTexts,    \* what the files hold at first
    Terms,         \* search terms; the empty one is <<>>
    Replacements,
    MatchCap,      \* MATCH_CAP
    MaxScans, MaxChanges   \* bounds: scans begun or stopped, changes of a text by others

VARIABLES
    disk,          \* what each file holds
    buf,           \* the open documents; Closed for the others
    unsaved,       \* those with edits of their own
    term,          \* the query in the panel
    settling,      \* it was edited, and not searched for since (edited_at)
    generation, scans,     \* the scans' counter, and their threads
    channel,       \* what they sent
    results, status,
    dialog,        \* the commit that waits for the user's word
    searched,      \* the term last searched for
    astray,        \* whether a commit took out anything but that term
    changes

vars == <<disk, buf, unsaved, term, settling, generation, scans, channel, results, status, dialog,
          searched, astray, changes>>
texts == <<disk, buf, unsaved, changes>>
scanning == <<generation, scans>>
panel == <<results, status, searched>>

Files == Range(Walk)
Closed == <<"closed">>
NoDialog == [kind |-> "none"]
All == [kind |-> "all"]
OfFile(i) == [kind |-> "file", file |-> i]
OfMatch(i, j) == [kind |-> "match", file |-> i, match |-> j]

Init ==
    /\ disk = FirstTexts /\ buf = [f \in Files |-> Closed] /\ unsaved = {}
    /\ term = <<>> /\ settling = FALSE
    /\ generation = 0 /\ scans = {} /\ channel = <<>> /\ results = <<>> /\ status = "idle"
    /\ dialog = NoDialog /\ searched = <<>> /\ astray = FALSE
    /\ changes = 0

Match(at, found) == [from |-> at - 1, to |-> at, found |-> <<found>>]

\* The matches in a text, the first limit of them (find_all, for terms of one character).
MatchesIn(text, what, limit) ==
    LET places == SetToSortSeq({i \in DOMAIN text : what = <<text[i]>>}, <)
    IN  [i \in 1 .. Least(limit, Len(places)) |-> Match(places[i], text[places[i]])]

(***************************************************************************)
(* The scans' threads                                                      *)
(***************************************************************************)
\* Files are skipped whose scan is of a folder they are not in, or that are hidden or
\* excluded; a scope that is not in the project is refused.  Starting a scan makes any
\* before it stale.
Start(scope) == \E refused \in BOOLEAN :
    scans' = scans \cup {[gen |-> generation + 1, term |-> term, total |-> 0, batch |-> <<>>,
                          refused |-> refused,
                          todo |-> SelectSeq(Walk, LAMBDA f : f \in scope /\ ~refused)]}

Alive(s) == generation = s.gen
Send(s, updates) == channel' = channel \o [i \in DOMAIN updates |-> <<s.gen, updates[i]>>]
Becomes(s, new) == scans' = (scans \ {s}) \cup new
Found(batch) == IF batch = <<>> THEN <<>> ELSE <<[kind |-> "found", hits |-> batch]>>

\* One file, unless it is skipped as binary, too large or unreadable.  The batch goes out
\* when it is full or 50 ms old.
ScanFile(s) ==
    /\ s.todo # <<>> /\ Alive(s) /\ s.total < MatchCap
    /\ LET file == Head(s.todo)
           matches == MatchesIn(disk[file], s.term, MatchCap - s.total)
           batch == IF matches = <<>> THEN s.batch
                    ELSE Append(s.batch, [file |-> file, matches |-> matches])
           next == [s EXCEPT !.todo = Tail(@), !.total = @ + Len(matches)]
       IN  \/ Becomes(s, {[next EXCEPT !.batch = batch]}) /\ UNCHANGED channel
           \/ Becomes(s, {[next EXCEPT !.batch = <<>>]}) /\ Send(s, Found(batch))
    /\ UNCHANGED <<texts, term, settling, generation, panel, dialog, astray>>

ScanEnds(s) ==
    /\ s.todo = <<>> \/ ~Alive(s) \/ s.total = MatchCap
    /\ Becomes(s, {})
    /\ IF s.refused THEN Send(s, <<[kind |-> "refused"]>>)
       ELSE IF Alive(s) THEN Send(s, Append(Found(s.batch), [kind |-> "done"])) ELSE UNCHANGED channel
    /\ UNCHANGED <<texts, term, settling, generation, panel, dialog, astray>>

\* Two scans race: one may check that it is alive, be overtaken, and send all the same.
Overtaken(s) ==
    /\ ~Alive(s) /\ s.batch # <<>> /\ Becomes(s, {}) /\ Send(s, Found(s.batch))
    /\ UNCHANGED <<texts, term, settling, generation, panel, dialog, astray>>

(***************************************************************************)
(* The panel                                                               *)
(***************************************************************************)
Edited(what) ==
    /\ dialog = NoDialog /\ term' = what /\ settling' = TRUE
    /\ UNCHANGED <<texts, scanning, channel, panel, dialog, astray>>

\* Enter, or the typing has settled for a while: an empty term stops the scan.
Run(scope) ==
    /\ generation < MaxScans /\ generation' = generation + 1
    /\ settling' = FALSE /\ results' = <<>> /\ searched' = term
    /\ IF term = <<>>
       THEN status' = "idle" /\ UNCHANGED scans
       ELSE Start(scope) /\ status' = "scanning"
    /\ UNCHANGED <<texts, term, channel, dialog, astray>>
RunsNow(scope) == settling \/ (dialog = NoDialog /\ scope # {} /\ term # <<>>)

\* The tree's "Find in Folder": the old query and its results go, nothing starts.
FindInFolder ==
    /\ dialog = NoDialog /\ term # <<>> /\ term' = <<>>
    /\ generation < MaxScans /\ generation' = generation + 1 /\ results' = <<>> /\ status' = "idle" /\ searched' = <<>>
    /\ UNCHANGED <<texts, settling, scans, channel, dialog, astray>>

AnyGeneration(sent) == sent                    (* Mutant: stale updates are taken too *)
Current(sent) == SelectSeq(sent, LAMBDA u : u[1] = generation)
Poll ==
    /\ channel # <<>> /\ channel' = <<>>
    /\ LET updates == Current(channel)
           hits == FlattenSeq([i \in DOMAIN updates |->
                       IF updates[i][2].kind = "found" THEN updates[i][2].hits ELSE <<>>])
           over == {"done", "refused"} \cap {updates[i][2].kind : i \in DOMAIN updates}
       IN  /\ results' = results \o hits
           /\ status' = IF over = {} THEN status ELSE CHOOSE how \in over : TRUE
    /\ UNCHANGED <<texts, term, settling, scanning, searched, dialog, astray>>

(***************************************************************************)
(* Committing replacements                                                 *)
(***************************************************************************)
\* The rows a commit is of: a function from places in the results to matches.  A place that
\* is gone has none.
Targets(c) ==
    CASE c.kind = "all" -> [i \in DOMAIN results |-> results[i].matches]
      [] c.kind = "file" -> [i \in {c.file} \cap DOMAIN results |-> results[i].matches]
      [] OTHER -> [i \in {k \in {c.file} \cap DOMAIN results : c.match \in DOMAIN results[k].matches}
                     |-> <<results[i].matches[c.match]>>]
\* What the dialog asks about (the setting that leaves it out is on, as it is at first).
Unopened(targets) == {i \in DOMAIN targets : buf[results[i].file] = Closed}

\* Only matches that are still what the scan found are replaced.
Verified(text, matches) ==
    SelectSeq(matches, LAMBDA m : m.to <= Len(text) /\ Slice(text, m.from, m.to) = m.found)
Edits(matches, replacement) ==
    [i \in DOMAIN matches |-> Edit(matches[i].from, matches[i].to, replacement)]

\* An open file changes in its buffer, and is saved if it was clean; another one is read,
\* verified and written.  Either write may fail.
Commits(targets, replacement, failing) ==
    LET row(f) == {i \in DOMAIN targets : results[i].file = f}
        old(f) == IF buf[f] = Closed THEN disk[f] ELSE buf[f]
        still(f) == LET i == CHOOSE i \in row(f) : TRUE IN Verified(old(f), targets[i])
        changed == {f \in Files : row(f) # {} /\ still(f) # <<>>}
        new(f) == Apply(old(f), Replace(old(f), Edits(still(f), replacement)))
        written == (changed \ failing) \ unsaved
        committed == {i \in DOMAIN targets : i \in Unopened(targets) => results[i].file \notin failing}
        rest == [i \in DOMAIN results |->
                   IF i \in committed
                   THEN [results[i] EXCEPT !.matches =
                           SelectSeq(@, LAMBDA m : m \notin Range(targets[i]))]
                   ELSE results[i]]
    IN  /\ disk' = [f \in Files |-> IF f \in written THEN new(f) ELSE disk[f]]
        /\ buf' = [f \in Files |-> IF f \in changed /\ buf[f] # Closed THEN new(f) ELSE buf[f]]
        /\ unsaved' = unsaved \cup {f \in changed \cap failing : buf[f] # Closed}
        /\ results' = SelectSeq(rest, LAMBDA r : r.matches # <<>>)
        /\ astray' = (astray \/ \E f \in changed : \E m \in Range(still(f)) :
                        Slice(old(f), m.from, m.to) # searched)

Commit(c, confirmed) ==
    LET targets == Targets(c)
    IN  IF ~confirmed /\ Unopened(targets) # {}
        THEN /\ dialog' = [kind |-> "confirm", commit |-> c,
                           files |-> {results[i].file : i \in Unopened(targets)}]
             /\ UNCHANGED <<disk, buf, unsaved, results, astray>>
        ELSE /\ \E replacement \in Replacements, failing \in SUBSET Files :
                   Commits(targets, replacement, failing)
             /\ dialog' = NoDialog

\* The buttons, which are not there while a scan runs.
Press(c) ==
    /\ dialog = NoDialog /\ status # "scanning" /\ DOMAIN Targets(c) # {}
    /\ Commit(c, FALSE)
    /\ UNCHANGED <<term, settling, scanning, channel, status, searched, changes>>

Answer(yes) ==
    /\ dialog # NoDialog
    /\ IF yes THEN Commit(dialog.commit, TRUE)
       ELSE dialog' = NoDialog /\ UNCHANGED <<disk, buf, unsaved, results, astray>>
    /\ UNCHANGED <<term, settling, scanning, channel, status, searched, changes>>

(***************************************************************************)
(* The files meanwhile                                                     *)
(***************************************************************************)
Others == UNCHANGED <<term, settling, scanning, channel, panel, dialog, astray>>

OutsideWrite(f, text) ==
    /\ changes < MaxChanges /\ changes' = changes + 1
    /\ disk[f] # text /\ disk' = [disk EXCEPT ![f] = text]
    /\ UNCHANGED <<buf, unsaved>> /\ Others

\* Opening a result, or any file; a clean document follows its file.
Open(f) ==
    /\ dialog = NoDialog /\ f \notin unsaved /\ buf[f] # disk[f]
    /\ buf' = [buf EXCEPT ![f] = disk[f]]
    /\ UNCHANGED <<disk, unsaved, changes>> /\ Others

Type(f, text) ==
    /\ dialog = NoDialog /\ buf[f] # Closed /\ changes < MaxChanges /\ changes' = changes + 1
    /\ buf' = [buf EXCEPT ![f] = text] /\ unsaved' = unsaved \cup {f}
    /\ UNCHANGED disk /\ Others

Save(f) ==
    /\ f \in unsaved /\ unsaved' = unsaved \ {f} /\ disk' = [disk EXCEPT ![f] = buf[f]]
    /\ UNCHANGED <<buf, changes>> /\ Others

Next ==
    \/ \E s \in scans : ScanFile(s) \/ ScanEnds(s) \/ Overtaken(s)
    \/ \E what \in Terms : Edited(what)
    \/ \E scope \in {Files, {Head(Walk)}} : RunsNow(scope) /\ Run(scope)
    \/ FindInFolder \/ Poll
    \/ Press(All)
    \/ \E i \in DOMAIN results : Press(OfFile(i)) \/ \E j \in DOMAIN results[i].matches : Press(OfMatch(i, j))
    \/ \E yes \in BOOLEAN : Answer(yes)
    \/ \E f \in Files : Open(f) \/ Save(f) \/ \E text \in Texts : OutsideWrite(f, text) \/ Type(f, text)

Spec == Init /\ [][Next]_vars

-----------------------------------------------------------------------------
\* However scans, edits and outside writes interleave, the rows shown are of the newest
\* search, and what a commit replaces is text that search was for (Scan::poll,
\* verified_edits).
ReplacesFound ==
    /\ \A i \in DOMAIN results : \A m \in Range(results[i].matches) : m.found = searched
    /\ ~astray

\* What the user confirmed is what is written (dialogs.rs names the number of files): it is
\* not when a settling query is searched for while the dialog is up, for the commit is kept
\* as a place in the results.
WritesConfirmed ==
    [][dialog # NoDialog /\ dialog' = NoDialog /\ disk' # disk =>
         \A f \in Files : disk'[f] # disk[f] => f \in dialog.files \/ buf[f] # Closed]_vars
=============================================================================
