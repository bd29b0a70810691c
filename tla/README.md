# throng in TLA+

A specification of the parts of throng whose correctness depends on the order in
which processes, threads and messages meet: TLA+ modules translated from the Rust
sources, TLC configurations that check them on small instances, and proofs checked by
TLAPS. Paths below are relative to the repository's `crates/`; requirement numbers
(FR-...) are those of `docs/spec.md`.

## The system

throng is a desktop workspace: terminal panels, editors, an explorer, searches and
previews, arranged in projects. The UI process draws; a detached daemon process owns
every terminal, so that terminals survive the UI.

| Component | State | Operations | Talks to |
|---|---|---|---|
| Daemon session (`throng-daemon/src/session.rs`) | PTY, bounded tail with offsets, attached views and their sizes, alternate-screen flag, exit, `user_killed` | spawn, pump output, finish, attach, nudge, detach, resize, write, end, kill | registry (output, exit), a read, a wait, a kill and a nudge thread each |
| Daemon registry and writer (`registry.rs`, `server.rs` `write_loop`) | per client: queue, byte counter, terminals owed a resync | send, send_output, written, take_resyncs | sessions, one writer thread per client |
| Daemon server (`server.rs`) | map of sessions, list of ending ones, stopping flag | the requests, session_ended, idle watch, end_all_sessions | one serving thread per client |
| Client library (`client.rs`) | outgoing queue, request ids, waiters, connected flag | send, post, request (blocking), drop | reader and writer thread, the socket, UI thread |
| Link (`throng-app/src/link.rs`) | connection state, back-off, blocking daemon | poll, reconnect, replace a blocking daemon | hub, client |
| Terminal hub (`throng-app/src/term/hub.rs`) | views, plans, pending requests, killed, dormant, listing, closing | prepare, connect, kill, restart, poll_directories, on_daemon_event | app, link |
| Terminal view (`term/mod.rs`) | emulator, size, status, `seen_until` | apply_snapshot, feed, resize | hub |
| PTY host (`pty_host.rs`) | a PTY in a second process | serve, connect, resize, kill | session (Windows) |
| Editor core (`throng-editor`) | rope, shared history, selections, wrap counts, highlighter checkpoints | transactions, undo, redo, commands, find, wrap, spans | panels of one document |
| Documents and recovery (`throng-app/src/editor.rs`, `recovery.rs`) | open documents, disk stamps, recovery files | open, save, reload, keep mine, rename, close, tick, adopt | writer thread, disk, watcher |
| File operations (`file_ops.rs`, `throng-core/src/file_history.rs`) | undo and redo lists per project | create, rename, move, copy, trash, undo, redo | disk, trash |
| File tree (`explorer.rs`) | expanded folders, cached listings, clipboard, watches | expand, refresh, follow moves, hide | watcher, file operations |
| Workspaces (`throng-core/src/workspace.rs`, `subworkspace.rs`) | layouts, tabs, panels, mirrors | split, dock, close, move out and back, prune | app, persistence |
| Projects and persistence (`project.rs`, `throng-persistence`) | SQLite rows, quarantine | load, save, delete | app |
| Settings, keymap, themes (`settings.rs`, `keymap.rs`, `prefs.rs`, `themes.rs`) | what is in force, the files, a draft | set, bind, reset, edit a theme, take in edits by hand | watcher, disk |
| Searches (`file_search.rs`, `search_panel.rs`) | query, generation, results | scan, stop, poll, replace | a thread per scan, documents, disk |
| File index and Quick Open (`project_files.rs`, `quick_open.rs`) | the list, its age and generation; the rows shown | refresh, poll, pick | a thread per walk |
| Updates (`update_check.rs`, `self_update.rs`) | offer, staged download, the installed app | check, skip, verify, swap, restart | a thread, disk |
| Previews (`preview.rs`) | text shown, pending refresh, history, scrolling | follow, open, back, forward, sync | documents, disk, editors |
| Rendering | caches | draw | - |

What makes each of them correct:

- **Session size.** One smallest size over all views; no ghost view pins it; the size on
  screen reaches the program; a nudge leaves no trace.
- **Output.** Nothing twice, nothing silently missing, the exit last, a slow view catches up.
- **Session life.** No live session unknown to the daemon, none that outlives it; the id of
  a killed terminal is free at once and never confused with the one dying; an exit is kept
  until read.
- **Daemon life.** It goes when idle, when told, or when its socket is gone, and ends
  everything first.
- **Hub.** Each panel agrees in the end with the daemon, whatever the user did meanwhile;
  quitting leaves no terminal started behind it.
- **Client and link.** A request fails at once when its connection is gone; no answer goes to
  another's asker; no loss goes untold.
- **Editor.** Undo inverts whatever was merged, sealed or trimmed; what is kept beside the text
  (selections of other panels, wrap counts, colours, matches) follows it.
- **Documents.** Text is never lost between memory, recovery file and disk, and what the user
  was done with does not come back.
- **Files and the tree.** A refused operation changes nothing, an undo restores exactly; the tree
  lists what the disk holds.
- **Layouts.** A panel is in one place, across windows, saves and crashes.
- **Searches.** Only what was searched for is replaced, and only the newest list is shown.
- **Settings.** What is in force is what the files say, whoever wrote them.
- **Updates.** A failed update leaves the app that was there.

The hard behaviours: locks released between the steps of one request (Spawn, Kill),
threads outliving what started them (nudge, kill, wait, scans, walks, installs), two
connections of one UI alive at once, a queue that drops, a UI acting on a panel whose news is
on its way, lost connections, other programs writing the same files between a read and its use,
one document in several panels and one panel in two windows, saves that trail what they save,
and crashes between two of them. `PROJECT.json` lists the hazards line by line with the properties aimed at each.

## Modules

| Module | Models | Checked by | Proved in |
|---|---|---|---|
| `PtySize` | the size of one terminal, view to PTY | `MCPtySize` | `PtySizeProofs` |
| `TermStream` | the output of one terminal, PTY to view | `MCTermStream` | `TermStreamProofs` |
| `OutputView` | what a terminal promises of its output (abstract) | as a property of `TermStream` | `TermStreamProofs` |
| `DaemonLife` | sessions from spawn to reaping, and the daemon's own end | `MCDaemonLife` | `DaemonLifeProofs` |
| `TerminalHub` | terminal panels of the UI against the daemon's terminals | `MCTerminalHub` | `TerminalHubProofs` |
| `TextEdits` | texts, transactions, their inverses, positions carried across (operators) | through `Editing`, `FindBar`, `Searches` | - |
| `Editing` | one document in its panels: commands, history, selections, wrap counts | `MCDocumentParts` | - |
| `Highlight` | the highlighter's checkpoints, spans and budget | `MCDocumentParts` | - |
| `FindBar` | the find bar of an editor panel | `MCDocumentParts` | - |
| `Documents` | open documents, their files and their recovery files | `MCDocumentParts`, and itself | `DocumentPartsProofs` |
| `FileOps` | the tree's operations, the trash and their history | `MCDocumentParts` | - |
| `DocumentParts` | the five above side by side | `MCDocumentParts` | `DocumentPartsProofs` |
| `Updates` | update check and self-update | `MCWorkbenchParts` | `WorkbenchPartsProofs` |
| `Searches` | project search and replace | `MCWorkbenchParts` | - |
| `ProjectFiles` | the file index and Quick Open | `MCWorkbenchParts` | `WorkbenchPartsProofs` |
| `Workspaces` | layouts, sub-workspaces and their rows | `MCWorkbenchParts` | - |
| `Previews` | a preview panel and its mirror | `MCWorkbenchParts` | `PreviewsProofs` |
| `FileTree` | the file tree's listings and watches | `MCWorkbenchParts` | `FileTreeProofs` |
| `ClientConn` | the link, the client and its threads | `MCWorkbenchParts` | `WorkbenchPartsProofs` |
| `Preferences` | settings, key bindings and themes as files | `MCWorkbenchParts` | `WorkbenchPartsProofs` |
| `PreviewPart` | the preview's names among the workbench's parts | through `WorkbenchParts` | `PreviewsProofs` |
| `WorkbenchParts` | the eight components above side by side | `MCWorkbenchParts` | `WorkbenchPartsProofs`, `FileTreeProofs` |

The first four components share the same program objects seen at different grains. `PtySize`
abstracts output away, `TermStream` sizes, `DaemonLife` the UI (any client), and
`TerminalHub` takes each request of the daemon as one step, which `DaemonLife` cuts
into its locked sections; `ClientConn` is the client that carries them, with requests as numbers.

The components of the editor and of the workbench meet in few places, and each module keeps
the side of its neighbour that it depends on (`Searches` an open file's buffer, `Previews` its
document's version, `FileTree` the moves of `FileOps`). `DocumentParts` and `WorkbenchParts`
put them side by side, without interleaving: `part` says which component a behaviour is of, its
state takes the component's steps and the rest is held at `Nothing`, so that one run explores each
component's own state space, and each property reads `part = ... => ...` of the component's. The
state spaces add up and do not multiply.

### PtySize

UI state: `status`, `viewSize`, `pending`, `conn`. Link: `wire[c]` (requests, still served
after the connection is gone) and `inbox`. Daemon: `sess`, `views`, `size`, `pty`, `alt`
and the nudge threads. `DrawFrame` is one frame of `terminal_ui`: the layout's resize, the
`Resize` posted by a running view (`finish_terminal_frame`) and `connect`, in that order.
`Serve` is a serving thread handling one request whole, with `apply_size`; `CloseServer`
is what the same thread does after its loop. A nudge is three steps, since it holds no lock
between reading the size, shrinking and restoring. `SubSeq` in `Disconnect` is any prefix:
what had left the UI is still read by the daemon. The PTY's `resize` cannot fail in the
model (the code ignores its error), and a change of size and the `resize` of the PTY under
the session's lock are one step.

### TermStream

`Pump`, `Finish` and `Attach` hold the session's lock, so each is one step with everything
it queues. The writer thread is cut at each access to what it shares: take and write a
message, count it (`written`), look whether the queue is empty, read the counter and drain
the resyncs (`take_resyncs`), write the resync; in `WriterTakesMessage` taking and writing
are one step, as only the writer sees the difference. Output may follow the exit (a
background process holds the PTY). `painted` counts how often each byte was painted since
the view was last rebuilt: it observes and guards nothing. The tail is cut past the
excess at any place of the window, standing for the first line end found there.

`OutputView` is the promise of FR-005: a view paints a growing stretch, each byte at most
once, with a hole only while it is owed a rebuild. `ShowsOutput` checks that `TermStream`
implements it with `upto <- seen`, `missing <- Missing`, `owed <- Owed`.

### DaemonLife

A request is cut where the code holds no lock: Spawn checks, starts the session,
inserts it, attaches; Kill removes, ends, hangs up, lists as ending; Attach finds the
session and then attaches. `pc`, `obj` and `arg` say where each serving thread is.
A shell exits at any moment (`ShellExits`), and its wait thread finishes and reports in two
steps, the second by id. `IdleWakes` counts connections, live sessions and map at one
instant. The main thread's end is `MainStops`, `MainKills` per session and `MainGoes`.
Connections interleave freely: a dead one's thread may still serve what it had read while the new
one's requests go on. Three variables remember, for the properties only, where two requests crossed in
a way the code does not make good: `raced` (sessions entered while another request was starting the same
terminal), `crossed` (a session and a connection that was attaching to it when it was killed) and
`late` (sessions in a request's hands when the stop listed what to end, or started after).

### TerminalHub

The hub's fields under their names, the two queues of the connection (`out`, `inb`) and the
daemon's session per panel. A plan exists exactly when its view does, so plans have no
variable. `made` numbers the terminals of a panel: requests and events carry it for the
properties only. Quitting (`finish_close`) blocks the UI thread (`quit = "asking"`)
until the daemon has closed what it was asked to, or the wait times out. A lost connection
takes both queues; the daemon drops the views, or has died with every session. `lost` and `mixed`
remember, for the properties only, the panels whose Kill found no connection or was lost with one (or
whose Forget was), and those in which the ends of two terminals, or an exit and what ends or starts a
terminal, crossed; a panel leaves both when its terminal is ended over a connection with no such
news on its way, or the daemon dies.

### TextEdits, Editing

A text is a sequence of characters of four sorts, which is what the commands tell apart. A
transaction, its inverse and the carrying of positions across it are operators of `TextEdits`.
In `Editing` a frame belongs to one panel and holds at most two events; at `EndFrame` the other
panels' selections are carried across the frame's changes, one after another, as `code.rs`
follow does. Every command of `commands.rs` is an action; a caret goes anywhere in one step
(`MoveKeys`, `Mouse`), so that the movements are not spelt out, and column selections are left
out. `counted` is the number of characters per line the wrap cache believes in.

### Highlight, FindBar

`Highlight` has one document of tokens; a line's colours are the parser's state before it and
the line, so a stale state is visible. The deadline of a frame may pass at any line. `FindBar`
has the query as typed and as last looked for, and the text of a document that changes
under it; a replacement is checked when it is made, against the matches of the query shown.

### Documents

`docs` are the open documents with their text, what they were saved as, a version, a disk state
and a stamp; `panels` say which panel shows which; `saves`, `jobs` and `written` are the recovery
files on disk, those handed to the writing thread, and what was last sent for each document
(`recovery.rs` tick). A frame is `Watch` or `TickRecovery` ("logic") and then one action of the
user ("ui"). `Quit` flushes, `Crash` leaves whatever the thread had done, `Launch` adopts what it
finds. `fresh` numbers texts, and a stamp is as fine as its content; `raced` marks a file written
between a read and its stamp. `mistaken` marks a key whose number last sent may be taken for another
text's, until it is sent again or clean: its deleted file came back under unsaved edits, or another
document took it (`Taken`: `rekey`, `editor.rs:490`). What a recovery file will hold when the thread
is through is `Left`: what the last job that names the key says of it, or else the file as it is.

### FileOps

A disk of named items with identities, the trash, and the undo and redo lists with their limit.
`RenameNoClobber` checks and renames in one step; the gap between the two is listed below. A
recorded operation is a move, or a trashing with its token, or a creation, as in
`file_history.rs`.

### Updates

The window (`check`, `offer`, `notice`, `installing`), the install's thread (`thread`, one step of
the file system each, which may fail) and the process, which may exit anywhere. `place`, `aside`
and `staged` are where apps are on disk.

### Searches

`ScanFile` looks at one file, open buffer first; `Poll` takes what the newest scan sent.
`Press` and `Answer` are a commit with the question that precedes it (the setting
`warn_irreversible_commit` on). Terms are of one character; a scope is the project or its first
file, and may be refused.

### ProjectFiles

`ReadFolder` is one step of the walk, so files come and go in between. `QuickOpen`, `Frame` and
`Escape` are the dialog; a frame takes a new list, finds its rows, and only then answers the input,
the arrows, the check box and a row picked, in that order, any of them together. What a query matches
is part of it. The cache is keyed by the list itself, for which the code uses its address: no other
list has it while the dialog holds this one.

### Workspaces

A layout is its tabs, each the leaves of a split tree in order, each leaf its stacked panels. The
user's actions are those of the tab bar, the docks and the chords (which act on the panel last focused,
even one that is away): add, split, stack, drag, close, move out to a sub-workspace and back, delete a sub-workspace or a project. `Flush` saves one workspace, `Stop`
ends the program (a quit flushes them all, a crash nothing, a save may fail), `Start` loads the
rows, of which one may be unreadable. The id of a closed panel may be given again, as in the code;
panels of a sub-workspace that is deleted come back in the order of their ids.

### Previews

`Frame` draws the panel's and its mirror's state and, for the panel's own, syncs it with the
editor; `TimePasses` moves the waits. Every text has the same blocks, and a file's stamp is the
number of its last write; reading and stamping are apart, so a write may fall in between.
`trail` is what a browser would keep, and `answers` counts the moves sync made since another side's
move; only the panel's own view is synced, so a mirror's frame leaves it alone. The map between lines
and offsets is the code's: no offset before the first block, and a line within its block. A preview
on screen that waits is drawn when that is due (`request_repaint_after`), which is the guard of `TimePasses`.

### FileTree

A frame is logic (the watcher's events), draw (listing what is expanded and has no listing,
setting watches), act (one operation). Paths are at most two deep. A watch is of the item
it was set on, which a folder made anew under the name is not. The undo of `FileOps` is here the
move or the restoring it does. Three ghosts say what the properties are about: the folders listed
before their watch was set (`old`), the items expanded (`opened`) and the item on the clipboard.

### ClientConn

The UI's thread in `request`, cut at `send`, `recheck` and `wait`; the reader, which tells of the
loss and drains the waiters in two steps; the writer; the stream, with what is lost of it; the
daemon, which may be stuck in a `Write` to a program that does not read (`session.rs:400`); the
link's attempts, its back-off and a daemon of another version. Only one thread waits at a time,
as only the UI's thread calls `request`.

### Preferences

Three kinds of files, each what it holds or malformed; `ByHand` edits any of them at any time,
`TakeIn` is the watch. The settings are one bounded number and the name of the theme; the key
bindings are whole, with several chords per command (typed in by hand too, twice as well: `HandLists`),
scopes, reserved chords, the question about rivals and resets; a theme is which edit of it, with the draft that is written 400 ms later. No
write fails, and a frame is drawn between what is taken in and the next click.

## Runs

Each passing run checks deadlock off: all of the systems may stop (bounded connections,
sessions, bytes, edits; the daemon goes).

| Run | States | What it shows |
|---|---|---|
| `pty_size` | 330 thousand | two connections, two nudges, one resize, two resyncs, one row and two, two widths: size smallest, rows restored, size reported, ghosts detached, rows arrive |
| `term_stream` | 184 thousand | six bytes, chunks of up to two, a tail of three and a queue of four bytes, one lost connection, one message of another terminal |
| `daemon_life` | 455 thousand | one terminal id, two connections, two sessions, in two instances side by side: "racing", four requests and departures in any interleaving in a daemon nothing stops, and "stopping", two requests and everything that ends the daemon, whose connections stay once it ends its sessions (`Leaves`) |
| `terminal_hub` | 2231 thousand | one panel, three terminals made in it, quitting at any moment, in two instances side by side: "apart", where a connection or the daemon is lost with anything on the queues and ends do not cross (five ids), and "mixing", where they cross in every way on one connection (three ids) |
| `documents` | 1063 thousand | `Editing` (676): two panels, three edits or copies (or two and a caret move) of a text of at most seven characters, undos and redos besides, and a history of two: two undos in a row, two redos, and what trimming leaves. `Highlight` (9): four lines, a checkpoint every second. `FindBar` (29): two versions, two queries. `Documents` (226): two files, one panel, three texts, one quit or crash. `FileOps` (123): two names two deep, three operations, a history of two, one change by another program |
| `workbench` | 1152 thousand | `Updates` (7): two releases, two installs. `Searches`: two files, two scans, a cap of two matches, one change by others. `ProjectFiles` (49): three files in two folders, a limit of two, two walks. `Workspaces`: a project, two sub-workspaces, four panels, three edits, one restart. `Previews`: two files, the panel and its mirror, three acts. `FileTree` (98): two folders, five items, two acts and two changes by others. `ClientConn` (55): two requests, two losses, three attempts. `Preferences` (85): three commands, three chords, three acts and one edit by hand |
| `pty_nudge`, `pty_connecting`, `hub_listing`, `hub_dormant`, `recovery_returned`, `unsaved_closed` | - | the six findings below |

What `documents` says of each part: undo and redo replay exactly the texts there were
(`HistoryReplays`); the other panels' selections and wrap counts fit the text (`ViewsFit`); what
an edit makes the highlighter forget is enough (`InvalidationSuffices`); a replacement replaces
matches (`ReplacesMatches`); the disk state shown is so (`DiskStateTrue`); what comes back at
the next launch is exactly what was unsaved (`RecoveryExact`); the tree's operations lose nothing
and undo exactly (`OperationsReverse`).

What `workbench` says: a failed update leaves the app there was, in place or set aside, unless putting it back fails as well (`SwapLeavesApp`); only what was
searched for is replaced (`ReplacesFound`); the list is a walk's, cut at the limit and no sooner, and a row picked is the file it
shows, of the query it was drawn of (`IndexHonest`); a panel is in one place (`LayoutWhole`); a preview shows its file, in
time, with its trail, without chasing its editor (`PreviewFollows`); the tree lists the disk
(`TreeFollows`); a request fails at once with its connection (`FailsAtOnce`); what is in force is
what the files say (`FilesInForce`).

Some of these exclude what the code does not do, by name: `RecoveryExact` files that came back
(`recovery_returned`) or took another's key, `DiskStateTrue` files written between a read and its stamp, `NoGhosts`
histories dropped when the setting is turned off, `LayoutWhole` layouts a crash or a bad row cut
in two, `TreeFollows` listings older than their watch and items that were in the trash, `ShowsTheFile` a document closed and
opened anew unseen. Each is listed under "Seen while modelling".

Why the bounds are enough to be interesting:

- Sizes two by two with a one-row height reach the smallest-of-several, the mixed case (one
  view narrower, the other lower) and the nudge that must not shrink. Two connections are
  the old and the new; two nudges overlap. Two resyncs put two Attaches in flight, of which the
  first answer clears the view's one `pending`.
- A tail smaller than the output makes a snapshot start late; a queue smaller than the output
  makes it drop, with a resync owed before, during and after the writer's check.
- Two sessions of one id are one dying and one started in its place, which every property about
  ids needs; two connections interleave the steps of two requests.
- Two panels of one text are the one that edits and the one that is carried along; a history of
  two entries is trimmed by the third edit, and undone and redone in order by two steps; three texts are the loaded, the
  edited and the one another program wrote.
- Two scans, walks, installs or versions are the stale one and the newest. Two files are the one
  open and the one only on disk, or the two ends of a rename or of a link.
- Two sub-workspaces, with three edits and a restart, reach a panel shown in one, moved to the
  other and back, with any subset saved.
- Two lost connections with a request on each interleave every step of `request` with the loss and
  with the reader's draining, and bring a late answer to a new connection. Three chords are
  one free, one another command's and one the terminal's own.
- Three terminals made in one panel are two killed ones, whose ends may be in flight together, and
  their successor. `MaxIds` lets each
  connection attach, spawn, resync and list; the hub only starts user requests below it, and
  answers what it receives beyond it.

### Assumptions of the runs, and what happens without them

Each is a constant that a run sets; with it the other way TLC finds a counterexample. A theorem
that needs one has it as a hypothesis, named here; the other theorems have none.

- `CalmConnect` (PtySize; theorem `SizesReported`): no layout changes a view that does not run
  while any request of its own is unanswered. Without it `ViewSizeReported` fails: run
  `pty_connecting`.
- `LossSparesExited` (TermStream; all its theorems but `NoBytePaintedTwice`): no connection is lost while a view that already shows an
  exit is owed a resync. Without it `NoSilentLoss` fails, since `reconnected` leaves exited
  views alone (`hub.rs:145`).
- `OverflowChecks = FALSE` (DaemonLife): a release build. With checks, `unread` of
  `watch_idle` (`server.rs:168`) is negative after a Kill until its session has exited; the idle
  watch panics and `SocketGoneEnds` and `IdleExits` fail. A release build wraps and does not
  use the number, since a session is live.
- `LossSparesLists` (TerminalHub; `RunningViewsAreAttached`): no connection is lost with a List in flight: run
  `hub_listing`. Without it `RunningIsAttached` and `Settles` fail as well, when the reply to a
  request of the new connection carries the id `listing` still holds.
What these properties leave out besides is left out by the property itself, of the panel or session
it happened to and for as long as it matters; without any one of these exemptions TLC finds a
counterexample, so that each is a gap of the code:

- `raced` (DaemonLife; `EveryLiveSessionKnown`, `ViewsAreServed`, `NothingOutlives`): two Spawns of one
  id may both pass the check (`server.rs:281`) before either session is entered (`server.rs:302`), and
  the second entered hides the first. Two connections of one UI do this only across a reconnect, when
  the dead one's thread still serves a Spawn it had read.
- `crossed` (`ViewsAreServed`): an Attach that has found its session adds its view (`server.rs:317`)
  though a Kill has taken the session out and told its views; the view stays till the session is dead.
- `late` (`NothingOutlives`, `KilledDies`): what a request has started and not entered, or removed and
  not listed as ending (`server.rs:344-347`), when `end_all_sessions` makes its list (`server.rs:190`),
  and what is started after, is neither killed nor waited for.
- `lost` (TerminalHub; `EndedTerminalsEnd`, `NewOutlivesOld`): a Kill of a panel found no connection or
  was lost with one, and nothing sends it again (`hub.rs:194`): the session runs on, and its exit may be
  taken for that of the terminal made next. For `NewOutlivesOld` a lost Forget counts as well.
- `mixed` (`EndedTerminalsEnd`, `NewOutlivesOld`): `killed` holds one mark per panel, which the first
  of two ends in flight takes (`hub.rs:95-97`, `299`); and a shell's own exit is not matched against
  `killed` at all, so that one that crosses with the end, the making or the restart of its
  panel's terminal is taken for that of another.

`KeysApart` (DocumentParts) is an assumption on the constants: no file is a panel, as `DocKey` keeps
them apart. `FoldersFinite` (WorkbenchParts) is one too: a disk has finitely many folder names. So are
`BoundsSound` (a setting's default is within its bounds, `settings.rs`), `ThemesNamed` (no user theme
is called `builtin` or `none`) and `ChordsSound`: no default binding is given twice or refused, as the
test at `keymap.rs:475` checks of the real ones, and what is typed into a file is chords.
The assumptions of the other modules say that bounds are numbers, sizes positive and
the sets of panels, ids and connections finite.

`OneStop` is a bound: a daemon about to stop is not stopped a second way. `MainGoes`
assumes the 3 s of `end_all_sessions` are enough for an escalated kill, which takes 1.5 s.

### Fairness

Weak fairness throughout: a thread that can go on does. Serving, writing, waiting, nudge and
kill threads, frames of panels that are drawn, and the link's retries are fair. Nothing is
assumed of users, programs or shells: no shell exits by itself, no one disconnects. The kill
thread makes a hung-up shell exit in the end. Idle time passing is an action of its own. The
modules of the editor and the workbench state no fairness and only safety: a wait that must end
is bounded by a count (`NeverLate`, `FailsAtOnce`).

### Findings

- **A nudge restores a stale width** (`pty_nudge`, `session.rs:353-367`). The columns are
  read once, before the shrink; a resize within the 60 ms leaves the PTY at the old width,
  and `apply_size` sees no change afterwards. FR-010.
- **A resize while connecting is lost** (`pty_connecting`, `workspace_ui.rs:1058-1087`). A
  Resize is posted only by a running view; nothing sends the size that changed between the
  request and its reply. FR-010.
- **A lost List ends the polling** (`hub_listing`, `hub.rs:141-157`). `listing` is not cleared
  with `pending` when the connection drops.
- **Edits after a deleted file came back are not kept** (`recovery_returned`,
  `recovery.rs:188`). The version plus one marks what was sent while the file was deleted; when it
  comes back and one edit follows, that number is taken for sent.
- **A tab with two panels of one edited document closes without a word** (`unsaved_closed`,
  `app.rs:2546-2561`). Neither panel is the only one that shows it, and both are closed.
- **A new terminal may stay dormant** (`hub_dormant`, `hub.rs:194-205`). Ending the terminal
  of a dormant panel leaves it in `dormant`; the terminal made next waits for Reload. FR-047.

### Seen while modelling

Places where the code, read for a model, does less than one might expect. Those with a definition
in parentheses are violated by the module as it stands when checked, but have no run.

Terminals:

- `killed` (`hub.rs:95-97`) holds one mark per panel, "so that an exit arriving afterwards ends
  nothing": with two terminals of a panel ended and both ends in flight, the first end takes the
  mark (`hub.rs:299`) and the second is taken for the third terminal's own. The test at
  `hub.rs:467` has one end in flight. `mixed` marks such panels.
- An exit that is not `user_killed` is not matched against `killed`, and a restart while an Attach is in
  flight takes its stale answer for its own: `mixed` again.
- A view has one `pending` (`hub.rs:342`): two resyncs send two Attaches, the answer to the first
  clears it, and what changes the view before the second is answered is not waited for.

Documents and recovery:

- When a document takes the key of another, deleted one (Save As, a rename), what was last sent of
  that key stays in `written` (`rekey`, `editor.rs:490`; `recovery.rs` tick): if the two versions
  happen to be equal, the document is never due and its recovery file keeps the other's text.
  `RecoveryExact` leaves such keys out (`mistaken`).
- A stamp is taken after the read it is for (`editor.rs` read, save_to, moved_to; also in a scan):
  a write by another program in between is never noticed.
- Renaming or saving-as a dirty document deletes its old recovery file at once and writes the new
  one 400 ms later; a crash in between loses the text.
- Saving, and auto-save, overwrite an outside change not yet delivered.
- `ensure_file` removes a recovered record before it opens the file; if that fails, Retry opens it
  clean. A recovered record of a file not yet opened does not follow a rename, and closing
  a background tab that holds one asks nothing.
- `rekey` onto the key of another, deleted document discards that one silently.
- Turning histories off forgets which documents have a recovery file (`drop_histories`).

Editor:

- Lines skipped at the highlighter's deadline do not advance the state, yet a checkpoint is pushed
  (`highlight.rs` spans; `Highlight!CheckpointsExact`).
- Within the 120 ms after a query is edited, Replace acts on the matches of the old one.
- `code.rs` follow clamps each edit of a frame to the text's final length.
- `paste_column` at the end of a document puts rows in the wrong order.
- The language mappings of the user are asked first, but `editor.rs:211` passes none.

Files, tree and searches:

- Quick Open finds its rows before the input takes what was typed (`quick_open.rs:146`, `148-152`), and
  Enter picks from those rows (`222-229`): a character and Enter in one frame open a row of the query
  before, whether or not it matches what was typed. `PicksWhatMatches` is therefore about the query the
  row was drawn of.
- `rename_no_clobber` checks and then renames; `file_history` checks only that paths exist.
- A folder that was collapsed, or whose project was in the background, is shown from its old
  listing when it returns, until Refresh (`switch_project`); so is one moved away and back by an
  undo, and one expanded from a stale row when it was gone, once it is made again in the background.
  A folder deleted and made anew between two frames keeps a watch on the old one.
- The clipboard and the expanded folders are paths: what is cut and then trashed gives its place to an
  item made under its name, and does not get it back when it is restored (`explorer.rs:155`).
- `ConfirmReplace` keeps indices into the results: if a settling query is searched for while the
  question is up, another commit is carried out than the one confirmed (`app.rs:2282`, `3059`;
  `Searches!WritesConfirmed`).

Layouts:

- Workspaces are saved one by one (`app.rs:1630-1656`): a crash between the saves of a move to a
  sub-workspace, or an unreadable list of them, leaves a panel away that nothing shows, and loading
  does not repair it.
- A file whose editor is away in a sub-workspace cannot be shown by opening it
  (`app.rs:2577-2580`); closing one of two mirrors brings the panel home though the other shows it.

Previews:

- A preview not drawn while its document is closed and opened again takes the new version number
  for the one it has shown.
- A mirror's own state is kept under the mirror's id, but Back, Forward and links act on the
  source panel's (`app.rs:1159-1173`, `2130`, `2178`).
- Going back to a file whose editor is shown with scroll sync moves the preview to the editor's
  place and not to where the reader was (`app.rs:2196`).

Settings:

- "the file is left byte-for-byte alone" (`settings.rs:8-10`) holds of a malformed file until
  something is changed in the window, which writes over it (`app.rs:1613`, `prefs.rs:142`;
  `Preferences!MalformedIsLeft`); a hand edit not yet taken in is overwritten as well.
- `Keymap::reset` (`keymap.rs:445`) restores a chord that another command was given meanwhile: both
  hold it, and the order of `COMMANDS` decides.
- A theme's draft is not written when the program ends within its 400 ms.

Updates and the client:

- If putting the old app back fails, dropping the staging folder deletes it, though the error says
  where it is (`Updates!AppKept`).
- Quitting while the daemon is stuck in a `Write` lets both Lists time out: nothing is asked, and
  neither "close idle" nor "terminate all" ends anything (`app.rs:2973-3020`).
- A link blocked by another version never retries by itself; the handshake has no timeout
  (`client.rs:110`); a frame that cannot be written ends the writer thread while `is_connected`
  stays true (`client.rs:132-135`).

## Proofs

Eight modules hold the proofs; each theorem is of the specification the runs check, for every value of
the constants that meets the assumptions above. Every argument is an inductive invariant, checked by
TLC before it was proved, with one lemma per action or group of actions, and lemmas about sequences,
maps and documents where the prover needs them. Where one invariant rests on another they are proved
in layers, each inductive given those before it.

**`PtySizeProofs`** (sizes are positive numbers): `TypeCorrect`, `SmallestSize`, `RestoredRows`
and, with `CalmConnect`, `SizesReported`. The first three rest on `IInv`: the types,
`Smallest(views, size)` while the session lives, and that without a shrunken nudge the PTY has the
session's rows. The types are needed for the arithmetic of sizes; `RowsRestored` needs nothing of the
nudges that have only read, as a restore reads the rows afresh, which is why it survives any
interleaving. `ApplySizeKeeps` states what `apply_size` leaves behind for any views and is cited by
every caller. `SizesReported` needs `LinkInv`, of the connection in use (`Good`):
what is pending is asked or its answer is coming, a refusal or a Spawn is alone on its way, and the
size last sent, or the one to attach with once all is served, is the size drawn.

**`TermStreamProofs`**: `NoBytePaintedTwice` rests on `PipeInv`, which looks at everything on its way
to the view as one pipe, the socket and then the queue: the messages in it are in the order written,
all past what the view has seen, and nothing of them is painted yet. With `LossSparesExited` the
next layers are `OrderInv` (a snapshot comes before the output behind it, what tells of the exit
comes last, a view that runs is attached or about to hear of an exit) and `Unbroken`: while no rebuild
is due, the pipe continues the view without a gap to the session's end, and to its exit. Together with `NoSilentLoss` they are `StreamInv`, and give `NoHoleUnowed`,
`QuietViewsAreWhole`, `ExitToldLast` and the refinement: `StreamShowsOutput` shows of every step of
`TermStream` that `OutputView` allows it, as a paint, a rebuild, a debt or a stutter.
`LimitsAreKept` rests on `Counted`: the counter is the sum of what is queued and of the one message the
writer has written and not yet counted off. What it needs of sums (`QueuedSize`, `TakenSize`) is
induction over the length of a queue, which the library states only for an operator; `UpTo` has it in
the first order, for a set of numbers, from a pigeonhole argument on the predecessor (`Least`).

**`DaemonLifeProofs`** is three layers, with no assumption on who calls or when. `LifeInv`: what the map
and the threads name was started, under the id it goes by, and a session that has exited has no views;
it gives `EndsForgetOnlyKilled`. `MapInv`: a Spawn past its check finds no live session under its id but a
raced one (`Room`), two that start one terminal have raced (`Rivals`), an attaching thread's session is in
the map or the pair has crossed (`Kept`), and what has crossed is being hung up (`Dying`); with the two properties
themselves it is inductive, and gives `NoLiveSessionLost` and `NoViewOrphaned`. `Listed`: once the main
thread has listed what to end, whatever lives and is neither late nor raced is among what it waits
for; it gives `NoSessionOutlives`.

**`TerminalHubProofs`** builds on `Base`: the types, that a broken connection carries nothing (`Cut`),
and what a panel without a terminal cannot have. `Closing` gives `QuitTerminalsStayClosed`: before
the quit nothing is closed; after it Close is the last word the queue has for a panel closed, and
its session is not live. `Numbered` adds that no two requests or answers on their way have one id, and
that one with the id of a request waited for is about that request's panel. On it `Ending` gives
`EndedTerminalsAreEnded`: a Kill stands behind every Spawn and session of a terminal the panel no
longer has, unless one was lost; of a panel that is not mixed at most one Kill or end is on its way, a
clean exit has nothing behind it, and a missing terminal is missing. When a mixed panel's terminal is
ended with no news on its way the invariant starts again from nothing assumed of it (`KillEndOf`, `KillOld`), which is
why the exemption may end. `Awaited`, which takes `LossSparesLists`, says that whatever is asked or answered about a
panel is waited for, and on it `Showing` gives `RunningViewsAreAttached`: a Kill or Forget is followed by
an Attach or Spawn, a session told to live is attached unless more is told, and who runs is attached
or has news on its way. `NewTerminalsOutliveOld`, an action property, rests on `Succession`: a session or
Spawn of an older terminal has a Kill (or, once ended, a Forget) behind it before any Attach could find
it ended, and what an old terminal's end is told by is that Kill, expected in `killed`.

**`DocumentPartsProofs`**: `DiskStatesAreTrue` and `RecoveryIsExact`, from `DocInv`. Of each document
it says what is true of its file (`TrueOfDisk`: in sync, it was stamped with what it loaded or saved,
or the user kept it) and of what was sent (`TrueOfSent`: the number sent is not ahead of the version
but by the one for a deleted file, and where it is the document's, what will be left in the recovery
file is the document's text). Of the keys no document has it says that, between the logic of a frame
and its end, nothing is remembered as sent (`SentAreOpen`), and that nothing will be left of those
neither sent nor adopted (`OthersGone`). `QuitKept` is what that gives at a quit. The lemmas about
`Left` are what makes the writing thread invisible: doing one file of a job changes nothing of what
is left in the end (`LeftWritten`), a batch sent has the last word of its keys (`LeftAppended`), and
doing everything leaves what is left (`AllDoneIs`). The library's induction is out of reach, so that
the last job naming a key exists is shown by pigeonhole (`Greatest`).

**`WorkbenchPartsProofs`**: `UpdateLeavesApp` from `UpdateInv`: only an app that was checked is moved
in, nothing but the swap in progress, or a put-back that failed (`stuck`), leaves the place empty, and no second install runs.
`ClientFailsAtOnce` from `ClientInv`: the request waited for and its entry among the waiters
(`CallInv`), what is on its way and where to (`AskInv`), and what the link believes, or the news of a
loss among what has arrived for it (`LinkInv`).

`FilesStayInForce` from `PrefsInv`, a part for each kind of file. For the key
bindings (`KeysTrue`) it says that every list in force is one that parsing leaves as it is (`Clean`:
no chord twice, none refused; `ReadSame`), so that what is written, only the lists that are not the
default, reads back as what is in force (`WrittenIs`), an empty list included; and that a chord bound
last is its command's and no other's that shares a scope (`Lone`), which is why the order of the
commands does not matter when it is looked up. `RankIs` and `PlacesAre` make picking chords out of a
list a bijection between the places kept and the new list's. For the settings it says that what is
on disk is in force and needs no correction (`SettingsTrue`); for the themes, that one in force is the
draft's or its file's (`InForce`).

`IndexIsHonest` from `WalkInv` and `QuickInv`, for any files of two levels in any order and any
limit (`OrderSound`: a walk lists each file once). `WalkInv` says that while a list is being built there is
one walk or its list, of the newest generation, never both, and that what the walk has found
is each file once, of those there at some time in it (`Listed`), with whatever was there all along
found or left to read unless the limit is reached (`Complete`). It is inductive because nothing found is
in a folder left to read (`Walking`), so a folder read adds no file twice (`FolderRead`,
`FolderAdded`), and because a file that goes only takes from what must be complete and one that comes
only adds to what may be listed (`ListedMore`). `QuickInv` says that the hits kept between frames are those
of the list, query and check box they are kept for (`CacheTrue`), which is why a list that comes in under
the arrow keys cannot make Enter open another file than the row's. `InOrderIs`, from `PlacesAre`, says
what the places of a list in order are; the model takes its sorted selections from this operator
and not from folds, as those cannot be reasoned about here.

**`FileTreeProofs`**: `TreeStaysTrue` from `TreeInv`. For the listings it says that a folder listed
since its watch was set is listed as it is, or an event that has it read again is on its way
(`Listed`); this is inductive because whatever is watched the root is too, so that a folder that goes,
comes or changes its number is told of by the root, and what is in it by its own watch (`ToldAt`, and
for each kind of change `MadeTold`, `GoneTold`, `MovedTold`, `RestoredTold`). TLC checked the
invariant with up to seven items and five acts. A first form of both properties, which held within
the bounds of the run, failed beyond them: `old` had missed a folder listed while it was gone, and items trashed had been taken to be followed.
For the moves it says that items are numbered apart, on disk and in the trash (`Numbered`); the lemmas
about paths (`Kin`, `Rebase`) make a move a bijection between the old paths and the new (`MovedIs`).

**`PreviewsProofs`**: `PreviewsFollow` (stated in `WorkbenchPartsProofs`, where the whole
specification is) from `PreviewInv`, for any files and views, with `PreviewsSound`: a text has a block at
least, the delays are numbers, and the history may hold one place at least. Its parts:
`FilesTrue`, that no two files have a stamp in common, nor two documents a number, and none is of the
future, without which what a view has shown of one file could be taken for another's after a rename;
`ConfigTrue`, that the history is a run of the trail around the place shown (`RunOf`), but for how the
place shown was left, as that is kept only on leaving it, and fits one of the sizes allowed;
`ViewsTrue`, that a stamp or version a view has shown comes with the text of it (`ShownIn`: this is
where stamping before reading matters, as the text read may then be newer than the stamp but not older),
and that a view is behind no longer than its first unshown change has waited (`InTime`); and `Own`,
that once the other side has been moved (`answers = 1`) the preview is settling, redrawn, or
where both sides agree (`Landed`), so that the next sync asks nothing. The sync is taken apart once
(`Synced`), and each action is one of three kinds of change, to the files, to the views or to the
place shown (`FilesMoveKeep`, `ViewsMoveKeep`, and the lemmas on another place shown and on a file renamed), of which
the lemmas say what they must keep. Trying to prove it corrected the model in four places: the line map above, the
sync of a place it does not know, the time a view is behind once it has caught up, and the mirror's frames.

What stays with TLC:

- Liveness (`GhostsLeave`, `RowsArrive`, `CatchesUp`, `KilledDies`, `IdleExits`, `SocketGoneEnds`,
  `Settles`) is out of the prover's reach.
- Properties that say what a fold computes, which takes induction over data: `HistoryReplays`, `ViewsFit`, `InvalidationSuffices`,
  `ReplacesMatches` and `ReplacesFound` (transactions, matches, highlighter states), `LayoutWhole` and
  `OperationsReverse` (trees and histories of lists).

## Not modelled

- External: the terminal emulator, the parsers and grammars, SQLite, and the operating system's
  PTYs, processes, pipes, trash and watchers, of which the models keep what the code relies on.
- The PTY host (`pty_host.rs`), a Windows-only second process per session: to the session it is a
  PTY, and its own requests are served one at a time.
- Text codec, paths and links: pure functions of strings; what could go wrong in them is in
  characters, below what these models keep.
- Processes, shells, folders: calls to the operating system.
- Drawing, fonts, icons and Markdown; wording of notices and dialogs; working directories, command
  memory, titles; framing and serialisation; the no-shell case of `spawn`.
- Within modelled components: caret movements and column selections, the choice of a language,
  ranking of searches and globs, axes, shares and titles of a layout, the migrations of the
  database, the handshake's frames, the clipboard of other programs.

## Plan

1. Done: `PtySize` (with proofs), `TermStream` with `OutputView`, `DaemonLife`, `TerminalHub`.
2. Done: the editor's parts (`Editing`, `Highlight`, `FindBar`, `Documents`, `FileOps`) and the
   workbench's (`Updates`, `Searches`, `ProjectFiles`, `Workspaces`, `Previews`, `FileTree`,
   `ClientConn`, `Preferences`).
3. Done: proofs of `TermStream` and that it implements `OutputView`, of `DaemonLife`, `TerminalHub`,
   `Documents`, `Updates`, `ClientConn`, `FileTree`, `Preferences`, `Previews` and `ProjectFiles`, and the rest of
   `PtySize`'s invariants.
4. Next proofs: `OperationsReverse` and `InvalidationSuffices`, by first-order induction, as `UpTo` does it for `LimitsKept`.
5. Where two components of the workbench meet more closely than a module keeps of its neighbour
   (a rename in the tree of a document with a preview, a search's replacement in a document with a
   recovery file), a composition of the two.
