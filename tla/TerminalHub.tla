----------------------------- MODULE TerminalHub -----------------------------
(***************************************************************************)
(* The UI's terminal panels against the daemon's terminals.                *)
(*                                                                         *)
(* The hub of the UI thread gives each terminal panel a view, attaches it, *)
(* starts what is not there, ends what the user ends, and follows what the *)
(* daemon tells it.  Everything between the two travels in two queues of   *)
(* one connection: the user acts on a panel whose news is still on its     *)
(* way, and the connection may be lost with either queue full.             *)
(***************************************************************************)
EXTENDS Naturals, Sequences, FiniteSets, SequencesExt

CONSTANTS
    Panels,
    MaxMade,         \* bound: terminals ever made in a panel
    MaxIds,          \* bound: the user and the daemon ask for nothing more
                     \* on a connection that has used this many request ids
    MaxLosses,       \* bound: connections lost
    LossSparesLists  \* no connection is lost with a List in flight

ASSUME HubAssumption ==
    /\ IsFiniteSet(Panels) /\ MaxMade \in Nat /\ MaxIds \in Nat /\ MaxLosses \in Nat
    /\ LossSparesLists \in BOOLEAN

NoId == 0   \* ids count from 1 on each connection; 0 asks for no reply

VARIABLES
    \* The app and its hub.
    typed,    \* typed[p]: the layout has a terminal in panel p
    made,     \* made[p]: terminals made in panel p so far (not in the program)
    status,   \* status[p]: "none" without a view, else the view's
    pend,     \* pend[p]: the request the view waits for, or NoId
    waiting,  \* pending: <<id, panel, kind>> of requests not answered
    dormant,  \* panels whose terminal starts only when reloaded
    killed,   \* panels the UI killed, until the daemon reports that end
    listing,  \* the List in flight, or NoId
    quit,     \* "no", "asking" (the UI thread waits for the daemon) or "done"
    \* The link.
    up, nextId, losses,
    out,      \* requests on their way to the daemon
    inb,      \* events on their way to the hub
    \* The daemon.
    sess,     \* sess[p]: its session with p's id
    closed,   \* panels whose terminal quitting closed
    \* What has happened, for the properties (not in the program).
    lost,     \* <<what, p>>: a Kill of p found no connection, or a Kill or
              \* Forget of it was lost with one, and p was not ended since
    mixed     \* panels in which the ends of two terminals, or an exit and what
              \* ends or starts a terminal, crossed, and that were not since
              \* ended with neither on its way

hubVars == <<typed, made, status, pend, waiting, dormant, killed, listing, quit>>
linkVars == <<up, nextId, losses, out, inb>>
past == <<lost, mixed>>
vars == <<hubVars, linkVars, sess, closed, past>>

NoSession == [st |-> "none", how |-> "none", att |-> FALSE, made |-> 0]
Exits == {"clean", "failed", "user"}   \* ExitStatus, as should_surface_exit tells them apart

About(what, p) == [what |-> what, id |-> NoId, panel |-> p, made |-> made[p]]
Asked(what, p) == [About(what, p) EXCEPT !.id = nextId]
Told(what, p, how) == [what |-> what, id |-> NoId, panel |-> p, how |-> how, made |-> sess[p].made]

OnItsWay(what, p) == \E r \in Range(out) : r.what = what /\ r.panel = p
(* No end of p's terminal is asked for or told of. *)
NoEndNews(p) == ~OnItsWay("Kill", p) /\ \A e \in Range(inb) : e.panel = p => e.how # "user"
(* No news of an exit of p's terminal is on its way, nor about to be. *)
NoExitNews(p) ==
    /\ \A e \in Range(inb) : e.panel = p => e.how \notin {"clean", "failed"}
    /\ sess[p].st = "exited" => /\ ~OnItsWay("Attach", p)
                                /\ \A e \in Range(inb) : e.panel = p => e.how # "nosuch"
(* What is done about p crosses with nothing, or is remembered. *)
Mixing(p, apart) == /\ mixed' = (IF apart THEN mixed ELSE mixed \cup {p}) /\ UNCHANGED lost

Post(requests) == out' = IF up THEN out \o requests ELSE out

(* The panels a saved layout holds, with manual reload or without; the daemon
   may still hold their terminals. *)
Init ==
    /\ typed \in [Panels -> BOOLEAN] /\ made = [p \in Panels |-> IF typed[p] THEN 1 ELSE 0]
    /\ status = [p \in Panels |-> "none"] /\ pend = [p \in Panels |-> NoId] /\ waiting = {}
    /\ dormant \in {{}, {p \in Panels : typed[p]}} /\ killed = {} /\ listing = NoId /\ quit = "no"
    /\ up = FALSE /\ nextId = 1 /\ losses = 0 /\ out = <<>> /\ inb = <<>>
    /\ sess \in [Panels -> {NoSession} \cup
                           [st : {"live"}, how : {"none"}, att : {FALSE}, made : {1}]
                    \cup [st : {"exited"}, how : {"clean", "failed"}, att : {FALSE}, made : {1}]]
    /\ \A p \in Panels : ~typed[p] => sess[p] = NoSession
    /\ closed = {} /\ lost = {} /\ mixed = {}

-----------------------------------------------------------------------------
(* The hub. *)

(* A request about p is sent: the view waits for it. *)
Ask(p, kind, old) ==
    /\ pend' = [pend EXCEPT ![p] = nextId] /\ waiting' = old \cup {<<nextId, p, kind>>}
    /\ nextId' = nextId + 1

(* The view waits for nothing. *)
Answered(p, old) ==
    /\ pend' = [pend EXCEPT ![p] = NoId] /\ waiting' = old /\ UNCHANGED nextId

(* A frame draws a terminal panel: prepare gives it a view, and once it is laid
   out connect attaches it. *)
Frame(p) ==
    /\ typed[p] /\ quit # "asking" /\ status[p] \in {"none", "Connecting"}
    /\ status' = [status EXCEPT ![p] = "Connecting"]
    /\ IF quit = "no" /\ pend[p] = NoId /\ up
       THEN Ask(p, "Attach", waiting) /\ Post(<<Asked("Attach", p)>>)
       ELSE UNCHANGED <<pend, waiting, nextId, out>>
    /\ UNCHANGED <<typed, made, dormant, killed, listing, quit, up, losses, inb, sess, closed, past>>

(* Mutant: the reply to a Spawn is not waited for. *)
SpawnShellUnregistered(p, before, old) ==
    /\ pend' = [pend EXCEPT ![p] = nextId] /\ waiting' = old /\ nextId' = nextId + 1
    /\ Post(before \o <<Asked("Spawn", p)>>)
    /\ status' = [status EXCEPT ![p] = "Connecting"]

(* spawn: a cold start, after what is posted before it (the system has a shell). *)
SpawnShell(p, before, old) ==
    /\ Ask(p, "Spawn", old) /\ Post(before \o <<Asked("Spawn", p)>>)
    /\ status' = [status EXCEPT ![p] = "Connecting"]

(* Mutant: quitting does not keep it from starting. *)
StartMissingAlways(p, old) == SpawnShell(p, <<>>, old)

(* A terminal the daemon does not have is started, unless the app is quitting. *)
StartMissing(p, old) ==
    IF quit = "no" THEN SpawnShell(p, <<>>, old)
    ELSE Answered(p, old) /\ UNCHANGED <<status, out>>

(* The user picks a terminal for an empty panel. *)
MakeTerminal(p) ==
    /\ quit = "no" /\ ~typed[p] /\ made[p] < MaxMade /\ nextId <= MaxIds
    /\ Mixing(p, NoExitNews(p))
    /\ typed' = [typed EXCEPT ![p] = TRUE] /\ made' = [made EXCEPT ![p] = @ + 1]
    /\ UNCHANGED <<status, pend, waiting, dormant, killed, listing, quit, linkVars, sess, closed>>

(* The end of p's terminal is asked for, or finds no connection. *)
EndAsked(p) ==
    /\ lost' = IF up THEN {l \in lost : l[2] # p} ELSE lost \cup {<<"Kill", p>>}
    /\ mixed' = IF NoEndNews(p) /\ NoExitNews(p) THEN mixed \ {p} ELSE mixed \cup {p}

(* Mutants: a terminal not shown yet is not killed; an end is not expected. *)
KillShown(p) ==
    /\ quit = "no" /\ typed[p]
    /\ EndAsked(p)
    /\ IF status[p] = "Connecting" THEN UNCHANGED out ELSE Post(<<About("Kill", p)>>)
    /\ killed' = killed \cup {p} /\ typed' = [typed EXCEPT ![p] = FALSE]
    /\ status' = [status EXCEPT ![p] = "none"] /\ pend' = [pend EXCEPT ![p] = NoId]
    /\ UNCHANGED <<made, waiting, dormant, listing, quit, up, nextId, losses, inb, sess, closed>>

KillUnexpected(p) ==
    /\ quit = "no" /\ typed[p]
    /\ EndAsked(p)
    /\ Post(<<About("Kill", p)>>) /\ UNCHANGED killed
    /\ typed' = [typed EXCEPT ![p] = FALSE]
    /\ status' = [status EXCEPT ![p] = "none"] /\ pend' = [pend EXCEPT ![p] = NoId]
    /\ UNCHANGED <<made, waiting, dormant, listing, quit, up, nextId, losses, inb, sess, closed>>

(* The user ends a panel's terminal; the panel is left empty. *)
Kill(p) ==
    /\ quit = "no" /\ typed[p]
    /\ EndAsked(p)
    /\ Post(<<About("Kill", p)>>)
    /\ killed' = killed \cup {p} /\ typed' = [typed EXCEPT ![p] = FALSE]
    /\ status' = [status EXCEPT ![p] = "none"] /\ pend' = [pend EXCEPT ![p] = NoId]
    /\ UNCHANGED <<made, waiting, dormant, listing, quit, up, nextId, losses, inb, sess, closed>>

(* Restart, Retry or Reload. *)
Restart(p) ==
    /\ quit = "no" /\ typed[p] /\ status[p] # "none" /\ nextId <= MaxIds
    /\ Mixing(p, NoExitNews(p))
    /\ dormant' = dormant \ {p}
    /\ IF up THEN SpawnShell(p, <<About("Forget", p)>>, waiting)
       ELSE /\ Answered(p, waiting) /\ status' = [status EXCEPT ![p] = "Connecting"]
            /\ UNCHANGED out
    /\ UNCHANGED <<typed, made, killed, listing, quit, up, losses, inb, sess, closed>>

(* Now and then the working directories are read, one List at a time. *)
PollDirectories ==
    /\ quit = "no" /\ up /\ listing = NoId /\ \E p \in Panels : status[p] = "Running"
    /\ nextId <= MaxIds
    /\ listing' = nextId /\ nextId' = nextId + 1
    /\ out' = Append(out, [what |-> "List", id |-> nextId, panel |-> "none", made |-> 0])
    /\ UNCHANGED <<typed, made, status, pend, waiting, dormant, killed, quit, up, losses, inb,
                   sess, closed, past>>

(* exited: a failure is shown; any other end gives the panel back, except that
   an app that has quit keeps it for the next start. *)
Ends(p, how) ==
    IF status[p] = "none" THEN UNCHANGED <<typed, status, out>>
    ELSE IF how = "failed"
    THEN status' = [status EXCEPT ![p] = "Exited"] /\ UNCHANGED <<typed, out>>
    ELSE /\ status' = [status EXCEPT ![p] = "none"]
         /\ typed' = IF quit = "done" THEN typed ELSE [typed EXCEPT ![p] = FALSE]
         /\ Post(<<About("Forget", p)>>)

ReceiveExited(e) ==
    /\ e.what = "exited"
    /\ IF e.how = "user" /\ e.panel \in killed
       THEN killed' = killed \ {e.panel} /\ UNCHANGED <<typed, status, pend, out>>
       ELSE /\ Ends(e.panel, e.how) /\ UNCHANGED killed
            /\ pend' = [pend EXCEPT ![e.panel] = IF status'[e.panel] = "none" THEN NoId ELSE @]
    /\ UNCHANGED <<made, waiting, dormant, listing, quit, nextId>>

ReceiveResync(e) ==
    /\ e.what = "resync"
    /\ IF status[e.panel] = "none" THEN UNCHANGED <<pend, waiting, nextId, out>>
       ELSE Ask(e.panel, "Attach", waiting) /\ Post(<<Asked("Attach", e.panel)>>)
    /\ UNCHANGED <<typed, made, status, dormant, killed, listing, quit>>

ReceiveList(e) ==
    /\ e.what = "reply" /\ e.id = listing /\ listing' = NoId
    /\ UNCHANGED <<typed, made, status, pend, waiting, dormant, killed, quit, nextId, out>>

(* A reply to a request still waited for, about a panel that has a view: a
   snapshot shows the terminal, running or ended; a terminal that is not there
   is started, unless it waits to be reloaded; anything else failed. *)
ReceiveReply(e) ==
    /\ e.what = "reply" /\ e.id # listing
    /\ LET asked == {w \in waiting : w[1] = e.id}
           rest == waiting \ asked
       IN  IF asked = {} \/ \A w \in asked : status[w[2]] = "none"
           THEN waiting' = rest /\ UNCHANGED <<typed, status, pend, nextId, out>>
           ELSE \E w \in asked : LET p == w[2] IN
             \/ /\ e.how = "live" /\ status' = [status EXCEPT ![p] = "Running"]
                /\ Answered(p, rest) /\ UNCHANGED <<typed, out>>
             \/ /\ e.how \in Exits /\ Ends(p, e.how)
                /\ Answered(p, rest)
             \/ /\ e.how = "nosuch" /\ w[3] = "Attach" /\ UNCHANGED typed
                /\ IF p \in dormant
                   THEN /\ status' = [status EXCEPT ![p] = "Dormant"]
                        /\ Answered(p, rest) /\ UNCHANGED out
                   ELSE StartMissing(p, rest)
             \/ /\ e.how = "error" /\ status' = [status EXCEPT ![p] = "Failed"]
                /\ Answered(p, rest) /\ UNCHANGED <<typed, out>>
    /\ UNCHANGED <<made, dormant, killed, listing, quit>>

(* The hub applies the next event. *)
Receive ==
    /\ inb # <<>> /\ quit # "asking" /\ inb' = Tail(inb)
    /\ LET e == Head(inb) IN
       ReceiveExited(e) \/ ReceiveResync(e) \/ ReceiveList(e) \/ ReceiveReply(e)
    /\ UNCHANGED <<up, losses, sess, closed, past>>

-----------------------------------------------------------------------------
(* The link. *)

(* Both queues go with the connection; what the daemon still reads of it is
   taken as handled before.  The daemon drops the views, or has died with every
   session.  The hub waits for nothing any more. *)
Lose ==
    /\ up /\ losses < MaxLosses /\ losses' = losses + 1 /\ quit # "asking"
    /\ LossSparesLists => listing = NoId
    /\ up' = FALSE /\ out' = <<>> /\ inb' = <<>>
    /\ \/ /\ sess' = [p \in Panels |-> [sess[p] EXCEPT !.att = FALSE]] /\ UNCHANGED mixed
          /\ lost' = lost \cup {l \in {"Kill", "Forget"} \X Panels : OnItsWay(l[1], l[2])}
       \/ sess' = [p \in Panels |-> NoSession] /\ lost' = {} /\ mixed' = {}
    /\ pend' = [p \in Panels |-> NoId] /\ waiting' = {}
    /\ UNCHANGED <<typed, made, status, dormant, killed, listing, quit, nextId, closed>>

(* Mutant: views that were running are not attached anew. *)
ReconnectConnecting ==
    /\ ~up /\ quit = "no" /\ up' = TRUE /\ nextId' = 1
    /\ pend' = [p \in Panels |-> NoId] /\ waiting' = {}
    /\ status' = [p \in Panels |-> IF status[p] = "Failed" THEN "Connecting" ELSE status[p]]
    /\ UNCHANGED <<typed, made, dormant, killed, listing, quit, losses, out, inb, sess, closed, past>>

(* A new connection, whose ids start again; its views attach anew. *)
Reconnect ==
    /\ ~up /\ quit = "no" /\ up' = TRUE /\ nextId' = 1
    /\ pend' = [p \in Panels |-> NoId] /\ waiting' = {}
    /\ status' = [p \in Panels |->
                    IF status[p] \in {"Running", "Failed"} THEN "Connecting" ELSE status[p]]
    /\ UNCHANGED <<typed, made, dormant, killed, listing, quit, losses, out, inb, sess, closed, past>>

-----------------------------------------------------------------------------
(* The daemon. *)

Tells(told) == inb' = inb \o told

Answer(r, how) == <<[Told("reply", r.panel, how) EXCEPT !.id = r.id]>>

ExitTold(p, how) == IF sess[p].att THEN <<Told("exited", p, how)>> ELSE <<>>

(* A new session starts unless a live one has the id; it may fail to. *)
ServeSpawn(r) ==
    /\ r.what = "Spawn"
    /\ \/ /\ sess[r.panel].st # "live" /\ Tells(Answer(r, "live"))
          /\ sess' = [sess EXCEPT ![r.panel] =
                        [st |-> "live", how |-> "none", att |-> TRUE, made |-> r.made]]
       \/ Tells(Answer(r, "error")) /\ UNCHANGED sess

(* What an Attach finds: a snapshot, of a session that lives or has ended, or nothing. *)
Found(s) ==
    CASE s.st = "live" -> "live"
      [] s.st = "exited" -> s.how
      [] OTHER -> "nosuch"

ServeAttach(r) ==
    /\ r.what = "Attach"
    /\ LET s == sess[r.panel] IN
       /\ Tells(Answer(r, Found(s)))
       /\ sess' = [sess EXCEPT ![r.panel].att = s.st = "live"]

(* The id is free at once; a view is told. *)
ServeKill(r) ==
    /\ r.what = "Kill" /\ Tells(ExitTold(r.panel, "user"))
    /\ sess' = [sess EXCEPT ![r.panel] = NoSession]

ServeForget(r) ==
    /\ r.what = "Forget" /\ UNCHANGED inb
    /\ sess' = IF sess[r.panel].st = "exited" THEN [sess EXCEPT ![r.panel] = NoSession] ELSE sess

ServeList(r) == r.what = "List" /\ Tells(<<[what |-> "reply", id |-> r.id, panel |-> "none",
                                             how |-> "list", made |-> 0]>>) /\ UNCHANGED sess

(* Those quitting ends: any of the live ones, the idle ones or all. *)
ServeClose(r) ==
    /\ r.what = "Close" /\ quit' = "done"
    /\ \E ends \in SUBSET {p \in Panels : sess[p].st = "live"} :
          /\ closed' = ends
          /\ Tells(SetToSeq({Told("exited", p, "user") : p \in {q \in ends : sess[q].att}}))
          /\ sess' = [p \in Panels |-> IF p \in ends THEN NoSession ELSE sess[p]]

Serve ==
    /\ up /\ out # <<>> /\ out' = Tail(out)
    /\ LET r == Head(out) IN
       \/ /\ ServeSpawn(r) \/ ServeAttach(r) \/ ServeKill(r) \/ ServeForget(r) \/ ServeList(r)
          /\ UNCHANGED <<quit, closed>>
       \/ ServeClose(r)
    /\ UNCHANGED <<typed, made, status, pend, waiting, dormant, killed, listing, up, nextId,
                   losses, past>>

(* A shell exits by itself: its view is told, or the daemon keeps the exit. *)
ShellExits(p, how) ==
    /\ sess[p].st = "live" /\ how \in {"clean", "failed"}
    /\ Mixing(p, /\ ~OnItsWay("Kill", p) /\ ~OnItsWay("Spawn", p)
                 /\ \A e \in Range(inb) : e.panel = p => e.how # "nosuch")
    /\ Tells(ExitTold(p, how))
    /\ sess' = [sess EXCEPT ![p] = [@ EXCEPT !.st = "exited", !.how = how, !.att = FALSE]]
    /\ UNCHANGED <<hubVars, up, nextId, losses, out, closed>>

(* The view's output did not fit in its queue. *)
Overflows(p) ==
    /\ sess[p].att /\ nextId <= MaxIds /\ \A e \in Range(inb) : e.what # "resync"
    /\ sess' = [sess EXCEPT ![p].att = TRUE] /\ Tells(<<Told("resync", p, "none")>>)
    /\ UNCHANGED <<hubVars, up, nextId, losses, out, closed, past>>

-----------------------------------------------------------------------------
(* Quitting.  finish_close lists the terminals and has them all ended, or those
   that are idle; the UI thread waits for that, but not for ever. *)
Quit ==
    /\ quit = "no"
    /\ IF up THEN /\ quit' = "asking"
                  /\ out' = Append(out,
                        [what |-> "Close", id |-> NoId, panel |-> "none", made |-> 0])
             ELSE quit' = "done" /\ UNCHANGED out
    /\ UNCHANGED <<typed, made, status, pend, waiting, dormant, killed, listing, up, nextId, losses,
                   inb, sess, closed, past>>

GiveUp ==
    /\ quit = "asking" /\ quit' = "done"
    /\ UNCHANGED <<typed, made, status, pend, waiting, dormant, killed, listing, linkVars, sess,
                   closed, past>>

Next ==
    \/ \E p \in Panels :
          \/ Frame(p) \/ MakeTerminal(p) \/ Kill(p) \/ Restart(p) \/ Overflows(p)
          \/ \E how \in Exits : ShellExits(p, how)
    \/ PollDirectories \/ Receive \/ Quit \/ GiveUp
    \/ Lose \/ Reconnect \/ Serve

Spec == Init /\ [][Next]_vars

(* Panels are drawn, both queues move and a lost connection comes back; nobody
   must do anything and no shell must exit. *)
Fairness ==
    /\ \A p \in Panels : WF_vars(Frame(p))
    /\ WF_vars(Receive) /\ WF_vars(Serve) /\ WF_vars(Reconnect)

-----------------------------------------------------------------------------
Statuses == {"none", "Connecting", "Running", "Exited", "Failed", "Dormant"}

(* A view that says Running is attached to a live session, or news about it is
   on its way one way or the other: across kills, restarts, resyncs and lost
   connections no panel goes on showing a terminal that is not there. *)
RunningIsAttached ==
    \A p \in Panels :
        (quit = "no" /\ up /\ status[p] = "Running") =>
            \/ sess[p].att
            \/ \E m \in Range(out) \cup Range(inb) : m.panel = p

(* A panel without a terminal leaves none behind: the daemon has no live
   session for it nor a Spawn to come, or a Kill is on its way with no Spawn
   after it.  Nothing else would ever end that session, which nobody sees.
   A Kill that was lost is not sent again, and news that crossed may be taken
   for that of another terminal: until the panel's terminal is next ended,
   with a connection and with no such news on its way. *)
EndedTerminalsEnd ==
    \A p \in Panels \ mixed : ~typed[p] /\ <<"Kill", p>> \notin lost =>
        \/ sess[p].st # "live" /\ ~OnItsWay("Spawn", p)
        \/ \E i \in DOMAIN out :
              /\ out[i].what = "Kill" /\ out[i].panel = p
              /\ \A j \in DOMAIN out : i < j /\ out[j].panel = p => out[j].what # "Spawn"

(* What quitting closed stays closed, whatever replies, resyncs and frames
   follow: it neither runs again nor is about to. *)
NothingOutlivesQuit ==
    quit = "done" => \A p \in closed : sess[p].st # "live" /\ ~OnItsWay("Spawn", p)

(* The end of a terminal the user ended is never taken for that of the one made
   in its place, whichever of the two the hub learns of first: with the
   exceptions above, and that of a Forget that was lost. *)
NewOutlivesOld ==
    [][\A p \in Panels \ mixed :
        (/\ <<"Kill", p>> \notin lost /\ <<"Forget", p>> \notin lost
         /\ inb # <<>> /\ inb' = Tail(inb) /\ Head(inb).panel = p /\ Head(inb).how \in Exits
             /\ Head(inb).made # made[p]) => status'[p] = status[p] /\ typed'[p] = typed[p]]_vars

(* No panel waits for the daemon for ever: whatever request is lost or answered
   late, it comes to run, to have ended or failed, or to wait for the user. *)
Settles == \A p \in Panels : []<>(status[p] # "Connecting" \/ quit # "no")

(* FR-047: terminals made during the session start at once; only those a saved
   layout held wait to be reloaded. *)
StartsAtOnce == \A p \in Panels : status[p] = "Dormant" => made[p] <= 1

(* The working directories of running shells are read now and then, one List
   at a time: no List bars the next one for ever. *)
PollingGoesOn ==
    LET polled == \E p \in Panels : status[p] = "Running"
    IN  listing # NoId /\ polled ~> listing = NoId \/ ~polled \/ quit # "no"
=============================================================================
