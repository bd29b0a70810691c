----------------------------- MODULE ClientConn -----------------------------
(* The UI's connection to the daemon: the link that makes it and makes it    *)
(* anew (link.rs), the client with its two threads (client.rs), and requests *)
(* the UI thread waits for among those whose answers it takes as events.     *)
(* Kept from the requests is their number; a Write has none, and the daemon  *)
(* may be stuck in one while the program it is for reads nothing.            *)
EXTENDS Integers, Sequences, FiniteSets, SequencesExt

CONSTANTS
    MaxRequests,   \* bound: numbered requests on a connection
    MaxWrites,     \* bound: Writes
    MaxLosses,     \* bound: connections lost
    MaxAttempts    \* bound: attempts to connect

VARIABLES
    \* The UI thread and its link.
    link,      \* [state, attempt, due, held]: due, next_try has come; held, the client is the link's
    call,      \* the request waited for: [at, id, slot]
    asked,     \* ids whose answers the hub expects as events
    \* The client and its threads.
    connected, reader, writer, waiters,
    nextId,
    outgoing,  \* to the writer thread
    events,    \* from the reader thread; 0 is Disconnected
    \* The stream and the daemon.
    net, wire, answers,
    daemon,    \* what listens: "none", "ours", or a daemon of another version, "other"
    stuck, served,
    writes, losses, attempts

ui == <<link, call, asked>>
client == <<connected, reader, writer, waiters, nextId, outgoing, events>>
stream == <<net, wire, answers, daemon, stuck, served>>
bounds == <<writes, losses, attempts>>
vars == <<ui, client, stream, bounds>>

Disconnected == 0
Write == 0
Idle == [at |-> "idle", id |-> 0, slot |-> "empty"]
WaitingAt(step) == call.at = step

\* DaemonLink::client
Usable == link.held /\ connected

---------------------------------------------------------------------------
(* A request the UI thread waits for, one step of `request` at a time *)

Goes(to) == call' = [call EXCEPT !.at = to]
Returns == call' = Idle

Begin ==
    /\ WaitingAt("idle") /\ Usable /\ nextId <= MaxRequests
    /\ call' = [at |-> "register", id |-> nextId, slot |-> "empty"] /\ nextId' = nextId + 1
    /\ UNCHANGED <<link, asked, connected, reader, writer, waiters, outgoing, events, stream, bounds>>

Register ==
    /\ WaitingAt("register") /\ waiters' = waiters \cup {call.id} /\ Goes("send")
    /\ UNCHANGED <<link, asked, connected, reader, writer, nextId, outgoing, events, stream, bounds>>

\* What the writer thread no longer takes cannot be sent.
Sent(id) == outgoing' = IF writer = "writing" THEN Append(outgoing, id) ELSE outgoing

SendIt ==
    /\ WaitingAt("send") /\ Sent(call.id)
    /\ IF writer = "writing" THEN Goes("recheck") /\ waiters' = waiters
       ELSE Returns /\ waiters' = waiters \ {call.id}
    /\ UNCHANGED <<link, asked, connected, reader, writer, nextId, events, stream, bounds>>

\* Mutant: the reader is taken to have been there until now.
StillConnectedAssumed == TRUE

StillConnected == connected

Recheck ==
    /\ WaitingAt("recheck")
    /\ IF StillConnected THEN Goes("wait") /\ waiters' = waiters
       ELSE Returns /\ waiters' = waiters \ {call.id}
    /\ UNCHANGED <<link, asked, connected, reader, writer, nextId, outgoing, events, stream, bounds>>

Answered ==
    /\ WaitingAt("wait") /\ call.slot # "empty" /\ Returns
    /\ UNCHANGED <<link, asked, client, stream, bounds>>

\* Taken for lost when the connection is no longer there, else a timeout.
TimesOut ==
    /\ WaitingAt("wait") /\ call.slot = "empty" /\ Returns
    /\ waiters' = waiters \ {call.id}
    /\ UNCHANGED <<link, asked, connected, reader, writer, nextId, outgoing, events, stream, bounds>>

---------------------------------------------------------------------------
(* Requests answered by an event, and Writes, which are not answered *)

Send ==
    /\ WaitingAt("idle") /\ Usable /\ nextId <= MaxRequests
    /\ Sent(nextId) /\ nextId' = nextId + 1 /\ asked' = asked \cup {nextId}
    /\ UNCHANGED <<link, call, connected, reader, writer, waiters, events, stream, bounds>>

Post ==
    /\ WaitingAt("idle") /\ Usable /\ writes < MaxWrites
    /\ Sent(Write) /\ writes' = writes + 1
    /\ UNCHANGED <<ui, connected, reader, writer, waiters, nextId, events, stream, losses, attempts>>

---------------------------------------------------------------------------
(* The client's threads *)

WriterSends ==
    /\ writer = "writing" /\ outgoing # <<>>
    /\ IF net = "up" THEN /\ wire' = Append(wire, Head(outgoing))
                          /\ outgoing' = Tail(outgoing) /\ writer' = writer
       ELSE wire' = wire /\ outgoing' = <<>> /\ writer' = "gone"
    /\ UNCHANGED <<ui, connected, reader, waiters, nextId, events, net, answers, daemon, stuck, served, bounds>>

\* What a waiter gets: its sender is taken off the list and used under one lock.
Filled(ids, what) == IF call.id \in ids THEN [call EXCEPT !.slot = what] ELSE call

ReaderReads ==
    /\ reader = "reading" /\ answers # <<>> /\ answers' = Tail(answers)
    /\ LET id == Head(answers)
       IN /\ call' = Filled({id} \cap waiters, "answer")
          /\ waiters' = waiters \ {id}
          /\ events' = IF id \in waiters THEN events ELSE Append(events, id)
    /\ UNCHANGED <<link, asked, connected, reader, writer, nextId, outgoing, net, wire, daemon, stuck, served, bounds>>

ReaderEnds ==
    /\ reader = "reading" /\ net = "down" /\ answers = <<>>
    /\ connected' = FALSE /\ reader' = "draining"
    /\ UNCHANGED <<ui, writer, waiters, nextId, outgoing, events, stream, bounds>>

ReaderDrains ==
    /\ reader = "draining" /\ reader' = "telling"
    /\ call' = Filled(waiters, "disconnected") /\ waiters' = {}
    /\ UNCHANGED <<link, asked, connected, writer, nextId, outgoing, events, stream, bounds>>

ReaderTells ==
    /\ reader = "telling" /\ reader' = "gone"
    /\ events' = Append(events, Disconnected)
    /\ UNCHANGED <<ui, connected, writer, waiters, nextId, outgoing, stream, bounds>>

---------------------------------------------------------------------------
(* The link *)

\* Client::connect in the attempt's thread: the threads run before the link
\* knows of the client, and a client that is lost by then is still handed over.
Connects ==
    /\ link' = [link EXCEPT !.attempt = "ok"] /\ net' = "up" /\ connected' = TRUE
    /\ reader' = "reading" /\ writer' = "writing" /\ nextId' = 1
    /\ outgoing' = <<>> /\ events' = <<>> /\ wire' = <<>> /\ answers' = <<>>
    /\ waiters' = {} /\ served' = {} /\ stuck' = FALSE

\* connect_or_spawn: with nothing listening, a daemon is started.
Attempt ==
    /\ link.attempt = "running"
    /\ \/ daemon \in {"none", "ours"} /\ daemon' = "ours" /\ Connects
       \/ /\ link' = [link EXCEPT !.attempt = IF daemon = "other" THEN "mismatch" ELSE "failed"]
          /\ UNCHANGED <<client, stream>>
    /\ UNCHANGED <<call, asked, bounds>>

\* poll, between two frames: the attempt's result, the client's events, and
\* whether to try again.
Poll ==
    /\ WaitingAt("idle")
    /\ LET held == link.held \/ link.attempt = "ok"
           lost == held /\ Contains(events, Disconnected)
           found == CASE link.attempt = "ok" -> "connected"
                      [] link.attempt = "mismatch" -> "blocked"
                      [] link.attempt = "failed" -> "lost"
                      [] OTHER -> link.state
           state == IF lost THEN "lost" ELSE found
           due == link.due /\ link.attempt # "failed" /\ ~lost
           tries == state \in {"lost", "connecting"} /\ link.attempt # "running" /\ due
                        /\ attempts < MaxAttempts
       IN /\ link' = [state |-> state, held |-> held /\ ~lost, due |-> due,
                      attempt |-> IF tries \/ link.attempt = "running" THEN "running" ELSE "none"]
          /\ events' = IF held THEN <<>> ELSE events
          /\ asked' = IF lost THEN {} ELSE IF held THEN asked \ Range(events) ELSE asked
          /\ attempts' = IF tries THEN attempts + 1 ELSE attempts
    /\ UNCHANGED <<call, connected, reader, writer, waiters, nextId, outgoing, stream, writes, losses>>

TimePasses ==
    /\ ~link.due /\ link' = [link EXCEPT !.due = TRUE]
    /\ UNCHANGED <<call, asked, client, stream, bounds>>

\* The user has the daemon of another version ended.
ReplaceBlockingDaemon ==
    /\ WaitingAt("idle") /\ link.state = "blocked"
    /\ link' = [link EXCEPT !.state = "connecting", !.due = FALSE]
    /\ daemon' = IF daemon = "other" THEN "none" ELSE daemon
    /\ UNCHANGED <<call, asked, client, net, wire, answers, stuck, served, bounds>>

---------------------------------------------------------------------------
(* The daemon *)

\* serve_client: one request after the other, what was sent before a loss too.
Serve ==
    /\ wire # <<>> /\ ~stuck /\ wire' = Tail(wire)
    /\ IF Head(wire) = Write THEN stuck' \in BOOLEAN /\ UNCHANGED <<answers, served>>
       ELSE /\ stuck' = FALSE /\ served' = served \cup {Head(wire)}
            /\ answers' = IF net = "up" THEN Append(answers, Head(wire)) ELSE answers
    /\ UNCHANGED <<ui, client, net, daemon, bounds>>

ProgramReads ==
    /\ stuck /\ stuck' = FALSE
    /\ UNCHANGED <<ui, client, net, wire, answers, daemon, served, bounds>>

\* The connection is lost, with some of what was on its way, or the daemon with
\* it; another version's may be started in its place.
Lose ==
    /\ net = "up" /\ losses < MaxLosses /\ losses' = losses + 1 /\ net' = "down"
    /\ \E n \in 0 .. Len(answers) : answers' = SubSeq(answers, 1, n)
    /\ daemon' \in {"ours", "none", "other"}
    /\ wire' \in IF daemon' = "ours" THEN {wire} ELSE {<<>>}
    /\ UNCHANGED <<ui, client, stuck, served, writes, attempts>>

Init ==
    /\ link = [state |-> "connecting", attempt |-> "running", due |-> TRUE, held |-> FALSE]
    /\ call = Idle /\ asked = {}
    /\ connected = FALSE /\ reader = "gone" /\ writer = "gone" /\ waiters = {}
    /\ nextId = 1 /\ outgoing = <<>> /\ events = <<>>
    /\ net = "down" /\ wire = <<>> /\ answers = <<>>
    /\ daemon \in {"none", "ours", "other"} /\ stuck = FALSE /\ served = {}
    /\ writes = 0 /\ losses = 0 /\ attempts = 1

Request == Begin \/ Register \/ SendIt \/ Recheck \/ Answered \/ TimesOut
Threads == WriterSends \/ ReaderReads \/ ReaderEnds \/ ReaderDrains \/ ReaderTells
Links == Attempt \/ Poll \/ TimePasses \/ ReplaceBlockingDaemon

Next == Request \/ Send \/ Post \/ Threads \/ Links \/ Serve \/ ProgramReads \/ Lose

Spec == Init /\ [][Next]_vars

---------------------------------------------------------------------------

\* A request never waits out its time on a connection that is gone, whenever it
\* was lost between the steps of `request` (client.rs:272), and never for an
\* answer that has arrived; a waiter is left behind by no way out of `request`.
FailsAtOnce ==
    /\ WaitingAt("wait") /\ reader \in {"telling", "gone"} => call.slot # "empty"
    /\ waiters \subseteq IF call.at \in {"send", "recheck", "wait"} THEN {call.id} ELSE {}
    /\ WaitingAt("wait") /\ call.slot = "empty" => call.id \in waiters

\* An answer goes to who asked for it: what was served, to the request waited
\* for or as an event, and an answer that came too late is no one else's. What
\* the hub expects on a connection that stands is on its way.
AnswersFindTheirAsker ==
    /\ call.slot = "answer" => call.id \in served /\ call.id \notin asked
    /\ \A i \in DOMAIN answers : answers[i] \in served
    /\ net = "up" /\ link.held =>
           \A id \in asked : \E q \in {outgoing, wire, answers, events} : Contains(q, id)

\* The link thinks itself connected only with a client that is, or whose loss it
\* is about to read: no connection is lost without its loss being told, however
\* early, and none is made while one is held.
LinkKnows ==
    /\ link.state = "connected" <=> link.held
    /\ link.held /\ reader = "gone" => Contains(events, Disconnected)
    /\ link.attempt \in {"running", "ok"} => ~link.held
=============================================================================
