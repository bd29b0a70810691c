----------------------------- MODULE TermStream -----------------------------
(***************************************************************************)
(* The output of one terminal, from the PTY to the emulator of its view.   *)
(*                                                                         *)
(* The session keeps a bounded tail and, under one lock, appends a chunk   *)
(* and hands it to the queue of the attached client.  The queue is drained *)
(* by the client's writer thread; past MaxQueued bytes the chunk is        *)
(* dropped and the terminal is marked for a resync, sent once the queue    *)
(* has drained.  The view paints chunks as they come, skips what it has    *)
(* already seen, and is rebuilt from the snapshot of every attach.         *)
(*                                                                         *)
(* Bytes are numbered from 0 in the order the program wrote them; a chunk  *)
(* is its offset and its length.                                           *)
(***************************************************************************)
EXTENDS Integers, Sequences, FiniteSetsExt, SequencesExt

CONSTANTS
    Chunk,       \* the most bytes one read of the PTY returns
    Capacity,    \* bytes of tail a session keeps
    Window,      \* how far past the excess a line end is looked for
    MaxQueued,   \* bytes a client may be behind before output is dropped
    Control,     \* bytes a control message is counted as
    WireCap,     \* bound: messages the socket holds
    MaxBytes,    \* bound: bytes the program writes
    MaxOther,    \* bound: messages queued for other terminals
    MaxLosses,   \* bound: connections lost
    LossSparesExited   \* no connection is lost under an ended view still owed output

ASSUME StreamAssumption ==
    /\ Chunk \in Nat \ {0} /\ Capacity \in Nat \ {0} /\ Window \in Nat
    /\ MaxQueued \in Nat /\ Control \in Nat /\ WireCap \in Nat \ {0}
    /\ MaxBytes \in Nat /\ MaxOther \in Nat /\ MaxLosses \in Nat
    /\ LossSparesExited \in BOOLEAN

Output(o, n) == [kind |-> "Output", off |-> o, len |-> n]
Snapshot(s, e, x) == [kind |-> "Snapshot", off |-> s, len |-> e - s, exited |-> x]
Bare(k) == [kind |-> k, off |-> 0, len |-> Control]

VARIABLES
    \* The session.
    start, end,   \* its tail holds the bytes start .. end - 1
    exited,       \* its shell has exited
    attached,     \* the client of the current connection is one of its views
    \* The client's outgoing side in the daemon.
    rx,           \* messages queued for the writer thread
    queued,       \* bytes counted as queued
    resync,       \* the terminal is marked for a resync
    phase,        \* the writer: "wait", "wrote", "check", "take", "tell"
    hand,         \* bytes of the message it has written and not yet counted
    \* The connection.
    wire,         \* messages in the socket
    asks,         \* Attach requests on their way to the daemon
    connected,
    \* The view in the UI.
    status, pending,
    from, seen,   \* it shows bytes of from .. seen - 1
    painted,      \* painted[b]: how often byte b was painted since the rebuild
    \* Bounds and history.
    others, losses,
    exitEnd       \* end of the output the shell had written when it exited

session == <<start, end, exited, attached>>
queue == <<rx, queued, resync, phase, hand>>
link == <<wire, asks, connected>>
view == <<status, pending, from, seen, painted>>
vars == <<session, queue, link, view, others, losses, exitEnd>>

Bytes == 0 .. MaxBytes - 1
Blank == [b \in Bytes |-> 0]

Init ==
    /\ start = 0 /\ end = 0 /\ exited = FALSE /\ attached = FALSE
    /\ rx = <<>> /\ queued = 0 /\ resync = FALSE /\ phase = "wait" /\ hand = 0
    /\ wire = <<>> /\ asks = 0 /\ connected = TRUE
    /\ status = "Connecting" /\ pending = FALSE
    /\ from = 0 /\ seen = 0 /\ painted = Blank
    /\ others = 0 /\ losses = 0 /\ exitEnd = 0

-----------------------------------------------------------------------------
(* The registry: what is queued for the client. *)

(* Mutant: every message counts as a control message. *)
EnqueueFlat(m) == rx' = Append(rx, m) /\ queued' = queued + Control

Enqueue(m) == rx' = Append(rx, m) /\ queued' = queued + m.len

(* Mutant: output that does not fit is dropped and nobody is told. *)
SendOutputDrops(o, n) ==
    /\ IF resync \/ queued + n > MaxQueued THEN UNCHANGED <<rx, queued>> ELSE Enqueue(Output(o, n))
    /\ UNCHANGED resync

(* Output goes to the queue, or marks the terminal for a resync. *)
SendOutput(o, n) ==
    IF resync \/ queued + n > MaxQueued
    THEN resync' = TRUE /\ UNCHANGED <<rx, queued>>
    ELSE Enqueue(Output(o, n)) /\ UNCHANGED resync

-----------------------------------------------------------------------------
(* The session. *)

(* Where the tail may start after n more bytes: over capacity it is cut past
   the first line end found in the window after the excess, else just there. *)
TailStarts(n) ==
    LET excess == end + n - start - Capacity IN
    IF excess <= 0 THEN {start}
    ELSE start + excess .. Min({end + n, start + excess + Window})

(* One read of the PTY: the bytes join the tail and go to the attached view,
   under the session's lock.  A background process can go on writing after
   the shell has exited. *)
Pump(n) ==
    /\ end + n <= MaxBytes
    /\ end' = end + n
    /\ start' \in TailStarts(n)
    /\ IF attached THEN SendOutput(end, n) ELSE UNCHANGED <<rx, queued, resync>>
    /\ UNCHANGED <<exited, attached, phase, hand, link, view, others, losses, exitEnd>>

(* Mutant: the exit overtakes the output already queued. *)
FinishOvertakes ==
    /\ ~exited /\ exited' = TRUE /\ exitEnd' = end
    /\ attached' = FALSE
    /\ IF attached THEN rx' = <<Bare("Exited")>> \o rx /\ queued' = queued + Control
                   ELSE UNCHANGED <<rx, queued>>
    /\ UNCHANGED <<start, end, resync, phase, hand, link, view, others, losses>>

(* The shell has exited and its output has drained, or waited long enough. *)
Finish ==
    /\ ~exited /\ exited' = TRUE /\ exitEnd' = end
    /\ attached' = FALSE
    /\ IF attached THEN Enqueue(Bare("Exited")) ELSE UNCHANGED <<rx, queued>>
    /\ UNCHANGED <<start, end, resync, phase, hand, link, view, others, losses>>

(* Mutant: the snapshot is sent and the view is not registered. *)
AttachForgetsView ==
    /\ asks > 0 /\ asks' = asks - 1
    /\ Enqueue(Snapshot(start, end, exited))
    /\ UNCHANGED <<session, resync, phase, hand, wire, connected, view, others, losses, exitEnd>>

(* An Attach is served: the snapshot joins the queue under the session's lock. *)
Attach ==
    /\ asks > 0 /\ asks' = asks - 1
    /\ attached' = (attached \/ ~exited)
    /\ Enqueue(Snapshot(start, end, exited))
    /\ UNCHANGED <<start, end, exited, resync, phase, hand, wire, connected, view,
                   others, losses, exitEnd>>

(* Another terminal's message takes its place in the same queue. *)
OtherTraffic ==
    /\ connected /\ others < MaxOther /\ others' = others + 1
    /\ Enqueue(Bare("Other"))
    /\ UNCHANGED <<session, resync, phase, hand, link, view, losses, exitEnd>>

-----------------------------------------------------------------------------
(* The writer thread. *)

WriterTakesMessage ==
    /\ phase = "wait" /\ rx # <<>> /\ Len(wire) < WireCap
    /\ wire' = Append(wire, Head(rx)) /\ rx' = Tail(rx)
    /\ hand' = Head(rx).len /\ phase' = "wrote"
    /\ UNCHANGED <<session, queued, resync, asks, connected, view, others, losses, exitEnd>>

WriterCounts ==
    /\ phase = "wrote" /\ queued' = queued - hand /\ hand' = 0 /\ phase' = "check"
    /\ UNCHANGED <<session, rx, resync, link, view, others, losses, exitEnd>>

WriterChecks ==
    /\ phase = "check" /\ phase' = IF rx = <<>> THEN "take" ELSE "wait"
    /\ UNCHANGED <<session, rx, queued, resync, hand, link, view, others, losses, exitEnd>>

(* Nothing came for 250 ms. *)
WriterTimesOut ==
    /\ phase = "wait" /\ rx = <<>> /\ phase' = "take"
    /\ UNCHANGED <<session, rx, queued, resync, hand, link, view, others, losses, exitEnd>>

(* The owed resync is taken, unless the queue has grown past half again. *)
WriterTakesResync ==
    /\ phase = "take"
    /\ IF 2 * queued > MaxQueued \/ ~resync
       THEN phase' = "wait" /\ UNCHANGED resync
       ELSE phase' = "tell" /\ resync' = FALSE
    /\ UNCHANGED <<session, rx, queued, hand, link, view, others, losses, exitEnd>>

(* Mutant: the resync is taken off the set and never written. *)
WriterForgetsResync ==
    /\ phase = "tell" /\ Len(wire) < WireCap /\ phase' = "wait"
    /\ UNCHANGED <<session, rx, queued, resync, hand, link, view, others, losses, exitEnd>>

WriterTellsResync ==
    /\ phase = "tell" /\ Len(wire) < WireCap
    /\ wire' = Append(wire, Bare("Resync")) /\ phase' = "wait"
    /\ UNCHANGED <<session, rx, queued, resync, hand, asks, connected, view, others,
                   losses, exitEnd>>

-----------------------------------------------------------------------------
(* The UI. *)

(* What a view that has seen s bytes has not seen of n bytes at offset o. *)
Unseen(o, n, s) ==
    IF o + n <= s THEN {}
    ELSE IF o >= s THEN o .. o + n - 1
    ELSE s .. o + n - 1

Paint(bs) == painted' = [b \in Bytes |-> painted[b] + IF b \in bs THEN 1 ELSE 0]

Feed(m) ==
    /\ Paint(Unseen(m.off, m.len, seen))
    /\ seen' = Max({seen, m.off + m.len})
    /\ UNCHANGED <<status, pending, from, asks>>

(* Mutant: the tail is replayed over what the emulator already shows. *)
ApplySnapshotOver(m) ==
    /\ from' = m.off /\ seen' = m.off + m.len
    /\ Paint(m.off .. m.off + m.len - 1)
    /\ status' = IF m.exited THEN "Exited" ELSE "Running"
    /\ pending' = FALSE
    /\ UNCHANGED asks

ApplySnapshot(m) ==
    /\ from' = m.off /\ seen' = m.off + m.len
    /\ painted' = [b \in Bytes |-> IF b \in m.off .. m.off + m.len - 1 THEN 1 ELSE 0]
    /\ status' = IF m.exited THEN "Exited" ELSE "Running"
    /\ pending' = FALSE
    /\ UNCHANGED asks

Receive ==
    /\ wire # <<>> /\ wire' = Tail(wire)
    /\ LET m == Head(wire) IN
       \/ m.kind = "Output" /\ Feed(m)
       \/ m.kind = "Snapshot" /\ ApplySnapshot(m)
       \/ m.kind = "Exited" /\ status' = "Exited"
          /\ UNCHANGED <<pending, from, seen, painted, asks>>
       \/ m.kind = "Resync" /\ asks' = asks + 1 /\ pending' = TRUE
          /\ UNCHANGED <<status, from, seen, painted>>
       \/ m.kind = "Other" /\ UNCHANGED <<view, asks>>
    /\ UNCHANGED <<session, queue, connected, others, losses, exitEnd>>

(* The view is laid out and asks to attach. *)
AskAttach ==
    /\ connected /\ status = "Connecting" /\ ~pending
    /\ pending' = TRUE /\ asks' = asks + 1
    /\ UNCHANGED <<session, queue, wire, connected, status, from, seen, painted, others,
                   losses, exitEnd>>

(* Something that will rebuild the view is on its way. *)
ResyncOnItsWay ==
    \/ resync \/ phase = "tell" \/ asks > 0
    \/ \E i \in DOMAIN wire : wire[i].kind \in {"Resync", "Snapshot"}
    \/ \E i \in DOMAIN rx : rx[i].kind = "Snapshot"

(* The connection is lost, with everything in it; the daemon forgets the
   client, queue and all. *)
Lose ==
    /\ connected /\ losses < MaxLosses /\ losses' = losses + 1
    /\ LossSparesExited => ~(status = "Exited" /\ ResyncOnItsWay)
    /\ connected' = FALSE /\ wire' = <<>> /\ asks' = 0
    /\ rx' = <<>> /\ queued' = 0 /\ resync' = FALSE /\ phase' = "wait" /\ hand' = 0
    /\ attached' = FALSE /\ pending' = FALSE
    /\ UNCHANGED <<start, end, exited, status, from, seen, painted, others, exitEnd>>

(* Mutant: a running view stays as it was. *)
ReconnectKeepsRunning ==
    /\ ~connected /\ connected' = TRUE /\ pending' = FALSE
    /\ UNCHANGED <<session, queue, wire, asks, status, from, seen, painted, others, losses,
                   exitEnd>>

(* It is back: every view that was not at its end attaches again. *)
Reconnect ==
    /\ ~connected /\ connected' = TRUE /\ pending' = FALSE
    /\ status' = IF status = "Exited" THEN status ELSE "Connecting"
    /\ UNCHANGED <<session, queue, wire, asks, from, seen, painted, others, losses, exitEnd>>

Writer ==
    \/ WriterTakesMessage \/ WriterCounts \/ WriterChecks \/ WriterTimesOut
    \/ WriterTakesResync \/ WriterTellsResync

Next ==
    \/ \E n \in 1 .. Chunk : Pump(n)
    \/ Finish \/ Attach \/ OtherTraffic \/ Writer
    \/ Receive \/ AskAttach \/ Lose \/ Reconnect

Spec == Init /\ [][Next]_vars

(* The daemon's threads, the socket and the UI's frames keep going, and a
   lost connection is retried; the program need neither write nor exit. *)
FairSpec ==
    /\ Spec
    /\ WF_vars(Attach) /\ WF_vars(Writer) /\ WF_vars(Receive)
    /\ WF_vars(AskAttach) /\ WF_vars(Reconnect)
-----------------------------------------------------------------------------
(* Properties. *)

Message ==
    {Output(o, n) : o \in 0 .. MaxBytes, n \in 1 .. Chunk}
    \cup {Snapshot(s, s + n, x) : s \in 0 .. MaxBytes, n \in 0 .. Capacity, x \in BOOLEAN}
    \cup {Bare(k) : k \in {"Exited", "Resync", "Other"}}

(* Something the view shows the span of was never painted. *)
Missing == \E b \in from .. seen - 1 : painted[b] = 0

(* The view waits for a snapshot. *)
Owed ==
    \/ status = "Connecting" \/ (status = "Running" /\ ~connected)
    \/ ResyncOnItsWay

(* No byte is painted twice, whatever an attach's snapshot and the output
   queued around it overlap in (FR-005: reattaching must not duplicate). *)
PaintedOnce == \A b \in Bytes : painted[b] <= 1

(* A view never rests on a hole: when output was dropped for it, a resync, an
   attach or its snapshot is under way (protocol Resync: "Nothing is ever
   silently skipped"). *)
NoSilentLoss == Missing => Owed

(* A view with nothing on its way shows everything: to the end while the
   session runs, and all the shell had written once it has exited. *)
NothingLeftBehind ==
    rx = <<>> /\ wire = <<>> /\ ~Owed =>
        /\ status = "Running" => attached /\ seen = end
        /\ status = "Exited" => seen >= exitEnd

(* How many bytes there are in those of the messages that are of some kinds. *)
Kinds == {"Output", "Snapshot", "Exited", "Resync", "Other"}
Size(ms, kinds) ==
    LET sum[n \in 0 .. Len(ms)] ==
            IF n = 0 THEN 0 ELSE sum[n - 1] + IF ms[n].kind \in kinds THEN ms[n].len ELSE 0
    IN sum[Len(ms)]

(* The counter the drop decision reads is exactly what the queue holds and
   the writer has in hand; the output queued stays within its limit, and the
   tail within its own. *)
LimitsKept ==
    /\ queued = Size(rx, Kinds) + hand
    /\ Size(rx, {"Output"}) <= MaxQueued
    /\ end - start \in 0 .. Capacity

(* A view learns of the exit after all the output that preceded it, or while
   a snapshot that covers it is due (protocol Exited: "Output that preceded
   the exit has already been sent"). *)
ExitComesLast ==
    [][status' = "Exited" /\ status # "Exited" => Owed' \/ seen' >= exitEnd]_vars

(* In the end every view catches up, however far it fell behind. *)
CatchesUp ==
    <>[](~Owed /\ ~Missing /\ (seen = end \/ (status = "Exited" /\ seen >= exitEnd)))

View == INSTANCE OutputView WITH upto <- seen, missing <- Missing, owed <- Owed

(* The stream is what a terminal promises of its output. *)
ShowsOutput == View!Spec
=============================================================================
