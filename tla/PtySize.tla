------------------------------- MODULE PtySize -------------------------------
(***************************************************************************)
(* The size of one terminal: how the size of its view in the UI reaches    *)
(* the session that owns the PTY in the daemon, and the PTY itself.        *)
(*                                                                         *)
(* One UI holds one view.  It talks to the daemon over one connection at a *)
(* time; each connection is an ordered stream of requests served by a      *)
(* thread of its own, which may still be draining an old connection when   *)
(* the next one is already up.  The session keeps one size per attached    *)
(* connection and gives the PTY the smallest.  A nudge (a thread started   *)
(* by an attach to a program on the alternate screen) shrinks the PTY by a *)
(* row and restores it 60 ms later.                                        *)
(*                                                                         *)
(* A size is a pair <<columns, rows>>.                                     *)
(***************************************************************************)
EXTENDS Naturals, Sequences

CONSTANTS
    Cols,         \* widths a view can have, in columns
    Rows,         \* heights a view can have, in rows
    MaxConns,     \* bound: connections the UI opens
    MaxResizes,   \* bound: layouts that change the view's size
    MaxResyncs,   \* bound: resyncs the daemon asks for
    Nudges,       \* the nudge threads that can run at once
    CalmConnect   \* the layout never changes while a view that does not run awaits an answer

ASSUME SizesAssumption == Cols \subseteq Nat \ {0} /\ Rows \subseteq Nat \ {0}
ASSUME BoundsAssumption == MaxConns \in Nat /\ MaxResizes \in Nat /\ MaxResyncs \in Nat
ASSUME CalmAssumption == CalmConnect \in BOOLEAN

Conns == 1 .. MaxConns
Size == Cols \X Rows
NoConn == 0
NoView == <<0, 0>>

Request == [op : {"Attach", "Spawn", "Resize"}, size : Size]
Message == {"Live", "Dead", "NoSuch", "Refused", "Exited", "Resync"}
Idle == [phase |-> "idle", cols |-> 0, rows |-> 0]
Started == [Idle EXCEPT !.phase = "started"]
NudgeState == {Idle, Started}
    \cup [phase : {"read", "shrunk"}, cols : Cols, rows : {r \in Rows : r > 1}]

VARIABLES
    \* The UI: the view and its link.
    status,     \* the view's status
    viewSize,   \* the size it was last laid out at
    pending,    \* a request of the view awaits its reply
    conn,       \* the connection in use, or NoConn
    \* The two directions of the connections.
    wire,       \* wire[c]: requests sent and not yet served
    inbox,      \* messages on their way to the UI on conn
    \* The daemon: the session and its threads.
    sess,       \* "none", "live" or "exited"
    views,      \* views[c]: the size attached through c, or NoView
    size,       \* the size the session believes the PTY has
    pty,        \* the size the PTY has
    alt,        \* the program is on the alternate screen
    nudge,      \* nudge[n]: where nudge thread n stands
    \* Bounds.
    opened, resizes, resyncs

uiVars == <<status, viewSize, pending, conn>>
daemonVars == <<sess, views, size, pty, alt, nudge>>
bounds == <<opened, resizes, resyncs>>
vars == <<uiVars, wire, inbox, daemonVars, bounds>>

Attached == {c \in Conns : views[c] # NoView}

Init ==
    /\ status = "Connecting" /\ viewSize \in Size /\ pending = FALSE /\ conn = NoConn
    /\ wire = [c \in Conns |-> <<>>] /\ inbox = <<>>
    /\ sess = "none" /\ views = [c \in Conns |-> NoView]
    /\ size \in Size /\ pty = size /\ alt = FALSE
    /\ nudge = [n \in Nudges |-> Idle]
    /\ opened = 0 /\ resizes = 0 /\ resyncs = 0

-----------------------------------------------------------------------------
(* The UI. *)

(* Mutant: the size is the one from before this frame's layout. *)
SendBeforeLayout(op, s) ==
    wire' = [wire EXCEPT ![conn] = Append(@, [op |-> op, size |-> viewSize])]

Send(op, s) == wire' = [wire EXCEPT ![conn] = Append(@, [op |-> op, size |-> s])]

(* An attach or a spawn of the view is still to be answered: the hub's map of
   pending requests has it.  Two resyncs may leave two of them, and the view's
   own pending is cleared by the first answer. *)
Answer == {"Live", "Dead", "NoSuch", "Refused"}
Unanswered ==
    /\ conn # NoConn
    /\ \/ \E i \in DOMAIN wire[conn] : wire[conn][i].op # "Resize"
       \/ \E i \in DOMAIN inbox : inbox[i] \in Answer

(* One frame that draws the panel with room for s: the view takes the size;
   a running view that changed posts a Resize; a connecting one with nothing
   in flight attaches. *)
DrawFrame(s) ==
    /\ status \in {"Connecting", "Running", "Exited"}
    /\ viewSize' = s
    /\ \/ s = viewSize /\ UNCHANGED resizes
       \/ /\ s # viewSize /\ resizes < MaxResizes
          /\ CalmConnect => status = "Running" \/ ~Unanswered
          /\ resizes' = resizes + 1
    /\ \/ /\ status = "Running" /\ s # viewSize /\ conn # NoConn
          /\ Send("Resize", s)
          /\ UNCHANGED pending
       \/ /\ status = "Connecting" /\ ~pending /\ conn # NoConn
          /\ Send("Attach", s)
          /\ pending' = TRUE
       \/ /\ \/ conn = NoConn
             \/ status = "Running" /\ s = viewSize
             \/ status = "Connecting" /\ pending
             \/ status = "Exited"
          /\ UNCHANGED <<wire, pending>>
    /\ UNCHANGED <<status, conn, inbox, daemonVars, opened, resyncs>>

(* One message from the daemon, handled by the hub. *)
Receive ==
    /\ inbox # <<>>
    /\ inbox' = Tail(inbox)
    /\ LET m == Head(inbox) IN
       \/ /\ m = "Live"
          /\ status' = "Running" /\ pending' = FALSE /\ UNCHANGED wire
       \/ /\ m = "Dead"
          /\ status' = "Exited" /\ pending' = FALSE /\ UNCHANGED wire
       \/ /\ m = "Refused"
          /\ status' = "Failed" /\ pending' = FALSE /\ UNCHANGED wire
       \/ /\ m = "Exited"
          /\ status' = "Exited" /\ UNCHANGED <<pending, wire>>
       \/ /\ m = "NoSuch"
          /\ Send("Spawn", viewSize)
          /\ status' = "Connecting" /\ pending' = TRUE
       \/ /\ m = "Resync"
          /\ Send("Attach", viewSize)
          /\ pending' = TRUE /\ UNCHANGED status
    /\ UNCHANGED <<viewSize, conn, daemonVars, bounds>>

Connect ==
    /\ conn = NoConn /\ opened < MaxConns
    /\ conn' = opened + 1 /\ opened' = opened + 1
    /\ pending' = FALSE
    /\ status' = IF status = "Exited" THEN status ELSE "Connecting"
    /\ UNCHANGED <<viewSize, wire, inbox, daemonVars, resizes, resyncs>>

(* The connection drops: what had not left the UI is lost, what had is still
   served, and nothing more arrives. *)
Disconnect ==
    /\ conn # NoConn
    /\ conn' = NoConn /\ pending' = FALSE /\ inbox' = <<>>
    /\ \E n \in 0 .. Len(wire[conn]) :
          wire' = [wire EXCEPT ![conn] = SubSeq(@, 1, n)]
    /\ UNCHANGED <<status, viewSize, daemonVars, bounds>>

-----------------------------------------------------------------------------
(* The daemon. *)

(* The PTY takes the smallest size across the attached views vs, and is only
   resized on a change; with no view attached it keeps its size. *)
ApplySize(vs) ==
    LET sizes == {vs[c] : c \in {d \in Conns : vs[d] # NoView}} IN
    IF sizes = {} THEN UNCHANGED <<size, pty>>
    ELSE \E narrowest, lowest \in sizes :
            /\ \A s \in sizes : narrowest[1] <= s[1] /\ lowest[2] <= s[2]
            /\ size' = <<narrowest[1], lowest[2]>>
            /\ pty' = IF size' # size THEN size' ELSE pty

Reply(c, m) == inbox' = IF c = conn THEN Append(inbox, m) ELSE inbox

StartNudge ==
    \E n \in Nudges :
        /\ nudge[n].phase = "idle"
        /\ nudge' = [nudge EXCEPT ![n] = Started]

ServeAttach(c, s) ==
    \/ /\ sess = "none"
       /\ Reply(c, "NoSuch") /\ UNCHANGED daemonVars
    \/ /\ sess = "exited"
       /\ Reply(c, "Dead") /\ UNCHANGED daemonVars
    \/ /\ sess = "live"
       /\ views' = [views EXCEPT ![c] = s]
       /\ ApplySize(views')
       /\ Reply(c, "Live")
       /\ IF alt THEN StartNudge ELSE UNCHANGED nudge
       /\ UNCHANGED <<sess, alt>>

ServeSpawn(c, s) ==
    \/ /\ sess = "live"
       /\ Reply(c, "Refused") /\ UNCHANGED daemonVars
    \/ /\ sess # "live"
       /\ sess' = "live" /\ alt' = FALSE
       /\ size' = s /\ pty' = s
       /\ views' = [d \in Conns |-> IF d = c THEN s ELSE NoView]
       /\ nudge' = [n \in Nudges |-> Idle]   \* older threads hold the older session
       /\ Reply(c, "Live")

(* Mutant: the new size is noted and never applied. *)
ServeResizeNotApplied(c, s) ==
    /\ views' = IF views[c] # NoView THEN [views EXCEPT ![c] = s] ELSE views
    /\ UNCHANGED <<size, pty, inbox, sess, alt, nudge>>

(* A resize from a connection that is not attached is ignored. *)
ServeResize(c, s) ==
    /\ IF views[c] # NoView
       THEN /\ views' = [views EXCEPT ![c] = s]
            /\ ApplySize(views')
       ELSE UNCHANGED <<views, size, pty>>
    /\ UNCHANGED <<inbox, sess, alt, nudge>>

Serve(c) ==
    /\ wire[c] # <<>>
    /\ wire' = [wire EXCEPT ![c] = Tail(@)]
    /\ LET r == Head(wire[c]) IN
       \/ r.op = "Attach" /\ ServeAttach(c, r.size)
       \/ r.op = "Spawn" /\ ServeSpawn(c, r.size)
       \/ r.op = "Resize" /\ ServeResize(c, r.size)
    /\ UNCHANGED <<uiVars, bounds>>

(* Mutant: detaching forgets to apply the size of the views that remain. *)
CloseServerKeepsSize(c) ==
    /\ c # conn /\ wire[c] = <<>> /\ views[c] # NoView
    /\ views' = [views EXCEPT ![c] = NoView]
    /\ UNCHANGED <<size, pty, uiVars, wire, inbox, sess, alt, nudge, bounds>>

(* Mutant: only the first connection is ever cleaned up after. *)
CloseServerOnce(c) ==
    /\ c = 1 /\ c # conn /\ wire[c] = <<>> /\ views[c] # NoView
    /\ views' = [views EXCEPT ![c] = NoView]
    /\ ApplySize(views')
    /\ UNCHANGED <<uiVars, wire, inbox, sess, alt, nudge, bounds>>

(* The serving thread of a closed connection detaches whatever it attached. *)
CloseServer(c) ==
    /\ c # conn /\ wire[c] = <<>> /\ views[c] # NoView
    /\ views' = [views EXCEPT ![c] = NoView]
    /\ ApplySize(views')
    /\ UNCHANGED <<uiVars, wire, inbox, sess, alt, nudge, bounds>>

(* The client's queue overflowed: it is told to attach again. *)
AskResync ==
    /\ sess = "live" /\ conn \in Attached /\ resyncs < MaxResyncs
    /\ inbox' = Append(inbox, "Resync")
    /\ resyncs' = resyncs + 1
    /\ UNCHANGED <<uiVars, wire, daemonVars, opened, resizes>>

(* The program enters or leaves the alternate screen. *)
SwitchScreen ==
    /\ sess = "live" /\ alt' = ~alt
    /\ UNCHANGED <<uiVars, wire, inbox, sess, views, size, pty, nudge, bounds>>

(* The shell exits: every view is told and detached. *)
Finish ==
    /\ sess = "live" /\ sess' = "exited"
    /\ inbox' = IF conn \in Attached THEN Append(inbox, "Exited") ELSE inbox
    /\ views' = [c \in Conns |-> NoView]
    /\ UNCHANGED <<uiVars, wire, size, pty, alt, nudge, bounds>>

(* Mutant: a single row is shrunk too. *)
NudgeReadAnyRows(n) ==
    /\ nudge[n].phase = "started"
    /\ nudge' = [nudge EXCEPT ![n] = [phase |-> "read", cols |-> size[1], rows |-> size[2]]]
    /\ UNCHANGED <<uiVars, wire, inbox, sess, views, size, pty, alt, bounds>>

(* The thread reads the session's size; one row cannot shrink. *)
NudgeRead(n) ==
    /\ nudge[n].phase = "started"
    /\ nudge' = [nudge EXCEPT ![n] =
            IF size[2] < 2 THEN Idle
            ELSE [phase |-> "read", cols |-> size[1], rows |-> size[2]]]
    /\ UNCHANGED <<uiVars, wire, inbox, sess, views, size, pty, alt, bounds>>

NudgeShrink(n) ==
    /\ nudge[n].phase = "read"
    /\ pty' = <<nudge[n].cols, nudge[n].rows - 1>>
    /\ nudge' = [nudge EXCEPT ![n].phase = "shrunk"]
    /\ UNCHANGED <<uiVars, wire, inbox, sess, views, size, alt, bounds>>

(* Mutant: the rows restored are those read at the start. *)
NudgeRestoreStale(n) ==
    /\ nudge[n].phase = "shrunk"
    /\ pty' = <<nudge[n].cols, nudge[n].rows>>
    /\ nudge' = [nudge EXCEPT ![n] = Idle]
    /\ UNCHANGED <<uiVars, wire, inbox, sess, views, size, alt, bounds>>

(* The rows are read afresh; the columns are those read at the start. *)
NudgeRestore(n) ==
    /\ nudge[n].phase = "shrunk"
    /\ pty' = <<nudge[n].cols, size[2]>>
    /\ nudge' = [nudge EXCEPT ![n] = Idle]
    /\ UNCHANGED <<uiVars, wire, inbox, sess, views, size, alt, bounds>>

Next ==
    \/ \E s \in Size : DrawFrame(s)
    \/ Receive \/ Connect \/ Disconnect
    \/ \E c \in Conns : Serve(c) \/ CloseServer(c)
    \/ AskResync \/ SwitchScreen \/ Finish
    \/ \E n \in Nudges : NudgeRead(n) \/ NudgeShrink(n) \/ NudgeRestore(n)

Spec == Init /\ [][Next]_vars

(* Frames keep being drawn, the threads keep running, and a lost connection
   is retried; nobody must resize, disconnect, or end the shell. *)
Fairness ==
    /\ WF_vars(DrawFrame(viewSize)) /\ WF_vars(Receive) /\ WF_vars(Connect)
    /\ \A c \in Conns : WF_vars(Serve(c)) /\ WF_vars(CloseServer(c))
    /\ \A n \in Nudges :
          WF_vars(NudgeRead(n)) /\ WF_vars(NudgeShrink(n)) /\ WF_vars(NudgeRestore(n))

FairSpec == Spec /\ Fairness

-----------------------------------------------------------------------------
(* Properties. *)

(* The UI, the two directions of the link and the session keep their types; in
   particular no shrink of a nudge ever leaves the PTY without a row. *)
TypeOK ==
    /\ status \in {"Connecting", "Running", "Exited", "Failed"}
    /\ viewSize \in Size /\ pending \in BOOLEAN
    /\ conn \in Conns \cup {NoConn} /\ opened \in 0 .. MaxConns
    /\ wire \in [Conns -> Seq(Request)] /\ inbox \in Seq(Message)
    /\ sess \in {"none", "live", "exited"}
    /\ views \in [Conns -> Size \cup {NoView}]
    /\ size \in Size /\ alt \in BOOLEAN
    /\ pty \in Cols \X (Nat \ {0})
    /\ nudge \in [Nudges -> NudgeState]
    /\ resizes \in 0 .. MaxResizes /\ resyncs \in 0 .. MaxResyncs

(* The size the session keeps is the smallest across the attached views
   (apply_size, FR-010): whichever of attach, resize, detach and spawn came
   last, on whichever connection, no view is too small for it, and it is no
   smaller than it must be. *)
SizeIsSmallest ==
    sess = "live" /\ Attached # {} =>
        /\ \A c \in Attached : size[1] <= views[c][1] /\ size[2] <= views[c][2]
        /\ \E c \in Attached : size[1] = views[c][1]
        /\ \E c \in Attached : size[2] = views[c][2]

(* However many nudges ran, and whatever was resized between their two
   steps, once none has the PTY shrunk its rows are the session's
   (session.rs nudge reads the rows afresh). *)
RowsRestored ==
    sess = "live" /\ (\A n \in Nudges : nudge[n].phase # "shrunk") => pty[2] = size[2]

(* With no nudge running the PTY has the size of the session: the smallest
   across attached views (FR-010). *)
PtyHasTheSize ==
    sess = "live" /\ (\A n \in Nudges : nudge[n].phase = "idle") => pty = size

(* A running view whose requests have all been served and whose messages
   have all arrived is attached at the size it is drawn at. *)
ViewSizeReported ==
    /\ sess = "live" /\ status = "Running" /\ conn # NoConn
    /\ wire[conn] = <<>> /\ inbox = <<>>
    => views[conn] = viewSize

(* The view of a connection that is gone is detached in the end, and stops
   holding the PTY small (server.rs serve, after its loop). *)
GhostsLeave == \A c \in Conns : (c \in Attached /\ c # conn) ~> (c \notin Attached)

(* What the program sees is in the end as high as the view is drawn: a view
   that runs and stays connected does not wait for ever for its last resize,
   or for the restore of a nudge. *)
RowsArrive ==
    [](status = "Running" /\ conn # NoConn /\ sess = "live" =>
        <>(pty[2] = viewSize[2] \/ status # "Running" \/ conn = NoConn \/ sess # "live"))
=============================================================================
