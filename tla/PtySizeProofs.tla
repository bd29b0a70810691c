---------------------------- MODULE PtySizeProofs ----------------------------
(***************************************************************************)
(* The size a session keeps, the rows of its PTY, and how the size of a    *)
(* running view reaches it, for any number of connections, resizes,        *)
(* resyncs and concurrent nudges.                                          *)
(***************************************************************************)
EXTENDS PtySize, SequenceTheorems, TLAPS

(* What apply_size leaves behind, whichever caller changed the views. *)
Smallest(vs, s) ==
    LET attached == {c \in Conns : vs[c] # NoView} IN
    attached # {} =>
        /\ \A c \in attached : s[1] <= vs[c][1] /\ s[2] <= vs[c][2]
        /\ \E c \in attached : s[1] = vs[c][1]
        /\ \E c \in attached : s[2] = vs[c][2]

Shrunk == \E n \in Nudges : nudge[n].phase = "shrunk"

(* No size a view can have is the mark of a view that is not attached. *)
LEMMA SizeIsNoMark == ASSUME NEW s \in Size PROVE s # NoView
BY SizesAssumption DEF Size, NoView

(* apply_size keeps the session's size a size, makes it the smallest of the
   attached ones, and never parts the rows of the PTY from it. *)
LEMMA ApplySizeKeeps ==
    ASSUME NEW vs \in [Conns -> Size \cup {NoView}],
           size \in Size, pty \in Cols \X (Nat \ {0}), ApplySize(vs)
    PROVE  /\ size' \in Size /\ pty' \in Cols \X (Nat \ {0})
           /\ Smallest(vs, size')
           /\ pty[2] = size[2] => pty'[2] = size'[2]
<1> DEFINE attached == {c \in Conns : vs[c] # NoView}
           sizes == {vs[c] : c \in attached}
<1>1. CASE sizes = {}
  <2>1. attached = {}
    BY <1>1
  <2>2. UNCHANGED <<size, pty>>
    BY <1>1 DEF ApplySize
  <2> QED BY <2>1, <2>2 DEF Smallest
<1>2. CASE sizes # {}
  <2>1. PICK narrowest \in sizes, lowest \in sizes :
            /\ \A s \in sizes : narrowest[1] <= s[1] /\ lowest[2] <= s[2]
            /\ size' = <<narrowest[1], lowest[2]>>
            /\ pty' = IF size' # size THEN size' ELSE pty
    BY <1>2 DEF ApplySize
  <2>2. sizes \subseteq Size
    OBVIOUS
  <2>3. size' \in Size
    BY <2>1, <2>2 DEF Size
  <2>4. size' \in Cols \X (Nat \ {0})
    BY <2>3, SizesAssumption DEF Size
  <2>5. size'[1] = narrowest[1] /\ size'[2] = lowest[2]
    BY <2>1
  <2>6. Smallest(vs, size')
    BY <2>1, <2>5 DEF Smallest
  <2> QED BY <2>1, <2>3, <2>4, <2>6
<1> QED BY <1>1, <1>2

IInv ==
    /\ TypeOK
    /\ sess = "live" => Smallest(views, size)
    /\ sess = "live" /\ ~Shrunk => pty[2] = size[2]

LEMMA InitIInv == Init => IInv
<1> SUFFICES ASSUME Init PROVE IInv OBVIOUS
<1>1. TypeOK
  <2>1. pty \in Cols \X (Nat \ {0})
    BY SizesAssumption DEF Init, Size
  <2>2. wire \in [Conns -> Seq(Request)] /\ inbox \in Seq(Message)
    BY DEF Init
  <2>3. pending \in BOOLEAN /\ alt \in BOOLEAN
    BY Zenon DEF Init
  <2>4. nudge \in [Nudges -> NudgeState]
    BY DEF Init, NudgeState
  <2>5. views \in [Conns -> Size \cup {NoView}]
    BY DEF Init
  <2>6. conn \in Conns \cup {NoConn} /\ opened \in 0 .. MaxConns
        /\ resizes \in 0 .. MaxResizes /\ resyncs \in 0 .. MaxResyncs
    BY BoundsAssumption DEF Init
  <2>7. /\ status \in {"Connecting", "Running", "Exited", "Failed"}
        /\ sess \in {"none", "live", "exited"}
        /\ viewSize \in Size /\ size \in Size
    BY DEF Init
  <2> QED BY <2>1, <2>2, <2>3, <2>4, <2>5, <2>6, <2>7, Zenon DEF TypeOK
<1> QED BY <1>1 DEF Init, IInv

(* The requests and the messages in flight stay well formed. *)
LEMMA SendType ==
    ASSUME TypeOK, NEW op \in {"Attach", "Spawn", "Resize"}, NEW s \in Size, Send(op, s)
    PROVE  wire' \in [Conns -> Seq(Request)]
<1>1. [op |-> op, size |-> s] \in Request
  BY DEF Request
<1>2. \A c \in Conns : Append(wire[c], [op |-> op, size |-> s]) \in Seq(Request)
  BY <1>1 DEF TypeOK
<1> QED BY <1>2 DEF Send, TypeOK

LEMMA ReplyType ==
    ASSUME TypeOK, NEW c, NEW m \in Message, Reply(c, m)
    PROVE  inbox' \in Seq(Message)
BY DEF Reply, TypeOK

(* The steps of the UI leave the daemon's side alone. *)
LEMMA UiSteps ==
    ASSUME IInv, NEW s \in Size, DrawFrame(s) \/ Receive \/ Connect \/ Disconnect
    PROVE  IInv'
<1> USE DEF IInv
<1>1. UNCHANGED daemonVars => (sess = "live" => Smallest(views, size))'
                              /\ (sess = "live" /\ ~Shrunk => pty[2] = size[2])'
  BY DEF daemonVars, Smallest, Shrunk
<1>2. CASE DrawFrame(s)
  <2>1. wire' \in [Conns -> Seq(Request)]
    BY <1>2, SendType DEF DrawFrame, TypeOK
  <2>2. pending' \in BOOLEAN
    BY <1>2, Zenon DEF DrawFrame, TypeOK
  <2>4. resizes' \in 0 .. MaxResizes
    BY <1>2, BoundsAssumption DEF DrawFrame, TypeOK
  <2>3. TypeOK'
    BY <1>2, <2>1, <2>2, <2>4 DEF DrawFrame, TypeOK, daemonVars
  <2> QED BY <1>1, <2>3, <1>2 DEF DrawFrame
<1>3. CASE Receive
  <2>1. wire' \in [Conns -> Seq(Request)]
    BY <1>3, SendType DEF Receive, TypeOK
  <2>2. inbox' \in Seq(Message)
    BY <1>3 DEF Receive, TypeOK
  <2>3. status' \in {"Connecting", "Running", "Exited", "Failed"} /\ pending' \in BOOLEAN
    BY <1>3 DEF Receive, TypeOK
  <2>4. TypeOK'
    BY <1>3, <2>1, <2>2, <2>3 DEF Receive, TypeOK, daemonVars, bounds
  <2> QED BY <1>1, <2>4, <1>3 DEF Receive
<1>4. CASE Connect
  <2>1. conn' \in Conns \cup {NoConn} /\ opened' \in 0 .. MaxConns
    BY <1>4, BoundsAssumption DEF Connect, TypeOK, Conns
  <2>2. TypeOK'
    BY <1>4, <2>1 DEF Connect, TypeOK, daemonVars
  <2> QED BY <1>1, <2>2, <1>4 DEF Connect
<1>5. CASE Disconnect
  <2>1. \A c \in Conns : \A n \in 0 .. Len(wire[c]) : SubSeq(wire[c], 1, n) \in Seq(Request)
    BY DEF TypeOK
  <2>2. wire' \in [Conns -> Seq(Request)]
    BY <1>5, <2>1 DEF Disconnect, TypeOK, Conns, NoConn
  <2>3. TypeOK'
    <3>1. pending' \in BOOLEAN /\ inbox' \in Seq(Message)
      BY <1>5, Zenon, EmptySeq DEF Disconnect, TypeOK
    <3> QED BY <1>5, <2>2, <3>1 DEF Disconnect, TypeOK, daemonVars, bounds
  <2> QED BY <1>1, <2>3, <1>5 DEF Disconnect
<1> QED BY <1>2, <1>3, <1>4, <1>5

(* A request served from the head of a connection. *)
LEMMA ServeType ==
    ASSUME TypeOK, NEW c \in Conns, Serve(c)
    PROVE  /\ wire' \in [Conns -> Seq(Request)]
           /\ Head(wire[c]) \in Request
           /\ UNCHANGED <<uiVars, bounds>>
<1>1. wire[c] \in Seq(Request) /\ wire[c] # <<>>
  BY DEF TypeOK, Serve
<1>2. Tail(wire[c]) \in Seq(Request) /\ Head(wire[c]) \in Request
  BY <1>1
<1> QED BY <1>2 DEF Serve, TypeOK

LEMMA ServeAttachStep ==
    ASSUME IInv, NEW c \in Conns, NEW s \in Size, ServeAttach(c, s)
    PROVE  /\ inbox' \in Seq(Message) /\ sess' = sess /\ alt' = alt
           /\ views' \in [Conns -> Size \cup {NoView}]
           /\ size' \in Size /\ pty' \in Cols \X (Nat \ {0})
           /\ nudge' \in [Nudges -> NudgeState] /\ Shrunk' = Shrunk
           /\ sess = "live" => Smallest(views', size')
           /\ pty[2] = size[2] => pty'[2] = size'[2]
<1> USE DEF IInv
<1>1. CASE sess # "live"
  <2>1. UNCHANGED daemonVars /\ (Reply(c, "NoSuch") \/ Reply(c, "Dead"))
    BY <1>1 DEF ServeAttach
  <2>2. inbox' \in Seq(Message)
    BY <2>1, ReplyType DEF Message
  <2> QED BY <2>1, <2>2, <1>1 DEF daemonVars, TypeOK, Shrunk
<1>2. CASE sess = "live"
  <2>1. /\ views' = [views EXCEPT ![c] = s] /\ ApplySize(views') /\ Reply(c, "Live")
        /\ IF alt THEN StartNudge ELSE UNCHANGED nudge
        /\ UNCHANGED <<sess, alt>>
    BY <1>2 DEF ServeAttach
  <2>2. views' \in [Conns -> Size \cup {NoView}]
    BY <2>1 DEF TypeOK
  <2>3. inbox' \in Seq(Message)
    BY <2>1, ReplyType DEF Message
  <2>4. nudge' \in [Nudges -> NudgeState] /\ Shrunk' = Shrunk
    <3>1. CASE UNCHANGED nudge
      BY <3>1 DEF TypeOK, Shrunk
    <3>2. CASE StartNudge
      <4>1. PICK n \in Nudges : nudge[n].phase = "idle" /\ nudge' = [nudge EXCEPT ![n] = Started]
        BY <3>2 DEF StartNudge
      <4>2. Started \in NudgeState /\ Started.phase = "started"
        BY DEF NudgeState, Started, Idle
      <4>3. nudge' \in [Nudges -> NudgeState]
        BY <4>1, <4>2 DEF TypeOK
      <4>4. \A o \in Nudges : nudge'[o].phase = "shrunk" <=> nudge[o].phase = "shrunk"
        BY <4>1, <4>2 DEF TypeOK
      <4> QED BY <4>3, <4>4 DEF Shrunk
    <3> QED BY <2>1, <3>1, <3>2
  <2>5. /\ size' \in Size /\ pty' \in Cols \X (Nat \ {0})
        /\ Smallest(views', size')
        /\ pty[2] = size[2] => pty'[2] = size'[2]
    BY <2>1, <2>2, ApplySizeKeeps DEF TypeOK
  <2> QED BY <2>1, <2>2, <2>3, <2>4, <2>5
<1> QED BY <1>1, <1>2

LEMMA ServeSpawnStep ==
    ASSUME IInv, NEW c \in Conns, NEW s \in Size, ServeSpawn(c, s)
    PROVE  /\ inbox' \in Seq(Message) /\ sess' = "live" /\ alt' \in BOOLEAN
           /\ views' \in [Conns -> Size \cup {NoView}]
           /\ size' \in Size /\ pty' \in Cols \X (Nat \ {0})
           /\ nudge' \in [Nudges -> NudgeState]
           /\ Smallest(views', size')
           /\ ~Shrunk' => pty'[2] = size'[2]
<1> USE DEF IInv
<1>1. CASE sess = "live"
  <2>1. UNCHANGED daemonVars /\ Reply(c, "Refused")
    BY <1>1 DEF ServeSpawn
  <2>2. inbox' \in Seq(Message)
    BY <2>1, ReplyType DEF Message
  <2> QED BY <2>1, <2>2, <1>1 DEF daemonVars, TypeOK, Shrunk
<1>2. CASE sess # "live"
  <2>1. /\ sess' = "live" /\ size' = s /\ pty' = s
        /\ views' = [d \in Conns |-> IF d = c THEN s ELSE NoView]
        /\ nudge' = [n \in Nudges |-> Idle] /\ Reply(c, "Live")
    BY <1>2 DEF ServeSpawn
  <2>2. alt' \in BOOLEAN
    BY <1>2, Zenon DEF ServeSpawn
  <2>3. inbox' \in Seq(Message)
    BY <2>1, ReplyType DEF Message
  <2>4. views' \in [Conns -> Size \cup {NoView}] /\ size' \in Size
    BY <2>1
  <2>5. pty' \in Cols \X (Nat \ {0})
    BY <2>1, SizesAssumption DEF Size
  <2>6. nudge' \in [Nudges -> NudgeState]
    BY <2>1 DEF NudgeState
  <2>7. s[1] \in Nat /\ s[2] \in Nat
    BY SizesAssumption DEF Size
  <2>8. Smallest(views', size')
    BY <2>1, <2>7, SizeIsNoMark DEF Smallest
  <2> QED BY <2>1, <2>2, <2>3, <2>4, <2>5, <2>6, <2>8
<1> QED BY <1>1, <1>2

LEMMA ServeResizeStep ==
    ASSUME IInv, NEW c \in Conns, NEW s \in Size, ServeResize(c, s)
    PROVE  /\ UNCHANGED <<inbox, sess, alt, nudge>>
           /\ views' \in [Conns -> Size \cup {NoView}]
           /\ size' \in Size /\ pty' \in Cols \X (Nat \ {0})
           /\ sess = "live" => Smallest(views', size')
           /\ pty[2] = size[2] => pty'[2] = size'[2]
<1> USE DEF IInv
<1>1. CASE views[c] = NoView
  BY <1>1 DEF ServeResize, TypeOK
<1>2. CASE views[c] # NoView
  <2>1. views' = [views EXCEPT ![c] = s] /\ ApplySize(views') /\ UNCHANGED <<inbox, sess, alt, nudge>>
    BY <1>2 DEF ServeResize
  <2>2. views' \in [Conns -> Size \cup {NoView}]
    BY <2>1 DEF TypeOK
  <2> QED BY <2>1, <2>2, ApplySizeKeeps DEF TypeOK
<1> QED BY <1>1, <1>2

LEMMA ServeStep == ASSUME IInv, NEW c \in Conns, Serve(c) PROVE IInv'
<1> DEFINE r == Head(wire[c])
<1>1. /\ wire' \in [Conns -> Seq(Request)] /\ r \in Request
      /\ UNCHANGED <<uiVars, bounds>>
  BY ServeType DEF IInv
<1>2. r.size \in Size
  BY <1>1 DEF Request
<1>3. CASE r.op = "Attach" /\ ServeAttach(c, r.size)
  BY <1>1, <1>2, <1>3, ServeAttachStep DEF IInv, TypeOK, uiVars, bounds
<1>4. CASE r.op = "Spawn" /\ ServeSpawn(c, r.size)
  BY <1>1, <1>2, <1>4, ServeSpawnStep DEF IInv, TypeOK, uiVars, bounds
<1>5. CASE r.op = "Resize" /\ ServeResize(c, r.size)
  BY <1>1, <1>2, <1>5, ServeResizeStep DEF IInv, TypeOK, uiVars, bounds, Shrunk
<1> QED BY <1>3, <1>4, <1>5 DEF Serve

LEMMA CloseServerStep == ASSUME IInv, NEW c \in Conns, CloseServer(c) PROVE IInv'
<1> USE DEF IInv
<1>1. views' \in [Conns -> Size \cup {NoView}]
  BY DEF CloseServer, TypeOK
<1>2. /\ size' \in Size /\ pty' \in Cols \X (Nat \ {0})
      /\ Smallest(views', size')
      /\ pty[2] = size[2] => pty'[2] = size'[2]
  BY <1>1, ApplySizeKeeps DEF CloseServer, TypeOK
<1> QED BY <1>1, <1>2 DEF CloseServer, TypeOK, uiVars, bounds, Shrunk

(* The steps of the session that change neither views nor size, or end it. *)
LEMMA SessionSteps ==
    ASSUME IInv, AskResync \/ SwitchScreen \/ Finish
    PROVE  IInv'
<1> USE DEF IInv
<1>1. CASE AskResync
  <2>1. inbox' \in Seq(Message)
    BY <1>1 DEF AskResync, TypeOK, Message
  <2>2. resyncs' \in 0 .. MaxResyncs
    BY <1>1, BoundsAssumption DEF AskResync, TypeOK
  <2> QED BY <1>1, <2>1, <2>2 DEF AskResync, TypeOK, uiVars, daemonVars, Smallest, Shrunk
<1>2. CASE SwitchScreen
  <2>1. alt' \in BOOLEAN
    BY <1>2, Zenon DEF SwitchScreen
  <2> QED BY <1>2, <2>1 DEF SwitchScreen, TypeOK, uiVars, bounds, Smallest, Shrunk
<1>3. CASE Finish
  <2>1. inbox' \in Seq(Message)
    BY <1>3 DEF Finish, TypeOK, Message
  <2>2. views' \in [Conns -> Size \cup {NoView}] /\ sess' = "exited"
    BY <1>3 DEF Finish
  <2> QED BY <1>3, <2>1, <2>2 DEF Finish, TypeOK, uiVars, bounds
<1> QED BY <1>1, <1>2, <1>3

(* A nudge thread touches the PTY only; it never leaves it without a row, and
   the step that restores it restores the session's rows. *)
LEMMA NudgeSteps ==
    ASSUME IInv, NEW n \in Nudges, NudgeRead(n) \/ NudgeShrink(n) \/ NudgeRestore(n)
    PROVE  IInv'
<1> USE DEF IInv
<1>1. size[1] \in Cols /\ size[2] \in Rows /\ size[2] \in Nat \ {0}
  BY SizesAssumption DEF TypeOK, Size
<1>2. CASE NudgeRead(n)
  <2>1. nudge' \in [Nudges -> NudgeState]
    BY <1>1, <1>2 DEF NudgeRead, TypeOK, NudgeState
  <2>2. Shrunk => Shrunk'
    BY <1>2 DEF NudgeRead, TypeOK, Shrunk, NudgeState
  <2> QED BY <1>2, <2>1, <2>2 DEF NudgeRead, TypeOK, uiVars, bounds, Smallest
<1>3. CASE NudgeShrink(n)
  <2>1. nudge[n] \in [phase : {"read", "shrunk"}, cols : Cols, rows : {r \in Rows : r > 1}]
    BY <1>3 DEF NudgeShrink, TypeOK, NudgeState, Idle, Started
  <2>2. nudge' \in [Nudges -> NudgeState] /\ Shrunk'
    BY <1>3, <2>1 DEF NudgeShrink, TypeOK, NudgeState, Shrunk
  <2>3. pty' \in Cols \X (Nat \ {0})
    BY <1>3, <2>1, SizesAssumption DEF NudgeShrink
  <2> QED BY <1>3, <2>2, <2>3 DEF NudgeShrink, TypeOK, uiVars, bounds, Smallest
<1>4. CASE NudgeRestore(n)
  <2>1. nudge[n] \in [phase : {"read", "shrunk"}, cols : Cols, rows : {r \in Rows : r > 1}]
    BY <1>4 DEF NudgeRestore, TypeOK, NudgeState, Idle, Started
  <2>2. nudge' \in [Nudges -> NudgeState]
    BY <1>4 DEF NudgeRestore, TypeOK, NudgeState
  <2>3. pty' \in Cols \X (Nat \ {0}) /\ pty'[2] = size[2]
    BY <1>1, <1>4, <2>1 DEF NudgeRestore
  <2> QED BY <1>4, <2>2, <2>3 DEF NudgeRestore, TypeOK, uiVars, bounds, Smallest
<1> QED BY <1>2, <1>3, <1>4

LEMMA NextIInv == IInv /\ [Next]_vars => IInv'
<1> SUFFICES ASSUME IInv, [Next]_vars PROVE IInv' OBVIOUS
<1>1. CASE UNCHANGED vars
  BY <1>1 DEF vars, uiVars, daemonVars, bounds, IInv, TypeOK, Smallest, Shrunk
<1>2. ASSUME NEW s \in Size, DrawFrame(s) PROVE IInv'
  BY <1>2, UiSteps
<1>3. viewSize \in Size
  BY DEF IInv, TypeOK
<1>4. CASE Receive \/ Connect \/ Disconnect
  BY <1>3, <1>4, UiSteps
<1>5. ASSUME NEW c \in Conns, Serve(c) \/ CloseServer(c) PROVE IInv'
  BY <1>5, ServeStep, CloseServerStep
<1>6. CASE AskResync \/ SwitchScreen \/ Finish
  BY <1>6, SessionSteps
<1>7. ASSUME NEW n \in Nudges, NudgeRead(n) \/ NudgeShrink(n) \/ NudgeRestore(n) PROVE IInv'
  BY <1>7, NudgeSteps
<1> QED BY <1>1, <1>2, <1>4, <1>5, <1>6, <1>7 DEF Next

LEMMA Inductive == Spec => []IInv
BY InitIInv, NextIInv, PTL DEF Spec

(* Every value stays in its range: in particular no nudge ever leaves the PTY
   without a row. *)
THEOREM TypeCorrect == Spec => []TypeOK
<1>1. IInv => TypeOK
  BY DEF IInv
<1> QED BY <1>1, Inductive, PTL

(* apply_size: the session's size is the smallest across the attached views. *)
THEOREM SmallestSize == Spec => []SizeIsSmallest
<1>1. IInv => SizeIsSmallest
  BY DEF IInv, SizeIsSmallest, Smallest, Attached
<1> QED BY <1>1, Inductive, PTL

(* nudge: however many run at once and whatever is resized meanwhile, the
   rows of the PTY are the session's once none has it shrunk. *)
THEOREM RestoredRows == Spec => []RowsRestored
<1>1. IInv => RowsRestored
  BY DEF IInv, RowsRestored, Shrunk
<1> QED BY <1>1, Inductive, PTL

(***************************************************************************)
(* The size of a running view reaches the session                          *)
(***************************************************************************)
Asks(q) == \E i \in DOMAIN q : q[i].op # "Resize"
Spawns(q) == \E i \in DOMAIN q : q[i].op = "Spawn"
Single(q) == q # <<>> /\ Tail(q) = <<>>
Answers(b) == \E i \in DOMAIN b : b[i] \in Answer
Missed(b) == \E i \in DOMAIN b : b[i] = "NoSuch"

(* Once b has been handled by a view of status st, it runs. *)
RunsAfter(b, st) ==
    \/ st = "Running" /\ \A j \in DOMAIN b : b[j] = "Resync"
    \/ \E i \in DOMAIN b : b[i] = "Live" /\ \A j \in DOMAIN b : i < j => b[j] = "Resync"

LEMMA AppendedPlaces ==
    ASSUME NEW Elem, NEW q \in Seq(Elem), NEW e \in Elem
    PROVE  /\ Append(q, e) \in Seq(Elem) /\ Append(q, e) # <<>>
           /\ DOMAIN Append(q, e) = DOMAIN q \cup {Len(q) + 1}
           /\ \A i \in DOMAIN q : Append(q, e)[i] = q[i] /\ i \in Nat /\ i < Len(q) + 1
           /\ Append(q, e)[Len(q) + 1] = e /\ Len(Append(q, e)) = Len(q) + 1
           /\ Len(q) + 1 \in Nat
           /\ q = <<>> => Tail(Append(q, e)) = <<>>
<1>1. /\ Append(q, e) \in Seq(Elem) /\ Append(q, e) # <<>> /\ Len(q) \in Nat
      /\ Len(Append(q, e)) = Len(q) + 1 /\ Append(q, e)[Len(q) + 1] = e
      /\ \A i \in 1 .. Len(q) : Append(q, e)[i] = q[i]
  OBVIOUS
<1>2. DOMAIN q = 1 .. Len(q) /\ DOMAIN Append(q, e) = 1 .. Len(q) + 1
  BY <1>1
<1>3. 1 .. Len(q) + 1 = 1 .. Len(q) \cup {Len(q) + 1}
  BY <1>1
<1>4. q = <<>> => Tail(Append(q, e)) = <<>>
  OBVIOUS
<1> QED BY <1>1, <1>2, <1>3, <1>4

LEMMA RequestSent ==
    ASSUME NEW q \in Seq(Request), NEW r \in Request
    PROVE  LET a == Append(q, r) IN
           /\ a \in Seq(Request) /\ a # <<>> /\ a[Len(a)] = r
           /\ Asks(a) <=> Asks(q) \/ r.op # "Resize"
           /\ Spawns(a) <=> Spawns(q) \/ r.op = "Spawn"
           /\ q = <<>> => Single(a)
<1> DEFINE a == Append(q, r)
<1>1. /\ a \in Seq(Request) /\ a # <<>> /\ DOMAIN a = DOMAIN q \cup {Len(q) + 1}
      /\ \A i \in DOMAIN q : a[i] = q[i]
      /\ a[Len(q) + 1] = r /\ Len(a) = Len(q) + 1
      /\ q = <<>> => Tail(a) = <<>>
  BY AppendedPlaces
<1> HIDE DEF a
<1>2. Asks(a) <=> Asks(q) \/ r.op # "Resize"
  BY <1>1 DEF Asks
<1>3. Spawns(a) <=> Spawns(q) \/ r.op = "Spawn"
  BY <1>1 DEF Spawns
<1>4. q = <<>> => Single(a)
  BY <1>1 DEF Single
<1> QED BY <1>1, <1>2, <1>3, <1>4 DEF a

LEMMA TakenPlaces ==
    ASSUME NEW Elem, NEW q \in Seq(Elem), q # <<>>
    PROVE  /\ Tail(q) \in Seq(Elem) /\ Head(q) \in Elem /\ Head(q) = q[1] /\ 1 \in DOMAIN q
           /\ \A j \in DOMAIN Tail(q) : j \in Nat /\ j + 1 \in DOMAIN q /\ Tail(q)[j] = q[j + 1]
           /\ \A i \in DOMAIN q : i = 1 \/ \E j \in DOMAIN Tail(q) : i = j + 1
           /\ Tail(q) # <<>> => Tail(q)[Len(Tail(q))] = q[Len(q)]
           /\ Tail(q) = <<>> => Head(q) = q[Len(q)]
<1>1. /\ Tail(q) \in Seq(Elem) /\ Head(q) \in Elem /\ Head(q) = q[1] /\ 1 \in DOMAIN q
      /\ \A j \in DOMAIN Tail(q) : j \in Nat /\ j + 1 \in DOMAIN q /\ Tail(q)[j] = q[j + 1]
  OBVIOUS
<1>2. \A i \in DOMAIN q : i # 1 => i - 1 \in DOMAIN Tail(q) /\ i = (i - 1) + 1
  OBVIOUS
<1>3. Tail(q) # <<>> => Tail(q)[Len(Tail(q))] = q[Len(q)]
  OBVIOUS
<1>4. Tail(q) = <<>> => Head(q) = q[Len(q)]
  <2> SUFFICES ASSUME Tail(q) = <<>> PROVE Len(q) = 1
    OBVIOUS
  <2>1. Len(Tail(q)) = Len(q) - 1 /\ Len(q) \in Nat
    BY HeadTailProperties, LenProperties
  <2>2. Len(Tail(q)) = 0
    BY EmptySeq
  <2> QED BY <2>1, <2>2
<1>5. \A i \in DOMAIN q : i = 1 \/ \E j \in DOMAIN Tail(q) : i = j + 1
  BY <1>2
<1> QED BY <1>1, <1>3, <1>4, <1>5

LEMMA RequestServed ==
    ASSUME NEW q \in Seq(Request), q # <<>>
    PROVE  /\ Tail(q) \in Seq(Request) /\ Head(q) \in Request
           /\ Asks(q) <=> Asks(Tail(q)) \/ Head(q).op # "Resize"
           /\ Spawns(q) <=> Spawns(Tail(q)) \/ Head(q).op = "Spawn"
           /\ Tail(q) # <<>> => Tail(q)[Len(Tail(q))] = q[Len(q)]
           /\ Tail(q) = <<>> => Head(q) = q[Len(q)]
<1> DEFINE t == Tail(q)
<1>1. /\ t \in Seq(Request) /\ Head(q) \in Request /\ Head(q) = q[1] /\ 1 \in DOMAIN q
      /\ \A j \in DOMAIN t : j + 1 \in DOMAIN q /\ t[j] = q[j + 1]
      /\ \A i \in DOMAIN q : i = 1 \/ \E j \in DOMAIN t : i = j + 1
      /\ t # <<>> => t[Len(t)] = q[Len(q)]
      /\ t = <<>> => Head(q) = q[Len(q)]
  BY TakenPlaces
<1> HIDE DEF t
<1>2. Asks(q) <=> Asks(t) \/ Head(q).op # "Resize"
  BY <1>1 DEF Asks
<1>3. Spawns(q) <=> Spawns(t) \/ Head(q).op = "Spawn"
  BY <1>1 DEF Spawns
<1> QED BY <1>1, <1>2, <1>3 DEF t

LEMMA MessageSent ==
    ASSUME NEW b \in Seq(Message), NEW m \in Message, NEW st
    PROVE  LET a == Append(b, m) IN
           /\ a \in Seq(Message) /\ a # <<>>
           /\ Answers(a) <=> Answers(b) \/ m \in Answer
           /\ Missed(a) <=> Missed(b) \/ m = "NoSuch"
           /\ RunsAfter(a, st) => m = "Live" \/ (m = "Resync" /\ RunsAfter(b, st))
<1> DEFINE a == Append(b, m)
           n == Len(b) + 1
<1>1. /\ a \in Seq(Message) /\ a # <<>> /\ DOMAIN a = DOMAIN b \cup {n}
      /\ \A i \in DOMAIN b : a[i] = b[i] /\ i \in Nat /\ i < n
      /\ a[n] = m /\ n \in Nat
  BY AppendedPlaces
<1> HIDE DEF a, n
<1>2. Answers(a) <=> Answers(b) \/ m \in Answer
  BY <1>1 DEF Answers
<1>3. Missed(a) <=> Missed(b) \/ m = "NoSuch"
  BY <1>1 DEF Missed
<1>4. ASSUME RunsAfter(a, st), m # "Live" PROVE m = "Resync" /\ RunsAfter(b, st)
  <2>1. CASE st = "Running" /\ \A j \in DOMAIN a : a[j] = "Resync"
    BY <1>1, <2>1 DEF RunsAfter
  <2>2. ASSUME NEW i \in DOMAIN a, a[i] = "Live", \A j \in DOMAIN a : i < j => a[j] = "Resync"
        PROVE  m = "Resync" /\ RunsAfter(b, st)
    <3>1. i \in DOMAIN b
      BY <1>1, <1>4, <2>2
    <3>2. a[n] = "Resync"
      BY <1>1, <2>2, <3>1
    <3> QED BY <1>1, <2>2, <3>1, <3>2 DEF RunsAfter
  <2> QED BY <1>4, <2>1, <2>2 DEF RunsAfter
<1> QED BY <1>1, <1>2, <1>3, <1>4 DEF a

LEMMA MessageTaken ==
    ASSUME NEW b \in Seq(Message), b # <<>>, NEW st, NEW nx
    PROVE  /\ Tail(b) \in Seq(Message) /\ Head(b) \in Message
           /\ Answers(b) <=> Answers(Tail(b)) \/ Head(b) \in Answer
           /\ Missed(b) <=> Missed(Tail(b)) \/ Head(b) = "NoSuch"
           /\ RunsAfter(Tail(b), nx) =>
                 RunsAfter(b, st) \/ (nx = "Running" /\ ~(Head(b) = "Live") /\ ~(Head(b) = "Resync" /\ st = nx))
<1> DEFINE t == Tail(b)
           m == Head(b)
<1>1. /\ t \in Seq(Message) /\ m \in Message /\ m = b[1] /\ 1 \in DOMAIN b
      /\ \A j \in DOMAIN t : j \in Nat /\ j + 1 \in DOMAIN b /\ t[j] = b[j + 1]
      /\ \A i \in DOMAIN b : i = 1 \/ \E j \in DOMAIN t : i = j + 1
  BY TakenPlaces
<1> HIDE DEF t, m
<1>2. Answers(b) <=> Answers(t) \/ m \in Answer
  BY <1>1 DEF Answers
<1>3. Missed(b) <=> Missed(t) \/ m = "NoSuch"
  <2>1. Missed(t) \/ m = "NoSuch" => Missed(b)
    BY <1>1 DEF Missed
  <2>2. Missed(b) => Missed(t) \/ m = "NoSuch"
    BY <1>1 DEF Missed
  <2> QED BY <2>1, <2>2
<1>4. ASSUME NEW i \in DOMAIN t, t[i] = "Live", \A j \in DOMAIN t : i < j => t[j] = "Resync"
      PROVE  RunsAfter(b, st)
  <2>1. i + 1 \in DOMAIN b /\ b[i + 1] = "Live"
    BY <1>1, <1>4
  <2>2. ASSUME NEW k \in DOMAIN b, i + 1 < k PROVE b[k] = "Resync"
    <3>1. PICK j \in DOMAIN t : k = j + 1
      BY <1>1, <1>4, <2>2
    <3>2. i < j
      BY <1>1, <2>2, <3>1
    <3> QED BY <1>1, <1>4, <3>1, <3>2
  <2> QED BY <2>1, <2>2 DEF RunsAfter
<1>5. ASSUME nx = "Running", \A j \in DOMAIN t : t[j] = "Resync",
             m = "Live" \/ (m = "Resync" /\ st = nx)
      PROVE  RunsAfter(b, st)
  <2>1. \A k \in DOMAIN b : k # 1 => b[k] = "Resync"
    BY <1>1, <1>5
  <2>2. CASE m = "Live"
    <3>1. \A k \in DOMAIN b : 1 < k => b[k] = "Resync"
      BY <2>1
    <3> QED BY <1>1, <2>2, <3>1 DEF RunsAfter
  <2>3. CASE m = "Resync" /\ st = nx
    BY <1>1, <1>5, <2>1, <2>3 DEF RunsAfter
  <2> QED BY <1>5, <2>2, <2>3
<1>6. RunsAfter(t, nx) => RunsAfter(b, st) \/ (nx = "Running" /\ ~(m = "Live") /\ ~(m = "Resync" /\ st = nx))
  BY <1>4, <1>5 DEF RunsAfter
<1> QED BY <1>1, <1>2, <1>3, <1>6 DEF t, m

(* One request in flight and nothing behind it, or the refusal of one. *)
Alone(q, b) ==
    \/ Single(q) /\ b = <<>>
    \/ q = <<>> /\ Missed(b) /\ Tail(b) = <<>>

(* The last size sent, or the one attached once all was served, is s. *)
Sized(q, v, s) ==
    /\ q # <<>> => q[Len(q)].size = s
    /\ q = <<>> /\ v # NoView => v = s

(* What the requests q and the messages b in flight, the size v attached, the
   status st, the mark p of a pending request and the size s drawn have to do
   with one another on the connection in use. *)
Good(q, b, v, st, p, s) ==
    /\ v = NoView => ~RunsAfter(b, st)
    /\ p = TRUE => Asks(q) \/ Answers(b)
    /\ Missed(b) \/ Spawns(q) => st = "Connecting" /\ p = TRUE /\ v = NoView /\ Alone(q, b)
    /\ st = "Running" \/ Asks(q) \/ Answers(b) => Sized(q, v, s)

(* Before the first spawn there is the attach, or its refusal, or nothing. *)
Fresh(q, b, p) == IF p = TRUE THEN Alone(q, b) ELSE q = <<>> /\ b = <<>>

LinkInv ==
    /\ conn = NoConn => inbox = <<>>
    /\ \A d \in Conns : d > opened => views[d] = NoView /\ wire[d] = <<>>
    /\ conn # NoConn => conn <= opened
    /\ sess # "live" => \A d \in Conns : views[d] = NoView
    /\ sess = "none" => status = "Connecting"
    /\ conn # NoConn => Good(wire[conn], inbox, views[conn], status, pending, viewSize)
    /\ conn # NoConn /\ sess = "none" => Fresh(wire[conn], inbox, pending)

LEMMA NothingInFlight ==
    /\ ~Asks(<<>>) /\ ~Spawns(<<>>) /\ ~Answers(<<>>) /\ ~Missed(<<>>)
    /\ \A st : RunsAfter(<<>>, st) => st = "Running"
BY DEF Asks, Spawns, Answers, Missed, RunsAfter

(* An attach of the view, at the size it is drawn at. *)
LEMMA AttachSent ==
    ASSUME NEW q \in Seq(Request), NEW b, NEW v, NEW st, NEW n \in Size,
           ~Missed(b), ~Spawns(q), v = NoView => ~RunsAfter(b, st)
    PROVE  Good(Append(q, [op |-> "Attach", size |-> n]), b, v, st, TRUE, n)
<1> DEFINE r == [op |-> "Attach", size |-> n]
           a == Append(q, r)
<1>1. r \in Request /\ r.op = "Attach" /\ r.size = n
  BY DEF Request
<1>2. a # <<>> /\ a[Len(a)].size = n /\ Asks(a) /\ ~Spawns(a)
  BY <1>1, RequestSent
<1> HIDE DEF a
<1>3. Good(a, b, v, st, TRUE, n)
  BY <1>2 DEF Good, Sized
<1> QED BY <1>3 DEF a

(* The answer to a refusal is a spawn, and nothing else is in flight. *)
LEMMA SpawnSent ==
    ASSUME NEW n \in Size, NEW v, NEW st, v = NoView, st = "Connecting"
    PROVE  LET a == Append(<<>>, [op |-> "Spawn", size |-> n]) IN
           Good(a, <<>>, v, st, TRUE, n) /\ Alone(a, <<>>)
<1> DEFINE r == [op |-> "Spawn", size |-> n]
           q == <<>>
           a == Append(q, r)
<1>1. r \in Request /\ r.op = "Spawn" /\ r.size = n /\ q \in Seq(Request)
  BY DEF Request
<1>2. a # <<>> /\ a[Len(a)].size = n /\ Asks(a) /\ Single(a)
  BY <1>1, RequestSent
<1>3. ~RunsAfter(<<>>, st)
  BY NothingInFlight
<1> HIDE DEF a
<1>4. Alone(a, <<>>)
  BY <1>2 DEF Alone
<1>5. Good(a, <<>>, v, st, TRUE, n)
  BY <1>2, <1>3, <1>4 DEF Good, Sized
<1> QED BY <1>4, <1>5 DEF a

(* A running view posts each new size. *)
LEMMA ResizeSent ==
    ASSUME NEW q \in Seq(Request), NEW b, NEW v, NEW p, NEW s, NEW n \in Size,
           Good(q, b, v, "Running", p, s)
    PROVE  Good(Append(q, [op |-> "Resize", size |-> n]), b, v, "Running", p, n)
<1> DEFINE r == [op |-> "Resize", size |-> n]
           a == Append(q, r)
<1>1. r \in Request /\ r.op = "Resize" /\ r.size = n
  BY DEF Request
<1>2. /\ a # <<>> /\ a[Len(a)].size = n
      /\ Asks(a) <=> Asks(q)
      /\ Spawns(a) <=> Spawns(q)
  BY <1>1, RequestSent
<1> HIDE DEF a
<1>3. Good(a, b, v, "Running", p, n)
  BY <1>2 DEF Good, Sized
<1> QED BY <1>3 DEF a

(* A frame that sends nothing and draws at a new size finds the view waiting
   for nothing: this is what CalmConnect asks. *)
LEMMA FrameQuiet ==
    ASSUME NEW q, NEW b, NEW v, NEW st, NEW p, NEW s, NEW n,
           Good(q, b, v, st, p, s), st # "Running", ~Asks(q), ~Answers(b)
    PROVE  Good(q, b, v, st, p, n)
BY DEF Good

(* A message that leaves nothing to spawn: the answers but NoSuch, and the
   news of the end. *)
LEMMA MessageHandled ==
    ASSUME NEW q \in Seq(Request), NEW b \in Seq(Message), b # <<>>, NEW v, NEW st, NEW p,
           NEW s, NEW nx, NEW np, Good(q, b, v, st, p, s), Head(b) # "NoSuch",
           np = TRUE => p = TRUE /\ Head(b) \notin Answer,
           nx = "Running" => Head(b) = "Live"
    PROVE  Good(q, Tail(b), v, nx, np, s)
<1> DEFINE t == Tail(b)
           m == Head(b)
<1>1. /\ Answers(b) <=> Answers(t) \/ m \in Answer
      /\ Missed(b) <=> Missed(t) \/ m = "NoSuch"
      /\ RunsAfter(t, nx) => RunsAfter(b, st)
  BY MessageTaken
<1>2. Alone(q, b) => t = <<>>
  BY DEF Alone
<1>3. ~(Missed(b) \/ Spawns(q))
  <2> SUFFICES ASSUME Missed(b) \/ Spawns(q) PROVE FALSE
    OBVIOUS
  <2>1. Alone(q, b)
    BY DEF Good
  <2>2. q = <<>> /\ Missed(b) /\ t = <<>>
    BY <2>1 DEF Alone
  <2> QED BY <1>1, <2>2, NothingInFlight
<1>4. m = "Live" => m \in Answer
  BY DEF Answer
<1> HIDE DEF t, m
<1>5. ~(Missed(t) \/ Spawns(q))
  BY <1>1, <1>3
<1>6. v = NoView => ~RunsAfter(t, nx)
  BY <1>1 DEF Good
<1>7. np = TRUE => Asks(q) \/ Answers(t)
  BY <1>1 DEF Good, t, m
<1>8. nx = "Running" \/ Asks(q) \/ Answers(t) => Sized(q, v, s)
  BY <1>1, <1>4 DEF Good, t, m
<1> QED BY <1>5, <1>6, <1>7, <1>8 DEF Good, t

(* The daemon's reply to an attach or a spawn that is served. *)
LEMMA Served ==
    ASSUME NEW q \in Seq(Request), q # <<>>, NEW b \in Seq(Message), NEW v, NEW st, NEW p,
           NEW s, NEW m \in Answer, NEW w,
           Head(q).op # "Resize", Good(q, b, v, st, p, s),
           m = "Live" => w = Head(q).size /\ w # NoView,
           m # "Live" => w = NoView,
           m = "NoSuch" => st = "Connecting" /\ p = TRUE /\ Alone(q, b)
    PROVE  /\ Good(Tail(q), Append(b, m), w, st, p, s)
           /\ m = "NoSuch" => Alone(Tail(q), Append(b, m))
<1> DEFINE t == Tail(q)
           a == Append(b, m)
           r == Head(q)
<1>0. m \in Message
  BY DEF Answer, Message
<1>1. /\ Asks(q)
      /\ Spawns(t) => Spawns(q)
      /\ t # <<>> => t[Len(t)] = q[Len(q)]
      /\ t = <<>> => r = q[Len(q)]
  BY RequestServed
<1>2. /\ Answers(a)
      /\ Missed(a) <=> Missed(b) \/ m = "NoSuch"
      /\ RunsAfter(a, st) => m = "Live" \/ m = "Resync"
      /\ b = <<>> => Tail(a) = <<>>
  BY <1>0, MessageSent, AppendedPlaces
<1>3. Alone(q, b) => t = <<>> /\ b = <<>>
  BY DEF Alone, Single
<1>4. Sized(q, v, s) /\ q # <<>>
  BY <1>1 DEF Good
<1>5. m # "Resync"
  BY DEF Answer
<1>6. Missed(b) \/ Spawns(t) => FALSE
  <2> SUFFICES ASSUME Missed(b) \/ Spawns(t) PROVE FALSE
    OBVIOUS
  <2>1. t = <<>> /\ b = <<>>
    BY <1>1, <1>3 DEF Good
  <2> QED BY <2>1, NothingInFlight
<1> HIDE DEF t, a, r
<1>7. Sized(t, w, s)
  BY <1>1, <1>4 DEF Sized, r
<1>8. m = "NoSuch" => Alone(t, a)
  BY <1>2, <1>3 DEF Alone
<1>9. Good(t, a, w, st, p, s)
  BY <1>2, <1>5, <1>6, <1>7, <1>8 DEF Good
<1> QED BY <1>8, <1>9 DEF t, a

(* A resize is served: the view takes its size, if it is attached. *)
LEMMA ResizeServed ==
    ASSUME NEW q \in Seq(Request), q # <<>>, NEW b, NEW v, NEW st, NEW p, NEW s, NEW w,
           Head(q).op = "Resize", Good(q, b, v, st, p, s),
           v = NoView => w = NoView,
           v # NoView => w = Head(q).size /\ w # NoView
    PROVE  Good(Tail(q), b, w, st, p, s)
<1> DEFINE t == Tail(q)
           r == Head(q)
<1>1. /\ Asks(t) <=> Asks(q)
      /\ Spawns(t) <=> Spawns(q)
      /\ t # <<>> => t[Len(t)] = q[Len(q)]
      /\ t = <<>> => r = q[Len(q)]
  BY RequestServed
<1>2. Alone(q, b) => t = <<>> /\ b = <<>>
  BY DEF Alone, Single
<1>3. Missed(b) \/ Spawns(t) => FALSE
  <2> SUFFICES ASSUME Missed(b) \/ Spawns(t) PROVE FALSE
    OBVIOUS
  <2>1. t = <<>> /\ b = <<>>
    BY <1>1, <1>2 DEF Good
  <2> QED BY <2>1, NothingInFlight
<1> HIDE DEF t, r
<1>4. Sized(q, v, s) => Sized(t, w, s)
  BY <1>1 DEF Sized, r
<1>5. Good(t, b, w, st, p, s)
  BY <1>1, <1>3, <1>4 DEF Good
<1> QED BY <1>5 DEF t

(* News for an attached view that answers nothing: a resync, or the end of
   the shell, which detaches it. *)
LEMMA NewsSent ==
    ASSUME NEW q \in Seq(Request), NEW b \in Seq(Message), NEW v, v # NoView, NEW st, NEW p,
           NEW s, NEW m \in {"Resync", "Exited"}, NEW w,
           Good(q, b, v, st, p, s), m = "Resync" => w = v, m = "Exited" => w = NoView
    PROVE  Good(q, Append(b, m), w, st, p, s)
<1> DEFINE a == Append(b, m)
<1>1. m \in Message /\ m \notin Answer /\ m # "NoSuch" /\ m # "Live"
  BY DEF Message, Answer
<1>2. /\ Answers(a) <=> Answers(b)
      /\ Missed(a) <=> Missed(b)
      /\ RunsAfter(a, st) => m = "Resync"
  BY <1>1, MessageSent
<1> HIDE DEF a
<1>3. Sized(q, v, s) => Sized(q, w, s)
  BY DEF Sized
<1>4. Good(q, a, w, st, p, s)
  BY <1>2, <1>3 DEF Good
<1> QED BY <1>4 DEF a

(* Unanswered, as seen from the connection in use. *)
LEMMA UnansweredMeans ==
    conn # NoConn => (Unanswered <=> Asks(wire[conn]) \/ Answers(inbox))
BY DEF Unanswered, Asks, Answers

LEMMA OnlyThisWire ==
    ASSUME TypeOK, conn # NoConn, NEW op, NEW s, Send(op, s)
    PROVE  /\ conn \in Conns /\ wire[conn] \in Seq(Request) /\ inbox \in Seq(Message)
           /\ wire'[conn] = Append(wire[conn], [op |-> op, size |-> s])
           /\ \A d \in Conns : d # conn => wire'[d] = wire[d]
BY DEF TypeOK, Send

LEMMA InitLink == Init => LinkInv
BY DEF Init, LinkInv

(* A step of the UI over the connection in use. *)
LEMMA UiLink ==
    ASSUME LinkInv, conn # NoConn, conn \in Conns,
           UNCHANGED <<conn, opened, sess, views>>,
           opened \in Nat, \A d \in Conns : d # conn => wire'[d] = wire[d],
           sess = "none" => status' = "Connecting",
           Good(wire'[conn], inbox', views[conn], status', pending', viewSize'),
           sess = "none" => Fresh(wire'[conn], inbox', pending')
    PROVE  LinkInv'
<1>1. \A d \in Conns : d > opened => views'[d] = NoView /\ wire'[d] = <<>>
  BY DEF LinkInv, Conns
<1>2. /\ conn' = NoConn => inbox' = <<>>
      /\ \A d \in Conns : d > opened' => views'[d] = NoView /\ wire'[d] = <<>>
      /\ conn' # NoConn => conn' <= opened'
      /\ sess' # "live" => \A d \in Conns : views'[d] = NoView
      /\ sess' = "none" => status' = "Connecting"
  BY <1>1 DEF LinkInv
<1>3. /\ conn' # NoConn => Good(wire'[conn'], inbox', views'[conn'], status', pending', viewSize')
      /\ conn' # NoConn /\ sess' = "none" => Fresh(wire'[conn'], inbox', pending')
  OBVIOUS
<1> QED BY <1>2, <1>3, Zenon DEF LinkInv

(* The facts of a frame that draws at s, one branch at a time. *)
LEMMA DrawLink ==
    ASSUME CalmConnect = TRUE, TypeOK, LinkInv, NEW s \in Size, DrawFrame(s)
    PROVE  LinkInv'
<1>1. /\ viewSize' = s /\ UNCHANGED <<status, conn, inbox, sess, views, opened>>
      /\ s # viewSize => status = "Running" \/ ~Unanswered
  BY DEF DrawFrame, daemonVars
<1>2. CASE conn = NoConn
  <2>1. UNCHANGED <<wire, pending>>
    BY <1>2 DEF DrawFrame
  <2> QED BY <1>1, <1>2, <2>1 DEF LinkInv
<1>3. CASE conn # NoConn
  <2> DEFINE q == wire[conn]
             G == Good(q, inbox, views[conn], status, pending, viewSize)
  <2>1. conn \in Conns /\ q \in Seq(Request) /\ inbox \in Seq(Message)
    BY <1>3 DEF TypeOK
  <2>2. G /\ opened \in Nat
    BY <1>3, BoundsAssumption DEF LinkInv, TypeOK
  <2>3. CASE status = "Running" /\ Send("Resize", s) /\ UNCHANGED pending
    <3>1. Good(wire'[conn], inbox, views[conn], status, pending, s)
      BY <1>3, <2>1, <2>2, <2>3, OnlyThisWire, ResizeSent
    <3>2. sess # "none"
      BY <2>3 DEF LinkInv
    <3>3. \A d \in Conns : d # conn => wire'[d] = wire[d]
      BY <1>3, <2>3, OnlyThisWire
    <3> HIDE DEF q, G
    <3> QED BY <1>1, <1>3, <2>1, <2>2, <2>3, <3>1, <3>2, <3>3, UiLink
  <2>4. CASE status = "Connecting" /\ ~pending /\ Send("Attach", s) /\ pending' = TRUE
    <3>1. pending # TRUE
      BY <2>4
    <3>2. ~Missed(inbox) /\ ~Spawns(q) /\ (views[conn] = NoView => ~RunsAfter(inbox, status))
      BY <2>2, <3>1 DEF Good
    <3>3. wire'[conn] = Append(q, [op |-> "Attach", size |-> s])
      BY <1>3, <2>4, OnlyThisWire
    <3>4. Good(wire'[conn], inbox, views[conn], status, TRUE, s)
      BY <2>1, <3>2, <3>3, AttachSent
    <3>5. sess = "none" => q = <<>> /\ inbox = <<>>
      BY <1>3, <3>1 DEF LinkInv, Fresh
    <3>6. q = <<>> => Single(wire'[conn])
      <4>1. [op |-> "Attach", size |-> s] \in Request
        BY DEF Request
      <4> QED BY <2>1, <3>3, <4>1, RequestSent
    <3>7. sess = "none" => Fresh(wire'[conn], inbox, TRUE)
      BY <3>5, <3>6 DEF Fresh, Alone
    <3>8. \A d \in Conns : d # conn => wire'[d] = wire[d]
      BY <1>3, <2>4, OnlyThisWire
    <3> HIDE DEF q, G
    <3> QED BY <1>1, <1>3, <2>1, <2>2, <2>4, <3>4, <3>7, <3>8, UiLink
  <2>5. CASE /\ \/ status = "Running" /\ s = viewSize
                \/ status = "Connecting" /\ pending
                \/ status = "Exited"
             /\ UNCHANGED <<wire, pending>>
    <3>0. sess = "none" => status = "Connecting" /\ Fresh(q, inbox, pending)
      BY <1>3 DEF LinkInv
    <3>1. CASE s = viewSize
      BY <1>1, <1>3, <2>1, <2>2, <2>5, <3>0, <3>1, UiLink
    <3>2. CASE s # viewSize
      <4>1. status # "Running"
        BY <2>5, <3>2
      <4>2. ~Asks(q) /\ ~Answers(inbox)
        BY <1>1, <1>3, <3>2, <4>1, UnansweredMeans
      <4>3. Good(q, inbox, views[conn], status, pending, s)
        BY <2>2, <4>1, <4>2, FrameQuiet
      <4> QED BY <1>1, <1>3, <2>1, <2>2, <2>5, <3>0, <4>3, UiLink
    <3> QED BY <3>1, <3>2
  <2> QED BY <1>3, <2>3, <2>4, <2>5 DEF DrawFrame
<1> QED BY <1>2, <1>3

LEMMA ReceiveLink == ASSUME TypeOK, LinkInv, Receive PROVE LinkInv'
<1> DEFINE q == wire[conn]
           b == inbox
           m == Head(b)
           v == views[conn]
<1>1. /\ conn # NoConn /\ conn \in Conns /\ q \in Seq(Request)
      /\ b \in Seq(Message) /\ b # <<>> /\ m \in Message /\ inbox' = Tail(b)
      /\ opened \in Nat /\ viewSize \in Size
      /\ UNCHANGED <<conn, opened, sess, views, viewSize>>
  BY BoundsAssumption DEF LinkInv, TypeOK, Receive, daemonVars, bounds
<1>2. Good(q, b, v, status, pending, viewSize)
  BY <1>1 DEF LinkInv
<1>3. /\ Answers(b) <=> Answers(Tail(b)) \/ m \in Answer
      /\ Missed(b) <=> Missed(Tail(b)) \/ m = "NoSuch"
  BY <1>1, MessageTaken
<1>4. ASSUME Missed(b) \/ Spawns(q)
      PROVE  q = <<>> /\ Tail(b) = <<>> /\ m = "NoSuch" /\ v = NoView
  <2>1. Alone(q, b) /\ v = NoView
    BY <1>2, <1>4 DEF Good
  <2>2. q = <<>> /\ Missed(b) /\ Tail(b) = <<>>
    BY <1>1, <2>1 DEF Alone
  <2> QED BY <1>3, <2>1, <2>2, NothingInFlight
<1>5. sess = "none" => status = "Connecting" /\ m = "NoSuch"
  <2> SUFFICES ASSUME sess = "none" PROVE status = "Connecting" /\ m = "NoSuch"
    OBVIOUS
  <2>1. status = "Connecting" /\ Fresh(q, b, pending)
    BY <1>1 DEF LinkInv
  <2>2. Alone(q, b)
    BY <1>1, <2>1 DEF Fresh
  <2>3. Missed(b)
    BY <1>1, <2>2 DEF Alone
  <2> QED BY <1>4, <2>1, <2>3
<1> HIDE DEF q, b, m, v
<1>6. ASSUME m # "NoSuch", UNCHANGED wire, Good(q, Tail(b), v, status', pending', viewSize)
      PROVE  LinkInv'
  BY <1>1, <1>5, <1>6, UiLink DEF q, b, v
<1>7. CASE \/ m = "Live" /\ status' = "Running" /\ pending' = FALSE /\ UNCHANGED wire
           \/ m = "Dead" /\ status' = "Exited" /\ pending' = FALSE /\ UNCHANGED wire
           \/ m = "Refused" /\ status' = "Failed" /\ pending' = FALSE /\ UNCHANGED wire
  <2>1. Good(q, Tail(b), v, status', pending', viewSize)
    BY <1>1, <1>2, <1>7, MessageHandled DEF m
  <2> QED BY <1>6, <1>7, <2>1
<1>8. CASE m = "Exited" /\ status' = "Exited" /\ UNCHANGED <<pending, wire>>
  <2>1. m \notin Answer
    BY <1>8 DEF Answer
  <2>2. Good(q, Tail(b), v, status', pending', viewSize)
    BY <1>1, <1>2, <1>8, <2>1, MessageHandled DEF m
  <2> QED BY <1>6, <1>8, <2>2
<1>9. CASE /\ m = "NoSuch" /\ Send("Spawn", viewSize)
           /\ status' = "Connecting" /\ pending' = TRUE
  <2>1. q = <<>> /\ Tail(b) = <<>> /\ v = NoView
    BY <1>3, <1>4, <1>9
  <2>2. wire'[conn] = Append(<<>>, [op |-> "Spawn", size |-> viewSize])
    BY <1>1, <1>9, <2>1, OnlyThisWire DEF q
  <2>3. /\ Good(wire'[conn], <<>>, v, "Connecting", TRUE, viewSize)
        /\ Alone(wire'[conn], <<>>)
    BY <1>1, <2>1, <2>2, SpawnSent
  <2>4. Fresh(wire'[conn], inbox', pending')
    BY <1>1, <1>9, <2>1, <2>3 DEF Fresh
  <2>5. Good(wire'[conn], inbox', v, status', pending', viewSize')
    BY <1>1, <1>9, <2>1, <2>3
  <2>6. \A d \in Conns : d # conn => wire'[d] = wire[d]
    BY <1>1, <1>9, OnlyThisWire
  <2> QED BY <1>1, <1>9, <2>4, <2>5, <2>6, UiLink DEF v
<1>10. CASE m = "Resync" /\ Send("Attach", viewSize) /\ pending' = TRUE /\ UNCHANGED status
  <2>1. ~Missed(Tail(b)) /\ ~Spawns(q)
    BY <1>3, <1>4, <1>10
  <2>2. v = NoView => ~RunsAfter(Tail(b), status)
    BY <1>1, <1>2, <1>10, MessageTaken DEF Good, m
  <2>3. wire'[conn] = Append(q, [op |-> "Attach", size |-> viewSize])
    BY <1>1, <1>10, OnlyThisWire DEF q
  <2>4. Good(wire'[conn], Tail(b), v, status, TRUE, viewSize)
    BY <1>1, <2>1, <2>2, <2>3, AttachSent
  <2>5. \A d \in Conns : d # conn => wire'[d] = wire[d]
    BY <1>1, <1>10, OnlyThisWire
  <2> QED BY <1>1, <1>5, <1>10, <2>4, <2>5, UiLink DEF v
<1> QED BY <1>7, <1>8, <1>9, <1>10 DEF Receive, m, b

(* A connection that has just been opened carries nothing yet. *)
LEMMA ConnectLink == ASSUME TypeOK, LinkInv, Connect PROVE LinkInv'
<1>1. /\ conn = NoConn /\ conn' = opened + 1 /\ opened' = opened + 1 /\ pending' = FALSE
      /\ status' = IF status = "Exited" THEN status ELSE "Connecting"
      /\ UNCHANGED <<viewSize, wire, inbox, sess, views>>
      /\ opened \in Nat /\ conn' \in Conns /\ conn' # NoConn /\ conn' > opened
  BY BoundsAssumption DEF Connect, TypeOK, Conns, NoConn, daemonVars
<1>2. wire[conn'] = <<>> /\ inbox = <<>> /\ views[conn'] = NoView
  BY <1>1 DEF LinkInv
<1>3. Good(<<>>, <<>>, NoView, status', FALSE, viewSize)
  BY <1>1, NothingInFlight DEF Good, Sized
<1>4. Good(wire'[conn'], inbox', views'[conn'], status', pending', viewSize')
  BY <1>1, <1>2, <1>3
<1>5. Fresh(wire'[conn'], inbox', pending')
  BY <1>1, <1>2 DEF Fresh
<1>6. \A d \in Conns : d > opened' => views'[d] = NoView /\ wire'[d] = <<>>
  <2>1. \A d \in Conns : d > opened' => d > opened
    BY <1>1 DEF Conns
  <2> QED BY <1>1, <2>1 DEF LinkInv
<1>7. /\ sess' # "live" => \A d \in Conns : views'[d] = NoView
      /\ sess' = "none" => status' = "Connecting"
  BY <1>1 DEF LinkInv
<1>8. conn' <= opened'
  BY <1>1
<1> QED BY <1>1, <1>4, <1>5, <1>6, <1>7, <1>8, Zenon DEF LinkInv

LEMMA DisconnectLink == ASSUME TypeOK, LinkInv, Disconnect PROVE LinkInv'
<1>1. /\ conn # NoConn /\ conn \in Conns /\ conn <= opened /\ opened \in Nat
      /\ conn' = NoConn /\ inbox' = <<>>
      /\ UNCHANGED <<status, sess, views, opened>>
  BY BoundsAssumption DEF Disconnect, TypeOK, LinkInv, daemonVars, bounds
<1>2. \A d \in Conns : d # conn => wire'[d] = wire[d]
  BY DEF Disconnect, TypeOK
<1>3. \A d \in Conns : d > opened => d # conn
  BY <1>1 DEF Conns
<1> QED BY <1>1, <1>2, <1>3 DEF LinkInv

(* A step of the daemon, which leaves the UI's own state alone. *)
LEMMA DaemonLink ==
    ASSUME LinkInv, UNCHANGED <<uiVars, opened>>,
           conn = NoConn => inbox' = inbox,
           \A d \in Conns : d > opened => views'[d] = NoView /\ wire'[d] = <<>>,
           sess' # "live" => \A d \in Conns : views'[d] = NoView,
           sess' = "none" => sess = "none",
           conn # NoConn => Good(wire'[conn], inbox', views'[conn], status, pending, viewSize),
           conn # NoConn /\ sess' = "none" => Fresh(wire'[conn], inbox', pending)
    PROVE  LinkInv'
<1>1. status' = status /\ viewSize' = viewSize /\ pending' = pending /\ conn' = conn
      /\ opened' = opened
  BY DEF uiVars
<1>2. /\ conn' = NoConn => inbox' = <<>>
      /\ \A d \in Conns : d > opened' => views'[d] = NoView /\ wire'[d] = <<>>
      /\ conn' # NoConn => conn' <= opened'
      /\ sess' # "live" => \A d \in Conns : views'[d] = NoView
      /\ sess' = "none" => status' = "Connecting"
  BY <1>1 DEF LinkInv
<1>3. /\ conn' # NoConn => Good(wire'[conn'], inbox', views'[conn'], status', pending', viewSize')
      /\ conn' # NoConn /\ sess' = "none" => Fresh(wire'[conn'], inbox', pending')
  BY <1>1
<1> QED BY <1>2, <1>3, Zenon DEF LinkInv

(* A request of an old connection, which its thread is still draining. *)
LEMMA ServeOther ==
    ASSUME TypeOK, LinkInv, NEW c \in Conns, c # conn, Serve(c)
    PROVE  LinkInv'
<1> DEFINE r == Head(wire[c])
<1>1. /\ UNCHANGED <<uiVars, opened>> /\ wire[c] # <<>> /\ r.size \in Size
      /\ wire' = [wire EXCEPT ![c] = Tail(@)] /\ conn \in Conns \cup {NoConn}
      /\ wire \in [Conns -> Seq(Request)] /\ views \in [Conns -> Size \cup {NoView}]
  BY ServeType DEF Serve, TypeOK, bounds, Request
<1>2. \A d \in Conns : d > opened => views[d] = NoView /\ wire[d] = <<>> /\ d # c
  BY <1>1 DEF LinkInv
<1> HIDE DEF r
<1>3. /\ inbox' = inbox
      /\ \A d \in Conns : d # c => views'[d] = views[d] \/ (sess # "live" /\ views'[d] = NoView)
      /\ sess' # "live" => views' = views /\ sess' = sess
  <2>1. CASE ServeAttach(c, r.size)
    BY <1>1, <2>1 DEF ServeAttach, Reply, daemonVars
  <2>2. CASE ServeSpawn(c, r.size)
    BY <1>1, <2>2 DEF ServeSpawn, Reply, daemonVars
  <2>3. CASE ServeResize(c, r.size)
    <3>1. sess # "live" => views[c] = NoView
      BY DEF LinkInv
    <3> QED BY <1>1, <2>3, <3>1 DEF ServeResize
  <2> QED BY <2>1, <2>2, <2>3 DEF Serve, r
<1>4. \A d \in Conns : d # c => views'[d] = views[d]
  BY <1>3 DEF LinkInv
<1>5. \A d \in Conns : d > opened => views'[d] = NoView /\ wire'[d] = <<>>
  BY <1>1, <1>2, <1>4
<1>6. sess' # "live" => \A d \in Conns : views'[d] = NoView
  BY <1>3 DEF LinkInv
<1>7. conn # NoConn => wire'[conn] = wire[conn] /\ views'[conn] = views[conn]
  BY <1>1, <1>4
<1>8. /\ conn # NoConn => Good(wire'[conn], inbox', views'[conn], status, pending, viewSize)
      /\ conn # NoConn /\ sess' = "none" => Fresh(wire'[conn], inbox', pending)
  BY <1>3, <1>7 DEF LinkInv
<1> QED BY <1>1, <1>3, <1>5, <1>6, <1>8, DaemonLink

(* A request of the connection in use. *)
LEMMA ServeThis ==
    ASSUME TypeOK, LinkInv, conn \in Conns, conn # NoConn, Serve(conn)
    PROVE  LinkInv'
<1> DEFINE q == wire[conn]
           b == inbox
           r == Head(q)
           v == views[conn]
           w == views'[conn]
<1>1. /\ UNCHANGED <<uiVars, opened>> /\ q # <<>> /\ q \in Seq(Request) /\ b \in Seq(Message)
      /\ r.size \in Size /\ r.size # NoView
      /\ wire' = [wire EXCEPT ![conn] = Tail(q)]
      /\ wire \in [Conns -> Seq(Request)] /\ views \in [Conns -> Size \cup {NoView}]
  BY ServeType, SizeIsNoMark DEF Serve, TypeOK, bounds, Request
<1>2. /\ wire'[conn] = Tail(q)
      /\ \A d \in Conns : d > opened => views[d] = NoView /\ wire'[d] = <<>> /\ d # conn
  BY <1>1 DEF LinkInv
<1>3. Good(q, b, v, status, pending, viewSize)
  BY DEF LinkInv
<1>4. sess = "none" => status = "Connecting" /\ pending = TRUE /\ Alone(q, b)
  BY <1>1 DEF LinkInv, Fresh
<1>5. sess # "live" => \A d \in Conns : views[d] = NoView
  BY DEF LinkInv
<1> HIDE DEF q, b, r, v
<1>6. ASSUME NEW m \in Answer, inbox' = Append(b, m), r.op # "Resize",
             m = "Live" => sess' = "live" /\ w = r.size /\ \A d \in Conns : d > opened => views'[d] = NoView,
             m # "Live" => UNCHANGED <<views, sess>> /\ w = NoView,
             m = "NoSuch" <=> sess' = "none", sess' = "none" => sess = "none"
      PROVE  LinkInv'
  <2>1. m = "NoSuch" => status = "Connecting" /\ pending = TRUE /\ Alone(q, b)
    BY <1>4, <1>6
  <2>2. /\ Good(Tail(q), Append(b, m), w, status, pending, viewSize)
        /\ m = "NoSuch" => Alone(Tail(q), Append(b, m))
    BY <1>1, <1>3, <1>6, <2>1, Served DEF r
  <2>3. sess' = "none" => Fresh(wire'[conn], inbox', pending)
    BY <1>2, <1>6, <2>1, <2>2 DEF Fresh
  <2>4. \A d \in Conns : d > opened => views'[d] = NoView /\ wire'[d] = <<>>
    BY <1>2, <1>6
  <2>5. sess' # "live" => \A d \in Conns : views'[d] = NoView
    BY <1>5, <1>6
  <2> HIDE DEF w
  <2>6. Good(wire'[conn], inbox', views'[conn], status, pending, viewSize)
    BY <1>2, <1>6, <2>2 DEF w
  <2> QED BY <1>1, <1>6, <2>3, <2>4, <2>5, <2>6, DaemonLink
<1>7. CASE r.op = "Attach" /\ ServeAttach(conn, r.size)
  <2>1. CASE sess = "none"
    <3>1. inbox' = Append(b, "NoSuch") /\ UNCHANGED <<views, sess>>
      BY <1>7, <2>1 DEF ServeAttach, Reply, daemonVars, b
    <3>2. w = NoView
      BY <1>5, <2>1, <3>1
    <3> QED BY <1>6, <1>7, <2>1, <3>1, <3>2 DEF Answer
  <2>2. CASE sess = "exited"
    <3>1. inbox' = Append(b, "Dead") /\ UNCHANGED <<views, sess>>
      BY <1>7, <2>2 DEF ServeAttach, Reply, daemonVars, b
    <3>2. w = NoView
      BY <1>5, <2>2, <3>1
    <3> QED BY <1>6, <1>7, <2>2, <3>1, <3>2 DEF Answer
  <2>3. CASE sess = "live"
    <3>1. inbox' = Append(b, "Live") /\ views' = [views EXCEPT ![conn] = r.size] /\ sess' = "live"
      BY <1>7, <2>3 DEF ServeAttach, Reply, b
    <3>2. w = r.size /\ \A d \in Conns : d > opened => views'[d] = NoView
      BY <1>1, <1>2, <3>1
    <3> QED BY <1>6, <1>7, <3>1, <3>2 DEF Answer
  <2> QED BY <1>7, <2>1, <2>2, <2>3 DEF ServeAttach
<1>8. CASE r.op = "Spawn" /\ ServeSpawn(conn, r.size)
  <2>1. CASE sess = "live"
    <3>1. inbox' = Append(b, "Refused") /\ UNCHANGED <<views, sess>>
      BY <1>8, <2>1 DEF ServeSpawn, Reply, daemonVars, b
    <3>2. Spawns(q)
      BY <1>1, <1>8, RequestServed DEF Spawns, r
    <3>3. w = NoView
      BY <1>3, <3>1, <3>2 DEF Good, v
    <3> QED BY <1>6, <1>8, <2>1, <3>1, <3>3 DEF Answer
  <2>2. CASE sess # "live"
    <3>1. /\ inbox' = Append(b, "Live") /\ sess' = "live"
          /\ views' = [d \in Conns |-> IF d = conn THEN r.size ELSE NoView]
      BY <1>8, <2>2 DEF ServeSpawn, Reply, b
    <3>2. w = r.size /\ \A d \in Conns : d > opened => views'[d] = NoView
      BY <1>1, <1>2, <3>1
    <3> QED BY <1>6, <1>8, <3>1, <3>2 DEF Answer
  <2> QED BY <2>1, <2>2
<1>9. CASE r.op = "Resize" /\ ServeResize(conn, r.size)
  <2>1. UNCHANGED <<inbox, sess>>
    BY <1>9 DEF ServeResize
  <2>2. /\ v = NoView => views' = views
        /\ v # NoView => views' = [views EXCEPT ![conn] = r.size]
    BY <1>9 DEF ServeResize, v
  <2>3. /\ v = NoView => w = NoView
        /\ v # NoView => w = r.size /\ sess = "live"
        /\ \A d \in Conns : d > opened => views'[d] = NoView
    BY <1>1, <1>2, <1>5, <2>2 DEF v
  <2>4. Good(Tail(q), b, w, status, pending, viewSize)
    BY <1>1, <1>3, <1>9, <2>3, ResizeServed DEF r
  <2>5. sess # "none"
    <3> SUFFICES ASSUME sess = "none" PROVE FALSE
      OBVIOUS
    <3>1. Tail(q) = <<>> /\ b = <<>> /\ pending = TRUE
      BY <1>1, <1>4 DEF Alone, Single
    <3> QED BY <2>4, <3>1, NothingInFlight DEF Good
  <2>6. sess' # "live" => \A d \in Conns : views'[d] = NoView
    BY <1>5, <2>1, <2>2, <2>3
  <2> HIDE DEF w
  <2>7. Good(wire'[conn], inbox', views'[conn], status, pending, viewSize)
    BY <1>2, <2>1, <2>4 DEF w, b
  <2> QED BY <1>1, <1>2, <2>1, <2>3, <2>5, <2>6, <2>7, DaemonLink
<1> QED BY <1>7, <1>8, <1>9 DEF Serve, r, q

(* The thread of a closed connection detaches; the connection in use is not
   its own. *)
LEMMA CloseServerLink ==
    ASSUME TypeOK, LinkInv, NEW c \in Conns, CloseServer(c)
    PROVE  LinkInv'
<1>1. /\ UNCHANGED <<uiVars, opened, wire, inbox, sess>> /\ c # conn
      /\ conn \in Conns \cup {NoConn} /\ \A d \in Conns : views'[d] = NoView \/ views'[d] = views[d]
      /\ \A d \in Conns : d # c => views'[d] = views[d]
  BY DEF CloseServer, TypeOK, bounds
<1>2. /\ \A d \in Conns : d > opened => views'[d] = NoView /\ wire'[d] = <<>>
      /\ sess' # "live" => \A d \in Conns : views'[d] = NoView
  BY <1>1 DEF LinkInv
<1>3. /\ conn # NoConn => Good(wire'[conn], inbox', views'[conn], status, pending, viewSize)
      /\ conn # NoConn /\ sess' = "none" => Fresh(wire'[conn], inbox', pending)
  BY <1>1 DEF LinkInv
<1> QED BY <1>1, <1>2, <1>3, DaemonLink

(* The daemon asks the attached view to attach again, or tells it the end. *)
LEMMA NewsLink ==
    ASSUME TypeOK, LinkInv, AskResync \/ Finish
    PROVE  LinkInv'
<1>1. /\ UNCHANGED <<uiVars, opened, wire>> /\ sess = "live" /\ sess' \in {"live", "exited"}
      /\ conn \in Conns \cup {NoConn} /\ NoConn \notin Conns
      /\ inbox \in Seq(Message)
      /\ conn # NoConn => wire[conn] \in Seq(Request)
  BY DEF AskResync, Finish, TypeOK, daemonVars, bounds, Conns, NoConn
<1>2. /\ \A d \in Conns : d > opened => views'[d] = NoView /\ wire'[d] = <<>>
      /\ sess' # "live" => \A d \in Conns : views'[d] = NoView
  BY <1>1 DEF AskResync, Finish, LinkInv, daemonVars
<1>3. conn = NoConn => inbox' = inbox
  BY <1>1 DEF AskResync, Finish, Attached
<1>4. ASSUME conn # NoConn
      PROVE  Good(wire'[conn], inbox', views'[conn], status, pending, viewSize)
  <2>1. Good(wire[conn], inbox, views[conn], status, pending, viewSize)
    BY <1>4 DEF LinkInv
  <2>2. CASE AskResync
    <3>1. inbox' = Append(inbox, "Resync") /\ views'[conn] = views[conn] /\ views[conn] # NoView
      BY <2>2 DEF AskResync, Attached, daemonVars
    <3>2. Good(wire[conn], Append(inbox, "Resync"), views[conn], status, pending, viewSize)
      BY <1>1, <1>4, <2>1, <3>1, NewsSent
    <3> QED BY <1>1, <3>1, <3>2
  <2>3. CASE Finish /\ views[conn] # NoView
    <3>1. inbox' = Append(inbox, "Exited") /\ views'[conn] = NoView
      BY <1>1, <1>4, <2>3 DEF Finish, Attached
    <3>2. Good(wire[conn], Append(inbox, "Exited"), NoView, status, pending, viewSize)
      BY <1>1, <1>4, <2>1, <2>3, NewsSent
    <3> QED BY <1>1, <3>1, <3>2
  <2>4. CASE Finish /\ views[conn] = NoView
    <3>1. inbox' = inbox /\ views'[conn] = NoView
      BY <1>1, <1>4, <2>4 DEF Finish, Attached
    <3> QED BY <1>1, <2>1, <2>4, <3>1
  <2> QED BY <2>2, <2>3, <2>4
<1> QED BY <1>1, <1>2, <1>3, <1>4, DaemonLink

LEMMA NextLink == CalmConnect = TRUE /\ TypeOK /\ LinkInv /\ [Next]_vars => LinkInv'
<1> SUFFICES ASSUME CalmConnect = TRUE, TypeOK, LinkInv, [Next]_vars PROVE LinkInv'
  OBVIOUS
<1>1. ASSUME UNCHANGED <<uiVars, wire, inbox, sess, views, opened>> PROVE LinkInv'
  BY <1>1 DEF LinkInv, uiVars
<1>2. CASE UNCHANGED vars
  BY <1>1, <1>2 DEF vars, daemonVars, bounds
<1>3. ASSUME NEW s \in Size, DrawFrame(s) PROVE LinkInv'
  BY <1>3, DrawLink
<1>4. CASE Receive \/ Connect \/ Disconnect
  BY <1>4, ReceiveLink, ConnectLink, DisconnectLink
<1>5. ASSUME NEW c \in Conns, Serve(c) PROVE LinkInv'
  <2>1. conn # NoConn \/ c # conn
    BY DEF Conns, NoConn
  <2>2. CASE c = conn
    BY <1>5, <2>1, <2>2, ServeThis
  <2>3. CASE c # conn
    BY <1>5, <2>3, ServeOther
  <2> QED BY <2>2, <2>3
<1>6. ASSUME NEW c \in Conns, CloseServer(c) PROVE LinkInv'
  BY <1>6, CloseServerLink
<1>7. CASE AskResync \/ Finish
  BY <1>7, NewsLink
<1>8. CASE SwitchScreen
  BY <1>1, <1>8 DEF SwitchScreen, bounds
<1>9. ASSUME NEW n \in Nudges, NudgeRead(n) \/ NudgeShrink(n) \/ NudgeRestore(n) PROVE LinkInv'
  BY <1>1, <1>9 DEF NudgeRead, NudgeShrink, NudgeRestore, bounds
<1> QED BY <1>2, <1>3, <1>4, <1>5, <1>6, <1>7, <1>8, <1>9 DEF Next

(* As long as no frame resizes a view that does not run and awaits an answer,
   a running view whose requests and messages have all arrived is attached at
   the size it is drawn at: whatever connections were lost, resyncs asked for
   and shells ended on the way (hub.rs on_message, panel frame, serve). *)
THEOREM SizesReported == ASSUME CalmConnect = TRUE PROVE Spec => []ViewSizeReported
<1>1. LinkInv => ViewSizeReported
  <2> SUFFICES ASSUME LinkInv, sess = "live", status = "Running", conn # NoConn,
                      wire[conn] = <<>>, inbox = <<>>
               PROVE  views[conn] = viewSize
    BY DEF ViewSizeReported
  <2>1. Good(<<>>, <<>>, views[conn], "Running", pending, viewSize)
    BY DEF LinkInv
  <2>2. RunsAfter(<<>>, "Running")
    BY DEF RunsAfter
  <2> QED BY <2>1, <2>2 DEF Good, Sized
<1>2. TypeOK /\ LinkInv /\ [Next]_vars => LinkInv'
  BY NextLink
<1> QED BY <1>1, <1>2, InitLink, TypeCorrect, PTL DEF Spec
=============================================================================
