------------------------ MODULE WorkbenchPartsProofs ------------------------
(***************************************************************************)
(* What is proved of the workbench's components: of the update, for any    *)
(* releases, checks and installs; of the connection to the daemon, for any *)
(* requests, writes, losses and attempts; of the settings, the key         *)
(* bindings and the themes, for any commands, chords, bounds, files and    *)
(* edits; of the file list and Quick Open, for any files, limit and        *)
(* queries; and of the preview, from PreviewsProofs' lemmas.               *)
(* FileTreeProofs has what is proved of the file tree.                     *)
(***************************************************************************)
EXTENDS WorkbenchParts, PreviewsProofs, FiniteSetTheorems, SequenceTheorems, TLAPS

(***************************************************************************)
(* The update                                                              *)
(***************************************************************************)
Moving == {"move in", "put back"}
Sound(app) == app.sound

(* What makes the two renames of a swap safe: only a checked app is moved in,
   nothing but the swap in progress takes the app out of its place, and no
   install begins while another is under way. *)
UpdateInv ==
    /\ place # U!None => Sound(place)
    /\ aside # U!None => Sound(aside)
    /\ place = U!None => aside # U!None \/ stuck = TRUE
    /\ running # 0 /\ place = U!None => thread \in Moving \/ stuck = TRUE
    /\ thread \in Moving => aside # U!None \/ stuck = TRUE
    /\ thread \in {"replace", "move aside", "move in"} => Sound(staged)
    /\ thread # "none" => installing # U!NoRelease
    /\ installing # U!NoRelease => notice.actions = {}

LEMMA NoneIsUnsound == ~Sound(U!None) /\ U!None.version = 0
BY DEF U!None, Sound

LEMMA NoActions == U!Quiet.actions = {} /\ \A r : U!InstallingNotice(r).actions = {}
BY DEF U!Quiet, U!InstallingNotice

LEMMA InitUpdate == U!Init => UpdateInv
<1>1. Sound(U!App(1)) /\ U!App(1) # U!None
  BY DEF U!App, U!None, Sound
<1> QED BY <1>1 DEF U!Init, UpdateInv, Moving

LEMMA WindowUpdate ==
    ASSUME UpdateInv,
           \/ U!Ask \/ U!Tomorrow \/ U!NoNews \/ U!Dismiss \/ U!Skip \/ U!Install
           \/ U!Progress \/ U!Failed \/ U!Installed
           \/ \E release \in U!Release : U!Offer(release)
    PROVE  UpdateInv'
<1> USE NoActions DEF UpdateInv, U!disk, U!job, Moving, U!None, U!NoRelease
<1>1. CASE U!Ask \/ U!Tomorrow \/ U!NoNews
  BY <1>1 DEF U!Ask, U!Tomorrow, U!NoNews
<1>2. CASE U!Dismiss \/ U!Skip
  <2>1. notice'.actions = {} /\ UNCHANGED <<running, place, aside, staged, stuck, thread, installing>>
    BY <1>2 DEF U!Dismiss, U!Skip
  <2> QED BY <2>1
<1>3. CASE U!Install
  <2>1. installing = U!NoRelease /\ thread = "none"
    BY <1>3 DEF U!Install
  <2>2. /\ UNCHANGED <<running, place, aside, staged, stuck>> /\ notice'.actions = {}
        /\ UNCHANGED <<thread, installing>> \/ (thread' = "download" /\ installing' # U!NoRelease)
    BY <1>3 DEF U!Install
  <2> QED BY <2>1, <2>2
<1>4. CASE U!Progress
  BY <1>4 DEF U!Progress
<1>5. CASE U!Failed
  <2>1. thread \notin Moving
    BY <1>5 DEF U!Failed, U!Done
  <2> QED BY <1>5, <2>1 DEF U!Failed
<1>6. CASE U!Installed
  <2>1. thread \notin Moving
    BY <1>6 DEF U!Installed, U!Done
  <2> QED BY <1>6, <2>1, NoneIsUnsound DEF U!Installed, U!Opens
<1>7. ASSUME NEW release \in U!Release, U!Offer(release) PROVE UpdateInv'
  BY <1>7 DEF U!Offer
<1> QED BY <1>1, <1>2, <1>3, <1>4, <1>5, <1>6, <1>7

LEMMA ThreadUpdate ==
    ASSUME UpdateInv,
           \/ U!Download \/ U!Stage \/ U!Verify \/ U!Replace \/ U!MoveAside \/ U!MoveIn
           \/ U!PutBack \/ U!DropStaging
    PROVE  UpdateInv'
<1> USE NoneIsUnsound DEF UpdateInv, U!disk, Moving, U!None, U!NoRelease, U!Thread, U!Goes, U!Tells, U!GivesUp
<1>1. CASE U!Download
  BY <1>1 DEF U!Download
<1>2. CASE U!Stage
  BY <1>2 DEF U!Stage
<1>3. CASE U!Verify
  BY <1>3 DEF U!Verify, U!Checked, Sound
<1>4. CASE U!Replace
  BY <1>4 DEF U!Replace
<1>5. CASE U!MoveAside
  BY <1>5 DEF U!MoveAside
<1>6. CASE U!MoveIn
  BY <1>6 DEF U!MoveIn
<1>7. CASE U!PutBack
  <2>1. /\ thread = "put back" /\ thread' = "ended" /\ aside' = U!None /\ staged' = U!None
        /\ (place' = aside /\ stuck' = stuck) \/ (place' = place /\ stuck' = TRUE)
        /\ UNCHANGED <<running, installing, notice>>
    BY <1>7 DEF U!PutBack
  <2>2. aside = U!None => stuck = TRUE
    BY <2>1
  <2> QED BY <2>1, <2>2
<1>8. CASE U!DropStaging
  BY <1>8 DEF U!DropStaging
<1> QED BY <1>1, <1>2, <1>3, <1>4, <1>5, <1>6, <1>7, <1>8

LEMMA ProcessUpdate ==
    ASSUME UpdateInv, U!Exit \/ U!Launch
    PROVE  UpdateInv'
BY NoActions DEF UpdateInv, U!Exit, U!Launch, U!Opens, U!disk, Moving, U!None, U!NoRelease

LEMMA NextUpdate == ASSUME UpdateInv, U!Next PROVE UpdateInv'
BY WindowUpdate, ThreadUpdate, ProcessUpdate DEF U!Next

(* Whatever step of an install fails, and wherever the window, the thread or
   the process ends, the app in its place is one whose checks passed, and when
   there is none the old one waits beside it; only a failed put-back may leave
   neither (platform self_update.rs swap, install). *)
THEOREM UpdateLeavesApp == Spec => []SwapLeavesApp
<1>1. Init => (part = "updates" => UpdateInv)
  BY InitUpdate DEF Init
<1>2. (part = "updates" => UpdateInv) /\ [Next]_vars => (part = "updates" => UpdateInv)'
  <2>1. UNCHANGED UVars /\ UpdateInv => UpdateInv'
    BY DEF UVars, UpdateInv, Moving, U!None, U!NoRelease
  <2> QED BY <2>1, NextUpdate DEF Next, vars
<1>3. (part = "updates" => UpdateInv) => SwapLeavesApp
  BY DEF SwapLeavesApp, U!SwapLeavesApp, UpdateInv, Sound
<1> QED BY <1>1, <1>2, <1>3, PTL DEF Spec

(***************************************************************************)
(* The connection to the daemon                                            *)
(***************************************************************************)
Items(q) == {q[i] : i \in DOMAIN q}

LEMMA ItemsOf ==
    ASSUME NEW Elem, NEW q \in Seq(Elem)
    PROVE  /\ Items(q) \subseteq Elem
           /\ \A e : C!Contains(q, e) <=> e \in Items(q)
           /\ C!Range(q) = Items(q)
BY DEF Items, C!Contains, C!Range

LEMMA ItemsEmpty == Items(<<>>) = {}
BY DEF Items

LEMMA ItemsAppend ==
    ASSUME NEW Elem, NEW q \in Seq(Elem), NEW e \in Elem
    PROVE  Items(Append(q, e)) = Items(q) \cup {e}
<1> DEFINE a == Append(q, e)
<1>1. /\ DOMAIN a = 1 .. Len(q) + 1 /\ DOMAIN q = 1 .. Len(q) /\ Len(q) \in Nat
      /\ a[Len(q) + 1] = e
      /\ \A i \in 1 .. Len(q) : a[i] = q[i]
  OBVIOUS
<1> QED BY <1>1 DEF Items

LEMMA ItemsTaken ==
    ASSUME NEW Elem, NEW q \in Seq(Elem), q # <<>>
    PROVE  Items(q) = {Head(q)} \cup Items(Tail(q))
<1> DEFINE t == Tail(q)
<1>1. /\ DOMAIN q = 1 .. Len(q) /\ Len(q) \in Nat \ {0} /\ Head(q) = q[1]
      /\ Len(t) + 1 = Len(q) /\ DOMAIN t = 1 .. Len(t)
      /\ \A i \in 1 .. Len(t) : t[i] = q[i + 1]
  OBVIOUS
<1> HIDE DEF t
<1>2. Items(q) \subseteq {Head(q)} \cup Items(t)
  <2>1. ASSUME NEW i \in 1 .. Len(q), i # 1 PROVE q[i] \in Items(t)
    <3>1. PICK j \in 1 .. Len(t) : i = j + 1
      BY <1>1, <2>1
    <3> QED BY <1>1, <3>1 DEF Items
  <2> QED BY <1>1, <2>1 DEF Items
<1>3. Items(t) \subseteq Items(q) /\ Head(q) \in Items(q)
  <2>1. \A j \in 1 .. Len(t) : j + 1 \in 1 .. Len(q)
    BY <1>1
  <2> QED BY <1>1, <2>1 DEF Items
<1> QED BY <1>2, <1>3 DEF t

LEMMA ItemsCut ==
    ASSUME NEW Elem, NEW q \in Seq(Elem), NEW n \in 0 .. Len(q)
    PROVE  SubSeq(q, 1, n) \in Seq(Elem) /\ Items(SubSeq(q, 1, n)) \subseteq Items(q)
<1>1. SubSeq(q, 1, n) \in Seq(Elem) /\ Len(SubSeq(q, 1, n)) = n
      /\ \A i \in 1 .. n : SubSeq(q, 1, n)[i] = q[i]
  OBVIOUS
<1> QED BY <1>1 DEF Items

ClientTypes ==
    /\ link \in [state : {"connecting", "connected", "lost", "blocked"}, due : BOOLEAN,
                 attempt : {"none", "running", "ok", "mismatch", "failed"}, held : BOOLEAN]
    /\ call \in [at : {"idle", "register", "send", "recheck", "wait"}, id : Nat,
                 slot : {"empty", "answer", "disconnected"}]
    /\ asked \subseteq Nat \ {0} /\ nextId \in Nat \ {0}
    /\ connected \in BOOLEAN /\ reader \in {"reading", "draining", "telling", "gone"}
    /\ writer \in {"writing", "gone"} /\ net \in {"up", "down"}
    /\ waiters \subseteq Nat /\ served \subseteq Nat
    /\ outgoing \in Seq(Nat) /\ arrivals \in Seq(Nat) /\ wire \in Seq(Nat) /\ replies \in Seq(Nat)

(* The request waited for and its entry among the waiters. *)
Registered == call.at \in {"send", "recheck", "wait"}
CallInv ==
    /\ call.at = "wait" /\ reader \in {"telling", "gone"} => call.slot # "empty"
    /\ waiters \subseteq IF Registered THEN {call.id} ELSE {}
    /\ Registered => (call.slot = "empty" <=> call.id \in waiters)
    /\ ~Registered => call.slot = "empty"
    /\ call.at # "idle" => link.held /\ call.id < nextId /\ call.id \notin asked
    /\ connected => reader = "reading"

(* What is on its way, and where to. *)
OnItsWay == Items(outgoing) \cup Items(wire) \cup Items(replies) \cup Items(arrivals)
AskInv ==
    /\ \A i \in asked : i < nextId
    /\ ~link.held => asked = {}
    /\ net = "up" => writer = "writing"
    /\ call.slot = "answer" => call.id \in served
    /\ Items(replies) \subseteq served
    /\ net = "up" /\ link.held => asked \subseteq OnItsWay

(* What the link believes, and the news of a loss. *)
LinkInv ==
    /\ link.state = "connected" <=> link.held
    /\ link.attempt # "none" => ~link.held
    /\ (link.held \/ link.attempt = "ok") /\ reader = "gone" => 0 \in Items(arrivals)

ClientInv == ClientTypes /\ CallInv /\ AskInv /\ LinkInv

LEMMA InitClient == C!Init => ClientInv
<1> SUFFICES ASSUME C!Init PROVE ClientInv OBVIOUS
<1> USE DEF C!Init, C!Idle
<1>1. ClientTypes
  <2>1. link = [state |-> "connecting", attempt |-> "running", due |-> TRUE, held |-> FALSE]
    OBVIOUS
  <2>2. connected \in BOOLEAN
    BY Zenon
  <2>3. outgoing \in Seq(Nat) /\ arrivals \in Seq(Nat) /\ wire \in Seq(Nat) /\ replies \in Seq(Nat)
    OBVIOUS
  <2> QED BY <2>1, <2>2, <2>3 DEF ClientTypes
<1>2. CallInv
  BY DEF CallInv, Registered
<1>3. AskInv
  BY ItemsEmpty DEF AskInv, OnItsWay
<1>4. LinkInv
  BY DEF LinkInv
<1> QED BY <1>1, <1>2, <1>3, <1>4 DEF ClientInv

(* One step of the request waited for. *)
LEMMA RequestClient ==
    ASSUME ClientInv, C!Begin \/ C!Register \/ C!SendIt \/ C!Recheck \/ C!Answered \/ C!TimesOut
    PROVE  ClientInv'
<1>1. /\ UNCHANGED <<link, asked, connected, reader, writer, arrivals, net, wire, replies, served>>
      /\ outgoing' \in Seq(Nat) /\ Items(outgoing) \subseteq Items(outgoing')
  <2>1. outgoing' = outgoing \/ outgoing' = Append(outgoing, call.id)
    BY DEF C!Begin, C!Register, C!SendIt, C!Sent, C!Recheck, C!Answered, C!TimesOut, C!client, C!stream
  <2>2. outgoing \in Seq(Nat) /\ call.id \in Nat
    BY DEF ClientInv, ClientTypes
  <2>3. outgoing' \in Seq(Nat) /\ Items(outgoing) \subseteq Items(outgoing')
    <3>1. CASE outgoing' = outgoing
      BY <2>2, <3>1
    <3>2. CASE outgoing' = Append(outgoing, call.id)
      <4>1. Append(outgoing, call.id) \in Seq(Nat)
        BY <2>2
      <4> QED BY <2>2, <3>2, <4>1, ItemsAppend
    <3> QED BY <2>1, <3>1, <3>2
  <2> QED BY <2>3
    DEF C!Begin, C!Register, C!SendIt, C!Recheck, C!Answered, C!TimesOut, C!client, C!stream
<1>2. CASE C!Begin
  <2>1. /\ link.held /\ connected /\ nextId' = nextId + 1 /\ waiters' = waiters
        /\ call.at = "idle" /\ call' = [at |-> "register", id |-> nextId, slot |-> "empty"]
    BY <1>2 DEF C!Begin, C!WaitingAt, C!Usable
  <2> QED BY <1>1, <2>1 DEF ClientInv, ClientTypes, CallInv, Registered, AskInv, OnItsWay, LinkInv
<1>3. CASE C!Register
  <2>1. /\ call.at = "register" /\ waiters' = waiters \cup {call.id} /\ nextId' = nextId
        /\ call' = [call EXCEPT !.at = "send"]
    BY <1>3 DEF C!Register, C!WaitingAt, C!Goes
  <2> QED BY <1>1, <2>1 DEF ClientInv, ClientTypes, CallInv, Registered, AskInv, OnItsWay, LinkInv
<1>4. CASE C!SendIt \/ C!Recheck \/ C!Answered \/ C!TimesOut
  <2>1. /\ nextId' = nextId /\ Registered
        /\ \/ /\ call' = [call EXCEPT !.at = "recheck"] /\ waiters' = waiters
           \/ /\ call' = [call EXCEPT !.at = "wait"] /\ waiters' = waiters /\ connected
           \/ /\ call' = [at |-> "idle", id |-> 0, slot |-> "empty"]
              /\ waiters' = waiters \ {call.id} \/ (waiters' = waiters /\ call.slot # "empty")
    BY <1>4 DEF C!SendIt, C!Recheck, C!StillConnected, C!Answered, C!TimesOut, C!WaitingAt, C!Goes, C!Returns,
                C!Idle, C!client, Registered
  <2> QED BY <1>1, <2>1 DEF ClientInv, ClientTypes, CallInv, Registered, AskInv, OnItsWay, LinkInv
<1> QED BY <1>2, <1>3, <1>4

(* A request answered by an event, and a Write. *)
LEMMA SendClient == ASSUME ClientInv, C!Send \/ C!Post PROVE ClientInv'
<1>1. PICK id \in Nat :
          /\ outgoing' = IF writer = "writing" THEN Append(outgoing, id) ELSE outgoing
          /\ \/ id = nextId /\ nextId' = nextId + 1 /\ asked' = asked \cup {id}
             \/ UNCHANGED <<nextId, asked>>
  BY DEF C!Send, C!Post, C!Sent, C!Write, C!ui, ClientInv, ClientTypes
<1>2. /\ link.held /\ call.at = "idle"
      /\ UNCHANGED <<link, call, connected, reader, writer, waiters, arrivals, net, wire, replies, served>>
  BY DEF C!Send, C!Post, C!Usable, C!WaitingAt, C!ui, C!stream
<1>3. /\ outgoing' \in Seq(Nat) /\ Items(outgoing) \subseteq Items(outgoing')
      /\ writer = "writing" => id \in Items(outgoing')
  <2>1. outgoing \in Seq(Nat)
    BY DEF ClientInv, ClientTypes
  <2>2. Append(outgoing, id) \in Seq(Nat) /\ Items(Append(outgoing, id)) = Items(outgoing) \cup {id}
    BY <2>1, ItemsAppend
  <2> QED BY <1>1, <2>1, <2>2
<1>4. /\ nextId' \in Nat \ {0} /\ asked' \subseteq Nat \ {0} /\ nextId <= nextId'
      /\ \A i \in asked' : i < nextId'
  <2>1. nextId \in Nat \ {0} /\ asked \subseteq Nat \ {0} /\ \A i \in asked : i < nextId
    BY DEF ClientInv, ClientTypes, AskInv
  <2>2. CASE UNCHANGED <<nextId, asked>>
    BY <2>1, <2>2
  <2>3. CASE nextId' = nextId + 1 /\ asked' = asked \cup {nextId}
    <3>1. nextId \in Nat /\ nextId + 1 \in Nat \ {0} /\ nextId < nextId + 1
      BY <2>1
    <3>2. \A i \in asked : i < nextId + 1
      BY <2>1
    <3> QED BY <2>1, <2>3, <3>1, <3>2
  <2> QED BY <1>1, <2>2, <2>3
<1>5. ClientTypes'
  BY <1>2, <1>3, <1>4 DEF ClientInv, ClientTypes
<1>6. CallInv'
  BY <1>1, <1>2 DEF ClientInv, ClientTypes, CallInv, Registered
<1>7. AskInv'
  BY <1>1, <1>2, <1>3, <1>4 DEF ClientInv, ClientTypes, AskInv, OnItsWay
<1>8. LinkInv'
  BY <1>2 DEF ClientInv, LinkInv
<1> QED BY <1>5, <1>6, <1>7, <1>8 DEF ClientInv

(* The client's threads. *)
LEMMA WriterClient == ASSUME ClientInv, C!WriterSends PROVE ClientInv'
<1>1. /\ UNCHANGED <<link, call, asked, connected, reader, waiters, nextId, arrivals, net, replies, served>>
      /\ outgoing # <<>>
      /\ IF net = "up" THEN /\ wire' = Append(wire, Head(outgoing)) /\ outgoing' = Tail(outgoing)
                            /\ writer' = writer
         ELSE wire' = wire /\ outgoing' = <<>> /\ writer' = "gone"
  BY DEF C!WriterSends, C!ui
<1>2. outgoing \in Seq(Nat) /\ wire \in Seq(Nat) /\ Head(outgoing) \in Nat /\ Tail(outgoing) \in Seq(Nat)
  BY <1>1 DEF ClientInv, ClientTypes
<1>3. Append(wire, Head(outgoing)) \in Seq(Nat) /\ <<>> \in Seq(Nat)
  BY <1>2
<1>4. /\ Items(outgoing) = {Head(outgoing)} \cup Items(Tail(outgoing))
      /\ Items(Append(wire, Head(outgoing))) = Items(wire) \cup {Head(outgoing)}
  BY <1>1, <1>2, ItemsTaken, ItemsAppend
<1>5. ClientTypes'
  <2>1. outgoing' \in Seq(Nat) /\ wire' \in Seq(Nat) /\ writer' \in {"writing", "gone"}
    BY <1>1, <1>2, <1>3 DEF ClientInv, ClientTypes
  <2>2. UNCHANGED <<link, call, asked, connected, reader, waiters, nextId, arrivals, net, replies, served>>
    BY <1>1
  <2> QED BY <2>1, <2>2 DEF ClientInv, ClientTypes
<1>6. CallInv' /\ LinkInv'
  BY <1>1 DEF ClientInv, CallInv, LinkInv, Registered
<1>7. AskInv'
  BY <1>1, <1>4 DEF ClientInv, ClientTypes, AskInv, OnItsWay
<1> QED BY <1>5, <1>6, <1>7 DEF ClientInv

LEMMA ReadClient == ASSUME ClientInv, C!ReaderReads PROVE ClientInv'
<1> DEFINE id == Head(replies)
<1>1. /\ UNCHANGED <<link, asked, connected, reader, writer, nextId, outgoing, net, wire, served>>
      /\ reader = "reading" /\ replies # <<>> /\ replies' = Tail(replies)
      /\ call' = IF call.id \in {id} \cap waiters THEN [call EXCEPT !.slot = "answer"] ELSE call
      /\ waiters' = waiters \ {id}
      /\ arrivals' = IF id \in waiters THEN arrivals ELSE Append(arrivals, id)
  BY DEF C!ReaderReads, C!Filled
<1>2. arrivals \in Seq(Nat) /\ replies \in Seq(Nat) /\ id \in Nat /\ Tail(replies) \in Seq(Nat)
  BY <1>1 DEF ClientInv, ClientTypes
<1>3. Append(arrivals, id) \in Seq(Nat) /\ Items(Append(arrivals, id)) = Items(arrivals) \cup {id}
  BY <1>2, ItemsAppend
<1>4. Items(replies) = {id} \cup Items(Tail(replies))
  BY <1>1, <1>2, ItemsTaken
<1> HIDE DEF id
<1>5. ClientTypes'
  BY <1>1, <1>2, <1>3 DEF ClientInv, ClientTypes
<1>6. CallInv'
  BY <1>1 DEF ClientInv, ClientTypes, CallInv, Registered
<1>7. id \in waiters => id \notin asked
  BY DEF ClientInv, CallInv, Registered
<1>8. AskInv'
  BY <1>1, <1>3, <1>4, <1>7 DEF ClientInv, ClientTypes, AskInv, OnItsWay
<1>9. LinkInv'
  BY <1>1, <1>3 DEF ClientInv, LinkInv
<1> QED BY <1>5, <1>6, <1>8, <1>9 DEF ClientInv

LEMMA ReaderEndsClient ==
    ASSUME ClientInv, C!ReaderEnds \/ C!ReaderDrains \/ C!ReaderTells
    PROVE  ClientInv'
<1>1. UNCHANGED <<link, asked, writer, nextId, outgoing, net, wire, replies, served>>
  BY DEF C!ReaderEnds, C!ReaderDrains, C!ReaderTells, C!ui, C!stream
<1>2. CASE C!ReaderEnds
  <2>1. /\ reader = "reading" /\ connected' = FALSE /\ reader' = "draining"
        /\ UNCHANGED <<call, waiters, arrivals>>
    BY <1>2 DEF C!ReaderEnds, C!ui
  <2> QED BY <1>1, <2>1 DEF ClientInv, ClientTypes, CallInv, Registered, AskInv, OnItsWay, LinkInv
<1>3. CASE C!ReaderDrains
  <2>1. /\ reader = "draining" /\ reader' = "telling" /\ UNCHANGED <<connected, arrivals>>
        /\ call' = IF call.id \in waiters THEN [call EXCEPT !.slot = "disconnected"] ELSE call
        /\ waiters' = {}
    BY <1>3 DEF C!ReaderDrains, C!Filled
  <2> QED BY <1>1, <2>1 DEF ClientInv, ClientTypes, CallInv, Registered, AskInv, OnItsWay, LinkInv
<1>4. CASE C!ReaderTells
  <2>1. /\ reader = "telling" /\ reader' = "gone" /\ UNCHANGED <<connected, call, waiters>>
        /\ arrivals' = Append(arrivals, 0)
    BY <1>4 DEF C!ReaderTells, C!ui, C!Disconnected
  <2>2. arrivals \in Seq(Nat)
    BY DEF ClientInv, ClientTypes
  <2>3. Append(arrivals, 0) \in Seq(Nat) /\ Items(Append(arrivals, 0)) = Items(arrivals) \cup {0}
    BY <2>2, ItemsAppend
  <2> QED BY <1>1, <2>1, <2>3 DEF ClientInv, ClientTypes, CallInv, Registered, AskInv, OnItsWay, LinkInv
<1> QED BY <1>2, <1>3, <1>4

(* A connection is made while none is held, and nothing is asked or waited for then. *)
LEMMA AttemptClient == ASSUME ClientInv, C!Attempt PROVE ClientInv'
<1>1. link.attempt = "running" /\ UNCHANGED <<call, asked>>
  BY DEF C!Attempt
<1>2. ~link.held /\ call.at = "idle" /\ asked = {} /\ waiters = {} /\ call.slot = "empty"
  BY <1>1 DEF ClientInv, ClientTypes, CallInv, Registered, AskInv, LinkInv
<1>3. CASE C!Connects
  <2>1. /\ link' = [link EXCEPT !.attempt = "ok"] /\ net' = "up" /\ connected' = TRUE
        /\ reader' = "reading" /\ writer' = "writing" /\ nextId' = 1
        /\ outgoing' = <<>> /\ arrivals' = <<>> /\ wire' = <<>> /\ replies' = <<>>
        /\ waiters' = {} /\ served' = {}
    BY <1>3 DEF C!Connects
  <2>2. <<>> \in Seq(Nat)
    OBVIOUS
  <2>3. ClientTypes'
    <3>1. link' \in [state : {"connecting", "connected", "lost", "blocked"}, due : BOOLEAN,
                      attempt : {"none", "running", "ok", "mismatch", "failed"}, held : BOOLEAN]
      BY <2>1 DEF ClientInv, ClientTypes
    <3>2. connected' \in BOOLEAN
      BY <2>1, Zenon
    <3>3. outgoing' \in Seq(Nat) /\ arrivals' \in Seq(Nat) /\ wire' \in Seq(Nat) /\ replies' \in Seq(Nat)
      BY <2>1, <2>2
    <3> QED BY <1>1, <2>1, <3>1, <3>2, <3>3 DEF ClientInv, ClientTypes
  <2>4. CallInv'
    BY <1>1, <1>2, <2>1 DEF CallInv, Registered
  <2>5. AskInv'
    BY <1>1, <1>2, <2>1, ItemsEmpty DEF AskInv
  <2>6. LinkInv'
    BY <1>1, <1>2, <2>1 DEF ClientInv, ClientTypes, LinkInv
  <2> QED BY <2>3, <2>4, <2>5, <2>6 DEF ClientInv
<1>4. CASE /\ \E result \in {"mismatch", "failed"} : link' = [link EXCEPT !.attempt = result]
           /\ UNCHANGED <<connected, reader, writer, waiters, nextId, outgoing, arrivals, net, wire,
                          replies, served>>
  BY <1>1, <1>2, <1>4 DEF ClientInv, ClientTypes, CallInv, Registered, AskInv, OnItsWay, LinkInv
<1> QED BY <1>3, <1>4 DEF C!Attempt, C!client, C!stream

LEMMA PollClient == ASSUME ClientInv, C!Poll PROVE ClientInv'
<1> DEFINE held == link.held \/ link.attempt = "ok"
           gone == held /\ 0 \in Items(arrivals)
           found == CASE link.attempt = "ok" -> "connected"
                      [] link.attempt = "mismatch" -> "blocked"
                      [] link.attempt = "failed" -> "lost"
                      [] OTHER -> link.state
           state == IF gone THEN "lost" ELSE found
<1>1. PICK due \in BOOLEAN, tries \in BOOLEAN :
        /\ tries => state \in {"lost", "connecting"}
        /\ link' = [state |-> state, held |-> held /\ ~gone, due |-> due,
                    attempt |-> IF tries \/ link.attempt = "running" THEN "running" ELSE "none"]
        /\ arrivals' = IF held THEN <<>> ELSE arrivals
        /\ asked' = IF gone THEN {} ELSE IF held THEN asked \ Items(arrivals) ELSE asked
        /\ call.at = "idle"
        /\ UNCHANGED <<call, connected, reader, writer, waiters, nextId, outgoing, net, wire, replies, served>>
  <2>1. arrivals \in Seq(Nat)
    BY DEF ClientInv, ClientTypes
  <2>2. (C!Contains(arrivals, 0) <=> 0 \in Items(arrivals)) /\ C!Range(arrivals) = Items(arrivals)
    BY <2>1, ItemsOf
  <2> QED BY <2>2 DEF C!Poll, C!WaitingAt, C!Disconnected, C!stream
<1>2. found \in {"connecting", "connected", "lost", "blocked"} /\ gone \in BOOLEAN /\ held \in BOOLEAN
  BY DEF ClientInv, ClientTypes
<1>3. found = "connected" <=> held
  BY DEF ClientInv, ClientTypes, LinkInv
<1>4. <<>> \in Seq(Nat)
  OBVIOUS
<1>5. link.held => held
  OBVIOUS
<1>6. held /\ reader = "gone" => gone
  BY DEF ClientInv, LinkInv
<1>7. ~link.held => asked = {}
  BY DEF ClientInv, AskInv
<1> HIDE DEF held, gone, found, state
<1>8. ClientTypes'
  BY <1>1, <1>2, <1>4 DEF ClientInv, ClientTypes, state
<1>9. CallInv'
  BY <1>1 DEF ClientInv, CallInv, Registered
<1>10. AskInv'
  BY <1>1, <1>2, <1>5, <1>7, ItemsEmpty DEF ClientInv, AskInv, OnItsWay
<1>11. LinkInv'
  <2>1. link'.state = "connected" <=> link'.held
    BY <1>1, <1>2, <1>3 DEF state
  <2>2. link'.attempt # "none" => ~link'.held
    BY <1>1, <1>3, <2>1 DEF ClientInv, ClientTypes, LinkInv, held
  <2>3. link'.attempt # "ok" /\ (link'.held => held /\ ~gone)
    BY <1>1
  <2> QED BY <1>1, <1>6, <2>1, <2>2, <2>3 DEF LinkInv
<1> QED BY <1>8, <1>9, <1>10, <1>11 DEF ClientInv

LEMMA LinkClient ==
    ASSUME ClientInv, C!TimePasses \/ C!ReplaceBlockingDaemon
    PROVE  ClientInv'
<1>1. UNCHANGED <<call, asked, connected, reader, writer, waiters, nextId, outgoing, arrivals, net, wire,
                  replies, served>>
  BY DEF C!TimePasses, C!ReplaceBlockingDaemon, C!client, C!stream
<1>2. \/ link' = [link EXCEPT !.due = TRUE]
      \/ link.state = "blocked" /\ link' = [link EXCEPT !.state = "connecting", !.due = FALSE]
  BY DEF C!TimePasses, C!ReplaceBlockingDaemon
<1>3. link' \in [state : {"connecting", "connected", "lost", "blocked"}, due : BOOLEAN,
                 attempt : {"none", "running", "ok", "mismatch", "failed"}, held : BOOLEAN]
  BY <1>2 DEF ClientInv, ClientTypes
<1>4. /\ link'.held = link.held /\ link'.attempt = link.attempt
      /\ link'.state = link.state \/ (link.state = "blocked" /\ link'.state = "connecting")
  BY <1>2 DEF ClientInv, ClientTypes
<1>5. CallInv' /\ AskInv'
  BY <1>1, <1>4 DEF ClientInv, CallInv, Registered, AskInv, OnItsWay
<1>6. ClientTypes'
  BY <1>1, <1>3 DEF ClientInv, ClientTypes
<1>7. LinkInv'
  BY <1>1, <1>4 DEF ClientInv, LinkInv
<1> QED BY <1>5, <1>6, <1>7 DEF ClientInv

(* The daemon, and the loss of the connection. *)
LEMMA ServeClient == ASSUME ClientInv, C!Serve PROVE ClientInv'
<1> DEFINE id == Head(wire)
<1>1. /\ UNCHANGED <<link, call, asked, connected, reader, writer, waiters, nextId, outgoing, arrivals, net>>
      /\ wire # <<>> /\ wire' = Tail(wire)
      /\ \/ id = 0 /\ UNCHANGED <<replies, served>>
         \/ /\ id # 0 /\ served' = served \cup {id}
            /\ replies' = IF net = "up" THEN Append(replies, id) ELSE replies
  BY DEF C!Serve, C!ui, C!client, C!Write
<1>2. wire \in Seq(Nat) /\ replies \in Seq(Nat) /\ id \in Nat /\ Tail(wire) \in Seq(Nat)
  BY <1>1 DEF ClientInv, ClientTypes
<1>3. /\ Items(wire) = {id} \cup Items(Tail(wire))
      /\ Append(replies, id) \in Seq(Nat) /\ Items(Append(replies, id)) = Items(replies) \cup {id}
  BY <1>1, <1>2, ItemsTaken, ItemsAppend
<1> HIDE DEF id
<1>4. ClientTypes'
  <2>1. replies' \in Seq(Nat) /\ wire' \in Seq(Nat) /\ served' \subseteq Nat
    BY <1>1, <1>2, <1>3 DEF ClientInv, ClientTypes
  <2>2. UNCHANGED <<link, call, asked, connected, reader, writer, waiters, nextId, outgoing, arrivals, net>>
    BY <1>1
  <2> QED BY <2>1, <2>2 DEF ClientInv, ClientTypes
<1>5. CallInv' /\ LinkInv'
  BY <1>1 DEF ClientInv, CallInv, LinkInv, Registered
<1>6. AskInv'
  BY <1>1, <1>3 DEF ClientInv, ClientTypes, AskInv, OnItsWay
<1> QED BY <1>4, <1>5, <1>6 DEF ClientInv

LEMMA LoseClient == ASSUME ClientInv, C!Lose PROVE ClientInv'
<1>1. /\ UNCHANGED <<link, call, asked, connected, reader, writer, waiters, nextId, outgoing, arrivals, served>>
      /\ net' = "down" /\ wire' \in {wire, <<>>}
  BY DEF C!Lose, C!ui, C!client
<1>2. PICK n \in 0 .. Len(replies) : replies' = SubSeq(replies, 1, n)
  BY DEF C!Lose
<1>3. replies' \in Seq(Nat) /\ Items(replies') \subseteq Items(replies)
  BY <1>2, ItemsCut DEF ClientInv, ClientTypes
<1>4. ClientTypes'
  <2>1. wire' \in Seq(Nat)
    <3>1. wire \in Seq(Nat) /\ <<>> \in Seq(Nat)
      BY DEF ClientInv, ClientTypes
    <3> QED BY <1>1, <3>1
  <2>2. UNCHANGED <<link, call, asked, connected, reader, writer, waiters, nextId, outgoing, arrivals, served>>
    BY <1>1
  <2> QED BY <1>1, <1>3, <2>1, <2>2 DEF ClientInv, ClientTypes
<1> QED BY <1>1, <1>3, <1>4 DEF ClientInv, CallInv, Registered, AskInv, LinkInv

LEMMA NextClient == ASSUME ClientInv, C!Next PROVE ClientInv'
<1>1. CASE C!ProgramReads
  BY <1>1 DEF C!ProgramReads, C!ui, C!client, ClientInv, ClientTypes, CallInv, Registered, AskInv,
              OnItsWay, LinkInv
<1> QED BY <1>1, RequestClient, SendClient, WriterClient, ReadClient, ReaderEndsClient, AttemptClient,
           PollClient, LinkClient, ServeClient, LoseClient
    DEF C!Next, C!Request, C!Threads, C!Links

LEMMA ClientProperties ==
    ClientInv => C!FailsAtOnce /\ C!AnswersFindTheirAsker /\ C!LinkKnows
<1> SUFFICES ASSUME ClientInv PROVE C!FailsAtOnce /\ C!AnswersFindTheirAsker /\ C!LinkKnows
  OBVIOUS
<1>1. /\ \A i : C!Contains(outgoing, i) <=> i \in Items(outgoing)
      /\ \A i : C!Contains(wire, i) <=> i \in Items(wire)
      /\ \A i : C!Contains(replies, i) <=> i \in Items(replies)
      /\ \A i : C!Contains(arrivals, i) <=> i \in Items(arrivals)
  BY ItemsOf DEF ClientInv, ClientTypes
<1>2. C!FailsAtOnce
  BY DEF C!FailsAtOnce, C!WaitingAt, ClientInv, CallInv, Registered
<1>3. call.slot = "answer" => call.id \in served /\ call.id \notin asked
  BY DEF ClientInv, ClientTypes, CallInv, Registered, AskInv
<1>4. \A i \in DOMAIN replies : replies[i] \in served
  BY DEF ClientInv, AskInv, Items
<1>5. net = "up" /\ link.held =>
          \A id \in asked : \E q \in {outgoing, wire, replies, arrivals} : C!Contains(q, id)
  BY <1>1 DEF ClientInv, AskInv, OnItsWay
<1>6. C!LinkKnows
  BY <1>1 DEF C!LinkKnows, C!Disconnected, ClientInv, LinkInv
<1> QED BY <1>2, <1>3, <1>4, <1>5, <1>6 DEF C!AnswersFindTheirAsker

(* However the loss of a connection falls between the steps of a request, the
   request fails at once and leaves no waiter behind; an answer finds who
   asked for it, also one that comes too late; and the link, which a new
   connection is handed to only after it was made, misses no loss (client.rs
   request, reader thread; link.rs poll). *)
THEOREM ClientFailsAtOnce == Spec => []FailsAtOnce
<1>1. Init => (part = "client" => ClientInv)
  BY InitClient DEF Init
<1>2. (part = "client" => ClientInv) /\ [Next]_vars => (part = "client" => ClientInv)'
  <2>1. UNCHANGED CVars /\ ClientInv => ClientInv'
    BY DEF CVars, ClientInv, ClientTypes, CallInv, Registered, AskInv, OnItsWay, LinkInv
  <2> QED BY <2>1, NextClient DEF Next, vars
<1>3. (part = "client" => ClientInv) => FailsAtOnce
  BY ClientProperties DEF FailsAtOnce
<1> QED BY <1>1, <1>2, <1>3, PTL DEF Spec

(***************************************************************************)
(* The settings, the key bindings and the themes                           *)
(***************************************************************************)

(* Places of a list *)

\* How many of the places are not after this one.
Rank(places, i) == Cardinality({j \in places : j <= i})

LEMMA RankIs ==
    ASSUME NEW n \in Nat, NEW places \in SUBSET (1 .. n)
    PROVE  /\ IsFiniteSet(places) /\ Cardinality(places) \in Nat
           /\ \A i \in places : Rank(places, i) \in 1 .. Cardinality(places)
           /\ \A i, k \in places : i < k => Rank(places, i) < Rank(places, k)
<1>1. IsFiniteSet(places)
  <2>1. places \in SUBSET Nat /\ \A d \in places : d <= n
    OBVIOUS
  <2> QED BY <2>1, FS_BoundedSetOfNaturals
<1>2. ASSUME NEW i \in places
      PROVE  /\ {j \in places : j <= i} \subseteq places /\ {j \in places : j <= i} # {}
             /\ IsFiniteSet({j \in places : j <= i})
  <2>1. {j \in places : j <= i} \subseteq places /\ i \in {j \in places : j <= i}
    OBVIOUS
  <2> QED BY <1>1, <2>1, FS_Subset
<1>3. Cardinality(places) \in Nat
  BY <1>1, FS_CardinalityType
<1>4. ASSUME NEW i \in places PROVE Rank(places, i) \in 1 .. Cardinality(places)
  <2>1. PICK upto : upto = {j \in places : j <= i}
    OBVIOUS
  <2>2. upto \subseteq places /\ upto # {} /\ IsFiniteSet(upto)
    BY <1>2, <2>1
  <2>3. Cardinality(upto) \in Nat /\ Cardinality(upto) # 0
    BY <2>2, FS_CardinalityType, FS_EmptySet
  <2>4. Cardinality(upto) <= Cardinality(places)
    BY <1>1, <2>2, FS_Subset
  <2>5. Rank(places, i) = Cardinality(upto)
    BY <2>1 DEF Rank
  <2> QED BY <1>3, <2>3, <2>4, <2>5
<1>5. ASSUME NEW i \in places, NEW k \in places, i < k PROVE Rank(places, i) < Rank(places, k)
  <2>1. PICK low, high : low = {j \in places : j <= i} /\ high = {j \in places : j <= k}
    OBVIOUS
  <2>2. low \subseteq high /\ k \in high /\ k \notin low
    <3>1. i \in Int /\ k \in Int /\ \A j \in places : j \in Int
      OBVIOUS
    <3>2. (\A j \in places : j <= i => j <= k) /\ k <= k /\ ~(k <= i)
      BY <1>5, <3>1
    <3> QED BY <2>1, <3>2
  <2>3. IsFiniteSet(high)
    BY <1>2, <2>1
  <2>4. Cardinality(low) <= Cardinality(high) /\ (Cardinality(low) = Cardinality(high) => low = high)
    BY <2>2, <2>3, FS_Subset
  <2>5. Cardinality(low) # Cardinality(high)
    BY <2>2, <2>4
  <2>6. Rank(places, i) = Cardinality(low) /\ Rank(places, k) = Cardinality(high)
    BY <2>1 DEF Rank
  <2>7. Rank(places, i) \in Nat /\ Rank(places, k) \in Nat
    BY <1>3, <1>4
  <2> QED BY <2>4, <2>5, <2>6, <2>7
<1> QED BY <1>1, <1>3, <1>4, <1>5

LEMMA PlacesAre ==
    ASSUME NEW n \in Nat, NEW places \in SUBSET (1 .. n)
    PROVE  /\ P!Cardinality(places) = Cardinality(places)
           /\ \A m \in 1 .. Cardinality(places) :
                 P!PlaceOf(places, m) \in places /\ Rank(places, P!PlaceOf(places, m)) = m
           /\ \A i \in places : P!PlaceOf(places, Rank(places, i)) = i
<1>1. P!Cardinality(places) = Cardinality(places)
  BY DEF P!Cardinality, Cardinality
<1>2. \A i : P!Cardinality({j \in places : j <= i}) = Rank(places, i)
  BY DEF P!Cardinality, Cardinality, Rank
<1>3. \A m : P!PlaceOf(places, m) = CHOOSE i \in places : Rank(places, i) = m
  BY <1>2 DEF P!PlaceOf
<1>4. PICK rank : rank = [i \in places |-> Rank(places, i)]
  OBVIOUS
<1>5. PICK c \in Nat : c = Cardinality(places)
  BY RankIs
<1>6. rank \in [places -> 1 .. c] /\ \A i, k \in places : i < k => rank[i] < rank[k]
  BY <1>4, <1>5, RankIs
<1>7. \A i, k \in places : rank[i] = rank[k] => i = k
  BY <1>6
<1>8. rank \in Injection(places, 1 .. c)
  BY <1>6, <1>7 DEF Injection, IsInjective
<1>9. rank \in Surjection(places, 1 .. c)
  <2>1. IsFiniteSet(places)
    BY RankIs
  <2>2. IsFiniteSet(1 .. c) /\ Cardinality(1 .. c) = c
    <3>1. 1 \in Int /\ c \in Int /\ (1 > c => c = 0) /\ c - 1 + 1 = c
      OBVIOUS
    <3>2. IsFiniteSet(1 .. c) /\ Cardinality(1 .. c) = IF 1 > c THEN 0 ELSE c - 1 + 1
      BY <3>1, FS_Interval
    <3> QED BY <3>1, <3>2
  <2> QED BY <1>5, <1>8, <2>1, <2>2, FS_Injection
<1>10. \A m \in 1 .. c : \E i \in places : rank[i] = m
  BY <1>9 DEF Surjection
<1>11. ASSUME NEW m \in 1 .. c
       PROVE  P!PlaceOf(places, m) \in places /\ Rank(places, P!PlaceOf(places, m)) = m
  <2>1. \E i \in places : Rank(places, i) = m
    BY <1>4, <1>10
  <2> QED BY <1>3, <2>1
<1>12. ASSUME NEW i \in places PROVE P!PlaceOf(places, Rank(places, i)) = i
  <2>1. Rank(places, i) \in 1 .. c
    BY <1>5, RankIs
  <2>2. PICK k \in places : k = P!PlaceOf(places, Rank(places, i)) /\ Rank(places, k) = Rank(places, i)
    BY <1>11, <2>1
  <2> QED BY <1>4, <1>7, <2>2
<1> QED BY <1>1, <1>5, <1>11, <1>12

(* A set of places that is not empty has a first. *)
LEMMA FirstPlace ==
    ASSUME NEW n \in Nat, NEW places \in SUBSET (1 .. n), places # {}
    PROVE  \E i \in places : \A j \in places : i <= j
<1>1. PICK c \in Nat : c = Cardinality(places)
  BY RankIs
<1>2. /\ \A i \in places : Rank(places, i) \in 1 .. c
      /\ \A i, k \in places : i < k => Rank(places, i) < Rank(places, k)
  BY <1>1, RankIs
<1>3. 1 \in 1 .. c
  <2>1. PICK k \in places : TRUE
    OBVIOUS
  <2>2. PICK r : r = Rank(places, k)
    OBVIOUS
  <2>3. r \in 1 .. c
    BY <1>2, <2>2
  <2> QED BY <2>3
<1>4. PICK i \in places : Rank(places, i) = 1
  BY <1>1, <1>3, PlacesAre
<1>5. \A j \in places : j \in Int /\ ~(j < i)
  BY <1>2, <1>4
<1>6. \A j \in places : i <= j
  BY <1>5
<1> QED BY <1>6

(* What is picked of a list of chords: those at the places, in their order. *)
LEMMA PickedIs ==
    ASSUME NEW ks \in Seq(Chords), NEW places \in SUBSET (DOMAIN ks)
    PROVE  /\ P!Picked(ks, places) \in Seq(Chords)
           /\ \A i \in DOMAIN P!Picked(ks, places) : \E j \in places : P!Picked(ks, places)[i] = ks[j]
           /\ \A j \in places : \E i \in DOMAIN P!Picked(ks, places) : P!Picked(ks, places)[i] = ks[j]
           /\ (\A i, j \in places : ks[i] = ks[j] => i = j) => IsInjective(P!Picked(ks, places))
<1>1. PICK n \in Nat : n = Len(ks)
  OBVIOUS
<1>2. places \in SUBSET (1 .. n)
  BY <1>1
<1>3. PICK c \in Nat : c = Cardinality(places)
  BY <1>2, RankIs
<1>4. /\ P!Cardinality(places) = c
      /\ \A m \in 1 .. c : P!PlaceOf(places, m) \in places /\ Rank(places, P!PlaceOf(places, m)) = m
      /\ \A i \in places : P!PlaceOf(places, Rank(places, i)) = i
  BY <1>2, <1>3, PlacesAre
<1>5. \A i \in places : Rank(places, i) \in 1 .. c
  BY <1>2, <1>3, RankIs
<1>6. PICK p : p = P!Picked(ks, places)
  OBVIOUS
<1>7. p = [m \in 1 .. c |-> ks[P!PlaceOf(places, m)]]
  BY <1>4, <1>6 DEF P!Picked
<1>8. DOMAIN p = 1 .. c /\ \A m \in 1 .. c : p[m] = ks[P!PlaceOf(places, m)]
  BY <1>7
<1>9. \A m \in 1 .. c : ks[P!PlaceOf(places, m)] \in Chords
  BY <1>1, <1>2, <1>4
<1>10. p \in Seq(Chords)
  <2>1. p \in [1 .. c -> Chords]
    BY <1>7, <1>9
  <2> QED BY <2>1
<1>11. \A j \in places : \E i \in DOMAIN p : p[i] = ks[j]
  BY <1>4, <1>5, <1>8
<1>12. ASSUME \A i, j \in places : ks[i] = ks[j] => i = j PROVE IsInjective(p)
  <2>1. ASSUME NEW l \in 1 .. c, NEW m \in 1 .. c, p[l] = p[m] PROVE l = m
    <3>1. P!PlaceOf(places, l) = P!PlaceOf(places, m)
      BY <1>4, <1>8, <1>12, <2>1
    <3> QED BY <1>4, <3>1
  <2> QED BY <1>8, <2>1 DEF IsInjective
<1> QED BY <1>4, <1>6, <1>8, <1>10, <1>11, <1>12

LEMMA PickedAll ==
    ASSUME NEW ks \in Seq(Chords), NEW places, places = DOMAIN ks
    PROVE  P!Picked(ks, places) = ks
<1>1. PICK n \in Nat : n = Len(ks) /\ DOMAIN ks = 1 .. n
  OBVIOUS
<1>2. places \in SUBSET (1 .. n)
  BY <1>1
<1>3. \A b \in Nat : Cardinality(1 .. b) = b
  <2> SUFFICES ASSUME NEW b \in Nat PROVE Cardinality(1 .. b) = b
    OBVIOUS
  <2>1. 1 \in Int /\ b \in Int /\ (1 > b => b = 0) /\ b - 1 + 1 = b
    OBVIOUS
  <2>2. Cardinality(1 .. b) = IF 1 > b THEN 0 ELSE b - 1 + 1
    BY <2>1, FS_Interval
  <2> QED BY <2>1, <2>2
<1>4. \A i \in 1 .. n : Rank(places, i) = i
  <2> SUFFICES ASSUME NEW i \in 1 .. n PROVE Rank(places, i) = i
    OBVIOUS
  <2>1. {j \in 1 .. n : j <= i} = 1 .. i
    OBVIOUS
  <2>2. Rank(places, i) = Cardinality(1 .. i)
    BY <1>1, <2>1 DEF Rank
  <2> QED BY <1>3, <2>2
<1>5. /\ P!Cardinality(places) = n
      /\ \A i \in places : P!PlaceOf(places, Rank(places, i)) = i
  BY <1>1, <1>2, <1>3, PlacesAre
<1>6. \A m \in 1 .. n : P!PlaceOf(places, m) = m
  BY <1>1, <1>4, <1>5
<1>7. P!Picked(ks, places) = [m \in 1 .. n |-> ks[m]]
  BY <1>5, <1>6 DEF P!Picked
<1> QED BY <1>1, <1>7

-----------------------------------------------------------------------------
(* Lists of chords *)

\* Chords a command can have: each once, none that is the terminal's.
Clean(id, ks) ==
    ks \in Seq(Chords) /\ IsInjective(ks) /\ \A i \in DOMAIN ks : ~P!Refusal(id, ks[i])

\* The chord is among the list's.
Has(ks, chord) == \E i \in DOMAIN ks : ks[i] = chord

LEMMA RangeHas ==
    ASSUME NEW ks, NEW chord
    PROVE  chord \in P!Range(ks) <=> Has(ks, chord)
BY DEF P!Range, Has

LEMMA ReadClean == ASSUME NEW id, NEW ks \in Seq(Chords) PROVE Clean(id, P!Read(id, ks))
<1>1. PICK n \in Nat : DOMAIN ks = 1 .. n
  OBVIOUS
<1>2. PICK places : places = {i \in DOMAIN ks : ~P!Refusal(id, ks[i]) /\ \A j \in 1 .. i - 1 : ks[j] # ks[i]}
  OBVIOUS
<1>3. PICK p : p = P!Read(id, ks)
  OBVIOUS
<1>4. p = P!Picked(ks, places) /\ places \in SUBSET (DOMAIN ks)
  BY <1>2, <1>3 DEF P!Read
<1>5. \A i, j \in places : ks[i] = ks[j] => i = j
  <2> SUFFICES ASSUME NEW i \in places, NEW j \in places, ks[i] = ks[j] PROVE ~(i < j) /\ ~(j < i)
    BY <1>1, <1>4
  <2>1. i \in 1 .. n /\ j \in 1 .. n
    BY <1>1, <1>4
  <2>2. (i < j => i \in 1 .. j - 1) /\ (j < i => j \in 1 .. i - 1)
    BY <2>1
  <2> QED BY <1>2, <2>2
<1>6. /\ p \in Seq(Chords) /\ IsInjective(p)
      /\ \A i \in DOMAIN p : \E j \in places : p[i] = ks[j]
  BY <1>4, <1>5, PickedIs
<1>7. \A j \in places : ~P!Refusal(id, ks[j])
  BY <1>2
<1>8. \A i \in DOMAIN p : ~P!Refusal(id, p[i])
  BY <1>6, <1>7
<1> QED BY <1>3, <1>6, <1>8 DEF Clean

(* What is written of a command reads back as it was. *)
LEMMA ReadSame == ASSUME NEW id, NEW ks, Clean(id, ks) PROVE P!Read(id, ks) = ks
<1>1. ks \in Seq(Chords) /\ (\A i \in DOMAIN ks : ~P!Refusal(id, ks[i]))
      /\ \A i, j \in DOMAIN ks : ks[i] = ks[j] => i = j
  BY DEF Clean, IsInjective
<1>2. PICK n \in Nat : DOMAIN ks = 1 .. n
  BY <1>1
<1>3. PICK places : places = {i \in DOMAIN ks : ~P!Refusal(id, ks[i]) /\ \A j \in 1 .. i - 1 : ks[j] # ks[i]}
  OBVIOUS
<1>4. \A i \in 1 .. n : \A j \in 1 .. i - 1 : j \in 1 .. n /\ j # i
  OBVIOUS
<1>5. places = DOMAIN ks
  BY <1>1, <1>2, <1>3, <1>4
<1>6. P!Read(id, ks) = P!Picked(ks, places)
  BY <1>3 DEF P!Read
<1> QED BY <1>1, <1>5, <1>6, PickedAll

LEMMA WithoutIs ==
    ASSUME NEW id, NEW ks, NEW chord, Clean(id, ks)
    PROVE  /\ Clean(id, P!Without(ks, chord))
           /\ \A k : Has(P!Without(ks, chord), k) <=> Has(ks, k) /\ k # chord
<1>1. ks \in Seq(Chords) /\ (\A i \in DOMAIN ks : ~P!Refusal(id, ks[i]))
      /\ \A i, j \in DOMAIN ks : ks[i] = ks[j] => i = j
  BY DEF Clean, IsInjective
<1>2. PICK places : places = {i \in DOMAIN ks : ks[i] # chord}
  OBVIOUS
<1>3. PICK p : p = P!Without(ks, chord)
  OBVIOUS
<1>4. p = P!Picked(ks, places) /\ places \in SUBSET (DOMAIN ks)
  BY <1>2, <1>3 DEF P!Without
<1>5. \A i, j \in places : ks[i] = ks[j] => i = j
  BY <1>1, <1>4
<1>6. /\ p \in Seq(Chords) /\ IsInjective(p)
      /\ \A i \in DOMAIN p : \E j \in places : p[i] = ks[j]
      /\ \A j \in places : \E i \in DOMAIN p : p[i] = ks[j]
  BY <1>1, <1>4, <1>5, PickedIs
<1>7. \A i \in DOMAIN p : ~P!Refusal(id, p[i])
  BY <1>1, <1>4, <1>6
<1>8. \A k : Has(p, k) <=> Has(ks, k) /\ k # chord
  BY <1>2, <1>6 DEF Has
<1> QED BY <1>3, <1>6, <1>7, <1>8 DEF Clean

LEMMA AppendIs ==
    ASSUME NEW id, NEW ks, NEW chord \in Chords, Clean(id, ks), ~Has(ks, chord), ~P!Refusal(id, chord)
    PROVE  /\ Clean(id, Append(ks, chord))
           /\ \A k : Has(Append(ks, chord), k) <=> Has(ks, k) \/ k = chord
<1>1. ks \in Seq(Chords) /\ (\A i \in DOMAIN ks : ~P!Refusal(id, ks[i]) /\ ks[i] # chord)
      /\ \A i, j \in DOMAIN ks : ks[i] = ks[j] => i = j
  BY DEF Clean, IsInjective, Has
<1>2. PICK n \in Nat : n = Len(ks) /\ DOMAIN ks = 1 .. n
  BY <1>1
<1>3. PICK p : p = Append(ks, chord)
  OBVIOUS
<1>4. /\ p \in Seq(Chords) /\ DOMAIN p = 1 .. n + 1 /\ p[n + 1] = chord
      /\ \A i \in 1 .. n : p[i] = ks[i]
  BY <1>1, <1>2, <1>3
<1>5. \A i \in 1 .. n + 1 : i \in 1 .. n \/ i = n + 1
  OBVIOUS
<1>6. IsInjective(p)
  <2>1. ASSUME NEW i \in 1 .. n + 1, NEW j \in 1 .. n + 1, p[i] = p[j] PROVE i = j
    BY <1>1, <1>2, <1>4, <1>5, <2>1
  <2> QED BY <1>4, <2>1 DEF IsInjective
<1>7. \A i \in DOMAIN p : ~P!Refusal(id, p[i])
  BY <1>1, <1>2, <1>4, <1>5
<1>8. 1 .. n \subseteq 1 .. n + 1 /\ n + 1 \in 1 .. n + 1
  OBVIOUS
<1>9. \A k : Has(p, k) <=> Has(ks, k) \/ k = chord
  BY <1>2, <1>4, <1>5, <1>8 DEF Has
<1> QED BY <1>3, <1>4, <1>6, <1>7, <1>9 DEF Clean

-----------------------------------------------------------------------------
(* The inductive invariant *)

\* The settings' file and the settings in force.
Names == Themes \cup {"builtin"}
Setting == [number : Low .. High, theme : Names, extra : BOOLEAN]
SettingFile == [kind : {"absent", "malformed", "object"}, given : {"absent", "number", "wrong"},
                number : Int, theme : Names, extra : BOOLEAN]
SettingsTrue ==
    /\ settings \in Setting /\ settingsFile \in SettingFile
    /\ settingsFile.kind # "object" => settingsFile.given = "absent"
    /\ "settings" \notin byHand /\ settingsFile.kind # "malformed" =>
           settings = P!ReadSettings(settingsFile) /\ ~P!Coerce(settingsFile).corrected

\* The bindings in force: what is bound is clean, what waits for the user's word may be
\* bound, and what was bound last has no rival left.
Listing == {keysFile.bindings[c] : c \in DOMAIN keysFile.bindings}
Lone(map, id, chord) ==
    /\ id \in P!Cmds /\ Has(map[id], chord)
    /\ \A c \in P!Cmds \ {id} : P!SharesScope(c, id) => ~Has(map[c], chord)
KeysTrue ==
    /\ keymap \in [P!Cmds -> Seq(Chords)] /\ \A c \in P!Cmds : Clean(c, keymap[c])
    /\ Listing \subseteq Seq(Chords)
    /\ "keys" \notin byHand => keymap = P!Parse(keysFile)
    /\ pending # P!None => /\ pending.id \in P!Cmds /\ pending.chord \in Chords
                           /\ ~P!Refusal(pending.id, pending.chord)
    /\ bound # P!None => Lone(keymap, bound.id, bound.chord)

\* The themes in force and their files.
ThemesTrue ==
    /\ themes \in [Themes -> Nat] /\ themeFiles \in [Themes -> Nat] /\ themeEdits \in Nat
    /\ draft \in [theme : Themes \cup {"none"}, edit : Nat]
    /\ draft.theme = "none" => draft = P!NoDraft
    /\ "themes" \notin byHand =>
           \A t \in Themes : themes[t] = IF draft.theme = t /\ themeFiles[t] # 0 THEN draft.edit
                                         ELSE themeFiles[t]

PrefsInv == SettingsTrue /\ KeysTrue /\ ThemesTrue

-----------------------------------------------------------------------------
(* The key bindings *)

LEMMA DefaultsClean == ASSUME NEW c \in P!Cmds PROVE Clean(c, Defaults[c])
<1>1. /\ Defaults[c] \in Seq(Chords) /\ IsInjective(Defaults[c])
      /\ "terminal" \in Scopes[c] => Range(Defaults[c]) \cap Reserved = {}
  BY ChordsSound DEF P!Cmds, P!Range, Range
<1>2. \A i \in DOMAIN Defaults[c] : "terminal" \in Scopes[c] => Defaults[c][i] \notin Reserved
  BY <1>1 DEF Range
<1> QED BY <1>1, <1>2 DEF Clean, P!Refusal

\* A map of each command to chords it can have.
CleanMap(map) == map \in [P!Cmds -> Seq(Chords)] /\ \A c \in P!Cmds : Clean(c, map[c])

LEMMA ParseClean ==
    ASSUME NEW file, \A c \in DOMAIN file.bindings : file.bindings[c] \in Seq(Chords)
    PROVE  CleanMap(P!Parse(file))
<1>1. ASSUME NEW c \in P!Cmds PROVE Clean(c, P!Parse(file)[c]) /\ P!Parse(file)[c] \in Seq(Chords)
  <2>1. CASE c \in DOMAIN file.bindings
    <3>1. Clean(c, P!Read(c, file.bindings[c]))
      BY <2>1, ReadClean
    <3>2. P!Parse(file)[c] = P!Read(c, file.bindings[c])
      BY <2>1 DEF P!Parse
    <3> QED BY <3>1, <3>2 DEF Clean
  <2>2. CASE c \notin DOMAIN file.bindings
    <3>1. P!Parse(file)[c] = Defaults[c]
      BY <2>2 DEF P!Parse
    <3> QED BY <3>1, DefaultsClean DEF Clean
  <2> QED BY <2>1, <2>2
<1>2. P!Parse(file) = [c \in P!Cmds |-> P!Parse(file)[c]]
  BY DEF P!Parse
<1>3. P!Parse(file) \in [P!Cmds -> Seq(Chords)]
  BY <1>1, <1>2
<1> QED BY <1>1, <1>3 DEF CleanMap

(* What is written is what is read. *)
LEMMA WrittenIs ==
    ASSUME NEW map, CleanMap(map), NEW file
    PROVE  /\ P!Parse(P!WriteInto(map, file)) = map
           /\ \A c \in DOMAIN P!WriteInto(map, file).bindings :
                 P!WriteInto(map, file).bindings[c] \in Seq(Chords)
<1>1. PICK b : b = P!WriteInto(map, file).bindings
  OBVIOUS
<1>2. b = [c \in {c \in P!Cmds : map[c] # Defaults[c]} |-> map[c]]
  BY <1>1 DEF P!WriteInto, P!Restrict
<1>3. map \in [P!Cmds -> Seq(Chords)] /\ \A c \in P!Cmds : Clean(c, map[c])
  BY DEF CleanMap
<1>4. \A c \in DOMAIN b : b[c] \in Seq(Chords)
  BY <1>2, <1>3
<1>5. ASSUME NEW c \in P!Cmds PROVE P!Parse(P!WriteInto(map, file))[c] = map[c]
  <2>1. P!Parse(P!WriteInto(map, file))[c] = IF c \in DOMAIN b THEN P!Read(c, b[c]) ELSE Defaults[c]
    BY <1>1 DEF P!Parse
  <2>2. P!Read(c, map[c]) = map[c]
    BY <1>3, ReadSame
  <2> QED BY <1>2, <2>1, <2>2
<1>6. P!Parse(P!WriteInto(map, file)) = [c \in P!Cmds |-> P!Parse(P!WriteInto(map, file))[c]]
  BY DEF P!Parse
<1>7. map = [c \in P!Cmds |-> map[c]]
  BY <1>3
<1> QED BY <1>1, <1>4, <1>5, <1>6, <1>7

LEMMA KeysKept ==
    ASSUME KeysTrue, UNCHANGED <<keymap, keysFile, bound>>, pending' \in {pending, P!None},
           "keys" \in byHand => "keys" \in byHand'
    PROVE  KeysTrue'
BY DEF KeysTrue, Listing, P!None

LEMMA MapWritten ==
    ASSUME KeysTrue, CleanMap(keymap'), keysFile' = P!WriteInto(keymap', keysFile),
           pending' \in {pending, P!None}, bound' # P!None => Lone(keymap', bound'.id, bound'.chord)
    PROVE  KeysTrue'
<1>1. PICK map : map = keymap'
  OBVIOUS
<1>2. /\ P!Parse(keysFile') = keymap'
      /\ \A c \in DOMAIN keysFile'.bindings : keysFile'.bindings[c] \in Seq(Chords)
  <2>1. CleanMap(map) /\ keysFile' = P!WriteInto(map, keysFile)
    BY <1>1
  <2> QED BY <1>1, <2>1, WrittenIs
<1>3. Listing' \subseteq Seq(Chords)
  BY <1>2 DEF Listing
<1>4. pending' # P!None => /\ pending'.id \in P!Cmds /\ pending'.chord \in Chords
                          /\ ~P!Refusal(pending'.id, pending'.chord)
  BY DEF KeysTrue
<1> QED BY <1>2, <1>3, <1>4 DEF KeysTrue, CleanMap, P!None

LEMMA BoundIs ==
    ASSUME KeysTrue, NEW id \in P!Cmds, NEW chord \in Chords, ~P!Refusal(id, chord),
           NEW map, map = P!Bind(keymap, id, chord)
    PROVE  CleanMap(map) /\ Lone(map, id, chord)
<1>1. /\ keymap \in [P!Cmds -> Seq(Chords)] /\ \A c \in P!Cmds : Clean(c, keymap[c])
  BY DEF KeysTrue
<1>2. DOMAIN map = P!Cmds /\ map = [c \in P!Cmds |-> map[c]]
  BY DEF P!Bind
<1>3. map[id] = IF Has(keymap[id], chord) THEN keymap[id] ELSE Append(keymap[id], chord)
  BY RangeHas DEF P!Bind
<1>4. Clean(id, map[id]) /\ Has(map[id], chord)
  <2>1. CASE Has(keymap[id], chord)
    BY <1>1, <1>3, <2>1
  <2>2. CASE ~Has(keymap[id], chord)
    <3>1. Clean(id, Append(keymap[id], chord)) /\ Has(Append(keymap[id], chord), chord)
      BY <1>1, <2>2, AppendIs
    <3> QED BY <1>3, <2>2, <3>1
  <2> QED BY <2>1, <2>2
<1>5. ASSUME NEW c \in P!Cmds \ {id}
      PROVE  Clean(c, map[c]) /\ (P!SharesScope(c, id) => ~Has(map[c], chord))
  <2>1. map[c] = IF c \in P!Conflicts(keymap, id, chord) THEN P!Without(keymap[c], chord) ELSE keymap[c]
    BY DEF P!Bind
  <2>2. c \in P!Conflicts(keymap, id, chord) <=> P!SharesScope(c, id) /\ Has(keymap[c], chord)
    BY RangeHas DEF P!Conflicts
  <2>3. Clean(c, P!Without(keymap[c], chord)) /\ ~Has(P!Without(keymap[c], chord), chord)
    BY <1>1, WithoutIs
  <2> QED BY <1>1, <2>1, <2>2, <2>3
<1>6. CleanMap(map)
  <2>1. \A c \in P!Cmds : Clean(c, map[c]) /\ map[c] \in Seq(Chords)
    BY <1>4, <1>5 DEF Clean
  <2>2. map \in [P!Cmds -> Seq(Chords)]
    BY <1>2, <2>1
  <2> QED BY <2>1, <2>2 DEF CleanMap
<1> QED BY <1>4, <1>5, <1>6 DEF Lone

LEMMA BindKeys ==
    ASSUME KeysTrue, NEW id \in P!Cmds, NEW chord \in Chords, ~P!Refusal(id, chord),
           P!BindAndWrite(id, chord), pending' \in {pending, P!None}
    PROVE  KeysTrue'
<1>1. /\ keymap' = P!Bind(keymap, id, chord) /\ bound'.id = id /\ bound'.chord = chord
      /\ keysFile' = P!WriteInto(keymap', keysFile)
  BY DEF P!BindAndWrite
<1>2. PICK map : map = keymap'
  OBVIOUS
<1>3. CleanMap(map) /\ Lone(map, id, chord)
  BY <1>1, <1>2, BoundIs
<1>4. CleanMap(keymap') /\ Lone(keymap', bound'.id, bound'.chord)
  BY <1>1, <1>2, <1>3
<1> QED BY <1>1, <1>4, MapWritten

LEMMA CaptureKeys == ASSUME KeysTrue, NEW chord \in Chords, P!Capture(chord) PROVE KeysTrue'
<1>1. capturing \in P!Cmds /\ byHand' = byHand
  BY DEF P!Capture, P!Act
<1>2. CASE P!Refusal(capturing, chord)
  <2>1. UNCHANGED <<keymap, keysFile, bound, pending>>
    BY <1>2 DEF P!Capture
  <2> QED BY <1>1, <2>1, KeysKept
<1>3. CASE ~P!Refusal(capturing, chord) /\ P!Conflicts(keymap, capturing, chord) = {}
  <2>1. P!BindAndWrite(capturing, chord) /\ pending' = pending
    BY <1>3 DEF P!Capture
  <2> QED BY <1>1, <1>3, <2>1, BindKeys
<1>4. CASE ~P!Refusal(capturing, chord) /\ P!Conflicts(keymap, capturing, chord) # {}
  <2>1. pending' = [id |-> capturing, chord |-> chord] /\ UNCHANGED <<keymap, keysFile, bound>>
    BY <1>4 DEF P!Capture
  <2>2. pending'.id = capturing /\ pending'.chord = chord
    BY <2>1
  <2> QED BY <1>1, <1>4, <2>1, <2>2 DEF KeysTrue, Listing
<1> QED BY <1>2, <1>3, <1>4

LEMMA UnbindKeys == ASSUME KeysTrue, NEW id \in P!Cmds, P!Unbind(id) PROVE KeysTrue'
<1>1. /\ keymap \in [P!Cmds -> Seq(Chords)] /\ \A c \in P!Cmds : Clean(c, keymap[c])
  BY DEF KeysTrue
<1>2. PICK ks : keymap' = [keymap EXCEPT ![id] = ks] /\ Clean(id, ks)
  <2>1. CASE keymap' = [keymap EXCEPT ![id] = Defaults[id]]
    BY <2>1, DefaultsClean
  <2>2. ASSUME NEW k, keymap' = [keymap EXCEPT ![id] = P!Without(@, k)]
        PROVE  keymap' = [keymap EXCEPT ![id] = P!Without(keymap[id], k)]
               /\ Clean(id, P!Without(keymap[id], k))
    BY <1>1, <2>2, WithoutIs
  <2> QED BY <2>1, <2>2 DEF P!Unbind
<1>3. CleanMap(keymap')
  <2>1. ks \in Seq(Chords)
    BY <1>2 DEF Clean
  <2> QED BY <1>1, <1>2, <2>1 DEF CleanMap
<1>4. bound' = P!None /\ keysFile' = P!WriteInto(keymap', keysFile) /\ pending' = pending
  BY DEF P!Unbind, P!window
<1> QED BY <1>3, <1>4, MapWritten

LEMMA TakeInKeys == ASSUME KeysTrue, P!TakeIn PROVE KeysTrue'
<1>1. PICK news : /\ keymap' = IF "keys" \in news THEN P!Parse(keysFile) ELSE keymap
                  /\ bound' = IF keymap' = keymap THEN bound ELSE P!None
                  /\ byHand' = byHand \ news
  BY DEF P!TakeIn
<1>2. keysFile' = keysFile /\ pending' = pending
  BY DEF P!TakeIn, P!window
<1>3. CASE "keys" \in news
  <2>1. CleanMap(P!Parse(keysFile))
    <3>1. \A c \in DOMAIN keysFile.bindings : keysFile.bindings[c] \in Seq(Chords)
      BY DEF KeysTrue, Listing
    <3> QED BY <3>1, ParseClean
  <2>2. bound' # P!None => Lone(keymap', bound'.id, bound'.chord)
    BY <1>1 DEF KeysTrue
  <2>3. CleanMap(keymap') /\ keymap' = P!Parse(keysFile')
    BY <1>1, <1>2, <1>3, <2>1
  <2> QED BY <1>2, <2>2, <2>3 DEF KeysTrue, Listing, CleanMap, P!None
<1>4. CASE "keys" \notin news
  <2>1. UNCHANGED <<keymap, bound>> /\ ("keys" \in byHand => "keys" \in byHand')
    BY <1>1, <1>4
  <2> QED BY <1>2, <2>1, KeysKept
<1> QED BY <1>3, <1>4

Typed(id, ks) == [kind |-> "object", bindings |-> [c \in {id} |-> ks], extra |-> TRUE]

LEMMA TypedKeys ==
    P!HandKeys = {P!NoKeys("absent"), P!NoKeys("malformed")} \cup
                 {Typed(id, ks) : id \in P!Cmds, ks \in HandLists}
BY DEF P!HandKeys, Typed

\* What is typed into the file of the bindings lists chords.
LEMMA HandKeysListed ==
    ASSUME NEW file \in P!HandKeys PROVE \A c \in DOMAIN file.bindings : file.bindings[c] \in Seq(Chords)
<1>1. CASE file = P!NoKeys("absent") \/ file = P!NoKeys("malformed")
  <2>1. file.bindings = <<>>
    BY <1>1 DEF P!NoKeys
  <2> QED BY <2>1
<1>2. ASSUME NEW id \in P!Cmds, NEW ks \in HandLists, file = Typed(id, ks)
      PROVE  \A c \in DOMAIN file.bindings : file.bindings[c] \in Seq(Chords)
  <2>1. file.bindings = [c \in {id} |-> ks]
    BY <1>2 DEF Typed
  <2>2. ks \in Seq(Chords)
    BY ChordsSound
  <2> QED BY <2>1, <2>2
<1> QED BY <1>1, <1>2, TypedKeys

LEMMA HandKeysTrue == ASSUME KeysTrue, P!ByHand PROVE KeysTrue'
<1>1. UNCHANGED <<keymap, bound, pending>>
  BY DEF P!ByHand, P!window
<1>2. PICK which : /\ byHand' = byHand \cup {which}
                   /\ IF which = "keys" THEN keysFile' \in P!HandKeys ELSE keysFile' = keysFile
  BY DEF P!ByHand
<1>3. CASE which # "keys"
  BY <1>1, <1>2, <1>3, KeysKept
<1>4. CASE which = "keys"
  <2>1. \A c \in DOMAIN keysFile'.bindings : keysFile'.bindings[c] \in Seq(Chords)
    <3>1. keysFile' \in P!HandKeys
      BY <1>2, <1>4
    <3> QED BY <3>1, HandKeysListed
  <2>2. Listing' \subseteq Seq(Chords)
    BY <2>1 DEF Listing
  <2>3. "keys" \in byHand'
    BY <1>2, <1>4
  <2> QED BY <1>1, <2>2, <2>3 DEF KeysTrue
<1> QED BY <1>3, <1>4

LEMMA NextKeys == ASSUME KeysTrue, P!Next PROVE KeysTrue'
<1>1. ASSUME P!SetNumber \/ P!SetTheme \/ P!PickColour \/ P!Tick \/ P!Duplicate \/ P!DeleteTheme \/ P!Close
             \/ \E id \in P!Cmds : P!StartCapture(id)
      PROVE  KeysTrue'
  <2>1. UNCHANGED <<keymap, keysFile, bound, byHand>> /\ pending' \in {pending, P!None}
    BY <1>1 DEF P!SetNumber, P!SetTheme, P!PickColour, P!Tick, P!Duplicate, P!DeleteTheme, P!Close,
                P!StartCapture, P!Act, P!files, P!window
  <2> QED BY <2>1, KeysKept
<1>2. CASE P!Reassign
  <2>1. /\ pending # P!None /\ pending' = P!None /\ P!BindAndWrite(pending.id, pending.chord)
    BY <1>2 DEF P!Reassign
  <2>2. pending.id \in P!Cmds /\ pending.chord \in Chords /\ ~P!Refusal(pending.id, pending.chord)
    BY <2>1 DEF KeysTrue
  <2> QED BY <2>1, <2>2, BindKeys
<1> QED BY <1>1, <1>2, CaptureKeys, UnbindKeys, TakeInKeys, HandKeysTrue DEF P!Next, P!KeysPage, P!ThemesPage

-----------------------------------------------------------------------------
(* The settings *)

LEMMA ClampIs ==
    ASSUME NEW n \in Int
    PROVE  P!Clamp(n) \in Low .. High /\ (n \in Low .. High => P!Clamp(n) = n)
BY BoundsSound DEF P!Clamp

LEMMA CoercedIs ==
    ASSUME NEW file \in SettingFile
    PROVE  P!Coerce(file).number \in Low .. High
           /\ (file.given = "absent" => ~P!Coerce(file).corrected)
<1>1. file.number \in Int /\ file.given \in {"absent", "number", "wrong"}
  BY DEF SettingFile
<1>2. Normal \in Low .. High /\ P!Clamp(file.number) \in Low .. High
  BY <1>1, BoundsSound, ClampIs
<1>3. CASE file.given = "absent"
  <2>1. P!Coerce(file) = [number |-> Normal, corrected |-> FALSE]
    BY <1>3 DEF P!Coerce
  <2> QED BY <1>2, <2>1
<1>4. CASE file.given = "number"
  <2>1. P!Coerce(file) = [number |-> P!Clamp(file.number), corrected |-> P!Clamp(file.number) # file.number]
    BY <1>4 DEF P!Coerce
  <2> QED BY <1>2, <1>4, <2>1
<1>5. CASE file.given = "wrong"
  <2>1. P!Coerce(file) = [number |-> Normal, corrected |-> TRUE]
    BY <1>5 DEF P!Coerce
  <2> QED BY <1>2, <1>5, <2>1
<1> QED BY <1>1, <1>3, <1>4, <1>5

LEMMA ReadIs ==
    ASSUME NEW file \in SettingFile
    PROVE  P!ReadSettings(file) \in Setting
<1>1. file.theme \in Names /\ file.extra \in BOOLEAN
  BY DEF SettingFile
<1>2. P!Coerce(file).number \in Low .. High
  BY CoercedIs
<1> QED BY <1>1, <1>2 DEF P!ReadSettings, Setting

(* Settings written read back as they were, and nothing is to be corrected. *)
LEMMA JsonIs ==
    ASSUME NEW s \in Setting
    PROVE  /\ P!Json(s) \in SettingFile /\ P!Json(s).kind = "object"
           /\ P!ReadSettings(P!Json(s)) = s /\ ~P!Coerce(P!Json(s)).corrected
<1>1. s.number \in Low .. High /\ s.number \in Int /\ s.theme \in Names /\ s.extra \in BOOLEAN
      /\ s = [number |-> s.number, theme |-> s.theme, extra |-> s.extra]
  BY BoundsSound DEF Setting
<1>2. PICK f : f = P!Json(s)
  OBVIOUS
<1>3. f = [kind |-> "object", given |-> "number", number |-> s.number, theme |-> s.theme, extra |-> s.extra]
  BY <1>2 DEF P!Json
<1>4. f.kind = "object" /\ f.given = "number" /\ f.number = s.number /\ f.theme = s.theme /\ f.extra = s.extra
  BY <1>3
<1>5. f \in SettingFile
  BY <1>1, <1>3 DEF SettingFile
<1>6. P!Clamp(f.number) = f.number
  BY <1>1, <1>4, ClampIs
<1>7. P!Coerce(f) = [number |-> f.number, corrected |-> FALSE]
  BY <1>4, <1>6 DEF P!Coerce
<1>8. P!ReadSettings(f) = s
  BY <1>1, <1>4, <1>7 DEF P!ReadSettings
<1> QED BY <1>2, <1>4, <1>5, <1>7, <1>8

LEMMA SettingsKept ==
    ASSUME SettingsTrue, UNCHANGED <<settings, settingsFile>>, "settings" \in byHand => "settings" \in byHand'
    PROVE  SettingsTrue'
BY DEF SettingsTrue

LEMMA SettingsWritten ==
    ASSUME NEW s \in Setting, P!WriteSettings(s)
    PROVE  SettingsTrue'
<1>1. settingsFile' = P!Json(s) /\ settings' = s
  BY DEF P!WriteSettings
<1> QED BY <1>1, JsonIs DEF SettingsTrue

LEMMA ChangedSetting ==
    ASSUME SettingsTrue
    PROVE  /\ \A n \in Low .. High : [settings EXCEPT !.number = n] \in Setting
           /\ \A t \in Names : [settings EXCEPT !.theme = t] \in Setting
BY DEF SettingsTrue, Setting

LEMMA TakeInSettings == ASSUME SettingsTrue, P!TakeIn PROVE SettingsTrue'
<1>1. PICK news : /\ IF "settings" \in news THEN P!ReloadSettings ELSE UNCHANGED <<settings, settingsFile>>
                  /\ byHand' = byHand \ news
  BY DEF P!TakeIn
<1>2. CASE "settings" \notin news
  BY <1>1, <1>2, SettingsKept
<1>3. CASE "settings" \in news /\ settingsFile.kind = "malformed"
  <2>1. UNCHANGED <<settings, settingsFile>>
    BY <1>1, <1>3 DEF P!ReloadSettings
  <2> QED BY <1>3, <2>1 DEF SettingsTrue
<1>4. CASE "settings" \in news /\ settingsFile.kind # "malformed"
  <2>1. /\ settings' = P!ReadSettings(settingsFile)
        /\ settingsFile' = IF settingsFile.kind = "object" /\ P!Coerce(settingsFile).corrected
                           THEN P!Json(settings') ELSE settingsFile
    BY <1>1, <1>4 DEF P!ReloadSettings
  <2>2. settingsFile \in SettingFile /\ (settingsFile.kind # "object" => settingsFile.given = "absent")
    BY DEF SettingsTrue
  <2>3. PICK s \in Setting : s = P!ReadSettings(settingsFile)
    BY <2>2, ReadIs
  <2>4. CASE settingsFile.kind = "object" /\ P!Coerce(settingsFile).corrected
    <3>1. P!WriteSettings(s)
      BY <2>1, <2>3, <2>4 DEF P!WriteSettings
    <3> QED BY <3>1, SettingsWritten
  <2>5. CASE ~(settingsFile.kind = "object" /\ P!Coerce(settingsFile).corrected)
    <3>1. ~P!Coerce(settingsFile).corrected
      BY <2>2, <2>5, CoercedIs
    <3>2. settingsFile' = settingsFile /\ settings' \in Setting
      BY <2>1, <2>3, <2>5
    <3> QED BY <2>1, <2>2, <3>1, <3>2 DEF SettingsTrue
  <2> QED BY <2>4, <2>5
<1> QED BY <1>2, <1>3, <1>4

LEMMA HandSettingsTrue == ASSUME SettingsTrue, P!ByHand PROVE SettingsTrue'
<1>1. PICK which : /\ byHand' = byHand \cup {which}
                   /\ IF which = "settings" THEN settingsFile' \in P!HandSettings
                      ELSE settingsFile' = settingsFile
  BY DEF P!ByHand
<1>2. settings' = settings
  BY DEF P!ByHand
<1>3. CASE which # "settings"
  BY <1>1, <1>2, <1>3, SettingsKept
<1>4. CASE which = "settings"
  <2>1. settingsFile' \in P!HandSettings /\ "settings" \in byHand'
    BY <1>1, <1>4
  <2>2. settingsFile' \in SettingFile /\ (settingsFile'.kind # "object" => settingsFile'.given = "absent")
    <3>1. CASE settingsFile' \in {P!NoSettings("absent"), P!NoSettings("malformed")}
      <4>1. PICK k \in {"absent", "malformed"} : settingsFile' = P!NoSettings(k)
        BY <3>1
      <4>2. settingsFile' = [kind |-> k, given |-> "absent", number |-> 0, theme |-> "builtin", extra |-> FALSE]
        BY <4>1 DEF P!NoSettings
      <4>3. "builtin" \in Names /\ 0 \in Int
        BY DEF Names
      <4>4. settingsFile' \in SettingFile
        BY <4>1, <4>2, <4>3 DEF SettingFile
      <4> QED BY <4>2, <4>4
    <3>2. CASE settingsFile' \notin {P!NoSettings("absent"), P!NoSettings("malformed")}
      <4>1. PICK g \in {"absent", "number", "wrong"}, n \in Numbers, t \in Themes \cup {"builtin"} :
                settingsFile' = [kind |-> "object", given |-> g, number |-> n, theme |-> t, extra |-> TRUE]
        BY <2>1, <3>2 DEF P!HandSettings
      <4>2. n \in Int /\ t \in Names
        BY BoundsSound DEF Names
      <4> QED BY <4>1, <4>2 DEF SettingFile
    <3> QED BY <3>1, <3>2
  <2> QED BY <1>2, <2>1, <2>2 DEF SettingsTrue
<1> QED BY <1>3, <1>4

LEMMA NextSettings == ASSUME SettingsTrue, P!Next PROVE SettingsTrue'
<1>1. CASE P!SetNumber
  <2>1. PICK n \in Low .. High : P!WriteSettings([settings EXCEPT !.number = n])
    BY <1>1 DEF P!SetNumber
  <2> QED BY <2>1, ChangedSetting, SettingsWritten
<1>2. CASE P!SetTheme
  <2>1. PICK t \in Names : P!WriteSettings([settings EXCEPT !.theme = t])
    BY <1>2 DEF P!SetTheme, Names
  <2> QED BY <2>1, ChangedSetting, SettingsWritten
<1>3. CASE P!Duplicate
  <2>1. PICK t \in Names : P!WriteSettings([settings EXCEPT !.theme = t])
    BY <1>3 DEF P!Duplicate, Names
  <2> QED BY <2>1, ChangedSetting, SettingsWritten
<1>4. CASE P!DeleteTheme
  <2>1. CASE themeFiles[settings.theme] # 0
    <3>1. "builtin" \in Names /\ P!WriteSettings([settings EXCEPT !.theme = "builtin"])
      BY <1>4, <2>1 DEF P!DeleteTheme, Names
    <3> QED BY <3>1, ChangedSetting, SettingsWritten
  <2>2. CASE ~(themeFiles[settings.theme] # 0)
    <3>1. UNCHANGED <<settings, settingsFile, byHand>>
      BY <1>4, <2>2 DEF P!DeleteTheme, P!Act
    <3> QED BY <3>1, SettingsKept
  <2> QED BY <2>1, <2>2
<1>5. ASSUME P!PickColour \/ P!Tick \/ P!Close \/ P!KeysPage PROVE SettingsTrue'
  <2>1. UNCHANGED <<settings, settingsFile, byHand>>
    BY <1>5 DEF P!PickColour, P!Tick, P!Close, P!KeysPage, P!Reassign, P!StartCapture, P!Unbind, P!Capture,
                P!Act, P!files
  <2> QED BY <2>1, SettingsKept
<1> QED BY <1>1, <1>2, <1>3, <1>4, <1>5, TakeInSettings, HandSettingsTrue DEF P!Next, P!ThemesPage

-----------------------------------------------------------------------------
(* The themes *)

\* What a theme's file and its draft make of it.
InForce(read, edited, t) == IF edited.theme = t /\ read[t] # 0 THEN edited.edit ELSE read[t]
Drafts == [theme : Themes \cup {"none"}, edit : Nat]

LEMMA DraftIs ==
    ASSUME ThemesTrue
    PROVE  /\ draft.theme \in Themes \cup {"none"} /\ draft.edit \in Nat /\ "none" \notin Themes
           /\ draft # P!NoDraft <=> draft.theme \in Themes
           /\ P!NoDraft \in Drafts /\ P!NoDraft.theme = "none"
<1>1. draft.theme \in Themes \cup {"none"} /\ draft.edit \in Nat /\ "none" \notin Themes
  BY ThemesNamed DEF ThemesTrue
<1>2. P!NoDraft.theme = "none" /\ P!NoDraft \in Drafts
  BY DEF P!NoDraft, Drafts
<1>3. draft.theme = "none" => draft = P!NoDraft
  BY DEF ThemesTrue
<1> QED BY <1>1, <1>2, <1>3

LEMMA ThemesKept ==
    ASSUME ThemesTrue, UNCHANGED <<themes, themeFiles, draft, themeEdits>>,
           "themes" \in byHand => "themes" \in byHand'
    PROVE  ThemesTrue'
BY DEF ThemesTrue, P!NoDraft

LEMMA ThemesAre ==
    ASSUME themes' \in [Themes -> Nat], themeFiles' \in [Themes -> Nat], themeEdits' \in Nat,
           draft' \in Drafts, draft'.theme = "none" => draft' = P!NoDraft,
           "themes" \notin byHand' => \A t \in Themes : themes'[t] = InForce(themeFiles', draft', t)
    PROVE  ThemesTrue'
BY DEF ThemesTrue, InForce, Drafts, P!NoDraft

(* A draft is written. *)
LEMMA DraftSaved ==
    ASSUME ThemesTrue, draft # P!NoDraft, draft' = P!NoDraft, P!SaveTheme(draft.theme, draft.edit),
           byHand' = byHand, themeEdits' = themeEdits
    PROVE  ThemesTrue'
<1>1. /\ themeFiles' = [themeFiles EXCEPT ![draft.theme] = draft.edit]
      /\ themes' = [themes EXCEPT ![draft.theme] = draft.edit]
  BY DEF P!SaveTheme
<1>2. themes \in [Themes -> Nat] /\ themeFiles \in [Themes -> Nat] /\ themeEdits \in Nat
  BY DEF ThemesTrue
<1>3. draft.theme \in Themes /\ draft.edit \in Nat /\ draft' \in Drafts /\ draft'.theme = "none"
      /\ "none" \notin Themes
  BY DraftIs
<1>4. "themes" \notin byHand => \A t \in Themes : t # draft.theme => themes[t] = themeFiles[t]
  BY DEF ThemesTrue
<1>5. "themes" \notin byHand' => \A t \in Themes : themes'[t] = InForce(themeFiles', draft', t)
  <2> SUFFICES ASSUME "themes" \notin byHand', NEW t \in Themes
               PROVE  themes'[t] = InForce(themeFiles', draft', t)
    OBVIOUS
  <2>1. InForce(themeFiles', draft', t) = themeFiles'[t]
    BY <1>3 DEF InForce
  <2>2. CASE t = draft.theme
    BY <1>1, <1>2, <2>1, <2>2
  <2>3. CASE t # draft.theme
    BY <1>1, <1>2, <1>4, <2>1, <2>3
  <2> QED BY <2>2, <2>3
<1>6. themes' \in [Themes -> Nat] /\ themeFiles' \in [Themes -> Nat]
  BY <1>1, <1>2, <1>3
<1> QED BY <1>2, <1>3, <1>5, <1>6, ThemesAre

LEMMA TakeInThemes == ASSUME ThemesTrue, P!TakeIn PROVE ThemesTrue'
<1>1. PICK news : /\ IF "themes" \in news THEN P!ReloadThemes ELSE themes' = themes
                  /\ byHand' = byHand \ news
  BY DEF P!TakeIn
<1>2. UNCHANGED <<themeFiles, draft, themeEdits>>
  BY DEF P!TakeIn, P!window
<1>3. CASE "themes" \notin news
  <2>1. themes' = themes /\ ("themes" \in byHand => "themes" \in byHand')
    BY <1>1, <1>3
  <2> QED BY <1>2, <2>1, ThemesKept
<1>4. CASE "themes" \in news
  <2>1. themes' = IF draft # P!NoDraft /\ themeFiles[draft.theme] # 0
                  THEN [themeFiles EXCEPT ![draft.theme] = draft.edit] ELSE themeFiles
    BY <1>1, <1>4 DEF P!ReloadThemes, P!Reapply
  <2>2. themeFiles \in [Themes -> Nat] /\ themeEdits \in Nat /\ draft \in Drafts
        /\ (draft.theme = "none" => draft = P!NoDraft)
    BY DEF ThemesTrue, Drafts
  <2>3. draft.edit \in Nat /\ (draft # P!NoDraft <=> draft.theme \in Themes)
    BY DraftIs
  <2>4. themes' \in [Themes -> Nat]
    BY <2>1, <2>2, <2>3
  <2>5. \A t \in Themes : themes'[t] = InForce(themeFiles, draft, t)
    BY <2>1, <2>2, <2>3 DEF InForce
  <2> QED BY <1>2, <2>2, <2>4, <2>5, ThemesAre
<1> QED BY <1>3, <1>4

LEMMA PickTheme == ASSUME ThemesTrue, P!PickColour PROVE ThemesTrue'
<1>1. PICK u \in Themes : u = settings.theme /\ themes[u] # 0
  BY DEF P!PickColour, P!Editable
<1>2. /\ themeEdits' = themeEdits + 1 /\ draft' = [theme |-> u, edit |-> themeEdits']
      /\ themes' = [themes EXCEPT ![u] = themeEdits'] /\ themeFiles' = themeFiles /\ byHand' = byHand
      /\ draft.theme \in {"none", u}
  BY <1>1 DEF P!PickColour, P!DraftOnScreen, P!OnScreen, P!Editable, P!Act, P!files
<1>3. themes \in [Themes -> Nat] /\ themeFiles \in [Themes -> Nat] /\ themeEdits \in Nat
  BY DEF ThemesTrue
<1>4. PICK e \in Nat : e = themeEdits'
  BY <1>2, <1>3
<1>5. draft'.theme = u /\ draft'.edit = e /\ draft' \in Drafts /\ "none" \notin Themes
  BY <1>2, <1>4, DraftIs DEF Drafts
<1>6. "themes" \notin byHand' => \A t \in Themes : themes'[t] = InForce(themeFiles', draft', t)
  <2> SUFFICES ASSUME "themes" \notin byHand', NEW t \in Themes
               PROVE  themes'[t] = InForce(themeFiles', draft', t)
    OBVIOUS
  <2>1. \A v \in Themes : themes[v] = InForce(themeFiles, draft, v)
    BY <1>2 DEF ThemesTrue, InForce
  <2>2. themeFiles[u] # 0
    BY <1>1, <2>1 DEF InForce
  <2>3. CASE t = u
    BY <1>2, <1>3, <1>4, <1>5, <2>2, <2>3 DEF InForce
  <2>4. CASE t # u
    <3>1. t # "none" /\ InForce(themeFiles, draft, t) = themeFiles[t]
      BY <1>2, <1>5, <2>4 DEF InForce
    <3> QED BY <1>2, <1>3, <1>5, <2>1, <2>4, <3>1 DEF InForce
  <2> QED BY <2>3, <2>4
<1>7. themes' \in [Themes -> Nat] /\ themeFiles' \in [Themes -> Nat] /\ themeEdits' \in Nat
  BY <1>2, <1>3, <1>4
<1> QED BY <1>5, <1>6, <1>7, ThemesAre

LEMMA DuplicateTheme == ASSUME ThemesTrue, P!Duplicate PROVE ThemesTrue'
<1>1. PICK u \in Themes : /\ themes[u] = 0 /\ themeFiles[u] = 0 /\ themeEdits' = themeEdits + 1
                           /\ P!SaveTheme(u, themeEdits')
  BY DEF P!Duplicate
<1>2. /\ themeFiles' = [themeFiles EXCEPT ![u] = themeEdits'] /\ themes' = [themes EXCEPT ![u] = themeEdits']
      /\ byHand' = byHand /\ draft' = draft /\ draft.theme \in {"none", P!OnScreen}
  BY <1>1 DEF P!SaveTheme, P!Duplicate, P!DraftOnScreen, P!Act, P!window
<1>3. themes \in [Themes -> Nat] /\ themeFiles \in [Themes -> Nat] /\ themeEdits \in Nat /\ draft \in Drafts
      /\ (draft.theme = "none" => draft = P!NoDraft)
  BY DEF ThemesTrue, Drafts
<1>4. PICK e \in Nat : e = themeEdits'
  BY <1>1, <1>3
<1>5. draft.theme # u
  <2>1. "none" \notin Themes /\ "builtin" \notin Themes
    BY ThemesNamed
  <2>2. P!OnScreen # u
    BY <1>1, <2>1 DEF P!OnScreen, P!Editable
  <2> QED BY <1>2, <2>1, <2>2
<1>6. "themes" \notin byHand' => \A t \in Themes : themes'[t] = InForce(themeFiles', draft', t)
  <2> SUFFICES ASSUME "themes" \notin byHand', NEW t \in Themes
               PROVE  themes'[t] = InForce(themeFiles', draft', t)
    OBVIOUS
  <2>1. themes[t] = InForce(themeFiles, draft, t)
    BY <1>2 DEF ThemesTrue, InForce
  <2>2. CASE t = u
    BY <1>2, <1>3, <1>4, <1>5, <2>2 DEF InForce
  <2>3. CASE t # u
    BY <1>2, <1>3, <2>1, <2>3 DEF InForce
  <2> QED BY <2>2, <2>3
<1>7. themes' \in [Themes -> Nat] /\ themeFiles' \in [Themes -> Nat] /\ themeEdits' \in Nat
  BY <1>2, <1>3, <1>4
<1> QED BY <1>2, <1>3, <1>6, <1>7, ThemesAre

LEMMA DeleteThemes == ASSUME ThemesTrue, P!DeleteTheme PROVE ThemesTrue'
<1>1. PICK u \in Themes : u = settings.theme /\ themes[u] # 0
  BY DEF P!DeleteTheme, P!Editable
<1>2. /\ draft' = P!NoDraft /\ byHand' = byHand /\ themeEdits' = themeEdits /\ draft.theme \in {"none", u}
      /\ \/ /\ themeFiles' = [themeFiles EXCEPT ![u] = 0] /\ themes' = [themes EXCEPT ![u] = 0]
         \/ themeFiles[u] = 0 /\ UNCHANGED <<themeFiles, themes>>
  BY <1>1 DEF P!DeleteTheme, P!DraftOnScreen, P!OnScreen, P!Editable, P!Act
<1>3. themes \in [Themes -> Nat] /\ themeFiles \in [Themes -> Nat] /\ themeEdits \in Nat
  BY DEF ThemesTrue
<1>4. draft' \in Drafts /\ draft'.theme = "none" /\ "none" \notin Themes
  BY <1>2, DraftIs
<1>5. "themes" \notin byHand' => \A t \in Themes : themes'[t] = InForce(themeFiles', draft', t)
  <2> SUFFICES ASSUME "themes" \notin byHand', NEW t \in Themes
               PROVE  themes'[t] = InForce(themeFiles', draft', t)
    OBVIOUS
  <2>1. \A v \in Themes : themes[v] = InForce(themeFiles, draft, v)
    BY <1>2 DEF ThemesTrue, InForce
  <2>2. themeFiles[u] # 0
    BY <1>1, <2>1 DEF InForce
  <2>3. themeFiles' = [themeFiles EXCEPT ![u] = 0] /\ themes' = [themes EXCEPT ![u] = 0]
    BY <1>2, <2>2
  <2>4. InForce(themeFiles', draft', t) = themeFiles'[t]
    BY <1>4 DEF InForce
  <2>5. CASE t = u
    BY <1>3, <2>3, <2>4, <2>5
  <2>6. CASE t # u
    <3>1. InForce(themeFiles, draft, t) = themeFiles[t]
      BY <1>2, <1>4, <2>6 DEF InForce
    <3> QED BY <1>3, <2>1, <2>3, <2>4, <2>6, <3>1
  <2> QED BY <2>5, <2>6
<1>6. themes' \in [Themes -> Nat] /\ themeFiles' \in [Themes -> Nat]
  BY <1>2, <1>3
<1> QED BY <1>2, <1>3, <1>4, <1>5, <1>6, ThemesAre

LEMMA HandThemesTrue == ASSUME ThemesTrue, P!ByHand PROVE ThemesTrue'
<1>1. PICK which : /\ byHand' = byHand \cup {which}
                   /\ IF which = "themes"
                      THEN /\ themeEdits' = themeEdits + 1
                           /\ \E t \in Themes :
                                 themeFiles' \in {[themeFiles EXCEPT ![t] = e] : e \in {0, themeEdits + 1}}
                      ELSE UNCHANGED <<themeFiles, themeEdits>>
  BY DEF P!ByHand
<1>2. themes' = themes /\ draft' = draft
  BY DEF P!ByHand, P!window
<1>3. CASE which # "themes"
  BY <1>1, <1>2, <1>3, ThemesKept
<1>4. CASE which = "themes"
  <2>1. "themes" \in byHand' /\ themeEdits' = themeEdits + 1
    BY <1>1, <1>4
  <2>2. PICK t \in Themes, e \in {0, themeEdits + 1} : themeFiles' = [themeFiles EXCEPT ![t] = e]
    BY <1>1, <1>4
  <2>3. themes \in [Themes -> Nat] /\ themeFiles \in [Themes -> Nat] /\ themeEdits \in Nat /\ draft \in Drafts
        /\ (draft.theme = "none" => draft = P!NoDraft)
    BY DEF ThemesTrue, Drafts
  <2>4. themeEdits' \in Nat /\ e \in Nat
    BY <2>1, <2>2, <2>3
  <2>5. themeFiles' \in [Themes -> Nat]
    BY <2>2, <2>3, <2>4
  <2> QED BY <1>2, <2>1, <2>3, <2>4, <2>5, ThemesAre
<1> QED BY <1>3, <1>4

LEMMA NextThemes == ASSUME ThemesTrue, P!Next PROVE ThemesTrue'
<1>1. CASE P!Tick
  <2>1. /\ draft # P!NoDraft /\ draft' = P!NoDraft /\ P!SaveTheme(draft.theme, draft.edit)
        /\ byHand' = byHand /\ themeEdits' = themeEdits
    BY <1>1 DEF P!Tick
  <2> QED BY <2>1, DraftSaved
<1>2. CASE P!Close
  <2>1. draft' = P!NoDraft /\ byHand' = byHand /\ themeEdits' = themeEdits
    BY <1>2 DEF P!Close, P!Act
  <2>2. CASE draft = P!NoDraft
    <3>1. UNCHANGED <<themeFiles, themes>>
      BY <1>2, <2>2 DEF P!Close
    <3> QED BY <2>1, <2>2, <3>1, ThemesKept
  <2>3. CASE draft # P!NoDraft
    <3>1. P!SaveTheme(draft.theme, draft.edit)
      BY <1>2, <2>3 DEF P!Close
    <3> QED BY <2>1, <2>3, <3>1, DraftSaved
  <2> QED BY <2>2, <2>3
<1>3. ASSUME P!SetNumber \/ P!SetTheme \/ P!KeysPage PROVE ThemesTrue'
  <2>1. UNCHANGED <<themes, themeFiles, draft, themeEdits, byHand>>
    BY <1>3 DEF P!SetNumber, P!SetTheme, P!KeysPage, P!Reassign, P!StartCapture, P!Unbind, P!Capture,
                P!Act, P!files, P!window
  <2> QED BY <2>1, ThemesKept
<1> QED BY <1>1, <1>2, <1>3, PickTheme, DuplicateTheme, DeleteThemes, TakeInThemes, HandThemesTrue
        DEF P!Next, P!ThemesPage

-----------------------------------------------------------------------------
(* The invariant *)

LEMMA InitPrefs == P!Init => PrefsInv
<1> SUFFICES ASSUME P!Init PROVE PrefsInv
  OBVIOUS
<1>1. SettingsTrue
  <2>1. PICK none : none = P!NoSettings("absent")
    OBVIOUS
  <2>2. \A k \in {"absent", "malformed"} : P!NoSettings(k) \in SettingFile /\ P!NoSettings(k).given = "absent"
                                          /\ P!NoSettings(k).kind = k
    <3>1. "builtin" \in Names /\ 0 \in Int
      BY DEF Names
    <3> QED BY <3>1 DEF P!NoSettings, SettingFile
  <2>3. PICK s \in Setting : s = P!ReadSettings(none)
    BY <2>1, <2>2, ReadIs
  <2>4. settings = s /\ (settingsFile = P!NoSettings("malformed") \/ settingsFile = P!Json(s))
    BY <2>1, <2>3 DEF P!Init
  <2>5. CASE settingsFile = P!NoSettings("malformed")
    BY <2>2, <2>4, <2>5 DEF SettingsTrue
  <2>6. CASE settingsFile = P!Json(s)
    BY <2>4, <2>6, JsonIs DEF SettingsTrue
  <2> QED BY <2>4, <2>5, <2>6
<1>2. KeysTrue
  <2>1. keysFile.bindings = <<>> /\ keymap = P!Parse(keysFile) /\ pending = P!None /\ bound = P!None
    BY DEF P!Init, P!NoKeys
  <2>2. DOMAIN keysFile.bindings = {}
    BY <2>1
  <2>3. CleanMap(keymap)
    BY <2>1, <2>2, ParseClean
  <2> QED BY <2>1, <2>2, <2>3 DEF KeysTrue, CleanMap, Listing
<1>3. ThemesTrue
  <2>1. themeFiles = [t \in Themes |-> 0] /\ themes = themeFiles /\ themeEdits = 0 /\ draft = P!NoDraft
    BY DEF P!Init
  <2>2. draft \in [theme : Themes \cup {"none"}, edit : Nat] /\ draft.theme = "none" /\ "none" \notin Themes
    BY <2>1, ThemesNamed DEF P!NoDraft
  <2> QED BY <2>1, <2>2 DEF ThemesTrue
<1> QED BY <1>1, <1>2, <1>3 DEF PrefsInv

LEMMA PrefsProperties == PrefsInv => P!FilesInForce /\ P!ChordsRun
<1> SUFFICES ASSUME PrefsInv PROVE P!FilesInForce /\ P!ChordsRun
  OBVIOUS
<1>1. P!FilesInForce
  BY DEF PrefsInv, SettingsTrue, KeysTrue, ThemesTrue, P!FilesInForce
<1>2. ASSUME bound # P!None, NEW s \in Scopes[bound.id] PROVE P!Lookup(keymap, bound.chord, s) = bound.id
  <2>1. PICK id, chord : id = bound.id /\ chord = bound.chord
    OBVIOUS
  <2>2. Lone(keymap, id, chord)
    BY <1>2, <2>1 DEF PrefsInv, KeysTrue
  <2>3. PICK n \in Nat : DOMAIN Commands = 1 .. n
    BY ChordsSound
  <2>4. PICK holders : holders = P!Holders(keymap, chord, s)
    OBVIOUS
  <2>5. \A i : i \in holders <=> i \in 1 .. n /\ s \in Scopes[Commands[i]] /\ Has(keymap[Commands[i]], chord)
    BY <2>3, <2>4, RangeHas DEF P!Holders
  <2>6. \A i \in 1 .. n : Commands[i] \in P!Cmds
    BY <2>3 DEF P!Cmds, P!Range
  <2>7. \A i \in holders : Commands[i] = id
    <3> SUFFICES ASSUME NEW i \in holders, Commands[i] # id PROVE FALSE
      OBVIOUS
    <3>1. s \in Scopes[Commands[i]] /\ s \in Scopes[id]
      BY <1>2, <2>1, <2>5
    <3>2. P!SharesScope(Commands[i], id)
      BY <3>1 DEF P!SharesScope
    <3> QED BY <2>2, <2>5, <2>6, <3>2 DEF Lone
  <2>8. holders # {} /\ holders \subseteq 1 .. n
    <3>1. PICK i \in 1 .. n : Commands[i] = id
      BY <2>2, <2>3 DEF Lone, P!Cmds, P!Range
    <3>2. Has(keymap[id], chord) /\ s \in Scopes[id]
      BY <1>2, <2>1, <2>2 DEF Lone
    <3> QED BY <2>5, <3>1, <3>2
  <2>9. \E i \in holders : \A j \in holders : i <= j
    BY <2>8, FirstPlace
  <2>10. P!Min(holders) \in holders
    BY <2>9 DEF P!Min
  <2> QED BY <2>1, <2>4, <2>7, <2>8, <2>10 DEF P!Lookup
<1>3. ASSUME NEW c \in P!Cmds, "terminal" \in Scopes[c] PROVE P!Range(keymap[c]) \cap Reserved = {}
  <2>1. \A i \in DOMAIN keymap[c] : keymap[c][i] \notin Reserved
    BY <1>3 DEF PrefsInv, KeysTrue, Clean, P!Refusal
  <2> QED BY <2>1 DEF P!Range
<1> QED BY <1>1, <1>2, <1>3 DEF P!ChordsRun

(* However the window's pages, its frames, the edits by hand and the watch that
   takes them in meet: what is in force is what the files say but for what was
   edited by hand and not yet taken in, so the app's own writes change nothing
   when they are taken in; and a chord bound runs its command wherever that is
   live, though the bindings changed while the user was asked about its rivals
   (settings.rs read, to_json; keymap.rs parse, write_into, bind, lookup;
   themes.rs, prefs.rs). *)
THEOREM FilesStayInForce == Spec => []FilesInForce
<1>1. Init => (part = "prefs" => PrefsInv)
  BY InitPrefs DEF Init
<1>2. (part = "prefs" => PrefsInv) /\ [Next]_vars => (part = "prefs" => PrefsInv)'
  <2>1. UNCHANGED PVars /\ PrefsInv => PrefsInv'
    BY SettingsKept, KeysKept, ThemesKept DEF PVars, PrefsInv
  <2>2. P!Next /\ PrefsInv => PrefsInv'
    BY NextSettings, NextKeys, NextThemes DEF PrefsInv
  <2> QED BY <2>1, <2>2 DEF Next, vars
<1>3. (part = "prefs" => PrefsInv) => FilesInForce
  BY PrefsProperties DEF FilesInForce
<1> QED BY <1>1, <1>2, <1>3, PTL DEF Spec

(***************************************************************************)
(* The file list and Quick Open                                            *)
(***************************************************************************)
LEMMA InOrderIs ==
    ASSUME NEW n \in Nat, NEW places \in SUBSET (1 .. n)
    PROVE  /\ I!InOrder(places) \in Seq(places)
           /\ \A i, k \in DOMAIN I!InOrder(places) : I!InOrder(places)[i] = I!InOrder(places)[k] => i = k
           /\ \A p \in places : \E i \in DOMAIN I!InOrder(places) : I!InOrder(places)[i] = p
<1>1. PICK c \in Nat : c = Cardinality(places)
  BY RankIs
<1>2. \A set : I!Cardinality(set) = Cardinality(set)
  BY DEF I!Cardinality, Cardinality
<1>3. \A m : P!PlaceOf(places, m) = CHOOSE i \in places : Rank(places, i) = m
  <2>1. \A i : P!Cardinality({j \in places : j <= i}) = Rank(places, i)
    BY DEF P!Cardinality, Cardinality, Rank
  <2> QED BY <2>1 DEF P!PlaceOf
<1>4. \A m : (CHOOSE i \in places : I!Cardinality({j \in places : j <= i}) = m) = P!PlaceOf(places, m)
  <2>1. \A i : I!Cardinality({j \in places : j <= i}) = Rank(places, i)
    BY DEF I!Cardinality, Cardinality, Rank
  <2>2. \A m : (CHOOSE i \in places : I!Cardinality({j \in places : j <= i}) = m)
               = CHOOSE i \in places : Rank(places, i) = m
    BY <2>1
  <2> QED BY <1>3, <2>2
<1>5. /\ \A m \in 1 .. c : P!PlaceOf(places, m) \in places /\ Rank(places, P!PlaceOf(places, m)) = m
      /\ \A i \in places : P!PlaceOf(places, Rank(places, i)) = i
  BY <1>1, PlacesAre
<1>6. PICK s : s = I!InOrder(places)
  OBVIOUS
<1>7. DOMAIN s = 1 .. c /\ (\A m \in 1 .. c : s[m] = P!PlaceOf(places, m)) /\ s \in [1 .. c -> places]
  <2>1. s = [m \in 1 .. c |-> CHOOSE i \in places : I!Cardinality({j \in places : j <= i}) = m]
    BY <1>1, <1>2, <1>6 DEF I!InOrder
  <2>2. \A m \in 1 .. c : s[m] = P!PlaceOf(places, m)
    BY <1>4, <2>1
  <2> QED BY <1>5, <2>1, <2>2
<1>8. s \in Seq(places)
  BY <1>7
<1>9. \A i, k \in DOMAIN s : s[i] = s[k] => i = k
  BY <1>5, <1>7
<1>10. \A p \in places : \E i \in DOMAIN s : s[i] = p
  <2>1. \A p \in places : Rank(places, p) \in 1 .. c
    BY <1>1, RankIs
  <2> QED BY <1>5, <1>7, <2>1
<1> QED BY <1>6, <1>8, <1>9, <1>10

Entry == [path : I!PathSet, hidden : BOOLEAN]
Shows(files, f) == \E i \in DOMAIN files : files[i].path = f

\* A list of a walk: each file once, none that was not there, no more than the limit.
Listed(files, there) ==
    /\ files \in Seq(Entry) /\ Len(files) <= IndexLimit
    /\ \A i, k \in DOMAIN files : files[i].path = files[k].path => i = k
    /\ \A i \in DOMAIN files : files[i].path \in there

\* What was there all along is listed, or left to read, unless the list is full.
Complete(files, always, left) ==
    Len(files) = IndexLimit \/ \A f \in always : Shows(files, f) \/ f \in left

Rest == I!PathSet \ Top
WalkType == [on : {TRUE}, generation : Nat, left : {<<Top, Rest>>, <<Rest>>, <<>>}, found : Seq(Entry),
             hidden : SUBSET I!PathSet]
Left(left) == IF left = <<Top, Rest>> THEN I!PathSet ELSE IF left = <<Rest>> THEN Rest ELSE {}

\* A walk under way: nothing found is left to read.
Walking(w, there, always) ==
    /\ Listed(w.found, there) /\ Complete(w.found, always, Left(w.left))
    /\ \A i \in DOMAIN w.found : w.found[i].path \notin Left(w.left)

IndexType == [files : Seq(Entry), built : {"never", "fresh", "aged"}, generation : Nat]

\* There is one walk, or its list, of the newest generation, while a list is being built.
WalkInv ==
    /\ present \subseteq I!PathSet /\ hidden \subseteq I!PathSet /\ index \in IndexType /\ building \in BOOLEAN
    /\ steady \subseteq present /\ (building = TRUE => present \subseteq seen)
    /\ building # TRUE => walk = I!NoWalk /\ list = <<>>
    /\ building = TRUE /\ list = <<>> => /\ walk \in WalkType /\ walk.generation = index.generation
                                         /\ Walking(walk, seen, steady)
    /\ list # <<>> => /\ walk = I!NoWalk /\ list[1].generation = index.generation
                      /\ Listed(list[1].files, seen) /\ Complete(list[1].files, steady, {})

LEMMA NoWalkIs == I!NoWalk.on = FALSE /\ \A w \in WalkType : w # I!NoWalk /\ w.on = TRUE
<1>1. I!NoWalk.on = FALSE
  BY DEF I!NoWalk
<1>2. \A w \in WalkType : w.on = TRUE
  BY DEF WalkType
<1>3. \A w \in WalkType : w # I!NoWalk
  BY <1>1, <1>2
<1> QED BY <1>1, <1>2, <1>3

LEMMA CountPaths ==
    ASSUME NEW files \in Seq(Entry), \A i, k \in DOMAIN files : files[i].path = files[k].path => i = k
    PROVE  Len(files) = Cardinality({files[i].path : i \in DOMAIN files})
<1>1. PICK n \in Nat : n = Len(files) /\ DOMAIN files = 1 .. n
  OBVIOUS
<1>2. PICK paths : paths = {files[i].path : i \in DOMAIN files}
  OBVIOUS
<1>3. PICK f : f = [i \in 1 .. n |-> files[i].path]
  OBVIOUS
<1>4. f \in [1 .. n -> paths] /\ \A i \in 1 .. n : f[i] = files[i].path
  BY <1>1, <1>2, <1>3
<1>5. f \in Surjection(1 .. n, paths)
  BY <1>1, <1>2, <1>4 DEF Surjection
<1>6. f \in Injection(1 .. n, paths)
  BY <1>1, <1>4 DEF Injection, IsInjective
<1>7. IsFiniteSet(1 .. n) /\ Cardinality(1 .. n) = n
  <2>1. 1 \in Int /\ n \in Int /\ (1 > n => n = 0) /\ n - 1 + 1 = n
    OBVIOUS
  <2>2. IsFiniteSet(1 .. n) /\ Cardinality(1 .. n) = IF 1 > n THEN 0 ELSE n - 1 + 1
    BY <2>1, FS_Interval
  <2> QED BY <2>1, <2>2
<1>8. Cardinality(paths) = n
  BY <1>5, <1>6, <1>7, FS_Surjection
<1> QED BY <1>1, <1>2, <1>8

LEMMA InitWalk == I!Init => WalkInv
<1> SUFFICES ASSUME I!Init PROVE WalkInv
  OBVIOUS
<1>1. Top \subseteq I!PathSet
  BY OrderSound DEF I!PathSet, I!Range, Range
<1>2. present \subseteq I!PathSet /\ hidden = {} /\ steady = {} /\ building = FALSE /\ walk = I!NoWalk /\ list = <<>>
  BY <1>1 DEF I!Init
<1>3. index \in IndexType
  <2>1. <<>> \in Seq(Entry)
    OBVIOUS
  <2> QED BY <2>1 DEF I!Init, IndexType
<1> QED BY <1>2, <1>3 DEF WalkInv

LEMMA LeftIs ==
    ASSUME NEW left \in {<<Top, Rest>>, <<Rest>>}
    PROVE  /\ left # <<>> /\ Tail(left) \in {<<Top, Rest>>, <<Rest>>, <<>>}
           /\ Left(left) = Head(left) \cup Left(Tail(left)) /\ Head(left) \cap Left(Tail(left)) = {}
           /\ Left(<<>>) = {}
<1>1. Top \subseteq I!PathSet
  BY OrderSound DEF I!PathSet, I!Range, Range
<1>2. Len(<<Top, Rest>>) = 2 /\ Len(<<Rest>>) = 1 /\ Len(<<>>) = 0
  OBVIOUS
<1>3. <<Top, Rest>> # <<Rest>> /\ <<Top, Rest>> # <<>> /\ <<Rest>> # <<>>
  BY <1>2
<1>4. Left(<<Top, Rest>>) = I!PathSet /\ Left(<<Rest>>) = Rest /\ Left(<<>>) = {}
  BY <1>3 DEF Left
<1>5. CASE left = <<Top, Rest>>
  <2>1. Head(left) = Top /\ Tail(left) = <<Rest>>
    BY <1>5
  <2>2. I!PathSet = Top \cup Rest /\ Top \cap Rest = {}
    BY <1>1 DEF Rest
  <2> QED BY <1>3, <1>4, <1>5, <2>1, <2>2
<1>6. CASE left = <<Rest>>
  <2>1. Head(left) = Rest /\ Tail(left) = <<>>
    BY <1>6
  <2> QED BY <1>3, <1>4, <1>6, <2>1
<1> QED BY <1>5, <1>6

\* The files read of a folder: those there, each once.
ReadOf(folder, now, new) ==
    /\ new \in Seq(Entry)
    /\ \A i, k \in DOMAIN new : new[i].path = new[k].path => i = k
    /\ \A i \in DOMAIN new : new[i].path \in folder \cap now
    /\ \A f \in folder \cap now : Shows(new, f)

LEMMA FolderRead ==
    ASSUME NEW folder \in SUBSET I!PathSet, NEW now, NEW hides0, NEW here, NEW new,
           here = I!InOrder({i \in DOMAIN Order : Order[i] \in folder \cap now}),
           new = [n \in DOMAIN here |-> I!ProjectFile(Order[here[n]], hides0)]
    PROVE  ReadOf(folder, now, new)
<1>1. PICK places : places = {i \in DOMAIN Order : Order[i] \in folder \cap now}
  OBVIOUS
<1>2. PICK n \in Nat : n = Len(Order) /\ DOMAIN Order = 1 .. n
  BY OrderSound
<1>3. places \in SUBSET (1 .. n)
  BY <1>1, <1>2
<1>4. here = I!InOrder(places)
  BY <1>1
<1>5. /\ here \in Seq(places)
      /\ \A i, k \in DOMAIN here : here[i] = here[k] => i = k
      /\ \A p \in places : \E i \in DOMAIN here : here[i] = p
  BY <1>3, <1>4, InOrderIs
<1>6. PICK m \in Nat : DOMAIN here = 1 .. m
  <2>1. here \in Seq(places)
    BY <1>5
  <2>2. Len(here) \in Nat /\ DOMAIN here = 1 .. Len(here)
    BY <2>1
  <2> QED BY <2>2
<1>7. \A i \in 1 .. m : here[i] \in places
  BY <1>5, <1>6
<1>8. DOMAIN new = 1 .. m /\ \A i \in 1 .. m : new[i] = I!ProjectFile(Order[here[i]], hides0)
  BY <1>6
<1>9. ASSUME NEW i \in 1 .. m
      PROVE  new[i] \in Entry /\ new[i].path = Order[here[i]] /\ new[i].path \in folder \cap now
  <2>1. here[i] \in DOMAIN Order /\ Order[here[i]] \in folder \cap now
    BY <1>1, <1>7
  <2>2. PICK path \in I!PathSet : path = Order[here[i]]
    BY <2>1
  <2>5. (path \in hides0) \in BOOLEAN
    OBVIOUS
  <2>3. PICK hid : hid \in BOOLEAN /\ hid = (path \in hides0)
    BY <2>5, Zenon
  <2>4. new[i] = [path |-> path, hidden |-> hid]
    BY <1>8, <2>2, <2>3 DEF I!ProjectFile
  <2>6. new[i] \in Entry
    <3>1. \A h \in BOOLEAN : [path |-> path, hidden |-> h] \in Entry
      BY DEF Entry
    <3>2. hid \in BOOLEAN
      BY <2>3
    <3> HIDE <2>3
    <3> QED BY <2>4, <3>1, <3>2
  <2>7. new[i].path = path
    BY <2>4
  <2> QED BY <2>1, <2>2, <2>6, <2>7
<1>10. new \in Seq(Entry)
  <2>1. new \in [1 .. m -> Entry]
    BY <1>6, <1>8, <1>9
  <2> QED BY <2>1
<1>11. ASSUME NEW i \in DOMAIN new, NEW k \in DOMAIN new, new[i].path = new[k].path PROVE i = k
  <2>1. Order[here[i]] = Order[here[k]] /\ here[i] \in DOMAIN Order /\ here[k] \in DOMAIN Order
    BY <1>1, <1>7, <1>8, <1>9, <1>11
  <2>2. here[i] = here[k]
    BY <2>1, OrderSound DEF IsInjective
  <2> QED BY <1>5, <1>6, <1>8, <2>2
<1>12. ASSUME NEW f \in folder \cap now PROVE Shows(new, f)
  <2>1. PICK p \in DOMAIN Order : Order[p] = f
    BY DEF I!PathSet, I!Range
  <2>2. PICK i \in DOMAIN here : here[i] = p
    BY <1>1, <1>5, <2>1
  <2>3. i \in 1 .. m /\ new[i].path = f
    BY <1>6, <1>9, <2>1, <2>2
  <2> QED BY <1>8, <2>3 DEF Shows
<1> QED BY <1>8, <1>9, <1>10, <1>11, <1>12 DEF ReadOf

Cut(all) == IF Len(all) >= IndexLimit THEN SubSeq(all, 1, IndexLimit) ELSE all
After(all, left) == IF Len(all) >= IndexLimit THEN {} ELSE left

LEMMA FolderAdded ==
    ASSUME NEW found, NEW new, NEW folder, NEW left, NEW now, NEW there, NEW always,
           Listed(found, there), Complete(found, always, folder \cup left), folder \cap left = {},
           \A i \in DOMAIN found : found[i].path \notin folder \cup left,
           ReadOf(folder, now, new), always \subseteq now, now \subseteq there
    PROVE  /\ Listed(Cut(found \o new), there)
           /\ Complete(Cut(found \o new), always, After(found \o new, left))
           /\ \A i \in DOMAIN Cut(found \o new) : Cut(found \o new)[i].path \notin After(found \o new, left)
<1>0. PICK all, cut, rest :
          /\ all = found \o new /\ cut = Cut(found \o new) /\ rest = After(found \o new, left)
          /\ cut = IF Len(all) >= IndexLimit THEN SubSeq(all, 1, IndexLimit) ELSE all
          /\ rest = IF Len(all) >= IndexLimit THEN {} ELSE left
  BY DEF Cut, After
<1>1. PICK m \in Nat, n \in Nat : Len(found) = m /\ DOMAIN found = 1 .. m /\ Len(new) = n /\ DOMAIN new = 1 .. n
  BY DEF Listed, ReadOf
<1>2. found \in Seq(Entry) /\ new \in Seq(Entry) /\ all \in Seq(Entry) /\ Len(all) = m + n
  <2>1. found \in Seq(Entry) /\ new \in Seq(Entry)
    BY DEF Listed, ReadOf
  <2>2. all = found \o new
    BY <1>0
  <2> QED BY <1>1, <2>1, <2>2
<1>3. /\ DOMAIN all = 1 .. m + n
      /\ \A i \in 1 .. m : all[i] = found[i]
      /\ \A i \in 1 .. n : all[m + i] = new[i]
  BY <1>0, <1>1, <1>2
<1>4. \A i \in 1 .. m + n : (i \in 1 .. m) \/ (i - m \in 1 .. n /\ i = m + (i - m))
  OBVIOUS
<1>5. ASSUME NEW i \in 1 .. m + n
      PROVE  /\ i \in 1 .. m => all[i].path = found[i].path /\ all[i].path \notin folder \cup left
             /\ i \notin 1 .. m => /\ i - m \in 1 .. n /\ all[i].path = new[i - m].path
                                   /\ all[i].path \in folder \cap now
  <2>1. CASE i \in 1 .. m
    BY <1>1, <1>3, <2>1
  <2>2. CASE i \notin 1 .. m
    <3>1. i - m \in 1 .. n /\ i = m + (i - m)
      BY <1>4, <2>2
    <3>2. PICK k \in 1 .. n : k = i - m /\ i = m + k
      BY <3>1
    <3>3. all[i] = new[k]
      BY <1>3, <3>2
    <3> QED BY <1>1, <2>2, <3>2, <3>3 DEF ReadOf
  <2> QED BY <2>1, <2>2
<1>6. ASSUME NEW i \in 1 .. m + n PROVE all[i].path \in there /\ all[i].path \notin left
  BY <1>1, <1>5 DEF Listed
<1>7. ASSUME NEW i \in 1 .. m + n, NEW k \in 1 .. m + n, all[i].path = all[k].path PROVE i = k
  <2>1. CASE i \in 1 .. m /\ k \in 1 .. m
    BY <1>1, <1>5, <1>7, <2>1 DEF Listed
  <2>2. CASE i \notin 1 .. m /\ k \notin 1 .. m
    <3>1. PICK a \in 1 .. n, b \in 1 .. n : a = i - m /\ b = k - m
      BY <1>5, <2>2
    <3>2. new[a].path = new[b].path
      BY <1>5, <1>7, <2>2, <3>1
    <3>3. a = b
      BY <1>1, <3>2 DEF ReadOf
    <3> QED BY <3>1, <3>3
  <2>3. CASE i \in 1 .. m /\ k \notin 1 .. m
    <3>1. all[i].path \notin folder /\ all[k].path \in folder
      BY <1>5, <2>3
    <3> QED BY <1>7, <3>1
  <2>4. CASE i \notin 1 .. m /\ k \in 1 .. m
    <3>1. all[k].path \notin folder /\ all[i].path \in folder
      BY <1>5, <2>4
    <3> QED BY <1>7, <3>1
  <2> QED BY <2>1, <2>2, <2>3, <2>4
<1>8. ASSUME Len(all) >= IndexLimit
      PROVE  Listed(cut, there) /\ Complete(cut, always, rest) /\ \A i \in DOMAIN cut : cut[i].path \notin rest
  <2>1. cut = SubSeq(all, 1, IndexLimit) /\ rest = {}
    BY <1>0, <1>8
  <2>2. IndexLimit \in Nat /\ IndexLimit <= m + n
    BY <1>2, <1>8, OrderSound
  <2>3. cut \in Seq(Entry) /\ Len(cut) = IndexLimit /\ DOMAIN cut = 1 .. IndexLimit
    BY <1>2, <1>3, <2>1, <2>2
  <2>4. \A i \in 1 .. IndexLimit : cut[i] = all[i] /\ i \in 1 .. m + n
    BY <1>2, <1>3, <2>1, <2>2
  <2>5. ASSUME NEW i \in DOMAIN cut, NEW k \in DOMAIN cut, cut[i].path = cut[k].path PROVE i = k
    <3>1. /\ i \in 1 .. m + n /\ k \in 1 .. m + n
          /\ all[i].path = all[k].path
      BY <2>3, <2>4, <2>5
    <3> QED BY <1>7, <3>1
  <2>6. \A i \in DOMAIN cut : cut[i].path \in there
    BY <1>6, <2>3, <2>4
  <2>7. Len(cut) <= IndexLimit
    BY <2>2, <2>3
  <2>8. Listed(cut, there)
    BY <2>3, <2>5, <2>6, <2>7 DEF Listed
  <2> QED BY <2>1, <2>3, <2>8 DEF Complete
<1>9. ASSUME ~(Len(all) >= IndexLimit)
      PROVE  Listed(cut, there) /\ Complete(cut, always, rest) /\ \A i \in DOMAIN cut : cut[i].path \notin rest
  <2>1. cut = all /\ rest = left
    BY <1>0, <1>9
  <2>2. IndexLimit \in Nat /\ m + n < IndexLimit /\ m # IndexLimit
    BY <1>2, <1>9, OrderSound
  <2>3. Listed(cut, there)
    BY <1>2, <1>3, <1>6, <1>7, <2>1, <2>2 DEF Listed
  <2>4. ASSUME NEW f \in always PROVE Shows(cut, f) \/ f \in left
    <3>1. Shows(found, f) \/ f \in folder \/ f \in left
      BY <1>1, <2>2 DEF Complete
    <3>2. CASE Shows(found, f)
      <4>1. PICK i \in 1 .. m : found[i].path = f
        BY <1>1, <3>2 DEF Shows
      <4>2. i \in 1 .. m + n /\ all[i].path = f
        BY <1>3, <4>1
      <4> QED BY <1>3, <2>1, <4>2 DEF Shows
    <3>3. CASE f \in folder
      <4>1. Shows(new, f)
        BY <3>3 DEF ReadOf
      <4>2. PICK i \in 1 .. n : new[i].path = f
        BY <1>1, <4>1 DEF Shows
      <4>3. m + i \in 1 .. m + n /\ all[m + i].path = f
        BY <1>3, <4>2
      <4> QED BY <1>3, <2>1, <4>3 DEF Shows
    <3> QED BY <3>1, <3>2, <3>3
  <2>5. \A i \in DOMAIN cut : cut[i].path \notin rest
    BY <1>3, <1>6, <2>1
  <2> QED BY <2>1, <2>3, <2>4, <2>5 DEF Complete
<1>10. Listed(cut, there) /\ Complete(cut, always, rest) /\ \A i \in DOMAIN cut : cut[i].path \notin rest
  BY <1>8, <1>9
<1> QED BY <1>0, <1>10

LEMMA ReadFolderWalk == ASSUME WalkInv, I!ReadFolder PROVE WalkInv'
<1>1. walk.on /\ walk.left # <<>> /\ UNCHANGED <<present, hidden, index, building, list, steady, seen>>
  BY DEF I!ReadFolder
<1>2. walk # I!NoWalk
  BY <1>1, NoWalkIs
<1>3. building = TRUE /\ list = <<>> /\ walk \in WalkType /\ walk.generation = index.generation
      /\ Walking(walk, seen, steady)
  BY <1>2 DEF WalkInv
<1>4. walk.left \in {<<Top, Rest>>, <<Rest>>} /\ walk.found \in Seq(Entry)
  BY <1>1, <1>3 DEF WalkType
<1>5. PICK folder, left, found, now : /\ folder = Head(walk.left) /\ left = Left(Tail(walk.left))
                                      /\ found = walk.found /\ now = present
  OBVIOUS
<1>6. Left(walk.left) = folder \cup left /\ folder \cap left = {} /\ folder \in SUBSET I!PathSet
  <2>1. Left(walk.left) = folder \cup left /\ folder \cap left = {}
    BY <1>4, <1>5, LeftIs
  <2>2. Left(walk.left) \subseteq I!PathSet
    BY DEF Left, Rest
  <2> QED BY <2>1, <2>2
<1>7. PICK here, new, all, cut, rest :
          /\ here = I!InOrder({i \in DOMAIN Order : Order[i] \in folder \cap now})
          /\ new = [n \in DOMAIN here |-> I!ProjectFile(Order[here[n]], walk.hidden)]
          /\ all = found \o new
          /\ cut = Cut(all) /\ rest = IF Len(all) >= IndexLimit THEN <<>> ELSE Tail(walk.left)
  OBVIOUS
<1>8. walk' = [walk EXCEPT !.found = cut, !.left = rest]
  BY <1>5, <1>7 DEF I!ReadFolder, I!Limit, Cut
<1>9. ReadOf(folder, now, new)
  BY <1>6, <1>7, FolderRead
<1>10. PICK rest2 : rest2 = After(all, left)
  OBVIOUS
<1>11. Left(rest) = rest2 /\ rest \in {<<Top, Rest>>, <<Rest>>, <<>>}
  BY <1>4, <1>5, <1>7, <1>10, LeftIs DEF After
<1>12. Listed(cut, seen) /\ Complete(cut, steady, rest2) /\ \A i \in DOMAIN cut : cut[i].path \notin rest2
  <2>1. Listed(found, seen) /\ Complete(found, steady, folder \cup left)
    BY <1>3, <1>5, <1>6 DEF Walking
  <2>2. \A i \in DOMAIN found : found[i].path \notin folder \cup left
    BY <1>3, <1>5, <1>6 DEF Walking
  <2>3. steady \subseteq now /\ now \subseteq seen
    BY <1>3, <1>5 DEF WalkInv
  <2>4. /\ Listed(Cut(found \o new), seen)
        /\ Complete(Cut(found \o new), steady, After(found \o new, left))
        /\ \A i \in DOMAIN Cut(found \o new) : Cut(found \o new)[i].path \notin After(found \o new, left)
    BY <1>6, <1>9, <2>1, <2>2, <2>3, FolderAdded
  <2> QED BY <1>7, <1>10, <2>4
<1>13. walk' = [on |-> TRUE, generation |-> walk.generation, left |-> rest, found |-> cut, hidden |-> walk.hidden]
  BY <1>3, <1>8 DEF WalkType
<1>14. walk' \in WalkType /\ walk'.generation = walk.generation /\ walk'.left = rest /\ walk'.found = cut
  <2>1. cut \in Seq(Entry)
    BY <1>12 DEF Listed
  <2>2. walk.generation \in Nat /\ walk.hidden \in SUBSET I!PathSet
    BY <1>3 DEF WalkType
  <2> QED BY <1>11, <1>13, <2>1, <2>2 DEF WalkType
<1>15. Walking(walk', seen, steady)
  BY <1>11, <1>12, <1>14 DEF Walking
<1> QED BY <1>1, <1>3, <1>14, <1>15 DEF WalkInv

LEMMA WalkEndsWalk == ASSUME WalkInv, I!WalkEnds PROVE WalkInv'
<1>1. walk.on /\ walk.left = <<>> /\ walk' = I!NoWalk
      /\ list' = <<[generation |-> walk.generation, files |-> walk.found]>>
      /\ UNCHANGED <<present, hidden, index, building, steady, seen>>
  BY DEF I!WalkEnds
<1>2. walk # I!NoWalk
  BY <1>1, NoWalkIs
<1>3. building = TRUE /\ list = <<>> /\ walk.generation = index.generation /\ Walking(walk, seen, steady)
  BY <1>2 DEF WalkInv
<1>4. Left(<<>>) = {}
  <2>1. Len(<<Top, Rest>>) = 2 /\ Len(<<Rest>>) = 1 /\ Len(<<>>) = 0
    OBVIOUS
  <2>2. <<>> # <<Top, Rest>> /\ <<>> # <<Rest>>
    BY <2>1
  <2> QED BY <2>2 DEF Left
<1>5. list' # <<>> /\ list'[1].generation = walk.generation /\ list'[1].files = walk.found
  BY <1>1
<1>6. Listed(walk.found, seen) /\ Complete(walk.found, steady, {})
  BY <1>1, <1>3, <1>4 DEF Walking
<1> QED BY <1>1, <1>3, <1>5, <1>6 DEF WalkInv

LEMMA AgesWalk == ASSUME WalkInv, I!Ages PROVE WalkInv'
<1>1. index' = [index EXCEPT !.built = "aged"] /\ UNCHANGED <<present, hidden, building, walk, list, steady, seen>>
  BY DEF I!Ages
<1>2. index' \in IndexType /\ index'.generation = index.generation
  BY <1>1 DEF WalkInv, IndexType
<1> QED BY <1>1, <1>2 DEF WalkInv

LEMMA ListedMore ==
    ASSUME NEW files, NEW there, NEW more, NEW always, NEW fewer, NEW left,
           there \subseteq more, fewer \subseteq always
    PROVE  /\ Listed(files, there) => Listed(files, more)
           /\ Complete(files, always, left) => Complete(files, fewer, left)
BY DEF Listed, Complete

LEMMA AppearWalk == ASSUME WalkInv, NEW f \in I!PathSet, I!Appear(f) PROVE WalkInv'
<1>1. /\ present' = IF f \in present THEN present \ {f} ELSE present \cup {f}
      /\ steady' = steady \cap present' /\ seen' = IF building THEN seen \cup present' ELSE {}
      /\ UNCHANGED <<hidden, index, building, walk, list>>
  BY DEF I!Appear
<1>2. present' \subseteq I!PathSet /\ steady' \subseteq present' /\ steady' \subseteq steady
  BY <1>1 DEF WalkInv
<1>3. CASE building # TRUE
  BY <1>1, <1>2, <1>3 DEF WalkInv
<1>4. CASE building = TRUE
  <2>1. seen \subseteq seen' /\ present' \subseteq seen'
    BY <1>1, <1>4
  <2>2. Walking(walk, seen, steady) => Walking(walk, seen', steady')
    <3>1. Listed(walk.found, seen) => Listed(walk.found, seen')
      BY <2>1, ListedMore
    <3>2. Complete(walk.found, steady, Left(walk.left)) => Complete(walk.found, steady', Left(walk.left))
      BY <1>2, ListedMore
    <3> QED BY <3>1, <3>2 DEF Walking
  <2>3. Listed(list[1].files, seen) => Listed(list[1].files, seen')
    BY <2>1, ListedMore
  <2>4. Complete(list[1].files, steady, {}) => Complete(list[1].files, steady', {})
    BY <1>2, ListedMore
  <2> QED BY <1>1, <1>2, <1>4, <2>1, <2>2, <2>3, <2>4 DEF WalkInv
<1> QED BY <1>3, <1>4

LEMMA HideWalk == ASSUME WalkInv, NEW f \in I!PathSet, I!Hide(f) PROVE WalkInv'
<1>1. hidden' \subseteq I!PathSet /\ UNCHANGED <<present, index, building, walk, list, steady, seen>>
  BY DEF I!Hide, I!indexVars, WalkInv
<1> QED BY <1>1 DEF WalkInv

\* A list is taken in only from the newest walk.
LEMMA RefreshWalk ==
    ASSUME WalkInv, I!Refresh, UNCHANGED <<present, hidden>>
    PROVE  WalkInv' /\ I!ListedFromTheWalk
<1>1. PICK taken : taken = I!Taken
  OBVIOUS
<1>2. PICK still \in BOOLEAN : still = (building /\ (list = <<>> \/ list[1].generation # index.generation))
  <2>1. (building /\ (list = <<>> \/ list[1].generation # index.generation)) \in BOOLEAN
    BY DEF WalkInv
  <2> QED BY <2>1, Zenon
<1>3. still = TRUE <=> building = TRUE /\ list = <<>>
  BY <1>2 DEF WalkInv
<1>4. I!StillBuilding <=> still = TRUE
  BY <1>2 DEF I!StillBuilding
<1>5. list' = <<>> /\ present' = present /\ hidden' = hidden
  BY DEF I!Refresh
<1>6. CASE building = TRUE /\ list = <<>>
  <2>1. taken = index
    BY <1>1, <1>6 DEF I!Taken
  <2>2. index' = index /\ walk' = walk /\ steady' = steady /\ seen' = seen /\ (building' <=> I!StillBuilding)
    BY <1>1, <1>3, <1>4, <1>6, <2>1 DEF I!Refresh
  <2>3. building' = TRUE
    <3>1. building' = I!StillBuilding
      BY <1>3, <1>4, <1>6 DEF I!Refresh
    <3>2. I!StillBuilding = (building /\ (list = <<>> \/ list[1].generation # index.generation))
      BY DEF I!StillBuilding
    <3> QED BY <1>2, <1>3, <1>6, <3>1, <3>2
  <2> QED BY <1>5, <1>6, <2>2, <2>3 DEF WalkInv, I!ListedFromTheWalk
<1>7. CASE building = TRUE /\ list # <<>>
  <2>1. /\ walk = I!NoWalk /\ list[1].generation = index.generation
        /\ Listed(list[1].files, seen) /\ Complete(list[1].files, steady, {}) /\ index \in IndexType
    BY <1>7 DEF WalkInv
  <2>2. taken = [index EXCEPT !.files = list[1].files, !.built = "fresh"]
    BY <1>1, <1>7, <2>1 DEF I!Taken
  <2>3. taken \in IndexType /\ taken.files = list[1].files /\ taken.built = "fresh"
    <3>1. list[1].files \in Seq(Entry)
      BY <2>1 DEF Listed
    <3> QED BY <2>1, <2>2, <3>1 DEF IndexType
  <2>4. still # TRUE
    BY <1>3, <1>7
  <2>5. index' = taken /\ walk' = walk /\ steady' = {} /\ seen' = {}
    BY <1>1, <1>4, <2>3, <2>4 DEF I!Refresh
  <2>6. building' = FALSE
    <3>1. building' = I!StillBuilding
      BY <1>1, <2>3 DEF I!Refresh
    <3>2. I!StillBuilding = (building /\ (list = <<>> \/ list[1].generation # index.generation))
      BY DEF I!StillBuilding
    <3> QED BY <1>2, <2>4, <3>1, <3>2
  <2>7. WalkInv'
    BY <1>5, <2>1, <2>3, <2>5, <2>6 DEF WalkInv
  <2>8. I!ListedFromTheWalk
    <3>1. PICK files : files = list[1].files /\ files = index'.files
      BY <2>3, <2>5
    <3>2. PICK paths : paths = {files[i].path : i \in DOMAIN files}
      OBVIOUS
    <3>3. paths \subseteq seen
      BY <2>1, <3>1, <3>2 DEF Listed
    <3>4. steady \subseteq paths \/ Len(files) = IndexLimit
      BY <2>1, <3>1, <3>2 DEF Complete, Shows
    <3>5. Len(files) = I!Cardinality(paths)
      <4>1. I!Cardinality(paths) = Cardinality(paths)
        BY DEF I!Cardinality, Cardinality
      <4>2. files \in Seq(Entry) /\ \A i, k \in DOMAIN files : files[i].path = files[k].path => i = k
        BY <2>1, <3>1 DEF Listed
      <4>3. Len(files) = Cardinality({files[i].path : i \in DOMAIN files})
        BY <4>2, CountPaths
      <4> QED BY <3>2, <4>1, <4>3
    <3> QED BY <3>1, <3>2, <3>3, <3>4, <3>5 DEF I!ListedFromTheWalk
  <2> QED BY <2>7, <2>8
<1>8. CASE building # TRUE
  <2>1. list = <<>> /\ walk = I!NoWalk /\ taken = index /\ still # TRUE /\ index \in IndexType
    <3>1. list = <<>> /\ walk = I!NoWalk
      BY <1>8 DEF WalkInv
    <3> QED BY <1>1, <1>3, <1>8, <3>1 DEF I!Taken, WalkInv
  <2>2. CASE taken.built = "fresh" \/ taken.generation = MaxBuilds
    <3>1. index' = index /\ walk' = walk /\ steady' = {} /\ seen' = {}
      BY <1>1, <1>4, <2>1, <2>2 DEF I!Refresh
    <3>2. building' = FALSE
      <4>1. building' = I!StillBuilding
        BY <1>1, <2>2 DEF I!Refresh
      <4>2. I!StillBuilding = (building /\ (list = <<>> \/ list[1].generation # index.generation))
        BY DEF I!StillBuilding
      <4> QED BY <1>2, <2>1, <4>1, <4>2
    <3> QED BY <1>5, <2>1, <3>1, <3>2 DEF WalkInv, I!ListedFromTheWalk
  <2>3. CASE taken.built # "fresh" /\ taken.generation # MaxBuilds
    <3>1. /\ building' = TRUE /\ index' = [index EXCEPT !.generation = @ + 1]
          /\ walk' = [on |-> TRUE, generation |-> index.generation + 1, left |-> <<Top, Rest>>,
                      found |-> <<>>, hidden |-> hidden]
          /\ steady' = present /\ seen' = present
      BY <1>1, <1>4, <2>1, <2>3 DEF I!Refresh, Rest
    <3>2. index' \in IndexType /\ index'.generation = index.generation + 1 /\ index'.files = index.files
      BY <2>1, <3>1 DEF IndexType
    <3>3. walk' \in WalkType /\ walk'.generation = index'.generation /\ walk'.left = <<Top, Rest>>
          /\ walk'.found = <<>>
      <4>1. <<>> \in Seq(Entry) /\ hidden \in SUBSET I!PathSet /\ index.generation + 1 \in Nat
        BY <2>1 DEF WalkInv, IndexType
      <4> QED BY <3>1, <3>2, <4>1 DEF WalkType
    <3>4. Walking(walk', seen', steady')
      <4>1. Left(<<Top, Rest>>) = I!PathSet /\ present \subseteq I!PathSet
        BY DEF Left, WalkInv
      <4>2. Listed(<<>>, seen')
        <5>1. <<>> \in Seq(Entry) /\ Len(<<>>) = 0 /\ DOMAIN <<>> = {} /\ IndexLimit \in Nat
          BY OrderSound
        <5> QED BY <5>1 DEF Listed
      <4>3. Complete(<<>>, steady', I!PathSet)
        BY <3>1, <4>1 DEF Complete
      <4>4. DOMAIN <<>> = {}
        OBVIOUS
      <4> QED BY <3>3, <4>1, <4>2, <4>3, <4>4 DEF Walking
    <3> QED BY <1>5, <2>1, <3>1, <3>2, <3>3, <3>4 DEF WalkInv, I!ListedFromTheWalk
  <2> QED BY <2>2, <2>3
<1> QED BY <1>6, <1>7, <1>8

\* Every hit is a row of the list that is of what was typed.
Matched(of, hits) ==
    \A n \in DOMAIN hits : /\ hits[n] \in DOMAIN of.files
                           /\ of.files[hits[n]].path \in of.query.named \cup of.query.anywhere

CachedType == [query : {I!Anything} \cup Queries, includeHidden : BOOLEAN, files : Seq(Entry)]
CacheType == [of : {<<>>} \cup CachedType, hits : Seq(Nat)]
QuickType ==
    [open : {TRUE}, query : {I!Anything} \cup Queries, selected : Nat \ {0}, includeHidden : BOOLEAN,
     files : Seq(Entry), building : BOOLEAN, cache : CacheType]

\* The hits kept are those of what they are kept for.
CacheTrue(cache) == cache.of # <<>> => Matched(cache.of, cache.hits)

QuickInv ==
    /\ quick = I!Shut \/ (quick \in QuickType /\ CacheTrue(quick.cache))
    /\ I!PicksWhatMatches

LEMMA ShutIs == I!Shut.open = FALSE /\ \A q \in QuickType : q.open = TRUE /\ q # I!Shut
<1>1. I!Shut.open = FALSE
  BY DEF I!Shut
<1>2. \A q \in QuickType : q.open = TRUE
  BY DEF QuickType
<1> QED BY <1>1, <1>2

LEMMA CachedIs ==
    ASSUME NEW q \in QuickType
    PROVE  /\ I!Cached(q) \in CachedType /\ I!Cached(q) # <<>>
           /\ I!Cached(q).files = q.files /\ I!Cached(q).query = q.query
<1>1. PICK c : c = I!Cached(q)
  OBVIOUS
<1>2. c = [query |-> q.query, includeHidden |-> q.includeHidden, files |-> q.files]
  BY <1>1 DEF I!Cached
<1>3. c \in CachedType /\ c.files = q.files /\ c.query = q.query
  BY <1>2 DEF QuickType, CachedType
<1>4. "query" \in DOMAIN c /\ DOMAIN <<>> = {}
  BY <1>2
<1>5. c # <<>>
  BY <1>4
<1> QED BY <1>1, <1>3, <1>5

LEMMA RankMatches ==
    ASSUME NEW q \in QuickType
    PROVE  I!Rank(q) \in Seq(Nat) /\ Matched(I!Cached(q), I!Rank(q))
<1>1. PICK n \in Nat : n = Len(q.files) /\ DOMAIN q.files = 1 .. n
  BY DEF QuickType
<1>2. ASSUME NEW set
      PROVE  /\ I!InOrder({i \in I!Visible(q) : q.files[i].path \in set}) \in Seq(Nat)
             /\ \A m \in DOMAIN I!InOrder({i \in I!Visible(q) : q.files[i].path \in set}) :
                   LET i == I!InOrder({p \in I!Visible(q) : q.files[p].path \in set})[m]
                   IN  i \in 1 .. n /\ q.files[i].path \in set
  <2>1. PICK places : places = {i \in I!Visible(q) : q.files[i].path \in set}
    OBVIOUS
  <2>2. places \in SUBSET (1 .. n)
    BY <1>1, <2>1 DEF I!Visible
  <2>3. PICK s : s = I!InOrder(places)
    OBVIOUS
  <2>4. s \in Seq(places)
    BY <2>2, <2>3, InOrderIs
  <2>5. s \in Seq(Nat) /\ \A m \in DOMAIN s : s[m] \in places
    <3>1. PICK len \in Nat : s \in [1 .. len -> places]
      BY <2>4
    <3>2. places \subseteq Nat
      BY <2>2
    <3>3. s \in [1 .. len -> Nat] /\ DOMAIN s = 1 .. len /\ \A m \in 1 .. len : s[m] \in places
      BY <3>1, <3>2
    <3> QED BY <3>3
  <2>6. \A m \in DOMAIN s : s[m] \in 1 .. n /\ q.files[s[m]].path \in set
    BY <2>1, <2>2, <2>5
  <2> QED BY <2>1, <2>3, <2>5, <2>6
<1>3. PICK a, b : /\ a = I!InOrder({i \in I!Visible(q) : q.files[i].path \in q.query.named})
                  /\ b = I!InOrder({i \in I!Visible(q) : q.files[i].path \in q.query.anywhere \ q.query.named})
  OBVIOUS
<1>4. /\ a \in Seq(Nat) /\ \A m \in DOMAIN a : a[m] \in 1 .. n /\ q.files[a[m]].path \in q.query.named
      /\ b \in Seq(Nat)
      /\ \A m \in DOMAIN b : b[m] \in 1 .. n /\ q.files[b[m]].path \in q.query.anywhere \ q.query.named
  BY <1>2, <1>3
<1>5. PICK r : r = I!Rank(q)
  OBVIOUS
<1>6. r = a \o b
  BY <1>3, <1>5 DEF I!Rank
<1>7. r \in Seq(Nat) /\ \A m \in DOMAIN r : \/ m \in DOMAIN a /\ r[m] = a[m]
                                            \/ m - Len(a) \in DOMAIN b /\ r[m] = b[m - Len(a)]
  <2>1. a \in Seq(Nat) /\ b \in Seq(Nat)
    BY <1>4
  <2> QED BY <1>6, <2>1
<1>8. ASSUME NEW m \in DOMAIN r
      PROVE  r[m] \in 1 .. n /\ q.files[r[m]].path \in q.query.named \cup q.query.anywhere
  BY <1>4, <1>7
<1>9. Matched(I!Cached(q), r)
  BY <1>1, <1>8, CachedIs DEF Matched
<1> QED BY <1>5, <1>7, <1>9

LEMMA HitsMatch ==
    ASSUME NEW q \in QuickType, CacheTrue(q.cache)
    PROVE  I!Hits(q) \in Seq(Nat) /\ Matched(I!Cached(q), I!Hits(q))
<1>1. CASE q.cache.of = I!Cached(q)
  <2>1. I!Hits(q) = q.cache.hits
    BY <1>1 DEF I!Hits
  <2>2. q.cache \in CacheType
    BY DEF QuickType
  <2>3. q.cache.hits \in Seq(Nat)
    BY <2>2 DEF CacheType
  <2> QED BY <1>1, <2>1, <2>3, CachedIs DEF CacheTrue
<1>2. CASE q.cache.of # I!Cached(q)
  BY <1>2, RankMatches DEF I!Hits
<1> QED BY <1>1, <1>2

LEMMA KeptIs ==
    ASSUME NEW q \in QuickType, CacheTrue(q.cache)
    PROVE  /\ I!KeepsHits(q) \in QuickType /\ CacheTrue(I!KeepsHits(q).cache)
           /\ I!KeepsHits(q).query = q.query /\ I!KeepsHits(q).files = q.files
<1>1. PICK cache : cache = [of |-> I!Cached(q), hits |-> I!Hits(q)]
  OBVIOUS
<1>2. cache \in CacheType /\ cache.of = I!Cached(q) /\ cache.hits = I!Hits(q)
  BY <1>1, CachedIs, HitsMatch DEF CacheType
<1>3. CacheTrue(cache)
  BY <1>2, HitsMatch DEF CacheTrue
<1>4. PICK k : k = I!KeepsHits(q)
  OBVIOUS
<1>5. k = [q EXCEPT !.cache = cache]
  BY <1>1, <1>4 DEF I!KeepsHits
<1>6. k \in QuickType /\ k.cache = cache /\ k.query = q.query /\ k.files = q.files
  BY <1>2, <1>5 DEF QuickType
<1> QED BY <1>3, <1>4, <1>6

LEMMA InitQuick == I!Init => QuickInv
BY DEF I!Init, QuickInv, I!PicksWhatMatches

LEMMA QuickOpenKeeps ==
    ASSUME I!QuickOpen, index' \in IndexType, building' \in BOOLEAN
    PROVE  QuickInv'
<1>1. PICK cache : cache = [of |-> <<>>, hits |-> <<>>]
  OBVIOUS
<1>2. cache \in CacheType /\ cache.of = <<>>
  <2>1. <<>> \in Seq(Nat)
    OBVIOUS
  <2> QED BY <1>1, <2>1 DEF CacheType
<1>3. quick' = [open |-> TRUE, query |-> I!Anything, selected |-> 1, includeHidden |-> FALSE,
                files |-> index'.files, building |-> building', cache |-> cache] /\ chosen' = <<>>
  BY <1>1 DEF I!QuickOpen
<1>4. quick' \in QuickType /\ quick'.cache = cache
  <2>1. index'.files \in Seq(Entry)
    BY DEF IndexType
  <2> QED BY <1>2, <1>3, <2>1 DEF QuickType
<1>5. CacheTrue(quick'.cache)
  BY <1>2, <1>4 DEF CacheTrue
<1> QED BY <1>3, <1>4, <1>5 DEF QuickInv, I!PicksWhatMatches

\* What a frame's input makes of the dialog keeps its type and its hits.
LEMMA TypingIs ==
    ASSUME NEW q \in QuickType, NEW typed \in I!Typing(q)
    PROVE  typed \in QuickType /\ typed.cache = q.cache
<1>1. CASE typed = q
  BY <1>1
<1>2. ASSUME NEW query \in Queries, typed = [q EXCEPT !.query = query, !.selected = 1]
      PROVE  typed \in QuickType /\ typed.cache = q.cache
  <2>1. PICK put, first : put = query /\ put \in {I!Anything} \cup Queries /\ first = 1 /\ first \in Nat \ {0}
    OBVIOUS
  <2>2. typed = [open |-> q.open, query |-> put, selected |-> first, includeHidden |-> q.includeHidden,
                 files |-> q.files, building |-> q.building, cache |-> q.cache]
    BY <1>2, <2>1 DEF QuickType
  <2> QED BY <2>1, <2>2 DEF QuickType
<1> QED BY <1>1, <1>2 DEF I!Typing

LEMMA BoxingIs ==
    ASSUME NEW q \in QuickType, NEW row \in Nat \ {0}, NEW next \in I!Boxing([q EXCEPT !.selected = row])
    PROVE  next \in QuickType /\ next.cache = q.cache
<1>1. PICK r : r = [q EXCEPT !.selected = row]
  OBVIOUS
<1>2. r = [open |-> q.open, query |-> q.query, selected |-> row, includeHidden |-> q.includeHidden,
           files |-> q.files, building |-> q.building, cache |-> q.cache]
  BY <1>1 DEF QuickType
<1>3. r \in QuickType /\ r.cache = q.cache
  BY <1>2 DEF QuickType
<1>4. CASE next = r
  BY <1>3, <1>4
<1>5. CASE next = [r EXCEPT !.includeHidden = ~@, !.selected = 1]
  <2>1. (~r.includeHidden) \in BOOLEAN
    OBVIOUS
  <2>2. PICK also : also \in BOOLEAN /\ also = (~r.includeHidden)
    BY <2>1, Zenon
  <2>3. next = [r EXCEPT !.includeHidden = also, !.selected = 1]
    BY <1>5, <2>2
  <2>4. also \in BOOLEAN
    BY <2>2
  <2> HIDE <2>2
  <2>5. PICK first : first = 1 /\ first \in Nat \ {0}
    OBVIOUS
  <2>6. next = [open |-> r.open, query |-> r.query, selected |-> first, includeHidden |-> also,
                files |-> r.files, building |-> r.building, cache |-> r.cache]
    BY <1>3, <2>3, <2>5 DEF QuickType
  <2>7. next \in QuickType /\ next.cache = r.cache
    BY <1>3, <2>4, <2>5, <2>6 DEF QuickType
  <2> QED BY <1>3, <2>7
<1> QED BY <1>1, <1>4, <1>5 DEF I!Boxing

LEMMA FrameKeeps ==
    ASSUME QuickInv, I!Frame, index' \in IndexType, building' \in BOOLEAN
    PROVE  QuickInv'
<1>1. quick \in QuickType /\ CacheTrue(quick.cache)
  BY ShutIs DEF QuickInv, I!Frame
<1>2. PICK r : r = I!Refreshed
  OBVIOUS
<1>3. r = [quick EXCEPT !.files = index'.files, !.building = building']
  BY <1>2 DEF I!Refreshed
<1>4. r \in QuickType /\ CacheTrue(r.cache)
  <2>1. index'.files \in Seq(Entry)
    BY DEF IndexType
  <2>2. r \in QuickType /\ r.cache = quick.cache
    BY <1>1, <1>3, <2>1 DEF QuickType
  <2> QED BY <1>1, <2>2
<1>5. PICK q, hits : q = I!KeepsHits(r) /\ hits = I!Hits(r)
  OBVIOUS
<1>6. q \in QuickType /\ CacheTrue(q.cache) /\ q.query = r.query /\ q.files = r.files
  BY <1>4, <1>5, KeptIs
<1>7. hits \in Seq(Nat) /\ \A n \in DOMAIN hits :
          q.files[hits[n]].path \in q.query.named \cup q.query.anywhere
  BY <1>4, <1>5, <1>6, HitsMatch, CachedIs DEF Matched
<1>8. PICK typed \in I!Typing(q) : \E row \in I!Arrows(typed.selected, Len(hits)) :
          \E next \in I!Boxing([typed EXCEPT !.selected = row]) :
              \/ quick' = next /\ UNCHANGED chosen
              \/ hits # <<>> /\ I!Pick(q, hits[IF next.selected > Len(hits) THEN Len(hits) ELSE next.selected])
              \/ \E n \in DOMAIN hits : I!Pick(q, hits[n])
  BY <1>2, <1>5 DEF I!Frame
<1>9. PICK row \in I!Arrows(typed.selected, Len(hits)) :
          \E next \in I!Boxing([typed EXCEPT !.selected = row]) :
              \/ quick' = next /\ UNCHANGED chosen
              \/ hits # <<>> /\ I!Pick(q, hits[IF next.selected > Len(hits) THEN Len(hits) ELSE next.selected])
              \/ \E n \in DOMAIN hits : I!Pick(q, hits[n])
  BY <1>8
<1>10. PICK next \in I!Boxing([typed EXCEPT !.selected = row]) :
          \/ quick' = next /\ UNCHANGED chosen
          \/ hits # <<>> /\ I!Pick(q, hits[IF next.selected > Len(hits) THEN Len(hits) ELSE next.selected])
          \/ \E n \in DOMAIN hits : I!Pick(q, hits[n])
  BY <1>9
<1>11. typed \in QuickType /\ typed.cache = q.cache
  BY <1>6, TypingIs
<1>12. Len(hits) \in Nat /\ DOMAIN hits = 1 .. Len(hits)
  BY <1>7
<1>13. row \in Nat \ {0}
  <2>1. typed.selected \in Nat \ {0}
    BY <1>11 DEF QuickType
  <2> QED BY <1>12, <2>1 DEF I!Arrows, I!Above, I!Below
<1>14. next \in QuickType /\ next.cache = q.cache
  BY <1>11, <1>13, BoxingIs
<1>15. CASE quick' = next /\ UNCHANGED chosen
  BY <1>6, <1>14, <1>15 DEF QuickInv, I!PicksWhatMatches
<1>16. ASSUME NEW n \in DOMAIN hits, I!Pick(q, hits[n]) PROVE QuickInv'
  <2>1. q.files[hits[n]].path \in q.query.named \cup q.query.anywhere
    BY <1>7
  <2>2. quick' = I!Shut /\ chosen'[1] = q.files[hits[n]] /\ chosen'[2] = q.query
    BY <1>16 DEF I!Pick
  <2> QED BY <2>1, <2>2 DEF QuickInv, I!PicksWhatMatches
<1>17. CASE hits # <<>> /\ I!Pick(q, hits[IF next.selected > Len(hits) THEN Len(hits) ELSE next.selected])
  <2>1. next.selected \in Nat \ {0} /\ Len(hits) # 0
    BY <1>7, <1>14, <1>17 DEF QuickType
  <2>2. PICK n : n = IF next.selected > Len(hits) THEN Len(hits) ELSE next.selected
    OBVIOUS
  <2>3. n \in DOMAIN hits
    BY <1>12, <2>1, <2>2
  <2> QED BY <1>16, <1>17, <2>2, <2>3
<1> QED BY <1>10, <1>15, <1>16, <1>17

LEMMA NextIndex ==
    ASSUME WalkInv, QuickInv, I!Next
    PROVE  WalkInv' /\ QuickInv' /\ I!ListedFromTheWalk
<1> USE DEF I!indexVars
<1>1. CASE I!ReadFolder \/ I!WalkEnds \/ I!Ages
  <2>1. WalkInv'
    BY <1>1, ReadFolderWalk, WalkEndsWalk, AgesWalk
  <2>2. UNCHANGED <<quick, chosen>>
    BY <1>1 DEF I!ReadFolder, I!WalkEnds, I!Ages
  <2>3. index'.files = index.files
    BY <1>1 DEF I!ReadFolder, I!WalkEnds, I!Ages, WalkInv, IndexType
  <2> QED BY <2>1, <2>2, <2>3 DEF QuickInv, I!PicksWhatMatches, I!ListedFromTheWalk
<1>2. CASE I!QuickOpen
  <2>1. WalkInv' /\ I!ListedFromTheWalk
    BY <1>2, RefreshWalk DEF I!QuickOpen
  <2> QED BY <1>2, <2>1, QuickOpenKeeps DEF WalkInv
<1>3. CASE I!Frame
  <2>1. WalkInv' /\ I!ListedFromTheWalk
    BY <1>3, RefreshWalk DEF I!Frame
  <2> QED BY <1>3, <2>1, FrameKeeps DEF WalkInv
<1>4. CASE I!Escape
  <2>1. UNCHANGED <<present, hidden, index, building, walk, list, steady, seen, chosen>> /\ quick' = I!Shut
    BY <1>4 DEF I!Escape
  <2> QED BY <2>1 DEF WalkInv, QuickInv, I!PicksWhatMatches, I!ListedFromTheWalk
<1>5. ASSUME NEW f \in I!PathSet, I!Appear(f) \/ I!Hide(f)
      PROVE  WalkInv' /\ QuickInv' /\ I!ListedFromTheWalk
  <2>1. WalkInv'
    BY <1>5, AppearWalk, HideWalk
  <2>2. UNCHANGED <<quick, chosen, index>>
    BY <1>5 DEF I!Appear, I!Hide
  <2> QED BY <2>1, <2>2 DEF QuickInv, I!PicksWhatMatches, I!ListedFromTheWalk
<1> QED BY <1>1, <1>2, <1>3, <1>4, <1>5 DEF I!Next

\* However the walk, the disk, the exclusions and the user's input meet, the list quick open filters
\* is that of one walk, each file once, with all that was there throughout or as many as the limit
\* allows, and none that never was; and what is picked matches the query its row was drawn of, though hits are kept
\* from frame to frame and lists replaced under them (project_files.rs refresh, poll, walk; quick_open.rs
\* hits, show).
THEOREM IndexIsHonest == Spec => IndexHonest
<1>1. Init => (part = "index" => WalkInv /\ QuickInv)
  BY InitWalk, InitQuick DEF Init
<1>2. (part = "index" => WalkInv /\ QuickInv) /\ [Next]_vars
      => (part = "index" => WalkInv /\ QuickInv)' /\ [part = "index" => I!ListedFromTheWalk]_vars
  <2>1. UNCHANGED IVars /\ WalkInv /\ QuickInv => WalkInv' /\ QuickInv'
    <3>1. UNCHANGED IVars /\ WalkInv => WalkInv'
      BY DEF IVars, WalkInv
    <3>2. UNCHANGED IVars /\ QuickInv => QuickInv'
      BY DEF IVars, QuickInv, I!PicksWhatMatches
    <3> QED BY <3>1, <3>2
  <2>2. CASE UNCHANGED vars
    BY <2>1, <2>2 DEF vars
  <2>3. CASE Next
    <3>1. CASE part = "index" /\ I!Next /\ part' = part
      BY <3>1, NextIndex
    <3>2. CASE part # "index" /\ part' = part
      BY <3>2
    <3> QED BY <2>3, <3>1, <3>2 DEF Next
  <2> QED BY <2>2, <2>3
<1>3. (part = "index" => WalkInv /\ QuickInv) => (part = "index" => I!PicksWhatMatches)
  BY DEF QuickInv
<1> QED BY <1>1, <1>2, <1>3, PTL DEF Spec, IndexHonest

(***************************************************************************)
(* The preview                                                             *)
(***************************************************************************)
\* However the clock, the editor, the disk, a reload, the preview's scroll, its
\* history and a rename meet: what a view takes for shown is what it has on
\* screen, a change is shown no later than the two delays allow, the preview
\* and the editor never answer one another's moves, and going back, going on, a
\* smaller history and a rename leave a run of the places shown (preview.rs
\* follow_document, follow_disk, sync; workspace.rs open, back, forward, cap,
\* rebase).
THEOREM PreviewsFollow == Spec => []PreviewFollows
<1>1. Init => (part = "preview" => PreviewInv)
  BY InitPreview DEF Init
<1>2. (part = "preview" => PreviewInv) /\ [Next]_vars => (part = "preview" => PreviewInv)'
  <2>1. UNCHANGED VVars /\ PreviewInv => PreviewInv'
    <3>1. UNCHANGED VVars /\ FilesTrue => FilesTrue'
      BY DEF VVars, FilesTrue
    <3>2. UNCHANGED VVars /\ ConfigTrue => ConfigTrue'
      BY DEF VVars, ConfigTrue
    <3>3. UNCHANGED VVars /\ ViewsTrue => ViewsTrue'
      BY DEF VVars, ViewsTrue
    <3>4. UNCHANGED VVars /\ Own => Own'
      BY DEF VVars, Own
    <3> QED BY <3>1, <3>2, <3>3, <3>4 DEF PreviewInv
  <2> QED BY <2>1, NextPreview DEF Next, vars
<1>3. (part = "preview" => PreviewInv) => PreviewFollows
  BY PreviewProperties DEF PreviewFollows
<1> QED BY <1>1, <1>2, <1>3, PTL DEF Spec
=============================================================================
