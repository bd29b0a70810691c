-------------------------- MODULE TerminalHubProofs --------------------------
(***************************************************************************)
(* What quitting closed stays closed, a panel without a terminal leaves no *)
(* session behind, a view that says Running is attached, and an old end is *)
(* not taken for that of a new terminal, for any set of panels and any     *)
(* number of terminals, requests and lost connections.                     *)
(***************************************************************************)
EXTENDS TerminalHub, FiniteSetTheorems, TLAPS

(* Requests and events: all but List, Close and the List's reply are about a panel. *)
Request ==
    {r \in [what : {"Attach", "Spawn", "Kill", "Forget", "List", "Close"}, id : Nat,
            panel : Panels \cup {"none"}, made : Nat] :
        r.what \in {"List", "Close"} \/ r.panel \in Panels}
Event ==
    {e \in [what : {"exited", "resync", "reply"}, id : Nat, panel : Panels \cup {"none"},
            how : Exits \cup {"none", "live", "nosuch", "error", "list"}, made : Nat] :
        /\ e.what = "exited" => e.how \in Exits
        /\ e.what = "resync" => e.how = "none"
        /\ e.what = "reply" => e.how \notin {"none", "user"}
        /\ e.how # "list" => e.panel \in Panels}
Session ==
    {s \in [st : {"none", "live", "exited"}, how : {"none", "clean", "failed"}, att : BOOLEAN,
            made : Nat] :
        /\ s.st = "exited" => s.how \in {"clean", "failed"}
        /\ s.att => s.st = "live"}

TypeOK ==
    /\ typed \in [Panels -> BOOLEAN] /\ made \in [Panels -> Nat]
    /\ status \in [Panels -> Statuses] /\ pend \in [Panels -> Nat]
    /\ waiting \subseteq Nat \X Panels \X {"Attach", "Spawn"}
    /\ dormant \subseteq Panels /\ killed \subseteq Panels /\ listing \in Nat
    /\ quit \in {"no", "asking", "done"} /\ up \in BOOLEAN /\ nextId \in Nat \ {0}
    /\ out \in Seq(Request) /\ inb \in Seq(Event)
    /\ sess \in [Panels -> Session] /\ closed \subseteq Panels

-----------------------------------------------------------------------------
(* Queues. *)

LEMMA JoinedPlaces ==
    ASSUME NEW S, NEW q \in Seq(S), NEW m \in S
    PROVE  /\ Append(q, m) \in Seq(S) /\ q \o <<m>> = Append(q, m)
           /\ Len(q) \in Nat /\ Len(q) + 1 \in DOMAIN Append(q, m) /\ Append(q, m)[Len(q) + 1] = m
           /\ \A i \in DOMAIN q : i \in DOMAIN Append(q, m) /\ Append(q, m)[i] = q[i] /\ i < Len(q) + 1
           /\ \A i \in DOMAIN Append(q, m) : i \in DOMAIN q \/ i = Len(q) + 1
           /\ DOMAIN q \subseteq Nat /\ \A i \in DOMAIN q : q[i] \in S
OBVIOUS

LEMMA JoinedTwo ==
    ASSUME NEW S, NEW q \in Seq(S), NEW m \in S, NEW n \in S
    PROVE  q \o (<<m>> \o <<n>>) = Append(Append(q, m), n)
OBVIOUS

LEMMA TakenPlaces ==
    ASSUME NEW S, NEW q \in Seq(S), q # <<>>
    PROVE  /\ Tail(q) \in Seq(S) /\ Head(q) \in S /\ 1 \in DOMAIN q /\ q[1] = Head(q)
           /\ \A i \in DOMAIN Tail(q) : i + 1 \in DOMAIN q /\ Tail(q)[i] = q[i + 1] /\ 1 < i + 1
           /\ \A i \in DOMAIN q : i # 1 => i - 1 \in DOMAIN Tail(q) /\ Tail(q)[i - 1] = q[i] /\ 1 < i
           /\ DOMAIN q \subseteq Nat /\ DOMAIN Tail(q) \subseteq Nat
           /\ \A i, j \in DOMAIN Tail(q) : i < j <=> i + 1 < j + 1
           /\ \A i, j \in DOMAIN Tail(q) : i + 1 = j + 1 => i = j
OBVIOUS

(* The order in which Close tells of the ends is any order. *)
LEMMA OrderOfSet == ASSUME NEW S, IsFiniteSet(S) PROVE SetToSeq(S) \in Seq(S)
<1>1. PICK n \in Nat : ExistsBijection(1 .. n, S)
  BY FS_NatBijection
<1>2. n = Cardinality(S)
  BY <1>1, FS_CountingElements, FS_CardinalityType
<1>3. \E f \in [1 .. Cardinality(S) -> S] : IsInjective(f)
  BY <1>1, <1>2 DEF ExistsBijection, Bijection, Injection, IsInjective
<1>4. SetToSeq(S) \in [1 .. Cardinality(S) -> S]
  BY <1>3 DEF SetToSeq
<1>5. Cardinality(S) \in Nat
  BY <1>1, <1>2
<1> QED BY <1>4, <1>5

-----------------------------------------------------------------------------
(* What holds of every state. *)

(* A lost connection holds nothing and serves no view. *)
Cut == ~up => out = <<>> /\ inb = <<>> /\ \A p \in Panels : ~sess[p].att

(* No two requests waited for have one id. *)
Named == \A w \in waiting : w[1] < nextId /\ \A v \in waiting : v[1] = w[1] => v = w

(* A panel without a terminal has no view, and one without a view waits for nothing. *)
Viewless == \A p \in Panels : (~typed[p] => status[p] = "none") /\ (status[p] = "none" => pend[p] = NoId)

Base == TypeOK /\ Cut /\ Named /\ Viewless

LEMMA InitBase == Init => Base
<1> SUFFICES ASSUME Init PROVE Base OBVIOUS
<1> DEFINE Kept == {s \in Session : ~s.att}
<1>1. sess \in [Panels -> Kept]
  <2>1. NoSession \in Kept
    BY DEF Session, NoSession
  <2>2. ASSUME NEW s \in [st : {"live"}, how : {"none"}, att : {FALSE}, made : {1}] PROVE s \in Kept
    <3>1. PICK h \in {"none"} : s = [st |-> "live", how |-> h, att |-> FALSE, made |-> 1]
      OBVIOUS
    <3> QED BY <3>1 DEF Session
  <2>3. ASSUME NEW s \in [st : {"exited"}, how : {"clean", "failed"}, att : {FALSE}, made : {1}] PROVE s \in Kept
    <3>1. PICK h \in {"clean", "failed"} : s = [st |-> "exited", how |-> h, att |-> FALSE, made |-> 1]
      OBVIOUS
    <3> QED BY <3>1 DEF Session
  <2> QED BY <2>1, <2>2, <2>3 DEF Init
<1>2. TypeOK /\ Cut
  <2>1. sess \in [Panels -> Session] /\ \A p \in Panels : ~sess[p].att
    BY <1>1
  <2>2. <<>> \in Seq(Request) /\ <<>> \in Seq(Event)
    OBVIOUS
  <2>3. typed \in [Panels -> BOOLEAN] /\ up \in BOOLEAN
    BY DEF Init
  <2>4. made \in [Panels -> Nat] /\ status \in [Panels -> Statuses] /\ pend \in [Panels -> Nat]
    BY DEF Init, Statuses, NoId
  <2> QED BY <2>1, <2>2, <2>3, <2>4 DEF Init, TypeOK, NoId, Cut
<1> QED BY <1>2 DEF Init, Base, Named, Viewless

LEMMA Requests ==
    ASSUME TypeOK, NEW p \in Panels, NEW what \in {"Attach", "Spawn", "Kill", "Forget"}
    PROVE  /\ About(what, p) \in Request /\ Asked(what, p) \in Request
           /\ About(what, p).what = what /\ About(what, p).panel = p
           /\ Asked(what, p).what = what /\ Asked(what, p).panel = p /\ Asked(what, p).id = nextId
           /\ Asked(what, p).made = made[p]
BY DEF About, Asked, Request, TypeOK, NoId

LEMMA Posted ==
    ASSUME TypeOK, NEW m \in Request, Post(<<m>>)
    PROVE  out' = (IF up THEN Append(out, m) ELSE out) /\ out' \in Seq(Request)
<1>1. out \o <<m>> = Append(out, m) /\ Append(out, m) \in Seq(Request)
  BY JoinedPlaces DEF TypeOK
<1> QED BY <1>1 DEF Post, TypeOK

LEMMA PostedTwo ==
    ASSUME TypeOK, NEW m \in Request, NEW n \in Request, Post(<<m>> \o <<n>>)
    PROVE  out' = (IF up THEN Append(Append(out, m), n) ELSE out) /\ out' \in Seq(Request)
<1>1. out \o (<<m>> \o <<n>>) = Append(Append(out, m), n) /\ Append(Append(out, m), n) \in Seq(Request)
  BY JoinedPlaces, JoinedTwo DEF TypeOK
<1> QED BY <1>1 DEF Post, TypeOK

(* What the hub asks, and what the daemon answers. *)
LEMMA AskNamed ==
    ASSUME TypeOK, Named, NEW p \in Panels, NEW kind \in {"Attach", "Spawn"}, NEW old \in SUBSET waiting,
           Ask(p, kind, old)
    PROVE  /\ waiting' \subseteq Nat \X Panels \X {"Attach", "Spawn"} /\ nextId' \in Nat \ {0}
           /\ pend' \in [Panels -> Nat] /\ Named'
<1> DEFINE w0 == <<nextId, p, kind>>
<1>1. w0 \in Nat \X Panels \X {"Attach", "Spawn"} /\ w0[1] = nextId /\ nextId \in Nat \ {0}
  BY DEF TypeOK
<1>2. waiting' = old \cup {w0} /\ nextId' = nextId + 1 /\ pend' = [pend EXCEPT ![p] = nextId]
  BY DEF Ask
<1> HIDE DEF w0
<1>3. \A w \in waiting : w \in Nat \X Panels \X {"Attach", "Spawn"} /\ w[1] \in Nat /\ w[1] < nextId
  BY DEF TypeOK, Named
<1>4. Named'
  BY <1>1, <1>2, <1>3 DEF Named
<1>5. pend' \in [Panels -> Nat]
  BY <1>1, <1>2 DEF TypeOK
<1> QED BY <1>1, <1>2, <1>3, <1>4, <1>5

LEMMA AnsweredNamed ==
    ASSUME TypeOK, Named, NEW p \in Panels, NEW old \in SUBSET waiting, Answered(p, old)
    PROVE  /\ waiting' \subseteq Nat \X Panels \X {"Attach", "Spawn"} /\ nextId' \in Nat \ {0}
           /\ pend' \in [Panels -> Nat] /\ Named'
BY DEF Answered, TypeOK, Named, NoId

LEMMA FrameBase == ASSUME Base, NEW p \in Panels, Frame(p) PROVE Base'
<1> USE DEF Base
<1>1. status' \in [Panels -> Statuses]
  BY DEF Frame, TypeOK, Statuses
<1>2. CASE quit = "no" /\ pend[p] = NoId /\ up
  <2>1. Ask(p, "Attach", waiting) /\ Post(<<Asked("Attach", p)>>)
    BY <1>2 DEF Frame
  <2>2. out' \in Seq(Request)
    BY <2>1, Posted, Requests
  <2>3. TypeOK' /\ Named'
    BY <1>1, <2>1, <2>2, AskNamed DEF Frame, TypeOK
  <2>4. Viewless'
    BY <2>1 DEF Frame, Viewless, TypeOK, Ask
  <2> QED BY <1>2, <2>3, <2>4 DEF Frame, Cut
<1>3. CASE ~(quit = "no" /\ pend[p] = NoId /\ up)
  BY <1>1, <1>3 DEF Frame, TypeOK, Cut, Named, Viewless
<1> QED BY <1>2, <1>3

LEMMA UserBase ==
    ASSUME Base, NEW p \in Panels, MakeTerminal(p) \/ Kill(p) \/ Restart(p)
    PROVE  Base'
<1> USE DEF Base
<1>1. CASE MakeTerminal(p)
  <2>1. typed' \in [Panels -> BOOLEAN] /\ made' \in [Panels -> Nat]
    BY <1>1 DEF MakeTerminal, TypeOK
  <2> QED BY <1>1, <2>1 DEF MakeTerminal, linkVars, TypeOK, Cut, Named, Viewless
<1>2. CASE Kill(p)
  <2>1. out' = (IF up THEN Append(out, About("Kill", p)) ELSE out) /\ out' \in Seq(Request)
    BY <1>2, Posted, Requests DEF Kill
  <2>2. /\ typed' \in [Panels -> BOOLEAN] /\ status' \in [Panels -> Statuses]
        /\ pend' \in [Panels -> Nat] /\ killed' \subseteq Panels
    BY <1>2 DEF Kill, TypeOK, Statuses, NoId
  <2>3. Viewless'
    BY <1>2 DEF Kill, Viewless, TypeOK
  <2> QED BY <1>2, <2>1, <2>2, <2>3 DEF Kill, TypeOK, Cut, Named
<1>3. CASE Restart(p)
  <2>1. status' = [status EXCEPT ![p] = "Connecting"] /\ dormant' \subseteq Panels
    BY <1>3 DEF Restart, SpawnShell, TypeOK
  <2>2. status' \in [Panels -> Statuses]
    BY <2>1 DEF TypeOK, Statuses
  <2>3. CASE up
    <3>1. Ask(p, "Spawn", waiting) /\ Post(<<About("Forget", p)>> \o <<Asked("Spawn", p)>>)
      BY <1>3, <2>3 DEF Restart, SpawnShell
    <3>2. out' \in Seq(Request)
      BY <3>1, PostedTwo, Requests
    <3>3. TypeOK' /\ Named'
      BY <1>3, <2>1, <2>2, <3>1, <3>2, AskNamed DEF Restart, TypeOK
    <3>4. Viewless'
      BY <1>3, <2>1, <3>1 DEF Restart, Viewless, TypeOK, Ask
    <3> QED BY <1>3, <2>3, <3>3, <3>4 DEF Restart, Cut
  <2>4. CASE ~up
    <3>1. Answered(p, waiting) /\ out' = out
      BY <1>3, <2>4 DEF Restart
    <3>2. TypeOK' /\ Named'
      BY <1>3, <2>1, <2>2, <3>1, AnsweredNamed DEF Restart, TypeOK
    <3>3. Viewless'
      BY <1>3, <2>1, <3>1 DEF Restart, Viewless, TypeOK, Answered
    <3> QED BY <1>3, <2>4, <3>1, <3>2, <3>3 DEF Restart, Cut
  <2> QED BY <2>3, <2>4
<1> QED BY <1>1, <1>2, <1>3

LEMMA EndsFacts ==
    ASSUME TypeOK, NEW p \in Panels, NEW how, Ends(p, how)
    PROVE  /\ \/ status[p] = "none" /\ UNCHANGED <<typed, status, out>>
              \/ /\ status[p] # "none" /\ how = "failed"
                 /\ status' = [status EXCEPT ![p] = "Exited"] /\ UNCHANGED <<typed, out>>
              \/ /\ status[p] # "none" /\ how # "failed"
                 /\ status' = [status EXCEPT ![p] = "none"]
                 /\ typed' = IF quit = "done" THEN typed ELSE [typed EXCEPT ![p] = FALSE]
                 /\ out' = IF up THEN Append(out, About("Forget", p)) ELSE out
           /\ typed' \in [Panels -> BOOLEAN] /\ status' \in [Panels -> Statuses]
           /\ out' \in Seq(Request)
<1>1. CASE status[p] = "none"
  BY <1>1 DEF Ends, TypeOK
<1>2. CASE status[p] # "none" /\ how = "failed"
  BY <1>2 DEF Ends, TypeOK, Statuses
<1>3. CASE status[p] # "none" /\ how # "failed"
  <2>1. Post(<<About("Forget", p)>>)
    BY <1>3 DEF Ends
  <2>2. out' = (IF up THEN Append(out, About("Forget", p)) ELSE out) /\ out' \in Seq(Request)
    BY <2>1, Posted, Requests
  <2>3. typed' \in [Panels -> BOOLEAN] /\ status' \in [Panels -> Statuses]
    BY <1>3 DEF Ends, TypeOK, Statuses
  <2> QED BY <1>3, <2>2, <2>3 DEF Ends
<1> QED BY <1>1, <1>2, <1>3

(* A reply is to one request, and only if that one's panel still has a view does
   it change more than what is waited for. *)
LEMMA ReplyFacts ==
    ASSUME Base, NEW e \in Event, ReceiveReply(e)
    PROVE  \/ /\ UNCHANGED <<typed, status, pend, nextId, out>>
              /\ waiting' = {w \in waiting : w[1] # e.id}
              /\ \A w \in waiting : w[1] = e.id => status[w[2]] = "none"
           \/ \E w \in waiting, p \in Panels :
                 /\ w[1] = e.id /\ w[2] = p /\ status[p] # "none"
                 /\ \/ /\ e.how = "live" /\ status' = [status EXCEPT ![p] = "Running"]
                       /\ Answered(p, waiting \ {w}) /\ UNCHANGED <<typed, out>>
                    \/ e.how \in Exits /\ Ends(p, e.how) /\ Answered(p, waiting \ {w})
                    \/ /\ e.how = "nosuch" /\ w[3] = "Attach" /\ UNCHANGED <<typed, out>>
                       /\ status' = [status EXCEPT ![p] = "Dormant"] /\ Answered(p, waiting \ {w})
                    \/ /\ e.how = "nosuch" /\ w[3] = "Attach" /\ UNCHANGED typed
                       /\ StartMissing(p, waiting \ {w})
                    \/ /\ e.how = "error" /\ status' = [status EXCEPT ![p] = "Failed"]
                       /\ Answered(p, waiting \ {w}) /\ UNCHANGED <<typed, out>>
<1> DEFINE asked == {w \in waiting : w[1] = e.id}
           rest == waiting \ asked
<1>1. CASE asked = {} \/ \A w \in asked : status[w[2]] = "none"
  <2>1. rest = {w \in waiting : w[1] # e.id}
    OBVIOUS
  <2>2. \A w \in waiting : w[1] = e.id => status[w[2]] = "none"
    BY <1>1
  <2> QED BY <1>1, <2>1, <2>2 DEF ReceiveReply
<1>2. CASE ~(asked = {} \/ \A w \in asked : status[w[2]] = "none")
  <2>1. PICK v \in asked : status[v[2]] # "none"
    BY <1>2
  <2>2. asked = {v} /\ rest = waiting \ {v}
    BY DEF Base, Named
  <2>3. v \in waiting /\ v[1] = e.id /\ v[2] \in Panels
    BY DEF Base, TypeOK
  <2> DEFINE p == v[2]
  <2>4. \/ /\ e.how = "live" /\ status' = [status EXCEPT ![p] = "Running"]
           /\ Answered(p, waiting \ {v}) /\ UNCHANGED <<typed, out>>
        \/ e.how \in Exits /\ Ends(p, e.how) /\ Answered(p, waiting \ {v})
        \/ /\ e.how = "nosuch" /\ v[3] = "Attach" /\ UNCHANGED typed
           /\ IF p \in dormant
              THEN /\ status' = [status EXCEPT ![p] = "Dormant"]
                   /\ Answered(p, waiting \ {v}) /\ UNCHANGED out
              ELSE StartMissing(p, waiting \ {v})
        \/ /\ e.how = "error" /\ status' = [status EXCEPT ![p] = "Failed"]
           /\ Answered(p, waiting \ {v}) /\ UNCHANGED <<typed, out>>
    BY <1>2, <2>2 DEF ReceiveReply
  <2> QED BY <2>1, <2>3, <2>4
<1> QED BY <1>1, <1>2

LEMMA ReceiveBase == ASSUME Base, Receive PROVE Base'
<1> USE DEF Base
<1> DEFINE e == Head(inb)
<1>1. e \in Event /\ inb' \in Seq(Event) /\ inb # <<>>
  BY TakenPlaces DEF Receive, TypeOK
<1>2. up
  BY <1>1 DEF Cut
<1>3. ReceiveExited(e) \/ ReceiveResync(e) \/ ReceiveList(e) \/ ReceiveReply(e)
  BY DEF Receive
<1> HIDE DEF e
<1>4. CASE ReceiveExited(e)
  <2>1. e.panel \in Panels
    BY <1>1, <1>4 DEF ReceiveExited, Event, Exits
  <2>2. CASE e.how = "user" /\ e.panel \in killed
    BY <1>1, <1>2, <1>4, <2>2 DEF ReceiveExited, Receive, TypeOK, Cut, Named, Viewless
  <2>3. CASE ~(e.how = "user" /\ e.panel \in killed)
    <3>1. /\ Ends(e.panel, e.how)
          /\ pend' = [pend EXCEPT ![e.panel] = IF status'[e.panel] = "none" THEN NoId ELSE @]
          /\ UNCHANGED <<killed, waiting, nextId, made, dormant, listing, quit>>
      BY <1>4, <2>3 DEF ReceiveExited
    <3>2. /\ typed' \in [Panels -> BOOLEAN] /\ status' \in [Panels -> Statuses]
          /\ out' \in Seq(Request) /\ pend' \in [Panels -> Nat]
      BY <2>1, <3>1, EndsFacts DEF TypeOK, NoId
    <3>3. Viewless'
      BY <2>1, <3>1, <3>2, EndsFacts DEF Viewless, TypeOK
    <3> QED BY <1>1, <1>2, <3>1, <3>2, <3>3 DEF Receive, TypeOK, Cut, Named
  <2> QED BY <2>2, <2>3
<1>5. CASE ReceiveResync(e)
  <2>1. e.panel \in Panels
    BY <1>1, <1>5 DEF ReceiveResync, Event
  <2>2. CASE status[e.panel] = "none"
    BY <1>1, <1>2, <1>5, <2>2 DEF ReceiveResync, Receive, TypeOK, Cut, Named, Viewless
  <2>3. CASE status[e.panel] # "none"
    <3>1. Ask(e.panel, "Attach", waiting) /\ Post(<<Asked("Attach", e.panel)>>)
      BY <1>5, <2>3 DEF ReceiveResync
    <3>2. out' \in Seq(Request)
      BY <2>1, <3>1, Posted, Requests
    <3>3. TypeOK' /\ Named'
      BY <1>1, <1>5, <2>1, <3>1, <3>2, AskNamed DEF ReceiveResync, Receive, TypeOK
    <3>4. Viewless'
      BY <1>5, <2>1, <2>3, <3>1 DEF ReceiveResync, Viewless, Ask, TypeOK
    <3> QED BY <1>2, <3>3, <3>4 DEF Receive, Cut
  <2> QED BY <2>2, <2>3
<1>6. CASE ReceiveList(e)
  BY <1>1, <1>2, <1>6 DEF ReceiveList, Receive, TypeOK, Cut, Named, Viewless, NoId
<1>7. CASE ReceiveReply(e)
  <2>1. UNCHANGED <<made, dormant, killed, listing, quit, up, losses, sess, closed>>
    BY <1>7 DEF ReceiveReply, Receive
  <2>2. /\ typed' \in [Panels -> BOOLEAN] /\ status' \in [Panels -> Statuses]
        /\ out' \in Seq(Request) /\ pend' \in [Panels -> Nat] /\ nextId' \in Nat \ {0}
        /\ waiting' \subseteq Nat \X Panels \X {"Attach", "Spawn"} /\ Named' /\ Viewless'
    <3>1. CASE /\ UNCHANGED <<typed, status, pend, nextId, out>>
               /\ waiting' = {w \in waiting : w[1] # e.id}
      BY <3>1 DEF TypeOK, Named, Viewless
    <3>2. ASSUME NEW w \in waiting, NEW p \in Panels, status[p] # "none",
                 \/ /\ e.how \in {"live", "nosuch", "error"}
                    /\ \E s \in Statuses \ {"none"} : status' = [status EXCEPT ![p] = s]
                    /\ Answered(p, waiting \ {w}) /\ UNCHANGED <<typed, out>>
                 \/ e.how \in Exits /\ Ends(p, e.how) /\ Answered(p, waiting \ {w})
                 \/ UNCHANGED typed /\ StartMissing(p, waiting \ {w})
          PROVE  /\ typed' \in [Panels -> BOOLEAN] /\ status' \in [Panels -> Statuses]
                 /\ out' \in Seq(Request) /\ pend' \in [Panels -> Nat] /\ nextId' \in Nat \ {0}
                 /\ waiting' \subseteq Nat \X Panels \X {"Attach", "Spawn"} /\ Named' /\ Viewless'
      <4>1. CASE /\ \E s \in Statuses \ {"none"} : status' = [status EXCEPT ![p] = s]
                 /\ Answered(p, waiting \ {w}) /\ UNCHANGED <<typed, out>>
        <5>1. status' \in [Panels -> Statuses] /\ Viewless'
          BY <3>2, <4>1 DEF TypeOK, Viewless, Answered
        <5> QED BY <4>1, <5>1, AnsweredNamed DEF TypeOK
      <4>2. CASE e.how \in Exits /\ Ends(p, e.how) /\ Answered(p, waiting \ {w})
        <5>1. /\ typed' \in [Panels -> BOOLEAN] /\ status' \in [Panels -> Statuses]
              /\ out' \in Seq(Request)
          BY <4>2, EndsFacts
        <5>2. \/ status' = [status EXCEPT ![p] = "Exited"] /\ UNCHANGED typed
              \/ /\ status' = [status EXCEPT ![p] = "none"]
                 /\ typed' = IF quit = "done" THEN typed ELSE [typed EXCEPT ![p] = FALSE]
          BY <3>2, <4>2, EndsFacts
        <5>3. \A r \in Panels : r # p => typed'[r] = typed[r] /\ status'[r] = status[r]
          BY <5>2 DEF TypeOK
        <5>4. ~typed'[p] => status'[p] = "none"
          BY <3>2, <5>2 DEF TypeOK, Viewless
        <5>5. pend' = [pend EXCEPT ![p] = NoId]
          BY <4>2 DEF Answered
        <5>6. Viewless'
          BY <5>3, <5>4, <5>5 DEF TypeOK, Viewless
        <5> QED BY <4>2, <5>1, <5>6, AnsweredNamed
      <4>3. CASE UNCHANGED typed /\ StartMissing(p, waiting \ {w})
        <5>1. CASE quit = "no"
          <6>1. /\ Ask(p, "Spawn", waiting \ {w}) /\ Post(<<>> \o <<Asked("Spawn", p)>>)
                /\ status' = [status EXCEPT ![p] = "Connecting"]
            BY <4>3, <5>1 DEF StartMissing, SpawnShell
          <6>2. <<>> \o <<Asked("Spawn", p)>> = <<Asked("Spawn", p)>>
            BY Requests
          <6>3. out' \in Seq(Request)
            BY <6>1, <6>2, Posted, Requests
          <6>4. status' \in [Panels -> Statuses] /\ Viewless'
            BY <3>2, <4>3, <6>1 DEF TypeOK, Viewless, Ask, Statuses
          <6>5. /\ waiting' \subseteq Nat \X Panels \X {"Attach", "Spawn"} /\ nextId' \in Nat \ {0}
                /\ pend' \in [Panels -> Nat] /\ Named'
            BY <6>1, AskNamed
          <6>6. typed' \in [Panels -> BOOLEAN]
            BY <4>3 DEF TypeOK
          <6> QED BY <6>3, <6>4, <6>5, <6>6
        <5>2. CASE quit # "no"
          <6>1. Answered(p, waiting \ {w}) /\ UNCHANGED <<status, out>>
            BY <4>3, <5>2 DEF StartMissing
          <6>2. Viewless'
            BY <4>3, <6>1 DEF Viewless, Answered, TypeOK
          <6> QED BY <4>3, <6>1, <6>2, AnsweredNamed DEF TypeOK
        <5> QED BY <5>1, <5>2
      <4> QED BY <3>2, <4>1, <4>2, <4>3
    <3> QED BY <1>1, <1>7, <3>1, <3>2, ReplyFacts DEF Statuses
  <2> QED BY <1>1, <1>2, <2>1, <2>2 DEF TypeOK, Cut
<1> QED BY <1>3, <1>4, <1>5, <1>6, <1>7

LEMMA Events ==
    ASSUME TypeOK, NEW p \in Panels
    PROVE  /\ \A how \in Exits : Told("exited", p, how) \in Event
           /\ Told("resync", p, "none") \in Event
           /\ \A r \in Request, how \in {"live", "clean", "failed", "nosuch", "error"} :
                 r.panel = p =>
                    \E e \in Event : /\ Answer(r, how) = <<e>> /\ e.made = sess[p].made
                                     /\ e.what = "reply" /\ e.how = how /\ e.panel = p /\ e.id = r.id
<1>1. sess[p].made \in Nat
  BY DEF TypeOK, Session
<1>2. \A how \in Exits : Told("exited", p, how) \in Event
  BY <1>1 DEF Told, Event, NoId, Exits
<1>3. Told("resync", p, "none") \in Event
  BY <1>1 DEF Told, Event, NoId, Exits
<1>4. ASSUME NEW r \in Request, NEW how \in {"live", "clean", "failed", "nosuch", "error"}, r.panel = p
      PROVE  \E e \in Event : /\ Answer(r, how) = <<e>> /\ e.made = sess[p].made
                              /\ e.what = "reply" /\ e.how = how /\ e.panel = p /\ e.id = r.id
  <2> DEFINE e == [Told("reply", r.panel, how) EXCEPT !.id = r.id]
  <2>1. r.id \in Nat
    BY DEF Request
  <2>2. e = [what |-> "reply", id |-> r.id, panel |-> p, how |-> how, made |-> sess[p].made]
    BY <1>4 DEF Told
  <2>3. e \in Event
    BY <1>1, <2>1, <2>2 DEF Event, Exits
  <2> QED BY <2>2, <2>3 DEF Answer
<1> QED BY <1>2, <1>3, <1>4

(* What one request does. *)
Served(r) ==
    /\ out # <<>> /\ r = Head(out) /\ out' = Tail(out) /\ out' \in Seq(Request) /\ up
    /\ inb' \in Seq(Event) /\ sess' \in [Panels -> Session]
    /\ \/ /\ r.what = "Spawn" /\ r.panel \in Panels /\ sess[r.panel].st # "live"
          /\ sess' = [sess EXCEPT ![r.panel] =
                        [st |-> "live", how |-> "none", att |-> TRUE, made |-> r.made]]
          /\ \E e \in Event : /\ inb' = Append(inb, e) /\ e.what = "reply" /\ e.how = "live"
                              /\ e.panel = r.panel /\ e.id = r.id
          /\ UNCHANGED <<quit, closed>>
       \/ /\ r.what = "Spawn" /\ r.panel \in Panels
          /\ \E e \in Event : /\ inb' = Append(inb, e) /\ e.what = "reply" /\ e.how = "error"
                              /\ e.panel = r.panel /\ e.id = r.id
          /\ UNCHANGED <<sess, quit, closed>>
       \/ /\ r.what = "Attach" /\ r.panel \in Panels
          /\ sess' = [sess EXCEPT ![r.panel].att = (sess[r.panel].st = "live")]
          /\ \E e \in Event : /\ inb' = Append(inb, e) /\ e.what = "reply"
                              /\ e.how = Found(sess[r.panel]) /\ e.made = sess[r.panel].made
                              /\ e.panel = r.panel /\ e.id = r.id
          /\ UNCHANGED <<quit, closed>>
       \/ /\ r.what = "Kill" /\ r.panel \in Panels
          /\ sess' = [sess EXCEPT ![r.panel] = NoSession]
          /\ \/ ~sess[r.panel].att /\ inb' = inb
             \/ /\ sess[r.panel].att
                /\ \E e \in Event : /\ inb' = Append(inb, e) /\ e.what = "exited"
                                    /\ e.how = "user" /\ e.panel = r.panel
                                    /\ e.made = sess[r.panel].made
          /\ UNCHANGED <<quit, closed>>
       \/ /\ r.what = "Forget" /\ r.panel \in Panels /\ UNCHANGED inb
          /\ sess' = IF sess[r.panel].st = "exited"
                     THEN [sess EXCEPT ![r.panel] = NoSession] ELSE sess
          /\ UNCHANGED <<quit, closed>>
       \/ /\ r.what = "List"
          /\ \E e \in Event : /\ inb' = Append(inb, e) /\ e.what = "reply"
                              /\ e.how = "list" /\ e.id = r.id
          /\ UNCHANGED <<sess, quit, closed>>
       \/ /\ r.what = "Close" /\ quit' = "done"
          /\ \E ends \in SUBSET Panels :
                /\ closed' = ends
                /\ sess' = [p \in Panels |-> IF p \in ends THEN NoSession ELSE sess[p]]
          /\ \E told \in Seq(Event) :
                /\ inb' = inb \o told
                /\ \A i \in DOMAIN told : /\ told[i].how = "user" /\ told[i].panel \in Panels
                                          /\ sess[told[i].panel].st = "live"
                                          /\ told[i].made = sess[told[i].panel].made

LEMMA ServeFacts == ASSUME Base, Serve PROVE \E r \in Request : Served(r)
<1> USE DEF Base
<1> DEFINE r == Head(out)
<1>1. out # <<>> /\ out' = Tail(out) /\ up
  BY DEF Serve
<1>2. r \in Request /\ out' \in Seq(Request) /\ inb \in Seq(Event) /\ sess \in [Panels -> Session]
  BY <1>1, TakenPlaces DEF TypeOK
<1>3. r.what \in {"List", "Close"} \/ r.panel \in Panels
  BY <1>2 DEF Request
<1>4. \/ /\ ServeSpawn(r) \/ ServeAttach(r) \/ ServeKill(r) \/ ServeForget(r) \/ ServeList(r)
         /\ UNCHANGED <<quit, closed>>
      \/ ServeClose(r)
  BY DEF Serve
<1>5. NoSession \in Session
  BY DEF NoSession, Session
<1>6. \A e \in Event : inb \o <<e>> = Append(inb, e) /\ Append(inb, e) \in Seq(Event)
  BY <1>2, JoinedPlaces
<1>7. r.made \in Nat /\ r.id \in Nat
  BY <1>2 DEF Request
<1> HIDE DEF r
<1>8. CASE ServeSpawn(r)
  <2>1. r.what = "Spawn" /\ r.panel \in Panels
    BY <1>3, <1>8 DEF ServeSpawn
  <2>2. CASE Tells(Answer(r, "error")) /\ UNCHANGED sess
    <3>0. PICK e \in Event : /\ Answer(r, "error") = <<e>>
                             /\ e.what = "reply" /\ e.how = "error" /\ e.panel = r.panel /\ e.id = r.id
      BY <1>2, <2>1, Events
    <3>1. inb' = Append(inb, e)
      BY <1>6, <2>2, <3>0 DEF Tells
    <3> QED BY <1>1, <1>2, <1>4, <1>6, <1>8, <2>1, <2>2, <3>0, <3>1 DEF ServeSpawn, ServeClose,
               Served, r
  <2>3. CASE /\ sess[r.panel].st # "live" /\ Tells(Answer(r, "live"))
             /\ sess' = [sess EXCEPT ![r.panel] =
                           [st |-> "live", how |-> "none", att |-> TRUE, made |-> r.made]]
    <3>0. PICK e \in Event : /\ Answer(r, "live") = <<e>>
                             /\ e.what = "reply" /\ e.how = "live" /\ e.panel = r.panel /\ e.id = r.id
      BY <1>2, <2>1, Events
    <3>1. inb' = Append(inb, e)
      BY <1>6, <2>3, <3>0 DEF Tells
    <3>2. [st |-> "live", how |-> "none", att |-> TRUE, made |-> r.made] \in Session
      BY <1>7 DEF Session
    <3>3. sess' \in [Panels -> Session]
      BY <1>2, <2>3, <3>2
    <3> QED BY <1>1, <1>2, <1>4, <1>6, <1>8, <2>1, <2>3, <3>0, <3>1, <3>3 DEF ServeSpawn,
               ServeClose, Served, r
  <2> QED BY <1>8, <2>2, <2>3 DEF ServeSpawn
<1>9. CASE ServeAttach(r)
  <2>1. r.what = "Attach" /\ r.panel \in Panels
    BY <1>3, <1>9 DEF ServeAttach
  <2>2. /\ Tells(Answer(r, Found(sess[r.panel])))
        /\ sess' = [sess EXCEPT ![r.panel].att = (sess[r.panel].st = "live")]
    BY <1>9 DEF ServeAttach
  <2>3. Found(sess[r.panel]) \in {"live", "clean", "failed", "nosuch", "error"}
    BY <1>2, <2>1 DEF Found, Session
  <2>4. \E e \in Event : /\ inb' = Append(inb, e) /\ e.what = "reply"
                         /\ e.how = Found(sess[r.panel]) /\ e.made = sess[r.panel].made
                         /\ e.panel = r.panel /\ e.id = r.id
    <3>1. PICK e \in Event : /\ Answer(r, Found(sess[r.panel])) = <<e>> /\ e.made = sess[r.panel].made
                             /\ e.what = "reply" /\ e.how = Found(sess[r.panel])
                             /\ e.panel = r.panel /\ e.id = r.id
      BY <1>2, <2>1, <2>3, Events
    <3>2. inb' = Append(inb, e)
      BY <1>6, <2>2, <3>1 DEF Tells
    <3> QED BY <3>1, <3>2
  <2>5. sess' \in [Panels -> Session]
    <3>1. [sess[r.panel] EXCEPT !.att = (sess[r.panel].st = "live")] \in Session
      BY <1>2, <2>1 DEF Session
    <3> QED BY <1>2, <2>2, <3>1
  <2> QED BY <1>1, <1>2, <1>4, <1>6, <1>9, <2>1, <2>2, <2>4, <2>5 DEF ServeAttach, ServeClose,
             Served, r
<1>10. CASE ServeKill(r)
  <2>1. r.what = "Kill" /\ r.panel \in Panels /\ sess' = [sess EXCEPT ![r.panel] = NoSession]
    BY <1>3, <1>10 DEF ServeKill
  <2>2. \/ ~sess[r.panel].att /\ inb' = inb
        \/ /\ sess[r.panel].att
           /\ \E e \in Event : /\ inb' = Append(inb, e) /\ e.what = "exited"
                               /\ e.how = "user" /\ e.panel = r.panel /\ e.made = sess[r.panel].made
    <3>1. CASE ~sess[r.panel].att
      BY <1>2, <1>10, <3>1 DEF ServeKill, ExitTold, Tells
    <3>2. CASE sess[r.panel].att
      <4>1. Told("exited", r.panel, "user") \in Event
        BY <2>1, Events DEF Exits
      <4>2. inb' = Append(inb, Told("exited", r.panel, "user"))
        BY <1>6, <1>10, <3>2, <4>1 DEF ServeKill, ExitTold, Tells
      <4> QED BY <3>2, <4>1, <4>2 DEF Told
    <3> QED BY <3>1, <3>2
  <2>3. inb' \in Seq(Event) /\ sess' \in [Panels -> Session]
    BY <1>2, <1>5, <1>6, <2>1, <2>2
  <2> QED BY <1>1, <1>2, <1>4, <1>10, <2>1, <2>2, <2>3 DEF ServeKill, ServeClose, Served, r
<1>11. CASE ServeForget(r)
  <2>1. r.panel \in Panels /\ sess' \in [Panels -> Session]
    BY <1>2, <1>3, <1>5, <1>11 DEF ServeForget
  <2> QED BY <1>1, <1>2, <1>4, <1>11, <2>1 DEF ServeForget, ServeClose, Served, r
<1>12. CASE ServeList(r)
  <2> DEFINE e == [what |-> "reply", id |-> r.id, panel |-> "none", how |-> "list", made |-> 0]
  <2>1. e \in Event
    BY <1>7 DEF Event, Exits
  <2>2. inb' = Append(inb, e)
    BY <1>6, <1>12, <2>1 DEF ServeList, Tells
  <2> QED BY <1>1, <1>2, <1>4, <1>6, <1>12, <2>1, <2>2 DEF ServeList, ServeClose, Served, r
<1>13. CASE ServeClose(r)
  <2>1. PICK ends \in SUBSET {p \in Panels : sess[p].st = "live"} :
          /\ closed' = ends
          /\ Tells(SetToSeq({Told("exited", p, "user") : p \in {q \in ends : sess[q].att}}))
          /\ sess' = [p \in Panels |-> IF p \in ends THEN NoSession ELSE sess[p]]
    BY <1>13 DEF ServeClose
  <2> DEFINE T == {q \in ends : sess[q].att}
             E == {Told("exited", p, "user") : p \in T}
  <2>2. IsFiniteSet(E)
    <3>1. IsFiniteSet(T)
      BY HubAssumption, FS_Subset DEF HubAssumption
    <3> DEFINE f == [p \in T |-> Told("exited", p, "user")]
    <3>2. f \in Surjection(T, E)
      BY DEF Surjection
    <3> QED BY <3>1, <3>2, FS_Surjection
  <2>3. E \subseteq Event
    BY Events DEF Exits
  <2>4. SetToSeq(E) \in Seq(Event) /\ \A i \in DOMAIN SetToSeq(E) : SetToSeq(E)[i] \in E
    <3> HIDE DEF E
    <3>1. SetToSeq(E) \in Seq(E)
      BY <2>2, OrderOfSet
    <3>2. PICK told \in Seq(E) : told = SetToSeq(E)
      BY <3>1
    <3>3. told \in Seq(Event) /\ \A i \in DOMAIN told : told[i] \in E
      BY <2>3
    <3> QED BY <3>2, <3>3
  <2>5. inb' \in Seq(Event)
    BY <1>2, <2>1, <2>4 DEF Tells
  <2>6. sess' \in [Panels -> Session]
    BY <1>2, <1>5, <2>1
  <2>7. \E told \in Seq(Event) :
           /\ inb' = inb \o told
           /\ \A i \in DOMAIN told : /\ told[i].how = "user" /\ told[i].panel \in Panels
                                     /\ sess[told[i].panel].st = "live"
                                     /\ told[i].made = sess[told[i].panel].made
    <3>2. \A e \in E : /\ e.how = "user" /\ e.panel \in Panels /\ sess[e.panel].st = "live"
                       /\ e.made = sess[e.panel].made
      BY <2>1 DEF Told
    <3>3. Tells(SetToSeq(E))
      BY <2>1
    <3> HIDE DEF E
    <3>4. inb' = inb \o SetToSeq(E)
      BY <3>3 DEF Tells
    <3> QED BY <2>4, <3>2, <3>4
  <2> QED BY <1>1, <1>2, <1>13, <2>1, <2>5, <2>6, <2>7 DEF ServeClose, Served, r
<1> QED BY <1>4, <1>8, <1>9, <1>10, <1>11, <1>12, <1>13

LEMMA ServeBase == ASSUME Base, Serve PROVE Base'
<1> USE DEF Base
<1>1. /\ UNCHANGED <<typed, made, status, pend, waiting, dormant, killed, listing, up, nextId, losses>>
      /\ quit' \in {"no", "asking", "done"} /\ closed' \subseteq Panels
      /\ out' \in Seq(Request) /\ inb' \in Seq(Event) /\ sess' \in [Panels -> Session] /\ up
  BY ServeFacts DEF Serve, Served, TypeOK
<1> QED BY <1>1 DEF TypeOK, Cut, Named, Viewless

(* The shell's own exit, and its view falling behind. *)
LEMMA SessionFacts ==
    ASSUME Base, NEW p \in Panels, Overflows(p) \/ \E how \in Exits : ShellExits(p, how)
    PROVE  /\ UNCHANGED <<hubVars, up, nextId, losses, out, closed>>
           /\ sess[p].st = "live" /\ sess' \in [Panels -> Session] /\ inb' \in Seq(Event)
           /\ \/ ~sess[p].att /\ inb' = inb
              \/ /\ sess[p].att
                 /\ \E e \in Event :
                       /\ inb' = Append(inb, e) /\ e.panel = p /\ e.made = sess[p].made
                       /\ \/ e.what = "resync" /\ e.how = "none" /\ sess' = sess
                          \/ /\ e.what = "exited" /\ e.how \in {"clean", "failed"}
                             /\ sess'[p].st = "exited" /\ sess'[p].how = e.how
           /\ \A q \in Panels : q # p => sess'[q] = sess[q]
           /\ sess'[p].made = sess[p].made
           /\ sess' # sess => sess'[p].st = "exited" /\ \E how \in Exits : ShellExits(p, how)
           /\ sess' = sess => sess[p].att
<1> USE DEF Base
<1>1. sess[p] \in Session /\ sess \in [Panels -> Session] /\ inb \in Seq(Event)
  BY DEF TypeOK
<1>2. \A e \in Event : inb \o <<e>> = Append(inb, e) /\ Append(inb, e) \in Seq(Event)
  BY <1>1, JoinedPlaces
<1>3. CASE Overflows(p)
  <2>1. sess[p].att /\ sess[p].att = TRUE /\ sess[p].st = "live"
    BY <1>1, <1>3 DEF Overflows, Session
  <2>2. sess' = sess
    BY <1>1, <1>3, <2>1 DEF Overflows, Session
  <2>3. Told("resync", p, "none") \in Event
    BY Events
  <2>4. inb' = Append(inb, Told("resync", p, "none"))
    BY <1>2, <1>3, <2>3 DEF Overflows, Tells
  <2>5. /\ Told("resync", p, "none").panel = p /\ Told("resync", p, "none").what = "resync"
        /\ Told("resync", p, "none").how = "none" /\ Told("resync", p, "none").made = sess[p].made
    BY DEF Told
  <2> QED BY <1>1, <1>2, <1>3, <2>1, <2>2, <2>3, <2>4, <2>5 DEF Overflows
<1>4. ASSUME NEW how \in Exits, ShellExits(p, how)
      PROVE  /\ UNCHANGED <<hubVars, up, nextId, losses, out, closed>>
             /\ sess[p].st = "live" /\ sess' \in [Panels -> Session] /\ inb' \in Seq(Event)
             /\ \/ ~sess[p].att /\ inb' = inb
                \/ /\ sess[p].att
                   /\ \E e \in Event :
                         /\ inb' = Append(inb, e) /\ e.panel = p /\ e.made = sess[p].made
                         /\ e.what = "exited" /\ e.how \in {"clean", "failed"}
                         /\ sess'[p].st = "exited" /\ sess'[p].how = e.how
             /\ \A q \in Panels : q # p => sess'[q] = sess[q]
             /\ sess'[p].st = "exited" /\ sess'[p].made = sess[p].made
  <2>1. /\ how \in {"clean", "failed"} /\ sess[p].st = "live" /\ Tells(ExitTold(p, how))
        /\ sess' = [sess EXCEPT ![p] = [@ EXCEPT !.st = "exited", !.how = how, !.att = FALSE]]
        /\ UNCHANGED <<hubVars, up, nextId, losses, out, closed>>
    BY <1>4 DEF ShellExits
  <2>2. [sess[p] EXCEPT !.st = "exited", !.how = how, !.att = FALSE] \in Session
    BY <1>1, <2>1 DEF Session
  <2>3. /\ sess' \in [Panels -> Session] /\ sess'[p].st = "exited" /\ sess'[p].how = how
        /\ sess'[p].made = sess[p].made
    BY <1>1, <2>1, <2>2 DEF Session
  <2>4. CASE ~sess[p].att
    <3>1. inb' = inb
      BY <1>1, <2>1, <2>4 DEF Tells, ExitTold
    <3> QED BY <1>1, <2>1, <2>3, <2>4, <3>1
  <2>5. CASE sess[p].att
    <3>1. Told("exited", p, how) \in Event
      BY Events
    <3>2. inb' = Append(inb, Told("exited", p, how))
      BY <1>2, <2>1, <2>5, <3>1 DEF Tells, ExitTold
    <3>3. /\ Told("exited", p, how).panel = p /\ Told("exited", p, how).what = "exited"
          /\ Told("exited", p, how).how = how /\ Told("exited", p, how).made = sess[p].made
      BY DEF Told
    <3> QED BY <1>1, <1>2, <2>1, <2>3, <2>5, <3>1, <3>2, <3>3
  <2> QED BY <2>4, <2>5
<1> QED BY <1>3, <1>4

LEMMA SessionBase ==
    ASSUME Base, NEW p \in Panels, Overflows(p) \/ \E how \in Exits : ShellExits(p, how)
    PROVE  Base'
<1> USE DEF Base
<1>1. ASSUME ~up' PROVE out' = <<>> /\ inb' = <<>> /\ \A q \in Panels : ~sess'[q].att
  <2>1. ~up /\ ~sess[p].att /\ out' = <<>> /\ inb' = <<>>
    BY <1>1, SessionFacts DEF Cut
  <2>2. sess'[p].st = "exited" /\ sess'[p] \in Session
    BY <2>1, SessionFacts
  <2>3. ~sess'[p].att
    BY <2>2 DEF Session
  <2> QED BY <2>1, <2>3, SessionFacts DEF Cut
<1>2. Cut'
  BY <1>1 DEF Cut
<1>3. /\ UNCHANGED <<typed, made, status, pend, waiting, dormant, killed, listing, quit>>
      /\ UNCHANGED <<up, nextId, out, closed>>
      /\ sess' \in [Panels -> Session] /\ inb' \in Seq(Event)
  BY SessionFacts DEF hubVars
<1> QED BY <1>2, <1>3 DEF TypeOK, Named, Viewless

LEMMA LinkBase ==
    ASSUME Base, PollDirectories \/ Lose \/ Reconnect \/ Quit \/ GiveUp
    PROVE  Base'
<1> USE DEF Base
<1>1. CASE PollDirectories
  <2> DEFINE m == [what |-> "List", id |-> nextId, panel |-> "none", made |-> 0]
  <2>1. m \in Request
    BY DEF TypeOK, Request
  <2>2. out' \in Seq(Request) /\ listing' \in Nat /\ nextId' \in Nat \ {0}
    BY <1>1, <2>1, JoinedPlaces DEF PollDirectories, TypeOK
  <2> QED BY <1>1, <2>2 DEF PollDirectories, TypeOK, Cut, Named, Viewless
<1>2. CASE Lose
  <2>1. NoSession \in Session /\ ~NoSession.att
    BY DEF NoSession, Session
  <2>2. \A p \in Panels : [sess[p] EXCEPT !.att = FALSE] \in Session /\ ~[sess[p] EXCEPT !.att = FALSE].att
    BY DEF TypeOK, Session
  <2>3. sess' \in [Panels -> Session] /\ \A p \in Panels : ~sess'[p].att
    BY <1>2, <2>1, <2>2 DEF Lose
  <2>4. up' = FALSE /\ out' = <<>> /\ inb' = <<>> /\ waiting' = {} /\ pend' = [p \in Panels |-> NoId]
    BY <1>2 DEF Lose
  <2>5. out' \in Seq(Request) /\ inb' \in Seq(Event) /\ pend' \in [Panels -> Nat]
    BY <2>4 DEF NoId
  <2>7. up' \in BOOLEAN
    BY <2>4, Zenon
  <2>6. UNCHANGED <<typed, made, status, dormant, killed, listing, quit, nextId, closed>>
    BY <1>2 DEF Lose
  <2> QED BY <2>3, <2>4, <2>5, <2>6, <2>7 DEF TypeOK, Cut, Named, Viewless
<1>3. CASE Reconnect
  <2>1. /\ up' = TRUE /\ nextId' = 1 /\ waiting' = {} /\ pend' = [p \in Panels |-> NoId]
        /\ UNCHANGED <<typed, made, dormant, killed, listing, quit, out, inb, sess, closed>>
        /\ status' = [p \in Panels |->
                        IF status[p] \in {"Running", "Failed"} THEN "Connecting" ELSE status[p]]
    BY <1>3 DEF Reconnect
  <2>2. status' \in [Panels -> Statuses] /\ up' \in BOOLEAN /\ pend' \in [Panels -> Nat]
    BY <2>1 DEF TypeOK, Statuses, NoId
  <2> QED BY <2>1, <2>2 DEF TypeOK, Cut, Named, Viewless
<1>4. CASE Quit
  <2> DEFINE m == [what |-> "Close", id |-> NoId, panel |-> "none", made |-> 0]
  <2>1. m \in Request
    BY DEF NoId, Request
  <2>2. out' \in Seq(Request) /\ (~up => out' = out) /\ quit' \in {"asking", "done"}
    <3>1. out \in Seq(Request) /\ Append(out, m) \in Seq(Request)
      BY <2>1, JoinedPlaces DEF TypeOK
    <3>2. out' = out \/ (up /\ out' = Append(out, m))
      BY <1>4 DEF Quit
    <3> HIDE DEF m
    <3> QED BY <1>4, <3>1, <3>2 DEF Quit
  <2> QED BY <1>4, <2>2 DEF Quit, TypeOK, Cut, Named, Viewless
<1>5. CASE GiveUp
  BY <1>5 DEF GiveUp, linkVars, TypeOK, Cut, Named, Viewless
<1> QED BY <1>1, <1>2, <1>3, <1>4, <1>5

LEMMA NextBase == Base /\ [Next]_vars => Base'
<1> SUFFICES ASSUME Base, [Next]_vars PROVE Base' OBVIOUS
<1>1. CASE UNCHANGED vars
  BY <1>1 DEF vars, hubVars, linkVars, Base, TypeOK, Cut, Named, Viewless
<1> QED BY <1>1, FrameBase, UserBase, ReceiveBase, ServeBase, SessionBase, LinkBase DEF Next

LEMMA AlwaysBase == Spec => []Base
BY InitBase, NextBase, PTL DEF Spec

-----------------------------------------------------------------------------
(* What one event does. *)

Asking(p, kind, old) ==
    /\ out' = Append(out, Asked(kind, p))
    /\ waiting' = old \cup {<<nextId, p, kind>>} /\ nextId' = nextId + 1

EndsTo(p, how) ==
    \/ status[p] = "none" /\ UNCHANGED <<typed, status, out>>
    \/ /\ status[p] # "none" /\ how = "failed"
       /\ status' = [status EXCEPT ![p] = "Exited"] /\ UNCHANGED <<typed, out>>
    \/ /\ status[p] # "none" /\ how # "failed"
       /\ status' = [status EXCEPT ![p] = "none"]
       /\ typed' = IF quit = "done" THEN typed ELSE [typed EXCEPT ![p] = FALSE]
       /\ out' = Append(out, About("Forget", p))

Replied(e, w) ==
    LET p == w[2] IN
    \/ /\ e.how \in {"live", "nosuch", "error"}
       /\ \E s \in {"Running", "Dormant", "Failed"} :
             status' = [status EXCEPT ![p] = s] /\ (s = "Running" => e.how = "live")
       /\ waiting' = waiting \ {w} /\ UNCHANGED <<typed, out, nextId>>
    \/ e.how \in Exits /\ EndsTo(p, e.how) /\ waiting' = waiting \ {w} /\ UNCHANGED nextId
    \/ /\ e.how = "nosuch" /\ quit = "no" /\ status' = [status EXCEPT ![p] = "Connecting"]
       /\ Asking(p, "Spawn", waiting \ {w}) /\ UNCHANGED typed
    \/ /\ e.how = "nosuch" /\ quit # "no"
       /\ waiting' = waiting \ {w} /\ UNCHANGED <<typed, status, out, nextId>>

Received(e) ==
    /\ inb # <<>> /\ e = Head(inb) /\ inb' = Tail(inb) /\ up /\ quit # "asking"
    /\ UNCHANGED <<made, dormant, quit, up, losses, sess, closed>>
    /\ \/ /\ e.what = "exited" /\ e.panel \in Panels /\ e.how = "user" /\ e.panel \in killed
          /\ killed' = killed \ {e.panel}
          /\ UNCHANGED <<typed, status, waiting, nextId, out, listing>>
       \/ /\ e.what = "exited" /\ e.panel \in Panels /\ (e.how = "user" => e.panel \notin killed)
          /\ EndsTo(e.panel, e.how) /\ UNCHANGED <<killed, waiting, nextId, listing>>
       \/ /\ e.what = "resync" /\ e.panel \in Panels /\ UNCHANGED <<typed, status, killed, listing>>
          /\ \/ status[e.panel] = "none" /\ UNCHANGED <<waiting, nextId, out>>
             \/ status[e.panel] # "none" /\ Asking(e.panel, "Attach", waiting)
       \/ /\ e.what = "reply" /\ e.id = listing /\ listing' = NoId
          /\ UNCHANGED <<typed, status, waiting, killed, nextId, out>>
       \/ /\ e.what = "reply" /\ e.id # listing
          /\ UNCHANGED <<typed, status, killed, listing, nextId, out>>
          /\ waiting' = {w \in waiting : w[1] # e.id}
          /\ \A w \in waiting : w[1] = e.id => status[w[2]] = "none"
       \/ /\ e.what = "reply" /\ e.id # listing /\ UNCHANGED <<killed, listing>>
          /\ \E w \in waiting : /\ w[1] = e.id /\ w[2] \in Panels /\ status[w[2]] # "none"
                                /\ Replied(e, w)

LEMMA ReceiveFacts == ASSUME Base, Receive PROVE \E e \in Event : Received(e)
<1> DEFINE e == Head(inb)
<1>1. /\ inb # <<>> /\ inb' = Tail(inb) /\ quit # "asking" /\ UNCHANGED <<up, losses, sess, closed>>
      /\ ReceiveExited(e) \/ ReceiveResync(e) \/ ReceiveList(e) \/ ReceiveReply(e)
  BY DEF Receive
<1>2. e \in Event /\ TypeOK
  BY <1>1, TakenPlaces DEF Base, TypeOK
<1>3. up
  BY <1>1 DEF Base, Cut, TypeOK
<1>4. UNCHANGED <<made, dormant, quit>>
  BY <1>1 DEF ReceiveExited, ReceiveResync, ReceiveList, ReceiveReply
<1>5. \A p \in Panels : \A how : Ends(p, how) => EndsTo(p, how)
  BY <1>2, <1>3, EndsFacts DEF EndsTo
<1>6. \A p \in Panels, kind \in {"Attach", "Spawn"} : Post(<<Asked(kind, p)>>) => out' = Append(out, Asked(kind, p))
  BY <1>2, <1>3, Posted, Requests
<1> SUFFICES Received(e) BY <1>2
<1> HIDE DEF e
<1>7. CASE ReceiveExited(e)
  <2>1. e.what = "exited" /\ e.panel \in Panels /\ UNCHANGED <<waiting, nextId, listing>>
    BY <1>2, <1>7 DEF ReceiveExited, Event, Exits
  <2>2. CASE e.how = "user" /\ e.panel \in killed
    BY <1>1, <1>3, <1>4, <1>7, <2>1, <2>2 DEF ReceiveExited, Received, e
  <2>3. CASE ~(e.how = "user" /\ e.panel \in killed)
    <3>1. EndsTo(e.panel, e.how) /\ UNCHANGED killed
      BY <1>5, <1>7, <2>1, <2>3 DEF ReceiveExited
    <3> QED BY <1>1, <1>3, <1>4, <2>1, <2>3, <3>1 DEF Received, e
  <2> QED BY <2>2, <2>3
<1>8. CASE ReceiveResync(e)
  <2>1. e.what = "resync" /\ e.panel \in Panels /\ UNCHANGED <<typed, status, killed, listing>>
    BY <1>2, <1>8 DEF ReceiveResync, Event
  <2>2. \/ status[e.panel] = "none" /\ UNCHANGED <<waiting, nextId, out>>
        \/ status[e.panel] # "none" /\ Asking(e.panel, "Attach", waiting)
    BY <1>6, <1>8, <2>1 DEF ReceiveResync, Ask, Asking
  <2> QED BY <1>1, <1>3, <1>4, <2>1, <2>2 DEF Received, e
<1>9. CASE ReceiveList(e)
  BY <1>1, <1>3, <1>4, <1>9 DEF ReceiveList, Received, e
<1>10. CASE ReceiveReply(e)
  <2>1. e.what = "reply" /\ e.id # listing /\ UNCHANGED <<killed, listing>>
    BY <1>10 DEF ReceiveReply
  <2>2. CASE /\ UNCHANGED <<typed, status, pend, nextId, out>>
             /\ waiting' = {w \in waiting : w[1] # e.id}
             /\ \A w \in waiting : w[1] = e.id => status[w[2]] = "none"
    BY <1>1, <1>3, <1>4, <2>1, <2>2 DEF Received, e
  <2>3. ASSUME NEW w \in waiting, NEW p \in Panels, w[1] = e.id, w[2] = p, status[p] # "none",
               \/ /\ e.how = "live" /\ status' = [status EXCEPT ![p] = "Running"]
                  /\ Answered(p, waiting \ {w}) /\ UNCHANGED <<typed, out>>
               \/ e.how \in Exits /\ Ends(p, e.how) /\ Answered(p, waiting \ {w})
               \/ /\ e.how = "nosuch" /\ w[3] = "Attach" /\ UNCHANGED <<typed, out>>
                  /\ status' = [status EXCEPT ![p] = "Dormant"] /\ Answered(p, waiting \ {w})
               \/ /\ e.how = "nosuch" /\ w[3] = "Attach" /\ UNCHANGED typed
                  /\ StartMissing(p, waiting \ {w})
               \/ /\ e.how = "error" /\ status' = [status EXCEPT ![p] = "Failed"]
                  /\ Answered(p, waiting \ {w}) /\ UNCHANGED <<typed, out>>
        PROVE  Received(e)
    <3>1. CASE /\ e.how \in {"live", "nosuch", "error"} /\ Answered(p, waiting \ {w})
               /\ \E s \in {"Running", "Dormant", "Failed"} :
                     status' = [status EXCEPT ![p] = s] /\ (s = "Running" => e.how = "live")
               /\ UNCHANGED <<typed, out>>
      <4>1. Replied(e, w)
        BY <2>3, <3>1 DEF Replied, Answered
      <4> QED BY <1>1, <1>3, <1>4, <2>1, <2>3, <4>1 DEF Received, e
    <3>2. CASE e.how \in Exits /\ Ends(p, e.how) /\ Answered(p, waiting \ {w})
      <4>1. Replied(e, w)
        BY <1>5, <2>3, <3>2 DEF Replied, Answered
      <4> QED BY <1>1, <1>3, <1>4, <2>1, <2>3, <4>1 DEF Received, e
    <3>3. CASE e.how = "nosuch" /\ UNCHANGED typed /\ StartMissing(p, waiting \ {w})
      <4>1. CASE quit = "no"
        <5>1. <<>> \o <<Asked("Spawn", p)>> = <<Asked("Spawn", p)>>
          BY <1>2, Requests
        <5>2. Asking(p, "Spawn", waiting \ {w}) /\ status' = [status EXCEPT ![p] = "Connecting"]
          BY <1>6, <3>3, <4>1, <5>1 DEF StartMissing, SpawnShell, Ask, Asking
        <5>3. Replied(e, w)
          BY <2>3, <3>3, <4>1, <5>2 DEF Replied
        <5> QED BY <1>1, <1>3, <1>4, <2>1, <2>3, <5>3 DEF Received, e
      <4>2. CASE quit # "no"
        <5>1. Replied(e, w)
          BY <2>3, <3>3, <4>2 DEF Replied, StartMissing, Answered
        <5> QED BY <1>1, <1>3, <1>4, <2>1, <2>3, <5>1 DEF Received, e
      <4> QED BY <4>1, <4>2
    <3> QED BY <2>3, <3>1, <3>2, <3>3
  <2> QED BY <1>2, <1>10, <2>2, <2>3, ReplyFacts
<1> QED BY <1>1, <1>7, <1>8, <1>9, <1>10

(* What the user does and what a frame draws. *)
Killing(p) ==
    /\ quit = "no" /\ typed[p] /\ EndAsked(p)
    /\ out' = (IF up THEN Append(out, About("Kill", p)) ELSE out)
    /\ killed' = killed \cup {p} /\ typed' = [typed EXCEPT ![p] = FALSE]
    /\ status' = [status EXCEPT ![p] = "none"] /\ UNCHANGED <<made, waiting, nextId>>
UserActs(p) ==
    /\ UNCHANGED <<listing, quit, up, losses, inb, sess, closed>>
    /\ \/ /\ typed[p] /\ quit # "asking" /\ status' = [status EXCEPT ![p] = "Connecting"]
          /\ UNCHANGED <<typed, made, killed, past>> /\ status[p] \in {"none", "Connecting"}
          /\ \/ quit = "no" /\ up /\ Asking(p, "Attach", waiting)
             \/ ~(quit = "no" /\ up /\ pend[p] = NoId) /\ UNCHANGED <<out, waiting, nextId>>
       \/ /\ quit = "no" /\ ~typed[p] /\ typed' = [typed EXCEPT ![p] = TRUE]
          /\ made' = [made EXCEPT ![p] = @ + 1]
          /\ Mixing(p, NoExitNews(p)) /\ UNCHANGED <<killed, status, out, waiting, nextId>>
       \/ Killing(p)
       \/ /\ quit = "no" /\ typed[p] /\ Mixing(p, NoExitNews(p)) /\ status[p] # "none"
          /\ status' = [status EXCEPT ![p] = "Connecting"] /\ UNCHANGED <<typed, made, killed>>
          /\ \/ /\ up /\ out' = Append(Append(out, About("Forget", p)), Asked("Spawn", p))
                /\ waiting' = waiting \cup {<<nextId, p, "Spawn">>} /\ nextId' = nextId + 1
             \/ ~up /\ UNCHANGED <<out, waiting, nextId>>

LEMMA UserFacts ==
    ASSUME Base, NEW p \in Panels, Frame(p) \/ MakeTerminal(p) \/ Kill(p) \/ Restart(p)
    PROVE  UserActs(p)
<1> USE DEF Base
<1>1. CASE Frame(p)
  <2>1. CASE quit = "no" /\ pend[p] = NoId /\ up
    <3>1. Ask(p, "Attach", waiting) /\ Post(<<Asked("Attach", p)>>)
      BY <1>1, <2>1 DEF Frame
    <3>2. Asking(p, "Attach", waiting)
      BY <2>1, <3>1, Posted, Requests DEF Ask, Asking
    <3> QED BY <1>1, <2>1, <3>2 DEF Frame, UserActs, Killing
  <2>2. CASE ~(quit = "no" /\ pend[p] = NoId /\ up)
    BY <1>1, <2>2 DEF Frame, UserActs
  <2> QED BY <2>1, <2>2
<1>2. CASE MakeTerminal(p)
  BY <1>2 DEF MakeTerminal, linkVars, UserActs
<1>3. CASE Kill(p)
  <2>1. out' = (IF up THEN Append(out, About("Kill", p)) ELSE out)
    BY <1>3, Posted, Requests DEF Kill
  <2> QED BY <1>3, <2>1 DEF Kill, UserActs, Killing
<1>4. CASE Restart(p)
  <2>1. CASE up
    <3>1. /\ Ask(p, "Spawn", waiting) /\ Post(<<About("Forget", p)>> \o <<Asked("Spawn", p)>>)
          /\ status' = [status EXCEPT ![p] = "Connecting"]
      BY <1>4, <2>1 DEF Restart, SpawnShell
    <3>2. out' = Append(Append(out, About("Forget", p)), Asked("Spawn", p))
      BY <2>1, <3>1, PostedTwo, Requests
    <3> QED BY <1>4, <2>1, <3>1, <3>2 DEF Restart, UserActs, Ask
  <2>2. CASE ~up
    BY <1>4, <2>2 DEF Restart, UserActs, Answered
  <2> QED BY <2>1, <2>2
<1> QED BY <1>1, <1>2, <1>3, <1>4

-----------------------------------------------------------------------------
(* Quitting: the Close is the last request that could start anything. *)

Free(q, whats) == \A i \in DOMAIN q : q[i].what \notin whats
CloseLast(q) == \A i, j \in DOMAIN q :
    i < j /\ q[i].what = "Close" => q[j].what \notin {"Spawn", "Close"}

Closing ==
    /\ quit = "no" => closed = {} /\ Free(out, {"Close"})
    /\ quit # "no" => CloseLast(out)
    /\ closed # {} => quit = "done" /\ Free(out, {"Spawn", "Close"})
    /\ \A p \in closed : sess[p].st # "live"

LEMMA FreeJoined ==
    ASSUME NEW q \in Seq(Request), NEW m \in Request, NEW whats
    PROVE  /\ Free(Append(q, m), whats) <=> Free(q, whats) /\ m.what \notin whats
           /\ m.what \notin {"Spawn", "Close"} => (CloseLast(q) => CloseLast(Append(q, m)))
           /\ Free(q, {"Close"}) => CloseLast(Append(q, m))
<1> DEFINE a == Append(q, m)
           n == Len(q) + 1
<1>1. /\ n \in DOMAIN a /\ a[n] = m /\ n \in Nat
      /\ \A i \in DOMAIN q : i \in DOMAIN a /\ a[i] = q[i] /\ i < n
      /\ \A i \in DOMAIN a : i \in DOMAIN q \/ i = n
      /\ DOMAIN q \subseteq Nat
  BY JoinedPlaces
<1> HIDE DEF a, n
<1>2. Free(a, whats) <=> Free(q, whats) /\ m.what \notin whats
  BY <1>1 DEF Free
<1>3. \A i, j \in DOMAIN a : i < j => i \in DOMAIN q
  BY <1>1
<1>4. m.what \notin {"Spawn", "Close"} => (CloseLast(q) => CloseLast(a))
  BY <1>1, <1>3 DEF CloseLast
<1>5. Free(q, {"Close"}) => CloseLast(a)
  BY <1>1, <1>3 DEF CloseLast, Free
<1> QED BY <1>2, <1>4, <1>5 DEF a

LEMMA FreeTaken ==
    ASSUME NEW q \in Seq(Request), q # <<>>, NEW whats
    PROVE  /\ Free(q, whats) => Free(Tail(q), whats) /\ Head(q).what \notin whats
           /\ CloseLast(q) => CloseLast(Tail(q))
           /\ CloseLast(q) /\ Head(q).what = "Close" => Free(Tail(q), {"Spawn", "Close"})
<1>1. /\ 1 \in DOMAIN q /\ q[1] = Head(q)
      /\ \A i \in DOMAIN Tail(q) : i + 1 \in DOMAIN q /\ Tail(q)[i] = q[i + 1] /\ 1 < i + 1
      /\ \A i, j \in DOMAIN Tail(q) : i < j <=> i + 1 < j + 1
  BY TakenPlaces
<1> QED BY <1>1 DEF Free, CloseLast

(* What the hub sends before it quits and after. *)
LEMMA HubSends ==
    ASSUME Base, (\E p \in Panels : Frame(p) \/ MakeTerminal(p) \/ Kill(p) \/ Restart(p)) \/ Receive
    PROVE  /\ UNCHANGED <<quit, sess, closed>> /\ out' \in Seq(Request)
           /\ \/ out' = out
              \/ \E m \in Request : /\ out' = Append(out, m)
                                    /\ m.what \in {"Attach", "Spawn", "Kill", "Forget"}
                                    /\ quit # "no" => m.what \in {"Attach", "Forget"}
              \/ \E m, n \in Request : /\ out' = Append(Append(out, m), n) /\ quit = "no"
                                       /\ m.what = "Forget" /\ n.what = "Spawn"
<1>1. out' \in Seq(Request) /\ TypeOK
  <2>1. Next
    BY DEF Next
  <2> QED BY <2>1, NextBase DEF Base, TypeOK
<1>2. ASSUME NEW p \in Panels
      PROVE  \A what \in {"Attach", "Spawn", "Kill", "Forget"} :
                /\ About(what, p) \in Request /\ About(what, p).what = what
                /\ Asked(what, p) \in Request /\ Asked(what, p).what = what
  BY <1>1, Requests
<1>3. ASSUME NEW p \in Panels, UserActs(p)
      PROVE  /\ UNCHANGED <<quit, sess, closed>>
             /\ \/ out' = out \/ (quit = "no" /\ out' = Append(out, Asked("Attach", p)))
                \/ quit = "no" /\ out' = Append(out, About("Kill", p))
                \/ quit = "no" /\ out' = Append(Append(out, About("Forget", p)), Asked("Spawn", p))
  BY <1>3 DEF UserActs, Killing, Asking
<1>4. ASSUME NEW e \in Event, Received(e)
      PROVE  /\ UNCHANGED <<quit, sess, closed>>
             /\ \/ out' = out
                \/ \E p \in Panels : \/ out' = Append(out, About("Forget", p))
                                     \/ out' = Append(out, Asked("Attach", p))
                                     \/ quit = "no" /\ out' = Append(out, Asked("Spawn", p))
  BY <1>4 DEF Received, Replied, EndsTo, Asking
<1>5. CASE Receive
  <2>1. PICK e \in Event : Received(e)
    BY <1>5, ReceiveFacts
  <2> QED BY <1>1, <1>2, <1>4, <2>1
<1>6. ASSUME NEW p \in Panels, Frame(p) \/ MakeTerminal(p) \/ Kill(p) \/ Restart(p)
      PROVE  UserActs(p)
  BY <1>6, UserFacts
<1> QED BY <1>1, <1>2, <1>3, <1>5, <1>6

LEMMA HubClosing ==
    ASSUME Base, Closing,
           (\E p \in Panels : Frame(p) \/ MakeTerminal(p) \/ Kill(p) \/ Restart(p)) \/ Receive
    PROVE  Closing'
<1> USE DEF Base
<1>1. UNCHANGED <<quit, sess, closed>> /\ out \in Seq(Request)
  BY HubSends DEF TypeOK
<1>2. CASE out' = out
  BY <1>1, <1>2 DEF Closing
<1>3. ASSUME NEW m \in Request, out' = Append(out, m), m.what \in {"Attach", "Spawn", "Kill", "Forget"},
             quit # "no" => m.what \in {"Attach", "Forget"}
      PROVE  Closing'
  <2>1. Free(out, {"Close"}) => Free(out', {"Close"})
    BY <1>1, <1>3, FreeJoined
  <2>2. quit # "no" => /\ CloseLast(out) => CloseLast(out')
                       /\ Free(out, {"Spawn", "Close"}) => Free(out', {"Spawn", "Close"})
    BY <1>1, <1>3, FreeJoined
  <2> QED BY <1>1, <2>1, <2>2 DEF Closing
<1>4. ASSUME NEW m \in Request, NEW n \in Request, out' = Append(Append(out, m), n), quit = "no",
             m.what = "Forget", n.what = "Spawn"
      PROVE  Closing'
  <2>1. Append(out, m) \in Seq(Request)
    BY <1>1, JoinedPlaces
  <2>2. Free(out, {"Close"}) => Free(out', {"Close"})
    BY <1>1, <1>4, <2>1, FreeJoined
  <2> QED BY <1>1, <1>4, <2>2 DEF Closing
<1> QED BY <1>2, <1>3, <1>4, HubSends

LEMMA ServeClosing == ASSUME Base, Closing, Serve PROVE Closing'
<1> USE DEF Base
<1>1. PICK r \in Request :
        /\ out # <<>> /\ r = Head(out) /\ out' = Tail(out)
        /\ \/ r.what = "Close" /\ quit' = "done" /\ closed' \subseteq Panels
              /\ \A p \in closed' : sess'[p] = NoSession
           \/ /\ UNCHANGED <<quit, closed>>
              /\ \A p \in Panels : sess'[p].st = "live" => sess[p].st = "live" \/ r.what = "Spawn"
  <2>1. sess \in [Panels -> Session] /\ NoSession.st = "none"
    BY DEF TypeOK, NoSession
  <2>2. PICK r \in Request : Served(r)
    BY ServeFacts
  <2>3. CASE r.what = "Close"
    BY <2>1, <2>2, <2>3 DEF Served
  <2>4. CASE r.what # "Close"
    <3>1. UNCHANGED <<quit, closed>> /\ out # <<>> /\ r = Head(out) /\ out' = Tail(out)
      BY <2>2, <2>4 DEF Served
    <3>2. \A p \in Panels : sess'[p].st = "live" => sess[p].st = "live" \/ r.what = "Spawn"
      <4>1. CASE r.what = "Attach"
        <5>1. /\ r.panel \in Panels
              /\ sess' = [sess EXCEPT ![r.panel].att = (sess[r.panel].st = "live")]
          BY <2>2, <4>1 DEF Served
        <5>2. [sess[r.panel] EXCEPT !.att = (sess[r.panel].st = "live")].st = sess[r.panel].st
          BY <2>1, <5>1 DEF Session
        <5> QED BY <2>1, <5>1, <5>2
      <4>2. CASE r.what = "Kill"
        BY <2>1, <2>2, <4>2 DEF Served
      <4>3. CASE r.what = "Forget"
        BY <2>1, <2>2, <4>3 DEF Served
      <4>4. CASE r.what \notin {"Attach", "Kill", "Forget", "Spawn"}
        BY <2>1, <2>2, <2>4, <4>4 DEF Served
      <4> QED BY <4>1, <4>2, <4>3, <4>4
    <3> QED BY <3>1, <3>2
  <2> QED BY <2>3, <2>4
<1>2. out \in Seq(Request) /\ closed \subseteq Panels
  BY DEF TypeOK
<1>3. CASE r.what = "Close" /\ quit' = "done" /\ closed' \subseteq Panels
           /\ \A p \in closed' : sess'[p] = NoSession
  <2>1. quit # "no"
    BY <1>1, <1>2, <1>3, FreeTaken DEF Closing
  <2>2. CloseLast(out') /\ Free(out', {"Spawn", "Close"})
    BY <1>1, <1>2, <1>3, <2>1, FreeTaken DEF Closing
  <2> QED BY <1>3, <2>2 DEF Closing, NoSession
<1>4. CASE /\ UNCHANGED <<quit, closed>>
           /\ \A p \in Panels : sess'[p].st = "live" => sess[p].st = "live" \/ r.what = "Spawn"
  <2>1. \A whats : Free(out, whats) => Free(out', whats) /\ r.what \notin whats
    BY <1>1, <1>2, FreeTaken
  <2>2. CloseLast(out) => CloseLast(out')
    BY <1>1, <1>2, FreeTaken
  <2>3. \A p \in closed : sess'[p].st # "live"
    BY <1>2, <1>4, <2>1 DEF Closing
  <2> QED BY <1>4, <2>1, <2>2, <2>3 DEF Closing
<1> QED BY <1>1, <1>3, <1>4

LEMMA RestClosing ==
    ASSUME Base, Closing,
           \/ \E p \in Panels : Overflows(p) \/ \E how \in Exits : ShellExits(p, how)
           \/ PollDirectories \/ Lose \/ Reconnect \/ Quit \/ GiveUp
    PROVE  Closing'
<1> USE DEF Base
<1>0. out \in Seq(Request) /\ closed \subseteq Panels /\ nextId \in Nat
  BY DEF TypeOK
<1>1. ASSUME NEW p \in Panels, Overflows(p) \/ \E how \in Exits : ShellExits(p, how) PROVE Closing'
  <2>1. UNCHANGED <<quit, out, closed>> /\ \A q \in Panels : sess'[q].st = "live" => sess[q].st = "live"
    BY <1>1, SessionFacts DEF hubVars
  <2> QED BY <1>0, <2>1 DEF Closing
<1>2. CASE PollDirectories
  <2> DEFINE m == [what |-> "List", id |-> nextId, panel |-> "none", made |-> 0]
  <2>1. m \in Request /\ m.what = "List" /\ out' = Append(out, m)
    BY <1>0, <1>2 DEF Request, PollDirectories
  <2> HIDE DEF m
  <2>2. Free(out, {"Close"}) => Free(out', {"Close"})
    BY <1>0, <2>1, FreeJoined
  <2> QED BY <1>2, <2>2 DEF PollDirectories, Closing
<1>3. CASE Lose
  <2>1. out' = <<>> /\ UNCHANGED <<quit, closed>> /\ sess \in [Panels -> Session]
    BY <1>3 DEF Lose, TypeOK
  <2>2. \A p \in Panels : sess'[p].st = "live" => sess[p].st = "live"
    BY <1>3, <2>1 DEF Lose, NoSession, Session
  <2> QED BY <1>0, <2>1, <2>2 DEF Closing, Free, CloseLast
<1>4. CASE Reconnect
  BY <1>4 DEF Reconnect, Closing
<1>5. CASE Quit
  <2> DEFINE m == [what |-> "Close", id |-> NoId, panel |-> "none", made |-> 0]
  <2>1. m \in Request
    BY DEF NoId, Request
  <2>2. Free(out, {"Close"}) => CloseLast(Append(out, m)) /\ CloseLast(out)
    BY <1>0, <2>1, FreeJoined DEF Free, CloseLast
  <2>3. out' = out \/ (out' = Append(out, m))
    BY <1>5 DEF Quit
  <2> HIDE DEF m
  <2> QED BY <1>5, <2>2, <2>3 DEF Quit, Closing
<1>6. CASE GiveUp
  BY <1>6 DEF GiveUp, linkVars, Closing
<1> QED BY <1>1, <1>2, <1>3, <1>4, <1>5, <1>6

LEMMA NextClosing == Base /\ Closing /\ [Next]_vars => Closing'
<1> SUFFICES ASSUME Base, Closing, [Next]_vars PROVE Closing' OBVIOUS
<1>1. CASE UNCHANGED vars
  BY <1>1 DEF vars, hubVars, linkVars, Closing
<1> QED BY <1>1, HubClosing, ServeClosing, RestClosing DEF Next

(* finish_close waits for the daemon with nothing else on its way, and what the
   hub sends once the app has quit starts nothing: a terminal it closed stays closed. *)
THEOREM QuitTerminalsStayClosed == Spec => []NothingOutlivesQuit
<1>1. Init => Closing
  BY DEF Init, Closing, Free
<1>2. Base /\ Closing => NothingOutlivesQuit
  BY DEF Closing, NothingOutlivesQuit, OnItsWay, Free, Range
<1> QED BY <1>1, <1>2, NextClosing, AlwaysBase, PTL DEF Spec

-----------------------------------------------------------------------------
(* What a queue holds of one kind of message, and in which order. *)

Has(q, T) == \E i \in DOMAIN q : q[i] \in T
Once(q, T) == \A i, j \in DOMAIN q : q[i] \in T /\ q[j] \in T => i = j
Before(q, T, U) == \E i, j \in DOMAIN q : i < j /\ q[i] \in T /\ q[j] \in U
LastIs(q, T, U) == \E i \in DOMAIN q : q[i] \in T /\ \A j \in DOMAIN q : i < j => q[j] \notin U

LEMMA KindJoined ==
    ASSUME NEW S, NEW q \in Seq(S), NEW m \in S, NEW T
    PROVE  /\ Has(Append(q, m), T) <=> Has(q, T) \/ m \in T
           /\ Once(q, T) /\ (m \in T => ~Has(q, T)) => Once(Append(q, m), T)
<1> DEFINE a == Append(q, m)
           n == Len(q) + 1
<1>1. /\ n \in DOMAIN a /\ a[n] = m /\ n \in Nat
      /\ \A i \in DOMAIN q : i \in DOMAIN a /\ a[i] = q[i] /\ i < n
      /\ \A i \in DOMAIN a : i \in DOMAIN q \/ i = n
  BY JoinedPlaces
<1> HIDE DEF a, n
<1>2. Has(a, T) <=> Has(q, T) \/ m \in T
  BY <1>1 DEF Has
<1>3. Once(q, T) /\ (m \in T => ~Has(q, T)) => Once(a, T)
  BY <1>1 DEF Has, Once
<1> QED BY <1>2, <1>3 DEF a

LEMMA KindsJoined ==
    ASSUME NEW S, NEW q \in Seq(S), NEW m \in S, NEW T, NEW U
    PROVE  /\ Has(Append(q, m), T) <=> Has(q, T) \/ m \in T
           /\ Once(q, T) /\ (m \in T => ~Has(q, T)) => Once(Append(q, m), T)
           /\ ~Before(q, T, U) /\ (m \in U => ~Has(q, T)) => ~Before(Append(q, m), T, U)
           /\ m \in T => LastIs(Append(q, m), T, U)
           /\ LastIs(q, T, U) /\ m \notin U => LastIs(Append(q, m), T, U)
<1> DEFINE a == Append(q, m)
           n == Len(q) + 1
<1>1. /\ n \in DOMAIN a /\ a[n] = m /\ n \in Nat
      /\ \A i \in DOMAIN q : i \in DOMAIN a /\ a[i] = q[i] /\ i < n
      /\ \A i \in DOMAIN a : i \in DOMAIN q \/ i = n
      /\ DOMAIN q \subseteq Nat
  BY JoinedPlaces
<1> HIDE DEF a, n
<1>2. \A i, j \in DOMAIN a : i < j => i \in DOMAIN q
  BY <1>1
<1>3. Has(a, T) <=> Has(q, T) \/ m \in T
  BY KindJoined DEF a
<1>4. Once(q, T) /\ (m \in T => ~Has(q, T)) => Once(a, T)
  BY KindJoined DEF a
<1>5. ~Before(q, T, U) /\ (m \in U => ~Has(q, T)) => ~Before(a, T, U)
  BY <1>1, <1>2 DEF Has, Before
<1>6. m \in T => LastIs(a, T, U)
  BY <1>1, <1>2 DEF LastIs
<1>7. LastIs(q, T, U) /\ m \notin U => LastIs(a, T, U)
  <2> SUFFICES ASSUME NEW i \in DOMAIN q, q[i] \in T, \A j \in DOMAIN q : i < j => q[j] \notin U, m \notin U
               PROVE  LastIs(a, T, U)
    BY DEF LastIs
  <2>1. \A j \in DOMAIN a : i < j => a[j] \notin U
    BY <1>1
  <2> QED BY <1>1, <2>1 DEF LastIs
<1> QED BY <1>3, <1>4, <1>5, <1>6, <1>7 DEF a

LEMMA KindsTaken ==
    ASSUME NEW S, NEW q \in Seq(S), q # <<>>, NEW T, NEW U
    PROVE  /\ Has(q, T) <=> Head(q) \in T \/ Has(Tail(q), T)
           /\ Once(q, T) => Once(Tail(q), T) /\ (Head(q) \in T => ~Has(Tail(q), T))
           /\ ~Before(q, T, U) => ~Before(Tail(q), T, U) /\ (Head(q) \in T => ~Has(Tail(q), U))
           /\ LastIs(q, T, U) => LastIs(Tail(q), T, U) \/ (Head(q) \in T /\ ~Has(Tail(q), U))
<1> DEFINE a == Tail(q)
           h == Head(q)
<1>1. /\ 1 \in DOMAIN q /\ q[1] = h
      /\ \A i \in DOMAIN a : i + 1 \in DOMAIN q /\ a[i] = q[i + 1] /\ 1 < i + 1
      /\ \A i \in DOMAIN q : i # 1 => i - 1 \in DOMAIN a /\ a[i - 1] = q[i] /\ 1 < i
      /\ DOMAIN q \subseteq Nat /\ DOMAIN a \subseteq Nat
      /\ \A i, j \in DOMAIN a : i < j <=> i + 1 < j + 1
      /\ \A i, j \in DOMAIN a : i + 1 = j + 1 => i = j
  BY TakenPlaces
<1> HIDE DEF a, h
<1>2. Has(q, T) <=> h \in T \/ Has(a, T)
  BY <1>1 DEF Has
<1>3. Once(q, T) => Once(a, T) /\ (h \in T => ~Has(a, T))
  <2>1. ASSUME Once(q, T), NEW i \in DOMAIN a, NEW j \in DOMAIN a, a[i] \in T, a[j] \in T PROVE i = j
    <3>1. i + 1 = j + 1
      BY <1>1, <2>1 DEF Once
    <3> QED BY <1>1, <3>1
  <2>2. ASSUME Once(q, T), h \in T, NEW i \in DOMAIN a, a[i] \in T PROVE FALSE
    <3>1. i + 1 = 1
      BY <1>1, <2>2 DEF Once
    <3> QED BY <1>1, <3>1
  <2> QED BY <2>1, <2>2 DEF Once, Has
<1>4. ~Before(q, T, U) => ~Before(a, T, U) /\ (h \in T => ~Has(a, U))
  <2>1. Before(a, T, U) => Before(q, T, U)
    BY <1>1 DEF Before
  <2>2. h \in T /\ Has(a, U) => Before(q, T, U)
    BY <1>1 DEF Before, Has
  <2> QED BY <2>1, <2>2
<1>5. LastIs(q, T, U) => LastIs(a, T, U) \/ (h \in T /\ ~Has(a, U))
  <2> SUFFICES ASSUME NEW i \in DOMAIN q, q[i] \in T, \A j \in DOMAIN q : i < j => q[j] \notin U
               PROVE  LastIs(a, T, U) \/ (h \in T /\ ~Has(a, U))
    BY DEF LastIs
  <2>1. CASE i = 1
    BY <1>1, <2>1 DEF Has
  <2>2. CASE i # 1
    <3>1. i - 1 \in DOMAIN a /\ a[i - 1] \in T /\ i \in Nat
      BY <1>1, <2>2
    <3>2. ASSUME NEW j \in DOMAIN a, i - 1 < j PROVE a[j] \notin U
      <4>1. i < j + 1 /\ j + 1 \in DOMAIN q /\ a[j] = q[j + 1]
        BY <1>1, <3>1, <3>2
      <4> QED BY <4>1
    <3> QED BY <3>1, <3>2 DEF LastIs
  <2> QED BY <2>1, <2>2
<1> QED BY <1>2, <1>3, <1>4, <1>5 DEF a, h

LEMMA KindsNone == ASSUME NEW q, NEW T, NEW U, ~Has(q, U) PROVE ~Before(q, T, U)
BY DEF Has, Before

LEMMA KindsEmpty == \A T, U : ~Has(<<>>, T) /\ Once(<<>>, T) /\ ~Before(<<>>, T, U) /\ ~LastIs(<<>>, T, U)
BY DEF Has, Once, Before, LastIs

(* The requests and the news of one panel. *)
Reqs(p, whats) == {r \in Request : r.panel = p /\ r.what \in whats}
News(p, hows) == {e \in Event : e.panel = p /\ e.how \in hows}

LEMMA OnItsWayHas ==
    ASSUME TypeOK
    PROVE  /\ \A p, what : OnItsWay(what, p) <=> Has(out, Reqs(p, {what}))
           /\ \A p, how : (\A e \in Range(inb) : e.panel = p => e.how # how) <=> ~Has(inb, News(p, {how}))
<1>1. \A i \in DOMAIN out : out[i] \in Request
  BY DEF TypeOK
<1>2. \A i \in DOMAIN inb : inb[i] \in Event
  BY DEF TypeOK
<1> QED BY <1>1, <1>2 DEF OnItsWay, Range, Has, Reqs, News

-----------------------------------------------------------------------------
(* Requests and replies by their ids. *)

Sent(k) == {r \in Request : r.id = k /\ r.what \in {"Attach", "Spawn", "List"}}
Got(k) == {e \in Event : e.id = k /\ e.what = "reply"}
StrayAsk(w) == {r \in Request : r.id = w[1] /\ r.what \in {"Attach", "Spawn", "List"} /\ r.panel # w[2]}
StrayAnswer(w) == {e \in Event : e.id = w[1] /\ e.what = "reply" /\ e.how # "list" /\ e.panel # w[2]}

(* No two in flight have one id, and what has the id of a request waited for is
   about that one's panel. *)
Numbered == quit = "no" =>
    /\ \A k \in Nat : /\ Once(out, Sent(k)) /\ Once(inb, Got(k))
                      /\ Has(out, Sent(k)) => k < nextId /\ ~Has(inb, Got(k))
                      /\ Has(inb, Got(k)) => k < nextId
    /\ \A w \in waiting : ~Has(out, StrayAsk(w)) /\ ~Has(inb, StrayAnswer(w))

AsksKept(q, r) ==
    /\ \A k \in Nat : /\ Has(r, Sent(k)) => Has(q, Sent(k))
                      /\ Once(q, Sent(k)) => Once(r, Sent(k))
    /\ \A w : Has(r, StrayAsk(w)) => Has(q, StrayAsk(w))
AnswersKept(b, c) ==
    /\ \A k \in Nat : /\ Has(c, Got(k)) => Has(b, Got(k))
                      /\ Once(b, Got(k)) => Once(c, Got(k))
    /\ \A w : Has(c, StrayAnswer(w)) => Has(b, StrayAnswer(w))

LEMMA AsksAre ==
    /\ \A q : AsksKept(q, q) /\ AnswersKept(q, q)
    /\ \A q \in Seq(Request) :
          /\ \A m \in Request : m.what \in {"Kill", "Forget", "Close"} => AsksKept(q, Append(q, m))
          /\ q # <<>> => AsksKept(q, Tail(q))
    /\ \A b \in Seq(Event) :
          /\ \A e \in Event : e.what # "reply" => AnswersKept(b, Append(b, e))
          /\ b # <<>> => AnswersKept(b, Tail(b))
<1>1. \A q : AsksKept(q, q) /\ AnswersKept(q, q)
  BY DEF AsksKept, AnswersKept
<1>2. ASSUME NEW q \in Seq(Request), NEW m \in Request, m.what \in {"Kill", "Forget", "Close"}
      PROVE  AsksKept(q, Append(q, m))
  <2>1. (\A k : m \notin Sent(k)) /\ \A w : m \notin StrayAsk(w)
    BY <1>2 DEF Sent, StrayAsk
  <2> QED BY <2>1, KindsJoined DEF AsksKept
<1>3. ASSUME NEW q \in Seq(Request), q # <<>> PROVE AsksKept(q, Tail(q))
  BY <1>3, KindsTaken DEF AsksKept
<1>4. ASSUME NEW b \in Seq(Event), NEW e \in Event, e.what # "reply" PROVE AnswersKept(b, Append(b, e))
  <2>1. (\A k : e \notin Got(k)) /\ \A w : e \notin StrayAnswer(w)
    BY <1>4 DEF Got, StrayAnswer
  <2> QED BY <2>1, KindsJoined DEF AnswersKept
<1>5. ASSUME NEW b \in Seq(Event), b # <<>> PROVE AnswersKept(b, Tail(b))
  BY <1>5, KindsTaken DEF AnswersKept
<1> QED BY <1>1, <1>2, <1>3, <1>4, <1>5

LEMMA NumberedKept ==
    ASSUME Numbered, quit' = "no" => quit = "no", waiting' \subseteq waiting, nextId' = nextId,
           AsksKept(out, out'), AnswersKept(inb, inb')
    PROVE  Numbered'
BY DEF Numbered, AsksKept, AnswersKept

LEMMA NumberedAsk ==
    ASSUME Base, Numbered, UNCHANGED quit, NEW q \in Seq(Request), AsksKept(out, q), NEW m \in Request,
           out' = Append(q, m), m.id = nextId, nextId' = nextId + 1, AnswersKept(inb, inb'),
           \A w \in waiting' : w \in waiting \/ (w[1] = nextId /\ w[2] = m.panel)
    PROVE  Numbered'
<1> SUFFICES ASSUME quit = "no" PROVE Numbered'
  BY DEF Numbered
<1>1. nextId \in Nat /\ \A k \in Nat : k < nextId => k < nextId + 1 /\ k # nextId
  BY DEF Base, TypeOK
<1>2. ASSUME NEW k \in Nat
      PROVE  /\ Once(out', Sent(k)) /\ Once(inb', Got(k))
             /\ Has(out', Sent(k)) => k < nextId' /\ ~Has(inb', Got(k))
             /\ Has(inb', Got(k)) => k < nextId'
  <2>1. m \in Sent(k) => k = nextId
    BY DEF Sent
  <2>2. /\ Has(out', Sent(k)) <=> Has(q, Sent(k)) \/ m \in Sent(k)
        /\ Once(q, Sent(k)) /\ (m \in Sent(k) => ~Has(q, Sent(k))) => Once(out', Sent(k))
    BY KindsJoined
  <2>3. /\ Once(q, Sent(k)) /\ Once(inb', Got(k))
        /\ Has(q, Sent(k)) => k < nextId /\ ~Has(inb', Got(k))
        /\ Has(inb', Got(k)) => k < nextId
    BY DEF Numbered, AsksKept, AnswersKept
  <2> QED BY <1>1, <2>1, <2>2, <2>3
<1>3. ASSUME NEW w \in waiting' PROVE ~Has(out', StrayAsk(w)) /\ ~Has(inb', StrayAnswer(w))
  <2>1. Has(out', StrayAsk(w)) <=> Has(q, StrayAsk(w)) \/ m \in StrayAsk(w)
    BY KindsJoined
  <2>2. CASE w \in waiting
    <3>1. m \notin StrayAsk(w)
      BY <1>1, <2>2 DEF StrayAsk, Base, Named
    <3> QED BY <2>1, <2>2, <3>1 DEF Numbered, AsksKept, AnswersKept
  <2>3. CASE w[1] = nextId /\ w[2] = m.panel
    <3>1. m \notin StrayAsk(w)
      BY <2>3 DEF StrayAsk
    <3>2. StrayAsk(w) \subseteq Sent(nextId) /\ StrayAnswer(w) \subseteq Got(nextId)
      BY <2>3 DEF StrayAsk, StrayAnswer, Sent, Got
    <3>3. ~Has(q, Sent(nextId)) /\ ~Has(inb', Got(nextId))
      BY <1>1 DEF Numbered, AsksKept, AnswersKept
    <3> QED BY <2>1, <3>1, <3>2, <3>3 DEF Has
  <2> QED BY <1>3, <2>2, <2>3
<1> QED BY <1>2, <1>3 DEF Numbered

(* The reply to a request takes its id over. *)
LEMMA NumberedAnswer ==
    ASSUME Base, Numbered, UNCHANGED <<quit, waiting, nextId>>, out # <<>>, out' = Tail(out),
           NEW e \in Event, inb' = Append(inb, e), e.what = "reply", e.id = Head(out).id,
           Head(out).what \in {"Attach", "Spawn", "List"}, e.how # "list" => e.panel = Head(out).panel
    PROVE  Numbered'
<1> DEFINE r == Head(out)
<1>1. r \in Request /\ out \in Seq(Request) /\ inb \in Seq(Event)
  BY TakenPlaces DEF Base, TypeOK
<1> SUFFICES ASSUME quit = "no" PROVE Numbered'
  BY DEF Numbered
<1>2. ASSUME NEW k \in Nat
      PROVE  /\ Once(out', Sent(k)) /\ Once(inb', Got(k))
             /\ Has(out', Sent(k)) => k < nextId' /\ ~Has(inb', Got(k))
             /\ Has(inb', Got(k)) => k < nextId'
  <2>1. e \in Got(k) => r \in Sent(k)
    BY <1>1 DEF Sent, Got
  <2>2. /\ Has(out, Sent(k)) <=> r \in Sent(k) \/ Has(out', Sent(k))
        /\ Once(out, Sent(k)) => Once(out', Sent(k)) /\ (r \in Sent(k) => ~Has(out', Sent(k)))
    BY <1>1, KindsTaken
  <2>3. /\ Has(inb', Got(k)) <=> Has(inb, Got(k)) \/ e \in Got(k)
        /\ Once(inb, Got(k)) /\ (e \in Got(k) => ~Has(inb, Got(k))) => Once(inb', Got(k))
    BY <1>1, KindsJoined
  <2> QED BY <2>1, <2>2, <2>3 DEF Numbered
<1>3. ASSUME NEW w \in waiting PROVE ~Has(out', StrayAsk(w)) /\ ~Has(inb', StrayAnswer(w))
  <2>1. e \in StrayAnswer(w) => r \in StrayAsk(w)
    BY <1>1 DEF StrayAsk, StrayAnswer
  <2>2. Has(out, StrayAsk(w)) <=> r \in StrayAsk(w) \/ Has(out', StrayAsk(w))
    BY <1>1, KindsTaken
  <2>3. Has(inb', StrayAnswer(w)) <=> Has(inb, StrayAnswer(w)) \/ e \in StrayAnswer(w)
    BY <1>1, KindsJoined
  <2> QED BY <2>1, <2>2, <2>3 DEF Numbered
<1> QED BY <1>2, <1>3 DEF Numbered

LEMMA NumberedAsking ==
    ASSUME Base, Numbered, UNCHANGED quit, NEW p \in Panels, NEW kind \in {"Attach", "Spawn"},
           NEW old \in SUBSET waiting, Asking(p, kind, old), AnswersKept(inb, inb')
    PROVE  Numbered'
<1> DEFINE m == Asked(kind, p)
<1>1. m \in Request /\ m.id = nextId /\ m.panel = p
  BY Requests DEF Base
<1> HIDE DEF m
<1>2. out' = Append(out, m) /\ nextId' = nextId + 1
  BY DEF Asking, m
<1>3. \A w \in waiting' : w \in waiting \/ (w[1] = nextId /\ w[2] = p)
  BY DEF Asking
<1>4. out \in Seq(Request) /\ AsksKept(out, out)
  BY AsksAre DEF Base, TypeOK
<1> QED BY <1>1, <1>2, <1>3, <1>4, NumberedAsk

LEMMA UserNumbered == ASSUME Base, Numbered, NEW p \in Panels, UserActs(p) PROVE Numbered'
<1>1. out \in Seq(Request) /\ AnswersKept(inb, inb') /\ AsksKept(out, out) /\ UNCHANGED quit /\ TypeOK
  BY AsksAre DEF Base, TypeOK, UserActs
<1>2. CASE Asking(p, "Attach", waiting)
  BY <1>1, <1>2, NumberedAsking
<1>3. CASE out' = out /\ UNCHANGED <<waiting, nextId>>
  BY <1>1, <1>3, NumberedKept
<1>4. CASE out' = Append(out, About("Kill", p)) /\ UNCHANGED <<waiting, nextId>>
  <2>1. AsksKept(out, out')
    BY <1>1, <1>4, AsksAre, Requests
  <2> QED BY <1>1, <1>4, <2>1, NumberedKept
<1>5. CASE /\ out' = Append(Append(out, About("Forget", p)), Asked("Spawn", p))
           /\ waiting' = waiting \cup {<<nextId, p, "Spawn">>} /\ nextId' = nextId + 1
  <2> DEFINE q == Append(out, About("Forget", p))
             m == Asked("Spawn", p)
  <2>1. q \in Seq(Request) /\ AsksKept(out, q) /\ m \in Request /\ m.id = nextId /\ m.panel = p
    BY <1>1, AsksAre, Requests, JoinedPlaces
  <2>2. out' = Append(q, m)
    BY <1>5
  <2> HIDE DEF q, m
  <2>3. \A w \in waiting' : w \in waiting \/ (w[1] = nextId /\ w[2] = p)
    BY <1>5
  <2> QED BY <1>1, <1>5, <2>1, <2>2, <2>3, NumberedAsk
<1> QED BY <1>2, <1>3, <1>4, <1>5 DEF UserActs, Killing

LEMMA ReceiveNumbered == ASSUME Base, Numbered, NEW e \in Event, Received(e) PROVE Numbered'
<1>1. /\ out \in Seq(Request) /\ AnswersKept(inb, inb') /\ AsksKept(out, out) /\ UNCHANGED quit
      /\ TypeOK
  BY AsksAre DEF Base, TypeOK, Received
<1>2. ASSUME NEW p \in Panels, NEW kind \in {"Attach", "Spawn"}, NEW old \in SUBSET waiting,
             Asking(p, kind, old)
      PROVE  Numbered'
  BY <1>1, <1>2, NumberedAsking
<1>3. CASE out' = out /\ waiting' \subseteq waiting /\ nextId' = nextId
  BY <1>1, <1>3, NumberedKept
<1>4. ASSUME NEW p \in Panels, EndsTo(p, e.how), waiting' \subseteq waiting, nextId' = nextId
      PROVE  Numbered'
  <2>1. out' = out \/ (out' = Append(out, About("Forget", p)))
    BY <1>4 DEF EndsTo
  <2>2. AsksKept(out, out')
    <3>1. About("Forget", p) \in Request /\ About("Forget", p).what = "Forget"
      BY <1>1, Requests
    <3>2. AsksKept(out, out) /\ AsksKept(out, Append(out, About("Forget", p)))
      BY <1>1, <3>1, AsksAre
    <3> QED BY <2>1, <3>2
  <2> QED BY <1>1, <1>4, <2>2, NumberedKept
<1>5. ASSUME NEW w \in waiting, w[2] \in Panels, Replied(e, w) PROVE Numbered'
  BY <1>2, <1>3, <1>4, <1>5 DEF Replied
<1> QED BY <1>2, <1>3, <1>4, <1>5 DEF Received

LEMMA ServeNumbered == ASSUME Base, Numbered, Serve PROVE Numbered'
<1>1. PICK r \in Request : Served(r)
  BY ServeFacts
<1>2. /\ r = Head(out) /\ out # <<>> /\ out' = Tail(out) /\ UNCHANGED <<waiting, nextId>>
      /\ out \in Seq(Request) /\ inb \in Seq(Event)
  BY <1>1 DEF Served, Serve, Base, TypeOK
<1>3. CASE r.what \in {"Attach", "Spawn", "List"}
  <2>1. PICK e \in Event : /\ inb' = Append(inb, e) /\ e.what = "reply" /\ e.id = r.id
                           /\ e.how # "list" => e.panel = r.panel
    BY <1>1, <1>3 DEF Served
  <2>2. UNCHANGED quit
    BY <1>1, <1>3 DEF Served
  <2> QED BY <1>2, <1>3, <2>1, <2>2, NumberedAnswer
<1>4. CASE r.what \in {"Kill", "Forget"}
  <2>1. UNCHANGED quit /\ (inb' = inb \/ \E e \in Event : inb' = Append(inb, e) /\ e.what # "reply")
    BY <1>1, <1>4 DEF Served
  <2>2. AsksKept(out, out') /\ AnswersKept(inb, inb')
    BY <1>2, <2>1, AsksAre
  <2> QED BY <1>2, <2>1, <2>2, NumberedKept
<1>5. CASE r.what = "Close"
  BY <1>1, <1>5 DEF Served, Numbered
<1> QED BY <1>3, <1>4, <1>5 DEF Request

LEMMA RestNumbered ==
    ASSUME Base, Numbered,
           \/ \E p \in Panels : Overflows(p) \/ \E how \in Exits : ShellExits(p, how)
           \/ PollDirectories \/ Lose \/ Reconnect \/ Quit \/ GiveUp
    PROVE  Numbered'
<1>0. /\ out \in Seq(Request) /\ inb \in Seq(Event) /\ nextId \in Nat
      /\ AsksKept(out, out) /\ AnswersKept(inb, inb)
  BY AsksAre DEF Base, TypeOK
<1>1. ASSUME NEW p \in Panels, Overflows(p) \/ \E how \in Exits : ShellExits(p, how) PROVE Numbered'
  <2>1. /\ UNCHANGED <<waiting, quit, nextId, out>>
        /\ inb' = inb \/ \E e \in Event : inb' = Append(inb, e) /\ e.what # "reply"
    BY <1>1, SessionFacts DEF hubVars
  <2>2. AnswersKept(inb, inb')
    BY <1>0, <2>1, AsksAre
  <2> QED BY <1>0, <2>1, <2>2, NumberedKept
<1>2. CASE PollDirectories
  <2> DEFINE m == [what |-> "List", id |-> nextId, panel |-> "none", made |-> 0]
  <2>1. m \in Request /\ m.id = nextId /\ out' = Append(out, m)
    BY <1>0, <1>2 DEF Request, PollDirectories
  <2> HIDE DEF m
  <2>2. UNCHANGED <<quit, waiting, inb>> /\ nextId' = nextId + 1
    BY <1>2 DEF PollDirectories
  <2> QED BY <1>0, <2>1, <2>2, NumberedAsk
<1>3. CASE Lose \/ Reconnect
  <2>1. out' = <<>> /\ inb' = <<>>
    BY <1>3 DEF Lose, Reconnect, Base, Cut
  <2> QED BY <2>1, KindsEmpty DEF Numbered
<1>4. CASE Quit
  BY <1>4 DEF Quit, Numbered
<1>5. CASE GiveUp
  BY <1>5 DEF GiveUp, Numbered
<1> QED BY <1>1, <1>2, <1>3, <1>4, <1>5

LEMMA NextNumbered == Base /\ Numbered /\ [Next]_vars => Numbered'
<1> SUFFICES ASSUME Base, Numbered, [Next]_vars PROVE Numbered' OBVIOUS
<1>1. CASE UNCHANGED vars
  BY <1>1 DEF vars, hubVars, linkVars, Numbered
<1>2. CASE Receive
  BY <1>2, ReceiveFacts, ReceiveNumbered
<1>3. ASSUME NEW p \in Panels, Frame(p) \/ MakeTerminal(p) \/ Kill(p) \/ Restart(p) PROVE Numbered'
  BY <1>3, UserFacts, UserNumbered
<1> QED BY <1>1, <1>2, <1>3, ServeNumbered, RestNumbered DEF Next

LEMMA InitNumbered == Init => Numbered
<1> SUFFICES ASSUME Init PROVE Numbered
  OBVIOUS
<1>1. out = <<>> /\ inb = <<>> /\ waiting = {}
  BY DEF Init
<1>2. \A k \in Nat : /\ Once(out, Sent(k)) /\ Once(inb, Got(k))
                     /\ ~Has(out, Sent(k)) /\ ~Has(inb, Got(k))
  BY <1>1, KindsEmpty
<1> QED BY <1>1, <1>2 DEF Numbered

-----------------------------------------------------------------------------
(* A panel without a terminal leaves no session behind. *)

Settled(p) ==
    \/ sess[p].st # "live" /\ ~Has(out, Reqs(p, {"Spawn"}))
    \/ LastIs(out, Reqs(p, {"Kill"}), Reqs(p, {"Spawn"}))

(* News of a clean exit is of a session nothing replaces ... *)
CleanIsLast(p) == Has(inb, News(p, {"clean"})) =>
    sess[p].st # "live" /\ ~Has(out, Reqs(p, {"Spawn"}))

(* ... and what was not there has not ended, nor is it started behind an Attach
   that would find it ended. *)
MissingIsMissing(p) ==
    /\ Has(inb, News(p, {"nosuch"})) => sess[p].st # "exited"
    /\ ~Before(inb, News(p, {"nosuch"}), News(p, {"clean", "failed"}))
    /\ sess[p].st = "exited" => ~Before(out, Reqs(p, {"Attach"}), Reqs(p, {"Spawn"}))

(* One end at a time is asked for or told of, and it is expected. *)
EndsOnce(p) ==
    /\ Once(out, Reqs(p, {"Kill"})) /\ Once(inb, News(p, {"user"}))
    /\ Has(out, Reqs(p, {"Kill"})) => p \in killed /\ ~Has(inb, News(p, {"user"}))
    /\ Has(inb, News(p, {"user"})) => p \in killed

(* Its Kill was lost. *)
Gone(p) == <<"Kill", p>> \in lost

EndOf(p) ==
    /\ ~typed[p] /\ ~Gone(p) => Settled(p)
    /\ quit = "no" => CleanIsLast(p) /\ MissingIsMissing(p) /\ EndsOnce(p)

Ending == \A p \in Panels \ mixed : EndOf(p)

(* What of a queue EndOf depends on. *)
OutKept(p, q, r) ==
    /\ \A what \in {"Spawn", "Kill"} : Has(r, Reqs(p, {what})) => Has(q, Reqs(p, {what}))
    /\ Once(q, Reqs(p, {"Kill"})) => Once(r, Reqs(p, {"Kill"}))
    /\ Before(r, Reqs(p, {"Attach"}), Reqs(p, {"Spawn"}))
         => Before(q, Reqs(p, {"Attach"}), Reqs(p, {"Spawn"}))
    /\ LastIs(q, Reqs(p, {"Kill"}), Reqs(p, {"Spawn"})) => LastIs(r, Reqs(p, {"Kill"}), Reqs(p, {"Spawn"}))
InbKept(p, b, c) ==
    /\ \A how \in {"clean", "nosuch", "user"} : Has(c, News(p, {how})) => Has(b, News(p, {how}))
    /\ Once(b, News(p, {"user"})) => Once(c, News(p, {"user"}))
    /\ Before(c, News(p, {"nosuch"}), News(p, {"clean", "failed"}))
         => Before(b, News(p, {"nosuch"}), News(p, {"clean", "failed"}))

LEMMA OutJoined ==
    ASSUME NEW p, NEW q \in Seq(Request), NEW m \in Request, m \notin Reqs(p, {"Spawn", "Kill"})
    PROVE  OutKept(p, q, Append(q, m)) /\ OutKept(p, q, q)
<1>1. m \notin Reqs(p, {"Spawn"}) /\ m \notin Reqs(p, {"Kill"})
  BY DEF Reqs
<1> QED BY <1>1, KindsJoined DEF OutKept

LEMMA OutTaken ==
    ASSUME NEW p, NEW q \in Seq(Request), q # <<>>, Head(q) \notin Reqs(p, {"Kill"})
    PROVE  OutKept(p, q, Tail(q))
BY KindsTaken DEF OutKept

LEMMA InbJoined ==
    ASSUME NEW p, NEW b \in Seq(Event), NEW e \in Event,
           e \notin News(p, {"clean", "failed", "nosuch", "user"})
    PROVE  InbKept(p, b, Append(b, e)) /\ InbKept(p, b, b)
<1>1. /\ e \notin News(p, {"clean", "failed"})
      /\ \A how \in {"clean", "nosuch", "user"} : e \notin News(p, {how})
  BY DEF News
<1> QED BY <1>1, KindsJoined DEF InbKept

LEMMA InbTaken == ASSUME NEW p, NEW b \in Seq(Event), b # <<>> PROVE InbKept(p, b, Tail(b))
BY KindsTaken DEF InbKept

LEMMA EndKept ==
    ASSUME NEW p \in Panels, EndOf(p), quit' = "no" => quit = "no", Gone(p) => Gone(p)',
           sess'[p].st = sess[p].st \/ sess'[p].st = "none",
           OutKept(p, out, out'), InbKept(p, inb, inb')
    PROVE  /\ (typed[p] => typed'[p]) => (~typed'[p] /\ ~Gone(p)' => Settled(p)')
           /\ quit' = "no" => CleanIsLast(p)' /\ MissingIsMissing(p)'
           /\ quit' = "no" /\ (p \in killed => p \in killed') => EndsOnce(p)'
           /\ (typed[p] => typed'[p]) /\ (p \in killed => p \in killed') => EndOf(p)'
<1>1. (typed[p] => typed'[p]) => (~typed'[p] /\ ~Gone(p)' => Settled(p)')
  BY DEF EndOf, Settled, OutKept
<1>2. quit' = "no" => CleanIsLast(p)' /\ MissingIsMissing(p)'
  BY DEF EndOf, CleanIsLast, MissingIsMissing, OutKept, InbKept
<1>3. quit' = "no" /\ (p \in killed => p \in killed') => EndsOnce(p)'
  BY DEF EndOf, EndsOnce, OutKept, InbKept
<1> QED BY <1>1, <1>2, <1>3 DEF EndOf

LEMMA Same == \A p, q, b : OutKept(p, q, q) /\ InbKept(p, b, b)
BY DEF OutKept, InbKept

(* A request about another panel, or one that neither starts nor ends anything. *)
LEMMA OthersKept ==
    ASSUME TypeOK, NEW p \in Panels, NEW q \in Panels, NEW o \in Seq(Request),
           NEW what \in {"Attach", "Spawn", "Kill", "Forget"},
           q # p \/ what \in {"Attach", "Forget"}
    PROVE  OutKept(p, o, Append(o, About(what, q))) /\ OutKept(p, o, Append(o, Asked(what, q)))
<1>1. /\ About(what, q) \in Request /\ About(what, q) \notin Reqs(p, {"Spawn", "Kill"})
      /\ Asked(what, q) \in Request /\ Asked(what, q) \notin Reqs(p, {"Spawn", "Kill"})
  BY Requests DEF Reqs
<1> QED BY <1>1, OutJoined

(* The queues as the guards speak of them. *)
LEMMA NoNews ==
    ASSUME TypeOK, NEW p \in Panels
    PROVE  /\ NoEndNews(p) => ~Has(out, Reqs(p, {"Kill"})) /\ ~Has(inb, News(p, {"user"}))
           /\ NoExitNews(p) => /\ ~Has(inb, News(p, {"clean"})) /\ ~Has(inb, News(p, {"clean", "failed"}))
                               /\ sess[p].st = "exited" => /\ ~Has(out, Reqs(p, {"Attach"}))
                                                           /\ ~Has(inb, News(p, {"nosuch"}))
<1>1. \A i \in DOMAIN out : out[i] \in Request
  BY DEF TypeOK
<1>2. \A i \in DOMAIN inb : inb[i] \in Event
  BY DEF TypeOK
<1> QED BY <1>1, <1>2 DEF NoEndNews, NoExitNews, OnItsWay, Range, Has, Reqs, News

(* A panel that is ended with neither an end nor an exit on its way, whatever was before. *)
LEMMA KillEndOf ==
    ASSUME Base, NEW p \in Panels, UserActs(p), Killing(p), p \notin mixed'
    PROVE  EndOf(p)'
<1>1. /\ TypeOK /\ out \in Seq(Request) /\ UNCHANGED <<quit, sess, inb>> /\ p \in killed'
      /\ EndAsked(p) /\ out' = (IF up THEN Append(out, About("Kill", p)) ELSE out)
  BY DEF Base, TypeOK, UserActs, Killing
<1>2. NoEndNews(p) /\ NoExitNews(p)
  BY <1>1 DEF EndAsked
<1>3. /\ ~Has(out, Reqs(p, {"Kill"})) /\ ~Has(inb, News(p, {"user"})) /\ ~Has(inb, News(p, {"clean"}))
      /\ ~Has(inb, News(p, {"clean", "failed"}))
      /\ sess[p].st = "exited" => ~Has(out, Reqs(p, {"Attach"})) /\ ~Has(inb, News(p, {"nosuch"}))
  BY <1>1, <1>2, NoNews
<1>4. Once(inb, News(p, {"user"})) /\ ~Before(inb, News(p, {"nosuch"}), News(p, {"clean", "failed"}))
  BY <1>3 DEF Has, Once, Before
<1>5. CASE up
  <2> DEFINE m == About("Kill", p)
  <2>1. /\ m \in Request /\ m \in Reqs(p, {"Kill"}) /\ m \notin Reqs(p, {"Spawn"})
        /\ out' = Append(out, m)
    BY <1>1, <1>5, Requests DEF Reqs
  <2> HIDE DEF m
  <2>2. Settled(p)'
    BY <1>1, <2>1, KindsJoined DEF Settled
  <2>3. /\ Once(out', Reqs(p, {"Kill"}))
        /\ sess[p].st = "exited" => ~Before(out', Reqs(p, {"Attach"}), Reqs(p, {"Spawn"}))
    <3>1. /\ Once(out, Reqs(p, {"Kill"}))
          /\ ~Has(out, Reqs(p, {"Attach"})) => ~Before(out, Reqs(p, {"Attach"}), Reqs(p, {"Spawn"}))
      BY <1>3 DEF Has, Once, Before
    <3> QED BY <1>1, <1>3, <2>1, <3>1, KindsJoined
  <2> QED BY <1>1, <1>3, <1>4, <2>2, <2>3 DEF EndOf, CleanIsLast, MissingIsMissing, EndsOnce
<1>6. CASE ~up
  <2>1. Gone(p)' /\ out' = <<>> /\ inb' = <<>>
    BY <1>1, <1>6 DEF EndAsked, Gone, Base, Cut
  <2>2. \A T, U : /\ ~Has(out', T) /\ ~Has(inb', T) /\ Once(out', T) /\ Once(inb', T)
                  /\ ~Before(out', T, U) /\ ~Before(inb', T, U)
    BY <2>1, KindsEmpty
  <2> QED BY <2>1, <2>2 DEF EndOf, CleanIsLast, MissingIsMissing, EndsOnce
<1> QED BY <1>5, <1>6

LEMMA UserEnding ==
    ASSUME Base, Ending, NEW q \in Panels, UserActs(q)
    PROVE  Ending'
<1> SUFFICES ASSUME NEW p \in Panels, p \notin mixed', ~(p = q /\ Killing(q)) PROVE EndOf(p)'
  BY KillEndOf DEF Ending
<1>8. /\ p \notin mixed /\ (Gone(p) => Gone(p)')
      /\ p = q /\ Mixing(q, NoExitNews(q)) => NoExitNews(q)
  BY DEF UserActs, Killing, Mixing, EndAsked, Gone, past
<1>0. /\ TypeOK /\ EndOf(p) /\ out \in Seq(Request) /\ UNCHANGED <<quit, sess, inb>>
      /\ typed \in [Panels -> BOOLEAN] /\ (Gone(p) => Gone(p)')
  BY <1>8 DEF Base, TypeOK, Ending, UserActs
<1>1. InbKept(p, inb, inb') /\ OutKept(p, out, out)
  BY <1>0, Same
<1>2. \A what \in {"Attach", "Spawn", "Kill", "Forget"} :
         /\ About(what, q) \in Request /\ Asked(what, q) \in Request
         /\ About(what, q).what = what /\ About(what, q).panel = q
         /\ Asked(what, q).what = what /\ Asked(what, q).panel = q
  BY <1>0, Requests
<1>3. CASE (typed[p] => typed'[p]) /\ (p \in killed => p \in killed') /\ OutKept(p, out, out')
  BY <1>0, <1>1, <1>3, EndKept
<1>4. CASE Asking(q, "Attach", waiting) /\ UNCHANGED <<typed, killed>>
  <2>1. OutKept(p, out, out')
    BY <1>0, <1>4, OthersKept DEF Asking
  <2> QED BY <1>3, <1>4, <2>1
<1>5. CASE out' = out /\ killed' = killed /\ (typed' = typed \/ typed' = [typed EXCEPT ![q] = TRUE])
  BY <1>0, <1>1, <1>3, <1>5
<1>6. CASE Killing(q)
  <2>1. p # q
    BY <1>6
  <2>2. OutKept(p, out, out')
    BY <1>0, <1>6, <2>1, OthersKept, Same DEF Killing
  <2>3. (typed[p] => typed'[p]) /\ (p \in killed => p \in killed')
    BY <1>0, <1>6, <2>1 DEF Killing
  <2> QED BY <1>3, <2>2, <2>3
<1>7. CASE /\ Mixing(q, NoExitNews(q)) /\ out' = Append(Append(out, About("Forget", q)), Asked("Spawn", q))
           /\ UNCHANGED <<killed, typed>> /\ typed[q]
  <2> DEFINE o == Append(out, About("Forget", q))
             m == Asked("Spawn", q)
  <2>1. o \in Seq(Request) /\ OutKept(p, out, o) /\ out' = Append(o, m) /\ m \in Request
    BY <1>0, <1>2, <1>7, OthersKept, JoinedPlaces
  <2>2. CASE p # q
    <3>1. OutKept(p, o, Append(o, m))
      BY <1>0, <2>1, <2>2, OthersKept
    <3>2. OutKept(p, out, out')
      BY <2>1, <3>1 DEF OutKept
    <3> QED BY <1>3, <1>7, <3>2
  <2>3. CASE p = q
    <3>1. m \notin Reqs(p, {"Kill"})
      BY <1>2 DEF Reqs
    <3>2. About("Forget", q) \notin Reqs(p, {"Attach"})
      BY <1>2 DEF Reqs
    <3>3. Has(o, Reqs(p, {"Attach"})) => Has(out, Reqs(p, {"Attach"}))
      <4> DEFINE f == About("Forget", q)
      <4>1. f \in Request /\ f \notin Reqs(p, {"Attach"})
        BY <1>2, <3>2
      <4> HIDE DEF f
      <4>2. Has(Append(out, f), Reqs(p, {"Attach"})) => Has(out, Reqs(p, {"Attach"}))
        BY <1>0, <4>1, KindJoined
      <4> QED BY <4>2 DEF f
    <3> HIDE DEF o, m
    <3>4. Has(out', Reqs(p, {"Kill"})) => Has(o, Reqs(p, {"Kill"}))
      BY <2>1, <3>1, KindsJoined
    <3>5. Once(o, Reqs(p, {"Kill"})) => Once(out', Reqs(p, {"Kill"}))
      BY <2>1, <3>1, KindsJoined
    <3>6. ~Has(o, Reqs(p, {"Attach"})) => ~Before(out', Reqs(p, {"Attach"}), Reqs(p, {"Spawn"}))
      <4>1. ~Has(o, Reqs(p, {"Attach"})) => ~Before(o, Reqs(p, {"Attach"}), Reqs(p, {"Spawn"}))
        BY DEF Has, Before
      <4> QED BY <2>1, <4>1, KindsJoined
    <3>7. /\ ~Has(inb, News(p, {"clean"}))
          /\ sess[p].st = "exited" => ~Has(out, Reqs(p, {"Attach"}))
      BY <1>0, <1>7, <1>8, <2>3, NoNews
    <3>8. quit' = "no" => CleanIsLast(p)' /\ MissingIsMissing(p)'
      BY <1>0, <3>3, <3>6, <3>7 DEF EndOf, CleanIsLast, MissingIsMissing
    <3>9. quit' = "no" => EndsOnce(p)'
      BY <1>0, <1>7, <2>1, <3>4, <3>5 DEF EndOf, EndsOnce, OutKept
    <3> QED BY <1>7, <2>3, <3>8, <3>9 DEF EndOf
  <2> QED BY <2>2, <2>3
<1> QED BY <1>4, <1>5, <1>6, <1>7 DEF UserActs

LEMMA ReceiveEnding ==
    ASSUME Base, Numbered, Ending, NEW e \in Event, Received(e), UNCHANGED past
    PROVE  Ending'
<1> SUFFICES ASSUME NEW p \in Panels \ mixed PROVE EndOf(p)'
  BY DEF Ending, past
<1>0. /\ TypeOK /\ EndOf(p) /\ (Gone(p)' <=> Gone(p)) /\ out \in Seq(Request) /\ inb \in Seq(Event)
      /\ UNCHANGED <<quit, sess>> /\ quit # "asking"
      /\ inb # <<>> /\ e = Head(inb) /\ inb' = Tail(inb) /\ typed \in [Panels -> BOOLEAN]
  BY DEF Base, TypeOK, Ending, Received, Gone, past
<1>1. InbKept(p, inb, inb') /\ OutKept(p, out, out)
  BY <1>0, InbTaken, Same
<1>2. CASE (typed[p] => typed'[p]) /\ (p \in killed => p \in killed') /\ OutKept(p, out, out')
  BY <1>0, <1>1, <1>2, EndKept
<1>3. ASSUME NEW q \in Panels, Asking(q, "Attach", waiting), UNCHANGED <<typed, killed>>
      PROVE  EndOf(p)'
  <2>1. OutKept(p, out, out')
    BY <1>0, <1>3, OthersKept DEF Asking
  <2> QED BY <1>2, <1>3, <2>1
<1>4. CASE UNCHANGED <<typed, killed, out>>
  BY <1>1, <1>2, <1>4
<1>5. CASE /\ e.what = "exited" /\ e.how = "user" /\ e.panel \in killed
           /\ killed' = killed \ {e.panel} /\ UNCHANGED <<typed, out>>
  <2>1. CASE p # e.panel
    BY <1>1, <1>2, <1>5, <2>1
  <2>2. CASE p = e.panel
    <3>1. e \in News(p, {"user"})
      BY <1>5, <2>2 DEF News
    <3>2. /\ Has(inb, News(p, {"user"}))
          /\ Once(inb, News(p, {"user"})) => Once(inb', News(p, {"user"})) /\ ~Has(inb', News(p, {"user"}))
      BY <1>0, <3>1, KindsTaken
    <3>3. EndsOnce(p) => EndsOnce(p)'
      BY <1>5, <3>2 DEF EndsOnce
    <3>4. (~typed'[p] /\ ~Gone(p)' => Settled(p)') /\ (quit' = "no" => CleanIsLast(p)' /\ MissingIsMissing(p)')
      BY <1>0, <1>1, <1>5, EndKept
    <3> QED BY <1>0, <3>3, <3>4 DEF EndOf
  <2> QED BY <2>1, <2>2
<1>6. ASSUME NEW q \in Panels, EndsTo(q, e.how), killed' = killed, e.how \in Exits,
             quit = "no" => e.panel = q /\ (e.how # "user" \/ q \notin killed)
      PROVE  EndOf(p)'
  <2>1. CASE UNCHANGED <<typed, out>>
    BY <1>4, <1>6, <2>1
  <2>2. CASE /\ e.how # "failed" /\ out' = Append(out, About("Forget", q))
             /\ typed' = IF quit = "done" THEN typed ELSE [typed EXCEPT ![q] = FALSE]
    <3>1. OutKept(p, out, out')
      BY <1>0, <2>2, OthersKept
    <3>2. CASE typed'[p] = typed[p]
      BY <1>2, <1>6, <3>1, <3>2
    <3>3. CASE p = q /\ quit = "no"
      <4>1. (quit' = "no" => CleanIsLast(p)' /\ MissingIsMissing(p)') /\ (quit' = "no" => EndsOnce(p)')
        BY <1>0, <1>1, <1>6, <3>1, EndKept
      <4>2. e.how = "user" => Has(inb, News(p, {"user"}))
        <5>1. e.how = "user" => e \in News(p, {"user"})
          BY <1>6, <3>3 DEF News
        <5> QED BY <1>0, <5>1, KindsTaken
      <4>3. e.how # "user"
        BY <1>0, <1>6, <3>3, <4>2 DEF EndOf, EndsOnce
      <4>4. e \in News(p, {"clean"})
        BY <1>6, <2>2, <3>3, <4>3 DEF News, Exits
      <4>5. Has(inb, News(p, {"clean"}))
        BY <1>0, <4>4, KindsTaken
      <4>6. sess[p].st # "live" /\ ~Has(out, Reqs(p, {"Spawn"}))
        BY <1>0, <3>3, <4>5 DEF EndOf, CleanIsLast
      <4>7. Settled(p)'
        BY <1>0, <3>1, <4>6 DEF Settled, OutKept
      <4> QED BY <4>1, <4>7 DEF EndOf
    <3>4. typed'[p] = typed[p] \/ (p = q /\ quit = "no")
      BY <1>0, <2>2 DEF TypeOK
    <3> QED BY <3>2, <3>3, <3>4
  <2> QED BY <1>6, <2>1, <2>2 DEF EndsTo
<1>7. ASSUME NEW w \in waiting, w[1] = e.id, e.what = "reply", e.how # "list", quit = "no"
      PROVE  e.panel = w[2]
  <2>1. e \in StrayAnswer(w) => Has(inb, StrayAnswer(w))
    BY <1>0, KindsTaken
  <2> QED BY <1>7, <2>1 DEF Numbered, StrayAnswer
<1>8. ASSUME NEW q \in Panels, NEW old, Asking(q, "Spawn", old), UNCHANGED <<typed, killed>>,
             typed[q], e.how = "nosuch", e.panel = q, quit = "no"
      PROVE  EndOf(p)'
  <2>1. CASE p # q
    <3>1. OutKept(p, out, out')
      BY <1>0, <1>8, <2>1, OthersKept DEF Asking
    <3> QED BY <1>2, <1>8, <3>1
  <2>2. CASE p = q
    <3> DEFINE m == Asked("Spawn", q)
    <3>1. m \in Request /\ m \notin Reqs(p, {"Kill"}) /\ out' = Append(out, m)
      BY <1>0, <1>8, Requests DEF Reqs, Asking
    <3> HIDE DEF m
    <3>2. Has(out', Reqs(p, {"Kill"})) => Has(out, Reqs(p, {"Kill"}))
      BY <1>0, <3>1, KindJoined
    <3>3. Once(out, Reqs(p, {"Kill"})) => Once(out', Reqs(p, {"Kill"}))
      BY <1>0, <3>1, KindJoined
    <3>4. EndsOnce(p)'
      BY <1>0, <1>1, <1>8, <3>2, <3>3 DEF EndOf, EndsOnce, InbKept
    <3>5. e \in News(p, {"nosuch"})
      BY <1>8, <2>2 DEF News
    <3>6. Has(inb, News(p, {"nosuch"})) /\ ~Has(inb', News(p, {"clean", "failed"}))
      BY <1>0, <1>8, <3>5, KindsTaken DEF EndOf, MissingIsMissing
    <3>7. ~Has(inb', News(p, {"clean"}))
      BY <3>6 DEF Has, News
    <3>8. sess[p].st # "exited"
      BY <1>0, <1>8, <3>6 DEF EndOf, MissingIsMissing
    <3>9. ~Before(inb', News(p, {"nosuch"}), News(p, {"clean", "failed"}))
      BY <1>0, <1>1, <1>8 DEF EndOf, MissingIsMissing, InbKept
    <3>10. CleanIsLast(p)' /\ MissingIsMissing(p)'
      BY <1>0, <3>7, <3>8, <3>9 DEF CleanIsLast, MissingIsMissing
    <3> QED BY <1>8, <2>2, <3>4, <3>10 DEF EndOf
  <2> QED BY <2>1, <2>2
<1>9. ASSUME NEW w \in waiting, w[1] = e.id, e.what = "reply", w[2] \in Panels, status[w[2]] # "none",
             Replied(e, w), killed' = killed
      PROVE  EndOf(p)'
  <2>1. typed[w[2]]
    BY <1>9 DEF Base, Viewless
  <2>2. e.how # "user"
    BY <1>9 DEF Event
  <2>3. CASE e.how \in Exits /\ EndsTo(w[2], e.how)
    BY <1>6, <1>7, <1>9, <2>2, <2>3 DEF Exits
  <2>4. CASE e.how = "nosuch" /\ quit = "no" /\ Asking(w[2], "Spawn", waiting \ {w}) /\ UNCHANGED typed
    BY <1>7, <1>8, <1>9, <2>1, <2>4
  <2> QED BY <1>4, <1>9, <2>3, <2>4 DEF Replied
<1>10. CASE /\ e.what = "exited" /\ e.panel \in Panels /\ (e.how = "user" => e.panel \notin killed)
            /\ EndsTo(e.panel, e.how) /\ UNCHANGED killed
  <2>1. e.how \in Exits
    BY <1>10 DEF Event
  <2> QED BY <1>6, <1>10, <2>1
<1> QED BY <1>3, <1>4, <1>5, <1>9, <1>10 DEF Received

(* An answer about another panel, or of a kind nothing here depends on. *)
LEMMA AnswerKept ==
    ASSUME NEW p, NEW b \in Seq(Event), NEW e \in Event,
           e.panel # p \/ e.how \in {"none", "live", "error", "list"}
    PROVE  InbKept(p, b, Append(b, e))
<1>1. e \notin News(p, {"clean", "failed", "nosuch", "user"})
  BY DEF News
<1> QED BY <1>1, InbJoined

LEMMA ServeEnding == ASSUME Base, Ending, Serve PROVE Ending'
<1> SUFFICES ASSUME NEW p \in Panels \ mixed PROVE EndOf(p)'
  BY DEF Ending, Serve, past
<1>1. PICK r \in Request : Served(r)
  BY ServeFacts
<1>2. /\ r = Head(out) /\ out # <<>> /\ out' = Tail(out) /\ UNCHANGED <<typed, killed>>
      /\ out \in Seq(Request) /\ inb \in Seq(Event) /\ sess \in [Panels -> Session] /\ EndOf(p)
      /\ InbKept(p, inb, inb) /\ NoSession.st = "none" /\ (Gone(p)' <=> Gone(p))
  BY <1>1, Same DEF Served, Serve, Base, TypeOK, Ending, NoSession, Gone, past
<1>3. CASE r.what = "Close"
  <2>1. quit' = "done" /\ sess'[p].st \in {sess[p].st, "none"}
    BY <1>1, <1>2, <1>3 DEF Served
  <2>2. r \notin Reqs(p, {"Kill"})
    BY <1>3 DEF Reqs
  <2>3. OutKept(p, out, out')
    BY <1>2, <2>2, OutTaken
  <2>4. ~typed[p] /\ ~Gone(p) => Settled(p)'
    BY <1>2, <2>1, <2>3 DEF EndOf, Settled, OutKept
  <2> QED BY <1>2, <2>1, <2>4 DEF EndOf
<1>4. CASE r.what # "Close" /\ (r.panel # p \/ r.what \in {"List", "Forget"})
  <2>1. UNCHANGED quit /\ sess'[p].st \in {sess[p].st, "none"}
    BY <1>1, <1>2, <1>4 DEF Served
  <2>2. \/ inb' = inb
        \/ \E e \in Event : /\ inb' = Append(inb, e)
                            /\ e.panel # p \/ e.how \in {"none", "live", "error", "list"}
    BY <1>1, <1>2, <1>4 DEF Served
  <2>3. r \notin Reqs(p, {"Kill"})
    BY <1>4 DEF Reqs
  <2>4. InbKept(p, inb, inb')
    <3>1. CASE inb' = inb
      BY <1>2, <3>1
    <3>2. ASSUME NEW e \in Event, inb' = Append(inb, e),
                 e.panel # p \/ e.how \in {"none", "live", "error", "list"}
          PROVE  InbKept(p, inb, inb')
      BY <1>2, <3>2, AnswerKept
    <3> QED BY <2>2, <3>1, <3>2
  <2>5. OutKept(p, out, out')
    BY <1>2, <2>3, OutTaken
  <2> QED BY <1>2, <2>1, <2>4, <2>5, EndKept
<1>5. CASE r.what = "Spawn" /\ r.panel = p
  <2>1. UNCHANGED quit /\ sess'[p].st \in {sess[p].st, "live"}
    BY <1>1, <1>2, <1>5 DEF Served
  <2>2. PICK e \in Event : inb' = Append(inb, e) /\ e.how \in {"live", "error"}
    BY <1>1, <1>5 DEF Served
  <2>3. r \notin Reqs(p, {"Kill"}) /\ r \in Reqs(p, {"Spawn"})
    BY <1>5 DEF Reqs
  <2>4. OutKept(p, out, out') /\ InbKept(p, inb, inb')
    BY <1>2, <2>2, <2>3, OutTaken, AnswerKept
  <2>5. Has(out, Reqs(p, {"Spawn"}))
    BY <1>2, <2>3, KindsTaken
  <2>6. ~typed[p] /\ ~Gone(p) => Settled(p)'
    BY <1>2, <2>4, <2>5 DEF EndOf, Settled, OutKept
  <2>7. quit = "no" => ~Has(inb, News(p, {"clean"}))
    BY <1>2, <2>5 DEF EndOf, CleanIsLast
  <2>8. quit' = "no" => CleanIsLast(p)' /\ MissingIsMissing(p)' /\ EndsOnce(p)'
    BY <1>2, <2>1, <2>4, <2>7 DEF EndOf, CleanIsLast, MissingIsMissing, EndsOnce, OutKept,
                                  InbKept
  <2> QED BY <1>2, <2>6, <2>8 DEF EndOf
<1>6. CASE r.what = "Attach" /\ r.panel = p
  <2>1. sess' = [sess EXCEPT ![p].att = (sess[p].st = "live")] /\ UNCHANGED quit
    BY <1>1, <1>6 DEF Served
  <2>2. sess'[p].st = sess[p].st
    BY <1>2, <2>1 DEF Session
  <2>3. PICK e \in Event : /\ inb' = Append(inb, e) /\ e.panel = p /\ e.how = Found(sess[p])
    BY <1>1, <1>6 DEF Served
  <2>4. r \notin Reqs(p, {"Kill"}) /\ r \in Reqs(p, {"Attach"})
    BY <1>6 DEF Reqs
  <2>5. OutKept(p, out, out')
    BY <1>2, <2>4, OutTaken
  <2>6. CASE sess[p].st = "live"
    <3>1. e.how = "live"
      BY <2>3, <2>6 DEF Found
    <3>2. InbKept(p, inb, inb')
      BY <1>2, <2>3, <3>1, AnswerKept
    <3> QED BY <1>2, <2>1, <2>2, <2>5, <3>2, EndKept
  <2>7. CASE sess[p].st # "live"
    <3>1. ~typed[p] /\ ~Gone(p) => Settled(p)'
      BY <1>2, <2>2, <2>5 DEF EndOf, Settled, OutKept
    <3>2. e.how # "user" /\ e \notin News(p, {"user"}) /\ sess[p] \in Session
      BY <1>2, <2>3, <2>7 DEF Found, Session, News
    <3>3. /\ Has(inb', News(p, {"user"})) <=> Has(inb, News(p, {"user"}))
          /\ Once(inb, News(p, {"user"})) => Once(inb', News(p, {"user"}))
      BY <1>2, <2>3, <3>2, KindJoined
    <3>4. quit' = "no" => EndsOnce(p)'
      BY <1>2, <2>1, <2>5, <3>3 DEF EndOf, EndsOnce, OutKept
    <3>5. CASE sess[p].st = "exited"
      <4>1. /\ ~Before(out, Reqs(p, {"Attach"}), Reqs(p, {"Spawn"}))
                 => ~Has(out', Reqs(p, {"Spawn"})) /\ ~Before(out', Reqs(p, {"Attach"}), Reqs(p, {"Spawn"}))
        BY <1>2, <2>4, KindsTaken
      <4>2. e \notin News(p, {"nosuch"})
        BY <2>3, <3>2, <3>5 DEF Found, Session, News
      <4>3. /\ Has(inb', News(p, {"nosuch"})) <=> Has(inb, News(p, {"nosuch"}))
            /\ ~Has(inb, News(p, {"nosuch"})) =>
                 ~Before(inb', News(p, {"nosuch"}), News(p, {"clean", "failed"}))
        <5>1. ~Has(inb, News(p, {"nosuch"})) => ~Before(inb, News(p, {"nosuch"}), News(p, {"clean", "failed"}))
          BY DEF Has, Before
        <5> QED BY <1>2, <2>3, <4>2, <5>1, KindsJoined
      <4>4. quit' = "no" => CleanIsLast(p)' /\ MissingIsMissing(p)'
        BY <1>2, <2>1, <2>2, <3>5, <4>1, <4>3 DEF EndOf, CleanIsLast, MissingIsMissing
      <4> QED BY <1>2, <3>1, <3>4, <4>4 DEF EndOf
    <3>6. CASE sess[p].st = "none"
      <4>1. e.how = "nosuch"
        BY <2>3, <3>6 DEF Found
      <4>2. e \notin News(p, {"clean"}) /\ e \notin News(p, {"clean", "failed"})
        BY <4>1 DEF News
      <4>3. /\ Has(inb', News(p, {"clean"})) <=> Has(inb, News(p, {"clean"}))
            /\ ~Before(inb, News(p, {"nosuch"}), News(p, {"clean", "failed"}))
                 => ~Before(inb', News(p, {"nosuch"}), News(p, {"clean", "failed"}))
        BY <1>2, <2>3, <4>2, KindJoined, KindsJoined
      <4>4. quit' = "no" => CleanIsLast(p)' /\ MissingIsMissing(p)'
        BY <1>2, <2>1, <2>2, <2>5, <3>6, <4>3 DEF EndOf, CleanIsLast, MissingIsMissing, OutKept
      <4> QED BY <1>2, <3>1, <3>4, <4>4 DEF EndOf
    <3> QED BY <2>7, <3>2, <3>5, <3>6 DEF Session
  <2> QED BY <2>6, <2>7
<1>7. CASE r.what = "Kill" /\ r.panel = p
  <2>1. /\ sess' = [sess EXCEPT ![p] = NoSession] /\ UNCHANGED quit
        /\ \/ inb' = inb
           \/ \E e \in Event : inb' = Append(inb, e) /\ e.how = "user" /\ e.panel = p
    BY <1>1, <1>7 DEF Served
  <2>2. r \in Reqs(p, {"Kill"}) /\ r \notin Reqs(p, {"Spawn"}) /\ r \notin Reqs(p, {"Attach"}) /\ sess'[p].st = "none"
    BY <1>2, <1>7, <2>1 DEF Reqs
  <2>3. /\ Has(out, Reqs(p, {"Kill"}))
        /\ Once(out, Reqs(p, {"Kill"})) => Once(out', Reqs(p, {"Kill"})) /\ ~Has(out', Reqs(p, {"Kill"}))
        /\ Has(out', Reqs(p, {"Spawn"})) => Has(out, Reqs(p, {"Spawn"}))
        /\ LastIs(out, Reqs(p, {"Kill"}), Reqs(p, {"Spawn"})) =>
              LastIs(out', Reqs(p, {"Kill"}), Reqs(p, {"Spawn"})) \/ ~Has(out', Reqs(p, {"Spawn"}))
    BY <1>2, <2>2, KindsTaken
  <2>4. ~typed[p] /\ ~Gone(p) => Settled(p)'
    BY <1>2, <2>2, <2>3 DEF EndOf, Settled
  <2>5. CASE inb' = inb
    <3>1. quit' = "no" => CleanIsLast(p)' /\ MissingIsMissing(p)' /\ EndsOnce(p)'
      BY <1>2, <2>1, <2>2, <2>3, <2>5 DEF EndOf, CleanIsLast, MissingIsMissing, EndsOnce
    <3> QED BY <1>2, <2>4, <3>1 DEF EndOf
  <2>6. ASSUME NEW e \in Event, inb' = Append(inb, e), e.how = "user", e.panel = p PROVE EndOf(p)'
    <3>1. /\ e \notin News(p, {"clean"}) /\ e \notin News(p, {"nosuch"}) /\ e \notin News(p, {"clean", "failed"})
      BY <2>6 DEF News
    <3>2. /\ Has(inb', News(p, {"clean"})) <=> Has(inb, News(p, {"clean"}))
          /\ Has(inb', News(p, {"nosuch"})) <=> Has(inb, News(p, {"nosuch"}))
          /\ ~Before(inb, News(p, {"nosuch"}), News(p, {"clean", "failed"}))
               => ~Before(inb', News(p, {"nosuch"}), News(p, {"clean", "failed"}))
          /\ Once(inb, News(p, {"user"})) /\ ~Has(inb, News(p, {"user"})) => Once(inb', News(p, {"user"}))
      BY <1>2, <2>6, <3>1, KindJoined, KindsJoined
    <3>3. quit' = "no" => CleanIsLast(p)' /\ MissingIsMissing(p)' /\ EndsOnce(p)'
      BY <1>2, <2>1, <2>2, <2>3, <3>2 DEF EndOf, CleanIsLast, MissingIsMissing, EndsOnce
    <3> QED BY <1>2, <2>4, <3>3 DEF EndOf
  <2> QED BY <2>1, <2>5, <2>6
<1> QED BY <1>3, <1>4, <1>5, <1>6, <1>7 DEF Request

LEMMA RestEnding ==
    ASSUME Base, Ending,
           \/ \E q \in Panels : Overflows(q) \/ \E how \in Exits : ShellExits(q, how)
           \/ PollDirectories \/ Lose \/ Reconnect \/ Quit \/ GiveUp
    PROVE  Ending'
<1>8. CASE Lose /\ sess' = [p \in Panels |-> NoSession]
  <2>1. out' = <<>> /\ inb' = <<>> /\ \A p \in Panels : sess'[p].st = "none"
    BY <1>8 DEF Lose, NoSession
  <2>2. \A T, U : /\ ~Has(out', T) /\ ~Has(inb', T) /\ Once(out', T) /\ Once(inb', T)
                  /\ ~Before(out', T, U) /\ ~Before(inb', T, U)
    BY <2>1, KindsEmpty
  <2> QED BY <2>1, <2>2 DEF Ending, EndOf, Settled, CleanIsLast, MissingIsMissing, EndsOnce
<1> SUFFICES ASSUME NEW p \in Panels, p \notin mixed', ~(Lose /\ sess' = [q \in Panels |-> NoSession])
             PROVE  EndOf(p)'
  BY <1>8 DEF Ending
<1>9. p \notin mixed /\ (Gone(p) => Gone(p)')
  <2>1. ASSUME NEW q \in Panels, NEW how \in Exits, ShellExits(q, how) PROVE p \notin mixed /\ (Gone(p) => Gone(p)')
    BY <2>1 DEF ShellExits, Mixing, Gone
  <2>2. CASE \/ \E q \in Panels : Overflows(q)
             \/ PollDirectories \/ Reconnect \/ Quit \/ GiveUp
    <3>1. past' = past
      BY <2>2 DEF Overflows, PollDirectories, Reconnect, Quit, GiveUp
    <3> QED BY <3>1 DEF past, Gone
  <2>3. CASE Lose
    BY <2>3 DEF Lose, Gone
  <2> QED BY <2>1, <2>2, <2>3
<1>0. /\ (Gone(p) => Gone(p)') /\ TypeOK /\ EndOf(p) /\ out \in Seq(Request) /\ inb \in Seq(Event) /\ sess \in [Panels -> Session]
      /\ OutKept(p, out, out) /\ InbKept(p, inb, inb)
  BY <1>9, Same DEF Base, TypeOK, Ending
<1>1. ASSUME NEW q \in Panels, Overflows(q) \/ \E how \in Exits : ShellExits(q, how) PROVE EndOf(p)'
  <2>1. UNCHANGED <<typed, killed, quit, out>>
    BY <1>1, SessionFacts DEF hubVars
  <2>2. CASE p # q \/ sess' = sess
    <3>1. sess'[p] = sess[p]
      BY <1>1, <2>2, SessionFacts
    <3>2. inb' = inb \/ \E e \in Event : inb' = Append(inb, e) /\ (e.panel # p \/ e.how = "none")
      <4>1. CASE p # q
        BY <1>1, <4>1, SessionFacts
      <4>2. CASE sess' = sess
        <5>1. sess[q].st = "live" /\ (sess'[q].st = "exited" => sess' # sess)
          BY <1>1, SessionFacts
        <5> QED BY <1>1, <4>2, <5>1, SessionFacts
      <4> QED BY <2>2, <4>1, <4>2
    <3>3. InbKept(p, inb, inb')
      BY <1>0, <3>2, AnswerKept
    <3> QED BY <1>0, <2>1, <3>1, <3>3, EndKept
  <2>3. CASE p = q /\ sess' # sess
    <3>1. sess'[p].st = "exited" /\ \E how \in Exits : ShellExits(p, how)
      BY <1>1, <2>3, SessionFacts
    <3>2. /\ ~Has(out, Reqs(p, {"Kill"})) /\ ~Has(out, Reqs(p, {"Spawn"}))
          /\ ~Has(inb, News(p, {"nosuch"}))
      <4>1. PICK how \in Exits : ShellExits(p, how)
        BY <3>1
      <4>2. /\ ~OnItsWay("Kill", p) /\ ~OnItsWay("Spawn", p)
            /\ \A e \in Range(inb) : e.panel = p => e.how # "nosuch"
        BY <4>1 DEF ShellExits, Mixing
      <4> QED BY <1>0, <4>2, OnItsWayHas
    <3>3. \/ inb' = inb
          \/ \E e \in Event : inb' = Append(inb, e) /\ e.how \in {"clean", "failed"}
      BY <1>1, <2>3, <3>1, SessionFacts
    <3>4. /\ Has(inb', News(p, {"user"})) <=> Has(inb, News(p, {"user"}))
          /\ Once(inb, News(p, {"user"})) => Once(inb', News(p, {"user"}))
          /\ ~Has(inb', News(p, {"nosuch"}))
      <4>1. ASSUME NEW e \in Event, inb' = Append(inb, e), e.how \in {"clean", "failed"}
            PROVE  /\ Has(inb', News(p, {"user"})) <=> Has(inb, News(p, {"user"}))
                   /\ Once(inb, News(p, {"user"})) => Once(inb', News(p, {"user"}))
                   /\ ~Has(inb', News(p, {"nosuch"}))
        <5>1. e \notin News(p, {"user"}) /\ e \notin News(p, {"nosuch"})
          BY <4>1 DEF News
        <5> QED BY <1>0, <3>2, <4>1, <5>1, KindJoined
      <4> QED BY <3>2, <3>3, <4>1
    <3>5. ~Before(inb', News(p, {"nosuch"}), News(p, {"clean", "failed"}))
      BY <3>4 DEF Has, Before
    <3>6. ~Before(out, Reqs(p, {"Attach"}), Reqs(p, {"Spawn"}))
      BY <3>2, KindsNone
    <3>7. Settled(p)' /\ CleanIsLast(p)' /\ MissingIsMissing(p)'
      BY <2>1, <3>1, <3>2, <3>4, <3>5, <3>6 DEF Settled, CleanIsLast, MissingIsMissing
    <3>8. quit' = "no" => EndsOnce(p)'
      BY <1>0, <2>1, <3>4 DEF EndOf, EndsOnce
    <3> QED BY <3>7, <3>8 DEF EndOf
  <2> QED BY <2>2, <2>3
<1>2. ASSUME NEW m \in Request, out' = Append(out, m), m.what \in {"List", "Close"},
             quit' = "no" => quit = "no", UNCHANGED <<typed, killed, sess, inb>>
      PROVE  EndOf(p)'
  <2>1. m \notin Reqs(p, {"Spawn", "Kill"})
    BY <1>2 DEF Reqs
  <2>2. OutKept(p, out, out')
    BY <1>0, <1>2, <2>1, OutJoined
  <2> QED BY <1>0, <1>2, <2>2, EndKept
<1>3. CASE PollDirectories
  <2> DEFINE m == [what |-> "List", id |-> nextId, panel |-> "none", made |-> 0]
  <2>1. m \in Request /\ m.what = "List"
    BY <1>0 DEF Request, TypeOK
  <2>2. out' = Append(out, m) /\ UNCHANGED <<typed, killed, sess, inb, quit>>
    BY <1>3 DEF PollDirectories
  <2> HIDE DEF m
  <2> QED BY <1>2, <2>1, <2>2
<1>4. CASE Lose
  <2>1. /\ out' = <<>> /\ inb' = <<>> /\ UNCHANGED <<typed, killed, quit>>
        /\ OnItsWay("Kill", p) => Gone(p)'
    BY <1>4 DEF Lose, Gone
  <2>2. sess'[p].st = sess[p].st
    BY <1>0, <1>4 DEF Lose, Session
  <2>3. ~Gone(p)' => ~Has(out, Reqs(p, {"Kill"})) /\ ~Gone(p)
    BY <1>0, <2>1, OnItsWayHas
  <2>4. \A T, U : ~Has(<<>>, T) /\ Once(<<>>, T) /\ ~Before(<<>>, T, U)
    BY KindsEmpty
  <2>5. ~typed[p] /\ ~Gone(p)' => Settled(p)'
    BY <1>0, <2>1, <2>2, <2>3, <2>4 DEF EndOf, Settled, LastIs, Has
  <2> QED BY <1>0, <2>1, <2>2, <2>4, <2>5 DEF EndOf, CleanIsLast, MissingIsMissing, EndsOnce
<1>5. CASE Reconnect
  BY <1>0, <1>5, EndKept DEF Reconnect
<1>6. CASE Quit
  <2> DEFINE m == [what |-> "Close", id |-> NoId, panel |-> "none", made |-> 0]
  <2>1. m \in Request /\ m.what = "Close"
    BY DEF NoId, Request
  <2>2. /\ out' = out \/ (out' = Append(out, m))
        /\ UNCHANGED <<typed, killed, sess, inb>> /\ quit' # "no"
    BY <1>6 DEF Quit
  <2> HIDE DEF m
  <2>3. CASE out' = out
    BY <1>0, <2>2, <2>3, EndKept
  <2> QED BY <1>2, <2>1, <2>2, <2>3
<1>7. CASE GiveUp
  BY <1>0, <1>7, EndKept DEF GiveUp, linkVars
<1> QED BY <1>1, <1>3, <1>4, <1>5, <1>6, <1>7

LEMMA NextEnding == Base /\ Numbered /\ Ending /\ [Next]_vars => Ending'
<1> SUFFICES ASSUME Base, Numbered, Ending, [Next]_vars PROVE Ending' OBVIOUS
<1>1. CASE UNCHANGED vars
  <2>1. /\ out' = out /\ inb' = inb /\ sess' = sess /\ typed' = typed /\ quit' = quit
        /\ killed' = killed /\ mixed' = mixed /\ lost' = lost
    BY <1>1 DEF vars, hubVars, linkVars, past
  <2> QED BY <2>1, Same, EndKept DEF Ending, Gone
<1>2. CASE Receive
  BY <1>2, ReceiveFacts, ReceiveEnding DEF Receive
<1>3. ASSUME NEW p \in Panels, Frame(p) \/ MakeTerminal(p) \/ Kill(p) \/ Restart(p) PROVE Ending'
  BY <1>3, UserFacts, UserEnding
<1> QED BY <1>1, <1>2, <1>3, ServeEnding, RestEnding DEF Next

LEMMA InitEnding == Init => Ending
<1> SUFFICES ASSUME Init, NEW p \in Panels PROVE EndOf(p)
  BY DEF Ending
<1>1. \A T, U : /\ ~Has(out, T) /\ ~Has(inb, T) /\ Once(out, T) /\ Once(inb, T)
                /\ ~Before(out, T, U) /\ ~Before(inb, T, U)
  BY KindsEmpty DEF Init
<1>2. ~typed[p] => sess[p].st = "none"
  BY DEF Init, NoSession
<1> QED BY <1>1, <1>2 DEF EndOf, Settled, CleanIsLast, MissingIsMissing, EndsOnce

(* hub.rs posts a Kill for a panel the user ends, and takes a panel back when
   its terminal has ended: a panel left empty leaves no session that nothing
   would end, but for one whose Kill was lost or whose news crossed (`lost`,
   `mixed`), until it is next ended. *)
THEOREM EndedTerminalsAreEnded == Spec => []EndedTerminalsEnd
<1>1. Base /\ Ending => EndedTerminalsEnd
  <2> SUFFICES ASSUME Base, Ending, NEW p \in Panels \ mixed, ~typed[p], <<"Kill", p>> \notin lost
               PROVE  \/ sess[p].st # "live" /\ ~OnItsWay("Spawn", p)
                      \/ \E i \in DOMAIN out :
                            /\ out[i].what = "Kill" /\ out[i].panel = p
                            /\ \A j \in DOMAIN out : i < j /\ out[j].panel = p => out[j].what # "Spawn"
    BY DEF EndedTerminalsEnd
  <2>1. Settled(p) /\ \A j \in DOMAIN out : out[j] \in Request
    BY DEF Ending, EndOf, Gone, Base, TypeOK
  <2> QED BY <2>1, OnItsWayHas DEF Settled, LastIs, Reqs, Base
<1>2. Base /\ Numbered /\ Ending /\ [Next]_vars => Ending'
  BY NextEnding
<1> QED BY <1>1, <1>2, InitNumbered, InitEnding, NextNumbered, AlwaysBase, PTL DEF Spec

-----------------------------------------------------------------------------
(* A view that says Running is attached. *)

LooseAsks(W) ==
    {r \in Request : r.what \in {"Attach", "Spawn"} /\ \A w \in W : ~(w[1] = r.id /\ w[2] = r.panel)}
LooseAnswers(W) ==
    {e \in Event : e.what = "reply" /\ e.how # "list" /\ \A w \in W : ~(w[1] = e.id /\ w[2] = e.panel)}

(* Whatever is asked or answered about a panel is waited for, and nothing is
   waited for under the List's id: a lost List would leave its id behind. *)
Awaited == quit = "no" =>
    /\ ~Has(out, LooseAsks(waiting)) /\ ~Has(inb, LooseAnswers(waiting))
    /\ listing < nextId /\ (~up => listing = NoId)
    /\ \A w \in waiting : w[1] # listing /\ w[1] # NoId

(* Some requests are answered, all with the id k; others are asked with nextId. *)
LEMMA AwaitedStep ==
    ASSUME Base, Awaited, quit' = "no" => quit = "no", UNCHANGED <<up, listing>>,
           nextId' \in {nextId, nextId + 1}, NEW k,
           ~Has(out, Sent(k)), ~Has(inb', Got(k)), \A w \in waiting : w \in waiting' \/ w[1] = k,
           \A w \in waiting' : w \in waiting \/ w[1] = nextId,
           Has(out', LooseAsks(waiting')) => Has(out, LooseAsks(waiting')),
           \A W : Has(inb', LooseAnswers(W)) => Has(inb, LooseAnswers(W))
    PROVE  Awaited'
<1> SUFFICES ASSUME quit = "no" PROVE Awaited'
  BY DEF Awaited
<1>1. ~Has(out, LooseAsks(waiting'))
  <2> SUFFICES ASSUME NEW i \in DOMAIN out, out[i] \in LooseAsks(waiting') PROVE FALSE
    BY DEF Has
  <2>1. out[i] \notin LooseAsks(waiting) /\ out[i] \notin Sent(k)
    BY DEF Awaited, Has
  <2>2. PICK w \in waiting : w[1] = out[i].id /\ w[2] = out[i].panel
    BY <2>1 DEF LooseAsks
  <2>3. w[1] # k
    BY <2>1, <2>2 DEF Sent, LooseAsks
  <2> QED BY <2>2, <2>3 DEF LooseAsks
<1>2. ~Has(inb', LooseAnswers(waiting'))
  <2> SUFFICES ASSUME NEW i \in DOMAIN inb', inb'[i] \in LooseAnswers(waiting') PROVE FALSE
    BY DEF Has
  <2>1. inb'[i] \notin LooseAnswers(waiting) /\ inb'[i] \notin Got(k)
    BY DEF Awaited, Has
  <2>2. PICK w \in waiting : w[1] = inb'[i].id /\ w[2] = inb'[i].panel
    BY <2>1 DEF LooseAnswers
  <2>3. w[1] # k
    BY <2>1, <2>2 DEF Got, LooseAnswers
  <2> QED BY <2>2, <2>3 DEF LooseAnswers
<1>3. listing \in Nat /\ nextId \in Nat \ {0} /\ NoId = 0
  BY DEF Base, TypeOK, NoId
<1> QED BY <1>1, <1>2, <1>3 DEF Awaited

LEMMA LooseAre ==
    /\ \A q \in Seq(Request) : \A W :
          /\ \A m \in Request : m \notin LooseAsks(W) =>
                (Has(Append(q, m), LooseAsks(W)) => Has(q, LooseAsks(W)))
          /\ q # <<>> => (Has(Tail(q), LooseAsks(W)) => Has(q, LooseAsks(W)))
    /\ \A b \in Seq(Event) : \A W :
          /\ \A e \in Event : e.what # "reply" => (Has(Append(b, e), LooseAnswers(W)) => Has(b, LooseAnswers(W)))
          /\ b # <<>> => (Has(Tail(b), LooseAnswers(W)) => Has(b, LooseAnswers(W)))
<1>1. ASSUME NEW q \in Seq(Request), NEW W, NEW m \in Request, m \notin LooseAsks(W)
      PROVE  Has(Append(q, m), LooseAsks(W)) => Has(q, LooseAsks(W))
  BY <1>1, KindsJoined
<1>2. ASSUME NEW q \in Seq(Request), NEW W, q # <<>>
      PROVE  Has(Tail(q), LooseAsks(W)) => Has(q, LooseAsks(W))
  BY <1>2, KindsTaken
<1>3. ASSUME NEW b \in Seq(Event), NEW W, NEW e \in Event, e.what # "reply"
      PROVE  Has(Append(b, e), LooseAnswers(W)) => Has(b, LooseAnswers(W))
  <2>1. e \notin LooseAnswers(W)
    BY <1>3 DEF LooseAnswers
  <2> QED BY <2>1, KindsJoined
<1>4. ASSUME NEW b \in Seq(Event), NEW W, b # <<>>
      PROVE  Has(Tail(b), LooseAnswers(W)) => Has(b, LooseAnswers(W))
  BY <1>4, KindsTaken
<1> QED BY <1>1, <1>2, <1>3, <1>4

(* The id that comes next is not in flight. *)
LEMMA NextIsNew ==
    ASSUME Base, Numbered, quit = "no"
    PROVE  nextId \in Nat /\ ~Has(out, Sent(nextId)) /\ ~Has(inb, Got(nextId))
                          /\ (inb # <<>> => ~Has(Tail(inb), Got(nextId)))
<1>1. nextId \in Nat /\ ~(nextId < nextId) /\ inb \in Seq(Event)
  BY DEF Base, TypeOK
<1>2. ~Has(out, Sent(nextId)) /\ ~Has(inb, Got(nextId))
  BY <1>1 DEF Numbered
<1> QED BY <1>1, <1>2, KindsTaken

(* A message that asks is waited for; the others ask for nothing. *)
LEMMA NotLoose ==
    ASSUME TypeOK, NEW p \in Panels, NEW q \in Seq(Request), NEW W
    PROVE  /\ \A what \in {"Kill", "Forget"} :
                 Has(Append(q, About(what, p)), LooseAsks(W)) => Has(q, LooseAsks(W))
           /\ \A kind \in {"Attach", "Spawn"} : <<nextId, p, kind>> \in W =>
                 (Has(Append(q, Asked(kind, p)), LooseAsks(W)) => Has(q, LooseAsks(W)))
<1>1. ASSUME NEW what \in {"Kill", "Forget"}
      PROVE  Has(Append(q, About(what, p)), LooseAsks(W)) => Has(q, LooseAsks(W))
  <2> DEFINE m == About(what, p)
  <2>1. m \in Request /\ m.what = what
    BY Requests
  <2>2. m \notin LooseAsks(W)
    BY <2>1 DEF LooseAsks
  <2> HIDE DEF m
  <2>3. Has(Append(q, m), LooseAsks(W)) => Has(q, LooseAsks(W))
    BY <2>1, <2>2, KindJoined
  <2> QED BY <2>3 DEF m
<1>2. ASSUME NEW kind \in {"Attach", "Spawn"}, <<nextId, p, kind>> \in W
      PROVE  Has(Append(q, Asked(kind, p)), LooseAsks(W)) => Has(q, LooseAsks(W))
  <2> DEFINE m == Asked(kind, p)
             w == <<nextId, p, kind>>
  <2>1. m \in Request /\ m.id = nextId /\ m.panel = p
    BY Requests
  <2>2. w[1] = nextId /\ w[2] = p /\ w \in W
    BY <1>2
  <2> HIDE DEF m, w
  <2>3. m \notin LooseAsks(W)
    BY <2>1, <2>2 DEF LooseAsks
  <2>4. Has(Append(q, m), LooseAsks(W)) => Has(q, LooseAsks(W))
    BY <2>1, <2>3, KindJoined
  <2> QED BY <2>4 DEF m
<1> QED BY <1>1, <1>2

LEMMA UserAwaited == ASSUME Base, Numbered, Awaited, NEW p \in Panels, UserActs(p) PROVE Awaited'
<1> SUFFICES ASSUME quit = "no" PROVE Awaited'
  BY DEF Awaited, UserActs, Killing
<1>0. /\ TypeOK /\ out \in Seq(Request) /\ UNCHANGED <<quit, up, listing, inb>>
      /\ ~Has(out, Sent(nextId)) /\ ~Has(inb, Got(nextId))
      /\ nextId \in Nat
  BY NextIsNew DEF Base, TypeOK, UserActs
<1>1. ASSUME nextId' \in {nextId, nextId + 1}, waiting \subseteq waiting',
             \A w \in waiting' : w \in waiting \/ w[1] = nextId,
             Has(out', LooseAsks(waiting')) => Has(out, LooseAsks(waiting'))
      PROVE  Awaited'
  BY <1>0, <1>1, AwaitedStep
<1>2. CASE Asking(p, "Attach", waiting)
  <2>1. Has(out', LooseAsks(waiting')) => Has(out, LooseAsks(waiting'))
    BY <1>0, <1>2, NotLoose DEF Asking
  <2> QED BY <1>1, <1>2, <2>1 DEF Asking
<1>3. CASE out' = out /\ UNCHANGED <<waiting, nextId>>
  BY <1>1, <1>3
<1>4. CASE out' = Append(out, About("Kill", p)) /\ UNCHANGED <<waiting, nextId>>
  <2>1. Has(out', LooseAsks(waiting')) => Has(out, LooseAsks(waiting'))
    BY <1>0, <1>4, NotLoose
  <2> QED BY <1>1, <1>4, <2>1
<1>5. CASE /\ out' = Append(Append(out, About("Forget", p)), Asked("Spawn", p))
           /\ waiting' = waiting \cup {<<nextId, p, "Spawn">>} /\ nextId' = nextId + 1
  <2> DEFINE q == Append(out, About("Forget", p))
  <2>1. q \in Seq(Request)
    BY <1>0, Requests, JoinedPlaces
  <2>2. Has(q, LooseAsks(waiting')) => Has(out, LooseAsks(waiting'))
    BY <1>0, NotLoose
  <2>3. <<nextId, p, "Spawn">> \in waiting' /\ out' = Append(q, Asked("Spawn", p))
    BY <1>5
  <2> HIDE DEF q
  <2>4. Has(out', LooseAsks(waiting')) => Has(q, LooseAsks(waiting'))
    BY <1>0, <2>1, <2>3, NotLoose
  <2> QED BY <1>1, <1>5, <2>2, <2>4
<1> QED BY <1>2, <1>3, <1>4, <1>5 DEF UserActs, Killing

LEMMA ReceiveAwaited ==
    ASSUME Base, Numbered, Awaited, NEW e \in Event, Received(e)
    PROVE  Awaited'
<1> SUFFICES ASSUME quit = "no" PROVE Awaited'
  BY DEF Awaited, Received
<1>0. /\ TypeOK /\ out \in Seq(Request) /\ inb \in Seq(Event) /\ UNCHANGED <<quit, up>> /\ nextId \in Nat
      /\ inb # <<>> /\ e = Head(inb) /\ inb' = Tail(inb) /\ e.id \in Nat
  BY DEF Base, TypeOK, Received, Event
<1>1. \A W : Has(inb', LooseAnswers(W)) => Has(inb, LooseAnswers(W))
  BY <1>0, LooseAre
<1>2. ~Has(out, Sent(nextId)) /\ ~Has(inb', Got(nextId))
  BY <1>0, NextIsNew
<1>3. e.what = "reply" => ~Has(out, Sent(e.id)) /\ ~Has(inb', Got(e.id))
  <2>1. e.what = "reply" => e \in Got(e.id)
    BY DEF Got
  <2> QED BY <1>0, <2>1, KindsTaken DEF Numbered
<1>4. ASSUME listing' = listing, nextId' \in {nextId, nextId + 1},
             \A w \in waiting : w \in waiting' \/ (e.what = "reply" /\ w[1] = e.id),
             \A w \in waiting' : w \in waiting \/ w[1] = nextId,
             Has(out', LooseAsks(waiting')) => Has(out, LooseAsks(waiting'))
      PROVE  Awaited'
  <2>1. CASE e.what = "reply"
    BY <1>0, <1>1, <1>3, <1>4, <2>1, AwaitedStep
  <2>2. CASE e.what # "reply"
    BY <1>0, <1>1, <1>2, <1>4, <2>2, AwaitedStep
  <2> QED BY <2>1, <2>2
<1>5. ASSUME NEW p \in Panels, NEW kind \in {"Attach", "Spawn"}, NEW old \in SUBSET waiting,
             \A w \in waiting : w \in old \/ (e.what = "reply" /\ w[1] = e.id), Asking(p, kind, old),
             listing' = listing
      PROVE  Awaited'
  <2>1. Has(out', LooseAsks(waiting')) => Has(out, LooseAsks(waiting'))
    BY <1>0, <1>5, NotLoose DEF Asking
  <2> QED BY <1>4, <1>5, <2>1 DEF Asking
<1>6. ASSUME NEW p \in Panels, EndsTo(p, e.how), listing' = listing, nextId' = nextId,
             waiting' \subseteq waiting,
             \A w \in waiting : w \in waiting' \/ (e.what = "reply" /\ w[1] = e.id)
      PROVE  Awaited'
  <2>1. out' = out \/ (out' = Append(out, About("Forget", p)))
    BY <1>6 DEF EndsTo
  <2>2. Has(out', LooseAsks(waiting')) => Has(out, LooseAsks(waiting'))
    BY <1>0, <1>6, <2>1, NotLoose
  <2> QED BY <1>4, <1>6, <2>2
<1>7. CASE listing' = NoId /\ UNCHANGED <<waiting, nextId, out>>
  <2>1. NoId < nextId
    BY <1>0 DEF Base, TypeOK, NoId
  <2> QED BY <1>0, <1>1, <1>7, <2>1 DEF Awaited
<1>8. ASSUME NEW w \in waiting, w[1] = e.id, e.what = "reply", w[2] \in Panels, Replied(e, w), listing' = listing
      PROVE  Awaited'
  <2>1. CASE waiting' = waiting \ {w} /\ UNCHANGED <<out, nextId>>
    BY <1>4, <1>8, <2>1
  <2>2. CASE waiting' = waiting \ {w} /\ nextId' = nextId /\ EndsTo(w[2], e.how)
    BY <1>6, <1>8, <2>2
  <2>3. CASE Asking(w[2], "Spawn", waiting \ {w})
    BY <1>5, <1>8, <2>3
  <2> QED BY <1>8, <2>1, <2>2, <2>3 DEF Replied
<1>9. CASE UNCHANGED <<out, nextId, waiting, listing>>
  BY <1>4, <1>9
<1>10. CASE /\ e.what = "exited" /\ e.panel \in Panels /\ EndsTo(e.panel, e.how)
            /\ UNCHANGED <<waiting, nextId, listing>>
  BY <1>6, <1>10
<1>11. CASE e.panel \in Panels /\ Asking(e.panel, "Attach", waiting) /\ listing' = listing
  BY <1>5, <1>11
<1>12. CASE /\ e.what = "reply" /\ waiting' = {w \in waiting : w[1] # e.id}
            /\ UNCHANGED <<listing, nextId, out>>
  BY <1>4, <1>12
<1> QED BY <1>7, <1>8, <1>9, <1>10, <1>11, <1>12 DEF Received

LEMMA ServeAwaited == ASSUME Base, Numbered, Awaited, Serve PROVE Awaited'
<1>1. PICK r \in Request : Served(r)
  BY ServeFacts
<1>2. /\ r = Head(out) /\ out # <<>> /\ out' = Tail(out) /\ UNCHANGED <<waiting, nextId, listing, up>>
      /\ out \in Seq(Request) /\ inb \in Seq(Event)
  BY <1>1 DEF Served, Serve, Base, TypeOK
<1>3. CASE r.what = "Close"
  BY <1>1, <1>3 DEF Served, Awaited
<1>4. CASE r.what # "Close"
  <2>1. /\ UNCHANGED quit
        /\ \/ inb' = inb
           \/ \E e \in Event : /\ inb' = Append(inb, e)
                               /\ \/ e.what # "reply" \/ e.how = "list"
                                  \/ r.what \in {"Attach", "Spawn"} /\ e.id = r.id /\ e.panel = r.panel
    BY <1>1, <1>4 DEF Served, Request
  <2>2. Has(out', LooseAsks(waiting)) => Has(out, LooseAsks(waiting))
    BY <1>2, LooseAre
  <2>3. ASSUME NEW e \in Event, inb' = Append(inb, e), quit = "no",
               \/ e.what # "reply" \/ e.how = "list"
               \/ r.what \in {"Attach", "Spawn"} /\ e.id = r.id /\ e.panel = r.panel
        PROVE  ~Has(inb', LooseAnswers(waiting))
    <3>1. e \in LooseAnswers(waiting) => r \in LooseAsks(waiting)
      BY <2>3 DEF LooseAnswers, LooseAsks
    <3>2. r \notin LooseAsks(waiting)
      BY <1>2, <2>3, KindsTaken DEF Awaited
    <3> QED BY <1>2, <2>3, <3>1, <3>2, KindsJoined DEF Awaited
  <2> QED BY <1>2, <2>1, <2>2, <2>3 DEF Awaited
<1> QED BY <1>3, <1>4

LEMMA RestAwaited ==
    ASSUME LossSparesLists, Base, Numbered, Awaited,
           \/ \E p \in Panels : Overflows(p) \/ \E how \in Exits : ShellExits(p, how)
           \/ PollDirectories \/ Lose \/ Reconnect \/ Quit \/ GiveUp
    PROVE  Awaited'
<1>0. /\ out \in Seq(Request) /\ inb \in Seq(Event) /\ nextId \in Nat \ {0} /\ NoId = 0
  BY DEF Base, TypeOK, NoId
<1>1. ASSUME NEW p \in Panels, Overflows(p) \/ \E how \in Exits : ShellExits(p, how) PROVE Awaited'
  <2>1. /\ UNCHANGED <<waiting, quit, nextId, out, up, listing>>
        /\ inb' = inb \/ \E e \in Event : inb' = Append(inb, e) /\ e.what # "reply"
    BY <1>1, SessionFacts DEF hubVars
  <2>2. Has(inb', LooseAnswers(waiting)) => Has(inb, LooseAnswers(waiting))
    BY <1>0, <2>1, LooseAre
  <2> QED BY <2>1, <2>2 DEF Awaited
<1>2. CASE PollDirectories
  <2> DEFINE m == [what |-> "List", id |-> nextId, panel |-> "none", made |-> 0]
  <2>1. m \in Request /\ m.what = "List" /\ out' = Append(out, m)
    BY <1>0, <1>2 DEF Request, PollDirectories
  <2>2. m \notin LooseAsks(waiting)
    BY DEF LooseAsks
  <2> HIDE DEF m
  <2>3. Has(out', LooseAsks(waiting)) => Has(out, LooseAsks(waiting))
    BY <1>0, <2>1, <2>2, LooseAre
  <2>4. UNCHANGED <<quit, waiting, inb, up>> /\ up /\ nextId' = nextId + 1 /\ listing' = nextId
    BY <1>2 DEF PollDirectories
  <2>5. \A w \in waiting : w[1] # nextId
    BY <1>0 DEF Base, Named
  <2> QED BY <1>0, <2>3, <2>4, <2>5 DEF Awaited
<1>3. CASE Lose
  <2>1. out' = <<>> /\ inb' = <<>> /\ waiting' = {} /\ listing = NoId /\ UNCHANGED <<listing, nextId>>
    BY <1>3 DEF Lose
  <2> QED BY <1>0, <2>1, KindsEmpty DEF Awaited
<1>4. CASE Reconnect
  <2>1. out' = <<>> /\ inb' = <<>> /\ waiting' = {} /\ UNCHANGED <<listing, quit>> /\ nextId' = 1 /\ ~up
    BY <1>4 DEF Reconnect, Base, Cut
  <2>2. ~Has(out', LooseAsks(waiting')) /\ ~Has(inb', LooseAnswers(waiting'))
    BY <2>1 DEF Has
  <2>3. quit = "no" => listing' = NoId /\ listing' < nextId'
    BY <1>0, <2>1 DEF Awaited
  <2> QED BY <2>1, <2>2, <2>3 DEF Awaited
<1>5. CASE Quit
  BY <1>5 DEF Quit, Awaited
<1>6. CASE GiveUp
  BY <1>6 DEF GiveUp, Awaited
<1> QED BY <1>1, <1>2, <1>3, <1>4, <1>5, <1>6

LEMMA NextAwaited == ASSUME LossSparesLists PROVE Base /\ Numbered /\ Awaited /\ [Next]_vars => Awaited'
<1> SUFFICES ASSUME Base, Numbered, Awaited, [Next]_vars PROVE Awaited' OBVIOUS
<1>1. CASE UNCHANGED vars
  BY <1>1 DEF vars, hubVars, linkVars, Awaited
<1>2. CASE Receive
  BY <1>2, ReceiveFacts, ReceiveAwaited
<1>3. ASSUME NEW p \in Panels, Frame(p) \/ MakeTerminal(p) \/ Kill(p) \/ Restart(p) PROVE Awaited'
  BY <1>3, UserFacts, UserAwaited
<1> QED BY <1>1, <1>2, <1>3, ServeAwaited, RestAwaited DEF Next

LEMMA InitAwaited == Init => Awaited
<1> SUFFICES ASSUME Init PROVE Awaited OBVIOUS
<1>1. out = <<>> /\ inb = <<>> /\ waiting = {} /\ listing = NoId /\ nextId = 1
  BY DEF Init
<1>2. ~Has(out, LooseAsks(waiting)) /\ ~Has(inb, LooseAnswers(waiting))
  BY <1>1 DEF Has
<1>3. listing < nextId
  BY <1>1 DEF NoId
<1> QED BY <1>1, <1>2, <1>3 DEF Awaited

(* Requests about p: those that end in a reply, and those that may end its
   session; events about p. *)
Asks(p) == Reqs(p, {"Attach", "Spawn"})
Takes(p) == Reqs(p, {"Kill", "Forget"})
TellsOf(p) == {e \in Event : e.panel = p /\ e.how # "list"}
Replies(p) == {e \in Event : e.panel = p /\ e.how # "list" /\ e.what = "reply"}

(* While p has a view: what may end its session is followed by an Attach or a
   Spawn, and so is the news of an end the user asked for, or by the reply to
   it; a session said to live is still attached unless more is told; and a view
   that says Running is attached or is about to learn more. *)
Shown(p) == quit = "no" =>
    /\ status[p] # "none" => ~LastIs(out, Takes(p), Asks(p))
    /\ status[p] # "none" /\ LastIs(inb, News(p, {"user"}), Replies(p)) => Has(out, Asks(p))
    /\ LastIs(inb, News(p, {"live"}), TellsOf(p)) => sess[p].att
    /\ up /\ status[p] = "Running" =>
          sess[p].att \/ Has(inb, TellsOf(p)) \/ Has(out, Asks(p)) \/ Has(out, Takes(p))

Showing == \A p \in Panels : Shown(p)

LEMMA LastJoined ==
    ASSUME NEW S, NEW q \in Seq(S), NEW m \in S, NEW T, NEW U
    PROVE  /\ m \notin T /\ ~LastIs(q, T, U) => ~LastIs(Append(q, m), T, U)
           /\ m \notin T /\ m \in U => ~LastIs(Append(q, m), T, U)
<1> DEFINE a == Append(q, m)
           n == Len(q) + 1
<1>1. /\ n \in DOMAIN a /\ a[n] = m /\ n \in Nat
      /\ \A i \in DOMAIN q : i \in DOMAIN a /\ a[i] = q[i] /\ i < n
      /\ \A i \in DOMAIN a : i \in DOMAIN q \/ i = n
      /\ DOMAIN q \subseteq Nat
  BY JoinedPlaces
<1> HIDE DEF a, n
<1>2. m \notin T /\ ~LastIs(q, T, U) => ~LastIs(a, T, U)
  BY <1>1 DEF LastIs
<1>3. m \notin T /\ m \in U => ~LastIs(a, T, U)
  BY <1>1 DEF LastIs
<1> QED BY <1>2, <1>3 DEF a

LEMMA LastTaken ==
    ASSUME NEW S, NEW q \in Seq(S), q # <<>>, NEW T, NEW U
    PROVE  ~LastIs(q, T, U) => ~LastIs(Tail(q), T, U) /\ (Head(q) \in T => Has(Tail(q), U))
<1> DEFINE a == Tail(q)
           h == Head(q)
<1>1. /\ 1 \in DOMAIN q /\ q[1] = h
      /\ \A i \in DOMAIN a : i + 1 \in DOMAIN q /\ a[i] = q[i + 1] /\ 1 < i + 1
      /\ \A i \in DOMAIN q : i # 1 => i - 1 \in DOMAIN a /\ a[i - 1] = q[i] /\ 1 < i
      /\ DOMAIN q \subseteq Nat /\ DOMAIN a \subseteq Nat
  BY TakenPlaces
<1> HIDE DEF a, h
<1>2. LastIs(a, T, U) => LastIs(q, T, U)
  <2> SUFFICES ASSUME NEW i \in DOMAIN a, a[i] \in T, \A j \in DOMAIN a : i < j => a[j] \notin U
               PROVE  LastIs(q, T, U)
    BY DEF LastIs
  <2>1. i + 1 \in DOMAIN q /\ q[i + 1] \in T /\ i \in Nat
    BY <1>1
  <2>2. ASSUME NEW j \in DOMAIN q, i + 1 < j PROVE q[j] \notin U
    <3>1. j \in Nat /\ j # 1
      BY <1>1, <2>1, <2>2
    <3>2. j - 1 \in DOMAIN a /\ a[j - 1] = q[j] /\ i < j - 1
      BY <1>1, <2>1, <2>2, <3>1
    <3> QED BY <3>2
  <2> QED BY <2>1, <2>2 DEF LastIs
<1>3. h \in T /\ ~Has(a, U) => LastIs(q, T, U)
  <2> SUFFICES ASSUME h \in T, ~Has(a, U) PROVE LastIs(q, T, U)
    OBVIOUS
  <2>1. \A j \in DOMAIN q : 1 < j => q[j] \notin U
    BY <1>1 DEF Has
  <2> QED BY <1>1, <2>1 DEF LastIs
<1> QED BY <1>2, <1>3 DEF a, h

(* What of the two queues Shown depends on. *)
ShownOut(p, q, r) ==
    /\ ~LastIs(q, Takes(p), Asks(p)) => ~LastIs(r, Takes(p), Asks(p))
    /\ Has(q, Asks(p)) => Has(r, Asks(p))
    /\ Has(q, Takes(p)) => Has(r, Takes(p))
ShownInb(p, b, c) ==
    /\ ~LastIs(b, News(p, {"user"}), Replies(p)) => ~LastIs(c, News(p, {"user"}), Replies(p))
    /\ ~LastIs(b, News(p, {"live"}), TellsOf(p)) => ~LastIs(c, News(p, {"live"}), TellsOf(p))

LEMMA ShownQueues ==
    ASSUME NEW p
    PROVE  /\ \A q : ShownOut(p, q, q) /\ ShownInb(p, q, q)
           /\ \A q \in Seq(Request), m \in Request :
                 m.panel # p \/ m.what \notin {"Kill", "Forget"} => ShownOut(p, q, Append(q, m))
           /\ \A q \in Seq(Request) :
                 q # <<>> /\ (Head(q).panel # p \/ Head(q).what \in {"List", "Close"}) => ShownOut(p, q, Tail(q))
           /\ \A b \in Seq(Event), e \in Event :
                 e.panel # p \/ e.how = "list" => ShownInb(p, b, Append(b, e))
           /\ \A b \in Seq(Event) : b # <<>> => ShownInb(p, b, Tail(b))
<1>1. \A q : ShownOut(p, q, q) /\ ShownInb(p, q, q)
  BY DEF ShownOut, ShownInb
<1>2. ASSUME NEW q \in Seq(Request), NEW m \in Request, m.panel # p \/ m.what \notin {"Kill", "Forget"}
      PROVE  ShownOut(p, q, Append(q, m))
  <2>1. m \notin Takes(p)
    BY <1>2 DEF Takes, Reqs
  <2> QED BY <2>1, LastJoined, KindsJoined DEF ShownOut
<1>3. ASSUME NEW q \in Seq(Request), q # <<>>, Head(q).panel # p \/ Head(q).what \in {"List", "Close"}
      PROVE  ShownOut(p, q, Tail(q))
  <2>1. Head(q) \notin Takes(p) /\ Head(q) \notin Asks(p)
    BY <1>3 DEF Takes, Asks, Reqs
  <2> QED BY <1>3, <2>1, LastTaken, KindsTaken DEF ShownOut
<1>4. ASSUME NEW b \in Seq(Event), NEW e \in Event, e.panel # p \/ e.how = "list"
      PROVE  ShownInb(p, b, Append(b, e))
  <2>1. e \notin News(p, {"user"}) /\ e \notin News(p, {"live"})
    BY <1>4 DEF News
  <2> QED BY <2>1, LastJoined DEF ShownInb
<1>5. ASSUME NEW b \in Seq(Event), b # <<>> PROVE ShownInb(p, b, Tail(b))
  BY <1>5, LastTaken DEF ShownInb
<1> QED BY <1>1, <1>2, <1>3, <1>4, <1>5

LEMMA ShownKept ==
    ASSUME NEW p, Shown(p), quit' = "no" => quit = "no", up' => up,
           ShownOut(p, out, out'), ShownInb(p, inb, inb'), sess[p].att => sess'[p].att,
           status'[p] # "none" => status[p] # "none",
           status'[p] = "Running" =>
               status[p] = "Running" /\ (Has(inb, TellsOf(p)) => Has(inb', TellsOf(p)))
    PROVE  Shown(p)'
BY DEF Shown, ShownOut, ShownInb

(* After an Attach or a Spawn for p is posted. *)
LEMMA ShownAsked ==
    ASSUME NEW p, Shown(p), quit' = "no" => quit = "no", NEW q \in Seq(Request), NEW m \in Request,
           out' = Append(q, m), m.panel = p, m.what \in {"Attach", "Spawn"},
           ShownInb(p, inb, inb'), sess[p].att => sess'[p].att
    PROVE  Shown(p)'
<1>1. m \in Asks(p) /\ m \notin Takes(p)
  BY DEF Asks, Takes, Reqs
<1>2. Has(out', Asks(p)) /\ ~LastIs(out', Takes(p), Asks(p))
  BY <1>1, KindsJoined, LastJoined
<1> QED BY <1>2 DEF Shown, ShownInb

LEMMA UserShown ==
    ASSUME Base, NEW p \in Panels, Shown(p), NEW q \in Panels, UserActs(q)
    PROVE  Shown(p)'
<1>0. /\ TypeOK /\ out \in Seq(Request) /\ UNCHANGED <<quit, up, sess, inb>> /\ status \in [Panels -> Statuses]
  BY DEF Base, TypeOK, UserActs
<1>1. ShownOut(p, out, out) /\ ShownInb(p, inb, inb')
  BY <1>0, ShownQueues
<1>2. \A what \in {"Attach", "Spawn", "Kill", "Forget"} :
         /\ About(what, q) \in Request /\ About(what, q).panel = q /\ About(what, q).what = what
         /\ Asked(what, q) \in Request /\ Asked(what, q).panel = q /\ Asked(what, q).what = what
  BY <1>0, Requests
<1>3. CASE p # q
  <2>1. status'[p] = status[p]
    BY <1>0, <1>3 DEF UserActs, Killing
  <2>2. Append(out, About("Forget", q)) \in Seq(Request)
    BY <1>0, <1>2, JoinedPlaces
  <2>3. ShownOut(p, out, out')
    <3>1. \A what \in {"Attach", "Kill", "Forget"} :
             /\ ShownOut(p, out, Append(out, About(what, q))) /\ ShownOut(p, out, Append(out, Asked(what, q)))
      <4>1. \A m \in Request : m.panel = q => ShownOut(p, out, Append(out, m))
        BY <1>0, <1>3, ShownQueues
      <4> QED BY <1>2, <4>1
    <3>2. ShownOut(p, Append(out, About("Forget", q)), Append(Append(out, About("Forget", q)), Asked("Spawn", q)))
      BY <1>2, <1>3, <2>2, ShownQueues
    <3>3. ShownOut(p, out, Append(Append(out, About("Forget", q)), Asked("Spawn", q)))
      BY <3>1, <3>2 DEF ShownOut
    <3> QED BY <1>1, <3>1, <3>3 DEF UserActs, Killing, Asking
  <2> QED BY <1>0, <1>1, <2>1, <2>3, ShownKept
<1>4. CASE p = q
  <2>1. CASE Asking(q, "Attach", waiting)
    BY <1>0, <1>1, <1>2, <1>4, <2>1, ShownAsked DEF Asking
  <2>2. CASE /\ status' = [status EXCEPT ![q] = "Connecting"] /\ out' = out
             /\ ~(quit = "no" /\ up /\ pend[q] = NoId) /\ status[q] = "none"
    <3>1. quit = "no" => ~up /\ out = <<>> /\ inb = <<>>
      BY <2>2 DEF Base, Viewless, Cut
    <3>2. quit' = "no" => ~up' /\ out' = <<>> /\ inb' = <<>>
      BY <1>0, <2>2, <3>1
    <3> QED BY <3>2, KindsEmpty DEF Shown
  <2>3. CASE status' = [status EXCEPT ![q] = "Connecting"] /\ out' = out /\ status[q] # "none"
    <3>1. status'[p] = "Connecting"
      BY <1>0, <1>4, <2>3
    <3> QED BY <1>0, <1>1, <1>4, <2>3, <3>1, ShownKept
  <2>4. CASE UNCHANGED <<status, out>>
    BY <1>0, <1>1, <2>4, ShownKept
  <2>5. CASE status' = [status EXCEPT ![q] = "none"]
    <3>1. status'[p] = "none"
      BY <1>0, <1>4, <2>5
    <3> QED BY <1>0, <1>1, <3>1 DEF Shown, ShownInb
  <2>6. CASE out' = Append(Append(out, About("Forget", q)), Asked("Spawn", q))
    <3>1. Append(out, About("Forget", q)) \in Seq(Request)
      BY <1>0, <1>2, JoinedPlaces
    <3> QED BY <1>0, <1>1, <1>2, <1>4, <2>6, <3>1, ShownAsked
  <2> QED BY <2>1, <2>2, <2>3, <2>4, <2>5, <2>6 DEF UserActs, Killing
<1> QED BY <1>3, <1>4

LEMMA ReceiveShown ==
    ASSUME Base, Numbered, Awaited, NEW p \in Panels, Shown(p), NEW e \in Event, Received(e)
    PROVE  Shown(p)'
<1> SUFFICES ASSUME quit = "no" PROVE Shown(p)'
  BY DEF Shown, Received
<1>0. /\ TypeOK /\ out \in Seq(Request) /\ inb \in Seq(Event) /\ UNCHANGED <<quit, up, sess>>
      /\ inb # <<>> /\ e = Head(inb) /\ inb' = Tail(inb) /\ status \in [Panels -> Statuses]
  BY DEF Base, TypeOK, Received
<1>1. ShownOut(p, out, out) /\ ShownInb(p, inb, inb')
  BY <1>0, ShownQueues
<1>2. e.panel # p \/ e.how = "list" => (Has(inb, TellsOf(p)) => Has(inb', TellsOf(p)))
  <2>1. e.panel # p \/ e.how = "list" => e \notin TellsOf(p)
    BY DEF TellsOf
  <2> QED BY <1>0, <2>1, KindsTaken
<1>3. ASSUME e.panel # p \/ e.how = "list", ShownOut(p, out, out'), status'[p] = status[p] PROVE Shown(p)'
  BY <1>0, <1>1, <1>2, <1>3, ShownKept
<1>4. ASSUME ShownOut(p, out, out'), status'[p] # "Running", status'[p] # "none" => status[p] # "none"
      PROVE  Shown(p)'
  BY <1>0, <1>1, <1>4, ShownKept
<1>5. ASSUME status'[p] = "none" PROVE Shown(p)'
  BY <1>0, <1>1, <1>5 DEF Shown, ShownInb
<1>6. ASSUME NEW q \in Panels, NEW kind \in {"Attach", "Spawn"}, NEW old, Asking(q, kind, old), e.panel = q,
             p # q => status'[p] = status[p]
      PROVE  Shown(p)'
  <2>1. /\ Asked(kind, q) \in Request /\ Asked(kind, q).panel = q /\ Asked(kind, q).what = kind
        /\ out' = Append(out, Asked(kind, q))
    BY <1>0, <1>6, Requests DEF Asking
  <2>2. CASE p = q
    BY <1>0, <1>1, <2>1, <2>2, ShownAsked
  <2>3. CASE p # q
    <3>1. ShownOut(p, out, out')
      BY <1>0, <2>1, <2>3, ShownQueues
    <3> QED BY <1>3, <1>6, <2>3, <3>1
  <2> QED BY <2>2, <2>3
<1>7. ASSUME NEW q \in Panels, EndsTo(q, e.how), e.panel = q PROVE Shown(p)'
  <2>1. CASE p = q
    BY <1>0, <1>1, <1>4, <1>5, <1>7, <2>1 DEF EndsTo
  <2>2. CASE p # q
    <3>1. About("Forget", q) \in Request /\ About("Forget", q).panel = q
      BY <1>0, Requests
    <3>2. status'[p] = status[p] /\ (out' = out \/ (out' = Append(out, About("Forget", q))))
      BY <1>0, <1>7, <2>2 DEF EndsTo
    <3>3. ShownOut(p, out, out')
      BY <1>0, <1>1, <2>2, <3>1, <3>2, ShownQueues
    <3> QED BY <1>3, <1>7, <2>2, <3>2, <3>3
  <2> QED BY <2>1, <2>2
<1>8. CASE e.what = "exited" /\ e.how = "user" /\ UNCHANGED <<status, out>>
  <2>1. CASE e.panel # p
    BY <1>0, <1>1, <1>3, <1>8, <2>1
  <2>2. CASE e.panel = p
    <3>1. e \in News(p, {"user"})
      BY <1>8, <2>2 DEF News
    <3>2. Has(inb', Replies(p)) => Has(inb', TellsOf(p))
      BY DEF Has, Replies, TellsOf
    <3>3. ~LastIs(inb, News(p, {"user"}), Replies(p)) => Has(inb', Replies(p))
      BY <1>0, <3>1, LastTaken
    <3>4. status[p] # "none" => Has(inb', TellsOf(p)) \/ Has(out', Asks(p))
      BY <1>8, <3>2, <3>3 DEF Shown
    <3> QED BY <1>0, <1>1, <1>8, <3>4 DEF Shown, ShownInb
  <2> QED BY <2>1, <2>2
<1>9. CASE e.what = "reply" /\ UNCHANGED <<status, out>> /\
           (e.id = listing \/ \A w \in waiting : w[1] = e.id => status[w[2]] = "none")
  <2>1. CASE e.how = "list"
    BY <1>0, <1>1, <1>3, <1>9, <2>1
  <2>2. CASE e.how # "list"
    <3>1. e \notin LooseAnswers(waiting)
      BY <1>0, KindsTaken DEF Awaited
    <3>2. PICK w \in waiting : w[1] = e.id /\ w[2] = e.panel
      BY <1>9, <2>2, <3>1 DEF LooseAnswers
    <3>3. status[e.panel] = "none"
      BY <1>9, <3>2 DEF Awaited
    <3> QED BY <1>1, <1>3, <1>4, <1>9, <3>3
  <2> QED BY <2>1, <2>2
<1>10. ASSUME NEW w \in waiting, w[1] = e.id, e.what = "reply", w[2] \in Panels, status[w[2]] # "none",
              Replied(e, w)
       PROVE  Shown(p)'
  <2>1. e.how # "list" => e.panel = w[2]
    <3>1. e \in StrayAnswer(w) => Has(inb, StrayAnswer(w))
      BY <1>0, KindsTaken
    <3> QED BY <1>10, <3>1 DEF Numbered, StrayAnswer
  <2>2. e.how # "list"
    BY <1>10 DEF Replied, Exits
  <2>3. ASSUME NEW s \in {"Running", "Dormant", "Failed"}, s = "Running" => e.how = "live",
               status' = [status EXCEPT ![w[2]] = s], out' = out
        PROVE  Shown(p)'
    <3>1. CASE p # w[2]
      <4>1. status'[p] = status[p]
        BY <1>0, <2>3, <3>1
      <4> QED BY <1>1, <1>3, <2>1, <2>2, <2>3, <3>1, <4>1
    <3>2. CASE p = w[2] /\ s # "Running"
      <4>1. status'[p] = s
        BY <1>0, <2>3, <3>2
      <4> QED BY <1>1, <1>4, <1>10, <2>3, <3>2, <4>1
    <3>3. CASE p = w[2] /\ s = "Running"
      <4>1. e \in News(p, {"live"})
        BY <2>1, <2>2, <2>3, <3>3 DEF News
      <4>2. Has(inb', TellsOf(p)) \/ sess[p].att
        BY <1>0, <4>1, LastTaken DEF Shown
      <4> QED BY <1>0, <1>1, <1>10, <2>3, <3>3, <4>2 DEF Shown, ShownInb
    <3> QED BY <3>1, <3>2, <3>3
  <2>4. CASE EndsTo(w[2], e.how)
    BY <1>7, <1>10, <2>1, <2>2, <2>4
  <2>5. CASE Asking(w[2], "Spawn", waiting \ {w}) /\ status' = [status EXCEPT ![w[2]] = "Connecting"]
    <3>1. p # w[2] => status'[p] = status[p]
      BY <1>0, <2>5
    <3> QED BY <1>6, <1>10, <2>1, <2>2, <2>5, <3>1
  <2> QED BY <1>10, <2>3, <2>4, <2>5 DEF Replied
<1>11. CASE e.what = "exited" /\ e.panel \in Panels /\ EndsTo(e.panel, e.how)
  BY <1>7, <1>11
<1>12. CASE /\ e.what = "resync" /\ e.panel \in Panels /\ UNCHANGED status
            /\ \/ status[e.panel] = "none" /\ out' = out
               \/ Asking(e.panel, "Attach", waiting)
  <2>1. CASE Asking(e.panel, "Attach", waiting)
    BY <1>6, <1>12, <2>1
  <2>2. CASE status[e.panel] = "none" /\ out' = out
    BY <1>1, <1>3, <1>4, <1>12, <2>2
  <2> QED BY <1>12, <2>1, <2>2
<1> QED BY <1>8, <1>9, <1>10, <1>11, <1>12 DEF Received

LEMMA StillTold ==
    ASSUME inb \in Seq(Event), inb' = inb \/ \E e \in Event : inb' = Append(inb, e), NEW p
    PROVE  Has(inb, TellsOf(p)) => Has(inb', TellsOf(p))
<1>1. ASSUME NEW e \in Event, inb' = Append(inb, e) PROVE Has(inb, TellsOf(p)) => Has(inb', TellsOf(p))
  BY <1>1, KindJoined
<1> QED BY <1>1

LEMMA ServeShown == ASSUME Base, NEW p \in Panels, Shown(p), Serve PROVE Shown(p)'
<1>1. PICK r \in Request : Served(r)
  BY ServeFacts
<1>2. /\ r = Head(out) /\ out # <<>> /\ out' = Tail(out) /\ UNCHANGED <<status, up>>
      /\ out \in Seq(Request) /\ inb \in Seq(Event) /\ sess \in [Panels -> Session]
  BY <1>1 DEF Served, Serve, Base, TypeOK
<1>3. CASE r.what = "Close"
  BY <1>1, <1>3 DEF Served, Shown
<1>4. CASE r.what # "Close" /\ (r.panel # p \/ r.what = "List")
  <2>1. UNCHANGED quit /\ sess'[p] = sess[p]
    BY <1>1, <1>2, <1>4 DEF Served
  <2>2. inb' = inb \/ \E e \in Event : inb' = Append(inb, e) /\ (e.panel # p \/ e.how = "list")
    BY <1>1, <1>4 DEF Served
  <2>3. ShownOut(p, out, out') /\ ShownInb(p, inb, inb')
    BY <1>2, <1>4, <2>2, ShownQueues
  <2>4. Has(inb, TellsOf(p)) => Has(inb', TellsOf(p))
    BY <1>2, <2>2, StillTold
  <2> QED BY <1>2, <2>1, <2>3, <2>4, ShownKept
<1>5. ~LastIs(out, Takes(p), Asks(p)) =>
          ~LastIs(out', Takes(p), Asks(p)) /\ (r \in Takes(p) => Has(out', Asks(p)))
  BY <1>2, LastTaken
<1>6. CASE r.what \in {"Spawn", "Attach"} /\ r.panel = p
  <2>1. PICK e \in Event : /\ inb' = Append(inb, e) /\ e.what = "reply" /\ e.panel = p
                           /\ e.how \in {"live", "error", Found(sess[p])}
                           /\ e.how = "live" => sess'[p].att
    <3>1. CASE r.what = "Spawn"
      BY <1>1, <1>2, <1>6, <3>1 DEF Served
    <3>2. CASE r.what = "Attach"
      <4>1. /\ sess' = [sess EXCEPT ![p].att = (sess[p].st = "live")]
            /\ \E e \in Event : inb' = Append(inb, e) /\ e.what = "reply" /\ e.panel = p /\ e.how = Found(sess[p])
        BY <1>1, <1>6, <3>2 DEF Served
      <4>2. Found(sess[p]) = "live" => sess[p].st = "live"
        BY <1>2 DEF Found, Session
      <4>3. sess'[p].att = (sess[p].st = "live")
        BY <1>2, <4>1 DEF Session
      <4> QED BY <4>1, <4>2, <4>3
    <3> QED BY <1>6, <3>1, <3>2
  <2>2. UNCHANGED quit
    BY <1>1, <1>6 DEF Served
  <2>3. e.how # "list"
    BY <1>2, <2>1 DEF Found, Session
  <2>4. e \in Replies(p) /\ e \in TellsOf(p) /\ e \notin News(p, {"user"})
    BY <2>1, <2>3 DEF Replies, TellsOf, News, Event
  <2>5. /\ ~LastIs(inb', News(p, {"user"}), Replies(p)) /\ Has(inb', TellsOf(p))
        /\ e.how # "live" => ~LastIs(inb', News(p, {"live"}), TellsOf(p))
    <3>1. e.how # "live" => e \notin News(p, {"live"})
      BY DEF News
    <3> QED BY <1>2, <2>1, <2>4, <3>1, KindsJoined, LastJoined
  <2> QED BY <1>2, <1>5, <2>1, <2>2, <2>5 DEF Shown
<1>7. CASE r.what \in {"Kill", "Forget"} /\ r.panel = p
  <2>1. r \in Takes(p)
    BY <1>7 DEF Takes, Reqs
  <2>2. /\ UNCHANGED quit
        /\ \/ inb' = inb /\ ~sess[p].att
           \/ inb' = inb /\ sess' = sess
           \/ \E e \in Event : inb' = Append(inb, e) /\ e.what = "exited" /\ e.how = "user" /\ e.panel = p
    <3>1. CASE r.what = "Kill"
      BY <1>1, <1>7, <3>1 DEF Served
    <3>2. CASE r.what = "Forget"
      <4>1. sess[p].st = "exited" => ~sess[p].att
        BY <1>2 DEF Session
      <4> QED BY <1>1, <1>7, <3>2, <4>1 DEF Served
    <3> QED BY <1>7, <3>1, <3>2
  <2>3. status[p] # "none" /\ quit = "no" => ~LastIs(out', Takes(p), Asks(p)) /\ Has(out', Asks(p))
    BY <1>5, <2>1 DEF Shown
  <2>4. quit = "no" /\ LastIs(inb', News(p, {"live"}), TellsOf(p)) => sess'[p].att
    <3>1. CASE inb' = inb /\ ~sess[p].att
      BY <3>1 DEF Shown
    <3>2. CASE inb' = inb /\ sess' = sess
      BY <3>2 DEF Shown
    <3>3. ASSUME NEW e \in Event, inb' = Append(inb, e), e.how = "user", e.panel = p
          PROVE  ~LastIs(inb', News(p, {"live"}), TellsOf(p))
      <4>1. e \in TellsOf(p) /\ e \notin News(p, {"live"})
        BY <3>3 DEF TellsOf, News
      <4> QED BY <1>2, <3>3, <4>1, LastJoined
    <3> QED BY <2>2, <3>1, <3>2, <3>3
  <2>5. status[p] = "Running" => status[p] # "none"
    OBVIOUS
  <2> QED BY <1>2, <2>2, <2>3, <2>4 DEF Shown
<1> QED BY <1>3, <1>4, <1>6, <1>7 DEF Request

LEMMA RestShown ==
    ASSUME Base, NEW p \in Panels, Shown(p),
           \/ \E q \in Panels : Overflows(q) \/ \E how \in Exits : ShellExits(q, how)
           \/ PollDirectories \/ Lose \/ Reconnect \/ Quit \/ GiveUp
    PROVE  Shown(p)'
<1>0. /\ out \in Seq(Request) /\ inb \in Seq(Event) /\ sess \in [Panels -> Session] /\ nextId \in Nat
      /\ status \in [Panels -> Statuses] /\ ShownOut(p, out, out) /\ ShownInb(p, inb, inb)
  BY ShownQueues DEF Base, TypeOK
<1>1. ASSUME NEW q \in Panels, Overflows(q) \/ \E how \in Exits : ShellExits(q, how) PROVE Shown(p)'
  <2>1. UNCHANGED <<status, quit, out, up>>
    BY <1>1, SessionFacts DEF hubVars
  <2>2. CASE p # q
    <3>1. sess'[p] = sess[p]
      BY <1>1, <2>2, SessionFacts
    <3>2. inb' = inb \/ \E e \in Event : inb' = Append(inb, e) /\ e.panel # p
      BY <1>1, <2>2, SessionFacts
    <3>3. ShownInb(p, inb, inb')
      BY <1>0, <3>2, ShownQueues
    <3>4. Has(inb, TellsOf(p)) => Has(inb', TellsOf(p))
      BY <1>0, <3>2, StillTold
    <3> QED BY <1>0, <2>1, <3>1, <3>3, <3>4, ShownKept
  <2>3. CASE p = q /\ ~sess[q].att
    <3>1. inb' = inb
      BY <1>1, <2>3, SessionFacts
    <3> QED BY <1>0, <2>1, <2>3, <3>1, ShownKept
  <2>4. CASE p = q /\ sess[q].att
    <3>1. PICK e \in Event : inb' = Append(inb, e) /\ e.panel = p /\ e.how \in {"none", "clean", "failed"}
                             /\ e.what # "reply"
      BY <1>1, <2>4, SessionFacts
    <3>2. /\ e \in TellsOf(p) /\ e \notin News(p, {"user"}) /\ e \notin News(p, {"live"})
      BY <3>1 DEF TellsOf, News
    <3>3. /\ ~LastIs(inb, News(p, {"user"}), Replies(p)) => ~LastIs(inb', News(p, {"user"}), Replies(p))
          /\ ~LastIs(inb', News(p, {"live"}), TellsOf(p)) /\ Has(inb', TellsOf(p))
      BY <1>0, <3>1, <3>2, LastJoined, KindsJoined
    <3> QED BY <2>1, <3>3 DEF Shown
  <2> QED BY <2>2, <2>3, <2>4
<1>2. CASE PollDirectories
  <2> DEFINE m == [what |-> "List", id |-> nextId, panel |-> "none", made |-> 0]
  <2>1. m \in Request /\ m.what = "List"
    BY <1>0 DEF Request
  <2>2. out' = Append(out, m) /\ UNCHANGED <<status, sess, inb, quit, up>>
    BY <1>2 DEF PollDirectories
  <2> HIDE DEF m
  <2>3. ShownOut(p, out, out')
    BY <1>0, <2>1, <2>2, ShownQueues
  <2> QED BY <1>0, <2>2, <2>3, ShownKept
<1>3. CASE Lose
  <2>1. out' = <<>> /\ inb' = <<>> /\ ~up'
    BY <1>3 DEF Lose
  <2> QED BY <2>1, KindsEmpty DEF Shown
<1>4. CASE Reconnect
  <2>1. out' = <<>> /\ inb' = <<>>
    BY <1>4 DEF Reconnect, Base, Cut
  <2>2. status'[p] # "Running"
    BY <1>4 DEF Reconnect
  <2> QED BY <2>1, <2>2, KindsEmpty DEF Shown
<1>5. CASE Quit
  BY <1>5 DEF Quit, Shown
<1>6. CASE GiveUp
  BY <1>6 DEF GiveUp, Shown
<1> QED BY <1>1, <1>2, <1>3, <1>4, <1>5, <1>6

LEMMA NextShowing == Base /\ Numbered /\ Awaited /\ Showing /\ [Next]_vars => Showing'
<1> SUFFICES ASSUME Base, Numbered, Awaited, Showing, [Next]_vars, NEW p \in Panels PROVE Shown(p)'
  BY DEF Showing
<1>0. Shown(p)
  BY DEF Showing
<1>1. CASE UNCHANGED vars
  BY <1>0, <1>1 DEF vars, hubVars, linkVars, Shown
<1>2. CASE Receive
  BY <1>0, <1>2, ReceiveFacts, ReceiveShown
<1>3. ASSUME NEW q \in Panels, Frame(q) \/ MakeTerminal(q) \/ Kill(q) \/ Restart(q) PROVE Shown(p)'
  BY <1>0, <1>3, UserFacts, UserShown
<1> QED BY <1>0, <1>1, <1>2, <1>3, ServeShown, RestShown DEF Next

LEMMA InitShowing == Init => Showing
<1> SUFFICES ASSUME Init, NEW p \in Panels PROVE Shown(p)
  BY DEF Showing
<1> QED BY KindsEmpty DEF Init, Shown

(* The hub attaches and starts terminals again after kills, restarts, resyncs
   and lost connections: unless a List is lost with one, a view that says Running
   is attached to its session, or something about it is on its way. *)
THEOREM RunningViewsAreAttached ==
    ASSUME LossSparesLists
    PROVE  Spec => []RunningIsAttached
<1>1. Base /\ Showing => RunningIsAttached
  <2> SUFFICES ASSUME Base, Showing, NEW p \in Panels, quit = "no", up, status[p] = "Running"
               PROVE  sess[p].att \/ \E m \in Range(out) \cup Range(inb) : m.panel = p
    BY DEF RunningIsAttached
  <2>1. sess[p].att \/ Has(inb, TellsOf(p)) \/ Has(out, Asks(p)) \/ Has(out, Takes(p))
    BY DEF Showing, Shown
  <2>2. Has(inb, TellsOf(p)) => \E m \in Range(inb) : m.panel = p
    BY DEF Has, TellsOf, Range
  <2>3. Has(out, Asks(p)) \/ Has(out, Takes(p)) => \E m \in Range(out) : m.panel = p
    BY DEF Has, Asks, Takes, Reqs, Range
  <2> QED BY <2>1, <2>2, <2>3
<1>2. Base /\ Numbered /\ Awaited /\ [Next]_vars => Awaited'
  BY NextAwaited
<1> QED BY <1>1, <1>2, InitNumbered, InitAwaited, InitShowing, NextNumbered, NextShowing,
           AlwaysBase, PTL
    DEF Spec

-----------------------------------------------------------------------------
(* The end of an old terminal is never taken for that of the new one. *)

(* A queue has one of T that none of U comes before. *)
Leads(q, T, U) == \E i \in DOMAIN q : q[i] \in T /\ \A j \in DOMAIN q : j < i => q[j] \notin U

LEMMA LeadsJoined ==
    ASSUME NEW S, NEW q \in Seq(S), NEW m \in S, NEW T, NEW U
    PROVE  Leads(q, T, U) => Leads(Append(q, m), T, U)
<1> DEFINE a == Append(q, m)
           n == Len(q) + 1
<1>1. /\ \A i \in DOMAIN q : i \in DOMAIN a /\ a[i] = q[i] /\ i < n
      /\ \A i \in DOMAIN a : i \in DOMAIN q \/ i = n
      /\ DOMAIN q \subseteq Nat /\ n \in Nat
  BY JoinedPlaces
<1> HIDE DEF a, n
<1> SUFFICES ASSUME NEW i \in DOMAIN q, q[i] \in T, \A j \in DOMAIN q : j < i => q[j] \notin U
             PROVE  Leads(a, T, U)
  BY DEF Leads, a
<1>2. \A j \in DOMAIN a : j < i => a[j] \notin U
  BY <1>1
<1> QED BY <1>1, <1>2 DEF Leads

LEMMA LeadsTaken ==
    ASSUME NEW S, NEW q \in Seq(S), q # <<>>, NEW T, NEW U, Leads(q, T, U), Head(q) \notin T
    PROVE  Head(q) \notin U /\ Leads(Tail(q), T, U)
<1> DEFINE a == Tail(q)
           h == Head(q)
<1>1. /\ 1 \in DOMAIN q /\ q[1] = h
      /\ \A i \in DOMAIN a : i + 1 \in DOMAIN q /\ a[i] = q[i + 1] /\ 1 < i + 1
      /\ \A i \in DOMAIN q : i # 1 => i - 1 \in DOMAIN a /\ a[i - 1] = q[i] /\ 1 < i
      /\ DOMAIN q \subseteq Nat /\ DOMAIN a \subseteq Nat
  BY TakenPlaces
<1>2. PICK i \in DOMAIN q : q[i] \in T /\ \A j \in DOMAIN q : j < i => q[j] \notin U
  BY DEF Leads
<1>3. h \notin T
  OBVIOUS
<1> HIDE DEF a, h
<1>4. i # 1 /\ i - 1 \in DOMAIN a /\ a[i - 1] \in T /\ 1 < i /\ i \in Nat
  BY <1>1, <1>2, <1>3
<1>5. ASSUME NEW j \in DOMAIN a, j < i - 1 PROVE a[j] \notin U
  <2>1. j + 1 < i /\ j + 1 \in DOMAIN q /\ a[j] = q[j + 1]
    BY <1>1, <1>4, <1>5
  <2> QED BY <1>2, <2>1
<1>6. h \notin U
  BY <1>1, <1>2, <1>4
<1>7. Leads(a, T, U)
  BY <1>4, <1>5 DEF Leads
<1> QED BY <1>6, <1>7 DEF a, h

LEMMA LeadsFree == \A q, T, U : Has(q, T) /\ ~Has(q, U) => Leads(q, T, U)
BY DEF Has, Leads

LEMMA LeadsHas == \A q, T, U : Leads(q, T, U) => Has(q, T)
BY DEF Has, Leads

(* What Close tells comes after the news there is, and is of no kind T. *)
LEMMA KindsAdded ==
    ASSUME NEW S, NEW q \in Seq(S), NEW s \in Seq(S), NEW T, NEW U, \A i \in DOMAIN s : s[i] \notin U
    PROVE  /\ Has(q \o s, U) => Has(q, U)
           /\ Before(q \o s, T, U) => Before(q, T, U)
<1> DEFINE a == q \o s
<1>1. /\ DOMAIN q \subseteq Nat /\ \A i \in DOMAIN q : a[i] = q[i]
      /\ \A i \in DOMAIN a : i \in DOMAIN q \/ (i - Len(q) \in DOMAIN s /\ a[i] = s[i - Len(q)])
      /\ \A i \in DOMAIN a, j \in DOMAIN q : i < j => i \in DOMAIN q
  OBVIOUS
<1> HIDE DEF a
<1>2. \A i \in DOMAIN a : a[i] \in U => i \in DOMAIN q
  BY <1>1
<1>3. Has(a, U) => Has(q, U)
  BY <1>1, <1>2 DEF Has
<1>4. Before(a, T, U) => Before(q, T, U)
  BY <1>1, <1>2 DEF Before
<1> QED BY <1>3, <1>4 DEF a

(* Of the terminal number n of panel p: older ones' Spawns and news. *)
OldSpawns(p, n) == {r \in Reqs(p, {"Spawn"}) : r.made # n}
OldNews(p, hows, n) == {e \in News(p, hows) : e.made # n}
Kills(p) == Reqs(p, {"Kill"})
Ended(p) == Reqs(p, {"Kill", "Forget"})
Closes == {r \in Request : r.what = "Close"}

(* The session of an older terminal, or a Spawn of one, has a Kill or, once it
   has ended, a Forget behind it, before anything could find it ended ... *)
Replaced(p) ==
    /\ sess[p].st = "live" /\ sess[p].made # made[p] => Has(out, Kills(p))
    /\ sess[p].st = "exited" /\ sess[p].made # made[p] => Leads(out, Ended(p), Reqs(p, {"Attach"}))
    /\ Has(out, OldSpawns(p, made[p])) => LastIs(out, Kills(p), OldSpawns(p, made[p]))
    /\ ~typed[p] /\ sess[p].st = "exited" => Has(out, Ended(p))

(* ... and the only news of one's end is of that Kill, which is expected. *)
Expected(p) ==
    /\ ~Has(inb, OldNews(p, {"clean", "failed"}, made[p]))
    /\ ~Before(inb, News(p, {"user"}), OldNews(p, {"user"}, made[p]))
    /\ Has(inb, OldNews(p, {"user"}, made[p])) => p \in killed
    /\ Once(out, Kills(p)) /\ ~Before(out, Closes, Kills(p))
    /\ Has(out, Kills(p)) => p \in killed /\ ~Has(inb, News(p, {"user"}))

(* Nothing that ends p's terminal was lost. *)
Heard(p) == <<"Kill", p>> \notin lost /\ <<"Forget", p>> \notin lost

Succession == \A p \in Panels \ mixed : Heard(p) => Replaced(p) /\ Expected(p)

(* What of the queues Succession depends on. *)
OutOld(p, n, q, r) ==
    /\ Has(r, Kills(p)) <=> Has(q, Kills(p))
    /\ Leads(q, Ended(p), Reqs(p, {"Attach"})) => Leads(r, Ended(p), Reqs(p, {"Attach"}))
    /\ Has(r, OldSpawns(p, n)) => Has(q, OldSpawns(p, n))
    /\ LastIs(q, Kills(p), OldSpawns(p, n)) \/ ~Has(q, OldSpawns(p, n))
         => LastIs(r, Kills(p), OldSpawns(p, n)) \/ ~Has(r, OldSpawns(p, n))
    /\ Has(q, Ended(p)) => Has(r, Ended(p))
    /\ Once(q, Kills(p)) => Once(r, Kills(p))
    /\ Before(r, Closes, Kills(p)) => Before(q, Closes, Kills(p))
InbOld(p, n, b, c) ==
    /\ Has(c, OldNews(p, {"clean", "failed"}, n)) => Has(b, OldNews(p, {"clean", "failed"}, n))
    /\ Before(c, News(p, {"user"}), OldNews(p, {"user"}, n))
         => Before(b, News(p, {"user"}), OldNews(p, {"user"}, n))
    /\ Has(c, OldNews(p, {"user"}, n)) => Has(b, OldNews(p, {"user"}, n))
    /\ Has(c, News(p, {"user"})) => Has(b, News(p, {"user"}))

LEMMA OldSame == \A p, n, q, b : OutOld(p, n, q, q) /\ InbOld(p, n, b, b)
BY DEF OutOld, InbOld

LEMMA OldOutJoined ==
    ASSUME NEW p, NEW n, NEW q \in Seq(Request), NEW m \in Request,
           m \notin Kills(p), m \notin OldSpawns(p, n)
    PROVE  OutOld(p, n, q, Append(q, m)) /\ Append(q, m) \in Seq(Request)
<1>1. /\ Has(Append(q, m), Kills(p)) <=> Has(q, Kills(p))
      /\ Once(q, Kills(p)) => Once(Append(q, m), Kills(p))
      /\ LastIs(q, Kills(p), OldSpawns(p, n)) => LastIs(Append(q, m), Kills(p), OldSpawns(p, n))
  BY KindsJoined
<1>2. /\ Has(Append(q, m), OldSpawns(p, n)) <=> Has(q, OldSpawns(p, n))
      /\ Has(q, Ended(p)) => Has(Append(q, m), Ended(p))
  BY KindJoined
<1>3. ~Before(q, Closes, Kills(p)) => ~Before(Append(q, m), Closes, Kills(p))
  BY KindsJoined
<1> QED BY <1>1, <1>2, <1>3, LeadsJoined, JoinedPlaces DEF OutOld

LEMMA OldOutTaken ==
    ASSUME NEW p, NEW n, NEW q \in Seq(Request), q # <<>>, Head(q) \notin Ended(p)
    PROVE  OutOld(p, n, q, Tail(q))
<1>1. Head(q) \notin Kills(p)
  BY DEF Kills, Ended, Reqs
<1>2. /\ Has(Tail(q), Kills(p)) <=> Has(q, Kills(p))
      /\ Once(q, Kills(p)) => Once(Tail(q), Kills(p))
      /\ LastIs(q, Kills(p), OldSpawns(p, n)) => LastIs(Tail(q), Kills(p), OldSpawns(p, n))
  BY <1>1, KindsTaken
<1>3. /\ Has(Tail(q), OldSpawns(p, n)) => Has(q, OldSpawns(p, n))
      /\ Has(q, Ended(p)) => Has(Tail(q), Ended(p))
      /\ ~Before(q, Closes, Kills(p)) => ~Before(Tail(q), Closes, Kills(p))
  BY KindsTaken
<1> QED BY <1>2, <1>3, LeadsTaken DEF OutOld

LEMMA OldInbJoined ==
    ASSUME NEW p, NEW n, NEW b \in Seq(Event), NEW e \in Event,
           e \notin News(p, {"user"}), e \notin OldNews(p, {"clean", "failed"}, n)
    PROVE  InbOld(p, n, b, Append(b, e))
<1>1. e \notin OldNews(p, {"user"}, n)
  BY DEF OldNews
<1>2. /\ Has(Append(b, e), OldNews(p, {"clean", "failed"}, n)) <=> Has(b, OldNews(p, {"clean", "failed"}, n))
      /\ Has(Append(b, e), OldNews(p, {"user"}, n)) <=> Has(b, OldNews(p, {"user"}, n))
      /\ Has(Append(b, e), News(p, {"user"})) <=> Has(b, News(p, {"user"}))
  BY <1>1, KindJoined
<1>3. ~Before(b, News(p, {"user"}), OldNews(p, {"user"}, n))
        => ~Before(Append(b, e), News(p, {"user"}), OldNews(p, {"user"}, n))
  BY <1>1, KindsJoined
<1> QED BY <1>2, <1>3 DEF InbOld

LEMMA OldInbTaken == ASSUME NEW p, NEW n, NEW b \in Seq(Event), b # <<>> PROVE InbOld(p, n, b, Tail(b))
<1>1. /\ Has(Tail(b), OldNews(p, {"clean", "failed"}, n)) => Has(b, OldNews(p, {"clean", "failed"}, n))
      /\ Has(Tail(b), OldNews(p, {"user"}, n)) => Has(b, OldNews(p, {"user"}, n))
      /\ Has(Tail(b), News(p, {"user"})) => Has(b, News(p, {"user"}))
  BY KindsTaken
<1>2. ~Before(b, News(p, {"user"}), OldNews(p, {"user"}, n))
        => ~Before(Tail(b), News(p, {"user"}), OldNews(p, {"user"}, n))
  BY KindsTaken
<1> QED BY <1>1, <1>2 DEF InbOld

LEMMA OldKept ==
    ASSUME NEW p \in Panels, Replaced(p), Expected(p), made'[p] = made[p],
           OutOld(p, made[p], out, out'), InbOld(p, made[p], inb, inb')
    PROVE  /\ /\ \/ sess'[p].st = sess[p].st /\ sess'[p].made = sess[p].made
                 \/ sess'[p].st = "none"
              /\ typed[p] => typed'[p]
              => Replaced(p)'
           /\ (p \in killed => p \in killed') => Expected(p)'
<1>1. (p \in killed => p \in killed') => Expected(p)'
  BY DEF Expected, OutOld, InbOld
<1>2. ASSUME \/ sess'[p].st = sess[p].st /\ sess'[p].made = sess[p].made
             \/ sess'[p].st = "none",
             typed[p] => typed'[p]
      PROVE  Replaced(p)'
  BY <1>2 DEF Replaced, OutOld
<1> QED BY <1>1, <1>2

LEMMA NotOld ==
    ASSUME TypeOK, NEW p \in Panels, NEW q \in Panels
    PROVE  /\ \A what \in {"Attach", "Spawn", "Forget"} :
                 Asked(what, q) \notin Kills(p) /\ Asked(what, q) \notin OldSpawns(p, made[p])
           /\ \A what \in {"Attach", "Forget", "Kill"} : About(what, q) \notin OldSpawns(p, made[p])
           /\ \A what \in {"Attach", "Forget"} : About(what, q) \notin Kills(p)
           /\ q # p => About("Kill", q) \notin Kills(p)
BY Requests DEF Kills, OldSpawns, Reqs

(* Of a panel that is ended with neither an end nor an exit on its way, whatever was before. *)
LEMMA KillOld ==
    ASSUME Base, Closing, NEW p \in Panels, UserActs(p), Killing(p), p \notin mixed', Heard(p)'
    PROVE  Replaced(p)' /\ Expected(p)'
<1>1. /\ TypeOK /\ out \in Seq(Request) /\ UNCHANGED <<quit, sess, inb, made>> /\ p \in killed'
      /\ quit = "no" /\ EndAsked(p) /\ out' = (IF up THEN Append(out, About("Kill", p)) ELSE out)
  BY DEF Base, TypeOK, UserActs, Killing
<1>2. NoEndNews(p) /\ NoExitNews(p) /\ up
  BY <1>1 DEF EndAsked, Heard
<1>3. /\ ~Has(out, Kills(p)) /\ ~Has(inb, News(p, {"user"})) /\ ~Has(inb, News(p, {"clean", "failed"}))
      /\ sess[p].st = "exited" => ~Has(out, Reqs(p, {"Attach"}))
  BY <1>1, <1>2, NoNews DEF Kills
<1> DEFINE m == About("Kill", p)
<1>4. m \in Request /\ m \in Kills(p) /\ m \in Ended(p) /\ m \notin OldSpawns(p, made[p])
  BY <1>1, Requests DEF Kills, Ended, OldSpawns, Reqs
<1>5. m \notin Reqs(p, {"Attach"}) /\ out' = Append(out, m)
  BY <1>1, <1>2, Requests DEF Reqs
<1> HIDE DEF m
<1>6. Has(out', Kills(p)) /\ Has(out', Ended(p)) /\ LastIs(out', Kills(p), OldSpawns(p, made[p]))
  BY <1>1, <1>4, <1>5, KindJoined, KindsJoined
<1>7. Once(out', Kills(p))
  <2>1. Once(out, Kills(p))
    BY <1>3 DEF Has, Once
  <2> QED BY <1>1, <1>3, <1>4, <1>5, <2>1, KindsJoined
<1>8. ~Before(out', Closes, Kills(p))
  <2>1. ~Has(out, Closes)
    BY <1>1 DEF Closing, Free, Has, Closes
  <2>2. ~Before(out, Closes, Kills(p))
    BY <2>1 DEF Has, Before
  <2> QED BY <1>1, <1>4, <1>5, <2>1, <2>2, KindsJoined
<1>9. sess[p].st = "exited" => Leads(out', Ended(p), Reqs(p, {"Attach"}))
  <2>1. ~Has(out, Reqs(p, {"Attach"})) => ~Has(out', Reqs(p, {"Attach"}))
    BY <1>1, <1>4, <1>5, KindJoined
  <2> QED BY <1>3, <1>6, <2>1, LeadsFree
<1>10. Replaced(p)'
  BY <1>1, <1>6, <1>9 DEF Replaced
<1>11. /\ ~Has(inb', OldNews(p, {"clean", "failed"}, made[p])) /\ ~Has(inb', OldNews(p, {"user"}, made[p]))
       /\ ~Before(inb', News(p, {"user"}), OldNews(p, {"user"}, made[p])) /\ ~Has(inb', News(p, {"user"}))
  BY <1>1, <1>3 DEF Has, Before, OldNews
<1>12. Expected(p)'
  BY <1>1, <1>7, <1>8, <1>11 DEF Expected
<1> QED BY <1>10, <1>12

LEMMA UserOld ==
    ASSUME Base, Closing, Ending, Succession, NEW q \in Panels, UserActs(q)
    PROVE  Succession'
<1> SUFFICES ASSUME NEW p \in Panels, p \notin mixed', Heard(p)', ~(p = q /\ Killing(q))
             PROVE  Replaced(p)' /\ Expected(p)'
  BY KillOld DEF Succession
<1>8. /\ p \notin mixed /\ Heard(p) /\ ~Gone(p) /\ EndOf(p) /\ Replaced(p) /\ Expected(p)
      /\ p = q /\ Mixing(q, NoExitNews(q)) => NoExitNews(q)
  <2>1. p \notin mixed /\ Heard(p) /\ (p = q /\ Mixing(q, NoExitNews(q)) => NoExitNews(q))
    BY DEF UserActs, Killing, Mixing, EndAsked, Heard, past
  <2> QED BY <2>1 DEF Ending, Succession, Heard, Gone
<1>0. /\ TypeOK /\ Replaced(p) /\ Expected(p) /\ EndOf(p) /\ out \in Seq(Request)
      /\ UNCHANGED <<quit, sess, inb>> /\ typed \in [Panels -> BOOLEAN] /\ made \in [Panels -> Nat]
      /\ OutOld(p, made[p], out, out) /\ InbOld(p, made[p], inb, inb)
  BY <1>8, OldSame DEF Base, TypeOK, UserActs
<1>1. \A what \in {"Attach", "Spawn", "Kill", "Forget"} :
         About(what, q) \in Request /\ Asked(what, q) \in Request
  BY <1>0, Requests
<1>2. CASE OutOld(p, made[p], out, out') /\ UNCHANGED <<typed, made, killed>>
  BY <1>0, <1>2, OldKept
<1>3. CASE Asking(q, "Attach", waiting) /\ UNCHANGED <<typed, made, killed>>
  <2>1. OutOld(p, made[p], out, out')
    BY <1>0, <1>1, <1>3, NotOld, OldOutJoined DEF Asking
  <2> QED BY <1>2, <1>3, <2>1
<1>4. CASE out' = out /\ UNCHANGED <<typed, made, killed>>
  BY <1>0, <1>2, <1>4
<1>5. CASE /\ quit = "no" /\ ~typed[q] /\ typed' = [typed EXCEPT ![q] = TRUE]
           /\ made' = [made EXCEPT ![q] = @ + 1] /\ Mixing(q, NoExitNews(q)) /\ UNCHANGED <<killed, out>>
  <2>1. CASE p # q
    <3>1. made'[p] = made[p] /\ typed'[p] = typed[p] /\ OutOld(p, made[p], out, out')
      BY <1>0, <1>5, <2>1
    <3> QED BY <1>0, <1>5, <3>1, OldKept
  <2>2. CASE p = q
    <3>1. /\ ~Has(inb, News(p, {"clean", "failed"})) /\ typed'[p] /\ Settled(p) /\ EndsOnce(p)
          /\ sess[p].st = "exited" => ~Has(out, Reqs(p, {"Attach"}))
      BY <1>0, <1>5, <1>8, <2>2, NoNews DEF EndOf
    <3>2. /\ sess[p].st = "live" => Has(out, Kills(p))
          /\ Has(out, OldSpawns(p, made'[p])) => LastIs(out, Kills(p), OldSpawns(p, made'[p]))
      BY <3>1 DEF Settled, LastIs, Has, OldSpawns, Kills
    <3>3. sess[p].st = "exited" => Leads(out, Ended(p), Reqs(p, {"Attach"}))
      BY <1>0, <1>5, <2>2, <3>1, LeadsFree DEF Replaced
    <3>4. Replaced(p)'
      BY <1>0, <1>5, <3>1, <3>2, <3>3 DEF Replaced
    <3>5. ~Has(inb, OldNews(p, {"clean", "failed"}, made'[p]))
      BY <3>1 DEF Has, OldNews
    <3>6. /\ ~Before(inb, News(p, {"user"}), OldNews(p, {"user"}, made'[p]))
          /\ Has(inb, OldNews(p, {"user"}, made'[p])) => p \in killed
      <4>1. Once(inb, News(p, {"user"})) /\ (Has(inb, News(p, {"user"})) => p \in killed)
        BY <3>1 DEF EndsOnce
      <4>2. \A i, j \in DOMAIN inb : i < j => i # j
        BY <1>0 DEF TypeOK
      <4> QED BY <4>1, <4>2 DEF Has, Once, Before, OldNews
    <3>7. Expected(p)'
      BY <1>0, <1>5, <3>5, <3>6 DEF Expected
    <3> QED BY <3>4, <3>7
  <2> QED BY <2>1, <2>2
<1>6. CASE Killing(q)
  <2>1. p # q
    BY <1>6
  <2>2. OutOld(p, made[p], out, out')
    BY <1>0, <1>1, <1>6, <2>1, NotOld, OldOutJoined DEF Killing
  <2>3. made'[p] = made[p] /\ (typed[p] => typed'[p]) /\ (p \in killed => p \in killed')
    BY <1>0, <1>6, <2>1 DEF Killing
  <2> QED BY <1>0, <2>2, <2>3, OldKept
<1>7. CASE /\ out' = Append(Append(out, About("Forget", q)), Asked("Spawn", q))
           /\ UNCHANGED <<typed, made, killed>>
  <2> DEFINE o == Append(out, About("Forget", q))
  <2>1. OutOld(p, made[p], out, o) /\ o \in Seq(Request)
    BY <1>0, <1>1, NotOld, OldOutJoined
  <2>2. OutOld(p, made[p], o, out')
    BY <1>0, <1>1, <1>7, <2>1, NotOld, OldOutJoined
  <2>3. OutOld(p, made[p], out, out')
    BY <2>1, <2>2 DEF OutOld
  <2> QED BY <1>2, <1>7, <2>3
<1> QED BY <1>3, <1>4, <1>5, <1>6, <1>7 DEF UserActs

LEMMA ReceiveOld ==
    ASSUME Base, Succession, NEW e \in Event, Received(e), UNCHANGED past
    PROVE  Succession'
<1> SUFFICES ASSUME NEW p \in Panels \ mixed, Heard(p) PROVE Replaced(p)' /\ Expected(p)'
  BY DEF Succession, Heard, past
<1>0. /\ TypeOK /\ Replaced(p) /\ Expected(p) /\ out \in Seq(Request) /\ inb \in Seq(Event)
      /\ UNCHANGED <<sess, made>> /\ typed \in [Panels -> BOOLEAN]
      /\ inb # <<>> /\ e = Head(inb) /\ inb' = Tail(inb) /\ OutOld(p, made[p], out, out)
  BY OldSame DEF Base, TypeOK, Succession, Received
<1>1. InbOld(p, made[p], inb, inb')
  BY <1>0, OldInbTaken
<1>2. \A q \in Panels, what \in {"Attach", "Spawn", "Kill", "Forget"} :
         About(what, q) \in Request /\ Asked(what, q) \in Request
  BY <1>0, Requests
<1>3. CASE OutOld(p, made[p], out, out') /\ UNCHANGED <<typed, killed>>
  BY <1>0, <1>1, <1>3, OldKept
<1>4. CASE UNCHANGED <<typed, killed, out>>
  BY <1>0, <1>3, <1>4
<1>5. ASSUME NEW q \in Panels, NEW kind \in {"Attach", "Spawn"}, NEW old, Asking(q, kind, old),
             UNCHANGED <<typed, killed>>
      PROVE  Replaced(p)' /\ Expected(p)'
  <2>1. OutOld(p, made[p], out, out')
    BY <1>0, <1>2, <1>5, NotOld, OldOutJoined DEF Asking
  <2> QED BY <1>3, <1>5, <2>1
<1>6. ASSUME NEW q \in Panels, EndsTo(q, e.how), killed' = killed
      PROVE  Replaced(p)' /\ Expected(p)'
  <2>1. CASE UNCHANGED <<typed, out>>
    BY <1>4, <1>6, <2>1
  <2>2. CASE /\ out' = Append(out, About("Forget", q))
             /\ typed' = IF quit = "done" THEN typed ELSE [typed EXCEPT ![q] = FALSE]
    <3>1. OutOld(p, made[p], out, out')
      BY <1>0, <1>2, <2>2, NotOld, OldOutJoined
    <3>2. CASE p # q
      <4>1. typed'[p] = typed[p]
        BY <1>0, <2>2, <3>2
      <4> QED BY <1>0, <1>1, <1>6, <3>1, <4>1, OldKept
    <3>3. CASE p = q
      <4> DEFINE m == About("Forget", q)
      <4>1. m \in Request /\ m \in Ended(p) /\ out' = Append(out, m)
        BY <1>0, <1>2, <2>2, <3>3, Requests DEF Ended, Reqs
      <4> HIDE DEF m
      <4>2. Has(out', Ended(p))
        BY <1>0, <4>1, KindJoined
      <4>3. Replaced(p)'
        BY <1>0, <3>1, <4>2 DEF Replaced, OutOld
      <4> QED BY <1>0, <1>1, <1>6, <3>1, <4>3, OldKept
    <3> QED BY <3>2, <3>3
  <2> QED BY <1>6, <2>1, <2>2 DEF EndsTo
<1>7. CASE /\ e.what = "exited" /\ e.how = "user" /\ e.panel \in killed
           /\ killed' = killed \ {e.panel} /\ UNCHANGED <<typed, out>>
  <2>1. Replaced(p)'
    BY <1>0, <1>1, <1>7, OldKept
  <2>2. CASE p # e.panel
    BY <1>0, <1>1, <1>7, <2>1, <2>2, OldKept
  <2>3. CASE p = e.panel
    <3>1. e \in News(p, {"user"})
      BY <1>7, <2>3 DEF News
    <3>2. Has(inb, News(p, {"user"})) /\ ~Has(inb', OldNews(p, {"user"}, made[p]))
      BY <1>0, <3>1, KindsTaken DEF Expected
    <3>3. Expected(p)'
      BY <1>0, <1>1, <1>7, <3>2 DEF Expected, InbOld
    <3> QED BY <2>1, <3>3
  <2> QED BY <2>2, <2>3
<1>8. ASSUME NEW w \in waiting, w[2] \in Panels, Replied(e, w), killed' = killed
      PROVE  Replaced(p)' /\ Expected(p)'
  BY <1>4, <1>5, <1>6, <1>8 DEF Replied
<1> QED BY <1>4, <1>5, <1>6, <1>7, <1>8 DEF Received

LEMMA ServeOld ==
    ASSUME Base, Succession, Serve
    PROVE  Succession'
<1> SUFFICES ASSUME NEW p \in Panels \ mixed, Heard(p) PROVE Replaced(p)' /\ Expected(p)'
  BY DEF Succession, Serve, Heard, past
<1>1. PICK r \in Request : Served(r)
  BY ServeFacts
<1>2. /\ r = Head(out) /\ out # <<>> /\ out' = Tail(out) /\ UNCHANGED <<typed, killed, made>>
      /\ out \in Seq(Request) /\ inb \in Seq(Event) /\ sess \in [Panels -> Session]
      /\ Replaced(p) /\ Expected(p) /\ NoSession.st = "none"
      /\ InbOld(p, made[p], inb, inb)
  BY <1>1, OldSame DEF Served, Serve, Base, TypeOK, Succession, NoSession
<1>3. r \notin Ended(p) => OutOld(p, made[p], out, out')
  BY <1>2, OldOutTaken
<1>4. CASE r.what = "Close"
  <2>1. sess'[p] = sess[p] \/ sess'[p].st = "none"
    BY <1>1, <1>2, <1>4 DEF Served
  <2>2. r \notin Ended(p) /\ r \notin Kills(p) /\ r \in Closes
    BY <1>4 DEF Ended, Kills, Reqs, Closes
  <2>3. ~Has(out, Kills(p))
    BY <1>2, <2>2, KindsTaken DEF Expected
  <2>4. PICK told \in Seq(Event) :
          /\ inb' = inb \o told
          /\ \A i \in DOMAIN told : /\ told[i].how = "user" /\ told[i].panel \in Panels
                                    /\ sess[told[i].panel].st = "live"
                                    /\ told[i].made = sess[told[i].panel].made
    BY <1>1, <1>4 DEF Served
  <2>5. \A i \in DOMAIN told : /\ told[i] \notin OldNews(p, {"clean", "failed"}, made[p])
                               /\ told[i] \notin OldNews(p, {"user"}, made[p])
    BY <1>2, <2>3, <2>4 DEF OldNews, News, Replaced
  <2>6. /\ Has(inb', OldNews(p, {"clean", "failed"}, made[p])) => Has(inb, OldNews(p, {"clean", "failed"}, made[p]))
        /\ Has(inb', OldNews(p, {"user"}, made[p])) => Has(inb, OldNews(p, {"user"}, made[p]))
        /\ Before(inb', News(p, {"user"}), OldNews(p, {"user"}, made[p]))
             => Before(inb, News(p, {"user"}), OldNews(p, {"user"}, made[p]))
    BY <1>2, <2>4, <2>5, KindsAdded
  <2>7. OutOld(p, made[p], out, out') /\ ~Has(out', Kills(p))
    BY <1>3, <2>2, <2>3 DEF OutOld
  <2>8. Expected(p)'
    BY <1>2, <2>6, <2>7 DEF Expected, OutOld
  <2>9. Replaced(p)'
    BY <1>2, <2>1, <2>7 DEF Replaced, OutOld
  <2> QED BY <2>8, <2>9
<1>5. CASE r.what # "Close" /\ (r.panel # p \/ r.what = "List")
  <2>1. sess'[p] = sess[p]
    BY <1>1, <1>2, <1>5 DEF Served
  <2>2. \/ inb' = inb
        \/ \E e \in Event : /\ inb' = Append(inb, e)
                            /\ e.panel # p \/ e.how = "list"
    BY <1>1, <1>2, <1>5 DEF Served
  <2>3. r \notin Ended(p)
    BY <1>5 DEF Ended, Reqs
  <2>4. ASSUME NEW e \in Event, e.panel # p \/ e.how = "list", inb' = Append(inb, e)
        PROVE  InbOld(p, made[p], inb, inb')
    BY <1>2, <2>4, OldInbJoined DEF News, OldNews
  <2>5. InbOld(p, made[p], inb, inb')
    BY <1>2, <2>2, <2>4
  <2> QED BY <1>2, <1>3, <2>1, <2>3, <2>5, OldKept
<1>6. CASE r.what = "Spawn" /\ r.panel = p
  <2>1. PICK e \in Event : inb' = Append(inb, e) /\ e.how \in {"live", "error"}
    BY <1>1, <1>6 DEF Served
  <2>2. \/ sess' = sess
        \/ sess'[p].st = "live" /\ sess'[p].made = r.made
    BY <1>1, <1>2, <1>6 DEF Served
  <2>3. InbOld(p, made[p], inb, inb') /\ r \notin Ended(p) /\ (r.made # made[p] => r \in OldSpawns(p, made[p]))
    BY <1>2, <1>6, <2>1, OldInbJoined DEF News, OldNews, Ended, OldSpawns, Reqs
  <2>4. OutOld(p, made[p], out, out') /\ (r.made # made[p] => Has(out, OldSpawns(p, made[p])))
    BY <1>2, <1>3, <2>3, KindsTaken
  <2>5. CASE sess' = sess
    BY <1>2, <2>3, <2>4, <2>5, OldKept
  <2>6. CASE sess'[p].st = "live" /\ sess'[p].made = r.made
    <3>1. r.made # made[p] => Has(out, Kills(p))
      BY <1>2, <2>4 DEF Replaced, LastIs, Has
    <3>2. Replaced(p)'
      BY <1>2, <2>4, <2>6, <3>1 DEF Replaced, OutOld
    <3>3. Expected(p)'
      BY <1>2, <2>3, <2>4, OldKept
    <3> QED BY <3>2, <3>3
  <2> QED BY <2>2, <2>5, <2>6
<1>7. CASE r.what = "Attach" /\ r.panel = p
  <2>1. sess' = [sess EXCEPT ![p].att = (sess[p].st = "live")]
    BY <1>1, <1>7 DEF Served
  <2>2. sess'[p].st = sess[p].st /\ sess'[p].made = sess[p].made
    BY <1>2, <2>1 DEF Session
  <2>3. PICK e \in Event : /\ inb' = Append(inb, e) /\ e.panel = p /\ e.how = Found(sess[p])
                           /\ e.made = sess[p].made
    BY <1>1, <1>7 DEF Served
  <2>4. r \notin Ended(p) /\ r \in Reqs(p, {"Attach"})
    BY <1>7 DEF Ended, Reqs
  <2>5. sess[p].st = "exited" => sess[p].made = made[p]
    BY <1>2, <2>4, LeadsTaken DEF Replaced
  <2>6. sess[p].st = "exited" \/ e.how \in {"live", "nosuch"}
    BY <1>2, <2>3 DEF Found, Session
  <2>7. e.how # "user"
    BY <1>2, <2>3, <2>6 DEF Found, Session
  <2>8. InbOld(p, made[p], inb, inb')
    BY <1>2, <2>3, <2>5, <2>6, <2>7, OldInbJoined DEF News, OldNews
  <2> QED BY <1>2, <1>3, <2>2, <2>4, <2>8, OldKept
<1>8. CASE r.what = "Forget" /\ r.panel = p
  <2>1. inb' = inb /\ sess' = (IF sess[p].st = "exited" THEN [sess EXCEPT ![p] = NoSession] ELSE sess)
    BY <1>1, <1>8 DEF Served
  <2>2. sess'[p].st = "none" \/ (sess'[p] = sess[p] /\ sess[p].st # "exited")
    BY <1>2, <2>1
  <2>3. r \notin Kills(p)
    BY <1>8 DEF Kills, Reqs
  <2>4. /\ Has(out', Kills(p)) <=> Has(out, Kills(p))
        /\ Once(out, Kills(p)) => Once(out', Kills(p))
        /\ LastIs(out, Kills(p), OldSpawns(p, made[p])) => LastIs(out', Kills(p), OldSpawns(p, made[p]))
    BY <1>2, <2>3, KindsTaken
  <2>5. /\ Has(out', OldSpawns(p, made[p])) => Has(out, OldSpawns(p, made[p]))
        /\ ~Before(out, Closes, Kills(p)) => ~Before(out', Closes, Kills(p))
    BY <1>2, KindsTaken
  <2>6. Replaced(p)'
    BY <1>2, <2>2, <2>4, <2>5 DEF Replaced
  <2>7. Expected(p)'
    BY <1>2, <2>1, <2>4, <2>5 DEF Expected
  <2> QED BY <2>6, <2>7
<1>9. CASE r.what = "Kill" /\ r.panel = p
  <2>1. /\ sess' = [sess EXCEPT ![p] = NoSession]
        /\ \/ inb' = inb
           \/ \E e \in Event : inb' = Append(inb, e) /\ e.how = "user" /\ e.panel = p
    BY <1>1, <1>9 DEF Served
  <2>2. r \in Kills(p) /\ sess'[p].st = "none"
    BY <1>2, <1>9, <2>1 DEF Kills, Reqs
  <2>3. /\ Has(out, Kills(p)) /\ Once(out', Kills(p)) /\ ~Has(out', Kills(p))
        /\ LastIs(out, Kills(p), OldSpawns(p, made[p]))
             => LastIs(out', Kills(p), OldSpawns(p, made[p])) \/ ~Has(out', OldSpawns(p, made[p]))
    BY <1>2, <2>2, KindsTaken DEF Expected
  <2>4. /\ Has(out', OldSpawns(p, made[p])) => Has(out, OldSpawns(p, made[p]))
        /\ ~Before(out', Closes, Kills(p))
    BY <1>2, KindsTaken DEF Expected
  <2>5. Replaced(p)'
    BY <1>2, <2>2, <2>3, <2>4 DEF Replaced
  <2>6. p \in killed /\ ~Has(inb, News(p, {"user"}))
    BY <1>2, <2>3 DEF Expected
  <2>7. ASSUME NEW e \in Event, inb' = Append(inb, e), e.how = "user"
        PROVE  /\ ~Has(inb', OldNews(p, {"clean", "failed"}, made[p]))
               /\ ~Before(inb', News(p, {"user"}), OldNews(p, {"user"}, made[p]))
    <3>1. e \notin OldNews(p, {"clean", "failed"}, made[p])
      BY <2>7 DEF OldNews, News
    <3> QED BY <1>2, <2>6, <2>7, <3>1, KindJoined, KindsJoined DEF Expected
  <2>8. /\ ~Has(inb', OldNews(p, {"clean", "failed"}, made[p]))
        /\ ~Before(inb', News(p, {"user"}), OldNews(p, {"user"}, made[p]))
    BY <1>2, <2>1, <2>7 DEF Expected
  <2>9. Expected(p)'
    BY <1>2, <2>3, <2>4, <2>6, <2>8 DEF Expected
  <2> QED BY <2>5, <2>9
<1> QED BY <1>4, <1>5, <1>6, <1>7, <1>8, <1>9 DEF Request

LEMMA RestOld ==
    ASSUME Base, Ending, Succession,
           \/ \E q \in Panels : Overflows(q) \/ \E how \in Exits : ShellExits(q, how)
           \/ PollDirectories \/ Lose \/ Reconnect \/ Quit \/ GiveUp
    PROVE  Succession'
<1>8. CASE Lose /\ sess' = [p \in Panels |-> NoSession]
  <2>1. out' = <<>> /\ inb' = <<>> /\ \A p \in Panels : sess'[p].st = "none"
    BY <1>8 DEF Lose, NoSession
  <2>2. \A T, U : ~Has(<<>>, T) /\ Once(<<>>, T) /\ ~Before(<<>>, T, U)
    BY KindsEmpty
  <2> QED BY <2>1, <2>2 DEF Succession, Replaced, Expected
<1> SUFFICES ASSUME NEW p \in Panels, p \notin mixed', Heard(p)',
                    ~(Lose /\ sess' = [q \in Panels |-> NoSession])
             PROVE  Replaced(p)' /\ Expected(p)'
  BY <1>8 DEF Succession
<1>9. p \notin mixed /\ Heard(p)
  <2>1. ASSUME NEW q \in Panels, NEW how \in Exits, ShellExits(q, how) PROVE p \notin mixed /\ Heard(p)
    BY <2>1 DEF ShellExits, Mixing, Heard
  <2>2. CASE \/ \E q \in Panels : Overflows(q)
             \/ PollDirectories \/ Reconnect \/ Quit \/ GiveUp
    <3>1. past' = past
      BY <2>2 DEF Overflows, PollDirectories, Reconnect, Quit, GiveUp
    <3> QED BY <3>1 DEF past, Heard
  <2>3. CASE Lose
    BY <2>3 DEF Lose, Heard
  <2> QED BY <2>1, <2>2, <2>3
<1>10. EndOf(p) /\ ~Gone(p) /\ Replaced(p) /\ Expected(p)
  BY <1>9 DEF Ending, Succession, Heard, Gone
<1>0. /\ TypeOK /\ Replaced(p) /\ Expected(p) /\ EndOf(p) /\ out \in Seq(Request) /\ inb \in Seq(Event)
      /\ sess \in [Panels -> Session]
      /\ OutOld(p, made[p], out, out) /\ InbOld(p, made[p], inb, inb)
  BY <1>10, OldSame DEF Base, TypeOK
<1>1. ASSUME NEW q \in Panels, Overflows(q) \/ \E how \in Exits : ShellExits(q, how)
      PROVE  Replaced(p)' /\ Expected(p)'
  <2>1. UNCHANGED <<typed, made, killed, out>> /\ sess[q].st = "live" /\ sess'[q].made = sess[q].made
    BY <1>1, SessionFacts DEF hubVars
  <2>2. CASE p # q \/ sess' = sess
    <3>1. sess'[p] = sess[p]
      BY <1>1, <2>2, SessionFacts
    <3>2. inb' = inb \/ \E e \in Event : inb' = Append(inb, e) /\ (e.panel # p \/ e.how = "none")
      <4>1. CASE p # q
        BY <1>1, <4>1, SessionFacts
      <4>2. CASE sess' = sess
        <5>1. sess[q].st = "live" /\ (sess'[q].st = "exited" => sess' # sess)
          BY <1>1, SessionFacts
        <5> QED BY <1>1, <4>2, <5>1, SessionFacts
      <4> QED BY <2>2, <4>1, <4>2
    <3>3. ASSUME NEW e \in Event, inb' = Append(inb, e), e.panel # p \/ e.how = "none"
          PROVE  InbOld(p, made[p], inb, inb')
      BY <1>0, <3>3, OldInbJoined DEF News, OldNews
    <3>4. InbOld(p, made[p], inb, inb')
      BY <1>0, <3>2, <3>3
    <3> QED BY <1>0, <2>1, <3>1, <3>4, OldKept
  <2>3. CASE p = q /\ sess' # sess
    <3>1. sess'[p].st = "exited" /\ \E how \in Exits : ShellExits(p, how)
      BY <1>1, <2>3, SessionFacts
    <3>2. ~Has(out, Kills(p))
      <4>1. PICK how \in Exits : ShellExits(p, how)
        BY <3>1
      <4>2. ~OnItsWay("Kill", p)
        BY <4>1 DEF ShellExits, Mixing
      <4> QED BY <1>0, <4>2, OnItsWayHas DEF Kills
    <3>3. sess[p].made = made[p]
      BY <1>0, <2>1, <2>3, <3>2 DEF Replaced
    <3>4. typed[p]
      BY <1>0, <1>10, <2>1, <2>3, <3>2 DEF EndOf, Settled, LastIs, Has, Kills
    <3>5. \/ inb' = inb
          \/ \E e \in Event : inb' = Append(inb, e) /\ e.how \in {"clean", "failed"} /\ e.made = made[p]
      BY <1>1, <2>3, <3>1, <3>3, SessionFacts
    <3>6. ASSUME NEW e \in Event, inb' = Append(inb, e), e.how \in {"clean", "failed"}, e.made = made[p]
          PROVE  InbOld(p, made[p], inb, inb')
      BY <1>0, <3>6, OldInbJoined DEF News, OldNews
    <3>7. InbOld(p, made[p], inb, inb')
      BY <1>0, <3>5, <3>6
    <3>8. Expected(p)'
      BY <1>0, <2>1, <3>7, OldKept
    <3>9. Replaced(p)'
      BY <1>0, <2>1, <2>3, <3>1, <3>3, <3>4 DEF Replaced
    <3> QED BY <3>8, <3>9
  <2> QED BY <2>2, <2>3
<1>2. ASSUME NEW m \in Request, out' = Append(out, m), m.what \in {"List", "Close"},
             UNCHANGED <<typed, made, killed, sess, inb>>
      PROVE  Replaced(p)' /\ Expected(p)'
  <2>1. OutOld(p, made[p], out, out')
    BY <1>0, <1>2, OldOutJoined DEF Kills, OldSpawns, Reqs
  <2> QED BY <1>0, <1>2, <2>1, OldKept
<1>3. CASE PollDirectories
  <2> DEFINE m == [what |-> "List", id |-> nextId, panel |-> "none", made |-> 0]
  <2>1. m \in Request /\ m.what = "List"
    BY <1>0 DEF Request, TypeOK
  <2>2. out' = Append(out, m) /\ UNCHANGED <<typed, made, killed, sess, inb>>
    BY <1>3 DEF PollDirectories
  <2> HIDE DEF m
  <2> QED BY <1>2, <2>1, <2>2
<1>4. CASE Lose
  <2>1. ~Has(out, Kills(p)) /\ ~Has(out, Ended(p))
    <3>1. ~OnItsWay("Kill", p) /\ ~OnItsWay("Forget", p)
      BY <1>4 DEF Lose, Heard
    <3> QED BY <1>0, <3>1 DEF OnItsWay, Range, Has, Kills, Ended, Reqs
  <2>2. /\ sess[p].st # "none" => sess[p].made = made[p] /\ (sess[p].st = "exited" => typed[p])
    BY <1>0, <2>1, LeadsHas DEF Replaced, Session
  <2>3. /\ out' = <<>> /\ inb' = <<>> /\ UNCHANGED <<typed, made, killed>>
        /\ sess'[p].st = "none" \/ (sess'[p].st = sess[p].st /\ sess'[p].made = sess[p].made)
    BY <1>0, <1>4 DEF Lose, NoSession, Session
  <2>4. \A T, U : ~Has(<<>>, T) /\ Once(<<>>, T) /\ ~Before(<<>>, T, U)
    BY KindsEmpty
  <2>5. Replaced(p)' /\ Expected(p)'
    BY <2>2, <2>3, <2>4 DEF Replaced, Expected
  <2> QED BY <2>5
<1>5. CASE Reconnect \/ GiveUp
  <2>1. UNCHANGED <<typed, made, killed, out, inb, sess>>
    BY <1>5 DEF Reconnect, GiveUp, linkVars
  <2> QED BY <1>0, <2>1, OldKept
<1>6. CASE Quit
  <2> DEFINE m == [what |-> "Close", id |-> NoId, panel |-> "none", made |-> 0]
  <2>1. m \in Request /\ m.what = "Close"
    BY DEF NoId, Request
  <2>2. out' = out \/ out' = Append(out, m)
    BY <1>6 DEF Quit
  <2>3. UNCHANGED <<typed, made, killed, sess, inb>>
    BY <1>6 DEF Quit
  <2> HIDE DEF m
  <2>4. CASE out' = out
    BY <1>0, <2>3, <2>4, OldKept
  <2> QED BY <1>2, <2>1, <2>2, <2>3, <2>4
<1> QED BY <1>1, <1>3, <1>4, <1>5, <1>6

LEMMA NextSuccession == Base /\ Closing /\ Ending /\ Succession /\ [Next]_vars => Succession'
<1> SUFFICES ASSUME Base, Closing, Ending, Succession, [Next]_vars PROVE Succession' OBVIOUS
<1>1. CASE UNCHANGED vars
  <2>1. UNCHANGED <<out, inb, sess, typed, made, killed, lost, mixed>>
    BY <1>1 DEF vars, hubVars, linkVars, past
  <2> QED BY <2>1, OldSame, OldKept DEF Succession, Heard
<1>2. CASE Receive
  BY <1>2, ReceiveFacts, ReceiveOld DEF Receive
<1>3. ASSUME NEW p \in Panels, Frame(p) \/ MakeTerminal(p) \/ Kill(p) \/ Restart(p) PROVE Succession'
  BY <1>3, UserFacts, UserOld
<1> QED BY <1>1, <1>2, <1>3, ServeOld, RestOld DEF Next

LEMMA InitSuccession == Init => Succession
<1> SUFFICES ASSUME Init, NEW p \in Panels PROVE Replaced(p) /\ Expected(p)
  BY DEF Succession
<1>1. \A T, U : ~Has(<<>>, T) /\ Once(<<>>, T) /\ ~Before(<<>>, T, U)
  BY KindsEmpty
<1>2. sess[p].st # "none" => typed[p] /\ sess[p].made = 1 /\ made[p] = 1
  <2>1. \/ sess[p] = NoSession
        \/ sess[p] \in [st : {"live"}, how : {"none"}, att : {FALSE}, made : {1}]
        \/ sess[p] \in [st : {"exited"}, how : {"clean", "failed"}, att : {FALSE}, made : {1}]
    BY DEF Init
  <2>2. sess[p] = NoSession => sess[p].st = "none"
    BY DEF NoSession
  <2>3. sess[p] # NoSession => sess[p].made = 1
    BY <2>1
  <2>4. typed[p] => made[p] = 1
    BY DEF Init
  <2> QED BY <2>2, <2>3, <2>4 DEF Init
<1> QED BY <1>1, <1>2 DEF Init, Replaced, Expected

(* A step that takes an event in changes nothing of a panel that has had
   another terminal made since. *)
LEMMA OldIgnored ==
    ASSUME Base, Succession, [Next]_vars, NEW p \in Panels \ mixed, Heard(p), inb # <<>>, inb' = Tail(inb),
           Head(inb).panel = p, Head(inb).how \in Exits, Head(inb).made # made[p]
    PROVE  status'[p] = status[p] /\ typed'[p] = typed[p]
<1>0. /\ inb \in Seq(Event) /\ Head(inb) \in Event /\ Tail(inb) # inb /\ Replaced(p) /\ Expected(p)
      /\ \A e \in Event : Append(inb, e) # Tail(inb)
  <2>1. inb \in Seq(Event) /\ Tail(inb) # inb /\ \A e \in Event : Append(inb, e) # Tail(inb)
    BY DEF Base, TypeOK
  <2> QED BY <2>1, TakenPlaces DEF Succession
<1>1. Head(inb).how = "user" /\ p \in killed
  <2>1. Head(inb) \notin OldNews(p, {"clean", "failed"}, made[p])
    BY <1>0, KindsTaken DEF Expected
  <2>2. Head(inb).how = "user" /\ Head(inb) \in OldNews(p, {"user"}, made[p])
    BY <1>0, <2>1 DEF OldNews, News, Exits
  <2>3. p \in killed
    BY <1>0, <2>2, KindsTaken DEF Expected
  <2> QED BY <2>2, <2>3
<1>2. CASE Receive
  <2>1. PICK e \in Event : Received(e)
    BY <1>2, ReceiveFacts
  <2>2. e = Head(inb) /\ e.what = "exited"
    BY <1>1, <2>1 DEF Received, Event
  <2> QED BY <1>1, <2>1, <2>2 DEF Received
<1>3. CASE Serve \/ Quit \/ GiveUp \/ PollDirectories \/ UNCHANGED vars
  BY <1>3 DEF Serve, Quit, GiveUp, PollDirectories, vars, hubVars
<1>4. CASE Lose
  <2>1. UNCHANGED <<typed, status>>
    BY <1>4 DEF Lose
  <2> QED BY <2>1
<1>5. CASE Reconnect
  BY <1>0, <1>5 DEF Reconnect
<1>6. ASSUME NEW q \in Panels, Frame(q) \/ MakeTerminal(q) \/ Kill(q) \/ Restart(q) PROVE FALSE
  BY <1>0, <1>6, UserFacts DEF UserActs, Killing
<1>7. ASSUME NEW q \in Panels, Overflows(q) \/ \E how \in Exits : ShellExits(q, how)
      PROVE  status' = status /\ typed' = typed
  BY <1>7, SessionFacts DEF hubVars
<1> QED BY <1>2, <1>3, <1>4, <1>5, <1>6, <1>7 DEF Next

(* exited takes the end of a terminal the UI killed as expected (`killed` in
   hub.rs), so that it does not end the one made in its place; `killed` tells
   neither two ends nor an exit from an end, nor sees what was lost, and those
   panels are left out until next ended. *)
THEOREM NewTerminalsOutliveOld == Spec => NewOutlivesOld
<1>1. Base /\ Succession /\ [Next]_vars =>
        [\A p \in Panels \ mixed :
            (/\ <<"Kill", p>> \notin lost /\ <<"Forget", p>> \notin lost
             /\ inb # <<>> /\ inb' = Tail(inb) /\ Head(inb).panel = p /\ Head(inb).how \in Exits
               /\ Head(inb).made # made[p]) => status'[p] = status[p] /\ typed'[p] = typed[p]]_vars
  BY OldIgnored DEF Heard
<1>2. Base /\ Numbered /\ Ending /\ [Next]_vars => Ending'
  BY NextEnding
<1>3. Base /\ Closing /\ Ending /\ Succession /\ [Next]_vars => Succession'
  BY NextSuccession
<1>4. Init => Closing
  BY DEF Init, Closing, Free
<1> QED BY <1>1, <1>2, <1>3, <1>4, InitNumbered, InitEnding, InitSuccession, NextNumbered, NextClosing,
           AlwaysBase, PTL
    DEF Spec, NewOutlivesOld
=============================================================================
