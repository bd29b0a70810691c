-------------------------- MODULE DaemonLifeProofs --------------------------
(***************************************************************************)
(* No live session is lost and none outlives the daemon, for any number of *)
(* terminals, connections and sessions, but for those two requests lose    *)
(* between them.  The invariant comes in three layers, each inductive      *)
(* relative to those before it: what holds of the sessions themselves,     *)
(* what the map, the ending ones and the requests have of them, and what   *)
(* holds of a daemon that stops.                                           *)
(***************************************************************************)
EXTENDS DaemonLife, TLAPS

Resting == {"new", "ready", "leaving", "off"}
Holding == {"insert", "attach", "end", "kill", "retire", "close"}
Working == Holding \cup {"spawn"}

TypeOK ==
    /\ started \in 0 .. MaxSess
    /\ sid \in [Sess -> Ids] /\ st \in [Sess -> {"unborn", "live", "exited"}]
    /\ shell \in [Sess -> {"none", "running", "gone"}]
    /\ killed \subseteq Sess /\ ended \subseteq Sess /\ views \in [Sess -> SUBSET Conns]
    /\ map \in [Ids -> Sess \cup {None}] /\ ending \subseteq Sess /\ reg \subseteq Conns
    /\ main \in {"accept", "end", "reap", "down"}
    /\ toEnd \subseteq Sess /\ reaping \subseteq Sess
    /\ idle \in {"sleep", "quit", "dead"} /\ since \in {"no", "yes", "due"}
    /\ stopping \in BOOLEAN /\ timer \in BOOLEAN /\ endpoint \in BOOLEAN
    /\ pc \in [Conns -> Resting \cup Working] /\ obj \in [Conns -> Sess \cup {None}]
    /\ arg \in [Conns -> Ids]

(* What has started and what has not. *)
Born == \A s \in Sess :
    /\ st[s] = "unborn" <=> s > started
    /\ st[s] = "unborn" => shell[s] = "none"
    /\ st[s] = "exited" => shell[s] = "gone"

(* What the map or a thread names has started, under its own id. *)
Named ==
    /\ \A i \in Ids : map[i] # None => map[i] <= started /\ sid[map[i]] = i
    /\ \A c \in Conns : pc[c] \in Holding =>
          obj[c] # None /\ obj[c] <= started /\ sid[obj[c]] = arg[c]

(* A view is let go of when its session exits. *)
Watched == \A s \in Sess : views[s] # {} => st[s] = "live"

LifeInv == TypeOK /\ Born /\ Named /\ Watched

-----------------------------------------------------------------------------
(* What holds of the sessions, whoever calls. *)

LEMMA InitLife == Init => LifeInv
<1> SUFFICES ASSUME Init PROVE LifeInv OBVIOUS
<1> USE LifeAssumption
<1>1. (CHOOSE i \in Ids : TRUE) \in Ids
  OBVIOUS
<1>2. TypeOK
  <2>1. stopping \in BOOLEAN /\ timer \in BOOLEAN /\ endpoint \in BOOLEAN
    BY Zenon DEF Init
  <2>2. sid \in [Sess -> Ids] /\ arg \in [Conns -> Ids] /\ started \in 0 .. MaxSess
    BY <1>1 DEF Init
  <2> QED BY <2>1, <2>2 DEF Init, TypeOK, Resting
<1>3. Born /\ Named /\ Watched
  BY DEF Init, Born, Named, Watched, Sess, Holding
<1> QED BY <1>2, <1>3 DEF LifeInv

(* The steps of a session's own threads. *)
LEMMA SessionLife ==
    ASSUME LifeInv, NEW s \in Sess, ShellExits(s) \/ Session(s)
    PROVE  LifeInv'
<1> USE LifeAssumption DEF LifeInv, mapVars, stopVars, mainVars, watchVars, threadVars, sessVars
<1>1. CASE ShellExits(s)
  <2>1. TypeOK'
    BY <1>1 DEF TypeOK, ShellExits
  <2>2. Born' /\ Named' /\ Watched'
    BY <1>1 DEF TypeOK, ShellExits, Born, Named, Watched
  <2> QED BY <2>1, <2>2
<1>2. CASE Finish(s)
  <2>1. TypeOK'
    BY <1>2 DEF TypeOK, Finish
  <2>2. Born' /\ Named' /\ Watched'
    BY <1>2 DEF TypeOK, Finish, Born, Named, Watched
  <2> QED BY <2>1, <2>2
<1>3. CASE SessionEnded(s)
  <2>1. TypeOK'
    BY <1>3 DEF TypeOK, SessionEnded
  <2>2. Born' /\ Named' /\ Watched'
    BY <1>3 DEF TypeOK, SessionEnded, Born, Named, Watched
  <2> QED BY <2>1, <2>2
<1>4. CASE Escalate(s)
  <2>1. TypeOK'
    BY <1>4 DEF TypeOK, Escalate
  <2>2. Born' /\ Named' /\ Watched'
    BY <1>4 DEF TypeOK, Escalate, Born, Named, Watched
  <2> QED BY <2>1, <2>2
<1> QED BY <1>1, <1>2, <1>3, <1>4 DEF Session

(* What begins a request. *)
LEMMA RequestLife ==
    ASSUME LifeInv, NEW c \in Conns, Connect(c) \/ Disconnect(c) \/ Request(c)
    PROVE  LifeInv'
<1> USE LifeAssumption DEF LifeInv, mapVars, stopVars, mainVars, watchVars, threadVars,
                           sessVars, Resting, Working, Holding
<1>1. CASE Connect(c)
  <2>1. TypeOK'
    BY <1>1 DEF TypeOK, Connect, Go
  <2>2. Born' /\ Named' /\ Watched'
    BY <1>1 DEF TypeOK, Connect, Go, Born, Named, Watched
  <2> QED BY <2>1, <2>2
<1>2. CASE Disconnect(c)
  <2>1. TypeOK'
    BY <1>2 DEF TypeOK, Disconnect, Go
  <2>2. Born' /\ Named' /\ Watched'
    BY <1>2 DEF TypeOK, Disconnect, Go, Born, Named, Watched
  <2> QED BY <2>1, <2>2
<1>3. CASE \E i \in Ids : Spawn(c, i)
  <2>1. TypeOK'
    BY <1>3 DEF TypeOK, Spawn, Begins, Go
  <2>2. Born' /\ Named' /\ Watched'
    BY <1>3 DEF TypeOK, Spawn, Begins, Go, Born, Named, Watched
  <2> QED BY <2>1, <2>2
<1>4. CASE \E i \in Ids : Attach(c, i)
  <2>1. TypeOK'
    BY <1>4 DEF TypeOK, Attach, Begins, Go
  <2>2. Born' /\ Named' /\ Watched'
    BY <1>4 DEF TypeOK, Attach, Begins, Go, Born, Named, Watched
  <2> QED BY <2>1, <2>2
<1>5. CASE \E i \in Ids : Detach(c, i)
  <2>1. TypeOK'
    BY <1>5 DEF TypeOK, Detach, Begins, Go
  <2>2. Born' /\ Named' /\ Watched'
    BY <1>5 DEF TypeOK, Detach, Begins, Go, Born, Named, Watched
  <2> QED BY <2>1, <2>2
<1>6. CASE \E i \in Ids : Kill(c, i)
  <2>1. TypeOK'
    BY <1>6 DEF TypeOK, Kill, Begins, Go
  <2>2. Born' /\ Named' /\ Watched'
    BY <1>6 DEF TypeOK, Kill, Begins, Go, Born, Named, Watched
  <2> QED BY <2>1, <2>2
<1>7. CASE \E i \in Ids : Forget(c, i)
  <2>1. TypeOK'
    BY <1>7 DEF TypeOK, Forget, Begins, Go
  <2>2. Born' /\ Named' /\ Watched'
    BY <1>7 DEF TypeOK, Forget, Begins, Go, Born, Named, Watched
  <2> QED BY <2>1, <2>2
<1>8. CASE \E i \in Ids : CloseIdle(c, i)
  <2>1. TypeOK'
    BY <1>8 DEF TypeOK, CloseIdle, Begins, Go, Live
  <2>2. Born' /\ Named' /\ Watched'
    BY <1>8 DEF TypeOK, CloseIdle, Begins, Go, Live, Born, Named, Watched
  <2> QED BY <2>1, <2>2
<1>9. CASE \E all \in BOOLEAN : Shutdown(c, all)
  <2>1. TypeOK'
    BY <1>9 DEF TypeOK, Shutdown, StillEnding
  <2>2. Born' /\ Named' /\ Watched'
    BY <1>9 DEF TypeOK, Shutdown, StillEnding, Born, Named, Watched
  <2> QED BY <2>1, <2>2
<1> QED BY <1>1, <1>2, <1>3, <1>4, <1>5, <1>6, <1>7, <1>8, <1>9 DEF Request

(* The rest of a request that has begun. *)
LEMMA ProceedLife ==
    ASSUME LifeInv, NEW c \in Conns, Proceed(c)
    PROVE  LifeInv'
<1> USE LifeAssumption DEF LifeInv, mapVars, stopVars, mainVars, watchVars, threadVars,
                           sessVars, Resting, Working, Holding
<1>1. CASE StartSession(c)
  <2>1. CASE pc' = [pc EXCEPT ![c] = "ready"] /\ UNCHANGED <<started, sid, st, shell>>
    <3>1. TypeOK'
      BY <1>1, <2>1 DEF TypeOK, StartSession, Go
    <3>2. Born' /\ Named' /\ Watched'
      BY <1>1, <2>1 DEF TypeOK, StartSession, Go, Born, Named, Watched
    <3> QED BY <3>1, <3>2
  <2>2. CASE /\ started < MaxSess /\ started' = started + 1
             /\ sid' = [sid EXCEPT ![started'] = arg[c]]
             /\ st' = [st EXCEPT ![started'] = "live"]
             /\ shell' = [shell EXCEPT ![started'] = "running"]
             /\ Go(c, "insert", started')
    <3>1. started' \in Sess /\ started' \in 0 .. MaxSess /\ arg[c] \in Ids
      BY <2>2 DEF TypeOK, Sess
    <3>2. TypeOK'
      BY <1>1, <2>2, <3>1 DEF TypeOK, StartSession, Go
    <3>3. Born'
      BY <1>1, <2>2, <3>1 DEF TypeOK, Born, Sess
    <3>4. Named'
      <4>1. \A s \in Sess : s <= started => s # started' /\ sid'[s] = sid[s] /\ s <= started'
        BY <2>2, <3>1 DEF TypeOK, Sess
      <4>2. \A d \in Conns \ {c} : pc'[d] = pc[d] /\ obj'[d] = obj[d] /\ arg'[d] = arg[d]
        BY <1>1, <2>2 DEF TypeOK, StartSession, Go
      <4>3. obj'[c] = started' /\ sid'[started'] = arg[c] /\ arg'[c] = arg[c]
        BY <1>1, <2>2, <3>1 DEF TypeOK, StartSession, Go
      <4>4. obj'[c] # None /\ obj'[c] <= started'
        BY <3>1, <4>3 DEF Sess, None
      <4> QED BY <1>1, <4>1, <4>2, <4>3, <4>4 DEF TypeOK, Named, StartSession
    <3>5. Watched'
      BY <1>1, <2>2, <3>1 DEF TypeOK, Watched, StartSession
    <3> QED BY <3>2, <3>3, <3>4, <3>5
  <2> QED BY <1>1, <2>1, <2>2 DEF StartSession, Go
<1>2. CASE Insert(c)
  <2>1. TypeOK'
    BY <1>2 DEF TypeOK, Insert, Go
  <2>2. Born' /\ Named' /\ Watched'
    BY <1>2 DEF TypeOK, Insert, Go, Born, Named, Watched
  <2> QED BY <2>1, <2>2
<1>3. CASE AttachView(c)
  <2>1. TypeOK'
    BY <1>3 DEF TypeOK, AttachView, Go, Live
  <2>2. Born' /\ Named' /\ Watched'
    BY <1>3 DEF TypeOK, AttachView, Go, Live, Born, Named, Watched
  <2> QED BY <2>1, <2>2
<1>4. CASE End(c)
  <2>1. TypeOK'
    BY <1>4 DEF TypeOK, End, Go, Live
  <2>2. Born' /\ Named' /\ Watched'
    BY <1>4 DEF TypeOK, End, Go, Live, Born, Named, Watched
  <2> QED BY <2>1, <2>2
<1>5. CASE Hangup(c)
  <2>1. TypeOK'
    BY <1>5 DEF TypeOK, Named, Hangup, Go, KillSession
  <2>2. Born' /\ Named' /\ Watched'
    BY <1>5 DEF TypeOK, Hangup, Go, KillSession, Born, Named, Watched
  <2> QED BY <2>1, <2>2
<1>6. CASE Retire(c)
  <2>1. TypeOK'
    BY <1>6 DEF TypeOK, Named, Retire, Go
  <2>2. Born' /\ Named' /\ Watched'
    BY <1>6 DEF TypeOK, Retire, Go, Born, Named, Watched
  <2> QED BY <2>1, <2>2
<1>7. CASE CloseSession(c)
  <2>1. TypeOK'
    BY <1>7 DEF TypeOK, Named, CloseSession, Go, KillSession
  <2>2. Born' /\ Named' /\ Watched'
    BY <1>7 DEF TypeOK, CloseSession, Go, KillSession, Born, Named, Watched
  <2> QED BY <2>1, <2>2
<1>8. CASE DetachAll(c)
  <2>1. TypeOK'
    BY <1>8 DEF TypeOK, DetachAll, Go
  <2>2. Born' /\ Named' /\ Watched'
    BY <1>8 DEF TypeOK, DetachAll, Go, Born, Named, Watched
  <2> QED BY <2>1, <2>2
<1> QED BY <1>1, <1>2, <1>3, <1>4, <1>5, <1>6, <1>7, <1>8 DEF Proceed

(* The steps of the idle watch, the timer, the socket and the main thread. *)
LEMMA StopLife ==
    ASSUME LifeInv, Idle \/ TimerFires \/ SocketRemoved \/ MainStops \/ MainKills \/ MainGoes
    PROVE  LifeInv'
<1> USE LifeAssumption DEF LifeInv, mapVars, stopVars, mainVars, watchVars, threadVars, sessVars
<1>1. CASE IdleWakes
  <2>1. TypeOK'
    BY <1>1 DEF TypeOK, IdleWakes, StillEnding
  <2>2. Born' /\ Named' /\ Watched'
    BY <1>1 DEF TypeOK, IdleWakes, StillEnding, Born, Named, Watched
  <2> QED BY <2>1, <2>2
<1>2. CASE MainStops
  <2>1. TypeOK'
    BY <1>2 DEF TypeOK, MainStops, Known, None
  <2>2. Born' /\ Named' /\ Watched'
    BY <1>2 DEF TypeOK, MainStops, Known, None, Born, Named, Watched
  <2> QED BY <2>1, <2>2
<1>3. CASE MainKills
  <2>1. TypeOK'
    BY <1>3 DEF TypeOK, MainKills, KillSession
  <2>2. Born' /\ Named' /\ Watched'
    BY <1>3 DEF TypeOK, MainKills, KillSession, Born, Named, Watched
  <2> QED BY <2>1, <2>2
<1>4. CASE IdleTimePasses \/ IdleStops \/ TimerFires \/ SocketRemoved \/ MainGoes
  <2>1. TypeOK'
    BY <1>4 DEF IdleTimePasses, IdleStops, TimerFires, SocketRemoved, MainGoes, TypeOK
  <2>2. Born' /\ Named' /\ Watched'
    BY <1>4 DEF IdleTimePasses, IdleStops, TimerFires, SocketRemoved, MainGoes,
                Born, Named, Watched
  <2> QED BY <2>1, <2>2
<1> QED BY <1>1, <1>2, <1>3, <1>4 DEF Idle

LEMMA NextLife == LifeInv /\ [Next]_vars => LifeInv'
<1> SUFFICES ASSUME LifeInv, [Next]_vars PROVE LifeInv' OBVIOUS
<1>1. CASE UNCHANGED vars
  BY <1>1 DEF vars, sessVars, mapVars, stopVars, mainVars, watchVars, threadVars,
              LifeInv, TypeOK, Born, Named, Watched
<1> QED BY <1>1, SessionLife, RequestLife, ProceedLife, StopLife DEF Next

(* Whatever the clients do, every session named has started, under its id,
   and nobody is shown one that has exited. *)
THEOREM LifeInvariant == Spec => []LifeInv
BY InitLife, NextLife, PTL DEF Spec

(* The end of a session, looked at by id, forgets one the user ended: no other
   step takes a session from those whose end is still to be looked at. *)
THEOREM EndsForgetOnlyKilled == Spec => EndForgetsOnlyKilled
<1> DEFINE Forgets ==
             \A s \in Sess : s \in ended /\ s \notin ended' =>
                \A i \in Ids :
                   map'[i] # map[i] => st[map[i]] = "exited" /\ map[i] \in killed
<1>1. LifeInv /\ [Next]_vars => [Forgets]_vars
  <2> SUFFICES ASSUME LifeInv, Next, NEW s \in Sess, s \in ended, s \notin ended',
                      NEW i \in Ids, map'[i] # map[i]
               PROVE  st[map[i]] = "exited" /\ map[i] \in killed
    OBVIOUS
  <2>1. SessionEnded(s)
    BY DEF Next, Connect, Disconnect, Request, Spawn, Attach, Detach, Kill, Forget, CloseIdle,
           Shutdown, Proceed, StartSession, Insert, AttachView, End, Hangup, Retire,
               CloseSession,
           DetachAll, ShellExits, Session, Finish, SessionEnded, Escalate, Idle, IdleWakes,
           IdleTimePasses, IdleStops, TimerFires, SocketRemoved, MainStops, MainKills, MainGoes,
           sessVars
  <2> QED BY <2>1 DEF SessionEnded, LifeInv, TypeOK
<1> QED BY <1>1, LifeInvariant, PTL DEF Spec, EndForgetsOnlyKilled

-----------------------------------------------------------------------------
(* What the map, the ending ones and the requests have of the sessions. *)

(* The id a session is being started for has no live one, unless another start of
   it was on its way: of two being entered at once, each that waits is raced. *)
Room == \A c \in Conns : pc[c] \in {"spawn", "insert"} /\ Live(map[arg[c]]) => map[arg[c]] \in raced
Rivals == \A c, d \in Conns :
    c # d /\ pc[c] \in {"spawn", "insert"} /\ pc[d] = "insert" /\ arg[c] = arg[d] => obj[d] \in raced

(* A session about to be shown has its id as long as it lives, unless it was ended
   meanwhile or raced; and what was ended is being ended. *)
Kept == \A c \in Conns :
    pc[c] = "attach" /\ Live(obj[c]) =>
        map[arg[c]] = obj[c] \/ <<obj[c], c>> \in crossed \/ obj[c] \in raced
Dying == \A s \in Sess : \A c \in Conns :
    <<s, c>> \in crossed =>
        /\ st[s] # "unborn"
        /\ st[s] = "live" => s \in killed \/ \E d \in Conns : obj[d] = s /\ pc[d] \in {"end", "kill"}

(* What of a step leaves the views served. *)
Spares ==
    /\ killed \subseteq killed' /\ crossed \subseteq crossed' /\ raced \subseteq raced'
    /\ \A s \in Sess : \A c \in views'[s] :
          \/ c \in views[s] /\ (Shown(s, c) => (Shown(s, c) \/ Ended(s))' \/ s \in raced')
          \/ (Shown(s, c) \/ Ended(s) \/ (<<s, c>> \in crossed /\ HungUp(s)) \/ s \in raced)'
    /\ \A d \in Conns : pc[d] = "end" =>
          views'[obj[d]] = {} \/ (pc'[d] = "end" /\ obj'[d] = obj[d])
    /\ \A d \in Conns : pc[d] = "kill" =>
          views'[obj[d]] = {} \/ obj[d] \in killed' \/ (pc'[d] = "kill" /\ obj'[d] = obj[d])

MapInv == Room /\ Rivals /\ Kept /\ Dying /\ EveryLiveSessionKnown /\ ViewsAreServed

LEMMA SparedViews == ASSUME ViewsAreServed, Spares PROVE ViewsAreServed'
<1> SUFFICES ASSUME NEW s \in Sess, NEW c \in views'[s], c \in views[s],
                    Shown(s, c) => (Shown(s, c) \/ Ended(s))' \/ s \in raced'
             PROVE  (Shown(s, c) \/ Ended(s) \/ (<<s, c>> \in crossed /\ HungUp(s)) \/ s \in raced)'
  BY DEF Spares, ViewsAreServed
<1>1. Ended(s) => Ended(s)'
  BY DEF Ended, Spares
<1>2. HungUp(s) => HungUp(s)'
  BY DEF HungUp, Spares
<1>3. (<<s, c>> \in crossed => <<s, c>> \in crossed') /\ (s \in raced => s \in raced')
  BY DEF Spares
<1> QED BY <1>1, <1>2, <1>3 DEF ViewsAreServed

LEMMA InitMap == Init => MapInv
BY DEF Init, MapInv, Room, Rivals, Kept, Dying, EveryLiveSessionKnown, ViewsAreServed

(* The steps of a session's own threads. *)
LEMMA SessionMap ==
    ASSUME LifeInv, MapInv, NEW s \in Sess, ShellExits(s) \/ Session(s)
    PROVE  MapInv'
<1> USE LifeAssumption DEF LifeInv, MapInv, vars, mapVars, stopVars, mainVars, watchVars,
                           threadVars, sessVars, past
<1>1. CASE ShellExits(s)
  <2>1. Room' /\ Rivals'
    BY <1>1 DEF ShellExits, Room, Rivals, TypeOK, Named, Live
  <2>2. Kept' /\ Dying'
    BY <1>1 DEF ShellExits, Room, Kept, Dying, Born, TypeOK, Named, Live
  <2>3. EveryLiveSessionKnown'
    BY <1>1 DEF ShellExits, Room, TypeOK, Born, Named, EveryLiveSessionKnown, Known, InHands, Live
  <2>4. Spares
    BY <1>1 DEF ShellExits, Spares, Room, TypeOK, Named, Watched, Known, Live, Shown, Ended, HungUp
  <2> QED BY <2>1, <2>2, <2>3, <2>4, SparedViews
<1>2. CASE Finish(s)
  <2>1. Room' /\ Rivals'
    BY <1>2 DEF Finish, Room, Rivals, TypeOK, Named, Live
  <2>2. Kept' /\ Dying'
    BY <1>2 DEF Finish, Room, Kept, Dying, Born, TypeOK, Named, Live
  <2>3. EveryLiveSessionKnown'
    BY <1>2 DEF Finish, Room, TypeOK, Born, Named, EveryLiveSessionKnown, Known, InHands, Live
  <2>4. Spares
    BY <1>2 DEF Finish, Spares, Room, TypeOK, Named, Watched, Known, Live, Shown, Ended, HungUp
  <2> QED BY <2>1, <2>2, <2>3, <2>4, SparedViews
<1>3. CASE SessionEnded(s)
  <2>1. Room' /\ Rivals'
    BY <1>3 DEF SessionEnded, Room, Rivals, TypeOK, Named, Live
  <2>2. Kept' /\ Dying'
    BY <1>3 DEF SessionEnded, Room, Kept, Dying, Born, TypeOK, Named, Live
  <2>3. EveryLiveSessionKnown'
    BY <1>3 DEF SessionEnded, Room, TypeOK, Born, Named, EveryLiveSessionKnown, Known, InHands, Live
  <2>4. Spares
    BY <1>3 DEF SessionEnded, Spares, Room, TypeOK, Named, Watched, Known, Live, Shown, Ended, HungUp
  <2> QED BY <2>1, <2>2, <2>3, <2>4, SparedViews
<1>4. CASE Escalate(s)
  <2>1. Room' /\ Rivals'
    BY <1>4 DEF Escalate, Room, Rivals, TypeOK, Named, Live
  <2>2. Kept' /\ Dying'
    BY <1>4 DEF Escalate, Room, Kept, Dying, Born, TypeOK, Named, Live
  <2>3. EveryLiveSessionKnown'
    BY <1>4 DEF Escalate, Room, TypeOK, Born, Named, EveryLiveSessionKnown, Known, InHands, Live
  <2>4. Spares
    BY <1>4 DEF Escalate, Spares, Room, TypeOK, Named, Watched, Known, Live, Shown, Ended, HungUp
  <2> QED BY <2>1, <2>2, <2>3, <2>4, SparedViews
<1> QED BY <1>1, <1>2, <1>3, <1>4 DEF Session

(* What begins a request. *)
LEMMA RequestMap ==
    ASSUME LifeInv, MapInv, NEW b \in Conns, Connect(b) \/ Disconnect(b) \/ Request(b)
    PROVE  MapInv'
<1> USE LifeAssumption DEF LifeInv, MapInv, vars, mapVars, stopVars, mainVars, watchVars,
                           threadVars, sessVars, past, Resting, Working, Holding
<1>1. CASE Connect(b)
  <2>1. Room' /\ Rivals'
    BY <1>1 DEF Connect, Go, Room, Rivals, TypeOK, Named, Live
  <2>2. Kept' /\ Dying'
    BY <1>1 DEF Connect, Go, Room, Kept, Dying, Born, TypeOK, Named, Live
  <2>3. EveryLiveSessionKnown'
    BY <1>1 DEF Connect, Go, Room, TypeOK, Born, Named, EveryLiveSessionKnown, Known, InHands, Live
  <2>4. Spares
    BY <1>1 DEF Connect, Go, Spares, Room, TypeOK, Named, Watched, Known, Live, Shown, Ended, HungUp
  <2> QED BY <2>1, <2>2, <2>3, <2>4, SparedViews
<1>2. CASE Disconnect(b)
  <2>1. Room' /\ Rivals'
    BY <1>2 DEF Disconnect, Go, Room, Rivals, TypeOK, Named, Live
  <2>2. Kept' /\ Dying'
    BY <1>2 DEF Disconnect, Go, Room, Kept, Dying, Born, TypeOK, Named, Live
  <2>3. EveryLiveSessionKnown'
    BY <1>2 DEF Disconnect, Go, Room, TypeOK, Born, Named, EveryLiveSessionKnown, Known, InHands, Live
  <2>4. Spares
    BY <1>2 DEF Disconnect, Go, Spares, Room, TypeOK, Named, Watched, Known, Live, Shown, Ended, HungUp
  <2> QED BY <2>1, <2>2, <2>3, <2>4, SparedViews
<1>3. CASE \E i \in Ids : Spawn(b, i)
  <2>1. Room' /\ Rivals'
    BY <1>3 DEF Spawn, Begins, Go, Entering, Room, Rivals, TypeOK, Named, Live
  <2>2. Kept' /\ Dying'
    BY <1>3 DEF Spawn, Begins, Go, Entering, Room, Kept, Dying, Born, TypeOK, Named, Live
  <2>3. EveryLiveSessionKnown'
    BY <1>3 DEF Spawn, Begins, Go, Entering, Room, TypeOK, Born, Named, EveryLiveSessionKnown, Known, InHands, Live
  <2>4. Spares
    BY <1>3 DEF Spawn, Begins, Go, Entering, Spares, Room, TypeOK, Named, Watched, Known, Live, Shown, Ended, HungUp
  <2> QED BY <2>1, <2>2, <2>3, <2>4, SparedViews
<1>4. CASE \E i \in Ids : Attach(b, i)
  <2>1. Room' /\ Rivals'
    BY <1>4 DEF Attach, Begins, Go, Room, Rivals, TypeOK, Named, Live
  <2>2. Kept' /\ Dying'
    BY <1>4 DEF Attach, Begins, Go, Room, Kept, Dying, Born, TypeOK, Named, Live
  <2>3. EveryLiveSessionKnown'
    BY <1>4 DEF Attach, Begins, Go, Room, TypeOK, Born, Named, EveryLiveSessionKnown, Known, InHands, Live
  <2>4. Spares
    BY <1>4 DEF Attach, Begins, Go, Spares, Room, TypeOK, Named, Watched, Known, Live, Shown, Ended, HungUp
  <2> QED BY <2>1, <2>2, <2>3, <2>4, SparedViews
<1>5. CASE \E i \in Ids : Detach(b, i)
  <2>1. Room' /\ Rivals'
    BY <1>5 DEF Detach, Begins, Go, Room, Rivals, TypeOK, Named, Live
  <2>2. Kept' /\ Dying'
    BY <1>5 DEF Detach, Begins, Go, Room, Kept, Dying, Born, TypeOK, Named, Live
  <2>3. EveryLiveSessionKnown'
    BY <1>5 DEF Detach, Begins, Go, Room, TypeOK, Born, Named, EveryLiveSessionKnown, Known, InHands, Live
  <2>4. Spares
    BY <1>5 DEF Detach, Begins, Go, Spares, Room, TypeOK, Named, Watched, Known, Live, Shown, Ended, HungUp
  <2> QED BY <2>1, <2>2, <2>3, <2>4, SparedViews
<1>6. CASE \E i \in Ids : Kill(b, i)
  <2>1. Room' /\ Rivals'
    BY <1>6 DEF Kill, Begins, Go, Room, Rivals, TypeOK, Named, Live
  <2>2. Kept' /\ Dying'
    <3>1. PICK i \in Ids : Kill(b, i)
      BY <1>6
    <3>2. /\ pc[b] = "ready" /\ map[i] \in Sess /\ map' = [map EXCEPT ![i] = None]
          /\ pc' = [pc EXCEPT ![b] = "end"] /\ obj' = [obj EXCEPT ![b] = map[i]]
          /\ arg' = [arg EXCEPT ![b] = i] /\ UNCHANGED <<raced, killed, st>>
          /\ crossed' = crossed \cup {<<map[i], d>> : d \in {e \in Conns : pc[e] = "attach" /\ obj[e] = map[i]}}
      BY <3>1 DEF Kill, Begins, Go, TypeOK
    <3>3. Kept'
      <4> SUFFICES ASSUME NEW c \in Conns, pc'[c] = "attach", Live(obj[c])'
                   PROVE  map'[arg'[c]] = obj'[c] \/ <<obj'[c], c>> \in crossed' \/ obj'[c] \in raced'
        BY DEF Kept
      <4>1. c # b /\ pc[c] = "attach" /\ obj'[c] = obj[c] /\ arg'[c] = arg[c] /\ Live(obj[c])
        BY <3>2 DEF TypeOK, Live
      <4>2. map[arg[c]] = obj[c] \/ <<obj[c], c>> \in crossed \/ obj[c] \in raced
        BY <4>1 DEF Kept
      <4>3. CASE map[arg[c]] = obj[c]
        <5>1. CASE arg[c] = i
          BY <3>2, <4>1, <4>3, <5>1
        <5>2. CASE arg[c] # i
          BY <3>2, <4>1, <4>3, <5>2 DEF TypeOK
        <5> QED BY <5>1, <5>2
      <4> QED BY <3>2, <4>1, <4>2, <4>3
    <3>4. Dying'
      <4> SUFFICES ASSUME NEW r \in Sess, NEW c \in Conns, <<r, c>> \in crossed'
                   PROVE  /\ st'[r] # "unborn"
                          /\ st'[r] = "live" =>
                               r \in killed' \/ \E d \in Conns : obj'[d] = r /\ pc'[d] \in {"end", "kill"}
        BY DEF Dying
      <4>1. CASE <<r, c>> \in crossed
        <5>1. \A d \in Conns : pc[d] \in {"end", "kill"} => pc'[d] = pc[d] /\ obj'[d] = obj[d]
          BY <3>2 DEF TypeOK
        <5> QED BY <3>2, <4>1, <5>1 DEF Dying
      <4>2. CASE r = map[i]
        <5>1. st[r] # "unborn"
          BY <3>2, <4>2 DEF Born, Named, TypeOK, Sess, None
        <5>2. obj'[b] = r /\ pc'[b] = "end"
          BY <3>2, <4>2 DEF TypeOK
        <5> QED BY <3>2, <5>1, <5>2
      <4> QED BY <3>2, <4>1, <4>2
    <3> QED BY <3>3, <3>4
  <2>3. EveryLiveSessionKnown'
    BY <1>6 DEF Kill, Begins, Go, Room, TypeOK, Born, Named, EveryLiveSessionKnown, Known, InHands, Live
  <2>4. Spares
    BY <1>6 DEF Kill, Begins, Go, Spares, Room, TypeOK, Named, Watched, Known, Live, Shown, Ended, HungUp
  <2> QED BY <2>1, <2>2, <2>3, <2>4, SparedViews
<1>7. CASE \E i \in Ids : Forget(b, i)
  <2>1. Room' /\ Rivals'
    BY <1>7 DEF Forget, Begins, Go, Room, Rivals, TypeOK, Named, Live
  <2>2. Kept' /\ Dying'
    BY <1>7 DEF Forget, Begins, Go, Room, Kept, Dying, Born, TypeOK, Named, Live
  <2>3. EveryLiveSessionKnown'
    BY <1>7 DEF Forget, Begins, Go, Room, TypeOK, Born, Named, EveryLiveSessionKnown, Known, InHands, Live
  <2>4. Spares
    BY <1>7 DEF Forget, Begins, Go, Spares, Room, TypeOK, Named, Watched, Known, Live, Shown, Ended, HungUp
  <2> QED BY <2>1, <2>2, <2>3, <2>4, SparedViews
<1>8. CASE \E i \in Ids : CloseIdle(b, i)
  <2>1. Room' /\ Rivals'
    BY <1>8 DEF CloseIdle, Begins, Go, Room, Rivals, TypeOK, Named, Live
  <2>2. Kept' /\ Dying'
    BY <1>8 DEF CloseIdle, Begins, Go, Room, Kept, Dying, Born, TypeOK, Named, Live
  <2>3. EveryLiveSessionKnown'
    BY <1>8 DEF CloseIdle, Begins, Go, Room, TypeOK, Born, Named, EveryLiveSessionKnown, Known, InHands, Live
  <2>4. Spares
    BY <1>8 DEF CloseIdle, Begins, Go, Spares, Room, TypeOK, Named, Watched, Known, Live, Shown, Ended, HungUp
  <2> QED BY <2>1, <2>2, <2>3, <2>4, SparedViews
<1>9. CASE \E all \in BOOLEAN : Shutdown(b, all)
  <2>1. Room' /\ Rivals'
    BY <1>9 DEF Shutdown, StillEnding, Room, Rivals, TypeOK, Named, Live
  <2>2. Kept' /\ Dying'
    BY <1>9 DEF Shutdown, StillEnding, Room, Kept, Dying, Born, TypeOK, Named, Live
  <2>3. EveryLiveSessionKnown'
    BY <1>9 DEF Shutdown, StillEnding, Room, TypeOK, Born, Named, EveryLiveSessionKnown, Known, InHands, Live
  <2>4. Spares
    BY <1>9 DEF Shutdown, StillEnding, Spares, Room, TypeOK, Named, Watched, Known, Live, Shown, Ended, HungUp
  <2> QED BY <2>1, <2>2, <2>3, <2>4, SparedViews
<1> QED BY <1>1, <1>2, <1>3, <1>4, <1>5, <1>6, <1>7, <1>8, <1>9 DEF Request

(* The one step that starts a session gives it a number of its own, and marks it raced
   when others were starting one of that id. *)
LEMMA Starts ==
    ASSUME LifeInv, NEW b \in Conns, StartSession(b)
    PROVE  /\ pc[b] = "spawn" /\ \A d \in Conns \ {b} : pc'[d] = pc[d] /\ obj'[d] = obj[d]
           /\ UNCHANGED <<map, ending, views, arg, killed, crossed>> /\ raced \subseteq raced'
           /\ \/ pc'[b] = "ready" /\ st' = st
              \/ \E s \in Sess : /\ s = started + 1 /\ st[s] = "unborn" /\ st'[s] = "live"
                                 /\ \A r \in Sess \ {s} : st'[r] = st[r]
                                 /\ pc'[b] = "insert" /\ obj'[b] = s
                                 /\ Starting(arg[b]) # {b} => s \in raced'
<1> USE LifeAssumption DEF LifeInv, TypeOK, StartSession, Go, mapVars, stopVars
<1>1. CASE Go(b, "ready", None) /\ UNCHANGED <<raced, late, started, sid, st, shell>>
  BY <1>1
<1>2. CASE /\ started < MaxSess /\ started' = started + 1
           /\ st' = [st EXCEPT ![started'] = "live"] /\ Go(b, "insert", started')
           /\ raced' = IF Starting(arg[b]) = {b} THEN raced
                       ELSE raced \cup Entering(arg[b]) \cup {started'}
  <2>1. started' \in Sess /\ st[started'] = "unborn"
    BY <1>2 DEF Sess, Born
  <2> QED BY <1>2, <2>1
<1> QED BY <1>1, <1>2

(* The rest of a request that has begun. *)
LEMMA ProceedMap ==
    ASSUME LifeInv, MapInv, NEW b \in Conns, Proceed(b)
    PROVE  MapInv'
<1> USE LifeAssumption DEF LifeInv, MapInv, vars, mapVars, stopVars, mainVars, watchVars,
                           threadVars, sessVars, past, Resting, Working, Holding
<1>1. CASE StartSession(b)
  <2>1. /\ pc[b] = "spawn" /\ \A d \in Conns \ {b} : pc'[d] = pc[d] /\ obj'[d] = obj[d]
        /\ UNCHANGED <<map, ending, views, arg, killed, crossed>> /\ raced \subseteq raced'
    BY <1>1, Starts
  <2>2. CASE pc'[b] = "ready" /\ st' = st
    <3>1. Room' /\ Rivals' /\ Kept' /\ Dying'
      BY <2>1, <2>2 DEF TypeOK, Room, Rivals, Kept, Dying, Live
    <3>2. EveryLiveSessionKnown'
      BY <2>1, <2>2 DEF TypeOK, EveryLiveSessionKnown, Known, InHands
    <3>3. Spares
      BY <2>1, <2>2 DEF TypeOK, Spares, Known, Shown, Ended, HungUp
    <3> QED BY <3>1, <3>2, <3>3, SparedViews
  <2>3. CASE ~(pc'[b] = "ready" /\ st' = st)
    <3>0. PICK s \in Sess : /\ s = started + 1 /\ st[s] = "unborn" /\ st'[s] = "live"
                            /\ \A r \in Sess \ {s} : st'[r] = st[r]
                            /\ pc'[b] = "insert" /\ obj'[b] = s
                            /\ Starting(arg[b]) # {b} => s \in raced'
      BY <1>1, <2>3, Starts
    <3>1. \A i \in Ids : Live(map[i])' <=> Live(map[i])
      BY <2>1, <3>0 DEF TypeOK, Named, Born, Live, Sess
    <3>2. \A c \in Conns : pc[c] \in Holding => obj[c] \in Sess \ {s}
      BY <3>0 DEF TypeOK, Named, Born, Sess
    <3>3. Room'
      BY <2>1, <3>0, <3>1 DEF Room, TypeOK, Live
    <3>4. Rivals'
      <4> SUFFICES ASSUME NEW c \in Conns, NEW d \in Conns, c # d, pc'[c] \in {"spawn", "insert"},
                          pc'[d] = "insert", arg'[c] = arg'[d]
                   PROVE  obj'[d] \in raced'
        BY DEF Rivals
      <4>1. pc[c] \in {"spawn", "insert"} /\ arg[c] = arg[d]
        BY <2>1
      <4>2. CASE d = b
        BY <2>1, <3>0, <4>1, <4>2 DEF Starting
      <4>3. CASE d # b
        BY <2>1, <4>1, <4>3 DEF Rivals
      <4> QED BY <4>2, <4>3
    <3>5. Kept'
      <4> SUFFICES ASSUME NEW c \in Conns, pc'[c] = "attach", Live(obj[c])'
                   PROVE  map'[arg'[c]] = obj'[c] \/ <<obj'[c], c>> \in crossed' \/ obj'[c] \in raced'
        BY DEF Kept
      <4>1. c # b /\ pc[c] = "attach" /\ obj'[c] = obj[c]
        BY <2>1, <3>0
      <4>2. Live(obj[c])
        BY <3>0, <3>2, <4>1 DEF Live
      <4> QED BY <2>1, <4>1, <4>2 DEF Kept
    <3>6. Dying'
      <4> SUFFICES ASSUME NEW r \in Sess, NEW c \in Conns, <<r, c>> \in crossed'
                   PROVE  /\ st'[r] # "unborn"
                          /\ st'[r] = "live" =>
                               r \in killed' \/ \E d \in Conns : obj'[d] = r /\ pc'[d] \in {"end", "kill"}
        BY DEF Dying
      <4>1. <<r, c>> \in crossed /\ r # s
        BY <2>1, <3>0 DEF Dying
      <4> QED BY <2>1, <3>0, <4>1 DEF Dying
    <3>7. EveryLiveSessionKnown'
      BY <2>1, <3>0 DEF TypeOK, EveryLiveSessionKnown, Known, InHands
    <3>8. Spares
      BY <2>1, <3>0 DEF TypeOK, Watched, Spares, Known, Shown, Ended, HungUp
    <3> QED BY <3>3, <3>4, <3>5, <3>6, <3>7, <3>8, SparedViews
  <2> QED BY <2>2, <2>3
<1>2. CASE Insert(b)
  <2>1. Room' /\ Rivals'
    BY <1>2 DEF Insert, Go, Room, Rivals, TypeOK, Named, Live
  <2>2. Kept' /\ Dying'
    BY <1>2 DEF Insert, Go, Room, Rivals, Kept, Dying, Born, TypeOK, Named, Live
  <2>3. EveryLiveSessionKnown'
    BY <1>2 DEF Insert, Go, Room, TypeOK, Born, Named, EveryLiveSessionKnown, Known, InHands, Live
  <2>4. Spares
    BY <1>2 DEF Insert, Go, Spares, Room, TypeOK, Named, Watched, Known, Live, Shown, Ended, HungUp
  <2> QED BY <2>1, <2>2, <2>3, <2>4, SparedViews
<1>3. CASE AttachView(b)
  <2>1. Room' /\ Rivals'
    BY <1>3 DEF AttachView, Go, Room, Rivals, TypeOK, Named, Live
  <2>2. Kept' /\ Dying'
    BY <1>3 DEF AttachView, Go, Room, Kept, Dying, Born, TypeOK, Named, Live
  <2>3. EveryLiveSessionKnown'
    BY <1>3 DEF AttachView, Go, Room, TypeOK, Born, Named, EveryLiveSessionKnown, Known, InHands, Live
  <2>4. Spares
    <3>1. /\ pc[b] = "attach" /\ pc' = [pc EXCEPT ![b] = "ready"] /\ obj' = [obj EXCEPT ![b] = None]
          /\ UNCHANGED <<killed, crossed, raced, map, st, arg>>
      BY <1>3 DEF AttachView, Go
    <3>2. obj[b] \in Sess /\ arg[b] \in Ids
      BY <3>1 DEF TypeOK, Named
    <3>3. /\ \A s \in Sess : Shown(s, b)' <=> st[s] = "live" /\ s \in Known
          /\ \A s \in Sess : \A c \in Conns : Shown(s, c) => Shown(s, c)'
          /\ \A s \in Sess : (Ended(s) => Ended(s)') /\ (HungUp(s) => HungUp(s)')
      BY <3>1 DEF TypeOK, Shown, Known, Ended, HungUp
    <3>4. \A s \in Sess : \A c \in views'[s] : c \in Conns /\ (c \in views[s] \/ (s = obj[b] /\ c = b /\ Live(s)))
      BY <1>3, <3>2 DEF AttachView, TypeOK
    <3>5. Live(obj[b]) =>
             (Shown(obj[b], b) \/ Ended(obj[b]) \/ (<<obj[b], b>> \in crossed /\ HungUp(obj[b])) \/ obj[b] \in raced)
             \/ (st[obj[b]] = "live" /\ obj[b] \in Known)
      BY <3>1, <3>2 DEF Kept, Dying, Live, Ended, HungUp, Known, None
    <3>6. ASSUME NEW s \in Sess, NEW c \in views'[s]
          PROVE  \/ c \in views[s] /\ (Shown(s, c) => (Shown(s, c) \/ Ended(s))' \/ s \in raced')
                 \/ (Shown(s, c) \/ Ended(s) \/ (<<s, c>> \in crossed /\ HungUp(s)) \/ s \in raced)'
      <4>1. CASE c \in views[s]
        BY <3>3, <3>4, <4>1
      <4>2. CASE s = obj[b] /\ c = b /\ Live(s)
        <5>1. \/ Shown(s, c) \/ Ended(s) \/ (<<s, c>> \in crossed /\ HungUp(s)) \/ s \in raced
              \/ st[s] = "live" /\ s \in Known
          BY <3>5, <4>2
        <5>2. (<<s, c>> \in crossed => <<s, c>> \in crossed') /\ (s \in raced => s \in raced')
          BY <3>1
        <5>3. (st[s] = "live" /\ s \in Known => Shown(s, c)') /\ (Shown(s, c) => Shown(s, c)')
          BY <3>3, <3>4, <4>2
        <5>4. (Ended(s) => Ended(s)') /\ (HungUp(s) => HungUp(s)')
          BY <3>3
        <5> QED BY <5>1, <5>2, <5>3, <5>4
      <4> QED BY <3>4, <4>1, <4>2
    <3>7. \A d \in Conns : pc[d] \in {"end", "kill"} => pc'[d] = pc[d] /\ obj'[d] = obj[d]
      BY <3>1 DEF TypeOK
    <3> QED BY <3>1, <3>6, <3>7 DEF Spares
  <2> QED BY <2>1, <2>2, <2>3, <2>4, SparedViews
<1>4. CASE End(b)
  <2>1. Room' /\ Rivals'
    BY <1>4 DEF End, Go, Room, Rivals, TypeOK, Named, Live
  <2>2. Kept' /\ Dying'
    BY <1>4 DEF End, Go, Room, Kept, Dying, Born, TypeOK, Named, Live
  <2>3. EveryLiveSessionKnown'
    BY <1>4 DEF End, Go, Room, TypeOK, Born, Named, EveryLiveSessionKnown, Known, InHands, Live
  <2>4. Spares
    BY <1>4 DEF End, Go, Spares, Room, TypeOK, Named, Watched, Known, Live, Shown, Ended, HungUp
  <2> QED BY <2>1, <2>2, <2>3, <2>4, SparedViews
<1>5. CASE Hangup(b)
  <2>1. Room' /\ Rivals'
    BY <1>5 DEF Hangup, Go, KillSession, Room, Rivals, TypeOK, Named, Live
  <2>2. Kept' /\ Dying'
    BY <1>5 DEF Hangup, Go, KillSession, Room, Kept, Dying, Born, TypeOK, Named, Live
  <2>3. EveryLiveSessionKnown'
    BY <1>5 DEF Hangup, Go, KillSession, Room, TypeOK, Born, Named, EveryLiveSessionKnown, Known, InHands, Live
  <2>4. Spares
    BY <1>5 DEF Hangup, Go, KillSession, Spares, Room, TypeOK, Named, Watched, Known, Live, Shown, Ended, HungUp
  <2> QED BY <2>1, <2>2, <2>3, <2>4, SparedViews
<1>6. CASE Retire(b)
  <2>1. Room' /\ Rivals'
    BY <1>6 DEF Retire, Go, Room, Rivals, TypeOK, Named, Live
  <2>2. Kept' /\ Dying'
    BY <1>6 DEF Retire, Go, Room, Kept, Dying, Born, TypeOK, Named, Live
  <2>3. EveryLiveSessionKnown'
    BY <1>6 DEF Retire, Go, Room, TypeOK, Born, Named, EveryLiveSessionKnown, Known, InHands, Live
  <2>4. Spares
    BY <1>6 DEF Retire, Go, Spares, Room, TypeOK, Named, Watched, Known, Live, Shown, Ended, HungUp
  <2> QED BY <2>1, <2>2, <2>3, <2>4, SparedViews
<1>7. CASE CloseSession(b)
  <2>1. Room' /\ Rivals'
    BY <1>7 DEF CloseSession, Go, KillSession, Room, Rivals, TypeOK, Named, Live
  <2>2. Kept' /\ Dying'
    BY <1>7 DEF CloseSession, Go, KillSession, Room, Kept, Dying, Born, TypeOK, Named, Live
  <2>3. EveryLiveSessionKnown'
    BY <1>7 DEF CloseSession, Go, KillSession, Room, TypeOK, Born, Named, EveryLiveSessionKnown, Known, InHands, Live
  <2>4. Spares
    BY <1>7 DEF CloseSession, Go, KillSession, Spares, Room, TypeOK, Named, Watched, Known, Live, Shown, Ended, HungUp
  <2> QED BY <2>1, <2>2, <2>3, <2>4, SparedViews
<1>8. CASE DetachAll(b)
  <2>1. Room' /\ Rivals'
    BY <1>8 DEF DetachAll, Go, Room, Rivals, TypeOK, Named, Live
  <2>2. Kept' /\ Dying'
    BY <1>8 DEF DetachAll, Go, Room, Kept, Dying, Born, TypeOK, Named, Live
  <2>3. EveryLiveSessionKnown'
    BY <1>8 DEF DetachAll, Go, Room, TypeOK, Born, Named, EveryLiveSessionKnown, Known, InHands, Live
  <2>4. Spares
    BY <1>8 DEF DetachAll, Go, Spares, Room, TypeOK, Named, Watched, Known, Live, Shown, Ended, HungUp
  <2> QED BY <2>1, <2>2, <2>3, <2>4, SparedViews
<1> QED BY <1>1, <1>2, <1>3, <1>4, <1>5, <1>6, <1>7, <1>8 DEF Proceed

(* The steps of the idle watch, the timer, the socket and the main thread. *)
LEMMA StopMap ==
    ASSUME LifeInv, MapInv, Idle \/ TimerFires \/ SocketRemoved \/ MainStops
        \/ MainKills \/ MainGoes \/ UNCHANGED vars
    PROVE  MapInv'
<1> USE LifeAssumption DEF LifeInv, MapInv, vars, mapVars, stopVars, mainVars, watchVars,
                           threadVars, sessVars, past
<1>1. CASE IdleWakes
  <2>1. Room' /\ Rivals'
    BY <1>1 DEF IdleWakes, StillEnding, Room, Rivals, TypeOK, Named, Live
  <2>2. Kept' /\ Dying'
    BY <1>1 DEF IdleWakes, StillEnding, Room, Kept, Dying, Born, TypeOK, Named, Live
  <2>3. EveryLiveSessionKnown'
    BY <1>1 DEF IdleWakes, StillEnding, Room, TypeOK, Born, Named, EveryLiveSessionKnown, Known, InHands, Live
  <2>4. Spares
    BY <1>1 DEF IdleWakes, StillEnding, Spares, Room, TypeOK, Named, Watched, Known, Live, Shown, Ended, HungUp
  <2> QED BY <2>1, <2>2, <2>3, <2>4, SparedViews
<1>2. CASE MainKills
  <2>1. Room' /\ Rivals'
    BY <1>2 DEF MainKills, KillSession, Room, Rivals, TypeOK, Named, Live
  <2>2. Kept' /\ Dying'
    BY <1>2 DEF MainKills, KillSession, Room, Kept, Dying, Born, TypeOK, Named, Live
  <2>3. EveryLiveSessionKnown'
    BY <1>2 DEF MainKills, KillSession, Room, TypeOK, Born, Named, EveryLiveSessionKnown, Known, InHands, Live
  <2>4. Spares
    BY <1>2 DEF MainKills, KillSession, Spares, Room, TypeOK, Named, Watched, Known, Live, Shown, Ended, HungUp
  <2> QED BY <2>1, <2>2, <2>3, <2>4, SparedViews
<1>3. CASE IdleTimePasses \/ IdleStops \/ TimerFires \/ SocketRemoved \/ MainStops
    \/ MainGoes \/ UNCHANGED vars
  BY <1>3 DEF IdleTimePasses, IdleStops, TimerFires, SocketRemoved, MainStops, MainGoes,
              Room, Rivals, Kept, Dying, EveryLiveSessionKnown, ViewsAreServed, Known, InHands, Live,
              Shown, Ended, HungUp
<1> QED BY <1>1, <1>2, <1>3 DEF Idle

LEMMA NextMap == ASSUME LifeInv, MapInv, [Next]_vars PROVE MapInv'
BY SessionMap, RequestMap, ProceedMap, StopMap DEF Next

(* Whatever the connections ask and however their requests cross, no session that lives is
   lost to the daemon unless another was being started in its place as it was entered
   (server.rs: the check before the start and the entry after it) ... *)
THEOREM NoLiveSessionLost == Spec => []EveryLiveSessionKnown
<1>1. Init => LifeInv /\ MapInv
  BY InitLife, InitMap
<1>2. LifeInv /\ MapInv /\ [Next]_vars => LifeInv' /\ MapInv'
  BY NextLife, NextMap
<1>3. LifeInv /\ MapInv => EveryLiveSessionKnown
  BY DEF MapInv
<1> QED BY <1>1, <1>2, <1>3, PTL DEF Spec

(* ... and whoever is shown one is shown a session the daemon can find, or one whose end is
   about to be told, or, having attached as it was ended, one that is dying. *)
THEOREM NoViewOrphaned == Spec => []ViewsAreServed
<1>1. Init => LifeInv /\ MapInv
  BY InitLife, InitMap
<1>2. LifeInv /\ MapInv /\ [Next]_vars => LifeInv' /\ MapInv'
  BY NextLife, NextMap
<1>3. LifeInv /\ MapInv => ViewsAreServed
  BY DEF MapInv
<1> QED BY <1>1, <1>2, <1>3, PTL DEF Spec

-----------------------------------------------------------------------------
(* What holds of a daemon that stops. *)

(* What the main thread listed is all that still lives, but for what it could not list. *)
Listed ==
    /\ main # "accept" => \A s \in Sess : st[s] = "live" => s \in reaping \cup late \cup raced
    /\ main = "down" => \A s \in Sess : st[s] = "live" => s \in late \cup raced

LEMMA InitListed == Init => Listed
BY DEF Init, Listed

LEMMA NextListed ==
    ASSUME LifeInv, EveryLiveSessionKnown, Listed, [Next]_vars
    PROVE  Listed'
<1> USE DEF LifeInv, TypeOK, Listed, sessVars, past, mapVars, stopVars, mainVars, watchVars,
            threadVars
<1>1. CASE UNCHANGED vars
  BY <1>1 DEF vars
<1>2. ASSUME NEW b \in Conns, Connect(b) \/ Disconnect(b) \/ Request(b) PROVE Listed'
  BY <1>2 DEF Connect, Disconnect, Request, Spawn, Attach, Detach, Kill, Forget, CloseIdle,
              Shutdown
<1>3. ASSUME NEW b \in Conns, Proceed(b) PROVE Listed'
  <2>1. CASE StartSession(b)
    BY <1>3, <2>1 DEF StartSession, Proceed
  <2> QED BY <1>3, <2>1 DEF Proceed, Insert, AttachView, End, Hangup, Retire, CloseSession,
                            DetachAll
<1>4. ASSUME NEW s \in Sess, ShellExits(s) \/ Session(s) PROVE Listed'
  BY <1>4 DEF ShellExits, Session, Finish, SessionEnded, Escalate
<1>5. CASE Idle \/ TimerFires \/ SocketRemoved
  BY <1>5 DEF Idle, IdleWakes, IdleTimePasses, IdleStops, TimerFires, SocketRemoved
<1>6. CASE MainStops
  BY <1>6 DEF MainStops, EveryLiveSessionKnown
<1>7. CASE MainKills \/ MainGoes
  BY <1>7 DEF MainKills, MainGoes
<1> QED BY <1>1, <1>2, <1>3, <1>4, <1>5, <1>6, <1>7 DEF Next

(* However it is stopped, the daemon leaves nothing running behind it that was in its map or
   among those ending when it listed what to end (server.rs, the end of run): what it leaves was in
   the hands of a request just then, was started later, or was lost to another of its id. *)
THEOREM NoSessionOutlives == Spec => []NothingOutlives
<1>1. Init => LifeInv /\ MapInv /\ Listed
  BY InitLife, InitMap, InitListed
<1>2. LifeInv /\ MapInv /\ Listed /\ [Next]_vars => LifeInv' /\ MapInv' /\ Listed'
  BY NextLife, NextMap, NextListed DEF MapInv
<1>3. LifeInv /\ Listed => NothingOutlives
  BY DEF LifeInv, TypeOK, Born, Listed, NothingOutlives
<1> QED BY <1>1, <1>2, <1>3, PTL DEF Spec
=============================================================================
