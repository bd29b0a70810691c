----------------------------- MODULE DaemonLife -----------------------------
(***************************************************************************)
(* The daemon's sessions from spawn to reaping, and the daemon's own life. *)
(*                                                                         *)
(* The threads: one per connection, serving its requests in order, with    *)
(* the steps of a request interleaving with everything else; per session   *)
(* one that waits for the shell and one that escalates a kill; the idle    *)
(* watch; the timer of a Shutdown; and the main thread, which accepts      *)
(* connections and, told to stop, ends every session before it goes.       *)
(***************************************************************************)
EXTENDS Naturals, FiniteSets

CONSTANTS
    Ids,             \* terminal ids
    MaxConns,        \* bound: connections ever accepted
    MaxSess,         \* bound: sessions ever started
    OneStop,         \* bound: nothing else stops a daemon about to stop
    OverflowChecks   \* the build panics on arithmetic overflow

ASSUME LifeAssumption ==
    /\ MaxSess \in Nat /\ MaxConns \in Nat
    /\ OneStop \in BOOLEAN /\ OverflowChecks \in BOOLEAN
    /\ IsFiniteSet(Ids) /\ Ids # {}

Sess == 1 .. MaxSess
Conns == 1 .. MaxConns   \* ClientId: a connection's is never used again
None == 0

VARIABLES
    \* Sessions.
    started,   \* sessions started so far are 1 .. started
    sid,       \* sid[s]: the terminal id of session s
    st,        \* st[s]: "unborn", "live" or "exited"
    shell,     \* shell[s]: its processes are "none", "running" or "gone"
    killed,    \* sessions ended at the user's request (user_killed), hung up with that
    views,     \* views[s]: connections attached to it
    ended,     \* exited sessions whose end the daemon has still to look at
    \* The daemon.
    map,       \* map[i]: the session with id i, or None
    ending,    \* sessions killed whose processes may not have gone yet
    reg,       \* connections in the registry
    stopping,
    timer,     \* a Shutdown's thread is about to stop the daemon
    main,      \* "accept", "end", "reap" or "down"
    toEnd,     \* sessions the main thread has still to kill
    reaping,   \* sessions it waits for
    idle,      \* the idle watch: "sleep", "quit" or "dead"
    since,     \* how long the daemon is idle: "no", "yes" or "due", for long enough
    endpoint,  \* the socket is still there
    \* The serving threads.
    pc, obj, arg,
    \* What has crossed, which no code keeps.
    raced,     \* sessions being entered while another request was starting their terminal
    crossed,   \* <<s, c>>: session s was ended while connection c was attaching to it
    late       \* sessions in a request's hands when the daemon listed what to end, or later ones

past == <<raced, crossed, late>>
sessVars == <<past, started, sid, st, shell, killed, views, ended>>
mapVars == <<map, ending, reg>>
mainVars == <<main, toEnd, reaping>>
watchVars == <<idle, since>>
stopVars == <<stopping, timer, endpoint, mainVars, watchVars>>
threadVars == <<pc, obj, arg>>
vars == <<sessVars, mapVars, stopVars, threadVars>>

Known == {map[i] : i \in Ids} \ {None}
Live(s) == s # None /\ st[s] = "live"
InHands == {obj[c] : c \in {d \in Conns : pc[d] \in {"insert", "end", "kill", "retire"}}}
Starting(i) == {c \in Conns : pc[c] \in {"spawn", "insert"} /\ arg[c] = i}
Entering(i) == {obj[c] : c \in {d \in Conns : pc[d] = "insert" /\ arg[d] = i}}
StopOnItsWay == stopping \/ timer \/ idle = "quit" \/ ~endpoint

Init ==
    /\ started = 0 /\ sid = [s \in Sess |-> CHOOSE i \in Ids : TRUE]
    /\ st = [s \in Sess |-> "unborn"] /\ shell = [s \in Sess |-> "none"]
    /\ killed = {} /\ ended = {} /\ views = [s \in Sess |-> {}]
    /\ map = [i \in Ids |-> None] /\ ending = {} /\ reg = {}
    /\ stopping = FALSE /\ timer = FALSE /\ main = "accept" /\ toEnd = {} /\ reaping = {}
    /\ idle = "sleep" /\ since = "no" /\ endpoint = TRUE
    /\ pc = [c \in Conns |-> "new"] /\ obj = [c \in Conns |-> None]
    /\ arg = [c \in Conns |-> CHOOSE i \in Ids : TRUE]
    /\ raced = {} /\ crossed = {} /\ late = {}

-----------------------------------------------------------------------------
(* The life of one session. *)

(* The shell exits of itself, or of the hangup; it need not do either. *)
ShellExits(s) ==
    /\ shell[s] = "running" /\ shell' = [shell EXCEPT ![s] = "gone"]
    /\ UNCHANGED <<past, started, sid, st, killed, views, ended, mapVars, stopVars, threadVars>>

(* The wait thread has seen the shell go: the views are told and detached. *)
Finish(s) ==
    /\ st[s] = "live" /\ shell[s] = "gone"
    /\ st' = [st EXCEPT ![s] = "exited"] /\ views' = [views EXCEPT ![s] = {}]
    /\ ended' = ended \cup {s}
    /\ UNCHANGED <<past, started, sid, shell, killed, mapVars, stopVars, threadVars>>

(* Mutant: what ended is forgotten by id if it was killed, whoever has the id. *)
SessionEndedOwn(s) ==
    /\ s \in ended /\ ended' = ended \ {s}
    /\ map' = IF s \in killed THEN [map EXCEPT ![sid[s]] = None] ELSE map
    /\ UNCHANGED <<past, started, sid, st, shell, killed, views, ending, reg, stopVars, threadVars>>

(* The daemon looks at the end by id: a session the user ended is forgotten,
   one that ended on its own is kept until a client has read it. *)
SessionEnded(s) ==
    /\ s \in ended /\ ended' = ended \ {s}
    /\ LET now == map[sid[s]] IN
       map' = IF now # None /\ st[now] = "exited" /\ now \in killed
              THEN [map EXCEPT ![sid[s]] = None] ELSE map
    /\ UNCHANGED <<past, started, sid, st, shell, killed, views, ending, reg, stopVars, threadVars>>

(* Session::kill: unless it has exited, mark it and hang its processes up. *)
KillSession(s) == killed' = IF st[s] = "exited" THEN killed ELSE killed \cup {s}

(* Mutant: only a session still in the map is killed outright. *)
EscalateKnown(s) ==
    /\ st[s] = "live" /\ s \in killed /\ s \in Known
    /\ shell[s] = "running" /\ shell' = [shell EXCEPT ![s] = "gone"]
    /\ UNCHANGED <<past, started, sid, st, killed, views, ended, mapVars, stopVars, threadVars>>

(* What ignored the hangup for 1.5 s is killed outright. *)
Escalate(s) ==
    /\ st[s] = "live" /\ s \in killed
    /\ shell[s] = "running" /\ shell' = [shell EXCEPT ![s] = "gone"]
    /\ UNCHANGED <<past, started, sid, st, killed, views, ended, mapVars, stopVars, threadVars>>

-----------------------------------------------------------------------------
(* Connections and their requests. *)

Go(c, where, s) == pc' = [pc EXCEPT ![c] = where] /\ obj' = [obj EXCEPT ![c] = s]

(* Connection c may begin a request about terminal i. *)
Begins(c, i) ==
    /\ pc[c] = "ready" /\ main # "down"
    /\ arg' = [arg EXCEPT ![c] = i]

Connect(c) ==
    /\ pc[c] = "new" /\ \A d \in 1 .. c - 1 : pc[d] # "new"
    /\ main = "accept" /\ ~stopping /\ endpoint
    /\ reg' = reg \cup {c} /\ Go(c, "ready", None)
    /\ UNCHANGED <<sessVars, map, ending, stopVars, arg>>

Disconnect(c) ==
    /\ pc[c] = "ready" /\ main # "down" /\ reg' = reg \ {c} /\ Go(c, "leaving", None)
    /\ UNCHANGED <<sessVars, map, ending, stopVars, arg>>

(* The connection's views are detached from every session of the map. *)
DetachAll(c) ==
    /\ pc[c] = "leaving" /\ Go(c, "off", None)
    /\ views' = [s \in Sess |-> IF s \in Known THEN views[s] \ {c} ELSE views[s]]
    /\ UNCHANGED <<past, started, sid, st, shell, killed, ended, mapVars, stopVars, arg>>

(* Mutant: a live session with the id does not refuse the spawn. *)
SpawnUnchecked(c, i) ==
    /\ Begins(c, i) /\ Go(c, "spawn", None)
    /\ raced' = raced \cup Entering(i) /\ UNCHANGED <<crossed, late>>
    /\ UNCHANGED <<started, sid, st, shell, killed, views, ended, mapVars, stopVars>>

(* Spawn: refused while a live session has the id; the session is started
   without the lock, then entered under its id, then attached. *)
Spawn(c, i) ==
    /\ Begins(c, i) /\ ~Live(map[i]) /\ Go(c, "spawn", None)
    /\ raced' = raced \cup Entering(i) /\ UNCHANGED <<crossed, late>>
    /\ UNCHANGED <<started, sid, st, shell, killed, views, ended, mapVars, stopVars>>

StartSession(c) ==
    /\ pc[c] = "spawn"
    /\ \/ /\ started < MaxSess /\ started' = started + 1
          /\ sid' = [sid EXCEPT ![started'] = arg[c]]
          /\ st' = [st EXCEPT ![started'] = "live"]
          /\ shell' = [shell EXCEPT ![started'] = "running"]
          /\ Go(c, "insert", started')
          /\ raced' = IF Starting(arg[c]) = {c} THEN raced
                      ELSE raced \cup Entering(arg[c]) \cup {started'}
          /\ late' = IF main = "accept" THEN late ELSE late \cup {started'}
       \/ Go(c, "ready", None)   \* it could not start
          /\ UNCHANGED <<raced, late, started, sid, st, shell>>
    /\ UNCHANGED <<crossed, killed, views, ended, mapVars, stopVars, arg>>

Insert(c) ==
    /\ pc[c] = "insert" /\ map' = [map EXCEPT ![arg[c]] = obj[c]]
    /\ Go(c, "attach", obj[c])
    /\ UNCHANGED <<sessVars, ending, reg, stopVars, arg>>

Attach(c, i) ==
    /\ Begins(c, i) /\ map[i] # None /\ Go(c, "attach", map[i])
    /\ UNCHANGED <<sessVars, mapVars, stopVars>>

(* Mutant: an exited session is attached to as well. *)
AttachViewExited(c) ==
    /\ pc[c] = "attach" /\ Go(c, "ready", None)
    /\ views' = [views EXCEPT ![obj[c]] = @ \cup {c}]
    /\ UNCHANGED <<past, started, sid, st, shell, killed, ended, mapVars, stopVars, arg>>

AttachView(c) ==
    /\ pc[c] = "attach" /\ Go(c, "ready", None)
    /\ views' = IF Live(obj[c]) THEN [views EXCEPT ![obj[c]] = @ \cup {c}] ELSE views
    /\ UNCHANGED <<past, started, sid, st, shell, killed, ended, mapVars, stopVars, arg>>

Detach(c, i) ==
    /\ Begins(c, i) /\ map[i] # None /\ c \in views[map[i]]
    /\ views' = [views EXCEPT ![map[i]] = @ \ {c}]
    /\ UNCHANGED <<past, started, sid, st, shell, killed, ended, mapVars, stopVars, pc, obj>>

(* Kill: the id is free at once; the session's views are told and detached,
   its processes signalled, and the daemon remembers to wait for it. *)
Kill(c, i) ==
    /\ Begins(c, i) /\ map[i] # None
    /\ map' = [map EXCEPT ![i] = None] /\ Go(c, "end", map[i])
    /\ crossed' = crossed \cup {<<map[i], d>> : d \in {b \in Conns : pc[b] = "attach" /\ obj[b] = map[i]}}
    /\ UNCHANGED <<raced, late, started, sid, st, shell, killed, views, ended, ending, reg, stopVars>>

End(c) ==
    /\ pc[c] = "end" /\ Go(c, "kill", obj[c])
    /\ views' = IF Live(obj[c]) THEN [views EXCEPT ![obj[c]] = {}] ELSE views
    /\ UNCHANGED <<past, started, sid, st, shell, killed, ended, mapVars, stopVars, arg>>

Hangup(c) ==
    /\ pc[c] = "kill" /\ KillSession(obj[c]) /\ Go(c, "retire", obj[c])
    /\ UNCHANGED <<past, started, sid, st, shell, views, ended, mapVars, stopVars, arg>>

Retire(c) ==
    /\ pc[c] = "retire" /\ ending' = ending \cup {obj[c]} /\ Go(c, "ready", None)
    /\ UNCHANGED <<sessVars, map, reg, stopVars, arg>>

Forget(c, i) ==
    /\ Begins(c, i) /\ map[i] # None /\ st[map[i]] = "exited"
    /\ map' = [map EXCEPT ![i] = None]
    /\ UNCHANGED <<sessVars, ending, reg, stopVars, pc, obj>>

(* CloseIdle, for one terminal found live and not busy. *)
CloseIdle(c, i) ==
    /\ Begins(c, i) /\ Live(map[i]) /\ Go(c, "close", map[i])
    /\ UNCHANGED <<sessVars, mapVars, stopVars>>

CloseSession(c) ==
    /\ pc[c] = "close" /\ KillSession(obj[c]) /\ Go(c, "ready", None)
    /\ UNCHANGED <<past, started, sid, st, shell, views, ended, mapVars, stopVars, arg>>

(* Mutant: those that have exited are never let go of. *)
StillEndingAll == ending

(* live_sessions: those of the map, and those ending, that have not exited. *)
StillEnding == {s \in ending : st[s] # "exited"}
LiveSessions == Cardinality({i \in Ids : Live(map[i])}) + Cardinality(StillEnding)

(* Shutdown: refused without kill_all while sessions live. *)
Shutdown(c, killAll) ==
    /\ pc[c] = "ready" /\ main # "down"
    /\ killAll \/ LiveSessions = 0
    /\ OneStop => ~StopOnItsWay
    /\ timer' = TRUE
    /\ ending' = IF killAll THEN ending ELSE StillEnding
    /\ UNCHANGED <<sessVars, map, reg, stopping, mainVars, watchVars, endpoint, threadVars>>

-----------------------------------------------------------------------------
(* Stopping. *)

TimerFires ==
    /\ timer /\ timer' = FALSE /\ stopping' = TRUE
    /\ UNCHANGED <<sessVars, mapVars, mainVars, watchVars, endpoint, threadVars>>

(* The socket file is deleted from outside. *)
SocketRemoved ==
    /\ endpoint /\ endpoint' = FALSE /\ main # "down"
    /\ OneStop => ~StopOnItsWay
    /\ UNCHANGED <<sessVars, mapVars, stopping, timer, mainVars, watchVars, threadVars>>

(* Mutant: a daemon that is not idle does not look at its socket. *)
IdleWakesBusyFirst ==
    /\ idle = "sleep" /\ ~stopping
    /\ ending' = StillEnding
    /\ IF reg # {} \/ LiveSessions > 0 THEN since' = "no" /\ UNCHANGED <<idle, stopping>>
       ELSE IF ~endpoint THEN stopping' = TRUE /\ UNCHANGED <<idle, since>>
       ELSE /\ since' = IF since = "no" THEN "yes" ELSE since
            /\ idle' = IF since = "due" THEN "quit" ELSE "sleep"
            /\ UNCHANGED stopping
    /\ UNCHANGED <<sessVars, map, reg, timer, mainVars, endpoint, threadVars>>

(* The idle watch wakes.  A socket that is gone stops the daemon at once.  Else
   it counts the clients and the live sessions (at one instant here), takes the
   live from the sessions of the map to know the exits nobody has read, and
   having found the daemon idle for long enough goes on to stop it. *)
IdleWakes ==
    /\ idle = "sleep" /\ ~stopping
    /\ IF ~endpoint THEN stopping' = TRUE /\ UNCHANGED <<ending, idle, since>>
       ELSE /\ ending' = StillEnding /\ UNCHANGED stopping
            /\ IF OverflowChecks /\ Cardinality({i \in Ids : map[i] # None}) < LiveSessions
               THEN idle' = "dead" /\ UNCHANGED since
               ELSE IF reg # {} \/ LiveSessions > 0 THEN since' = "no" /\ UNCHANGED idle
               ELSE /\ since' = IF since = "no" THEN "yes" ELSE since
                    /\ idle' = IF since = "due" THEN "quit" ELSE "sleep"
    /\ UNCHANGED <<sessVars, map, reg, timer, mainVars, endpoint, threadVars>>

IdleTimePasses ==
    /\ since = "yes" /\ since' = "due"
    /\ UNCHANGED <<sessVars, mapVars, stopping, timer, mainVars, idle, endpoint, threadVars>>

IdleStops ==
    /\ idle = "quit" /\ idle' = "sleep" /\ stopping' = TRUE
    /\ UNCHANGED <<sessVars, mapVars, timer, mainVars, since, endpoint, threadVars>>

(* Mutant: the sessions killed just before are neither ended nor waited for. *)
MainStopsForgetsEnding ==
    /\ main = "accept" /\ stopping /\ main' = "end"
    /\ toEnd' = Known /\ reaping' = Known
    /\ late' = InHands
    /\ UNCHANGED <<raced, crossed, started, sid, st, shell, killed, views, ended, mapVars, stopping,
                   timer, watchVars, endpoint, threadVars>>

(* The accept loop ends: the sessions of the map and those ending are listed,
   each is killed, and the daemon waits for all of them. *)
MainStops ==
    /\ main = "accept" /\ stopping /\ main' = "end"
    /\ toEnd' = Known \cup ending /\ reaping' = Known \cup ending
    /\ late' = InHands
    /\ UNCHANGED <<raced, crossed, started, sid, st, shell, killed, views, ended, mapVars, stopping,
                   timer, watchVars, endpoint, threadVars>>

MainKills ==
    /\ main = "end"
    /\ \/ \E s \in toEnd : KillSession(s) /\ toEnd' = toEnd \ {s} /\ UNCHANGED main
       \/ toEnd = {} /\ main' = "reap" /\ UNCHANGED <<toEnd, killed>>
    /\ UNCHANGED <<past, started, sid, st, shell, views, ended, mapVars, stopping, timer, endpoint,
                   reaping,
                   watchVars, threadVars>>

(* The wait is bounded by 3 s, twice what an escalated kill takes. *)
MainGoes ==
    /\ main = "reap" /\ \A s \in reaping : st[s] = "exited"
    /\ main' = "down"
    /\ UNCHANGED <<sessVars, mapVars, stopping, timer, toEnd, reaping, watchVars, endpoint,
                   threadVars>>

Request(c) ==
    \/ \E i \in Ids :
          \/ Spawn(c, i) \/ Attach(c, i) \/ Detach(c, i) \/ Kill(c, i)
          \/ Forget(c, i) \/ CloseIdle(c, i)
    \/ \E all \in BOOLEAN : Shutdown(c, all)

(* The rest of a request that has begun. *)
Proceed(c) ==
    /\ main # "down"
    /\ \/ StartSession(c) \/ Insert(c) \/ AttachView(c)
       \/ End(c) \/ Hangup(c) \/ Retire(c) \/ CloseSession(c) \/ DetachAll(c)

Session(s) == main # "down" /\ (Finish(s) \/ SessionEnded(s) \/ Escalate(s))

Idle == main # "down" /\ (IdleWakes \/ IdleTimePasses \/ IdleStops)

Next ==
    \/ \E c \in Conns : Connect(c) \/ Disconnect(c) \/ Request(c) \/ Proceed(c)
    \/ \E s \in Sess : ShellExits(s) \/ Session(s)
    \/ Idle \/ (main # "down" /\ TimerFires) \/ SocketRemoved
    \/ MainStops \/ MainKills \/ MainGoes

Spec == Init /\ [][Next]_vars

(* The threads keep running; nobody must ask for anything, and no shell exits
   unless it is killed outright. *)
Fairness ==
    /\ \A c \in Conns : WF_vars(Proceed(c))
    /\ \A s \in Sess :
          /\ WF_vars(main # "down" /\ Finish(s))
          /\ WF_vars(main # "down" /\ SessionEnded(s))
          /\ WF_vars(main # "down" /\ Escalate(s))
    /\ WF_vars(main # "down" /\ IdleTimePasses)
    /\ WF_vars(main # "down" /\ (IdleWakes \/ IdleStops))
    /\ WF_vars(main # "down" /\ TimerFires)
    /\ WF_vars(MainStops) /\ WF_vars(MainKills) /\ WF_vars(MainGoes)

-----------------------------------------------------------------------------
(* No live session is lost to the daemon: it is in the map, among those ending,
   or in the hands of the thread that is entering it or ending it (Spawn's check
   and insert, Kill's remove and push, and the pruning of the ending ones lie
   between).  Only one that was being entered while another request was starting
   the same terminal may be, entered under the other: the check is not made again. *)
EveryLiveSessionKnown ==
    \A s \in Sess : st[s] = "live" => s \in Known \cup ending \cup InHands \cup raced

(* A view is only ever attached to a live session of the map, for a connection
   still there; else the thread ending that session is about to detach it.  So
   no terminal shows one that is dying, and no view that is gone holds the size
   of one that lives; but for one that was attaching as its session was ended,
   which keeps a view of it till it is dead, and sessions entered at once. *)
Ended(s) == \E d \in Conns : obj[d] = s /\ pc[d] = "end"
HungUp(s) == s \in killed \/ \E d \in Conns : obj[d] = s /\ pc[d] = "kill"
Shown(s, c) == st[s] = "live" /\ s \in Known /\ pc[c] # "off"
ViewsAreServed ==
    \A s \in Sess : \A c \in views[s] :
        Shown(s, c) \/ Ended(s) \/ (<<s, c>> \in crossed /\ HungUp(s)) \/ s \in raced

(* A session's end takes a terminal out of the map only if the session now
   there was ended by the user: never one started since under the same id, and
   never an exit nobody has read. *)
EndForgetsOnlyKilled ==
    [][\A s \in Sess : s \in ended /\ s \notin ended' =>
          \A i \in Ids : map'[i] # map[i] => st[map[i]] = "exited" /\ map[i] \in killed]_vars

(* Nothing a daemon that has gone ever started is still running: those of the
   map and those killed just before are ended and waited for.  What it misses
   was in the hands of a request as it listed them, or was started after, or
   was lost to another of the same terminal. *)
NothingOutlives ==
    main = "down" => \A s \in Sess \ (late \cup raced) : st[s] # "live" /\ shell[s] # "running"

(* Whatever the user ended dies, even when it ignores the hangup; only a daemon
   that goes first, not having listed it, leaves it be. *)
KilledDies ==
    \A s \in Sess : s \in killed ~> st[s] = "exited" \/ (main = "down" /\ s \in late \cup raced)

(* Left for good without a client and without a live session, the daemon goes
   by itself, whatever ended sessions it still holds. *)
IdleExits == <>[](reg = {} /\ \A s \in Sess : st[s] # "live") => <>(main = "down")

(* Once its socket is gone no client can reach its terminals again: the daemon
   ends them and goes, clients or not. *)
SocketGoneEnds == ~endpoint ~> main = "down"
=============================================================================
