---------------------------- MODULE MCDaemonLife ----------------------------
(***************************************************************************)
(* Small instances of DaemonLife: one of requests that race, in a daemon   *)
(* nothing stops, and one of a daemon that is stopped in every way, with   *)
(* fewer requests and connections that stay once it ends its sessions.     *)
(***************************************************************************)
EXTENDS DaemonLife

CONSTANTS
    MaxRacing,     \* bound: requests and departures where nothing stops the daemon
    MaxStopping    \* bound: requests where something may

VARIABLES instance, asked

MCVars == <<vars, instance, asked>>

Asks == \E c \in Conns :
    pc[c] = "ready" /\ pc'[c] \notin IF instance = "racing" THEN {"ready"} ELSE {"ready", "leaving"}

Leaves == \E c \in Conns : pc'[c] = "leaving" /\ pc[c] # "leaving"

MCInit == Init /\ instance \in {"racing", "stopping"} /\ asked = 0

MCNext ==
    /\ Next /\ UNCHANGED instance
    /\ asked' = IF Asks THEN asked + 1 ELSE asked
    /\ \/ instance = "stopping" /\ asked' =< MaxStopping /\ (main # "accept" => ~Leaves)
       \/ instance = "racing" /\ asked' =< MaxRacing /\ endpoint' /\ ~timer' /\ since' = "no"

MCSpec == MCInit /\ [][MCNext]_MCVars /\ Fairness
=============================================================================
