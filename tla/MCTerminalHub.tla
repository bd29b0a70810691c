---------------------------- MODULE MCTerminalHub ----------------------------
(***************************************************************************)
(* Small instances of TerminalHub.  Two are checked side by side: "apart", *)
(* where the ends of terminals cross with nothing and connections are lost *)
(* with whatever is on them, and "mixing", where they cross in every way   *)
(* on one connection with fewer requests.                                  *)
(***************************************************************************)
EXTENDS TerminalHub

CONSTANTS
    MaxMixing   \* bound: MaxIds of "mixing"

VARIABLES
    instance

MCInit == Init /\ instance \in {"apart", "mixing"}

(* What the user and the daemon ask for of their own accord. *)
AskedFor == PollDirectories \/ \E p \in Panels : MakeTerminal(p) \/ Restart(p) \/ Overflows(p)

MCNext ==
    /\ Next /\ UNCHANGED instance
    /\ instance = "apart" => mixed' = {}
    /\ instance = "mixing" => losses' = 0 /\ (nextId > MaxMixing => ~AskedFor)

MCSpec == MCInit /\ [][MCNext]_<<vars, instance>> /\ Fairness
=============================================================================
