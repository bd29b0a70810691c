----------------------------- MODULE OutputView -----------------------------
(***************************************************************************)
(* What a terminal promises of its output, as a view sees it (FR-005): the *)
(* view paints a growing stretch of what the program wrote, each byte at   *)
(* most once and none left out, unless it is owed a rebuild; a rebuild     *)
(* starts it afresh from a recent stretch.                                 *)
(*                                                                         *)
(* Bytes are numbered from 0 in the order the program wrote them.          *)
(***************************************************************************)
EXTENDS Naturals

CONSTANT MaxBytes       \* bound: bytes the program writes

VARIABLES
    end,        \* bytes written so far
    from,       \* where the stretch painted since the last rebuild starts
    upto,       \* where it ends
    missing,    \* some byte of from .. upto - 1 was left out
    owed        \* a rebuild is due, or no view is attached

vars == <<end, from, upto, missing, owed>>

Init == end = 0 /\ from = 0 /\ upto = 0 /\ missing = FALSE /\ owed = TRUE

(* The program writes; what it wrote may be dropped, which owes a rebuild. *)
Write ==
    /\ end' \in end + 1 .. MaxBytes
    /\ owed => owed'
    /\ owed' \in BOOLEAN
    /\ UNCHANGED <<from, upto, missing>>

(* The view paints what comes next; only a view that is owed a rebuild may
   paint with a hole before it. *)
Paint ==
    /\ upto' \in upto + 1 .. end
    /\ missing' \in BOOLEAN
    /\ missing => missing'
    /\ missing' => owed
    /\ UNCHANGED <<end, from, owed>>

(* The view is rebuilt from a stretch with no hole. *)
Rebuild ==
    /\ upto' \in 0 .. end /\ from' \in 0 .. upto'
    /\ missing' = FALSE /\ owed' \in BOOLEAN
    /\ UNCHANGED end

(* The connection is lost, or the view falls behind. *)
Owe == owed' = TRUE /\ UNCHANGED <<end, from, upto, missing>>

Next == Write \/ Paint \/ Rebuild \/ Owe

Spec == Init /\ [][Next]_vars
=============================================================================
