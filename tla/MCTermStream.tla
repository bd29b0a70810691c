---------------------------- MODULE MCTermStream ----------------------------
(* Small instances of TermStream. *)
EXTENDS TermStream
=============================================================================
