------------------------------ MODULE MCPtySize ------------------------------
(* Small instances of PtySize. *)
EXTENDS PtySize
MCCols == {2, 3}
MCRows == {1, 2}
=============================================================================
