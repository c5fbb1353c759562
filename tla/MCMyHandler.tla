----------------------------- MODULE MCMyHandler -----------------------------
(***************************************************************************)
(* Small instances of MyHandler: two column names and the empty one.       *)
(***************************************************************************)
EXTENDS MyHandler

=============================================================================
