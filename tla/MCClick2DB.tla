----------------------------- MODULE MCClick2DB -----------------------------
(***************************************************************************)
(* Small instances of Click2DB: two files, a table whose second column may *)
(* be dropped, added, or altered to a type the data does not convert to.   *)
(***************************************************************************)
EXTENDS Click2DB, TLC

CONSTANTS f1, f2, a, b, int, str

MCFileCols == f1 :> {a, b} @@ f2 :> {a}
MCConvertible == {<<a, int>>, <<b, str>>}
MCSchemas == {{<<a, int>>}, {<<a, int>>, <<b, int>>}, {<<a, int>>, <<b, str>>}}
=============================================================================
