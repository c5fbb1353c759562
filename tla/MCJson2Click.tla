---------------------------- MODULE MCJson2Click ----------------------------
(***************************************************************************)
(* Small instances of Json2Click: a file with a bad line and a good one,   *)
(* whose name comes again, and a file of one line.                         *)
(***************************************************************************)
EXTENDS Json2Click, TLC

CONSTANTS f1, f2

MCGood == f1 :> << <<FALSE, TRUE>>, <<TRUE>> >> @@ f2 :> << <<TRUE>> >>

\* Blocks of two rows and a delay of a second; blocks of one row; neither, one
\* output file for each file.
MCConfigs == {<<1, 2>>, <<0, 1>>, <<0, 0>>}
=============================================================================
