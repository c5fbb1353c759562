------------------------------ MODULE MCPipeSet ------------------------------
(***************************************************************************)
(* Small instances of PipeSet: two file names, two destinations.           *)
(***************************************************************************)
EXTENDS PipeSet, TLC

Symmetry == Permutations(Files)
=============================================================================
