------------------------------ MODULE MCBackup ------------------------------
(***************************************************************************)
(* Small instances of Backup: two names of which one is registered, and    *)
(* two threads that move files.                                            *)
(***************************************************************************)
EXTENDS Backup

=============================================================================
