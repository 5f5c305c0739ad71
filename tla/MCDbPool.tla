------------------------------- MODULE MCDbPool -------------------------------
(***************************************************************************)
(* Small instances of DbPool for TLC.                                      *)
(***************************************************************************)
EXTENDS DbPool
==============================================================================
