------------------------------- MODULE MCTasks -------------------------------
(***************************************************************************)
(* Small instances of Tasks for TLC.                                       *)
(***************************************************************************)
EXTENDS Tasks
==============================================================================
