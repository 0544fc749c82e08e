------------------------------- MODULE MCTasks -------------------------------
(* Small process tables for TLC: see the MCTasks*.cfg files.                 *)
EXTENDS Tasks
=============================================================================
