---------------------------- MODULE MCParentWalk ----------------------------
(* Every cache of three pids for TLC.                                      *)
EXTENDS ParentWalk
=============================================================================
