---------------------------- MODULE MCOomKiller ----------------------------
(* Bounded instances of OomKiller for TLC.                                 *)
EXTENDS OomKiller

CONSTANTS app, wm

=============================================================================
