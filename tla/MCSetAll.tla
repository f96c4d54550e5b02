------------------------------- MODULE MCSetAll -------------------------------
(* A bounded instance of SetAll for TLC: an application with two threads,   *)
(* a second process with one, and numbers to spare.                         *)
EXTENDS SetAll, TLC

CONSTANTS app, other

MCLeader == app :> 1 @@ other :> 3
MCFirstTids == app :> {1, 2} @@ other :> {3}
MCFirstWant == {app :> "normal" @@ other :> "realtime",
                app :> "boosted" @@ other :> "none",
                app :> "excluded" @@ other :> "low"}
MCBudget == [clone |-> 1, end |-> 2, fault |-> 1, switch |-> 1, sig |-> 1]

===============================================================================
