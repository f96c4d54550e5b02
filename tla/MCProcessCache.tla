--------------------------- MODULE MCProcessCache ---------------------------
(* A bounded instance of ProcessCache for TLC: three processes of one pid;  *)
(* a thread that gets a pid's number; a family.                             *)
EXTENDS ProcessCache, TLC

CONSTANTS app, wm

Spending(exec, thread, use2, use3) ==
    [exec |-> exec, thread |-> thread, use |-> 1 :> 1 @@ 2 :> use2 @@ 3 :> use3]

MCBudgets == {Spending(2, 0, 3, 0), Spending(0, 1, 2, 0), Spending(0, 0, 2, 1)}

=============================================================================
