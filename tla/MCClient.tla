------------------------------- MODULE MCClient -------------------------------
(* A bounded instance of Client for TLC. *)
EXTENDS Client, TLC

MCBudget == [show |-> 2, mute |-> 1, crash |-> 2, kill |-> 1]

===============================================================================
