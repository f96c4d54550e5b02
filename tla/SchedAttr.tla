------------------------------ MODULE SchedAttr ------------------------------
(***************************************************************************)
(* The scheduling attributes the daemon changes (src/src/main.rs,          *)
(* src/src/config.rs), as the kernel keeps them for a thread:              *)
(*                                                                         *)
(*   policy  SCHED_OTHER, SCHED_FIFO or SCHED_IDLE                         *)
(*   nice    the nice value                                                *)
(*   reset   SCHED_FLAG_RESET_ON_FORK                                      *)
(***************************************************************************)
EXTENDS Integers

REALTIME_NICE == -20
BOOST_NICE == -7
LOW_PRIORITY_NICE == 19

Policies == {"OTHER", "FIFO", "IDLE"}
Nices == {REALTIME_NICE, BOOST_NICE, 0, LOW_PRIORITY_NICE}

\* set_scheduler: setpriority, then sched_setattr.
SetScheduler(s, policy, nice, reset) ==
    [s EXCEPT !.policy = policy, !.nice = nice, !.reset = reset]

\* What the kernel gives a child of something with attributes s.
Inherited(s) ==
    IF ~s.reset THEN s
    ELSE [s EXCEPT !.policy = IF @ = "FIFO" THEN "OTHER" ELSE @,
                   !.nice = IF @ < 0 THEN 0 ELSE @,
                   !.reset = FALSE]

=============================================================================
