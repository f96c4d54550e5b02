------------------------------- MODULE Policy -------------------------------
(***************************************************************************)
(* Which scheduling attributes a process gets: update_single_process and   *)
(* the four set_* functions (src/src/main.rs), with the attributes the     *)
(* kernel keeps per process.  A process counts as a single thread here     *)
(* (module SetAll takes its threads apart); besides the attributes of the  *)
(* thread it has                                                           *)
(*                                                                         *)
(*   group   the nice value of the process's autogroup                     *)
(***************************************************************************)
EXTENDS Ancestry, SchedAttr

CONSTANT LowExe     \* LOW_PRIORITY_PROCESSES

FORCE_ASSIGN_NORMAL_SCHEDULER == TRUE

Sched == [policy : Policies,
          nice : Nices,
          reset : BOOLEAN,
          group : {REALTIME_NICE, 0}]

\* What a process has that the daemon has never touched.
Untouched == [policy |-> "OTHER", nice |-> 0, reset |-> FALSE, group |-> 0]

SetAutogroup(s, nice) == [s EXCEPT !.group = nice]

\* The executables excluded from real time keep their policy and only get
\* the nice value.
SetRealtime(h, s) ==
    LET t == IF h.exe \in ExcludeRealtime THEN s
             ELSE SetScheduler(s, "FIFO", REALTIME_NICE, TRUE)
    IN  [SetAutogroup(t, REALTIME_NICE) EXCEPT !.nice = REALTIME_NICE]

\* Mutant: the nice value has lost its sign.
SetBoostedSignLost(s) == SetScheduler(s, "OTHER", -BOOST_NICE, FALSE)

SetBoosted(s) == SetScheduler(s, "OTHER", BOOST_NICE, FALSE)

SetNormal(h, s) ==
    IF h.exe \in ExcludeRealtime THEN [s EXCEPT !.nice = REALTIME_NICE]
    ELSE SetScheduler(s, "OTHER", 0, FALSE)

SetLowPriority(s) == SetScheduler(s, "IDLE", LOW_PRIORITY_NICE, FALSE)

\* The branch update_single_process takes for handle h when the state is
\* (fg, client) and the cache is c.
Decide(h, fg, client, c) ==
    IF h.exe = NoExe THEN "none"
    ELSE IF IsCritical(h, client) THEN "realtime"
    ELSE IF ~IsChildOf(h, CriticalPids(c, client), c) THEN "none"
    ELSE IF IsEqualOrChildOf(h, {fg}, c) THEN "boosted"
    ELSE IF h.exe \in LowExe THEN "low"
    ELSE IF FORCE_ASSIGN_NORMAL_SCHEDULER THEN "normal"
    ELSE "none"

\* The attributes after update_single_process.
Update(h, fg, client, c, s) ==
    CASE Decide(h, fg, client, c) = "realtime" -> SetRealtime(h, s)
      [] Decide(h, fg, client, c) = "boosted"  -> SetBoosted(s)
      [] Decide(h, fg, client, c) = "low"      -> SetLowPriority(s)
      [] Decide(h, fg, client, c) = "normal"   -> SetNormal(h, s)
      [] OTHER                                 -> s

=============================================================================
