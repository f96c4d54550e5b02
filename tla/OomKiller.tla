----------------------------- MODULE OomKiller -----------------------------
(***************************************************************************)
(* The out-of-memory killer's thread (src/src/main.rs, src/src/oom.rs): it *)
(* waits for memory pressure, measures the free memory, picks the process  *)
(* of the cache that is not critical and uses most, and kills it through   *)
(* its pidfd until there is nothing left to kill.                          *)
(*                                                                         *)
(* Around it: processes that exec, exit and are reaped at any time, their  *)
(* memory (whatever a read returns), the cache the other threads keep      *)
(* (module ProcessCache), and the kernel's pressure counter and trigger.   *)
(* The running flag is left out: when it is cleared the process is about   *)
(* to end (module Daemon), and this thread with it.                        *)
(***************************************************************************)
EXTENDS ProcessTable

CONSTANTS
    CriticalExe,    \* CRITICAL_PROCESSES
    SelfPid,        \* the daemon's own pid
    Absent          \* no entry in the cache, no victim

ASSUME SelfAssumption == SelfPid \in Pid

VARIABLES
    cache,      \* cache[p] = [inc, exe]: the handle of the cache, or Absent
    locked,     \* does this thread have the cache's mutex?
    pressing,   \* is somebody stalled on memory now?
    full,       \* has the stall counter grown since mp.read?
    pc,         \* where the thread is; "dead" after a panic or its own signal
    lowSeen,    \* free_memory_kb <= total_memory_kb / 2, as last measured
    todo,       \* candidates not looked at yet
    open,       \* the one whose status file has just been opened, or 0
    best,       \* the candidate with the largest key so far, or Absent
    target,     \* the process the present or last kill was aimed at
    gaveUp      \* history: was that kill given up after 180 s?

psiVars == <<pressing, full>>
scanVars == <<todo, open, best>>
killVars == <<target, gaveUp>>
vars == <<kern, cache, locked, psiVars, pc, lowSeen, scanVars, killVars>>

LEMOND_SELF_REALTIME == FALSE

\* is_critical(handle, None)
IsCritical(p, h) ==
    IF p = SelfPid THEN LEMOND_SELF_REALTIME ELSE h.exe \in CriticalExe

\* Mutant: every process of the cache is a candidate.
AllCandidates == {p \in Pid : cache[p] # Absent}

Candidates == {p \in Pid : cache[p] # Absent /\ ~IsCritical(p, cache[p])}

\* Does the process the handle was opened on still exist (maybe as a zombie)?
Exists(p, inc) == kern[p].inc = inc /\ kern[p].st # "free"

------------------------------------------------------------------------------
(* The environment.                                                         *)

\* The daemon itself neither execs nor exits while this thread runs.
Processes ==
    /\ TableNext
    /\ kern'[SelfPid].st = kern[SelfPid].st /\ kern'[SelfPid].exe = kern[SelfPid].exe
    /\ UNCHANGED <<cache, locked, psiVars, pc, lowSeen, scanVars, killVars>>

\* Another thread stores a handle or drops one.
CacheChange(p) ==
    /\ ~locked
    /\ \/ /\ kern[p].st = "run"
          /\ cache' = [cache EXCEPT ![p] = [inc |-> kern[p].inc,
                                            exe |-> kern[p].exe]]
       \/ cache' = [cache EXCEPT ![p] = Absent]
    /\ UNCHANGED <<kern, locked, psiVars, pc, lowSeen, scanVars, killVars>>

Pressure ==
    /\ pressing' = ~pressing
    /\ full' = TRUE
    /\ UNCHANGED <<kern, cache, locked, pc, lowSeen, scanVars, killVars>>

------------------------------------------------------------------------------
(* The thread.                                                              *)

Step(from, to) == pc = from /\ pc' = to

\* mp.read(), for its effect on the next one.
ReadBefore ==
    /\ Step("start", "wait")
    /\ full' = pressing
    /\ UNCHANGED <<kern, cache, locked, pressing, lowSeen, scanVars, killVars>>

\* poll_pressure.wait() returns: the trigger has fired since the last time,
\* for a pressure that may be over by now.
Wait ==
    /\ Step("wait", "read")
    /\ UNCHANGED <<kern, cache, locked, psiVars, lowSeen, scanVars, killVars>>

\* pressure = mp.read(); without any the loop starts again.
ReadAfter ==
    /\ Step("read", IF full THEN "measure" ELSE "start")
    /\ full' = pressing
    /\ UNCHANGED <<kern, cache, locked, pressing, lowSeen, scanVars, killVars>>

\* MemAvailable of /proc/meminfo.
Measure ==
    /\ Step("measure", "lock")
    /\ lowSeen' \in BOOLEAN
    /\ UNCHANGED <<kern, cache, locked, psiVars, scanVars, killVars>>

\* process_cache.lock(), and the filters.
Lock ==
    /\ Step("lock", "scan")
    /\ locked' = TRUE
    /\ todo' = Candidates
    /\ UNCHANGED <<kern, cache, psiVars, lowSeen, open, best, killVars>>

\* max_by_key keeps the last of the largest: None is 0, smaller than any size.
Better(size) == best = Absent \/ size >= best.size

\* Mutant: the buffer is not cleared, so that sizes add up.
ConsiderSum(p, size) ==
    best' = [pid |-> p, inc |-> cache[p].inc, exe |-> cache[p].exe,
             size |-> size + (IF best = Absent THEN 0 ELSE best.size)]

Consider(p, size) ==
    best' = IF Better(size)
            THEN [pid |-> p, inc |-> cache[p].inc, exe |-> cache[p].exe,
                  size |-> size]
            ELSE best

\* openat(proc_dirfd, "status"): fails when the process has been reaped.
ScanOpen(p) ==
    /\ pc = "scan" /\ open = 0
    /\ p \in todo
    /\ todo' = todo \ {p}
    /\ IF Exists(p, cache[p].inc) THEN open' = p /\ UNCHANGED best
       ELSE Consider(p, 0) /\ UNCHANGED open
    /\ UNCHANGED <<kern, cache, locked, psiVars, pc, lowSeen, killVars>>

\* read_to_string(..).unwrap(): panics when it has been reaped since.  A
\* zombie's status has no sizes.
ScanRead ==
    /\ pc = "scan" /\ open # 0
    /\ open' = 0
    /\ IF Exists(open, cache[open].inc)
       THEN /\ \E size \in (IF kern[open].st = "run" THEN {1, 2} ELSE {0}) :
                    Consider(open, size)
            /\ UNCHANGED pc
       ELSE pc' = "dead" /\ UNCHANGED best
    /\ UNCHANGED <<kern, cache, locked, psiVars, lowSeen, todo, killVars>>

\* drop(cache); unwrap() panics when there was no candidate.
Choose ==
    /\ pc = "scan" /\ open = 0 /\ todo = {}
    /\ locked' = FALSE
    /\ best' = Absent
    /\ IF best # Absent /\ lowSeen
       THEN /\ pc' = "kill"
            /\ target' = [pid |-> best.pid, inc |-> best.inc, exe |-> best.exe]
            /\ gaveUp' = FALSE
       ELSE /\ pc' = IF best = Absent THEN "dead" ELSE "start"
            /\ UNCHANGED killVars
    /\ UNCHANGED <<kern, cache, psiVars, lowSeen, todo, open>>

\* pidfd_send_signal(SIGKILL) takes effect on a process that still runs; pid 1
\* is immune.
Strike ==
    kern' = IF /\ Exists(target.pid, target.inc)
               /\ kern[target.pid].st = "run" /\ target.pid # InitPid
            THEN Died(kern, target.pid) ELSE kern

\* The daemon ends if it was the target.
Kill ==
    /\ Step("kill", IF target.pid = SelfPid /\ Exists(SelfPid, target.inc)
                    THEN "dead" ELSE "spin")
    /\ Strike
    /\ UNCHANGED <<cache, locked, psiVars, lowSeen, scanVars, killVars>>

\* Mutant: the loop ends when the signal could be sent.
SpinOnce ==
    /\ Step("spin", IF Exists(target.pid, target.inc) THEN "start" ELSE "spin")
    /\ Strike
    /\ UNCHANGED <<cache, locked, psiVars, lowSeen, scanVars, killVars>>

\* The loop ends when there is no process to signal any more ...
Spin ==
    /\ Step("spin", IF Exists(target.pid, target.inc) THEN "spin" ELSE "start")
    /\ Strike
    /\ UNCHANGED <<cache, locked, psiVars, lowSeen, scanVars, killVars>>

\* Mutant: only a victim that has died is given up.
GiveUpOnZombie ==
    /\ Step("spin", "start")
    /\ Exists(target.pid, target.inc) /\ kern[target.pid].st = "zombie"
    /\ gaveUp' = TRUE
    /\ UNCHANGED <<kern, cache, locked, psiVars, lowSeen, scanVars, target>>

\* ... or after 180 s.
GiveUp ==
    /\ Step("spin", "start")
    /\ Exists(target.pid, target.inc)
    /\ gaveUp' = TRUE
    /\ UNCHANGED <<kern, cache, locked, psiVars, lowSeen, scanVars, target>>

\* The steps that nothing but the scheduler and the locks holds up.
OwnStep ==
    \/ ReadBefore \/ ReadAfter \/ Measure \/ Lock
    \/ (\E p \in Pid : ScanOpen(p)) \/ ScanRead \/ Choose
    \/ Kill \/ Spin

Init ==
    /\ TableInit
    /\ kern[SelfPid].st = "run"
    /\ cache = [p \in Pid |-> Absent]
    /\ locked = FALSE
    /\ pressing = FALSE /\ full = FALSE
    /\ pc = "start"
    /\ lowSeen = FALSE /\ todo = {} /\ open = 0 /\ best = Absent
    /\ target = Absent /\ gaveUp = FALSE

Next ==
    \/ Processes \/ Pressure
    \/ \E p \in Pid : CacheChange(p)
    \/ OwnStep \/ Wait \/ GiveUp

\* The thread runs, the trigger fires under pressure, and time passes.
Fairness ==
    /\ WF_vars(OwnStep)
    /\ WF_vars(pressing /\ Wait)
    /\ SF_vars(GiveUp)

Spec == Init /\ [][Next]_vars
FairSpec == Spec /\ Fairness

------------------------------------------------------------------------------
(* Properties.                                                              *)

\* Every variable stays in its range.
TypeOK ==
    /\ kern \in [Pid -> Process]
    /\ cache \in [Pid -> [inc : Nat, exe : Exe] \union {Absent}]
    /\ {locked, pressing, full, lowSeen, gaveUp} \subseteq BOOLEAN
    /\ pc \in {"start", "wait", "read", "measure", "lock", "scan", "kill",
               "spin", "dead"}
    /\ todo \subseteq Pid /\ open \in Pid \union {0}
    /\ best \in {Absent} \union [pid : Pid, inc : Nat, exe : Exe, size : 0..2]
    /\ target \in {Absent} \union [pid : Pid, inc : Nat, exe : Exe]

\* One victim at a time: before the next one is even looked for, the last one
\* is gone and its memory with it, or was given up on after 180 s (the loop
\* of main.rs:660-669), whatever has become of its pid.
OneVictimAtATime ==
    pc \notin {"kill", "spin", "dead"} /\ target # Absent =>
        gaveUp \/ ~Exists(target.pid, target.inc)

\* A process that runs a critical executable is struck only if it came to it
\* by an exec the cache did not know of when the victim was chosen (the filter
\* of main.rs:623 looks at the handle, not at the process).
CriticalSpared ==
    [][Kill \/ Spin =>
        \A p \in Pid \ {SelfPid} :
            /\ kern[p].st = "run" /\ kern'[p].st # "run"
            /\ kern[p].exe \in CriticalExe
            => target.exe # kern[p].exe]_vars

\* While the pressure lasts and every measurement finds memory low, the killer
\* gets to a kill again and again, whatever exits, is reaped or fills the
\* cache meanwhile, and even when a victim cannot die; unless it panics.
PressureIsAnswered ==
    <>[]pressing /\ <>[]lowSeen => []<>(pc \in {"kill", "dead"})

=============================================================================
