------------------------------- MODULE SetAll -------------------------------
(***************************************************************************)
(* set_all and the set_* functions (src/src/main.rs), one system call at a *)
(* time, on processes with several threads.  The threads of a process are  *)
(* listed through its directory (thread_ids, src/src/proc.rs), then each   *)
(* is changed by its number; in between threads are cloned and end, and    *)
(* the number of one that has ended is handed out again, to whoever asks.  *)
(* The first call that fails ends set_all, except that a failed listing    *)
(* counts as an empty one and refused rlimits are only printed.            *)
(*                                                                         *)
(* The calls of set_all are serialised by the state's mutex (Daemon), so   *)
(* one sweep runs at a time: the refresh thread's, the one for a message,  *)
(* and cleanup's at the end.  Which class a process belongs to is decided  *)
(* in Policy; here it is given and changes when a message says so.  Every  *)
(* process is taken to be alone in its autogroup.                          *)
(***************************************************************************)
EXTENDS SchedAttr, FiniteSets

CONSTANTS
    Proc,       \* processes
    Tid,        \* the numbers threads get
    Leader,     \* Leader[p]: the number of p's first thread, its pid
    FirstTids,  \* FirstTids[p]: the numbers of p's threads at the start
    FirstWant,  \* the classes the processes may have at the start
    NoProc, NoTid,
    Budget      \* bounds of a run on what the environment does

Kinds == {"clone", "end", "fault", "switch", "sig"}

ASSUME BudgetAssumption == Budget \in [Kinds -> Nat]
ASSUME LeaderAssumption ==
    /\ Leader \in [Proc -> Tid]
    /\ FirstTids \in [Proc -> SUBSET Tid]
    /\ \A p \in Proc : Leader[p] \in FirstTids[p]
    /\ \A p, q \in Proc : p # q => FirstTids[p] \intersect FirstTids[q] = {}
ASSUME NoneAssumption == NoProc \notin Proc /\ NoTid \notin Tid

VARIABLES
    task,       \* task[t]: the thread with number t
    group,      \* group[p]: nice value of p's autogroup
    unlimited,  \* processes whose rlimits have been lifted
    want,       \* want[p]: p's class, "none" if it is below no critical process
    cached,     \* processes with a handle in the cache
    left,       \* what the environment may still do
    phase,      \* "up", "cleanup" or "exited"
    todo,       \* processes still to be swept
    cur, class, \* the process being swept, and the set_* function
    list, tid,  \* its threads still to come, and the present one
    step,       \* the call to be made for it
    failed,     \* history: cleanup returned an error
    unlisted,   \* history: the process being swept, if its threads could not be
                \* listed; in cleanup all such processes
    snap,       \* history: the processes cleanup had to put back
    reborn      \* history: numbers handed out since the sweep's list was
                \* made; since the signal, when there has been one

kernelVars == <<task, group, unlimited>>
sweepVars == <<cur, class, list, tid, step>>
vars == <<kernelVars, want, cached, left, phase, todo, sweepVars, failed,
          unlisted, snap, reborn>>

\* Classes: what set_realtime and set_normal do differs for the executables
\* in EXCLUDE_REALTIME.
Class == {"realtime", "excluded", "boosted", "normal", "low", "excludedNormal"}
FirstWants == [Proc -> Class \union {"none"}]
ASSUME WantAssumption == FirstWant \subseteq FirstWants

Attr == [policy : Policies, nice : Nices, reset : BOOLEAN]
Untouched == [policy |-> "OTHER", nice |-> 0, reset |-> FALSE]

Task == [proc : Proc \union {NoProc}, st : {"free", "run", "zombie"}, attr : Attr]
FreeTask == [proc |-> NoProc, st |-> "free", attr |-> Untouched]

Exists(t) == task[t].st # "free"
Threads(p) == {t \in Tid : task[t].proc = p}

\* from_pid succeeds: the leader is there, so that exe can be read.
Readable(p) == task[Leader[p]].proc = p /\ task[Leader[p]].st = "run"

------------------------------------------------------------------------------
(* The calls each class makes for a thread.                                 *)

PolicyOf(c) == CASE c = "realtime" -> "FIFO" [] c = "low" -> "IDLE" [] OTHER -> "OTHER"
NiceOf(c) == CASE c = "boosted" -> BOOST_NICE
               [] c = "normal" -> 0
               [] c = "low" -> LOW_PRIORITY_NICE
               [] OTHER -> REALTIME_NICE

FirstCall(c) == CASE c \in {"realtime", "excluded"} -> "limits"
                  [] c = "excludedNormal" -> "again"
                  [] OTHER -> "nice"

NextCall(c) ==
    CASE step = "limits" -> IF c = "realtime" THEN "nice" ELSE "group"
      [] step = "nice" -> "sched"
      [] step = "sched" /\ c = "realtime" -> "group"
      [] step = "group" -> "again"
      [] OTHER -> "done"

\* Does a thread have what its process's class calls for?
Conforms(a, c) ==
    /\ a.nice = NiceOf(c)
    /\ c \notin {"excluded", "excludedNormal"} =>
        a.policy = PolicyOf(c) /\ a.reset = (c = "realtime")

------------------------------------------------------------------------------
(* The kernel.                                                              *)

Spend(k) == left[k] > 0 /\ left' = [left EXCEPT ![k] = @ - 1]

Clone(t, u) ==
    /\ Spend("clone")
    /\ task[t].st = "run" /\ ~Exists(u)
    /\ task' = [task EXCEPT ![u] = [proc |-> task[t].proc, st |-> "run",
                                    attr |-> Inherited(task[t].attr)]]
    /\ reborn' = reborn \union {u}
    /\ UNCHANGED <<group, unlimited, want, cached, phase, todo, sweepVars,
                   failed, unlisted, snap>>

\* A leader that ends stays a zombie until its threads have ended too.
End(t) ==
    LET p == task[t].proc
        last == \A u \in Threads(p) \ {t} : task[u].st = "zombie"
    IN  /\ Spend("end")
        /\ task[t].st = "run"
        /\ task' = IF last
                   THEN [u \in Tid |-> IF u \in Threads(p) THEN FreeTask ELSE task[u]]
                   ELSE [task EXCEPT ![t] =
                            IF t = Leader[p] THEN [@ EXCEPT !.st = "zombie"]
                            ELSE FreeTask]
        /\ UNCHANGED <<group, unlimited, want, cached, phase, todo, sweepVars,
                       failed, unlisted, snap, reborn>>

------------------------------------------------------------------------------
(* What is swept, and when.                                                 *)

Resting == todo = {} /\ cur = NoProc

\* Mutant: every cached process is swept, whoever is above it.
RefreshAll ==
    /\ phase = "up" /\ Resting
    /\ cached' = {p \in cached : Threads(p) # {}} \union {p \in Proc : Readable(p)}
    /\ todo' = cached'
    /\ UNCHANGED <<kernelVars, want, left, phase, sweepVars, failed, unlisted, snap,
                   reborn>>

\* populate_process_cache, then update_all_processes_once.  A process without
\* its leader is listed in /proc but cannot be read again.
Refresh ==
    /\ phase = "up" /\ Resting
    /\ cached' = {p \in cached : Threads(p) # {}} \union {p \in Proc : Readable(p)}
    /\ todo' = {p \in cached' : want[p] # "none"}
    /\ UNCHANGED <<kernelVars, want, left, phase, sweepVars, failed, unlisted, snap,
                   reborn>>

\* The exit event of a leader, whether or not its threads live on.
Forget(p) ==
    /\ phase = "up" /\ Resting
    /\ p \in cached /\ ~Readable(p)
    /\ cached' = cached \ {p}
    /\ UNCHANGED <<kernelVars, want, left, phase, todo, sweepVars, failed, unlisted,
                   snap, reborn>>

\* SetForegroundPid, for a process that gains or loses the foreground.
Switch(p, c) ==
    /\ phase = "up" /\ Resting
    /\ Spend("switch")
    /\ {want[p], c} = {"normal", "boosted"}
    /\ want' = [want EXCEPT ![p] = c]
    /\ todo' = IF Readable(p) THEN {p} ELSE {}
    /\ UNCHANGED <<kernelVars, cached, phase, sweepVars, failed, unlisted, snap,
                   reborn>>

\* The signal, the barrier, and the list cleanup makes.
Stop ==
    /\ phase = "up" /\ Resting
    /\ Spend("sig")
    /\ phase' = "cleanup"
    /\ snap' = {p \in Proc : Readable(p) /\ want[p] # "none"}
    /\ todo' = snap'
    /\ reborn' = {} /\ unlisted' = {}
    /\ UNCHANGED <<kernelVars, want, cached, sweepVars, failed>>

Exit ==
    /\ phase = "cleanup" /\ Resting
    /\ phase' = "exited"
    /\ UNCHANGED <<kernelVars, want, cached, left, todo, sweepVars, failed, unlisted,
                   snap, reborn>>

------------------------------------------------------------------------------
(* set_all(p, f).                                                           *)

sweepFrame == <<want, cached, phase, snap>>

\* Mutant: the directory is opened by pid, whoever has it now.
ListedByPid(p) == {t \in Tid : task[t].proc = task[Leader[p]].proc /\ Exists(t)}

\* Mutant: USE_THREAD_IDS is off.
ListedLeader(p) == {Leader[p]} \intersect Threads(p)

\* thread_ids, through the directory the handle has open.  Only numbers that
\* were p's during the listing are in it, and all that were p's throughout.
Listed(p) == Threads(p)

Opened(p) ==
    /\ cur = NoProc /\ p \in todo
    /\ todo' = todo \ {p}
    /\ cur' = p
    /\ class' = CASE phase = "up" -> want[p]
                  [] want[p] = "excluded" -> "excludedNormal"
                  [] OTHER -> "normal"
    /\ reborn' = IF phase = "up" THEN {} ELSE reborn
    /\ UNCHANGED <<kernelVars, tid, step, failed, sweepFrame>>

UnlistedBefore == IF phase = "up" THEN {} ELSE unlisted

Begin(p) ==
    /\ Opened(p)
    /\ list' = Listed(p) /\ unlisted' = UnlistedBefore
    /\ UNCHANGED left

\* thread_ids fails although the process lives (no descriptor to be had, say):
\* `if let Ok` passes over it, and set_all returns Ok with nothing set.
BeginUnlisted(p) ==
    /\ Opened(p)
    /\ Spend("fault")
    /\ list' = {} /\ unlisted' = UnlistedBefore \union {p}

Pick(t) ==
    /\ tid = NoTid /\ t \in list
    /\ tid' = t /\ list' = list \ {t}
    /\ step' = FirstCall(class)
    /\ UNCHANGED <<kernelVars, left, todo, cur, class, failed, unlisted, reborn,
                   sweepFrame>>

At(s) == tid # NoTid /\ step = s

Advance ==
    /\ step' = NextCall(class)
    /\ tid' = IF NextCall(class) = "done" THEN NoTid ELSE tid
    /\ UNCHANGED <<todo, cur, class, list, failed, unlisted, reborn, sweepFrame>>

SetAttr(a) ==
    /\ Exists(tid)
    /\ task' = [task EXCEPT ![tid].attr = a]
    /\ UNCHANGED <<group, unlimited, left>>
    /\ Advance

\* prlimit64, four times; errors are only printed.
LiftLimits ==
    /\ At("limits")
    /\ \/ /\ unlimited' = IF Exists(tid) THEN unlimited \union {task[tid].proc}
                           ELSE unlimited
          /\ UNCHANGED left
       \/ Spend("fault") /\ UNCHANGED unlimited
    /\ UNCHANGED <<task, group>>
    /\ Advance

\* setpriority
SetNice ==
    /\ At("nice") \/ At("again")
    /\ SetAttr([task[tid].attr EXCEPT !.nice = NiceOf(class)])

\* sched_setattr
SetSched ==
    /\ At("sched")
    /\ SetAttr(SetScheduler(task[tid].attr, PolicyOf(class), NiceOf(class),
                            class = "realtime"))

\* set_autogroup_priority, through the process's directory.
SetGroup ==
    /\ At("group")
    /\ Threads(cur) # {}
    /\ group' = [group EXCEPT ![cur] = REALTIME_NICE]
    /\ UNCHANGED <<task, unlimited, left>>
    /\ Advance

\* Mutant: cleanup does not ask what set_all returned.
ReturnAnyway(error) ==
    /\ cur' = NoProc /\ list' = {} /\ tid' = NoTid /\ step' = "done"
    /\ UNCHANGED <<todo, failed, unlisted, class, reborn, sweepFrame>>

\* `?` : set_all returns; so does cleanup if it was the caller.
Return(error) ==
    /\ cur' = NoProc /\ list' = {} /\ tid' = NoTid /\ step' = "done"
    /\ IF phase = "cleanup" /\ error
       THEN todo' = {} /\ failed' = TRUE
       ELSE UNCHANGED <<todo, failed>>
    /\ UNCHANGED <<class, unlisted, reborn, sweepFrame>>

Failing ==
    /\ step \in {"nice", "again", "sched", "group"} /\ tid # NoTid
    /\ \/ /\ IF step = "group" THEN Threads(cur) = {} ELSE ~Exists(tid)
          /\ UNCHANGED left
       \/ Spend("fault")

\* Mutant: the loop goes on with the next thread.
CallFailsOnly ==
    /\ Failing
    /\ tid' = NoTid /\ step' = "done"
    /\ UNCHANGED <<kernelVars, todo, cur, class, list, failed, unlisted, reborn,
                   sweepFrame>>

\* The thread is gone, or the kernel refuses.
CallFails ==
    /\ Failing
    /\ Return(TRUE)
    /\ UNCHANGED kernelVars

Ended == cur # NoProc /\ list = {} /\ tid = NoTid

\* The loop has come to its end.  cleanup also puts the autogroup back, which
\* fails when the process is gone.
Finish ==
    /\ Ended
    /\ group' = IF phase = "cleanup" /\ Threads(cur) # {}
                THEN [group EXCEPT ![cur] = 0] ELSE group
    /\ Return(Threads(cur) = {})
    /\ UNCHANGED <<task, unlimited, left>>

\* Or the file cannot be opened, or refuses the value.
FinishFails ==
    /\ Ended /\ phase = "cleanup"
    /\ Spend("fault")
    /\ Return(TRUE)
    /\ UNCHANGED kernelVars

SweepStep ==
    \/ \E p \in Proc : Begin(p) \/ BeginUnlisted(p)
    \/ \E t \in Tid : Pick(t)
    \/ LiftLimits \/ SetNice \/ SetSched \/ SetGroup
    \/ CallFails \/ Finish \/ FinishFails

------------------------------------------------------------------------------
Init ==
    /\ want \in FirstWant
    /\ task = [t \in Tid |->
                IF \E p \in Proc : t \in FirstTids[p]
                THEN [proc |-> CHOOSE p \in Proc : t \in FirstTids[p],
                      st |-> "run", attr |-> Untouched]
                ELSE FreeTask]
    /\ group = [p \in Proc |-> 0] /\ unlimited = {}
    /\ cached = {} /\ left = Budget /\ phase = "up" /\ todo = {}
    /\ cur = NoProc /\ class = "normal" /\ list = {} /\ tid = NoTid
    /\ step = "done"
    /\ failed = FALSE /\ unlisted = {} /\ snap = {} /\ reborn = {}

Kernel == \E t \in Tid : End(t) \/ \E u \in Tid : Clone(t, u)

Over == phase = "exited" /\ UNCHANGED vars

Next ==
    \/ Kernel
    \/ Refresh \/ Stop \/ Exit \/ SweepStep
    \/ \E p \in Proc : Forget(p) \/ \E c \in Class : Switch(p, c)
    \/ Over

\* The daemon's threads run (module Daemon); threads and messages need not do
\* anything.
Fairness == WF_vars(Refresh) /\ WF_vars(SweepStep) /\ WF_vars(Exit)

Spec == Init /\ [][Next]_vars
FairSpec == Spec /\ Fairness

------------------------------------------------------------------------------
(* Properties.                                                              *)

\* Every variable stays in its range (set_all and what it changes).
TypeOK ==
    /\ task \in [Tid -> Task]
    /\ group \in [Proc -> Nices] /\ unlimited \subseteq Proc
    /\ want \in FirstWants /\ cached \subseteq Proc
    /\ left \in [Kinds -> Nat]
    /\ phase \in {"up", "cleanup", "exited"}
    /\ todo \subseteq Proc /\ snap \subseteq Proc
    /\ cur \in Proc \union {NoProc} /\ class \in Class
    /\ list \subseteq Tid /\ tid \in Tid \union {NoTid}
    /\ step \in {"limits", "nice", "sched", "group", "again", "done"}
    /\ failed \in BOOLEAN /\ unlisted \subseteq Proc
    /\ reborn \subseteq Tid

\* A sweep changes a thread of another process only if the thread came to
\* life with a recycled number after the list was made: the list itself has
\* no strangers in it, although the process may be gone and its pid another's
\* (thread_ids opens task through proc_dirfd, proc.rs:94).
StrangersOnlyByRecycling ==
    [][\A t \in Tid :
        task[t].st # "free" /\ task'[t].attr # task[t].attr /\ task'[t].st # "free"
            => task[t].proc = cur \/ t \in reborn]_vars

\* When set_all comes to the end of its list without an error, every thread
\* that was there when the list was made and still is has the whole setting,
\* nice value and policy, of the one class (main.rs:233-235).  The exception
\* is a process whose threads could not be listed: set_all says Ok for that,
\* too (main.rs:232).
PassIsComplete ==
    Ended /\ cur \notin unlisted =>
        \A t \in Threads(cur) \ reborn : Conforms(task[t].attr, class)

\* After a cleanup without errors all the threads of the processes it put
\* back that were there at the signal, and still are, are normal (nice -20 if
\* excluded from real time), and so is the autogroup (main.rs:354-361).  A
\* process whose threads cleanup could not list gets its autogroup back, and
\* nothing else, without an error (main.rs:232).
CleanupSetsThreads ==
    phase = "exited" /\ ~failed =>
        \A p \in snap : Threads(p) # {} =>
            /\ group[p] = 0
            /\ p \notin unlisted => \A t \in Threads(p) \ reborn :
                Conforms(task[t].attr,
                         IF want[p] = "excluded" THEN "excludedNormal" ELSE "normal")

\* As long as the daemon is up, every thread of every process below a critical
\* one ends up with what its class calls for, whatever was cloned, ended or
\* recycled under a sweep and whichever calls and listings failed: the next
\* sweep makes up for it.  Only a process whose leader has ended is out of reach
\* (from_pid cannot read it any more, proc.rs:241).
Settles ==
    <>[](phase = "up" =>
            \A p \in Proc :
                Readable(p) /\ want[p] # "none" =>
                    /\ \A t \in Threads(p) : Conforms(task[t].attr, want[p])
                    /\ want[p] \in {"realtime", "excluded"} =>
                        group[p] = REALTIME_NICE /\ p \in unlimited)

=============================================================================
