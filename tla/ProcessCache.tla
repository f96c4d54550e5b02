---------------------------- MODULE ProcessCache ----------------------------
(***************************************************************************)
(* The process cache (src/src/main.rs) against a kernel that recycles pids *)
(* and gives orphans to pid 1.  Two threads write it, under its mutex: the *)
(* refresh thread runs populate_process_cache again and again, the monitor *)
(* runs it once and then follows the proc connector, whose queue is        *)
(* bounded: when it is full the kernel drops the event.                    *)
(*                                                                         *)
(* A pid's handle is modelled by the incarnation it was opened on and by   *)
(* what from_pid read.  from_pid is one step here (module ProcessHandle    *)
(* takes it apart); nothing else looks at the cache while it runs.         *)
(***************************************************************************)
EXTENDS ProcessTable, Sequences

CONSTANTS
    Absent,     \* no entry
    Failed,     \* None: from_pid returned an error
    NoThread,   \* nobody holds the mutex
    MaxQueue,   \* events the receive buffer holds
    Budgets     \* bounds of the runs on what the kernel does

ASSUME QueueAssumption == MaxQueue \in Nat

Thread == {"refresh", "monitor"}
Entry == [inc : Nat, ppid : Parent, exe : Exe]
ASSUME DistinctAssumption ==
    /\ Absent # Failed /\ {Absent, Failed} \intersect Entry = {}
    /\ NoThread \notin Thread

\* How often there is an exec, how often a thread ends that had a pid's number,
\* and how many processes a pid has.
Budget == [exec : Nat, thread : Nat, use : [Pid -> Nat]]
ASSUME BudgetAssumption == Budgets \subseteq Budget

VARIABLES
    queue,      \* proc connector events not received yet
    cache,      \* the process cache
    owner,      \* who holds its mutex
    pc,         \* where each thread is
    pids,       \* get_all_pids of the populate in progress
    todo,       \* pids it has not come to yet
    ev,         \* the event the monitor is about to handle
    left,       \* what the kernel may still do
    unseen      \* history: pids with a change since their entry was made
                \* that the kernel did not announce

cacheVars == <<cache, owner, pids, todo>>
vars == <<kern, queue, cacheVars, pc, ev, left, unseen>>

Event == [kind : {"exec", "exit"}, pid : Pid, inc : Nat]
NoEvent == [kind |-> "none", pid |-> 0, inc |-> 0]

HasEntry(p) == cache[p] \notin {Absent, Failed}

\* Mutant: the line found in status is "Pid:", not "PPid:".
FromPidOwnNumber(p) ==
    IF kern[p].st = "run"
    THEN [inc |-> kern[p].inc, ppid |-> p, exe |-> kern[p].exe]
    ELSE Failed

\* Mutant: the error of the exe link does not end from_pid.
FromPidHalf(p) ==
    [inc |-> kern[p].inc, ppid |-> kern[p].ppid,
     exe |-> IF kern[p].st = "run" THEN kern[p].exe ELSE Failed]

\* ProcessHandle::from_pid(p).ok(): a zombie has no exe link.
FromPid(p) ==
    IF kern[p].st = "run"
    THEN [inc |-> kern[p].inc, ppid |-> kern[p].ppid, exe |-> kern[p].exe]
    ELSE Failed

------------------------------------------------------------------------------
(* The kernel, with the events it posts.  A fork event is received and      *)
(* ignored, so none is posted here.                                        *)

Listening == pc["monitor"] # "subscribe"

\* The event e is posted or lost, and nobody is told of the changes of others.
Announce(e, others) ==
    IF Listening /\ Len(queue) < MaxQueue
    THEN queue' = Append(queue, e) /\ unseen' = unseen \union others
    ELSE unseen' = unseen \union {e.pid} \union others /\ UNCHANGED queue

KernelFork ==
    /\ \E p \in Pid :
        /\ \E parent \in Pid : Fork(p, parent)
        /\ left.use[p] > 0
        /\ left' = [left EXCEPT !.use[p] = @ - 1]
    /\ UNCHANGED <<queue, cacheVars, pc, ev, unseen>>

KernelReap ==
    /\ \E p \in Pid : Reap(p)
    /\ UNCHANGED <<queue, cacheVars, pc, ev, left, unseen>>

\* A thread of whatever process gets a number that is free as its tid, and
\* ends.  The kernel announces its exit like that of a process.
KernelThread ==
    /\ left.thread > 0
    /\ left' = [left EXCEPT !.thread = @ - 1]
    /\ \E p \in Pid :
        /\ kern[p].st = "free"
        /\ kern' = [kern EXCEPT ![p].inc = @ + 1]
        /\ queue' = IF Listening /\ Len(queue) < MaxQueue
                    THEN Append(queue, [kind |-> "exit", pid |-> p,
                                        inc |-> kern[p].inc + 1])
                    ELSE queue
    /\ UNCHANGED <<cacheVars, pc, ev, unseen>>

KernelExec ==
    /\ left.exec > 0
    /\ left' = [left EXCEPT !.exec = @ - 1]
    /\ \E p \in Pid, e \in Exe :
        /\ kern[p].exe # e
        /\ Exec(p, e)
        /\ Announce([kind |-> "exec", pid |-> p, inc |-> kern[p].inc], {})
    /\ UNCHANGED <<cacheVars, pc, ev>>

\* The processes p leaves to pid 1, as far as the cache has an entry of them.
Orphans(p) ==
    {q \in Pid : kern[q].st = "run" /\ kern[q].ppid = p /\ HasEntry(q)}

KernelExit ==
    /\ \E p \in Pid :
        /\ Exit(p)
        /\ Announce([kind |-> "exit", pid |-> p, inc |-> kern[p].inc], Orphans(p))
    /\ UNCHANGED <<cacheVars, pc, ev, left>>

------------------------------------------------------------------------------
(* populate_process_cache, by thread t.                                     *)

Goto(t, l) == pc' = [pc EXCEPT ![t] = l]

PopStart(t) ==
    /\ pc[t] = "populate"
    /\ owner = NoThread
    /\ owner' = t
    /\ pids' = Listed
    /\ todo' = Listed
    /\ Goto(t, "fill")
    /\ UNCHANGED <<kern, queue, cache, ev, left, unseen>>

\* entry(pid).or_insert_with(..): an entry that is there is left alone.
PopFill(t, p) ==
    /\ pc[t] = "fill"
    /\ p \in todo
    /\ todo' = todo \ {p}
    /\ IF cache[p] = Absent
       THEN /\ cache' = [cache EXCEPT ![p] = FromPid(p)]
            /\ unseen' = unseen \ {p}
       ELSE UNCHANGED <<cache, unseen>>
    /\ UNCHANGED <<kern, queue, owner, pids, pc, ev, left>>

\* Mutant: retain keeps the pids whose handle could not be read.
KeptIfListed(p) == p \in pids

\* The closure of retain.
Kept(p) == p \in pids /\ HasEntry(p)

\* retain, and the end of the guard.
PopRetain(t, next) ==
    /\ pc[t] = "fill"
    /\ todo = {}
    /\ cache' = [p \in Pid |-> IF Kept(p) THEN cache[p] ELSE Absent]
    /\ unseen' = {p \in unseen : Kept(p)}
    /\ owner' = NoThread
    /\ pids' = {}
    /\ Goto(t, next)
    /\ UNCHANGED <<kern, queue, todo, ev, left>>

------------------------------------------------------------------------------
(* The two threads.                                                         *)

RefreshStep ==
    \/ PopStart("refresh") \/ PopRetain("refresh", "populate")
    \/ \E p \in Pid : PopFill("refresh", p)

\* ProcMon::new
MonSubscribe ==
    /\ pc["monitor"] = "subscribe"
    /\ Goto("monitor", "populate")
    /\ UNCHANGED <<kern, queue, cacheVars, ev, left, unseen>>

MonReceive ==
    /\ pc["monitor"] = "wait"
    /\ queue # <<>>
    /\ ev' = Head(queue)
    /\ queue' = Tail(queue)
    /\ Goto("monitor", "handle")
    /\ UNCHANGED <<kern, cacheVars, left, unseen>>

\* Mutant: an exec only adds an entry where there is none.
NotedOnce(e) ==
    IF e.kind = "exec" THEN (IF cache[e.pid] = Absent THEN FromPid(e.pid)
                             ELSE cache[e.pid])
    ELSE Absent

\* The entry of e's pid after e: read again, or removed.
Noted(e) == IF e.kind = "exec" THEN FromPid(e.pid) ELSE Absent

\* Mutant: the monitor does not wait for the cache.
MonHandleUnlocked ==
    /\ pc["monitor"] = "handle"
    /\ cache' = [cache EXCEPT ![ev.pid] = Noted(ev)]
    /\ unseen' = unseen \ {ev.pid}
    /\ ev' = NoEvent
    /\ Goto("monitor", "wait")
    /\ UNCHANGED <<kern, queue, owner, pids, todo, left>>

MonHandle ==
    /\ pc["monitor"] = "handle"
    /\ owner = NoThread
    /\ cache' = [cache EXCEPT ![ev.pid] = Noted(ev)]
    /\ unseen' = unseen \ {ev.pid}
    /\ ev' = NoEvent
    /\ Goto("monitor", "wait")
    /\ UNCHANGED <<kern, queue, owner, pids, todo, left>>

MonStep ==
    \/ MonSubscribe \/ MonReceive \/ MonHandle
    \/ PopStart("monitor") \/ PopRetain("monitor", "wait")
    \/ \E p \in Pid : PopFill("monitor", p)

------------------------------------------------------------------------------
\* What the processes execute at first makes no difference, only that it changes.
Init ==
    /\ TableInit /\ \A p \in Pid : kern[p].exe = kern[InitPid].exe
    /\ queue = <<>>
    /\ cache = [p \in Pid |-> Absent]
    /\ owner = NoThread
    /\ pc = [t \in Thread |-> IF t = "monitor" THEN "subscribe" ELSE "populate"]
    /\ pids = {} /\ todo = {}
    /\ ev = NoEvent
    /\ \E b \in Budgets :
        /\ \A p \in Pid : kern[p].st = "run" => b.use[p] > 0
        /\ left = [b EXCEPT !.use =
                    [p \in Pid |-> IF kern[p].st = "run" THEN b.use[p] - 1
                                   ELSE b.use[p]]]
    /\ unseen = {}

Kernel == KernelFork \/ KernelReap \/ KernelThread \/ KernelExec \/ KernelExit

Next == Kernel \/ RefreshStep \/ MonStep

\* The threads run; the monitor gets the cache if it is free again and again
\* (the refresh thread sleeps in between); nothing obliges a process to do
\* anything.
Fairness == WF_vars(RefreshStep) /\ SF_vars(MonStep)

Spec == Init /\ [][Next]_vars
FairSpec == Spec /\ Fairness

------------------------------------------------------------------------------
(* Properties.                                                              *)

\* Every variable stays in its range (ProcessCache of main.rs).
TypeOK ==
    /\ kern \in [Pid -> Process]
    /\ queue \in Seq(Event) /\ Len(queue) <= MaxQueue
    /\ cache \in [Pid -> Entry \union {Absent, Failed}]
    /\ owner \in Thread \union {NoThread}
    /\ pc \in [Thread -> {"subscribe", "populate", "fill", "wait", "handle"}]
    /\ pids \subseteq Pid /\ todo \subseteq Pid
    /\ ev \in Event \union {NoEvent}
    /\ left \in Budget
    /\ unseen \subseteq Pid

\* The entry of p is of the running process that has the pid.
OfRunning(p) == kern[p].st = "run" /\ cache[p].inc = kern[p].inc

\* It says what that process executes and who its parent is.
Current(p) ==
    OfRunning(p) /\ cache[p].exe = kern[p].exe /\ cache[p].ppid = kern[p].ppid

Pending(p) == ev.pid = p \/ \E i \in 1..Len(queue) : queue[i].pid = p

\* An entry that no longer describes its pid's process is never forgotten: an
\* event about the pid is still to be handled, unless the kernel announced
\* none: it lost the event, or gave an orphan to pid 1 (proc.rs:234 reads the
\* parent once).  populate never re-reads an entry (main.rs:700-702), so that
\* only the monitor can put a stale one right.
StaleIsAnnounced ==
    \A p \in Pid : HasEntry(p) /\ ~Current(p) => Pending(p) \/ p \in unseen

\* The entry of a running process is dropped only by the exit event of an
\* earlier process with its pid or of a thread that had its number before
\* (main.rs:565-568, procmon.c:119-121); populate, whose list of
\* pids is as old as its lock, never drops one (main.rs:704).
LiveEntryKept ==
    [][\A p \in Pid :
        HasEntry(p) /\ OfRunning(p) /\ cache'[p] \in {Absent, Failed} =>
            ev.kind = "exit" /\ ev.pid = p /\ ev.inc < kern[p].inc]_vars

\* The loop of parents never leaves C.
GoesRound(C) == C # {} /\ \A q \in C : HasEntry(q) /\ cache[q].ppid \in C

\* parents (main.rs:62-72) comes to an end, although the entries were read at
\* different times and keep parents that are gone, unless one of the pids it
\* goes round was recycled: a cycle takes an orphan, and its dead parent's pid
\* come back below it.
NoCycleWithoutRecycling ==
    \A C \in SUBSET Pid : GoesRound(C) => \E q \in C : kern[q].inc > 1

\* If the kernel comes to rest, the cache becomes and stays the table of the
\* running processes, their parents included, except where it was not told of
\* a change (StaleIsAnnounced).
Settles ==
    <>[](owner = NoThread =>
            \A p \in Pid \ unseen :
                IF kern[p].st = "run" THEN HasEntry(p) /\ Current(p)
                ELSE cache[p] = Absent)

=============================================================================
