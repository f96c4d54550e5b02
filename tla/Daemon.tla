------------------------------- MODULE Daemon -------------------------------
(***************************************************************************)
(* The daemon (src/src/main.rs): four threads that share the State (which  *)
(* window is in the foreground, which pid is the client), the process      *)
(* cache, each behind its own mutex, and the running flag.                 *)
(*                                                                         *)
(*   socket   socket_handler: messages from the client                     *)
(*   monitor  the proc connector: one kernel event at a time               *)
(*   refresh  populate the cache, update every process, sleep 5 s          *)
(*   signal   waits for SIGINT/SIGTERM, then puts processes back           *)
(*                                                                         *)
(* Around them the kernel: processes that fork, exec and exit and whose    *)
(* orphans go to pid 1, their scheduling attributes, and the queue of proc *)
(* connector events, which drops what it has no room for.  Pids are not    *)
(* recycled here (ProcessCache does that); populate_process_cache and      *)
(* ProcessHandle::from_pid are single steps (ProcessCache and              *)
(* ProcessHandle take them apart).  The process may be aborted at any time *)
(* (panic = 'abort', the memory watchdog) and started again: what it has   *)
(* done to other processes stays.                                          *)
(***************************************************************************)
EXTENDS Policy, Sequences

CONSTANTS
    Pid,        \* pids of the processes of the model
    InitPid,    \* pid 1: never exits, adopts orphans
    Parent,     \* Parent[p]: the pid p is forked from, NoPid for InitPid
    FirstExe,   \* FirstExe[p]: what p runs at the start; Unborn if not forked
    Unborn,
    Exe,        \* what a process can exec
    Messages,   \* what clients may send
    Absent,     \* no entry in the process cache
    Failed,     \* None: from_pid returned an error
    NoThread,   \* nobody holds the mutex
    MaxQueue,   \* events the receive buffer holds
    Budgets     \* bounds of the runs on what the environment does

Thread == {"socket", "monitor", "refresh", "signal"}
Kinds == {"msg", "fork", "exec", "exit", "sig", "crash"}

ASSUME BudgetAssumption == Budgets \subseteq [Kinds -> Nat]
ASSUME ParentAssumption ==
    /\ Parent \in [Pid -> Pid \union {NoPid}]
    /\ NoPid \notin Pid /\ InitPid \in Pid
    /\ \A p \in Pid : Parent[p] = NoPid <=> p = InitPid
    /\ \E depth \in [Pid -> 0..Cardinality(Pid)] :
        \A p \in Pid : Parent[p] \in Pid => depth[p] > depth[Parent[p]]
ASSUME QueueAssumption == MaxQueue \in Nat
ASSUME DistinctAssumption == Absent # Failed /\ NoThread \notin Thread

VARIABLES
    proc,       \* proc[p] = [st, ppid, exe, sched]: the kernel's processes
    events,     \* proc connector messages not read yet
    left,       \* what the environment may still do
    phase,      \* "up", "exited" (exit(0)) or "aborted"
    running, state, cache,          \* shared by the threads
    stateOwner, cacheOwner,         \* who holds the two mutexes
    pc,         \* where each thread is
    sock,       \* locals of process_message: message, prev_pid, process
    ev,         \* the monitor's event and the process it was about
    todo,       \* processes the refresh thread has still to update
    snap,       \* cleanup's all_processes
    plist,      \* those it has still to put back
    enteredUp,  \* history: was running set when stateOwner got the mutex?
    late,       \* history: threads that got it after running was cleared
    cleanErr,   \* history: cleanup returned an error
    unseen      \* history: cached processes with a change since their entry
                \* was made that the kernel did not announce

kernelVars == <<proc, events, left>>
lockVars == <<stateOwner, cacheOwner, enteredUp, late>>
localVars == <<sock, ev, todo, snap, plist>>
ghostVars == <<cleanErr, unseen>>
vars == <<kernelVars, phase, running, state, cache, lockVars, pc, localVars,
          ghostVars>>

------------------------------------------------------------------------------
(* Handles and the cache.                                                  *)

AnyExe == Exe \union {FirstExe[p] : p \in Pid} \union {NoExe}
Handle == [pid : Pid, ppid : Pid \union {NoPid}, exe : AnyExe]
Message == [to : {"fg"}, pid : Pid \union {NoPid}] \union
           [to : {"client"}, pid : Pid] \union [to : {"garbled"}, pid : {NoPid}]
ASSUME MessagesAssumption == Messages \subseteq Message
NoMessage == [to |-> "none", pid |-> NoPid]
NoSock == [m |-> NoMessage, prev |-> NoPid, h |-> Absent]
Event == [kind : {"none", "fork", "exec", "exit"}, pid : Pid \union {NoPid}]
NoEvent == [kind |-> "none", pid |-> NoPid]

Alive(p) == p \in Pid /\ proc[p].st = "run"
Cached(p) == cache[p] \notin {Absent, Failed}

\* ProcessHandle::from_pid(p).ok()
FromPid(p) ==
    IF Alive(p) THEN [pid |-> p, ppid |-> proc[p].ppid, exe |-> proc[p].exe]
    ELSE Failed

\* The entries that are Some(handle), as a function of the pids.
Handles(c) ==
    [p \in {q \in Pid : c[q] \notin {Absent, Failed}} |-> c[p]]

\* The cache after populating: missing pids are read, entries of pids that are
\* gone and entries that are None are dropped.  A None that was there before
\* is dropped without being read again.
Populated(c) ==
    [p \in Pid |->
        IF ~Alive(p) \/ c[p] = Failed THEN Absent
        ELSE IF c[p] = Absent THEN FromPid(p)
        ELSE c[p]]

\* populate_process_cache: an entry that stays is as old as it was.
Populate ==
    /\ cache' = Populated(cache)
    /\ unseen' = {p \in unseen : Alive(p)}

\* update_single_process(h, state, c) as it changes the kernel.  A handle
\* whose process is gone leads to no system call that succeeds.
UpdateProc(h, c) ==
    proc' = IF ~Alive(h.pid) THEN proc
            ELSE [proc EXCEPT ![h.pid].sched =
                    Update(h, state.fg, state.client, Handles(c), @)]

------------------------------------------------------------------------------
(* The kernel.                                                             *)

Listening == phase = "up" /\ pc["monitor"] # "subscribe"

\* The event fits into the receive buffer of the monitor's socket.
Announced == Listening /\ Len(events) < MaxQueue

Post(e) == events' = IF Announced THEN Append(events, e) ELSE events

Spend(k) == left[k] > 0 /\ left' = [left EXCEPT ![k] = @ - 1]

daemonVars == <<phase, running, state, cache, lockVars, pc, localVars, cleanErr>>

Fork(p) ==
    /\ Spend("fork")
    /\ proc[p].st = "unborn" /\ Alive(Parent[p])
    /\ proc' = [proc EXCEPT ![p] =
                 [st |-> "run", ppid |-> Parent[p], exe |-> proc[Parent[p]].exe,
                  sched |-> Inherited(proc[Parent[p]].sched)]]
    /\ Post([kind |-> "fork", pid |-> p])
    /\ UNCHANGED <<daemonVars, unseen>>

\* Pid 1 executes nothing but its own file again.
Exec(p, e) ==
    /\ Spend("exec")
    /\ p # InitPid /\ Alive(p) /\ proc[p].exe # e
    /\ proc' = [proc EXCEPT ![p].exe = e]
    /\ Post([kind |-> "exec", pid |-> p])
    /\ unseen' = IF Announced \/ ~Cached(p) THEN unseen ELSE unseen \union {p}
    /\ UNCHANGED daemonVars

\* The processes p leaves behind: pid 1 adopts them, which no event tells.
Orphans(p) == {q \in Pid : Alive(q) /\ proc[q].ppid = p}

Exit(p) ==
    /\ Spend("exit")
    /\ p # InitPid /\ Alive(p)
    /\ proc' = [q \in Pid |->
                 IF q = p THEN [proc[q] EXCEPT !.st = "gone"]
                 ELSE IF q \in Orphans(p) THEN [proc[q] EXCEPT !.ppid = InitPid]
                 ELSE proc[q]]
    /\ Post([kind |-> "exit", pid |-> p])
    /\ unseen' = unseen \union {q \in Orphans(p) : Cached(q)}
    /\ UNCHANGED daemonVars

------------------------------------------------------------------------------
(* Mutexes and control.                                                    *)

At(t, l) == phase = "up" /\ pc[t] = l
Goto(t, l) == pc' = [pc EXCEPT ![t] = l]

\* Mutant: the state can be had by two threads at once.
LockStateShared(t) ==
    /\ stateOwner' = t
    /\ enteredUp' = running
    /\ late' = IF running THEN late ELSE late \union {t}

LockState(t) ==
    /\ stateOwner = NoThread
    /\ stateOwner' = t
    /\ enteredUp' = running
    /\ late' = IF running THEN late ELSE late \union {t}

UnlockState == stateOwner' = NoThread /\ enteredUp' = FALSE

\* Mutant: a loop that does not test running.
LoopForever(t, body) == Goto(t, body)

\* while running.load(Ordering::Acquire)
Loop(t, body) == Goto(t, IF running THEN body ELSE "end")

------------------------------------------------------------------------------
(* socket_handler and process_message.                                     *)

sockFrame == <<events, left, phase, running, cache, cacheOwner, ev, todo, snap,
               plist, ghostVars>>

SockCheck ==
    /\ At("socket", "check")
    /\ Loop("socket", "recv")
    /\ UNCHANGED <<proc, state, stateOwner, enteredUp, late, sock, sockFrame>>

\* A datagram arrives; one that does not parse is dropped before any lock.
SockReceive(m) ==
    /\ At("socket", "recv")
    /\ Spend("msg")
    /\ IF m.to = "garbled"
       THEN Goto("socket", "check") /\ UNCHANGED sock
       ELSE Goto("socket", "lockState") /\ sock' = [NoSock EXCEPT !.m = m]
    /\ UNCHANGED <<proc, events, phase, running, state, cache, lockVars, ev,
                   todo, snap, plist, ghostVars>>

\* Takes the state and stores the message in it; it keeps the state locked
\* only if the foreground changes, to update the new process and the old.
SockApply ==
    LET m == sock.m
        prev == state.fg
        changes == m.to = "fg" /\ m.pid # prev
    IN  /\ At("socket", "lockState")
        /\ IF changes THEN LockState("socket")
           ELSE /\ stateOwner = NoThread
                /\ late' = IF running THEN late ELSE late \union {"socket"}
                /\ UNCHANGED <<stateOwner, enteredUp>>
        /\ state' = IF m.to = "client" THEN [state EXCEPT !.client = m.pid]
                    ELSE [state EXCEPT !.fg = m.pid]
        /\ sock' = IF changes THEN [sock EXCEPT !.prev = prev] ELSE NoSock
        /\ Goto("socket", IF ~changes THEN "check"
                          ELSE IF m.pid # NoPid THEN "new" ELSE "old")
        /\ UNCHANGED <<proc, sockFrame>>

\* Mutant: the guard outlives process_message.
SockReturnLocked ==
    /\ UNCHANGED <<stateOwner, enteredUp>>
    /\ sock' = NoSock
    /\ Goto("socket", "check")

\* The end of process_message: the guard of the state is dropped.
SockReturn ==
    /\ UnlockState
    /\ sock' = NoSock
    /\ Goto("socket", "check")

\* ProcessHandle::from_pid(pid)? : on an error the function returns, and
\* whatever was still to be updated is not.
SockLookup(here, pid, next) ==
    /\ At("socket", here)
    /\ IF FromPid(pid) = Failed THEN SockReturn
       ELSE /\ sock' = [sock EXCEPT !.h = FromPid(pid)]
            /\ Goto("socket", next)
            /\ UNCHANGED <<stateOwner, enteredUp>>
    /\ UNCHANGED <<proc, state, late, sockFrame>>

SockNew == SockLookup("new", sock.m.pid, "lockNew")
SockOld == sock.prev # NoPid /\ SockLookup("old", sock.prev, "lockOld")

\* update_single_process with the cache locked for the length of the call.
SockUpdateNew ==
    /\ At("socket", "lockNew")
    /\ cacheOwner = NoThread
    /\ UpdateProc(sock.h, cache)
    /\ sock' = [sock EXCEPT !.h = Absent]
    /\ Goto("socket", "old")
    /\ UNCHANGED <<state, stateOwner, enteredUp, late, sockFrame>>

SockUpdateOld ==
    /\ At("socket", "lockOld")
    /\ cacheOwner = NoThread
    /\ UpdateProc(sock.h, cache)
    /\ SockReturn
    /\ UNCHANGED <<state, late, sockFrame>>

SockNoOld ==
    /\ At("socket", "old")
    /\ sock.prev = NoPid
    /\ SockReturn
    /\ UNCHANGED <<proc, state, late, sockFrame>>

SockStep == SockCheck \/ SockApply \/ SockNew \/ SockOld \/ SockUpdateNew
            \/ SockUpdateOld \/ SockNoOld

------------------------------------------------------------------------------
(* The refresh thread.                                                     *)

refreshFrame == <<events, left, phase, running, state, sock, ev, snap, plist,
                  cleanErr>>

RefreshCheck ==
    /\ At("refresh", "check")
    /\ Loop("refresh", "populate")
    /\ UNCHANGED <<proc, cache, unseen, lockVars, todo, refreshFrame>>

\* Mutant: the guard of the cache is kept from populating to updating.
RefreshPopulateLocked ==
    /\ At("refresh", "populate")
    /\ cacheOwner = NoThread
    /\ cacheOwner' = "refresh"
    /\ Populate
    /\ Goto("refresh", "lockState")
    /\ UNCHANGED <<proc, stateOwner, enteredUp, late, todo, refreshFrame>>

RefreshPopulate ==
    /\ At("refresh", "populate")
    /\ cacheOwner = NoThread
    /\ Populate
    /\ Goto("refresh", "lockState")
    /\ UNCHANGED <<proc, lockVars, todo, refreshFrame>>

RefreshLockState ==
    /\ At("refresh", "lockState")
    /\ LockState("refresh")
    /\ Goto("refresh", "lockCache")
    /\ UNCHANGED <<proc, cache, unseen, cacheOwner, todo, refreshFrame>>

RefreshLockCache ==
    /\ At("refresh", "lockCache")
    /\ cacheOwner = NoThread
    /\ cacheOwner' = "refresh"
    /\ todo' = DOMAIN Handles(cache)
    /\ Goto("refresh", "update")
    /\ UNCHANGED <<proc, cache, unseen, stateOwner, enteredUp, late,
                   refreshFrame>>

\* update_all_processes_once, in whatever order the map is iterated.
RefreshUpdate(p) ==
    /\ At("refresh", "update")
    /\ p \in todo
    /\ UpdateProc(cache[p], cache)
    /\ todo' = todo \ {p}
    /\ UNCHANGED <<cache, unseen, lockVars, pc, refreshFrame>>

\* Both guards are dropped.  The sleep is interrupted or runs out by itself:
\* either way the thread comes back to its loop, so it takes no step.
RefreshUnlock ==
    /\ At("refresh", "update")
    /\ todo = {}
    /\ UnlockState
    /\ cacheOwner' = NoThread
    /\ Goto("refresh", "check")
    /\ UNCHANGED <<proc, cache, unseen, late, todo, refreshFrame>>

RefreshStep ==
    \/ RefreshCheck \/ RefreshPopulate \/ RefreshLockState \/ RefreshLockCache
    \/ RefreshUnlock
    \/ \E p \in Pid : RefreshUpdate(p)

------------------------------------------------------------------------------
(* The monitor thread.                                                     *)

monitorFrame == <<left, phase, running, state, sock, todo, snap, plist,
                  cleanErr>>

\* ProcMon::new
MonSubscribe ==
    /\ At("monitor", "subscribe")
    /\ Goto("monitor", "populate")
    /\ UNCHANGED <<proc, events, cache, unseen, lockVars, ev, monitorFrame>>

MonPopulate ==
    /\ At("monitor", "populate")
    /\ cacheOwner = NoThread
    /\ Populate
    /\ Goto("monitor", "check")
    /\ UNCHANGED <<proc, events, lockVars, ev, monitorFrame>>

MonCheck ==
    /\ At("monitor", "check")
    /\ Loop("monitor", "wait")
    /\ UNCHANGED <<proc, events, cache, unseen, lockVars, ev, monitorFrame>>

MonWait ==
    /\ At("monitor", "wait")
    /\ events # <<>>
    /\ ev' = Head(events)
    /\ events' = Tail(events)
    /\ Goto("monitor", "lockState")
    /\ UNCHANGED <<proc, cache, unseen, lockVars, monitorFrame>>

MonLockState ==
    /\ At("monitor", "lockState")
    /\ LockState("monitor")
    /\ Goto("monitor", "lockCache")
    /\ UNCHANGED <<proc, events, cache, unseen, cacheOwner, ev, monitorFrame>>

\* Mutant: an exec does not replace the entry the cache has.
NotedOnce(e) ==
    CASE e.kind = "exec" /\ cache[e.pid] = Absent
            -> [cache EXCEPT ![e.pid] = FromPid(e.pid)]
      [] e.kind = "exit" -> [cache EXCEPT ![e.pid] = Absent]
      [] OTHER -> cache

\* The cache's entry after event e.
Noted(e) ==
    CASE e.kind = "exec" -> [cache EXCEPT ![e.pid] = FromPid(e.pid)]
      [] e.kind = "exit" -> [cache EXCEPT ![e.pid] = Absent]
      [] OTHER -> cache

MonLockCache ==
    /\ At("monitor", "lockCache")
    /\ cacheOwner = NoThread
    /\ cacheOwner' = "monitor"
    /\ cache' = Noted(ev)
    /\ unseen' = IF ev.kind \in {"exec", "exit"} THEN unseen \ {ev.pid}
                 ELSE unseen
    /\ Goto("monitor", "update")
    /\ UNCHANGED <<proc, events, stateOwner, enteredUp, late, ev, monitorFrame>>

MonUpdate ==
    /\ At("monitor", "update")
    /\ IF ev.kind = "exec" /\ ev.pid \in DOMAIN Handles(cache)
       THEN UpdateProc(cache[ev.pid], cache)
       ELSE UNCHANGED proc
    /\ UnlockState
    /\ cacheOwner' = NoThread
    /\ ev' = NoEvent
    /\ Goto("monitor", "check")
    /\ UNCHANGED <<events, cache, unseen, late, monitorFrame>>

MonStep == MonSubscribe \/ MonPopulate \/ MonCheck \/ MonWait \/ MonLockState
           \/ MonLockCache \/ MonUpdate

------------------------------------------------------------------------------
(* The signal thread and cleanup.                                          *)

signalFrame == <<events, state, sock, ev, todo, enteredUp, late, stateOwner,
                 cacheOwner, unseen>>

\* SIGINT or SIGTERM arrives.  (kernel_tweaks: module KernelTweaks.)
Signal ==
    /\ At("signal", "wait")
    /\ Spend("sig")
    /\ Goto("signal", "stop")
    /\ UNCHANGED <<proc, phase, running, cache, snap, plist, cleanErr,
                   signalFrame>>

\* running.store(false), canceller.cancel()
SigStop ==
    /\ At("signal", "stop")
    /\ running' = FALSE
    /\ Goto("signal", "barrier")
    /\ UNCHANGED <<proc, left, phase, cache, snap, plist, cleanErr, signalFrame>>

\* Mutant: cleanup starts without waiting for the state.
SigNoBarrier ==
    /\ At("signal", "barrier")
    /\ Goto("signal", "list")
    /\ UNCHANGED <<proc, left, phase, running, cache, snap, plist, cleanErr,
                   signalFrame>>

\* The state is locked, and at the end of the if let unlocked again.
SigBarrier ==
    /\ At("signal", "barrier")
    /\ stateOwner = NoThread
    /\ Goto("signal", "list")
    /\ UNCHANGED <<proc, left, phase, running, cache, snap, plist, cleanErr,
                   signalFrame>>

\* The first half of cleanup: from_pid on every pid of /proc.
SigList ==
    /\ At("signal", "list")
    /\ snap' = [p \in Pid |-> IF Alive(p) THEN FromPid(p) ELSE Absent]
    /\ plist' = {p \in Pid : Alive(p)}
    /\ Goto("signal", "restore")
    /\ UNCHANGED <<proc, left, phase, running, cache, cleanErr, signalFrame>>

ToRestore(h) ==
    /\ h.exe # NoExe
    /\ IsEqualOrChildOf(h, CriticalPids(Handles(snap), NoPid), Handles(snap))

\* The second half, one process at a time.  set_all finds no threads of a
\* process that is gone; set_autogroup_priority fails on it, and cleanup
\* returns.
SigRestore(p) ==
    LET h == snap[p]
        fails == ToRestore(h) /\ ~Alive(p)
    IN  /\ At("signal", "restore")
        /\ p \in plist
        /\ proc' = IF ToRestore(h) /\ Alive(p)
                   THEN [proc EXCEPT ![p].sched =
                            SetAutogroup(SetNormal(h, @), 0)]
                   ELSE proc
        /\ plist' = IF fails THEN {} ELSE plist \ {p}
        /\ cleanErr' = (cleanErr \/ fails)
        /\ UNCHANGED <<left, phase, running, cache, pc, snap, signalFrame>>

\* Mutant: the cache is cleared without its lock.
SigClearUnlocked ==
    /\ At("signal", "restore")
    /\ plist = {}
    /\ cache' = [p \in Pid |-> Absent]
    /\ Goto("signal", "exit")
    /\ UNCHANGED <<proc, left, phase, running, snap, plist, cleanErr, signalFrame>>

SigClear ==
    /\ At("signal", "restore")
    /\ plist = {}
    /\ cacheOwner = NoThread
    /\ cache' = [p \in Pid |-> Absent]
    /\ Goto("signal", "exit")
    /\ UNCHANGED <<proc, left, phase, running, snap, plist, cleanErr, signalFrame>>

\* exit(0): whatever the other threads were doing ends here.
SigExit ==
    /\ At("signal", "exit")
    /\ phase' = "exited"
    /\ UNCHANGED <<proc, left, running, cache, pc, snap, plist, cleanErr,
                   signalFrame>>

SigStep ==
    \/ SigStop \/ SigBarrier \/ SigList \/ SigClear \/ SigExit
    \/ \E p \in Pid : SigRestore(p)

------------------------------------------------------------------------------
(* The process.                                                            *)

Start == [t \in Thread |-> CASE t = "monitor" -> "subscribe"
                             [] t = "signal" -> "wait"
                             [] OTHER -> "check"]

NoState == [fg |-> NoPid, client |-> NoPid]
NoCache == [p \in Pid |-> Absent]

\* abort(), or a panic of any thread.
Crash ==
    /\ phase = "up"
    /\ Spend("crash")
    /\ phase' = "aborted"
    /\ UNCHANGED <<proc, events, running, state, cache, lockVars, pc, localVars,
                   ghostVars>>

\* The program is started again, with the memory of a new process.
Restart ==
    /\ phase = "aborted"
    /\ phase' = "up" /\ running' = TRUE
    /\ state' = NoState /\ cache' = NoCache
    /\ stateOwner' = NoThread /\ cacheOwner' = NoThread
    /\ enteredUp' = FALSE /\ late' = {}
    /\ pc' = Start /\ sock' = NoSock /\ ev' = NoEvent /\ todo' = {}
    /\ snap' = NoCache /\ plist' = {}
    /\ cleanErr' = FALSE /\ unseen' = {} /\ events' = <<>>
    /\ UNCHANGED <<proc, left>>

Init ==
    /\ proc = [p \in Pid |->
                [st |-> IF FirstExe[p] = Unborn THEN "unborn" ELSE "run",
                 ppid |-> Parent[p],
                 exe |-> IF FirstExe[p] = Unborn THEN NoExe ELSE FirstExe[p],
                 sched |-> Untouched]]
    /\ events = <<>> /\ left \in Budgets
    /\ phase = "up" /\ running = TRUE
    /\ state = NoState /\ cache = NoCache
    /\ stateOwner = NoThread /\ cacheOwner = NoThread
    /\ enteredUp = FALSE /\ late = {}
    /\ pc = Start /\ sock = NoSock /\ ev = NoEvent /\ todo = {}
    /\ snap = NoCache /\ plist = {}
    /\ cleanErr = FALSE /\ unseen = {}

Kernel ==
    \/ \E p \in Pid : Fork(p) \/ Exit(p)
    \/ \E p \in Pid, e \in Exe : Exec(p, e)

\* After exit(0) nothing has to happen any more.
Over == phase = "exited" /\ UNCHANGED vars

Next ==
    \/ Kernel
    \/ \E m \in Messages : SockReceive(m)
    \/ SockStep \/ MonStep \/ RefreshStep
    \/ Signal \/ SigStep
    \/ Crash \/ Restart \/ Over

\* Threads that can run are run, and a thread that waits for a mutex gets it
\* if it is free again and again: the refresh thread, the only one that takes
\* the mutexes without being asked to, sleeps for 5 s after each time, while
\* the thread it has woken up runs.  Nothing obliges the kernel, the clients,
\* the user or a crash to do anything; whether an aborted daemon is started
\* again is up to systemd.
Fairness ==
    /\ WF_vars(RefreshStep) /\ WF_vars(SigStep)
    /\ SF_vars(SockStep) /\ SF_vars(MonStep)

Spec == Init /\ [][Next]_vars
FairSpec == Spec /\ Fairness

------------------------------------------------------------------------------
(* Properties.                                                             *)

\* Every variable stays in its range (all of main.rs's shared state).
TypeOK ==
    /\ proc \in [Pid -> [st : {"unborn", "run", "gone"},
                         ppid : Pid \union {NoPid}, exe : AnyExe, sched : Sched]]
    /\ events \in Seq(Event) /\ Len(events) <= MaxQueue
    /\ left \in [Kinds -> Nat]
    /\ phase \in {"up", "exited", "aborted"}
    /\ running \in BOOLEAN
    /\ state \in [fg : Pid \union {NoPid}, client : Pid \union {NoPid}]
    /\ cache \in [Pid -> Handle \union {Absent, Failed}]
    /\ stateOwner \in Thread \union {NoThread}
    /\ cacheOwner \in Thread \union {NoThread}
    /\ pc \in [Thread ->
            {"check", "recv", "lockState", "new", "lockNew", "old", "lockOld",
             "populate", "lockCache", "update", "subscribe", "wait", "stop",
             "barrier", "list", "restore", "exit", "end"}]
    /\ sock \in [m : Message \union {NoMessage}, prev : Pid \union {NoPid},
                 h : Handle \union {Absent}]
    /\ ev \in Event
    /\ todo \subseteq Pid /\ plist \subseteq Pid /\ unseen \subseteq Pid
    /\ snap \in [Pid -> Handle \union {Absent}]
    /\ late \subseteq Thread
    /\ enteredUp \in BOOLEAN /\ cleanErr \in BOOLEAN

\* The places of a thread that has the state locked, and of one that has the
\* cache locked too.
InState(t) ==
    \/ t = "socket" /\ pc[t] \in {"new", "lockNew", "old", "lockOld"}
    \/ t \in {"refresh", "monitor"} /\ pc[t] \in {"lockCache", "update"}
InCache(t) == t \in {"refresh", "monitor"} /\ pc[t] = "update"

\* Updates are serialised: each mutex is held by exactly the thread whose
\* place in the code says so (the guards of process_message, of the monitor's
\* loop and of update_all_processes_once), and the cache's holder also has the
\* state, so that no cache entry changes under an update.
MutexOK ==
    \A t \in Thread :
        /\ InState(t) <=> stateOwner = t
        /\ InCache(t) <=> cacheOwner = t

\* Nothing takes an entry away from under a sweep, neither an exit event nor
\* populating nor the clearing at exit: what the refresh thread has still to
\* update is in the cache to the last (update_all_processes_once, main.rs:708).
SweepSeesItsCache ==
    At("refresh", "update") => todo \subseteq DOMAIN Handles(cache)

\* Once the signal thread has passed its barrier (locking the state after
\* clearing running, main.rs:528-530), no update that began while the daemon
\* was still running is in progress: cleanup races at most with threads that
\* had read running before it was cleared and not yet locked the state.
BarrierHolds ==
    pc["signal"] \in {"list", "restore", "exit"} /\ stateOwner # NoThread
        => ~enteredUp

\* After running is cleared a thread gets the state at most once more: the
\* test of the loops stops it before the second time.
OneLateSectionEach ==
    [][\A t \in late : stateOwner' = t => stateOwner = t]_vars

\* Does process p have the attributes of a process that is back to normal?
IsNormal(p) ==
    /\ proc[p].sched.policy = "OTHER" /\ proc[p].sched.nice = 0
    /\ proc[p].sched.group = 0

\* What cleanup does achieve: if no thread got in late and no process it had
\* listed disappeared, then at exit(0) each listed process below a critical
\* one that is not excluded from real time is back to normal.
CleanupRestores ==
    phase = "exited" /\ late = {} /\ ~cleanErr =>
        \A p \in Pid :
            /\ snap[p] # Absent /\ Alive(p)
            /\ ToRestore(snap[p])
            /\ snap[p].exe \notin ExcludeRealtime
            => IsNormal(p)

\* "exiting, setting processes back to normal" (main.rs:522), when a process
\* disappears while cleanup runs: the others it has to put back are normal.
ExitRestoresOthers ==
    phase = "exited" /\ late = {} =>
        \A p \in Pid :
            /\ snap[p] # Absent /\ Alive(p)
            /\ ToRestore(snap[p])
            /\ snap[p].exe \notin ExcludeRealtime
            => IsNormal(p)

\* The same announcement (main.rs:522) whatever the other threads do: what
\* cleanup has put back stays as it is.
ExitRestoresForGood ==
    phase = "exited" /\ ~cleanErr =>
        \A p \in Pid :
            /\ snap[p] # Absent /\ Alive(p)
            /\ ToRestore(snap[p])
            /\ snap[p].exe \notin ExcludeRealtime
            => IsNormal(p)

\* A signal ends the daemon, however the threads and their locks are
\* interleaved, unless it crashes first.
SignalLeadsToExit ==
    At("signal", "stop") ~> phase # "up"

\* What the daemon is for: a process has the attributes that its place in the
\* tree and the foreground call for.
TrueTable == [p \in {q \in Pid : Alive(q)} |-> FromPid(p)]
Aligned(p) ==
    proc[p].sched = Update(FromPid(p), state.fg, state.client, TrueTable,
                           proc[p].sched)

\* Has the daemon been able to learn what it needs to know of p: did every
\* change of p and of its ancestors come before the entry was made, or with an
\* event?
Informed(p) ==
    (Parents(FromPid(p), TrueTable) \union {p}) \intersect unseen = {}

\* While the daemon keeps running, every process ends up with the attributes
\* update_single_process gives it in the present state, in whatever order the
\* threads saw what was forked, exec'd, announced or gone (process_message
\* returns early then, main.rs:330), also after a crash.  Two kinds of process
\* are excepted, with their descendants, until they exec again: one whose exec
\* came before the monitor listened or found the receive buffer full
\* (procmon.c:94), and an orphan, whose entry names a parent that is gone for
\* as long as it lives (main.rs:701).
Converges ==
    <>[](phase = "up" /\ running =>
            \A p \in Pid : Alive(p) /\ Informed(p) => Aligned(p))

------------------------------------------------------------------------------
\* The threads keep to the lock protocol: they always take the state before
\* the cache, and give both back.
Locks == INSTANCE LockProtocol WITH up <- (phase = "up")
LockDiscipline == Locks!Spec

=============================================================================
