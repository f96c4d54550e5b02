---------------------------- MODULE DaemonProofs ----------------------------
(***************************************************************************)
(* What holds of the daemon's threads and mutexes for every tree of        *)
(* processes, every policy, every message and every bound on the           *)
(* environment.                                                            *)
(***************************************************************************)
EXTENDS Daemon, TLAPS

Place ==
    {"check", "recv", "lockState", "new", "lockNew", "old", "lockOld",
     "populate", "lockCache", "update", "subscribe", "wait", "stop",
     "barrier", "list", "restore", "exit", "end"}

\* Everything the invariant speaks about.
control == <<running, pc, stateOwner, cacheOwner, enteredUp, late>>

\* The signal thread has cleared running before it comes to its barrier.
StoppedBeforeBarrier ==
    pc["signal"] \in {"barrier", "list", "restore", "exit"} => ~running

\* A thread that got the state late is still inside, or on its way out.
LateIsLeaving ==
    \A t \in late : t \in Thread \ {"signal"} /\ ~running
                    /\ (InState(t) \/ pc[t] \in {"check", "end"})

LInv ==
    /\ pc \in [Thread -> Place]
    /\ running \in BOOLEAN
    /\ MutexOK
    /\ StoppedBeforeBarrier
    /\ BarrierHolds
    /\ LateIsLeaving

\* The steps that leave control alone.
LEMMA ControlUnchanged == LInv /\ UNCHANGED control => LInv'
  BY DEF LInv, control, MutexOK, InState, InCache, StoppedBeforeBarrier,
         BarrierHolds, LateIsLeaving, Thread, Place

\* When the daemon has just started nobody has a mutex.
LEMMA LInvInit == Init => LInv
  BY DistinctAssumption
  DEF Init, LInv, MutexOK, InState, InCache, StoppedBeforeBarrier,
      BarrierHolds, LateIsLeaving, Start, Thread, Place

\* The socket thread.
LEMMA LInvSock ==
    ASSUME LInv, SockStep \/ \E m \in Messages : SockReceive(m)
    PROVE  LInv'
<1> USE DistinctAssumption
    DEF LInv, MutexOK, InState, InCache, StoppedBeforeBarrier, BarrierHolds,
        LateIsLeaving, Thread, Place, At, Goto, sockFrame
<1>1. CASE SockCheck
  BY <1>1 DEF SockCheck, Loop
<1>2. CASE SockApply
  BY <1>2 DEF SockApply, LockState
<1>3. CASE SockNew
  BY <1>3 DEF SockNew, SockLookup, SockReturn, UnlockState
<1>4. CASE SockOld
  BY <1>4 DEF SockOld, SockLookup, SockReturn, UnlockState
<1>5. CASE SockUpdateNew
  BY <1>5 DEF SockUpdateNew
<1>6. CASE SockUpdateOld
  BY <1>6 DEF SockUpdateOld, SockReturn, UnlockState
<1>7. CASE SockNoOld
  BY <1>7 DEF SockNoOld, SockReturn, UnlockState
<1>8. ASSUME NEW m \in Messages, SockReceive(m) PROVE LInv'
  BY <1>8 DEF SockReceive, lockVars
<1> QED
  BY <1>1, <1>2, <1>3, <1>4, <1>5, <1>6, <1>7, <1>8 DEF SockStep

\* The refresh thread.
LEMMA LInvRefresh == ASSUME LInv, RefreshStep PROVE LInv'
<1> USE DistinctAssumption
    DEF LInv, MutexOK, InState, InCache, StoppedBeforeBarrier, BarrierHolds,
        LateIsLeaving, Thread, Place, At, Goto, refreshFrame
<1>1. CASE RefreshCheck
  BY <1>1 DEF RefreshCheck, Loop, lockVars
<1>2. CASE RefreshPopulate
  BY <1>2 DEF RefreshPopulate, lockVars
<1>3. CASE RefreshLockState
  BY <1>3 DEF RefreshLockState, LockState
<1>4. CASE RefreshLockCache
  BY <1>4 DEF RefreshLockCache
<1>5. CASE RefreshUnlock
  BY <1>5 DEF RefreshUnlock, UnlockState
<1>6. ASSUME NEW p \in Pid, RefreshUpdate(p) PROVE LInv'
  BY <1>6 DEF RefreshUpdate, lockVars
<1> QED
  BY <1>1, <1>2, <1>3, <1>4, <1>5, <1>6 DEF RefreshStep

\* The monitor thread.
LEMMA LInvMon == ASSUME LInv, MonStep PROVE LInv'
<1> USE DistinctAssumption
    DEF LInv, MutexOK, InState, InCache, StoppedBeforeBarrier, BarrierHolds,
        LateIsLeaving, Thread, Place, At, Goto, monitorFrame
<1>1. CASE MonSubscribe
  BY <1>1 DEF MonSubscribe, lockVars
<1>2. CASE MonPopulate
  BY <1>2 DEF MonPopulate, lockVars
<1>3. CASE MonCheck
  BY <1>3 DEF MonCheck, Loop, lockVars
<1>4. CASE MonWait
  BY <1>4 DEF MonWait, lockVars
<1>5. CASE MonLockState
  BY <1>5 DEF MonLockState, LockState
<1>6. CASE MonLockCache
  BY <1>6 DEF MonLockCache
<1>7. CASE MonUpdate
  BY <1>7 DEF MonUpdate, UnlockState
<1> QED
  BY <1>1, <1>2, <1>3, <1>4, <1>5, <1>6, <1>7 DEF MonStep

\* The signal thread.  Only SigStop and SigBarrier bear on the invariant: the
\* first makes late threads possible, the second waits for the others.
LEMMA LInvSignal == ASSUME LInv, Signal \/ SigStep PROVE LInv'
<1> USE DistinctAssumption
    DEF LInv, MutexOK, InState, InCache, StoppedBeforeBarrier, BarrierHolds,
        LateIsLeaving, Thread, Place, At, Goto, signalFrame
<1>1. CASE Signal
  BY <1>1 DEF Signal
<1>2. CASE SigStop
  BY <1>2 DEF SigStop
<1>3. CASE SigBarrier
  BY <1>3 DEF SigBarrier
<1>4. CASE SigList
  BY <1>4 DEF SigList
<1>5. CASE SigClear
  BY <1>5 DEF SigClear
<1>6. CASE SigExit
  BY <1>6 DEF SigExit
<1>7. ASSUME NEW p \in Pid, SigRestore(p) PROVE LInv'
  BY <1>7 DEF SigRestore
<1> QED
  BY <1>1, <1>2, <1>3, <1>4, <1>5, <1>6, <1>7 DEF SigStep

\* Every step of the daemon, of the kernel and of a crash keeps the invariant.
LEMMA LInvStep == LInv /\ [Next]_vars => LInv'
<1> SUFFICES ASSUME LInv, [Next]_vars PROVE LInv'
  OBVIOUS
<1>1. CASE Kernel
  <2>1. UNCHANGED control
    BY <1>1 DEF Kernel, Fork, Exec, Exit, control, daemonVars, lockVars
  <2> QED
    BY <2>1, ControlUnchanged
<1>2. CASE SockStep \/ \E m \in Messages : SockReceive(m)
  BY <1>2, LInvSock
<1>3. CASE MonStep
  BY <1>3, LInvMon
<1>4. CASE RefreshStep
  BY <1>4, LInvRefresh
<1>5. CASE Signal \/ SigStep
  BY <1>5, LInvSignal
<1>6. CASE Crash
  <2>1. UNCHANGED control
    BY <1>6 DEF Crash, control, lockVars
  <2> QED
    BY <2>1, ControlUnchanged
<1>7. CASE Restart
  BY <1>7, DistinctAssumption
  DEF Restart, LInv, MutexOK, InState, InCache, StoppedBeforeBarrier,
      BarrierHolds, LateIsLeaving, Start, Thread, Place
<1>8. CASE UNCHANGED vars
  <2>1. UNCHANGED control
    BY <1>8 DEF vars, control, lockVars
  <2> QED
    BY <2>1, ControlUnchanged
<1> QED
  BY <1>1, <1>2, <1>3, <1>4, <1>5, <1>6, <1>7, <1>8 DEF Next, Over

\* So it holds in every reachable state.
LEMMA LInvCorrect == Spec => []LInv
  BY LInvInit, LInvStep, PTL DEF Spec

\* Updates are serialised: a thread is in a place that needs a mutex exactly
\* when it has it (the guards of process_message, the monitor's loop and
\* update_all_processes_once).
THEOREM Serialised == Spec => []MutexOK
<1>1. LInv => MutexOK
  BY DEF LInv
<1> QED
  BY <1>1, LInvCorrect, PTL

\* No update begun while the daemon was running survives the barrier of the
\* signal thread (main.rs:528-530).
THEOREM BarrierWorks == Spec => []BarrierHolds
<1>1. LInv => BarrierHolds
  BY DEF LInv
<1> QED
  BY <1>1, LInvCorrect, PTL

\* After running is cleared each thread takes the state at most once more, so
\* cleanup has at most three late sections to contend with.
THEOREM OneLateSection == Spec => OneLateSectionEach
<1>1. ASSUME LInv, [Next]_vars
      PROVE  [\A t \in late : stateOwner' = t => stateOwner = t]_vars
  <2> SUFFICES ASSUME NEW t \in late, Next, stateOwner' = t
               PROVE  stateOwner = t
    BY <1>1
  <2>1. t \in Thread /\ t # NoThread /\ (InState(t) \/ pc[t] \in {"check", "end"})
    BY <1>1, DistinctAssumption DEF LInv, LateIsLeaving
  <2>2. InState(t) => stateOwner = t
    BY <1>1, <2>1 DEF LInv, MutexOK
  <2>3. SUFFICES ASSUME pc[t] \in {"check", "end"} PROVE stateOwner' = stateOwner
                        \/ stateOwner' # t
    BY <2>1, <2>2
  <2> USE <2>1, <2>3 DEF At, Goto
  <2>4. CASE SockStep
    BY <2>4 DEF SockStep, SockCheck, SockApply, SockNew, SockOld, SockLookup,
                SockReturn, SockUpdateNew, SockUpdateOld, SockNoOld, LockState,
                UnlockState
  <2>5. CASE MonStep
    BY <2>5 DEF MonStep, MonSubscribe, MonPopulate, MonCheck, MonWait,
                MonLockState, MonLockCache, MonUpdate, LockState, UnlockState,
                lockVars
  <2>6. CASE RefreshStep
    BY <2>6 DEF RefreshStep, RefreshCheck, RefreshPopulate, RefreshLockState,
                RefreshLockCache, RefreshUpdate, RefreshUnlock, LockState,
                UnlockState, lockVars
  <2>7. CASE Signal \/ SigStep
    BY <2>7 DEF Signal, SigStep, SigStop, SigBarrier, SigList, SigRestore,
                SigClear, SigExit, signalFrame
  <2>8. CASE Kernel \/ Crash \/ Restart \/ Over \/ \E m \in Messages : SockReceive(m)
    BY <2>8 DEF Kernel, Fork, Exec, Exit, Crash, Restart, Over, SockReceive,
                daemonVars, lockVars, vars
  <2> QED
    BY <2>4, <2>5, <2>6, <2>7, <2>8 DEF Next
<1> QED
  BY <1>1, LInvCorrect, PTL DEF Spec, OneLateSectionEach

\* Every step of the daemon is a step of the lock protocol, or none of its
\* business: the state is always taken before the cache, and a thread gives
\* back what it holds (process_message, the monitor's loop,
\* update_all_processes_once).  The fairness half of LockDiscipline is left to
\* the model checker.
THEOREM LocksImplement == Spec => Locks!Init /\ [][Locks!Next]_(Locks!vars)
<1>1. Init => Locks!Init
  BY DEF Init, Locks!Init
<1>2. ASSUME LInv, [Next]_vars PROVE [Locks!Next]_(Locks!vars)
  <2> DEFINE owners == <<stateOwner, cacheOwner, phase>>
  <2>1. UNCHANGED owners => UNCHANGED Locks!vars
    BY DEF Locks!vars
  <2>2. \A t \in Thread : t # NoThread /\ (InState(t) <=> stateOwner = t)
                                       /\ (InCache(t) <=> cacheOwner = t)
    BY <1>2, DistinctAssumption DEF LInv, MutexOK
  <2> USE DEF Locks!vars, Locks!Next, At, Goto
  <2>3. CASE Kernel \/ Signal \/ UNCHANGED vars \/ Over
             \/ \E m \in Messages : SockReceive(m)
    <3>1. UNCHANGED owners
      BY <2>3 DEF Kernel, Fork, Exec, Exit, Signal, Over, SockReceive,
                  daemonVars, signalFrame, lockVars, vars
    <3> QED
      BY <2>1, <3>1
  <2>4. CASE SockStep
    <3>1. stateOwner = "socket" /\ stateOwner' = NoThread
          /\ UNCHANGED <<cacheOwner, phase>> /\ cacheOwner # "socket"
          /\ phase = "up" => Locks!Unlock("socket")
      BY DEF Locks!Unlock
    <3>2. stateOwner = NoThread /\ stateOwner' = "socket"
          /\ UNCHANGED <<cacheOwner, phase>> /\ cacheOwner # "socket"
          /\ phase = "up" => Locks!LockState("socket")
      BY DEF Locks!LockState
    <3>3. "socket" \in Thread /\ cacheOwner # "socket"
      BY <2>2 DEF Thread, InCache
    <3>4. InState("socket") => stateOwner = "socket"
      BY <2>2, <3>3
    <3>5. CASE SockCheck \/ SockUpdateNew
      <4>1. UNCHANGED owners
        BY <3>5 DEF SockCheck, SockUpdateNew, sockFrame
      <4> QED
        BY <2>1, <4>1
    <3>6. CASE SockApply
      BY <3>2, <3>3, <3>6 DEF SockApply, LockState, sockFrame
    <3>7. CASE SockNew \/ SockOld \/ SockUpdateOld \/ SockNoOld
      BY <3>1, <3>3, <3>4, <3>7
      DEF SockNew, SockOld, SockLookup, SockUpdateOld, SockNoOld, SockReturn,
          UnlockState, InState, sockFrame
    <3> QED
      BY <2>4, <3>5, <3>6, <3>7 DEF SockStep
  <2>5. CASE RefreshStep
    <3>1. "refresh" \in Thread
      BY DEF Thread
    <3>2. CASE RefreshCheck \/ RefreshPopulate \/ \E p \in Pid : RefreshUpdate(p)
      <4>1. UNCHANGED owners
        BY <3>2 DEF RefreshCheck, RefreshPopulate, RefreshUpdate, refreshFrame,
                    lockVars
      <4> QED
        BY <2>1, <4>1
    <3>3. CASE RefreshLockState
      <4>1. Locks!LockState("refresh")
        BY <2>2, <3>1, <3>3
        DEF RefreshLockState, LockState, InCache, refreshFrame, Locks!LockState
      <4> QED
        BY <3>1, <4>1
    <3>4. CASE RefreshLockCache
      <4>1. Locks!LockCache("refresh")
        BY <3>4 DEF RefreshLockCache, refreshFrame, Locks!LockCache
      <4> QED
        BY <3>1, <4>1
    <3>5. CASE RefreshUnlock
      <4>1. Locks!Unlock("refresh")
        BY <2>2, <3>1, <3>5
        DEF RefreshUnlock, UnlockState, InState, InCache, refreshFrame, Locks!Unlock
      <4> QED
        BY <3>1, <4>1
    <3> QED
      BY <2>5, <3>2, <3>3, <3>4, <3>5 DEF RefreshStep
  <2>6. CASE MonStep
    <3>1. "monitor" \in Thread
      BY DEF Thread
    <3>2. CASE MonSubscribe \/ MonPopulate \/ MonCheck \/ MonWait
      <4>1. UNCHANGED owners
        BY <3>2 DEF MonSubscribe, MonPopulate, MonCheck, MonWait, monitorFrame,
                    lockVars
      <4> QED
        BY <2>1, <4>1
    <3>3. CASE MonLockState
      <4>1. Locks!LockState("monitor")
        BY <2>2, <3>1, <3>3
        DEF MonLockState, LockState, InCache, monitorFrame, Locks!LockState
      <4> QED
        BY <3>1, <4>1
    <3>4. CASE MonLockCache
      <4>1. Locks!LockCache("monitor")
        BY <3>4 DEF MonLockCache, monitorFrame, Locks!LockCache
      <4> QED
        BY <3>1, <4>1
    <3>5. CASE MonUpdate
      <4>1. Locks!Unlock("monitor")
        BY <2>2, <3>1, <3>5
        DEF MonUpdate, UnlockState, InState, InCache, monitorFrame, Locks!Unlock
      <4> QED
        BY <3>1, <4>1
    <3> QED
      BY <2>6, <3>2, <3>3, <3>4, <3>5 DEF MonStep
  <2>7. CASE SigStep
    <3>1. CASE SigExit
      BY <3>1 DEF SigExit, signalFrame, Locks!Stop
    <3>2. CASE SigStop \/ SigBarrier \/ SigList \/ SigClear \/ \E p \in Pid : SigRestore(p)
      <4>1. UNCHANGED owners
        BY <3>2 DEF SigStop, SigBarrier, SigList, SigClear, SigRestore, signalFrame
      <4> QED
        BY <2>1, <4>1
    <3> QED
      BY <2>7, <3>1, <3>2 DEF SigStep
  <2>8. CASE Crash
    BY <2>8 DEF Crash, lockVars, Locks!Stop
  <2>9. CASE Restart
    BY <2>9 DEF Restart, Locks!Start
  <2> QED
    BY <1>2, <2>3, <2>4, <2>5, <2>6, <2>7, <2>8, <2>9 DEF Next
<1> QED
  BY <1>1, <1>2, LInvCorrect, PTL DEF Spec

------------------------------------------------------------------------------
(* Types.                                                                   *)

\* The attributes update_single_process, cleanup and fork(2) leave a process
\* with are among those the daemon uses.
LEMMA SchedTypes ==
    ASSUME NEW s \in Sched
    PROVE  /\ Untouched \in Sched /\ Inherited(s) \in Sched
           /\ \A policy \in Policies, nice \in Nices, reset \in BOOLEAN :
                SetScheduler(s, policy, nice, reset) \in Sched
           /\ \A nice \in {REALTIME_NICE, 0} : SetAutogroup(s, nice) \in Sched
           /\ \A nice \in Nices : [s EXCEPT !.nice = nice] \in Sched
BY DEF Sched, Untouched, Inherited, SetScheduler, SetAutogroup, Policies, Nices,
       REALTIME_NICE, BOOST_NICE, LOW_PRIORITY_NICE

LEMMA PolicyTypes ==
    ASSUME NEW s \in Sched, NEW h, NEW fg, NEW client, NEW c
    PROVE  /\ SetRealtime(h, s) \in Sched /\ SetBoosted(s) \in Sched
           /\ SetNormal(h, s) \in Sched /\ SetLowPriority(s) \in Sched
           /\ Update(h, fg, client, c, s) \in Sched
<1>1. /\ {"FIFO", "OTHER", "IDLE"} \subseteq Policies
      /\ {REALTIME_NICE, BOOST_NICE, 0, LOW_PRIORITY_NICE} \subseteq Nices
    BY DEF Policies, Nices
<1>2. SetRealtime(h, s) \in Sched
    <2> DEFINE t == IF h.exe \in ExcludeRealtime THEN s
                    ELSE SetScheduler(s, "FIFO", REALTIME_NICE, TRUE)
    <2>1. t \in Sched
        BY <1>1, SchedTypes
    <2>2. SetAutogroup(t, REALTIME_NICE) \in Sched
        BY <2>1, SchedTypes
    <2>3. [SetAutogroup(t, REALTIME_NICE) EXCEPT !.nice = REALTIME_NICE] \in Sched
        BY <1>1, <2>2, SchedTypes
    <2> QED BY <2>3 DEF SetRealtime
<1>3. SetBoosted(s) \in Sched /\ SetLowPriority(s) \in Sched
    BY <1>1, SchedTypes DEF SetBoosted, SetLowPriority
<1>4. SetNormal(h, s) \in Sched
    BY <1>1, SchedTypes DEF SetNormal
<1> QED BY <1>2, <1>3, <1>4, Zenon DEF Update

Proc == [st : {"unborn", "run", "gone"}, ppid : Pid \union {NoPid}, exe : AnyExe,
         sched : Sched]

\* What exit(2) and execve(2) change in a process keeps its type.
LEMMA ProcTypes ==
    ASSUME NEW r \in Proc
    PROVE  /\ [r EXCEPT !.st = "gone"] \in Proc
           /\ \A p \in Pid : [r EXCEPT !.ppid = p] \in Proc
           /\ \A e \in AnyExe : [r EXCEPT !.exe = e] \in Proc
BY DEF Proc

LEMMA NewSchedType ==
    ASSUME proc \in [Pid -> Proc], NEW p \in Pid, NEW a \in Sched
    PROVE  [proc EXCEPT ![p].sched = a] \in [Pid -> Proc]
BY DEF Proc

\* A process that is updated has attributes; one that is gone is left alone.
LEMMA UpdateTypes ==
    ASSUME proc \in [Pid -> Proc], NEW h, NEW c, UpdateProc(h, c)
    PROVE  proc' \in [Pid -> Proc] /\ \A p \in Pid : proc'[p].st = proc[p].st
<1>1. CASE ~Alive(h.pid)
    BY <1>1 DEF UpdateProc
<1>2. CASE Alive(h.pid)
    <2> DEFINE u == Update(h, state.fg, state.client, Handles(c), proc[h.pid].sched)
    <2>1. h.pid \in Pid /\ proc' = [proc EXCEPT ![h.pid].sched = u]
        BY <1>2 DEF UpdateProc, Alive
    <2>2. proc[h.pid].sched \in Sched
        BY <2>1 DEF Proc
    <2>3. u \in Sched
        BY <2>2, PolicyTypes
    <2> HIDE DEF u
    <2> QED BY <2>1, <2>3 DEF Proc
<1> QED BY <1>1, <1>2

\* from_pid gives a handle or nothing.
LEMMA FromPidType ==
    ASSUME proc \in [Pid -> Proc], NEW p
    PROVE  FromPid(p) \in Handle \union {Failed} /\ (Alive(p) => FromPid(p) \in Handle)
BY DEF FromPid, Alive, Handle, Proc

LEMMA CacheTypes ==
    ASSUME proc \in [Pid -> Proc], cache \in [Pid -> Handle \union {Absent, Failed}],
           NEW e
    PROVE  /\ Populated(cache) \in [Pid -> Handle \union {Absent, Failed}]
           /\ Noted(e) \in [Pid -> Handle \union {Absent, Failed}]
<1>1. Populated(cache) \in [Pid -> Handle \union {Absent, Failed}]
    BY FromPidType DEF Populated
<1>2. Noted(e) \in [Pid -> Handle \union {Absent, Failed}]
    BY FromPidType DEF Noted
<1> QED BY <1>1, <1>2

\* The kernel's and the process's variables, apart from the threads' own.
SharedTypes ==
    /\ proc \in [Pid -> Proc]
    /\ events \in Seq(Event) /\ Len(events) <= MaxQueue
    /\ left \in [Kinds -> Nat]
    /\ phase \in {"up", "exited", "aborted"}
    /\ running \in BOOLEAN
    /\ state \in [fg : Pid \union {NoPid}, client : Pid \union {NoPid}]
    /\ cache \in [Pid -> Handle \union {Absent, Failed}]
    /\ unseen \subseteq Pid /\ cleanErr \in BOOLEAN

LockTypes ==
    /\ stateOwner \in Thread \union {NoThread}
    /\ cacheOwner \in Thread \union {NoThread}
    /\ pc \in [Thread -> Place]
    /\ late \subseteq Thread /\ enteredUp \in BOOLEAN

Sock == [m : Message \union {NoMessage}, prev : Pid \union {NoPid},
         h : Handle \union {Absent}]

LocalTypes ==
    /\ sock \in Sock
    /\ ev \in Event
    /\ todo \subseteq Pid /\ plist \subseteq Pid
    /\ snap \in [Pid -> Handle \union {Absent}]

Types == SharedTypes /\ LockTypes /\ LocalTypes

LEMMA TypeParts == (TypeOK <=> Types) /\ (Types' => TypeOK')
BY DEF Types, TypeOK, SharedTypes, LockTypes, LocalTypes, Sock, Proc, Place

\* What the constants at the ends of the types are.
LEMMA Nothings ==
    /\ NoMessage.pid = NoPid /\ NoSock \in Sock /\ NoEvent \in Event
    /\ NoState \in [fg : Pid \union {NoPid}, client : Pid \union {NoPid}]
    /\ NoCache \in [Pid -> Handle \union {Absent, Failed}]
    /\ NoCache \in [Pid -> Handle \union {Absent}]
    /\ Start \in [Thread -> Place]
    /\ \A m \in Message : m.pid \in Pid \union {NoPid} /\ [NoSock EXCEPT !.m = m] \in Sock
<1>1. Start \in [Thread -> Place]
    BY Zenon DEF Start, Thread, Place
<1> QED BY <1>1 DEF NoMessage, NoSock, Sock, NoEvent, Event, NoState, NoCache, Message

LEMMA InitTypes == Init => TypeOK
<1> SUFFICES ASSUME Init PROVE TypeOK
    OBVIOUS
<1>1. proc \in [Pid -> Proc]
    <2> DEFINE first(p) == [st |-> IF FirstExe[p] = Unborn THEN "unborn" ELSE "run",
                            ppid |-> Parent[p],
                            exe |-> IF FirstExe[p] = Unborn THEN NoExe ELSE FirstExe[p],
                            sched |-> Untouched]
    <2>1. Untouched \in Sched
        BY DEF Sched, Untouched, Policies, Nices
    <2>2. ASSUME NEW p \in Pid PROVE first(p) \in Proc
        BY <2>1, ParentAssumption DEF Proc, AnyExe
    <2>3. proc = [p \in Pid |-> first(p)]
        BY DEF Init
    <2> QED BY <2>2, <2>3
<1>2. left \in [Kinds -> Nat] /\ events \in Seq(Event) /\ Len(events) <= MaxQueue
    BY BudgetAssumption, QueueAssumption DEF Init
<1>3. SharedTypes /\ LockTypes /\ LocalTypes
    BY <1>1, <1>2, Nothings DEF Init, SharedTypes, LockTypes, LocalTypes
<1> QED BY <1>3, TypeParts DEF Types

\* Spending leaves a budget, and an event is one.
LEMMA KernelTypes ==
    ASSUME SharedTypes
    PROVE  /\ \A k \in Kinds : Spend(k) => left' \in [Kinds -> Nat]
           /\ \A e \in Event : Post(e) => events' \in Seq(Event) /\ Len(events') <= MaxQueue
<1>1. ASSUME NEW k \in Kinds, Spend(k) PROVE left' \in [Kinds -> Nat]
    <2>1. left[k] - 1 \in Nat
        BY <1>1 DEF Spend, SharedTypes
    <2> QED BY <1>1, <2>1 DEF Spend, SharedTypes
<1>2. ASSUME NEW e \in Event, Post(e) PROVE events' \in Seq(Event) /\ Len(events') <= MaxQueue
    <2>1. CASE Announced
        BY <1>2, <2>1, QueueAssumption DEF Post, Announced, SharedTypes
    <2>2. CASE ~Announced
        BY <1>2, <2>2 DEF Post, SharedTypes
    <2> QED BY <2>1, <2>2
<1> QED BY <1>1, <1>2

LEMMA TypesKernel == ASSUME Types, Kernel PROVE Types'
<1> USE DEF Types, SharedTypes, LockTypes, LocalTypes
<1>1. UNCHANGED <<LockTypes, LocalTypes>> /\ UNCHANGED <<phase, running, state, cache, cleanErr>>
    BY DEF Kernel, Fork, Exec, Exit, daemonVars, lockVars, localVars
<1>2. proc' \in [Pid -> Proc]
    <2>1. ASSUME NEW p \in Pid, Fork(p) PROVE proc' \in [Pid -> Proc]
        <3>1. Parent[p] \in Pid /\ proc[Parent[p]].sched \in Sched
            BY <2>1 DEF Fork, Alive, Proc
        <3>2. [st |-> "run", ppid |-> Parent[p], exe |-> proc[Parent[p]].exe,
               sched |-> Inherited(proc[Parent[p]].sched)] \in Proc
            BY <3>1, SchedTypes DEF Proc
        <3> QED BY <2>1, <3>2 DEF Fork
    <2>2. ASSUME NEW p \in Pid, Exit(p) PROVE proc' \in [Pid -> Proc]
        <3>1. InitPid \in Pid /\ \A q \in Pid : proc[q] \in Proc
            BY ParentAssumption
        <3> QED BY <2>2, <3>1, ProcTypes DEF Exit
    <2>3. ASSUME NEW p \in Pid, NEW e \in Exe, Exec(p, e) PROVE proc' \in [Pid -> Proc]
        <3>1. e \in AnyExe
            BY DEF AnyExe
        <3>2. [proc[p] EXCEPT !.exe = e] \in Proc
            BY <3>1, ProcTypes
        <3> QED BY <2>3, <3>2 DEF Exec
    <2> QED BY <2>1, <2>2, <2>3 DEF Kernel
<1>3. left' \in [Kinds -> Nat] /\ events' \in Seq(Event) /\ Len(events') <= MaxQueue
    BY KernelTypes DEF Kernel, Fork, Exec, Exit, Kinds, Event
<1>4. unseen' \subseteq Pid
    BY DEF Kernel, Fork, Exec, Exit, Orphans, Alive
<1> QED BY <1>1, <1>2, <1>3, <1>4

\* A handle a thread has looked up is one.
LEMMA SockTypes ==
    ASSUME SharedTypes, sock \in Sock
    PROVE  /\ \A p : FromPid(p) # Failed => [sock EXCEPT !.h = FromPid(p)] \in Sock
           /\ [sock EXCEPT !.h = Absent] \in Sock
           /\ [sock EXCEPT !.prev = state.fg] \in Sock
           /\ sock.m.pid \in Pid \union {NoPid}
<1>1. \A p : FromPid(p) # Failed => FromPid(p) \in Handle
    BY FromPidType DEF SharedTypes
<1>2. sock.m.pid \in Pid \union {NoPid}
    BY Nothings DEF Sock
<1> QED BY <1>1, <1>2 DEF Sock, SharedTypes

LEMMA TypesSock ==
    ASSUME Types, SockStep \/ \E m \in Messages : SockReceive(m)
    PROVE  Types'
<1> USE Nothings, SockTypes
    DEF Types, SharedTypes, LockTypes, LocalTypes, Thread, Place, At, Goto, sockFrame,
        lockVars, ghostVars
<1>1. CASE SockCheck
    BY <1>1 DEF SockCheck, Loop
<1>2. CASE SockApply
    <2>1. sock' \in Sock
        BY <1>2 DEF SockApply
    <2>2. state' \in [fg : Pid \union {NoPid}, client : Pid \union {NoPid}]
        BY <1>2 DEF SockApply
    <2>3. LockTypes'
        BY <1>2 DEF SockApply, LockState
    <2> QED BY <1>2, <2>1, <2>2, <2>3 DEF SockApply
<1>3. ASSUME NEW here, NEW pid, NEW next \in Place, SockLookup(here, pid, next)
      PROVE  Types'
    <2>1. sock' \in Sock /\ pc' \in [Thread -> Place]
        BY <1>3 DEF SockLookup, SockReturn
    <2>2. stateOwner' \in Thread \union {NoThread} /\ enteredUp' \in BOOLEAN
        BY <1>3 DEF SockLookup, SockReturn, UnlockState
    <2> QED BY <1>3, <2>1, <2>2 DEF SockLookup
<1>4. CASE SockNew \/ SockOld
    BY <1>3, <1>4 DEF SockNew, SockOld
<1>5. CASE SockUpdateNew
    BY <1>5, UpdateTypes DEF SockUpdateNew
<1>6. CASE SockUpdateOld
    BY <1>6, UpdateTypes DEF SockUpdateOld, SockReturn, UnlockState
<1>7. CASE SockNoOld
    BY <1>7 DEF SockNoOld, SockReturn, UnlockState
<1>8. ASSUME NEW m \in Messages, SockReceive(m) PROVE Types'
    <2>1. left' \in [Kinds -> Nat]
        BY <1>8, KernelTypes DEF SockReceive, Kinds
    <2>2. sock' \in Sock
        BY <1>8, MessagesAssumption DEF SockReceive
    <2> QED BY <1>8, <2>1, <2>2 DEF SockReceive
<1> QED
    BY <1>1, <1>2, <1>4, <1>5, <1>6, <1>7, <1>8 DEF SockStep

LEMMA TypesRefresh == ASSUME Types, RefreshStep PROVE Types'
<1> USE Nothings
    DEF Types, SharedTypes, LockTypes, LocalTypes, Thread, Place, At, Goto, refreshFrame,
        lockVars, ghostVars
<1>1. CASE RefreshCheck
    BY <1>1 DEF RefreshCheck, Loop
<1>2. CASE RefreshPopulate
    BY <1>2, CacheTypes DEF RefreshPopulate, Populate
<1>3. CASE RefreshLockState
    BY <1>3 DEF RefreshLockState, LockState
<1>4. CASE RefreshLockCache
    BY <1>4 DEF RefreshLockCache, Handles
<1>5. CASE RefreshUnlock
    BY <1>5 DEF RefreshUnlock, UnlockState
<1>6. ASSUME NEW p \in Pid, RefreshUpdate(p) PROVE Types'
    BY <1>6, UpdateTypes DEF RefreshUpdate
<1> QED BY <1>1, <1>2, <1>3, <1>4, <1>5, <1>6 DEF RefreshStep

LEMMA TypesMon == ASSUME Types, MonStep PROVE Types'
<1> USE Nothings
    DEF Types, SharedTypes, LockTypes, LocalTypes, Thread, Place, At, Goto, monitorFrame,
        lockVars, ghostVars
<1>1. CASE MonSubscribe
    BY <1>1 DEF MonSubscribe
<1>2. CASE MonPopulate
    BY <1>2, CacheTypes DEF MonPopulate, Populate
<1>3. CASE MonCheck
    BY <1>3 DEF MonCheck, Loop
<1>4. CASE MonWait
    <2>1. ev' \in Event /\ events' \in Seq(Event) /\ Len(events') <= MaxQueue
        BY <1>4, QueueAssumption DEF MonWait
    <2> QED BY <1>4, <2>1 DEF MonWait
<1>5. CASE MonLockState
    BY <1>5 DEF MonLockState, LockState
<1>6. CASE MonLockCache
    BY <1>6, CacheTypes DEF MonLockCache
<1>7. CASE MonUpdate
    <2>1. proc' \in [Pid -> Proc]
        BY <1>7, UpdateTypes DEF MonUpdate
    <2> QED BY <1>7, <2>1 DEF MonUpdate, UnlockState
<1> QED
    BY <1>1, <1>2, <1>3, <1>4, <1>5, <1>6, <1>7 DEF MonStep

LEMMA TypesSignal == ASSUME Types, Signal \/ SigStep PROVE Types'
<1> USE Nothings
    DEF Types, SharedTypes, LockTypes, LocalTypes, Thread, Place, At, Goto, signalFrame
<1>1. CASE Signal
    BY <1>1, KernelTypes DEF Signal, Kinds
<1>2. CASE SigStop
    BY <1>2 DEF SigStop
<1>3. CASE SigBarrier
    BY <1>3 DEF SigBarrier
<1>4. CASE SigExit
    BY <1>4 DEF SigExit
<1>5. CASE SigList
    BY <1>5, FromPidType DEF SigList
<1>6. CASE SigClear
    BY <1>6 DEF SigClear, NoCache
<1>7. ASSUME NEW p \in Pid, SigRestore(p) PROVE Types'
    <2> DEFINE new == SetAutogroup(SetNormal(snap[p], proc[p].sched), 0)
    <2>1. new \in Sched
        <3>1. proc[p].sched \in Sched
            BY DEF Proc
        <3>2. SetNormal(snap[p], proc[p].sched) \in Sched
            BY <3>1, PolicyTypes
        <3> QED BY <3>2, SchedTypes
    <2>2. proc' = proc \/ proc' = [proc EXCEPT ![p].sched = new]
        BY <1>7 DEF SigRestore
    <2> HIDE DEF new
    <2>3. proc' \in [Pid -> Proc]
        <3>1. [proc EXCEPT ![p].sched = new] \in [Pid -> Proc]
            BY <2>1, NewSchedType, Zenon
        <3> QED BY <2>2, <3>1
    <2>4. cleanErr' \in BOOLEAN /\ plist' \subseteq Pid
        BY <1>7, Zenon DEF SigRestore
    <2>5. UNCHANGED <<LockTypes, events, left, phase, running, state, cache, unseen,
                      sock, ev, todo, snap>>
        BY <1>7 DEF SigRestore
    <2> QED BY <2>3, <2>4, <2>5
<1> QED
    BY <1>1, <1>2, <1>3, <1>4, <1>5, <1>6, <1>7 DEF SigStep

LEMMA TypesStep == TypeOK /\ [Next]_vars => TypeOK'
<1> SUFFICES ASSUME Types, [Next]_vars PROVE Types'
    BY TypeParts
<1>1. CASE Crash
    <2>1. left' \in [Kinds -> Nat]
        BY <1>1, KernelTypes DEF Types, Crash, Kinds
    <2> QED BY <1>1, <2>1 DEF Crash, Types, SharedTypes, LockTypes, LocalTypes,
                              lockVars, localVars, ghostVars
<1>2. CASE Restart
    <2>1. SharedTypes'
        <3>1. events' \in Seq(Event) /\ Len(events') <= MaxQueue /\ UNCHANGED <<proc, left>>
              /\ phase' = "up" /\ running' = TRUE /\ cleanErr' = FALSE /\ unseen' = {}
              /\ state' = NoState /\ cache' = NoCache
            BY <1>2, QueueAssumption DEF Restart
        <3> QED BY <3>1, Nothings DEF Types, SharedTypes
    <2>2. LockTypes' /\ LocalTypes'
        BY <1>2, Nothings DEF Restart, LockTypes, LocalTypes
    <2> QED BY <2>1, <2>2 DEF Types
<1>3. CASE UNCHANGED vars
    BY <1>3 DEF vars, Types, SharedTypes, LockTypes, LocalTypes, kernelVars, lockVars,
                localVars, ghostVars
<1> QED
    BY <1>1, <1>2, <1>3, TypesKernel, TypesSock, TypesMon, TypesRefresh, TypesSignal
    DEF Next, Over

\* The variables of the daemon keep their types.
THEOREM TypeCorrect == Spec => []TypeOK
    BY InitTypes, TypesStep, PTL DEF Spec

------------------------------------------------------------------------------
(* A sweep and its cache.                                                   *)

\* The same without asking whether the process is up.
SweepInv == pc["refresh"] = "update" => todo \subseteq DOMAIN Handles(cache)

\* Whoever changes the cache has its mutex, which the refresh thread has while
\* it sweeps; its own updates leave the cache alone.
LEMMA SweepStep ==
    ASSUME LInv, SweepInv, [Next]_vars
    PROVE  SweepInv'
<1>1. /\ pc \in [Thread -> Place]
      /\ pc["refresh"] = "update" <=> cacheOwner = "refresh"
      /\ "refresh" # NoThread
    BY DistinctAssumption DEF LInv, MutexOK, InCache, Thread
<1> USE <1>1 DEF At, Goto, Thread
<1>2. CASE RefreshStep
    BY <1>2 DEF SweepInv, RefreshStep, RefreshCheck, RefreshPopulate, RefreshLockState,
                RefreshLockCache, RefreshUnlock, RefreshUpdate, Loop, lockVars
<1>3. CASE \/ Kernel \/ Crash \/ Over \/ UNCHANGED vars \/ Signal \/ SockStep
           \/ \E m \in Messages : SockReceive(m)
    <2>1. UNCHANGED <<todo, cache>> /\ pc'["refresh"] = pc["refresh"]
        BY <1>3 DEF Kernel, Fork, Exec, Exit, Crash, Over, Signal, SockStep, SockCheck,
            SockApply, SockNew, SockOld, SockLookup, SockReturn, SockUpdateNew,
            SockUpdateOld, SockNoOld, SockReceive, Loop, daemonVars, localVars, vars,
            sockFrame, signalFrame
    <2> QED BY <2>1 DEF SweepInv, Handles
<1>4. CASE MonStep \/ SigStep
    <2>1. todo' = todo /\ pc'["refresh"] = pc["refresh"]
          /\ (cache' = cache \/ cacheOwner = NoThread)
        BY <1>4 DEF MonStep, MonSubscribe, MonPopulate, MonCheck, MonWait, MonLockState,
            MonLockCache, MonUpdate, Loop, SigStep, SigStop, SigBarrier, SigList,
            SigRestore, SigClear, SigExit, monitorFrame, signalFrame
    <2> QED BY <2>1 DEF SweepInv, Handles
<1>5. CASE Restart
    BY <1>5 DEF Restart, SweepInv
<1> QED BY <1>2, <1>3, <1>4, <1>5 DEF Next

\* The refresh thread only updates processes that are in the cache it has
\* locked, from the first of its sweep to the last
\* (update_all_processes_once, main.rs:708).
THEOREM SweepsWhatItLocked == Spec => []SweepSeesItsCache
<1>1. Init => SweepInv
    BY DEF Init, SweepInv
<1>2. SweepInv => SweepSeesItsCache
    BY DEF SweepInv, SweepSeesItsCache, At
<1> QED BY <1>1, <1>2, SweepStep, LInvCorrect, PTL DEF Spec

------------------------------------------------------------------------------
(* What cleanup achieves.                                                   *)

Cleaning == pc["signal"] \in {"restore", "exit"}

\* Does cleanup have to put p back, and is p still there?
Due(p) ==
    /\ snap[p] # Absent /\ Alive(p)
    /\ ToRestore(snap[p])
    /\ snap[p].exe \notin ExcludeRealtime

\* What is listed is put back one by one, and pids are not handed out again.
CInv ==
    /\ stateOwner # NoThread /\ ~enteredUp => stateOwner \in late
    /\ phase = "exited" => pc["signal"] = "exit"
    /\ pc["signal"] = "exit" => plist = {}
    /\ Cleaning => \A p \in Pid : snap[p] # Absent => proc[p].st # "unborn"
    /\ Cleaning /\ late = {} /\ ~cleanErr =>
        \A p \in Pid : Due(p) => p \in plist \/ IsNormal(p)

\* While cleanup runs no thread has the state, unless it came late.
LEMMA NobodyInside ==
    ASSUME LInv, CInv, Cleaning, late = {}, NEW t \in Thread
    PROVE  ~InState(t)
BY DistinctAssumption DEF LInv, CInv, Cleaning, MutexOK, BarrierHolds

\* A step that leaves cleanup's own variables alone, and the attributes of what
\* it has listed too, keeps CInv.
LEMMA CleanupKept ==
    ASSUME CInv, UNCHANGED <<snap, plist, cleanErr>>,
           pc'["signal"] = pc["signal"], late \subseteq late',
           phase' = "exited" => phase = "exited",
           stateOwner' # NoThread /\ ~enteredUp' => stateOwner' \in late',
           \A p \in Pid : proc[p].st # "unborn" => proc'[p].st # "unborn",
           Cleaning /\ late' = {} =>
             \A p \in Pid : snap[p] # Absent /\ proc'[p].st = "run" =>
                proc[p].st = "run" /\ proc'[p].sched = proc[p].sched
    PROVE  CInv'
<1>1. Cleaning' = Cleaning
    BY DEF Cleaning
<1>2. late' = {} => late = {}
    OBVIOUS
<1>3. \A p \in Pid : Cleaning /\ late' = {} /\ Due(p)' => Due(p) /\ (IsNormal(p) => IsNormal(p)')
    BY DEF Due, Alive, IsNormal, ToRestore
<1>4. Cleaning' /\ late' = {} /\ ~cleanErr' =>
        \A p \in Pid : Due(p)' => p \in plist' \/ IsNormal(p)'
    BY <1>1, <1>2, <1>3 DEF CInv
<1>5. Cleaning' => \A p \in Pid : snap'[p] # Absent => proc'[p].st # "unborn"
    BY <1>1 DEF CInv
<1>6. /\ phase' = "exited" => pc'["signal"] = "exit"
      /\ pc'["signal"] = "exit" => plist' = {}
    BY DEF CInv
<1> QED BY <1>4, <1>5, <1>6 DEF CInv

\* A thread that finds running cleared when it gets the state is late.
LEMMA LockIsKnown ==
    ASSUME NEW t \in Thread, LockState(t)
    PROVE  /\ late \subseteq late'
           /\ stateOwner' # NoThread /\ ~enteredUp' => stateOwner' \in late'
BY DEF LockState

LEMMA CleanupKernel ==
    ASSUME TypeOK, CInv, Kernel
    PROVE  CInv'
<1> USE TypeParts DEF Types, SharedTypes
<1>1. UNCHANGED <<snap, plist, cleanErr, pc, late, phase, stateOwner, enteredUp>>
    BY DEF Kernel, Fork, Exec, Exit, daemonVars, lockVars, localVars
<1>2. \A p \in Pid : proc[p].st # "unborn" =>
        /\ proc'[p].st # "unborn"
        /\ proc'[p].st = "run" => proc[p].st = "run" /\ proc'[p].sched = proc[p].sched
    <2>1. ASSUME NEW q \in Pid, Fork(q)
          PROVE  proc[q].st = "unborn" /\ \A p \in Pid \ {q} : proc'[p] = proc[p]
        BY <2>1 DEF Fork
    <2>2. ASSUME NEW q \in Pid, Exit(q)
          PROVE  /\ proc'[q].st = "gone"
                 /\ \A p \in Pid \ {q} : proc'[p].st = proc[p].st
                                       /\ proc'[p].sched = proc[p].sched
        BY <2>2 DEF Exit, Proc
    <2>3. ASSUME NEW q \in Pid, NEW e \in Exe, Exec(q, e)
          PROVE  /\ proc'[q].st = proc[q].st /\ proc'[q].sched = proc[q].sched
                 /\ \A p \in Pid \ {q} : proc'[p] = proc[p]
        BY <2>3 DEF Exec, Proc
    <2> QED BY <2>1, <2>2, <2>3 DEF Kernel
<1>3. Cleaning => \A p \in Pid : snap[p] # Absent => proc[p].st # "unborn"
    BY DEF CInv
<1>4. stateOwner # NoThread /\ ~enteredUp => stateOwner \in late
    BY DEF CInv
<1> QED BY <1>1, <1>2, <1>3, <1>4, CleanupKept

\* The threads other than the signal thread: an update of theirs needs the
\* state, so there is none that was not late.
LEMMA CleanupThreads ==
    ASSUME TypeOK, LInv, CInv,
           SockStep \/ MonStep \/ RefreshStep \/ \E m \in Messages : SockReceive(m)
    PROVE  CInv'
<1> USE DEF At, Goto, Thread
<1>1. pc \in [Thread -> Place]
    BY DEF LInv
<1>2. UNCHANGED <<snap, plist, cleanErr, phase>> /\ pc'["signal"] = pc["signal"]
    BY <1>1 DEF SockStep, SockCheck, SockApply, SockNew, SockOld, SockLookup, SockReturn,
        SockUpdateNew, SockUpdateOld, SockNoOld, SockReceive, MonStep, MonSubscribe,
        MonPopulate, MonCheck, MonWait, MonLockState, MonLockCache, MonUpdate,
        RefreshStep, RefreshCheck, RefreshPopulate, RefreshLockState, RefreshLockCache,
        RefreshUpdate, RefreshUnlock, Loop, sockFrame, monitorFrame, refreshFrame,
        ghostVars
<1>3. late \subseteq late' /\ (stateOwner' # NoThread /\ ~enteredUp' => stateOwner' \in late')
    <2>1. stateOwner # NoThread /\ ~enteredUp => stateOwner \in late
        BY DEF CInv
    <2>2. \/ \E t \in Thread : LockState(t)
          \/ UNCHANGED <<stateOwner, enteredUp>> /\ late \subseteq late'
          \/ UnlockState /\ UNCHANGED late
        BY DEF SockStep, SockCheck, SockApply, SockNew, SockOld, SockLookup, SockReturn,
            SockUpdateNew, SockUpdateOld, SockNoOld, SockReceive, MonStep, MonSubscribe,
            MonPopulate, MonCheck, MonWait, MonLockState, MonLockCache, MonUpdate,
            RefreshStep, RefreshCheck, RefreshPopulate, RefreshLockState,
            RefreshLockCache, RefreshUpdate, RefreshUnlock, sockFrame, monitorFrame,
            refreshFrame, lockVars
    <2> QED BY <2>1, <2>2, LockIsKnown DEF UnlockState
<1>4. \/ proc' = proc
      \/ \E t \in Thread, h \in {sock.h, cache[ev.pid]} \union {cache[p] : p \in Pid} :
            InState(t) /\ UpdateProc(h, cache)
    BY DEF SockStep, SockCheck, SockApply, SockNew, SockOld, SockLookup, SockReturn,
        SockUpdateNew, SockUpdateOld, SockNoOld, SockReceive, MonStep, MonSubscribe,
        MonPopulate, MonCheck, MonWait, MonLockState, MonLockCache, MonUpdate,
        RefreshStep, RefreshCheck, RefreshPopulate, RefreshLockState, RefreshLockCache,
        RefreshUpdate, RefreshUnlock, InState
<1>5. \A p \in Pid : proc'[p].st = proc[p].st
    BY <1>4, UpdateTypes, TypeParts DEF Types, SharedTypes
<1>6. Cleaning /\ late' = {} => proc' = proc
    BY <1>3, <1>4, NobodyInside
<1> QED BY <1>2, <1>3, <1>5, <1>6, CleanupKept

\* Put back means normal.
LEMMA PutBackIsNormal ==
    ASSUME NEW s \in Sched, NEW h, h.exe \notin ExcludeRealtime
    PROVE  LET n == SetAutogroup(SetNormal(h, s), 0)
           IN  n.policy = "OTHER" /\ n.nice = 0 /\ n.group = 0
BY DEF SetAutogroup, SetNormal, SetScheduler, Sched

LEMMA CleanupSignal ==
    ASSUME TypeOK, LInv, CInv, Signal \/ SigStep
    PROVE  CInv'
<1> USE DEF At, Goto, Thread, signalFrame
<1>1. pc \in [Thread -> Place] /\ proc \in [Pid -> Proc] /\ plist \subseteq Pid
      /\ (stateOwner # NoThread /\ ~enteredUp => stateOwner \in late)
    BY TypeParts DEF Types, SharedTypes, LockTypes, LocalTypes, CInv
<1>2. CASE Signal \/ SigStop \/ SigBarrier
    BY <1>1, <1>2 DEF Signal, SigStop, SigBarrier, CInv, Cleaning
<1>3. CASE SigList
    <2>1. \A p \in Pid : snap'[p] # Absent => Alive(p) /\ p \in plist'
        BY <1>3 DEF SigList
    <2>2. UNCHANGED <<proc, phase, late, stateOwner, enteredUp>> /\ pc'["signal"] = "restore"
          /\ pc["signal"] = "list" /\ phase = "up"
        BY <1>1, <1>3 DEF SigList
    <2> QED BY <1>1, <2>1, <2>2 DEF CInv, Due, Alive, Cleaning
<1>4. ASSUME NEW p \in Pid, SigRestore(p) PROVE CInv'
    <2> DEFINE new == SetAutogroup(SetNormal(snap[p], proc[p].sched), 0)
    <2>1. /\ pc["signal"] = "restore" /\ pc' = pc /\ phase' = phase
          /\ UNCHANGED <<late, stateOwner, enteredUp, snap>>
          /\ ToRestore(snap[p]) /\ ~Alive(p) => cleanErr'
          /\ ~(ToRestore(snap[p]) /\ ~Alive(p)) => plist' = plist \ {p}
          /\ cleanErr => cleanErr'
        BY <1>4 DEF SigRestore
    <2>2. IF ToRestore(snap[p]) /\ Alive(p)
          THEN proc' = [proc EXCEPT ![p].sched = new] ELSE proc' = proc
        BY <1>4 DEF SigRestore
    <2>3. proc[p].sched \in Sched
        BY <1>1 DEF Proc
    <2>4. snap[p].exe \notin ExcludeRealtime =>
            new.policy = "OTHER" /\ new.nice = 0 /\ new.group = 0
        BY <2>3, PutBackIsNormal
    <2> HIDE DEF new
    <2>5. /\ \A q \in Pid : proc'[q].st = proc[q].st
          /\ \A q \in Pid \ {p} : proc'[q] = proc[q]
          /\ ToRestore(snap[p]) /\ Alive(p) => proc'[p].sched = new
        BY <1>1, <2>2 DEF Proc
    <2>6. \A q \in Pid : Due(q)' = Due(q) /\ (q # p => IsNormal(q)' = IsNormal(q))
        BY <2>1, <2>5 DEF Due, Alive, ToRestore, IsNormal
    <2>7. Due(p) => IsNormal(p)'
        BY <2>4, <2>5 DEF Due, IsNormal
    <2>8. Cleaning' /\ late' = {} /\ ~cleanErr' =>
            \A q \in Pid : Due(q)' => q \in plist' \/ IsNormal(q)'
        BY <2>1, <2>6, <2>7 DEF CInv, Cleaning
    <2> QED BY <1>1, <2>1, <2>5, <2>8 DEF CInv, Cleaning
<1>5. CASE SigClear
    <2>1. UNCHANGED <<proc, phase, late, stateOwner, enteredUp, snap, plist, cleanErr>>
          /\ pc'["signal"] = "exit" /\ pc["signal"] = "restore" /\ plist = {}
        BY <1>1, <1>5 DEF SigClear
    <2> QED BY <2>1 DEF CInv, Due, Alive, Cleaning, ToRestore, IsNormal
<1>6. CASE SigExit
    <2>1. UNCHANGED <<proc, pc, late, stateOwner, enteredUp, snap, plist, cleanErr>>
          /\ pc["signal"] = "exit"
        BY <1>6 DEF SigExit
    <2> QED BY <2>1 DEF CInv, Due, Alive, Cleaning, ToRestore, IsNormal
<1> QED BY <1>2, <1>3, <1>4, <1>5, <1>6 DEF SigStep

LEMMA CleanupStep ==
    ASSUME TypeOK, LInv, CInv, [Next]_vars
    PROVE  CInv'
<1>1. CASE Crash \/ Over \/ UNCHANGED vars
    <2>1. UNCHANGED <<proc, pc, late, stateOwner, enteredUp, snap, plist, cleanErr>>
          /\ (phase' = "exited" => phase = "exited")
        BY <1>1 DEF Crash, Over, vars, kernelVars, lockVars, localVars, ghostVars
    <2> QED BY <2>1 DEF CInv, Due, Alive, Cleaning, ToRestore, IsNormal
<1>2. CASE Restart
    <2>1. pc'["signal"] = "wait" /\ phase' = "up" /\ stateOwner' = NoThread
        BY <1>2 DEF Restart, Start, Thread
    <2> QED BY <2>1 DEF CInv, Cleaning
<1> QED BY <1>1, <1>2, CleanupKernel, CleanupThreads, CleanupSignal DEF Next

\* If no thread came late and nothing that was listed disappeared, then at exit
\* every listed process below a critical one, unless excluded from real time,
\* is back to normal, whatever the kernel did meanwhile (cleanup, main.rs:347).
THEOREM CleanupPutsBack == Spec => []CleanupRestores
<1>1. Init => CInv
    <2> SUFFICES ASSUME Init PROVE CInv
        OBVIOUS
    <2>1. pc["signal"] = "wait"
        BY DEF Init, Start, Thread
    <2> QED BY <2>1 DEF Init, CInv, Cleaning
<1>2. CInv => CleanupRestores
    BY DEF CInv, CleanupRestores, Cleaning, Due
<1> QED BY <1>1, <1>2, CleanupStep, TypeCorrect, LInvCorrect, PTL DEF Spec

=============================================================================
