------------------------- MODULE ProcessCacheProofs -------------------------
(***************************************************************************)
(* Proofs about ProcessCache, for every set of pids and executables, every *)
(* queue length and every bound on the kernel; about ParentWalk, the loops *)
(* that climb its entries, on every finite table; and about both together. *)
(***************************************************************************)
EXTENDS ProcessCache, ParentWalk, ProcessTableProofs, FiniteSetTheorems

\* What from_pid returns is an entry or None.
LEMMA FromPidType ==
    ASSUME TypeOK, NEW p \in Pid
    PROVE  FromPid(p) \in Entry \union {Failed}
<1>1. kern[p] \in Process
  BY DEF TypeOK
<1> QED
  BY <1>1 DEF FromPid, Entry, Process

\* Announcing a change keeps the queue within its bound.
LEMMA AnnounceType ==
    ASSUME TypeOK, NEW e \in Event, NEW others \in SUBSET Pid, Announce(e, others)
    PROVE  /\ queue' \in Seq(Event) /\ Len(queue') <= MaxQueue
           /\ unseen' \subseteq Pid
<1>1. queue \in Seq(Event) /\ Len(queue) <= MaxQueue /\ unseen \subseteq Pid
  BY DEF TypeOK
<1>2. e.pid \in Pid
  BY DEF Event
<1>3. CASE queue' = queue /\ unseen' = unseen \union {e.pid} \union others
  BY <1>1, <1>2, <1>3
<1>4. CASE queue' = Append(queue, e) /\ Len(queue) < MaxQueue
          /\ unseen' = unseen \union others
  BY <1>1, <1>4, QueueAssumption
<1> QED
  BY <1>3, <1>4 DEF Announce

\* What the kernel may still do only gets less.
LEMMA LeftType ==
    ASSUME left \in Budget, Kernel
    PROVE  left' \in Budget
<1>1. left.exec \in Nat /\ left.thread \in Nat /\ left.use \in [Pid -> Nat]
  BY DEF Budget
<1>2. CASE KernelFork
  <2>1. PICK p \in Pid : left.use[p] > 0 /\ left' = [left EXCEPT !.use[p] = @ - 1]
    BY <1>2 DEF KernelFork
  <2>2. [left.use EXCEPT ![p] = @ - 1] \in [Pid -> Nat]
    BY <1>1, <2>1
  <2> QED
    BY <2>1, <2>2 DEF Budget
<1>3. CASE KernelReap
  BY <1>3 DEF KernelReap
<1>4. CASE KernelThread
  <2>1. left.thread > 0 /\ left' = [left EXCEPT !.thread = @ - 1]
    BY <1>4 DEF KernelThread
  <2> QED
    BY <1>1, <2>1 DEF Budget
<1>5. CASE KernelExec
  <2>1. left.exec > 0 /\ left' = [left EXCEPT !.exec = @ - 1]
    BY <1>5 DEF KernelExec
  <2> QED
    BY <1>1, <2>1 DEF Budget
<1>6. CASE KernelExit
  BY <1>6 DEF KernelExit
<1> QED
  BY <1>2, <1>3, <1>4, <1>5, <1>6 DEF Kernel

\* Every step keeps the types.
LEMMA TypeStep == TypeOK /\ [Next]_vars => TypeOK'
<1> SUFFICES ASSUME TypeOK, [Next]_vars PROVE TypeOK'
  OBVIOUS
<1> DEFINE Rest == /\ queue \in Seq(Event) /\ Len(queue) <= MaxQueue
                   /\ cache \in [Pid -> Entry \union {Absent, Failed}]
                   /\ owner \in Thread \union {NoThread}
                   /\ pc \in [Thread -> {"subscribe", "populate", "fill", "wait", "handle"}]
                   /\ pids \subseteq Pid /\ todo \subseteq Pid
                   /\ ev \in Event \union {NoEvent}
                   /\ left \in Budget
                   /\ unseen \subseteq Pid
<1>0. Rest /\ TableType
  BY DEF TypeOK, TableType
<1>1. CASE KernelFork \/ KernelReap
  <2>1. TableType'
    BY <1>0, <1>1, TableStep DEF KernelFork, KernelReap, TableNext
  <2>2. Rest'
    <3>1. left' \in Budget
      BY <1>0, <1>1, LeftType DEF Kernel
    <3> QED
      BY <1>0, <1>1, <3>1 DEF KernelFork, KernelReap, cacheVars
  <2> QED
    BY <2>1, <2>2 DEF TypeOK, TableType
<1>13. CASE KernelThread
  <2>1. PICK p \in Pid :
            /\ kern' = [kern EXCEPT ![p].inc = @ + 1]
            /\ queue' = IF Listening /\ Len(queue) < MaxQueue
                        THEN Append(queue, [kind |-> "exit", pid |-> p,
                                            inc |-> kern[p].inc + 1])
                        ELSE queue
    BY <1>13 DEF KernelThread
  <2>2. TableType'
    <3>1. kern[p] \in Process /\ kern[p].inc + 1 \in Nat
      BY <1>0 DEF TableType, Process
    <3>2. [kern[p] EXCEPT !.inc = @ + 1] \in Process
      BY <3>1 DEF Process
    <3> QED
      BY <1>0, <2>1, <3>2 DEF TableType
  <2>3. [kind |-> "exit", pid |-> p, inc |-> kern[p].inc + 1] \in Event
    BY <1>0 DEF TableType, Process, Event
  <2>4. queue' \in Seq(Event) /\ Len(queue') <= MaxQueue
    BY <1>0, <2>1, <2>3, QueueAssumption
  <2>5. left' \in Budget
    BY <1>0, <1>13, LeftType DEF Kernel
  <2>6. UNCHANGED <<cacheVars, pc, ev, unseen>>
    BY <1>13 DEF KernelThread
  <2>7. Rest'
    BY <1>0, <2>4, <2>5, <2>6 DEF cacheVars
  <2> QED
    BY <2>2, <2>7 DEF TypeOK, TableType
<1>2. CASE KernelExec \/ KernelExit
  <2>1. TableType'
    BY <1>0, <1>2, TableStep DEF KernelExec, KernelExit, TableNext
  <2>2. \A p \in Pid : kern[p].inc \in Nat
    BY <1>0 DEF TableType, Process
  <2>3. \E e \in Event, others \in SUBSET Pid : Announce(e, others)
    <3>1. \A p \in Pid : Orphans(p) \in SUBSET Pid /\ {} \in SUBSET Pid
      BY DEF Orphans
    <3>2. \A p \in Pid, kind \in {"exec", "exit"} :
            [kind |-> kind, pid |-> p, inc |-> kern[p].inc] \in Event
      BY <2>2 DEF Event
    <3> QED
      BY <1>2, <3>1, <3>2 DEF KernelExec, KernelExit
  <2>4. queue' \in Seq(Event) /\ Len(queue') <= MaxQueue /\ unseen' \subseteq Pid
    BY <2>3, AnnounceType
  <2>5. Rest'
    <3>1. left' \in Budget
      BY <1>0, <1>2, LeftType DEF Kernel
    <3> QED
      BY <1>0, <1>2, <2>4, <3>1 DEF KernelExec, KernelExit, cacheVars
  <2> QED
    BY <2>1, <2>5 DEF TypeOK, TableType
<1>3. ASSUME NEW t \in Thread, PopStart(t) PROVE TypeOK'
  BY <1>0, <1>3 DEF PopStart, Goto, Listed, TypeOK, Thread
<1>4. ASSUME NEW t \in Thread, NEW p \in Pid, PopFill(t, p) PROVE TypeOK'
  <2>1. FromPid(p) \in Entry \union {Failed}
    BY FromPidType
  <2>2. cache' \in [Pid -> Entry \union {Absent, Failed}]
    BY <1>0, <1>4, <2>1 DEF PopFill
  <2> QED
    BY <1>0, <1>4, <2>2 DEF PopFill, TypeOK
<1>5. ASSUME NEW t \in Thread, NEW next \in {"populate", "wait"}, PopRetain(t, next)
      PROVE  TypeOK'
  <2>1. cache' \in [Pid -> Entry \union {Absent, Failed}]
    BY <1>0, <1>5 DEF PopRetain, Kept, HasEntry
  <2> QED
    BY <1>0, <1>5, <2>1 DEF PopRetain, Goto, TypeOK, Thread
<1>6. CASE MonSubscribe
  BY <1>0, <1>6 DEF MonSubscribe, Goto, cacheVars, TypeOK, Thread
<1>7. CASE MonReceive
  <2>1. queue # <<>> /\ Head(queue) \in Event /\ Tail(queue) \in Seq(Event)
        /\ Len(Tail(queue)) <= MaxQueue
    BY <1>0, <1>7, QueueAssumption DEF MonReceive
  <2> QED
    BY <1>0, <1>7, <2>1 DEF MonReceive, Goto, cacheVars, TypeOK, Thread
<1>8. CASE MonHandle
  <2>1. CASE ev.pid \in Pid
    <3>1. Noted(ev) \in Entry \union {Absent, Failed}
      BY <2>1, FromPidType DEF Noted
    <3>2. cache' \in [Pid -> Entry \union {Absent, Failed}]
      BY <1>0, <1>8, <3>1 DEF MonHandle
    <3> QED
      BY <1>0, <1>8, <3>2 DEF MonHandle, Goto, TypeOK, Thread
  <2>2. CASE ev.pid \notin Pid
    <3>1. cache' \in [Pid -> Entry \union {Absent, Failed}]
      BY <1>0, <1>8, <2>2 DEF MonHandle
    <3> QED
      BY <1>0, <1>8, <3>1 DEF MonHandle, Goto, TypeOK, Thread
  <2> QED
    BY <2>1, <2>2
<1>9. CASE UNCHANGED vars
  BY <1>0, <1>9 DEF vars, cacheVars, TypeOK
<1>10. "refresh" \in Thread /\ "monitor" \in Thread
  BY DEF Thread
<1> QED
  BY <1>1, <1>2, <1>3, <1>4, <1>5, <1>6, <1>7, <1>8, <1>9, <1>10, <1>13
  DEF Next, Kernel, RefreshStep, MonStep

\* The types of the variables hold in every reachable state.
THEOREM TypeCorrect == Spec => []TypeOK
<1>1. ASSUME Init PROVE TypeOK
  <2>1. kern \in [Pid -> Process]
    BY <1>1, TableInitType DEF Init, TableType
  <2>2. PICK b \in Budgets :
            /\ \A p \in Pid : kern[p].st = "run" => b.use[p] > 0
            /\ left = [b EXCEPT !.use =
                        [p \in Pid |-> IF kern[p].st = "run" THEN b.use[p] - 1
                                       ELSE b.use[p]]]
    BY <1>1 DEF Init
  <2>3. left \in Budget
    <3>1. b \in Budget
      BY BudgetAssumption
    <3>2. \A p \in Pid : b.use[p] \in Nat
      BY <3>1 DEF Budget
    <3> DEFINE u == [p \in Pid |-> IF kern[p].st = "run" THEN b.use[p] - 1
                                   ELSE b.use[p]]
    <3>3. u \in [Pid -> Nat]
      BY <2>2, <3>2
    <3> QED
      BY <2>2, <3>1, <3>3 DEF Budget
  <2> QED
    BY <1>1, <2>1, <2>3, QueueAssumption DEF Init, TypeOK, Thread
<1> QED
  BY <1>1, TypeStep, PTL DEF Spec

------------------------------------------------------------------------------
(* StaleIsAnnounced is inductive once it is known that the monitor has no   *)
(* event in hand when it receives one.                                      *)

MonitorIdle == pc["monitor"] # "handle" => ev = NoEvent

\* p's entry, or the lack of one, is in order.
Sound(p) == HasEntry(p) /\ ~Current(p) => Pending(p) \/ p \in unseen

SInv == MonitorIdle /\ \A p \in Pid : Sound(p)

\* An entry just read is current.
LEMMA FromPidCurrent ==
    ASSUME NEW p \in Pid, UNCHANGED kern, cache'[p] = FromPid(p), HasEntry(p)'
    PROVE  Current(p)'
  BY DEF FromPid, HasEntry, Current, OfRunning

\* A change of p that is announced leaves p pending, and one that is not is
\* known; everything else stays as it was.
LEMMA AnnouncePending ==
    ASSUME TypeOK, NEW e \in Event, NEW others, Announce(e, others), UNCHANGED ev,
           NEW p \in Pid
    PROVE  /\ Pending(e.pid)' \/ e.pid \in unseen'
           /\ Pending(p) => Pending(p)'
           /\ p \in unseen \union others => p \in unseen'
<1>1. queue \in Seq(Event)
  BY DEF TypeOK
<1>2. CASE unseen' = unseen \union {e.pid} \union others /\ queue' = queue
  BY <1>2 DEF Pending
<1>3. CASE queue' = Append(queue, e) /\ unseen' = unseen \union others
  <2>1. Len(queue') = Len(queue) + 1 /\ queue'[Len(queue) + 1] = e
        /\ \A i \in 1..Len(queue) : queue'[i] = queue[i]
    BY <1>1, <1>3
  <2>2. Len(queue) \in Nat
    BY <1>1
  <2>3. Pending(e.pid)'
    BY <2>1, <2>2 DEF Pending
  <2>4. Pending(p) => Pending(p)'
    BY <2>1, <2>2 DEF Pending
  <2> QED
    BY <1>3, <2>3, <2>4
<1> QED
  BY <1>2, <1>3 DEF Announce

\* Every step keeps SInv: what makes an entry stale announces it, what takes an
\* event off the queue puts the entry right.
LEMMA SInvStep == TypeOK /\ SInv /\ [Next]_vars => SInv'
<1> SUFFICES ASSUME TypeOK, SInv, [Next]_vars PROVE SInv'
  OBVIOUS
<1>0. MonitorIdle /\ \A p \in Pid : Sound(p)
  BY DEF SInv
<1>1. CASE KernelFork \/ KernelReap
  <2>1. MonitorIdle'
    BY <1>0, <1>1 DEF KernelFork, KernelReap, MonitorIdle
  <2>2. ASSUME NEW p \in Pid PROVE Sound(p)'
    <3>1. UNCHANGED <<queue, cache, ev, unseen>>
      BY <1>1 DEF KernelFork, KernelReap, cacheVars
    <3>2. Pending(p)' <=> Pending(p)
      BY <3>1 DEF Pending
    <3>3. Current(p) => Current(p)'
      BY <1>1, <3>1 DEF KernelFork, KernelReap, Fork, Reap, Current, OfRunning,
          TypeOK, Process
    <3> QED
      BY <1>0, <3>1, <3>2, <3>3 DEF Sound, HasEntry
  <2> QED
    BY <2>1, <2>2 DEF SInv
<1>13. CASE KernelThread
  <2>1. PICK q \in Pid :
            /\ kern[q].st = "free"
            /\ kern' = [kern EXCEPT ![q].inc = @ + 1]
            /\ queue' = IF Listening /\ Len(queue) < MaxQueue
                        THEN Append(queue, [kind |-> "exit", pid |-> q,
                                            inc |-> kern[q].inc + 1])
                        ELSE queue
    BY <1>13 DEF KernelThread
  <2>2. UNCHANGED <<cache, pc, ev, unseen>>
    BY <1>13 DEF KernelThread, cacheVars
  <2>3. MonitorIdle'
    BY <1>0, <2>2 DEF MonitorIdle
  <2>4. ASSUME NEW p \in Pid PROVE Sound(p)'
    <3>1. Current(p) => Current(p)'
      BY <2>1, <2>2 DEF Current, OfRunning, TypeOK, Process
    <3>2. Pending(p) => Pending(p)'
      <4>1. CASE queue' = queue
        BY <2>2, <4>1 DEF Pending
      <4>2. CASE queue' # queue
        <5> DEFINE e == [kind |-> "exit", pid |-> q, inc |-> kern[q].inc + 1]
        <5>1. queue' = Append(queue, e) /\ queue \in Seq(Event)
          BY <2>1, <4>2 DEF TypeOK
        <5>2. Len(queue') = Len(queue) + 1 /\ Len(queue) \in Nat
              /\ \A i \in 1..Len(queue) : queue'[i] = queue[i]
          BY <5>1
        <5> QED
          BY <2>2, <5>2 DEF Pending
      <4> QED
        BY <4>1, <4>2
    <3> QED
      BY <1>0, <2>2, <3>1, <3>2 DEF Sound, HasEntry
  <2> QED
    BY <2>3, <2>4 DEF SInv
<1>2. ASSUME NEW e \in Event, NEW others, Announce(e, others),
             UNCHANGED <<cacheVars, pc, ev>>,
             \A p \in Pid \ {e.pid} :
                HasEntry(p) /\ Current(p) => Current(p)' \/ p \in others
      PROVE  SInv'
  <2>1. MonitorIdle'
    BY <1>0, <1>2 DEF MonitorIdle
  <2>2. ASSUME NEW p \in Pid PROVE Sound(p)'
    <3>1. /\ Pending(e.pid)' \/ e.pid \in unseen'
          /\ Pending(p) => Pending(p)'
          /\ p \in unseen \union others => p \in unseen'
      BY <1>2, AnnouncePending
    <3> QED
      BY <1>0, <1>2, <3>1 DEF Sound, HasEntry, cacheVars
  <2> QED
    BY <2>1, <2>2 DEF SInv
<1>3. CASE KernelExec
  <2>1. PICK p \in Pid, x \in Exe :
            /\ Exec(p, x)
            /\ Announce([kind |-> "exec", pid |-> p, inc |-> kern[p].inc], {})
    BY <1>3 DEF KernelExec
  <2> DEFINE e == [kind |-> "exec", pid |-> p, inc |-> kern[p].inc]
  <2>2. e \in Event /\ e.pid = p
    BY DEF TypeOK, Process, Event
  <2>3. UNCHANGED <<cacheVars, pc, ev>>
    BY <1>3 DEF KernelExec
  <2>4. \A q \in Pid \ {p} : Current(q) => Current(q)'
    BY <2>1, <2>3 DEF Exec, Current, OfRunning, cacheVars
  <2> QED
    BY <1>2, <2>1, <2>2, <2>3, <2>4
<1>4. CASE KernelExit
  <2>1. PICK p \in Pid :
            /\ Exit(p)
            /\ Announce([kind |-> "exit", pid |-> p, inc |-> kern[p].inc],
                        Orphans(p))
    BY <1>4 DEF KernelExit
  <2> DEFINE e == [kind |-> "exit", pid |-> p, inc |-> kern[p].inc]
  <2>2. e \in Event /\ e.pid = p
    BY DEF TypeOK, Process, Event
  <2>3. UNCHANGED <<cacheVars, pc, ev>>
    BY <1>4 DEF KernelExit
  <2>4. \A q \in Pid \ {p} : kern'[q].st = kern[q].st /\ kern'[q].inc = kern[q].inc
                                /\ kern'[q].exe = kern[q].exe
                                /\ (kern'[q].ppid = kern[q].ppid \/ kern[q].ppid = p)
    BY <2>1 DEF Exit, Died, TypeOK, Process
  <2>5. \A q \in Pid \ {p} :
            HasEntry(q) /\ Current(q) => Current(q)' \/ q \in Orphans(p)
    BY <2>3, <2>4 DEF Current, OfRunning, Orphans, cacheVars
  <2> QED
    BY <1>2, <2>1, <2>2, <2>3, <2>5
<1>5. ASSUME NEW t \in Thread, PopStart(t) PROVE SInv'
  <2>1. UNCHANGED <<kern, queue, cache, ev, unseen>>
    BY <1>5 DEF PopStart
  <2>2. MonitorIdle'
    BY <1>0, <1>5 DEF PopStart, Goto, MonitorIdle, TypeOK, Thread
  <2> QED
    BY <1>0, <2>1, <2>2 DEF SInv, Sound, HasEntry, Current, OfRunning, Pending
<1>6. ASSUME NEW t \in Thread, NEW q \in Pid, PopFill(t, q) PROVE SInv'
  <2>1. UNCHANGED <<kern, queue, ev, pc>>
    BY <1>6 DEF PopFill
  <2>2. ASSUME NEW p \in Pid PROVE Sound(p)'
    <3>1. CASE p = q /\ cache[p] = Absent
      <4>1. cache'[p] = FromPid(p)
        BY <1>6, <3>1 DEF PopFill, TypeOK
      <4> QED
        BY <2>1, <4>1, FromPidCurrent DEF Sound
    <3>2. CASE ~(p = q /\ cache[p] = Absent)
      <4>1. cache'[p] = cache[p] /\ (p \in unseen => p \in unseen')
        BY <1>6, <3>2 DEF PopFill, TypeOK
      <4> QED
        BY <1>0, <2>1, <4>1 DEF Sound, HasEntry, Current, OfRunning, Pending
    <3> QED
      BY <3>1, <3>2
  <2> QED
    BY <1>0, <2>1, <2>2 DEF SInv, MonitorIdle
<1>7. ASSUME NEW t \in Thread, NEW next \in {"populate", "wait"}, PopRetain(t, next)
      PROVE  SInv'
  <2>1. UNCHANGED <<kern, queue, ev>>
    BY <1>7 DEF PopRetain
  <2>2. MonitorIdle'
    BY <1>0, <1>7 DEF PopRetain, Goto, MonitorIdle, TypeOK, Thread
  <2>3. ASSUME NEW p \in Pid, HasEntry(p)'
        PROVE  cache'[p] = cache[p] /\ (p \in unseen => p \in unseen')
    BY <1>7, <2>3 DEF PopRetain, HasEntry
  <2> QED
    BY <1>0, <2>1, <2>2, <2>3 DEF SInv, Sound, HasEntry, Current, OfRunning, Pending
<1>8. CASE MonSubscribe
  <2>1. UNCHANGED <<kern, queue, cache, ev, unseen>>
    BY <1>8 DEF MonSubscribe, cacheVars
  <2>2. MonitorIdle'
    BY <1>0, <1>8 DEF MonSubscribe, Goto, MonitorIdle, TypeOK, Thread
  <2> QED
    BY <1>0, <2>1, <2>2 DEF SInv, Sound, HasEntry, Current, OfRunning, Pending
<1>9. CASE MonReceive
  <2>1. UNCHANGED <<kern, cache, unseen>> /\ ev' = Head(queue)
        /\ queue' = Tail(queue) /\ queue # <<>> /\ ev = NoEvent
    BY <1>0, <1>9 DEF MonReceive, cacheVars, MonitorIdle
  <2>2. MonitorIdle'
    BY <1>9 DEF MonReceive, Goto, MonitorIdle, TypeOK, Thread
  <2>3. ASSUME NEW p \in Pid, Pending(p) PROVE Pending(p)'
    <3>1. queue \in Seq(Event) /\ ev.pid # p
      BY <2>1, InitPidAssumption DEF TypeOK, NoEvent
    <3>2. PICK i \in 1..Len(queue) : queue[i].pid = p
      BY <2>3, <3>1 DEF Pending
    <3>3. CASE i = 1
      BY <2>1, <3>1, <3>2, <3>3 DEF Pending
    <3>4. CASE i # 1
      <4>1. i - 1 \in 1..Len(queue') /\ queue'[i - 1] = queue[i]
        BY <2>1, <3>1, <3>4
      <4> QED
        BY <3>2, <4>1 DEF Pending
    <3> QED
      BY <3>3, <3>4
  <2> QED
    BY <1>0, <2>1, <2>2, <2>3 DEF SInv, Sound, HasEntry, Current, OfRunning
<1>10. CASE MonHandle
  <2>1. UNCHANGED <<kern, queue>> /\ ev' = NoEvent
        /\ unseen' = unseen \ {ev.pid}
    BY <1>10 DEF MonHandle
  <2>2. MonitorIdle'
    BY <2>1 DEF MonitorIdle
  <2>3. ASSUME NEW p \in Pid PROVE Sound(p)'
    <3>1. CASE p = ev.pid
      <4>1. cache'[p] = Noted(ev)
        BY <1>10, <3>1 DEF MonHandle, TypeOK
      <4>2. HasEntry(p)' => cache'[p] = FromPid(p)
        BY <3>1, <4>1 DEF Noted, HasEntry
      <4> QED
        BY <2>1, <4>2, FromPidCurrent DEF Sound
    <3>2. CASE p # ev.pid
      <4>1. cache'[p] = cache[p] /\ (p \in unseen => p \in unseen')
        BY <1>10, <2>1, <3>2 DEF MonHandle, TypeOK
      <4> QED
        BY <1>0, <2>1, <3>2, <4>1 DEF Sound, HasEntry, Current, OfRunning, Pending
    <3> QED
      BY <3>1, <3>2
  <2> QED
    BY <2>2, <2>3 DEF SInv
<1>11. CASE UNCHANGED vars
  BY <1>0, <1>11
  DEF vars, cacheVars, SInv, MonitorIdle, Sound, HasEntry, Current, OfRunning,
      Pending
<1>12. "refresh" \in Thread /\ "monitor" \in Thread
  BY DEF Thread
<1> QED
  BY <1>1, <1>3, <1>4, <1>5, <1>6, <1>7, <1>8, <1>9, <1>10, <1>11, <1>12,
     <1>13
  DEF Next, Kernel, RefreshStep, MonStep

\* No stale entry is forgotten, nor one whose parent is gone: an event about its
\* pid is on its way, unless the kernel announced none (populate_process_cache and the monitor's loop).
THEOREM NothingForgotten == Spec => []StaleIsAnnounced
<1>1. Init => SInv
  BY DEF Init, SInv, MonitorIdle, Sound, HasEntry, Thread
<1>2. SInv => StaleIsAnnounced
  BY DEF SInv, Sound, StaleIsAnnounced
<1> QED
  BY <1>1, <1>2, SInvStep, TypeCorrect, PTL DEF Spec

------------------------------------------------------------------------------
(* LiveEntryKept needs who has the cache, how old entries and exit events   *)
(* are, and that a populate in progress was told of every process that had  *)
(* an entry when it took its list.                                          *)

OwnerIsFilling == \A t \in Thread : pc[t] = "fill" <=> owner = t

\* No entry is younger than its pid's process.
NoneYounger == \A p \in Pid : HasEntry(p) => cache[p].inc <= kern[p].inc

\* A running process that is not on the list has at most the entry of an
\* earlier one.
ListIsFull ==
    owner # NoThread =>
        /\ todo \subseteq pids
        /\ \A p \in Pid \ pids :
            HasEntry(p) /\ kern[p].st = "run" => cache[p].inc < kern[p].inc

\* With k as the process table, an exit event e is about an earlier user of
\* the number, or about the last, who is gone.
IsPast(k, e) ==
    e.kind = "exit" =>
        /\ e.inc <= k[e.pid].inc
        /\ k[e.pid].st = "run" => e.inc < k[e.pid].inc

ExitsArePast ==
    /\ IsPast(kern, ev)
    /\ \A i \in 1..Len(queue) : IsPast(kern, queue[i])

KInv == OwnerIsFilling /\ NoneYounger /\ ListIsFull

\* What every step of the kernel does to a pid: its number never gets smaller,
\* and a process that runs now and did not before has a larger one.
LEMMA KernelAges ==
    ASSUME TypeOK, Kernel, NEW p \in Pid
    PROVE  /\ kern[p].inc \in Nat /\ kern'[p].inc \in Nat
           /\ kern[p].inc <= kern'[p].inc
           /\ kern'[p].st = "run" =>
                \/ kern[p].inc < kern'[p].inc
                \/ kern[p].st = "run" /\ kern'[p].inc = kern[p].inc
<1> USE DEF TypeOK, Process
<1>1. CASE KernelFork
  <2>1. PICK q \in Pid, parent \in Pid : Fork(q, parent)
    BY <1>1 DEF KernelFork
  <2>2. kern[p].inc \in Nat
    OBVIOUS
  <2>3. CASE p = q
    <3>1. kern' = [kern EXCEPT ![p] = [st |-> "run", inc |-> kern[p].inc + 1,
                                       ppid |-> parent, exe |-> kern[parent].exe]]
      BY <2>1, <2>3 DEF Fork
    <3>2. kern'[p].inc = kern[p].inc + 1
      BY <3>1
    <3> QED
      BY <2>2, <3>2
  <2>4. CASE p # q
    BY <2>1, <2>2, <2>4 DEF Fork
  <2> QED
    BY <2>3, <2>4
<1>2. CASE KernelReap
  BY <1>2 DEF KernelReap, Reap
<1>3. CASE KernelThread
  BY <1>3 DEF KernelThread
<1>4. CASE KernelExec
  BY <1>4 DEF KernelExec, Exec
<1>5. CASE KernelExit
  BY <1>5, InitPidAssumption DEF KernelExit, Exit, Died
<1> QED
  BY <1>1, <1>2, <1>3, <1>4, <1>5 DEF Kernel

\* The first three parts are inductive by themselves.
LEMMA KInvStep == TypeOK /\ KInv /\ [Next]_vars => KInv'
<1> SUFFICES ASSUME TypeOK, KInv, [Next]_vars PROVE KInv'
  OBVIOUS
<1>0. /\ OwnerIsFilling /\ NoneYounger /\ ListIsFull
      /\ \A p \in Pid : HasEntry(p) => cache[p].inc \in Nat
      /\ \A p \in Pid : kern[p].inc \in Nat
  BY DEF KInv, TypeOK, HasEntry, Entry, Process
<1>1. CASE Kernel
  <2>1. UNCHANGED <<cacheVars, pc>>
    BY <1>1 DEF Kernel, KernelFork, KernelReap, KernelThread, KernelExec,
                KernelExit
  <2>2. \A p \in Pid : HasEntry(p)' <=> HasEntry(p)
    BY <2>1 DEF HasEntry, cacheVars
  <2>3. OwnerIsFilling'
    BY <1>0, <2>1 DEF OwnerIsFilling, cacheVars
  <2>4. NoneYounger'
    BY <1>0, <1>1, <2>1, <2>2, KernelAges DEF NoneYounger, cacheVars
  <2>5. ListIsFull'
    <3> SUFFICES ASSUME owner # NoThread, NEW p \in Pid \ pids, HasEntry(p),
                        kern'[p].st = "run"
                 PROVE  cache[p].inc < kern'[p].inc
      BY <1>0, <2>1, <2>2 DEF ListIsFull, cacheVars
    <3>1. cache[p].inc <= kern[p].inc
      BY <1>0 DEF NoneYounger
    <3> QED
      BY <1>0, <1>1, <3>1, KernelAges DEF ListIsFull
  <2> QED
    BY <2>3, <2>4, <2>5 DEF KInv
<1>2. ASSUME NEW t \in Thread, PopStart(t) PROVE KInv'
  <2>1. OwnerIsFilling'
    BY <1>0, <1>2, DistinctAssumption
    DEF PopStart, Goto, OwnerIsFilling, TypeOK
  <2>2. NoneYounger'
    BY <1>0, <1>2 DEF PopStart, NoneYounger, HasEntry
  <2>3. ListIsFull'
    BY <1>0, <1>2 DEF PopStart, ListIsFull, Listed, HasEntry
  <2> QED
    BY <2>1, <2>2, <2>3 DEF KInv
<1>3. ASSUME NEW t \in Thread, NEW q \in Pid, PopFill(t, q) PROVE KInv'
  <2>1. UNCHANGED <<kern, owner, pids, pc>> /\ todo' = todo \ {q} /\ q \in todo
        /\ owner # NoThread
    BY <1>0, <1>3, DistinctAssumption DEF PopFill, OwnerIsFilling
  <2>2. \A p \in Pid : HasEntry(p)' =>
            \/ cache'[p] = cache[p] /\ HasEntry(p)
            \/ p = q /\ cache'[p] = FromPid(p)
    BY <1>3 DEF PopFill, HasEntry, TypeOK
  <2>3. OwnerIsFilling'
    BY <1>0, <2>1 DEF OwnerIsFilling
  <2>4. NoneYounger'
    <3> SUFFICES ASSUME NEW p \in Pid, HasEntry(p)'
                 PROVE  cache'[p].inc <= kern[p].inc
      BY <2>1 DEF NoneYounger
    <3>1. CASE cache'[p] = FromPid(p)
      BY <1>0, <2>1, <3>1, FromPidCurrent DEF Current, OfRunning
    <3>2. CASE cache'[p] = cache[p] /\ HasEntry(p)
      BY <1>0, <3>2 DEF NoneYounger
    <3> QED
      BY <2>2, <3>1, <3>2
  <2>5. ListIsFull'
    BY <1>0, <2>1, <2>2 DEF ListIsFull
  <2> QED
    BY <2>3, <2>4, <2>5 DEF KInv
<1>4. ASSUME NEW t \in Thread, NEW next \in {"populate", "wait"}, PopRetain(t, next)
      PROVE  KInv'
  <2>1. UNCHANGED kern /\ owner' = NoThread
    BY <1>4 DEF PopRetain
  <2>2. \A p \in Pid : HasEntry(p)' => cache'[p] = cache[p] /\ HasEntry(p)
    BY <1>4 DEF PopRetain, HasEntry
  <2>3. OwnerIsFilling'
    BY <1>0, <1>4, DistinctAssumption
    DEF PopRetain, Goto, OwnerIsFilling, TypeOK
  <2> QED
    BY <1>0, <2>1, <2>2, <2>3 DEF KInv, NoneYounger, ListIsFull
<1>5. CASE MonSubscribe \/ MonReceive
  <2>1. UNCHANGED <<kern, cacheVars>>
    BY <1>5 DEF MonSubscribe, MonReceive
  <2>2. OwnerIsFilling'
    BY <1>0, <1>5, <2>1 DEF MonSubscribe, MonReceive, Goto, OwnerIsFilling,
                            cacheVars, TypeOK
  <2> QED
    BY <1>0, <2>1, <2>2 DEF KInv, NoneYounger, ListIsFull, HasEntry, cacheVars
<1>6. CASE MonHandle
  <2>1. UNCHANGED kern /\ owner = NoThread /\ owner' = NoThread
    BY <1>6 DEF MonHandle
  <2>2. \A p \in Pid : HasEntry(p)' =>
            \/ cache'[p] = cache[p] /\ HasEntry(p)
            \/ cache'[p] = FromPid(p)
    BY <1>6 DEF MonHandle, Noted, HasEntry, TypeOK
  <2>3. OwnerIsFilling'
    BY <1>0, <1>6 DEF MonHandle, Goto, OwnerIsFilling, TypeOK, Thread
  <2>4. NoneYounger'
    <3> SUFFICES ASSUME NEW p \in Pid, HasEntry(p)'
                 PROVE  cache'[p].inc <= kern[p].inc
      BY <2>1 DEF NoneYounger
    <3>1. CASE cache'[p] = FromPid(p)
      BY <1>0, <2>1, <3>1, FromPidCurrent DEF Current, OfRunning
    <3>2. CASE cache'[p] = cache[p] /\ HasEntry(p)
      BY <1>0, <3>2 DEF NoneYounger
    <3> QED
      BY <2>2, <3>1, <3>2
  <2> QED
    BY <2>1, <2>3, <2>4 DEF KInv, ListIsFull
<1>7. CASE UNCHANGED vars
  BY <1>0, <1>7 DEF vars, cacheVars, KInv, OwnerIsFilling, NoneYounger,
                    ListIsFull, HasEntry
<1>8. "refresh" \in Thread /\ "monitor" \in Thread
  BY DEF Thread
<1> QED
  BY <1>1, <1>2, <1>3, <1>4, <1>5, <1>6, <1>7, <1>8
  DEF Next, RefreshStep, MonStep

\* An event that is past stays so.
LEMMA PastStays ==
    ASSUME TypeOK, Kernel, NEW e \in Event, IsPast(kern, e)
    PROVE  IsPast(kern', e)
<1>1. e.pid \in Pid /\ e.inc \in Nat
  BY DEF Event
<1> QED
  BY <1>1, KernelAges DEF IsPast

\* The events a kernel step posts are past, and it takes none away.
LEMMA PostsPast ==
    ASSUME TypeOK, Kernel
    PROVE  \/ queue' = queue
           \/ \E e \in Event : queue' = Append(queue, e) /\ IsPast(kern', e)
<1> USE DEF TypeOK, Process
<1>1. CASE KernelFork \/ KernelReap
  BY <1>1 DEF KernelFork, KernelReap
<1>2. CASE KernelThread
  <2>1. PICK p \in Pid :
            /\ kern[p].st = "free"
            /\ kern' = [kern EXCEPT ![p].inc = @ + 1]
            /\ \/ queue' = queue
               \/ queue' = Append(queue, [kind |-> "exit", pid |-> p,
                                          inc |-> kern[p].inc + 1])
    BY <1>2 DEF KernelThread
  <2> DEFINE e == [kind |-> "exit", pid |-> p, inc |-> kern[p].inc + 1]
  <2>2. kern[p].inc \in Nat /\ kern'[p].st = "free"
        /\ kern'[p].inc = kern[p].inc + 1
    BY <2>1
  <2>3. e \in Event /\ IsPast(kern', e)
    BY <2>2 DEF Event, IsPast
  <2> QED
    BY <2>1, <2>3
<1>3. CASE KernelExec
  <2>1. PICK p \in Pid :
            Announce([kind |-> "exec", pid |-> p, inc |-> kern[p].inc], {})
    BY <1>3 DEF KernelExec
  <2> DEFINE e == [kind |-> "exec", pid |-> p, inc |-> kern[p].inc]
  <2>2. kern[p].inc \in Nat
    OBVIOUS
  <2>3. e \in Event /\ IsPast(kern', e)
    BY <2>2 DEF Event, IsPast
  <2> QED
    BY <2>1, <2>3 DEF Announce
<1>4. CASE KernelExit
  <2>1. PICK p \in Pid :
            Exit(p) /\ Announce([kind |-> "exit", pid |-> p, inc |-> kern[p].inc],
                                Orphans(p))
    BY <1>4 DEF KernelExit
  <2> DEFINE e == [kind |-> "exit", pid |-> p, inc |-> kern[p].inc]
  <2>2. kern[p].inc \in Nat /\ kern'[p].st = "zombie"
        /\ kern'[p].inc = kern[p].inc
    BY <2>1 DEF Exit, Died
  <2>3. e \in Event /\ IsPast(kern', e)
    BY <2>2 DEF Event, IsPast
  <2> QED
    BY <2>1, <2>3 DEF Announce
<1> QED
  BY <1>1, <1>2, <1>3, <1>4 DEF Kernel

\* Exit events are past, from when they are posted to when they are handled.
LEMMA PastStep == TypeOK /\ ExitsArePast /\ [Next]_vars => ExitsArePast'
<1> SUFFICES ASSUME TypeOK, ExitsArePast, [Next]_vars PROVE ExitsArePast'
  OBVIOUS
<1>0. /\ ev \in Event \union {NoEvent} /\ IsPast(kern, ev)
      /\ queue \in Seq(Event) /\ \A i \in 1..Len(queue) : IsPast(kern, queue[i])
  BY DEF TypeOK, ExitsArePast
<1>1. CASE Kernel
  <2>1. ev' = ev
    BY <1>1 DEF Kernel, KernelFork, KernelReap, KernelThread, KernelExec,
                KernelExit
  <2>2. IsPast(kern', ev)
    <3>1. CASE ev = NoEvent
      BY <3>1 DEF IsPast, NoEvent
    <3> QED
      BY <1>0, <1>1, <3>1, PastStays
  <2>3. \A i \in 1..Len(queue) : IsPast(kern', queue[i])
    BY <1>0, <1>1, PastStays
  <2>4. CASE queue' = queue
    BY <2>1, <2>2, <2>3, <2>4 DEF ExitsArePast
  <2>5. ASSUME NEW e \in Event, queue' = Append(queue, e), IsPast(kern', e)
        PROVE  ExitsArePast'
    <3>1. Len(queue') = Len(queue) + 1 /\ queue'[Len(queue) + 1] = e
          /\ Len(queue) \in Nat
          /\ \A i \in 1..Len(queue) : queue'[i] = queue[i]
      BY <1>0, <2>5
    <3>2. \A i \in 1..Len(queue') : i \in 1..Len(queue) \/ i = Len(queue) + 1
      BY <3>1
    <3>3. \A i \in 1..Len(queue') : IsPast(kern', queue'[i])
      BY <2>3, <2>5, <3>1, <3>2
    <3> QED
      BY <2>1, <2>2, <3>3 DEF ExitsArePast
  <2> QED
    BY <1>1, <2>4, <2>5, PostsPast
<1>2. CASE MonReceive
  <2>1. UNCHANGED kern /\ ev' = Head(queue) /\ queue' = Tail(queue)
        /\ queue # <<>>
    BY <1>2 DEF MonReceive
  <2>2. Len(queue) \in Nat \ {0} /\ Len(queue') = Len(queue) - 1
        /\ ev' = queue[1]
        /\ \A i \in 1..Len(queue') : queue'[i] = queue[i + 1]
    BY <1>0, <2>1
  <2>3. \A i \in 1..Len(queue') : i + 1 \in 1..Len(queue)
    BY <2>2
  <2>4. 1 \in 1..Len(queue)
    BY <2>2
  <2> QED
    BY <1>0, <2>1, <2>2, <2>3, <2>4 DEF ExitsArePast
<1>3. CASE MonHandle
  <2>1. UNCHANGED <<kern, queue>> /\ ev' = NoEvent
    BY <1>3 DEF MonHandle
  <2> QED
    BY <1>0, <2>1 DEF ExitsArePast, IsPast, NoEvent
<1>4. CASE UNCHANGED <<kern, queue, ev>>
  BY <1>0, <1>4 DEF ExitsArePast
<1>5. Next => Kernel \/ MonReceive \/ MonHandle \/ UNCHANGED <<kern, queue, ev>>
  BY DEF Next, RefreshStep, MonStep, MonSubscribe, PopStart, PopFill, PopRetain
<1> QED
  BY <1>1, <1>2, <1>3, <1>4, <1>5 DEF vars

\* The entry of a running process is dropped only by an exit event of an
\* earlier user of its number (populate_process_cache, the monitor's loop).
THEOREM LiveEntries == Spec => LiveEntryKept
<1>1. Init => KInv /\ ExitsArePast
  BY DistinctAssumption
  DEF Init, KInv, OwnerIsFilling, NoneYounger, ListIsFull, HasEntry, Thread,
      ExitsArePast, IsPast, NoEvent
<1> DEFINE Dropped(p) == HasEntry(p) /\ OfRunning(p) /\ cache'[p] \in {Absent, Failed}
           ByPast(p) == ev.kind = "exit" /\ ev.pid = p /\ ev.inc < kern[p].inc
<1>2. ASSUME TypeOK, KInv, ExitsArePast, [Next]_vars, NEW p \in Pid, Dropped(p)
      PROVE  ByPast(p)
  <2>1. cache'[p] # cache[p] /\ kern[p].st = "run"
    BY <1>2 DEF HasEntry, OfRunning
  <2>2. CASE MonHandle
    <3>1. p = ev.pid /\ cache'[p] = Noted(ev)
      BY <1>2, <2>1, <2>2 DEF MonHandle, TypeOK
    <3>2. ev \in Event
      BY <1>2, <3>1, InitPidAssumption DEF TypeOK, NoEvent
    <3>3. FromPid(p) = [inc |-> kern[p].inc, ppid |-> kern[p].ppid,
                        exe |-> kern[p].exe]
      BY <2>1 DEF FromPid
    <3>4. CASE ev.kind = "exec"
      <4>1. cache'[p] = FromPid(p)
        BY <3>1, <3>4 DEF Noted
      <4>2. FromPid(p) \in Entry
        BY <1>2, <3>3 DEF TypeOK, Process, Entry
      <4> QED
        BY <1>2, <4>1, <4>2, DistinctAssumption
    <3>5. CASE ev.kind = "exit"
      BY <1>2, <2>1, <3>1, <3>5 DEF ExitsArePast, IsPast
    <3> QED
      BY <3>2, <3>4, <3>5 DEF Event
  <2>3. ASSUME NEW t \in Thread, NEW next \in {"populate", "wait"},
               PopRetain(t, next)
        PROVE  FALSE
    <3>1. p \notin pids
      BY <1>2, <2>1, <2>3 DEF PopRetain, Kept
    <3>2. owner # NoThread
      BY <1>2, <2>3, DistinctAssumption DEF KInv, OwnerIsFilling, PopRetain
    <3>3. cache[p].inc < kern[p].inc
      BY <1>2, <2>1, <3>1, <3>2 DEF KInv, ListIsFull
    <3> QED
      BY <1>2, <3>3 DEF OfRunning, TypeOK, Process
  <2>4. ASSUME NEW t \in Thread, NEW q \in Pid, PopFill(t, q)
        PROVE  FALSE
    BY <1>2, <2>1, <2>4 DEF PopFill, HasEntry, TypeOK
  <2>5. CASE UNCHANGED cache
    BY <2>1, <2>5
  <2>6. "refresh" \in Thread /\ "monitor" \in Thread
    BY DEF Thread
  <2> QED
    BY <1>2, <2>2, <2>3, <2>4, <2>5, <2>6
    DEF Next, Kernel, KernelFork, KernelReap, KernelThread, KernelExec,
        KernelExit, RefreshStep, MonStep, MonSubscribe, MonReceive, PopStart,
        cacheVars, vars
<1>3. TypeOK /\ KInv /\ ExitsArePast /\ [Next]_vars
        => [\A p \in Pid : Dropped(p) => ByPast(p)]_vars
  BY <1>2
<1>4. (\A p \in Pid : Dropped(p) => ByPast(p)) <=>
      (\A p \in Pid :
        HasEntry(p) /\ OfRunning(p) /\ cache'[p] \in {Absent, Failed} =>
            ev.kind = "exit" /\ ev.pid = p /\ ev.inc < kern[p].inc)
  OBVIOUS
<1> HIDE DEF Dropped, ByPast
<1> QED
  BY <1>1, <1>3, <1>4, TypeCorrect, KInvStep, PastStep, PTL DEF Spec, LiveEntryKept

------------------------------------------------------------------------------
(* Numbers, for want of an induction rule that takes a predicate.           *)

\* A set of numbers has a least one.
LEMMA LeastNumber ==
    ASSUME NEW T \in SUBSET Nat, T # {}
    PROVE  \E m \in T : \A k \in T : m <= k
<1> DEFINE I == {0..k : k \in T}
           R == StrictSubsetOrdering(Nat)
<1>1. I \subseteq FiniteSubsetsOf(Nat) /\ I # {}
  <2>1. \A k \in T : 0..k \subseteq Nat /\ IsFiniteSet(0..k)
    BY FS_Interval
  <2>2. \E k \in T : TRUE
    OBVIOUS
  <2> QED
    BY <2>1, <2>2 DEF FiniteSubsetsOf
<1>2. PICK s \in I : \A t \in I : <<t, s>> \notin R
  <2> HIDE DEF I, R
  <2>1. IsWellFoundedOn(R, FiniteSubsetsOf(Nat))
    BY FS_StrictSubsetOrderingWellFounded DEF R
  <2> QED
    BY <1>1, <2>1, WFMin
<1>3. PICK m \in T : s = 0..m
  OBVIOUS
<1>4. ASSUME NEW k \in T, k < m PROVE FALSE
  <2>1. 0..k \in I /\ 0..m \in I
    BY <1>4
  <2>2. 0..k \subseteq 0..m /\ m \in 0..m /\ m \notin 0..k
    BY <1>4
  <2>3. 0..k \in SUBSET Nat /\ 0..m \in SUBSET Nat
    OBVIOUS
  <2> HIDE DEF I
  <2>4. <<0..k, 0..m>> \in R
    BY <2>2, <2>3 DEF StrictSubsetOrdering
  <2> QED
    BY <1>2, <1>3, <2>1, <2>4
<1> QED
  BY <1>4

\* Counting up to N, for a set of numbers in the place of a predicate.
LEMMA UpTo ==
    ASSUME NEW N \in Nat, NEW T, 0 \in T,
           \A n \in 0..N : n < N /\ n \in T => n + 1 \in T
    PROVE  0..N \subseteq T
<1> DEFINE U == (0..N) \ T
<1> SUFFICES ASSUME U # {} PROVE FALSE
  OBVIOUS
<1>1. U \in SUBSET Nat
  OBVIOUS
<1> HIDE DEF U
<1>2. PICK m \in U : \A k \in U : m <= k
  BY <1>1, LeastNumber
<1>3. m \in 0..N /\ m \notin T /\ m # 0
  BY DEF U
<1>4. m - 1 \in 0..N /\ m - 1 < N /\ m - 1 < m /\ (m - 1) + 1 = m
  BY <1>3
<1>5. m - 1 \in T
  BY <1>2, <1>4 DEF U
<1> QED
  BY <1>3, <1>4, <1>5

------------------------------------------------------------------------------
(* parents cannot go round pids none of which was recycled: what fork draws *)
(* is a forest, an exit only ever shortens its branches, and an entry keeps *)
(* an edge that was there.  So the pids used once can be ranked, each above *)
(* the parent the kernel has for it and the one the cache has.  A second    *)
(* incarnation is exempt from the ranking, and pid 1 stays on top of it.    *)

\* q and f were each used once, and f is not the pid that adopts.
FirstParent(q, f) == kern[q].inc = 1 /\ f \in Pid \ {InitPid} /\ kern[f].inc = 1

Ranks(r) ==
    \A q \in Pid :
        /\ FirstParent(q, kern[q].ppid) => r[kern[q].ppid] < r[q]
        /\ HasEntry(q) /\ FirstParent(q, cache[q].ppid) => r[cache[q].ppid] < r[q]

\* Nothing is known of a pid before its first process, and it is no parent.
Born ==
    \A q \in Pid :
        /\ kern[q].st # "free" => kern[q].inc > 0
        /\ kern[q].inc = 0 => kern[q].ppid \in {InitPid, 0} /\ ~HasEntry(q)
        /\ kern[q].ppid \in Pid => kern[kern[q].ppid].inc > 0
        /\ HasEntry(q) /\ cache[q].ppid \in Pid => kern[cache[q].ppid].inc > 0

InitOnTop ==
    /\ kern[InitPid].st = "run" /\ kern[InitPid].ppid = 0
    /\ HasEntry(InitPid) => cache[InitPid].ppid = 0

RInv == Born /\ InitOnTop /\ \E r \in [Pid -> Nat] : Ranks(r)

\* What the ranking does not look at may change, and a parent may become pid 1.
Adoption ==
    /\ \A q \in Pid : /\ kern'[q].inc = kern[q].inc
                      /\ kern'[q].ppid \in {kern[q].ppid, InitPid}
                      /\ kern'[q].st # "free" => kern[q].st # "free"
    /\ kern'[InitPid].st = "run" /\ kern'[InitPid].ppid = 0

LEMMA AdoptedRanks ==
    ASSUME TypeOK, Born, InitOnTop, UNCHANGED cache, Adoption
    PROVE  /\ Born' /\ InitOnTop'
           /\ \A r \in [Pid -> Nat] : Ranks(r) => Ranks(r)'
<1>1. kern[InitPid].inc > 0
  BY InitPidAssumption DEF Born, InitOnTop
<1>2. Born'
  BY <1>1, InitPidAssumption DEF Adoption, Born, HasEntry
<1>3. InitOnTop'
  BY DEF Adoption, InitOnTop, HasEntry
<1>4. \A r \in [Pid -> Nat] : Ranks(r) => Ranks(r)'
  BY InitPidAssumption DEF Adoption, Ranks, FirstParent, HasEntry
<1> QED
  BY <1>2, <1>3, <1>4

\* A thread that had p's number.
LEMMA ThreadRanks ==
    ASSUME TypeOK, Born, InitOnTop, UNCHANGED cache, NEW p \in Pid,
           kern[p].st = "free", kern' = [kern EXCEPT ![p].inc = @ + 1]
    PROVE  /\ Born' /\ InitOnTop'
           /\ \A r \in [Pid -> Nat] : Ranks(r) => Ranks(r)'
<1>1. \A q \in Pid : /\ kern[q].inc \in Nat
                     /\ kern'[q].inc = IF q = p THEN kern[q].inc + 1 ELSE kern[q].inc
                     /\ kern'[q].ppid = kern[q].ppid
                     /\ kern'[q].st = kern[q].st
  BY DEF TypeOK, Process
<1>2. Born'
  BY <1>1 DEF Born, HasEntry
<1>3. InitOnTop'
  BY <1>1, InitPidAssumption DEF InitOnTop, HasEntry
<1>4. ASSUME NEW r \in [Pid -> Nat], Ranks(r) PROVE Ranks(r)'
  <2>1. CASE kern[p].inc > 0
    BY <1>1, <1>4, <2>1 DEF Ranks, FirstParent, HasEntry
  <2>2. CASE kern[p].inc = 0
    <3>1. ~HasEntry(p) /\ kern[p].ppid \notin Pid \ {InitPid}
      BY <2>2, InitPidAssumption DEF Born
    <3>2. \A q \in Pid : kern[q].ppid # p /\ (HasEntry(q) => cache[q].ppid # p)
      BY <1>1, <2>2 DEF Born
    <3> QED
      BY <1>1, <1>4, <3>1, <3>2 DEF Ranks, FirstParent, HasEntry
  <2> QED
    BY <1>1, <2>1, <2>2
<1> QED
  BY <1>2, <1>3, <1>4

\* The first process of a pid ranks above its parent; nobody is below it yet.
LEMMA ForkRanks ==
    ASSUME TypeOK, Born, InitOnTop, UNCHANGED cache,
           NEW p \in Pid, NEW parent \in Pid, Fork(p, parent)
    PROVE  /\ Born' /\ InitOnTop'
           /\ \A r \in [Pid -> Nat] : Ranks(r) => \E s \in [Pid -> Nat] : Ranks(s)'
<1>1. /\ kern[p].st = "free" /\ kern[parent].st = "run" /\ p # parent
      /\ kern'[p].inc = kern[p].inc + 1 /\ kern'[p].ppid = parent
      /\ kern'[p].st = "run" /\ p # InitPid
      /\ \A q \in Pid \ {p} : kern'[q] = kern[q]
      /\ \A q \in Pid : kern[q].inc \in Nat
  BY DEF Fork, TypeOK, Process, InitOnTop
<1>2. kern[parent].inc > 0
  BY <1>1 DEF Born
<1>3. Born'
  BY <1>1, <1>2 DEF Born, HasEntry
<1>4. InitOnTop'
  BY <1>1, InitPidAssumption DEF InitOnTop, HasEntry
<1>5. ASSUME NEW r \in [Pid -> Nat], Ranks(r)
      PROVE  \E s \in [Pid -> Nat] : Ranks(s)'
  <2>1. CASE kern[p].inc > 0
    <3>1. Ranks(r)'
      BY <1>1, <1>5, <2>1 DEF Ranks, FirstParent, HasEntry
    <3> QED
      BY <3>1
  <2>2. CASE kern[p].inc = 0
    <3> DEFINE s == [r EXCEPT ![p] = r[parent] + 1]
    <3>1. s \in [Pid -> Nat] /\ s[p] = r[parent] + 1
          /\ \A q \in Pid \ {p} : s[q] = r[q]
      OBVIOUS
    <3>2. ~HasEntry(p)
      BY <2>2 DEF Born
    <3>3. \A q \in Pid : kern[q].ppid # p /\ (HasEntry(q) => cache[q].ppid # p)
      BY <1>1, <2>2 DEF Born
    <3> HIDE DEF s
    <3>4. Ranks(s)'
      BY <1>1, <1>5, <3>1, <3>2, <3>3 DEF Ranks, FirstParent, HasEntry
    <3> QED
      BY <3>1, <3>4
  <2> QED
    BY <1>1, <2>1, <2>2
<1> QED
  BY <1>3, <1>4, <1>5

\* An entry that is kept, dropped or read again draws no edge that is not there.
LEMMA CacheRanks ==
    ASSUME TypeOK, Born, InitOnTop, UNCHANGED kern,
           \A q \in Pid : cache'[q] \in {cache[q], Absent, Failed, FromPid(q)}
    PROVE  /\ Born' /\ InitOnTop'
           /\ \A r \in [Pid -> Nat] : Ranks(r) => Ranks(r)'
<1>1. ASSUME NEW q \in Pid, HasEntry(q)'
      PROVE  \/ HasEntry(q) /\ cache'[q] = cache[q]
             \/ kern[q].st = "run" /\ cache'[q].ppid = kern[q].ppid
  BY <1>1 DEF HasEntry, FromPid
<1>2. Born'
  BY <1>1 DEF Born
<1>3. InitOnTop'
  BY <1>1, InitPidAssumption DEF InitOnTop
<1>4. ASSUME NEW r \in [Pid -> Nat], Ranks(r) PROVE Ranks(r)'
  BY <1>1, <1>4 DEF Ranks, FirstParent
<1> QED
  BY <1>2, <1>3, <1>4

\* A step changes entries in no other way.
LEMMA EntrySteps ==
    ASSUME TypeOK, RefreshStep \/ MonStep
    PROVE  /\ UNCHANGED kern
           /\ \A q \in Pid : cache'[q] \in {cache[q], Absent, Failed, FromPid(q)}
<1>1. ASSUME NEW t \in Thread, NEW p \in Pid, PopFill(t, p)
      PROVE  \A q \in Pid : cache'[q] \in {cache[q], FromPid(q)}
  BY <1>1 DEF PopFill, TypeOK
<1>2. ASSUME NEW t \in Thread, NEW next, PopRetain(t, next)
      PROVE  \A q \in Pid : cache'[q] \in {cache[q], Absent}
  BY <1>2 DEF PopRetain
<1>3. ASSUME MonHandle
      PROVE  \A q \in Pid : cache'[q] \in {cache[q], Absent, FromPid(q)}
  BY <1>3 DEF MonHandle, Noted, TypeOK
<1>4. CASE RefreshStep
  BY <1>1, <1>2, <1>4 DEF RefreshStep, PopStart, PopFill, PopRetain, Thread
<1>5. CASE MonStep
  BY <1>1, <1>2, <1>3, <1>5
  DEF MonStep, MonSubscribe, MonReceive, MonHandle, PopStart, PopFill, PopRetain,
      Thread, cacheVars
<1> QED
  BY <1>4, <1>5

\* Every step keeps the ranking.
LEMMA RInvStep == TypeOK /\ RInv /\ [Next]_vars => RInv'
<1> SUFFICES ASSUME TypeOK, RInv, [Next]_vars PROVE RInv'
  OBVIOUS
<1>1. Born /\ InitOnTop
  BY DEF RInv
<1>2. PICK r \in [Pid -> Nat] : Ranks(r)
  BY DEF RInv
<1>3. CASE KernelFork
  <2>1. PICK p \in Pid, parent \in Pid : Fork(p, parent)
    BY <1>3 DEF KernelFork
  <2>2. UNCHANGED cache
    BY <1>3 DEF KernelFork, cacheVars
  <2> QED
    BY <1>1, <1>2, <2>1, <2>2, ForkRanks DEF RInv
<1>4. CASE KernelThread
  <2>1. PICK p \in Pid : kern[p].st = "free" /\ kern' = [kern EXCEPT ![p].inc = @ + 1]
    BY <1>4 DEF KernelThread
  <2>2. UNCHANGED cache
    BY <1>4 DEF KernelThread, cacheVars
  <2>3. Born' /\ InitOnTop' /\ Ranks(r)'
    BY <1>1, <1>2, <2>1, <2>2, ThreadRanks
  <2> QED
    BY <2>3 DEF RInv
<1>5. CASE KernelReap \/ KernelExec \/ KernelExit
  <2>1. UNCHANGED cache
    BY <1>5 DEF KernelReap, KernelExec, KernelExit, cacheVars
  <2>2. \/ \E p \in Pid : Reap(p)
        \/ \E p \in Pid, e \in Exe : Exec(p, e)
        \/ \E p \in Pid : Exit(p)
    BY <1>5 DEF KernelReap, KernelExec, KernelExit
  <2>3. Adoption
    <3> USE InitPidAssumption DEF Adoption, TypeOK, Process, InitOnTop
    <3>1. ASSUME NEW p \in Pid, Reap(p) PROVE Adoption
      BY <1>1, <3>1 DEF Reap
    <3>2. ASSUME NEW p \in Pid, NEW e \in Exe, Exec(p, e) PROVE Adoption
      BY <1>1, <3>2 DEF Exec
    <3>3. ASSUME NEW p \in Pid, Exit(p) PROVE Adoption
      BY <1>1, <3>3 DEF Exit, Died
    <3> QED
      BY ONLY <2>2, <3>1, <3>2, <3>3
  <2>4. Born' /\ InitOnTop' /\ Ranks(r)'
    BY <1>1, <1>2, <2>1, <2>3, AdoptedRanks
  <2> QED
    BY <2>4 DEF RInv
<1>6. CASE RefreshStep \/ MonStep
  <2>1. Born' /\ InitOnTop' /\ Ranks(r)'
    BY <1>1, <1>2, <1>6, EntrySteps, CacheRanks
  <2> QED
    BY <2>1 DEF RInv
<1>7. CASE UNCHANGED vars
  BY <1>7 DEF RInv, Born, InitOnTop, Ranks, FirstParent, HasEntry, vars, cacheVars
<1> QED
  BY <1>3, <1>4, <1>5, <1>6, <1>7 DEF Next, Kernel

\* parents never goes round pids that all belong to their first process.
THEOREM NoCycles == Spec => []NoCycleWithoutRecycling
<1>1. Init => RInv
  <2> SUFFICES ASSUME Init PROVE RInv
    OBVIOUS
  <2>1. \A q \in Pid : /\ ~HasEntry(q)
                       /\ kern[q].ppid \in {InitPid, 0}
                       /\ kern[q].st # "free" => kern[q].inc > 0
    BY DEF Init, TableInit, HasEntry
  <2>2. kern[InitPid].st = "run" /\ kern[InitPid].ppid = 0 /\ kern[InitPid].inc > 0
    BY InitPidAssumption DEF Init, TableInit
  <2>3. Born /\ InitOnTop
    BY <2>1, <2>2, InitPidAssumption DEF Born, InitOnTop
  <2>4. Ranks([q \in Pid |-> 0])
    BY <2>1, InitPidAssumption DEF Ranks, FirstParent
  <2>5. [q \in Pid |-> 0] \in [Pid -> Nat]
    OBVIOUS
  <2> QED
    BY <2>3, <2>4, <2>5 DEF RInv
<1>2. TypeOK /\ RInv => NoCycleWithoutRecycling
  <2> SUFFICES ASSUME TypeOK, RInv, NEW C \in SUBSET Pid, GoesRound(C),
                      \A q \in C : ~(kern[q].inc > 1)
               PROVE  FALSE
    BY DEF NoCycleWithoutRecycling
  <2>1. PICK r \in [Pid -> Nat] : Ranks(r)
    BY DEF RInv
  <2>2. \A q \in C : HasEntry(q) /\ cache[q].ppid \in C /\ kern[q].inc \in Nat
    BY DEF GoesRound, TypeOK, Process
  <2>3. \A q \in C : kern[q].inc = 1
    <3>1. \A q \in C : kern[q].inc # 0
      BY <2>2 DEF RInv, Born
    <3> QED
      BY <2>2, <3>1
  <2>4. InitPid \notin C
    BY <2>2, InitPidAssumption DEF RInv, InitOnTop
  <2>5. \A q \in C : r[cache[q].ppid] < r[q]
    BY <2>1, <2>2, <2>3, <2>4 DEF Ranks, FirstParent
  <2> DEFINE T == {r[q] : q \in C}
  <2>6. T \in SUBSET Nat /\ T # {}
    BY DEF GoesRound
  <2>7. PICK m \in T : \A k \in T : m <= k
    BY <2>6, LeastNumber
  <2>8. PICK q \in C : m = r[q]
    OBVIOUS
  <2>9. r[cache[q].ppid] \in T
    BY <2>2
  <2>10. r[q] \in Nat /\ r[cache[q].ppid] \in Nat
    BY <2>6, <2>8, <2>9
  <2> HIDE DEF T
  <2> QED
    BY <2>5, <2>7, <2>8, <2>9, <2>10
<1> QED
  BY <1>1, <1>2, TypeCorrect, RInvStep, PTL DEF Spec

------------------------------------------------------------------------------
(* The loops of ParentWalk.  First the closed form: its recursive function  *)
(* exists and satisfies its equation, whatever the table.                   *)

\* f is what N applications of step make of s, one after the other.
Iterate(f, s, step, N) == \A n \in 0..N : f[n] = IF n = 0 THEN s ELSE step[f[n - 1]]

LEMMA Iterates ==
    ASSUME NEW D, NEW s \in D, NEW step \in [D -> D], NEW N \in Nat
    PROVE  \E f \in [0..N -> D] : Iterate(f, s, step, N)
<1> DEFINE T == {n \in Nat : \E f \in [0..n -> D] : Iterate(f, s, step, n)}
<1>1. 0 \in T
  <2>1. [k \in 0..0 |-> s] \in [0..0 -> D] /\ Iterate([k \in 0..0 |-> s], s, step, 0)
    BY DEF Iterate
  <2> QED
    BY <2>1
<1>2. ASSUME NEW n \in 0..N, n \in T PROVE n + 1 \in T
  <2>1. PICK f \in [0..n -> D] : Iterate(f, s, step, n)
    BY <1>2
  <2> DEFINE g == [k \in 0..(n + 1) |-> IF k <= n THEN f[k] ELSE step[f[n]]]
  <2>2. g \in [0..(n + 1) -> D]
    OBVIOUS
  <2>3. Iterate(g, s, step, n + 1)
    BY <2>1 DEF Iterate
  <2> HIDE DEF g
  <2> QED
    BY <2>2, <2>3
<1>3. N \in T
  <2> HIDE DEF T
  <2>1. 0..N \subseteq T
    BY <1>1, <1>2, UpTo
  <2> QED
    BY <2>1
<1> QED
  BY <1>3

\* The climb over c from x, step by step.
LEMMA ClimbSteps ==
    ASSUME NEW c, NEW x, IsFiniteSet(DOMAIN c), NEW D, x.ppid \in D,
           \A p \in DOMAIN c : c[p].ppid \in D
    PROVE  /\ Cardinality(DOMAIN c) \in Nat
           /\ \A n \in 0..Cardinality(DOMAIN c) :
                /\ Climb(x, c)[n] \in D
                /\ Climb(x, c)[n] =
                     IF n = 0 THEN x.ppid
                     ELSE IF Climb(x, c)[n - 1] \in DOMAIN c
                          THEN c[Climb(x, c)[n - 1]].ppid
                     ELSE Climb(x, c)[n - 1]
<1> DEFINE N == Cardinality(DOMAIN c)
           step == [e \in D |-> IF e \in DOMAIN c THEN c[e].ppid ELSE e]
           G(a) == [n \in 0..N |-> IF n = 0 THEN x.ppid
                                   ELSE IF a[n - 1] \in DOMAIN c THEN c[a[n - 1]].ppid
                                   ELSE a[n - 1]]
<1>1. N \in Nat
  BY FS_CardinalityType
<1>2. step \in [D -> D]
  OBVIOUS
<1>3. PICK f \in [0..N -> D] : Iterate(f, x.ppid, step, N)
  <2> HIDE DEF N, step
  <2> QED
    BY <1>1, <1>2, Iterates
<1>4. f = G(f)
  <2>1. \A n \in 0..N : n # 0 => f[n - 1] \in D
    BY <1>1
  <2>2. \A e \in D : step[e] = IF e \in DOMAIN c THEN c[e].ppid ELSE e
    OBVIOUS
  <2> HIDE DEF N, step
  <2>3. \A n \in 0..N : f[n] = G(f)[n]
    BY <1>3, <2>1, <2>2 DEF Iterate
  <2>4. f = [n \in 0..N |-> f[n]]
    OBVIOUS
  <2> QED
    BY <2>3, <2>4
<1>5. Climb(x, c) = CHOOSE a : a = G(a)
  BY DEF Climb
<1>6. Climb(x, c) = G(Climb(x, c))
  <2> HIDE DEF G
  <2> QED
    BY <1>4, <1>5
<1> DEFINE a == Climb(x, c)
           T == {n \in 0..N : a[n] \in D}
<1>7. \A n \in 0..N : a[n] = IF n = 0 THEN x.ppid
                             ELSE IF a[n - 1] \in DOMAIN c THEN c[a[n - 1]].ppid
                             ELSE a[n - 1]
  <2> HIDE DEF a, N
  <2>1. a = G(a)
    BY <1>6 DEF a
  <2> QED
    BY <2>1
<1> HIDE DEF a, N, G
<1>8. 0 \in T
  BY <1>1, <1>7
<1>9. ASSUME NEW n \in 0..N, n < N, n \in T PROVE n + 1 \in T
  <2>1. n + 1 \in 0..N /\ n + 1 # 0 /\ (n + 1) - 1 = n
    BY <1>1, <1>9
  <2>2. a[n + 1] = IF a[n] \in DOMAIN c THEN c[a[n]].ppid ELSE a[n]
    BY <1>7, <2>1
  <2> QED
    BY <1>9, <2>1, <2>2
<1>10. 0..N \subseteq T
  <2> HIDE DEF T
  <2> QED
    BY <1>1, <1>8, <1>9, UpTo
<1> QED
  BY <1>1, <1>7, <1>10 DEF a, N

\* A handle of the table is a handle, with the pid it is found under.
LEMMA TableHandles ==
    ASSUME table \in Caches
    PROVE  /\ DOMAIN table \subseteq WalkPid
           /\ \A p \in DOMAIN table : /\ table[p] \in H /\ table[p].pid = p
                                      /\ table[p].ppid \in Number
  BY DEF Caches, H

\* The types of the variables hold in every reachable state.
LEMMA WalkTypeStep == WalkTypeOK /\ [WalkNext]_walkVars => WalkTypeOK'
<1> SUFFICES ASSUME WalkTypeOK, [WalkNext]_walkVars PROVE WalkTypeOK'
  OBVIOUS
<1>0. result \in Seq(H) /\ Len(result) \in Nat /\ seen \in 0..Len(result)
  BY DEF WalkTypeOK
<1>1. CASE TestSelf
  BY <1>1 DEF TestSelf, WalkTypeOK, input
<1>2. CASE CollectParent
  <2>1. table[cur] \in H /\ table[cur].ppid \in Number
    BY <1>2, TableHandles DEF CollectParent, WalkTypeOK
  <2>2. result' \in Seq(H) /\ Len(result') = Len(result) + 1
    BY <1>0, <1>2, <2>1 DEF CollectParent
  <2> QED
    BY <1>0, <1>2, <2>1, <2>2 DEF CollectParent, WalkTypeOK, input
<1>3. CASE StopClimb
  BY <1>3 DEF StopClimb, WalkTypeOK, input
<1>4. CASE TestParent
  <2>1. seen' \in 0..Len(result)
    BY <1>0, <1>4 DEF TestParent
  <2> QED
    BY <1>4, <2>1 DEF TestParent, WalkTypeOK, input
<1>5. CASE StopScan
  BY <1>5 DEF StopScan, WalkTypeOK, input
<1>6. CASE Idle \/ UNCHANGED walkVars
  BY <1>6 DEF Idle, walkVars, WalkTypeOK
<1> QED
  BY <1>1, <1>2, <1>3, <1>4, <1>5, <1>6 DEF WalkNext

THEOREM WalkTypeCorrect == WalkSpec => []WalkTypeOK
<1>1. WalkInit => WalkTypeOK
  BY DEF WalkInit, WalkTypeOK, H
<1> QED
  BY <1>1, WalkTypeStep, PTL DEF WalkSpec

\* Where the climb stands after k parents.
Onward(k) == IF k = 0 THEN asked.ppid ELSE result[k].ppid

\* What has been collected is the chain of parents up to cur.
ChainOK ==
    /\ \A k \in 1..Len(result) :
        /\ result[k].pid \in DOMAIN table
        /\ result[k] = table[result[k].pid]
        /\ result[k].pid = Onward(k - 1)
    /\ cur = Onward(Len(result))

Collected == {result[k].pid : k \in 1..Len(result)}

\* Every set closed under taking the parent holds the chain.
ChainIsLeast ==
    \A T \in SUBSET DOMAIN table :
        Closed(T) => /\ Collected \subseteq T
                     /\ cur \in DOMAIN table => cur \in T

\* What is known at each place.
PlaceOK ==
    /\ at = "self" => result = <<>>
    /\ at \in {"self", "climb"} => seen = 0
    /\ at \in {"climb", "scan", "false"} => ~(orEqual /\ asked.pid \in sought)
    /\ at \in {"scan", "false"} =>
        /\ cur \notin DOMAIN table
        /\ \A k \in 1..seen : result[k].pid \notin sought
    /\ at = "false" => seen = Len(result)
    /\ at = "true" => \/ orEqual /\ asked.pid \in sought
                      \/ /\ Collected \intersect sought # {}
                         /\ cur \notin DOMAIN table

WInv == ChainOK /\ ChainIsLeast /\ PlaceOK

LEMMA WInvStep == WalkTypeOK /\ WInv /\ [WalkNext]_walkVars => WInv'
<1> SUFFICES ASSUME WalkTypeOK, WInv, [WalkNext]_walkVars PROVE WInv'
  OBVIOUS
<1>0. /\ result \in Seq(H) /\ Len(result) \in Nat /\ seen \in 0..Len(result)
      /\ ChainOK /\ ChainIsLeast /\ PlaceOK
  BY DEF WalkTypeOK, WInv
<1>1. ASSUME UNCHANGED <<input, cur, result>>
      PROVE  (ChainOK /\ ChainIsLeast)'
  <2>1. ChainOK'
    BY <1>0, <1>1 DEF ChainOK, Onward, input
  <2>2. ChainIsLeast'
    BY <1>0, <1>1 DEF ChainIsLeast, Collected, Closed, input
  <2> QED
    BY <2>1, <2>2
<1>2. CASE TestSelf
  <2>1. PlaceOK'
    BY <1>0, <1>2 DEF TestSelf, PlaceOK, Collected, input
  <2> QED
    BY <1>1, <1>2, <2>1 DEF TestSelf, WInv
<1>3. CASE CollectParent
  <2>0. PICK n \in Nat : n = Len(result)
    BY <1>0
  <2>1. /\ cur \in DOMAIN table /\ result' = Append(result, table[cur])
        /\ cur' = table[cur].ppid /\ UNCHANGED <<table, asked, sought, orEqual, seen, at>>
        /\ at = "climb"
    BY <1>3 DEF CollectParent, input
  <2>2. table[cur] \in H /\ table[cur].pid = cur
    BY <2>1, TableHandles DEF WalkTypeOK
  <2>3. /\ Len(result') = n + 1 /\ result'[n + 1] = table[cur]
        /\ \A k \in 1..n : result'[k] = result[k]
    BY <1>0, <2>0, <2>1, <2>2
  <2>4. ChainOK'
    <3>1. Onward(n + 1)' = cur'
      BY <1>0, <2>0, <2>1, <2>3 DEF Onward
    <3>2. \A k \in 0..n : Onward(k)' = Onward(k)
      BY <1>0, <2>0, <2>1, <2>3 DEF Onward
    <3>3. ASSUME NEW k \in 1..(n + 1)
          PROVE  /\ result'[k].pid \in DOMAIN table
                 /\ result'[k] = table[result'[k].pid]
                 /\ result'[k].pid = Onward(k - 1)'
      <4>1. CASE k = n + 1
        BY <1>0, <2>0, <2>1, <2>2, <2>3, <3>2, <4>1 DEF ChainOK
      <4>2. CASE k \in 1..n
        BY <1>0, <2>0, <2>3, <3>2, <4>2 DEF ChainOK
      <4> QED
        BY <1>0, <2>0, <4>1, <4>2
    <3> QED
      BY <1>0, <2>0, <2>1, <2>3, <3>1, <3>3 DEF ChainOK
  <2>5. Collected' = Collected \union {cur}
    <3>1. \A k \in 1..(n + 1) : k = n + 1 \/ k \in 1..n
      BY <2>0
    <3>2. n + 1 \in 1..(n + 1) /\ 1..n \subseteq 1..(n + 1)
      BY <2>0
    <3> QED
      BY <2>0, <2>2, <2>3, <3>1, <3>2 DEF Collected
  <2>6. ChainIsLeast'
    <3>1. ASSUME NEW T \in SUBSET DOMAIN table, Closed(T)
          PROVE  Collected \union {cur} \subseteq T /\ (cur' \in DOMAIN table => cur' \in T)
      <4>1. Collected \subseteq T /\ cur \in T
        BY <1>0, <2>0, <2>1, <3>1 DEF ChainIsLeast
      <4> QED
        BY <2>1, <3>1, <4>1 DEF Closed
    <3>2. \A T : Closed(T)' <=> Closed(T)
      BY <2>1 DEF Closed
    <3> QED
      BY <2>1, <2>5, <3>1, <3>2 DEF ChainIsLeast
  <2>7. PlaceOK'
    BY <1>0, <2>0, <2>1 DEF PlaceOK
  <2> QED
    BY <2>4, <2>6, <2>7 DEF WInv
<1>4. CASE StopClimb
  <2>1. PlaceOK'
    BY <1>0, <1>4 DEF StopClimb, PlaceOK, input
  <2> QED
    BY <1>1, <1>4, <2>1 DEF StopClimb, WInv
<1>5. CASE TestParent
  <2>1. /\ at = "scan" /\ seen < Len(result) /\ seen' = seen + 1
        /\ at' = IF result[seen + 1].pid \in sought THEN "true" ELSE "scan"
        /\ UNCHANGED <<table, asked, sought, orEqual, cur, result>>
    BY <1>5 DEF TestParent, input
  <2>2. Collected' = Collected
    BY <2>1 DEF Collected
  <2>3. CASE result[seen + 1].pid \in sought
    <3>1. result[seen + 1].pid \in Collected
      BY <1>0, <2>1 DEF Collected
    <3> QED
      BY <1>0, <1>1, <1>5, <2>1, <2>2, <2>3, <3>1 DEF TestParent, PlaceOK, WInv
  <2>4. CASE result[seen + 1].pid \notin sought
    <3>1. \A k \in 1..(seen + 1) : k = seen + 1 \/ k \in 1..seen
      BY <1>0
    <3>2. PlaceOK'
      BY <1>0, <2>1, <2>2, <2>4, <3>1 DEF PlaceOK
    <3> QED
      BY <1>1, <1>5, <3>2 DEF TestParent, WInv
  <2> QED
    BY <2>3, <2>4
<1>6. CASE StopScan
  <2>1. PlaceOK'
    BY <1>0, <1>6 DEF StopScan, PlaceOK, input
  <2> QED
    BY <1>1, <1>6, <2>1 DEF StopScan, WInv
<1>7. CASE Idle \/ UNCHANGED walkVars
  <2>1. PlaceOK'
    BY <1>0, <1>7 DEF Idle, walkVars, PlaceOK, Collected
  <2> QED
    BY <1>1, <1>7, <2>1 DEF Idle, walkVars, WInv, input
<1> QED
  BY <1>2, <1>3, <1>4, <1>5, <1>6, <1>7 DEF WalkNext

\* The loops start with nothing collected, at the parent of the handle.
LEMMA WInvInit == WalkInit => WInv
<1> SUFFICES ASSUME WalkInit PROVE WInv
  OBVIOUS
<1>1. Len(result) = 0 /\ cur = asked.ppid /\ at = "self" /\ seen = 0 /\ result = <<>>
  BY DEF WalkInit
<1>2. ChainOK /\ Collected = {}
  BY <1>1 DEF ChainOK, Onward, Collected
<1>3. ChainIsLeast
  BY <1>1, <1>2 DEF ChainIsLeast, Closed
<1>4. PlaceOK
  BY <1>1 DEF PlaceOK
<1> QED
  BY <1>2, <1>3, <1>4 DEF WInv

\* Once the climb is over, what it has collected are the ancestors: the set is
\* closed, and every closed set holds it.
LEMMA CollectedAll ==
    ASSUME WalkTypeOK, WInv, cur \notin DOMAIN table
    PROVE  Collected = AncestorsOf
<1>0. Len(result) \in Nat
  BY DEF WalkTypeOK
<1>1. Collected \subseteq DOMAIN table
  BY DEF WInv, ChainOK, Collected
<1>2. Collected \subseteq AncestorsOf
  BY <1>1 DEF WInv, ChainIsLeast, AncestorsOf
<1>3. \A k \in 0..Len(result) : Onward(k) \in DOMAIN table => Onward(k) \in Collected
  <2> SUFFICES ASSUME NEW k \in 0..Len(result), Onward(k) \in DOMAIN table
               PROVE  Onward(k) \in Collected
    OBVIOUS
  <2>1. k # Len(result)
    BY DEF WInv, ChainOK
  <2>2. k + 1 \in 1..Len(result) /\ (k + 1) - 1 = k
    BY <1>0, <2>1
  <2> QED
    BY <2>2 DEF WInv, ChainOK, Collected
<1>4. Closed(Collected)
  <2>1. asked.ppid \in DOMAIN table => asked.ppid \in Collected
    BY <1>0, <1>3 DEF Onward
  <2>2. ASSUME NEW p \in Collected, table[p].ppid \in DOMAIN table
        PROVE  table[p].ppid \in Collected
    <3>1. PICK k \in 1..Len(result) : p = result[k].pid
      BY DEF Collected
    <3>2. table[p].ppid = Onward(k) /\ k \in 0..Len(result)
      BY <1>0, <3>1 DEF Onward, WInv, ChainOK
    <3> QED
      BY <1>3, <2>2, <3>2
  <2> QED
    BY <2>1, <2>2 DEF Closed
<1>5. AncestorsOf \subseteq Collected
  BY <1>1, <1>4 DEF AncestorsOf
<1> QED
  BY <1>2, <1>5

\* is_child_of and is_equal_or_child_of answer what they are asked, whatever
\* the table: the definition of ancestor they are held to has no loop.
THEOREM AnswersRight == WalkSpec => []AnswerIsAncestry
<1>1. WalkTypeOK /\ WInv => AnswerIsAncestry
  <2> SUFFICES ASSUME WalkTypeOK, WInv, Answered
               PROVE  at = "true" <=> \/ orEqual /\ asked.pid \in sought
                                      \/ AncestorsOf \intersect sought # {}
    BY DEF AnswerIsAncestry
  <2>1. CASE at = "true"
    BY <2>1, CollectedAll DEF WInv, PlaceOK
  <2>2. CASE at = "false"
    <3>1. Collected = AncestorsOf /\ Collected \intersect sought = {}
      BY <2>2, CollectedAll DEF WInv, PlaceOK, Collected
    <3> QED
      BY <2>2, <3>1 DEF WInv, PlaceOK
  <2> QED
    BY <2>1, <2>2 DEF Answered
<1> QED
  BY <1>1, WalkTypeCorrect, WInvInit, WInvStep, PTL DEF WalkSpec

\* The loop and the closed form go the same way; where the loop has come to
\* rest, so has the closed form.
LEMMA LoopIsClimb ==
    ASSUME WalkTypeOK, WInv
    PROVE  /\ Cardinality(DOMAIN table) \in Nat /\ IsFiniteSet(DOMAIN table)
           /\ \A n \in 0..Cardinality(DOMAIN table) :
                n <= Len(result) => Climb(asked, table)[n] = Onward(n)
           /\ \A n \in 0..Cardinality(DOMAIN table) :
                n >= Len(result) /\ cur \notin DOMAIN table => Climb(asked, table)[n] = cur
<1>0. PICK m \in Nat : m = Len(result)
  BY DEF WalkTypeOK
<1>1. IsFiniteSet(DOMAIN table)
  BY TableHandles, FS_Subset, WalkPidAssumption DEF WalkTypeOK
<1>2. asked.ppid \in Number /\ \A p \in DOMAIN table : table[p].ppid \in Number
  BY TableHandles DEF WalkTypeOK, H
<1> DEFINE N == Cardinality(DOMAIN table)
           a == Climb(asked, table)
<1>3. /\ N \in Nat
      /\ \A n \in 0..N : a[n] = IF n = 0 THEN asked.ppid
                                ELSE IF a[n - 1] \in DOMAIN table
                                     THEN table[a[n - 1]].ppid
                                ELSE a[n - 1]
  BY <1>1, <1>2, ClimbSteps
<1>4. /\ \A k \in 1..m : /\ result[k].pid \in DOMAIN table
                         /\ table[result[k].pid] = result[k]
                         /\ result[k].pid = Onward(k - 1)
      /\ Onward(0) = asked.ppid /\ cur = Onward(m)
      /\ \A k \in 1..m : Onward(k) = result[k].ppid
  BY <1>0 DEF WInv, ChainOK, Onward
<1> HIDE DEF N, a
<1> DEFINE T == {n \in 0..N : (n <= m => a[n] = Onward(n))
                              /\ (n >= m /\ cur \notin DOMAIN table => a[n] = cur)}
<1>5. 0 \in T
  BY <1>0, <1>3, <1>4
<1>6. ASSUME NEW n \in 0..N, n < N, n \in T PROVE n + 1 \in T
  <2>1. n + 1 \in 0..N /\ (n + 1) - 1 = n /\ n + 1 # 0
    BY <1>3, <1>6
  <2>2. a[n + 1] = IF a[n] \in DOMAIN table THEN table[a[n]].ppid ELSE a[n]
    BY <1>3, <2>1
  <2>3. CASE n < m
    <3>1. n + 1 \in 1..m
      BY <2>1, <2>3
    <3>2. a[n] = result[n + 1].pid
      BY <1>4, <1>6, <2>1, <2>3, <3>1
    <3>3. a[n + 1] = Onward(n + 1)
      BY <1>4, <2>2, <3>1, <3>2
    <3> QED
      BY <1>4, <2>1, <3>1, <3>3
  <2>4. CASE n >= m
    <3>1. cur \notin DOMAIN table => a[n + 1] = cur
      BY <1>6, <2>2, <2>4
    <3> QED
      BY <2>1, <2>4, <3>1
  <2> QED
    BY <2>1, <2>3, <2>4
<1>7. 0..N \subseteq T
  <2> HIDE DEF T
  <2> QED
    BY <1>3, <1>5, <1>6, UpTo
<1> QED
  BY <1>0, <1>1, <1>3, <1>7 DEF N, a

\* No handle is collected twice by a climb that ends: two equal ones would be
\* followed by two equal ones, up to the last, which nothing follows.
LEMMA CollectedOnce ==
    ASSUME WalkTypeOK, WInv, cur \notin DOMAIN table
    PROVE  \A k, l \in 1..Len(result) : result[k].pid = result[l].pid => k = l
<1>0. PICK m \in Nat : m = Len(result)
  BY DEF WalkTypeOK
<1>1. /\ \A k \in 1..m : /\ result[k].pid \in DOMAIN table
                         /\ result[k] = table[result[k].pid]
      /\ \A k \in 1..m : k # m => result[k + 1].pid = result[k].ppid
      /\ m > 0 => cur = result[m].ppid
  BY <1>0 DEF WInv, ChainOK, Onward
<1> DEFINE Twice(d) == \E k, l \in 1..m : /\ k < l /\ d = m - l
                                          /\ result[k].pid = result[l].pid
           T == {d \in 0..m : Twice(d)}
<1>2. T = {}
  <2> SUFFICES ASSUME T # {} PROVE FALSE
    OBVIOUS
  <2>1. T \in SUBSET Nat
    OBVIOUS
  <2>2. PICK d \in T : \A e \in T : d <= e
    <3> HIDE DEF T
    <3> QED
      BY <2>1, LeastNumber
  <2>3. PICK k, l \in 1..m : k < l /\ d = m - l /\ result[k].pid = result[l].pid
    OBVIOUS
  <2>4. result[k].ppid = result[l].ppid /\ k # m
    BY <1>1, <2>3
  <2>5. CASE l = m
    BY <1>1, <2>3, <2>4, <2>5
  <2>6. CASE l # m
    <3>1. result[k + 1].pid = result[l + 1].pid /\ k + 1 \in 1..m /\ l + 1 \in 1..m
      BY <1>1, <2>3, <2>4, <2>6
    <3>2. k + 1 < l + 1 /\ d - 1 = m - (l + 1) /\ d - 1 \in 0..m /\ d - 1 < d
      BY <2>3, <2>6
    <3>3. d - 1 \in T
      BY <3>1, <3>2
    <3> HIDE DEF T
    <3> QED
      BY <2>1, <2>2, <3>2, <3>3
  <2> QED
    BY <2>5, <2>6
<1>3. \A k, l \in 1..m : k < l => result[k].pid # result[l].pid
  <2> SUFFICES ASSUME NEW k \in 1..m, NEW l \in 1..m, k < l, result[k].pid = result[l].pid
               PROVE  FALSE
    OBVIOUS
  <2>1. m - l \in T
    OBVIOUS
  <2> HIDE DEF T
  <2> QED
    BY <1>2, <2>1
<1>4. ASSUME NEW k \in 1..m, NEW l \in 1..m, result[k].pid = result[l].pid PROVE k = l
  BY <1>3, <1>4
<1> QED
  BY <1>0, <1>4

\* So a climb that has ended has not collected more than the table holds.
LEMMA CollectedFits ==
    ASSUME WalkTypeOK, WInv, cur \notin DOMAIN table
    PROVE  Len(result) <= Cardinality(DOMAIN table)
<1>0. PICK m \in Nat : m = Len(result)
  BY DEF WalkTypeOK
<1> DEFINE f == [k \in 1..m |-> result[k].pid]
<1>1. f \in Injection(1..m, DOMAIN table)
  <2>1. f \in [1..m -> DOMAIN table]
    BY <1>0 DEF WInv, ChainOK
  <2>2. \A k, l \in 1..m : f[k] = f[l] => k = l
    BY <1>0, CollectedOnce
  <2> QED
    BY <2>1, <2>2 DEF Injection, IsInjective
<1>2. IsFiniteSet(DOMAIN table)
  BY LoopIsClimb
<1>3. Cardinality(1..m) <= Cardinality(DOMAIN table)
  <2> HIDE DEF f
  <2> QED
    BY <1>1, <1>2, FS_Injection
<1>4. Cardinality(1..m) = m
  <2>1. Cardinality(1..m) = IF 1 > m THEN 0 ELSE m - 1 + 1
    BY FS_Interval
  <2> QED
    BY <2>1
<1> QED
  BY <1>0, <1>3, <1>4

\* Where the climb ends, the closed form of module Ancestry is what it has
\* collected, each handle once.
THEOREM ClosedFormRight == WalkSpec => []ClosedFormIsLoop
<1>1. WalkTypeOK /\ WInv => ClosedFormIsLoop
  <2> SUFFICES ASSUME WalkTypeOK, WInv, at \in {"scan", "false"}
               PROVE  /\ {result[k].pid : k \in DOMAIN result} = Parents(asked, table)
                      /\ \A k, l \in DOMAIN result : result[k] = result[l] => k = l
    BY DEF ClosedFormIsLoop
  <2>0. PICK m \in Nat : m = Len(result) /\ DOMAIN result = 1..m
    BY DEF WalkTypeOK
  <2>1. cur \notin DOMAIN table
    BY DEF WInv, PlaceOK
  <2> DEFINE N == Cardinality(DOMAIN table)
             a == Climb(asked, table)
  <2>2. /\ N \in Nat /\ m <= N
        /\ \A n \in 0..N : n <= m => a[n] = Onward(n)
        /\ \A n \in 0..N : n >= m => a[n] = cur
    BY <2>0, <2>1, LoopIsClimb, CollectedFits
  <2> HIDE DEF N, a
  <2>3. \A k \in 1..m : k - 1 \in 0..N /\ a[k - 1] = result[k].pid
                        /\ result[k].pid \in DOMAIN table
    BY <2>0, <2>2 DEF WInv, ChainOK
  <2>4. ASSUME NEW n \in 0..N, a[n] \in DOMAIN table
        PROVE  \E k \in 1..m : a[n] = result[k].pid
    <3>1. n < m
      BY <2>1, <2>2, <2>4
    <3>2. n + 1 \in 1..m /\ (n + 1) - 1 = n
      BY <3>1
    <3> QED
      BY <2>3, <3>2
  <2>5. {result[k].pid : k \in 1..m} = {a[n] : n \in 0..N} \intersect DOMAIN table
    BY <2>3, <2>4
  <2>6. \A k, l \in 1..m : result[k] = result[l] => k = l
    BY <2>0, <2>1, CollectedOnce
  <2> QED
    BY <2>0, <2>5, <2>6 DEF Parents, N, a
<1> QED
  BY <1>1, WalkTypeCorrect, WInvInit, WInvStep, PTL DEF WalkSpec

\* How long is_child_of takes: a climb that ends collects at most one handle
\* for every entry of the cache, and one that does not is never followed by a
\* scan (main.rs:66-69 remembers nothing of where it has been).
THEOREM ClimbsAreShort ==
    WalkSpec => [](/\ ClimbEnds(asked, table) => Len(result) <= Cardinality(DOMAIN table)
                   /\ ~ClimbEnds(asked, table) => at # "scan")
<1>1. WalkTypeOK /\ WInv =>
        /\ ClimbEnds(asked, table) => Len(result) <= Cardinality(DOMAIN table)
        /\ ~ClimbEnds(asked, table) => at # "scan"
  <2> SUFFICES ASSUME WalkTypeOK, WInv
               PROVE  /\ ClimbEnds(asked, table) => Len(result) <= Cardinality(DOMAIN table)
                      /\ ~ClimbEnds(asked, table) => at # "scan"
    OBVIOUS
  <2> DEFINE N == Cardinality(DOMAIN table)
             a == Climb(asked, table)
  <2>0. PICK m \in Nat : m = Len(result)
    BY DEF WalkTypeOK
  <2>1. /\ N \in Nat
        /\ \A n \in 0..N : n <= m => a[n] = Onward(n)
        /\ \A n \in 0..N : n >= m /\ cur \notin DOMAIN table => a[n] = cur
    BY <2>0, LoopIsClimb
  <2>2. ClimbEnds(asked, table) <=> a[N] \notin DOMAIN table
    BY DEF ClimbEnds
  <2>3. cur \notin DOMAIN table => m <= N
    BY <2>0, CollectedFits
  <2> HIDE DEF N, a
  <2>4. ASSUME a[N] \notin DOMAIN table PROVE m <= N
    <3> SUFFICES ASSUME m > N PROVE FALSE
      BY <2>1
    <3>1. a[N] = Onward(N) /\ N + 1 \in 1..m /\ (N + 1) - 1 = N
      BY <2>1
    <3> QED
      BY <2>0, <2>4, <3>1 DEF WInv, ChainOK
  <2>5. ASSUME at = "scan" PROVE a[N] \notin DOMAIN table
    <3>1. cur \notin DOMAIN table
      BY <2>5 DEF WInv, PlaceOK
    <3> QED
      BY <2>1, <2>3, <3>1
  <2> QED
    BY <2>0, <2>2, <2>4, <2>5 DEF N
<1> QED
  BY <1>1, WalkTypeCorrect, WInvInit, WInvStep, PTL DEF WalkSpec

------------------------------------------------------------------------------
(* The two together: the loops of ParentWalk on the tables of ProcessCache. *)

\* A climb that does not end goes round a cycle, among the parents it meets.
LEMMA EndlessClimb ==
    ASSUME NEW c, NEW x, IsFiniteSet(DOMAIN c), NEW D, x.ppid \in D,
           \A p \in DOMAIN c : c[p].ppid \in D,
           ~ClimbEnds(x, c)
    PROVE  \E C \in SUBSET Parents(x, c) : C # {} /\ \A q \in C : c[q].ppid \in C
<1> DEFINE N == Cardinality(DOMAIN c)
           a == Climb(x, c)
<1>1. /\ N \in Nat
      /\ \A n \in 0..N : a[n] = IF n = 0 THEN x.ppid
                                ELSE IF a[n - 1] \in DOMAIN c THEN c[a[n - 1]].ppid
                                ELSE a[n - 1]
  BY ClimbSteps
<1>2. a[N] \in DOMAIN c
  BY DEF ClimbEnds
<1>p. Parents(x, c) = {a[n] : n \in 0..N} \intersect DOMAIN c
  BY DEF Parents
<1>q. IsFiniteSet(DOMAIN c) /\ Cardinality(DOMAIN c) = N
  OBVIOUS
<1> HIDE DEF N, a
<1>3. \A n \in 0..N : a[n] \in DOMAIN c
  <2> SUFFICES ASSUME NEW n \in 0..N, a[n] \notin DOMAIN c PROVE FALSE
    OBVIOUS
  <2> DEFINE T == {k \in Nat : n + k <= N => a[n + k] = a[n]}
  <2>1. 0 \in T
    OBVIOUS
  <2>2. ASSUME NEW k \in 0..N, k < N, k \in T PROVE k + 1 \in T
    <3> SUFFICES ASSUME n + (k + 1) <= N PROVE a[n + (k + 1)] = a[n]
      OBVIOUS
    <3>1. n + (k + 1) \in 0..N /\ n + (k + 1) # 0 /\ (n + (k + 1)) - 1 = n + k
      BY <1>1
    <3>2. a[n + k] = a[n]
      BY <1>1, <2>2
    <3> QED
      BY <1>1, <3>1, <3>2
  <2>3. 0..N \subseteq T
    <3> HIDE DEF T
    <3> QED
      BY <1>1, <2>1, <2>2, UpTo
  <2>4. N - n \in 0..N /\ n + (N - n) = N
    BY <1>1
  <2> QED
    BY <1>1, <1>2, <2>3, <2>4
<1>4. PICK i, j \in 0..N : i < j /\ a[i] = a[j]
  <2> DEFINE f == [n \in 0..N |-> a[n]]
  <2>1. f \in [0..N -> DOMAIN c]
    BY <1>3
  <2>2. IsFiniteSet(0..N) /\ Cardinality(0..N) = N + 1
    <3>1. /\ IsFiniteSet(0..N)
          /\ Cardinality(0..N) = IF 0 > N THEN 0 ELSE N - 0 + 1
      <4>1. 0 \in Int /\ N \in Int
        BY <1>1
      <4> QED
        BY <4>1, FS_Interval
    <3> QED
      BY <1>1, <3>1
  <2>3. Cardinality(DOMAIN c) < Cardinality(0..N)
    BY <1>1, <1>q, <2>2
  <2>4. \E u, v \in 0..N : u # v /\ f[u] = f[v]
    <3> HIDE DEF f
    <3> QED
      BY <1>q, <2>1, <2>2, <2>3, FS_PigeonHole
  <2>5. PICK u, v \in 0..N : u # v /\ a[u] = a[v]
    BY <2>4
  <2>6. u < v \/ v < u
    BY <1>1, <2>5
  <2> QED
    BY <2>5, <2>6
<1> DEFINE C == {a[n] : n \in i..(j - 1)}
<1>5. C \subseteq Parents(x, c)
  <2>1. \A n \in i..(j - 1) : n \in 0..N
    BY <1>1
  <2> QED
    BY <1>3, <1>p, <2>1
<1>6. C # {}
  <2>1. i \in i..(j - 1)
    BY <1>4
  <2> QED
    BY <2>1
<1>7. ASSUME NEW q \in C PROVE c[q].ppid \in C
  <2>1. PICK n \in i..(j - 1) : q = a[n]
    OBVIOUS
  <2>2. n + 1 \in 0..N /\ n + 1 # 0 /\ (n + 1) - 1 = n /\ n \in 0..N
    BY <1>1
  <2>3. c[q].ppid = a[n + 1]
    BY <1>1, <1>3, <2>1, <2>2
  <2>4. CASE n + 1 \in i..(j - 1)
    BY <2>3, <2>4
  <2>5. CASE n + 1 \notin i..(j - 1)
    <3>1. n + 1 = j /\ i \in i..(j - 1)
      BY <1>4, <2>5
    <3> QED
      BY <1>4, <2>3, <3>1
  <2> QED
    BY <2>4, <2>5
<1> HIDE DEF C
<1> QED
  BY <1>5, <1>6, <1>7

\* The cache as parents sees it: None and no entry are the same to it.
Entries ==
    [p \in {q \in Pid : HasEntry(q)} |->
        [pid |-> p, ppid |-> cache[p].ppid, exe |-> cache[p].exe]]

ClimbsEndUnlessRecycled ==
    \A x \in [pid : Pid, ppid : Parent, exe : Exe] :
        ~ClimbEnds(x, Entries) => \E q \in Parents(x, Entries) : kern[q].inc > 1

\* Whatever handle is_child_of is asked about and whatever has become of the
\* processes the entries were read from, its loop ends on every table the cache
\* can hold, unless one of the parents it meets has a recycled pid.
THEOREM ClimbsEnd ==
    ASSUME IsFiniteSet(Pid)
    PROVE  Spec => []ClimbsEndUnlessRecycled
<1>1. TypeOK /\ NoCycleWithoutRecycling => ClimbsEndUnlessRecycled
  <2> SUFFICES ASSUME TypeOK, NoCycleWithoutRecycling,
                      NEW x \in [pid : Pid, ppid : Parent, exe : Exe],
                      ~ClimbEnds(x, Entries)
               PROVE  \E q \in Parents(x, Entries) : kern[q].inc > 1
    BY DEF ClimbsEndUnlessRecycled
  <2>1. /\ DOMAIN Entries = {q \in Pid : HasEntry(q)}
        /\ \A p \in DOMAIN Entries : Entries[p].ppid = cache[p].ppid
    BY DEF Entries
  <2>2. IsFiniteSet(DOMAIN Entries)
    BY <2>1, FS_Subset
  <2>3. \A p \in DOMAIN Entries : Entries[p].ppid \in Parent
    BY <2>1 DEF TypeOK, HasEntry, Entry
  <2>4. x.ppid \in Parent
    OBVIOUS
  <2>5. PICK C \in SUBSET Parents(x, Entries) :
            C # {} /\ \A q \in C : Entries[q].ppid \in C
    BY <2>2, <2>3, <2>4, EndlessClimb
  <2>6. C \subseteq DOMAIN Entries
    BY DEF Parents
  <2>7. C \in SUBSET Pid /\ GoesRound(C)
    BY <2>1, <2>5, <2>6 DEF GoesRound
  <2> QED
    BY <2>5, <2>7 DEF NoCycleWithoutRecycling
<1> QED
  BY <1>1, TypeCorrect, NoCycles, PTL

=============================================================================
