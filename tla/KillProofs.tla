----------------------------- MODULE KillProofs -----------------------------
(***************************************************************************)
(* Whom a signal reaches: proofs about ProcessHandle, the pidfd it is sent *)
(* through, and about OomKiller, which chooses its victim, for every set   *)
(* of pids, executables and callers and every bound on the incarnations.   *)
(*                                                                         *)
(* HandleOneProcess is not inductive: it speaks of finished handles only.  *)
(* The invariant HInv follows a handle through from_pid.  A pid's          *)
(* incarnation number only grows, so a pidfd opened after the directory    *)
(* is at least as young as the directory (PidfdYounger) and no younger     *)
(* than the pid's present process (DirOld, PidfdOld).  When "status" is    *)
(* then read through the directory, the directory's process still has the  *)
(* pid, which squeezes the pidfd between two equal numbers (SameFrom-      *)
(* Status): the order of the calls is what makes the handle coherent.      *)
(*                                                                         *)
(* The killer's invariants rest on the same growth (NotAhead: nothing it   *)
(* remembers is younger than the pid's present process), so that a victim  *)
(* that is gone stays gone, and on the lock it has while it scans          *)
(* (ScanFits), so that what passed the filters is what it chooses from     *)
(* (Chosen).                                                               *)
(***************************************************************************)
EXTENDS ProcessHandle, OomKiller, ProcessTableProofs

\* The descriptors of a call in progress never refer to the future.
DirOld(c) ==
    step[c] # "open" => hd[c].dir <= kern[hd[c].pid].inc

PidfdOld(c) ==
    step[c] \in {"status", "exe", "made"} =>
        hd[c].pidfd <= kern[hd[c].pid].inc

PidfdYounger(c) ==
    step[c] \in {"status", "exe", "made"} => hd[c].dir <= hd[c].pidfd

SameFromStatus(c) ==
    step[c] \in {"exe", "made"} => hd[c].dir = hd[c].pidfd

HInv ==
    \A c \in Caller :
        DirOld(c) /\ PidfdOld(c) /\ PidfdYounger(c) /\ SameFromStatus(c)

------------------------------------------------------------------------------
(* A call that succeeds, or fails, keeps the types.                         *)
LEMMA CallType ==
    ASSUME HandleTypeOK, UNCHANGED <<kern, killed>>, NEW c \in Caller,
           step[c] # "made",
           Fail(c) \/ \E h \in Handle : Advance(c, h)
    PROVE  HandleTypeOK'
<1>1. ASSUME NEW h \in Handle, Advance(c, h) PROVE HandleTypeOK'
  BY <1>1 DEF HandleTypeOK, Advance, After, Calls
<1>2. CASE Fail(c)
  BY <1>2 DEF HandleTypeOK, Fail, Calls
<1> QED
  BY <1>1, <1>2

(* Every step preserves the types.                                         *)
LEMMA HandleTypeStep == HandleTypeOK /\ [HandleNext]_handleVars => HandleTypeOK'
<1> SUFFICES ASSUME HandleTypeOK, [HandleNext]_handleVars PROVE HandleTypeOK'
  OBVIOUS
<1> USE DEF HandleTypeOK
<1>1. CASE Kernel
  BY <1>1, TableStep DEF Kernel, TableType
<1>2. ASSUME NEW c \in Caller, NEW p \in Pid, OpenDir(c, p)
      PROVE  HandleTypeOK'
  BY <1>2, ParentType, InitPidAssumption
  DEF OpenDir, Advance, Blank, Handle, After, Calls, Process
<1>3. ASSUME NEW c \in Caller, PidfdOpen(c)
      PROVE  HandleTypeOK'
  <2>1. hd[c] \in Handle /\ kern[hd[c].pid] \in Process
    BY DEF Handle
  <2>2. [hd[c] EXCEPT !.pidfd = kern[hd[c].pid].inc] \in Handle
    BY <2>1 DEF Handle, Process
  <2> QED
    BY <1>3, <2>2, CallType DEF PidfdOpen
<1>4. ASSUME NEW c \in Caller, ReadStatus(c)
      PROVE  HandleTypeOK'
  <2>1. hd[c] \in Handle /\ kern[hd[c].pid] \in Process
    BY DEF Handle
  <2>2. [hd[c] EXCEPT !.ppid = kern[hd[c].pid].ppid] \in Handle
    BY <2>1 DEF Handle, Process
  <2> QED
    BY <1>4, <2>2, CallType DEF ReadStatus
<1>5. ASSUME NEW c \in Caller, ReadExe(c)
      PROVE  HandleTypeOK'
  <2>1. hd[c] \in Handle /\ kern[hd[c].pid] \in Process
    BY DEF Handle
  <2>2. [hd[c] EXCEPT !.exe = kern[hd[c].pid].exe] \in Handle
    BY <2>1 DEF Handle, Process
  <2> QED
    BY <1>5, <2>2, CallType DEF ReadExe
<1>6. ASSUME NEW c \in Caller, DropHandle(c)
      PROVE  HandleTypeOK'
  BY <1>6 DEF DropHandle, Calls
<1>7. ASSUME NEW c \in Caller, KillTarget(c)
      PROVE  HandleTypeOK'
  <2>1. hd[c] \in Handle
    BY DEF KillTarget
  <2>2. kern' \in [Pid -> Process]
    BY <1>7, <2>1, DiedType DEF KillTarget, Handle, TableType
  <2>3. \A i \in SignalTarget(hd[c]) :
          [pid |-> hd[c].pid, inc |-> i, dir |-> hd[c].dir]
             \in [pid : Pid, inc : Nat, dir : Nat]
    BY <2>1 DEF SignalTarget, Handle
  <2> QED
    BY <1>7, <2>2, <2>3 DEF KillTarget
<1>8. CASE UNCHANGED handleVars
  BY <1>8 DEF handleVars
<1> QED
  BY <1>1, <1>2, <1>3, <1>4, <1>5, <1>6, <1>7, <1>8 DEF HandleNext, FromPid

(* The types of the four variables hold in every reachable state.          *)
THEOREM HandleTypeCorrect == HandleSpec => []HandleTypeOK
<1>1. HandleInit => HandleTypeOK
  BY InitPidAssumption, TableInitType, ParentType
  DEF HandleInit, HandleTypeOK, TableType, Process, Calls, Handle, Blank
<1> QED
  BY <1>1, HandleTypeStep, PTL DEF HandleSpec

(* HInv is inductive relative to HandleTypeOK.                                   *)
LEMMA HInvStep == HandleTypeOK /\ HInv /\ [HandleNext]_handleVars => HInv'
<1> SUFFICES ASSUME HandleTypeOK, HInv, [HandleNext]_handleVars, NEW b \in Caller
             PROVE  (DirOld(b) /\ PidfdOld(b) /\ PidfdYounger(b)
                        /\ SameFromStatus(b))'
  BY DEF HInv
<1> DEFINE Inv(c) ==
        DirOld(c) /\ PidfdOld(c) /\ PidfdYounger(c) /\ SameFromStatus(c)
<1>0. Inv(b)
  BY DEF HInv
<1> USE DEF DirOld, PidfdOld, PidfdYounger, SameFromStatus
<1>1. CASE Kernel
  BY <1>0, <1>1, TableStep DEF Kernel, HandleTypeOK, TableType, Process, Handle
<1>2. ASSUME NEW c \in Caller, FromPid(c)
      PROVE  Inv(b)'
  <2> USE DEF HandleTypeOK, Handle, Process, Calls, After
  <2>1. ASSUME NEW p \in Pid, OpenDir(c, p)
        PROVE  Inv(b)'
    BY <1>0, <2>1 DEF OpenDir, Advance, Blank
  <2>2. CASE PidfdOpen(c)
    BY <1>0, <2>2 DEF PidfdOpen, Advance, Fail
  <2>3. CASE ReadStatus(c)
    <3>1. hd[c] \in Handle /\ hd[b] \in Handle /\ kern[hd[c].pid] \in Process
      OBVIOUS
    <3> QED
      BY <1>0, <2>3, <3>1 DEF ReadStatus, Advance, Fail, DirAlive
  <2>4. CASE ReadExe(c)
    BY <1>0, <2>4 DEF ReadExe, Advance, Fail
  <2>5. CASE DropHandle(c)
    BY <1>0, <2>5 DEF DropHandle
  <2>6. CASE KillTarget(c)
    <3>1. \A q \in Pid : kern'[q].inc = kern[q].inc
      BY <2>6, DiedType DEF KillTarget, TableType
    <3> QED
      BY <1>0, <2>6, <3>1 DEF KillTarget
  <2> QED
    BY <1>2, <2>1, <2>2, <2>3, <2>4, <2>5, <2>6 DEF FromPid
<1>3. CASE UNCHANGED handleVars
  BY <1>0, <1>3 DEF handleVars
<1> QED
  BY <1>1, <1>2, <1>3 DEF HandleNext

(* HInv holds in every reachable state.                                    *)
LEMMA HInvCorrect == HandleSpec => []HInv
<1>1. HandleInit => HInv
  BY DEF HandleInit, HInv, DirOld, PidfdOld, PidfdYounger, SameFromStatus
<1> QED
  BY <1>1, HInvStep, HandleTypeCorrect, PTL DEF HandleSpec

(* A finished handle's directory descriptor and pidfd are one process.     *)
THEOREM OneProcess == HandleSpec => []HandleOneProcess
<1>1. HInv => HandleOneProcess
  BY DEF HInv, SameFromStatus, HandleOneProcess
<1> QED
  BY <1>1, HInvCorrect, PTL

(* A signal sent through a handle only ever hits the process whose files   *)
(* were read through that handle.                                          *)
THEOREM KillsAreAimed == HandleSpec => []KillHitsProcessRead
<1>1. HandleInit => KillHitsProcessRead
  BY DEF HandleInit, KillHitsProcessRead
<1>2. HandleTypeOK /\ HandleOneProcess /\ KillHitsProcessRead /\ [HandleNext]_handleVars
        => KillHitsProcessRead'
  <2> SUFFICES ASSUME HandleTypeOK, HandleOneProcess, KillHitsProcessRead,
                      [HandleNext]_handleVars
               PROVE  KillHitsProcessRead'
    OBVIOUS
  <2>1. ASSUME NEW c \in Caller, KillTarget(c)
        PROVE  KillHitsProcessRead'
    BY <2>1 DEF KillTarget, SignalTarget, HandleOneProcess,
                KillHitsProcessRead
  <2>2. CASE UNCHANGED killed
    BY <2>2 DEF KillHitsProcessRead
  <2> QED
    BY <2>1, <2>2
    DEF HandleNext, Kernel, FromPid, OpenDir, PidfdOpen, ReadStatus, ReadExe,
        DropHandle, handleVars
<1> QED
  BY <1>1, <1>2, OneProcess, HandleTypeCorrect, PTL DEF HandleSpec

------------------------------------------------------------------------------
(* The killer.                                                              *)

Victim == [pid : Pid, inc : Nat, exe : Exe]

Measured == [pid : Pid, inc : Nat, exe : Exe, size : 0..2]

\* What the thread remembers of a pid is not ahead of the kernel.
NotAhead ==
    /\ \A p \in Pid : cache[p] # Absent => cache[p].inc <= kern[p].inc
    /\ best # Absent => best.inc <= kern[best.pid].inc
    /\ target # Absent => target.inc <= kern[target.pid].inc

\* While it scans it has the cache, and every candidate still passes the
\* filters it has passed.
ScanFits ==
    IF pc = "scan"
    THEN /\ locked
         /\ \A p \in todo \union ({open} \ {0}) :
                cache[p] # Absent /\ ~IsCritical(p, cache[p])
    ELSE open = 0

MayDie(v) == v.pid = SelfPid \/ v.exe \notin CriticalExe

\* Whoever is chosen has passed them too.
Chosen ==
    /\ best # Absent => MayDie(best)
    /\ pc \in {"kill", "spin"} => target \in Victim /\ MayDie(target)

\* A signal keeps the types of the table and changes no incarnation number,
\* and no number becomes free or taken by it.
LEMMA StrikeStep ==
    ASSUME TypeOK, Strike, target \in Victim
    PROVE  /\ kern' \in [Pid -> Process]
           /\ \A q \in Pid : /\ kern'[q].inc = kern[q].inc
                             /\ kern'[q].st = "free" <=> kern[q].st = "free"
                             /\ q # target.pid => kern'[q].st = kern[q].st
<1>1. target.pid \in Pid /\ TableType
  BY DEF Victim, TypeOK, TableType
<1>2. CASE kern' = kern
  BY <1>1, <1>2 DEF TableType
<1>3. CASE kern[target.pid].st = "run" /\ kern' = Died(kern, target.pid)
  BY <1>1, <1>3, DiedType, DiedStates
<1> QED
  BY <1>2, <1>3 DEF Strike

\* What a candidate is remembered by.
LEMMA ConsiderType ==
    ASSUME TypeOK, NEW p \in Pid, NEW size \in 0..2, cache[p] # Absent,
           Consider(p, size)
    PROVE  \/ best' = best
           \/ /\ best' \in Measured
              /\ best'.pid = p /\ best'.inc = cache[p].inc
              /\ best'.exe = cache[p].exe
<1>1. cache[p] \in [inc : Nat, exe : Exe]
  BY DEF TypeOK
<1> QED
  BY <1>1 DEF Consider, Measured

(* Every step of the killer and of the world around it keeps the types.     *)
LEMMA KillerTypeStep ==
    TypeOK /\ ScanFits /\ Chosen /\ [Next]_vars => TypeOK'
<1> SUFFICES ASSUME TypeOK, ScanFits, Chosen, [Next]_vars PROVE TypeOK'
  OBVIOUS
<1>0. Pid \subseteq Nat \ {0}
  BY InitPidAssumption
<1>1. CASE Processes
  <2>1. kern' \in [Pid -> Process]
    BY <1>1, TableStep DEF Processes, TypeOK, TableType
  <2> QED
    BY <1>1, <2>1 DEF Processes, TypeOK, psiVars, scanVars, killVars
<1>2. CASE Pressure
  BY <1>2 DEF Pressure, TypeOK, scanVars, killVars
<1>3. ASSUME NEW p \in Pid, CacheChange(p) PROVE TypeOK'
  <2>1. kern[p].inc \in Nat /\ kern[p].exe \in Exe
    BY DEF TypeOK, Process
  <2>2. cache' \in [Pid -> [inc : Nat, exe : Exe] \union {Absent}]
    BY <1>3, <2>1 DEF CacheChange, TypeOK
  <2> QED
    BY <1>3, <2>2 DEF CacheChange, TypeOK, psiVars, scanVars, killVars
<1>4. CASE ReadBefore
  BY <1>4 DEF ReadBefore, Step, TypeOK, psiVars, scanVars, killVars
<1>5. CASE Wait
  BY <1>5 DEF Wait, Step, TypeOK, psiVars, scanVars, killVars
<1>6. CASE ReadAfter
  BY <1>6 DEF ReadAfter, Step, TypeOK, psiVars, scanVars, killVars
<1>7. CASE Measure
  BY <1>7 DEF Measure, Step, TypeOK, psiVars, scanVars, killVars
<1>8. CASE Lock
  BY <1>8 DEF Lock, Candidates, Step, TypeOK, psiVars, scanVars, killVars
<1>9. ASSUME NEW p \in Pid, ScanOpen(p) PROVE TypeOK'
  <2>1. cache[p] # Absent
    BY <1>9 DEF ScanOpen, ScanFits
  <2>2. best' \in {Absent} \union Measured
    BY <1>9, <2>1, ConsiderType DEF ScanOpen, TypeOK, Measured
  <2>3. open' \in Pid \union {0}
    BY <1>9 DEF ScanOpen, TypeOK
  <2> QED
    BY <1>9, <2>2, <2>3
    DEF ScanOpen, TypeOK, Measured, psiVars, scanVars, killVars
<1>10. CASE ScanRead
  <2>1. open \in Pid /\ cache[open] # Absent
    BY <1>10 DEF ScanRead, ScanFits, TypeOK
  <2>2. best' \in {Absent} \union Measured
    BY <1>10, <2>1, ConsiderType DEF ScanRead, TypeOK, Measured
  <2> QED
    BY <1>10, <2>2
    DEF ScanRead, TypeOK, Measured, psiVars, scanVars, killVars
<1>11. CASE Choose
  <2>1. best # Absent => best.pid \in Pid /\ best.inc \in Nat /\ best.exe \in Exe
    BY DEF TypeOK
  <2>2. target' \in {Absent} \union [pid : Pid, inc : Nat, exe : Exe]
    BY <1>11, <2>1 DEF Choose, TypeOK, killVars
  <2>3. gaveUp' \in BOOLEAN
    BY <1>11 DEF Choose, TypeOK, killVars
  <2> QED
    BY <1>11, <2>2, <2>3 DEF Choose, TypeOK, psiVars
<1>12. CASE Kill
  <2>1. kern' \in [Pid -> Process]
    BY <1>12, StrikeStep DEF Kill, Step, Chosen
  <2> QED
    BY <1>12, <2>1 DEF Kill, Step, TypeOK, psiVars, scanVars, killVars
<1>13. CASE Spin
  <2>1. kern' \in [Pid -> Process]
    BY <1>13, StrikeStep DEF Spin, Step, Chosen
  <2> QED
    BY <1>13, <2>1 DEF Spin, Step, TypeOK, psiVars, scanVars, killVars
<1>14. CASE GiveUp
  BY <1>14 DEF GiveUp, Step, TypeOK, psiVars, scanVars, killVars
<1>15. CASE UNCHANGED vars
  BY <1>15 DEF vars, TypeOK, psiVars, scanVars, killVars
<1> QED
  BY <1>1, <1>2, <1>3, <1>4, <1>5, <1>6, <1>7, <1>8, <1>9, <1>10, <1>11,
     <1>12, <1>13, <1>14, <1>15 DEF Next, OwnStep

(* The same for what is remembered of a pid.                                *)
LEMMA NotAheadStep ==
    TypeOK /\ NotAhead /\ ScanFits /\ Chosen /\ [Next]_vars => NotAhead'
<1> SUFFICES ASSUME TypeOK, NotAhead, ScanFits, Chosen, [Next]_vars
             PROVE  NotAhead'
  OBVIOUS
<1>0. /\ \A q \in Pid : kern[q].inc \in Nat
      /\ \A p \in Pid : cache[p] # Absent => cache[p].inc \in Nat
      /\ best # Absent => best.pid \in Pid /\ best.inc \in Nat
      /\ target # Absent => target.pid \in Pid /\ target.inc \in Nat
  BY DEF TypeOK, Process
<1>1. ASSUME UNCHANGED <<cache, best, target>>, \A q \in Pid : kern'[q].inc \in Nat,
             \A q \in Pid : kern[q].inc <= kern'[q].inc
      PROVE  NotAhead'
  BY <1>0, <1>1 DEF NotAhead
<1>2. CASE Processes
  BY <1>1, <1>2, TableStep
  DEF Processes, TypeOK, TableType, scanVars, killVars
<1>3. CASE UNCHANGED <<kern, cache, best, target>>
  BY <1>0, <1>1, <1>3
<1>4. ASSUME NEW p \in Pid, CacheChange(p) PROVE NotAhead'
  BY <1>0, <1>4 DEF CacheChange, NotAhead, TypeOK, scanVars, killVars
<1>5. ASSUME NEW p \in Pid, ScanOpen(p) PROVE NotAhead'
  <2>1. cache[p] # Absent
    BY <1>5 DEF ScanOpen, ScanFits
  <2>2. best' = best \/ (best'.pid = p /\ best'.inc = cache[p].inc)
    BY <1>5, <2>1, ConsiderType DEF ScanOpen
  <2> QED
    BY <1>5, <2>1, <2>2 DEF ScanOpen, NotAhead, killVars
<1>6. CASE ScanRead
  <2>1. open \in Pid /\ cache[open] # Absent
    BY <1>6 DEF ScanRead, ScanFits, TypeOK
  <2>2. best' = best \/ (best'.pid = open /\ best'.inc = cache[open].inc)
    BY <1>6, <2>1, ConsiderType DEF ScanRead
  <2> QED
    BY <1>6, <2>1, <2>2 DEF ScanRead, NotAhead, killVars
<1>7. CASE Choose
  BY <1>7 DEF Choose, NotAhead, killVars
<1>8. CASE Kill \/ Spin
  <2>1. Strike /\ target \in Victim
    BY <1>8 DEF Kill, Spin, Step, Chosen
  <2>2. \A q \in Pid : kern'[q].inc = kern[q].inc
    BY <2>1, StrikeStep
  <2> QED
    BY <1>0, <1>1, <1>8, <2>2 DEF Kill, Spin, scanVars, killVars
<1>9. CASE Pressure \/ ReadBefore \/ Wait \/ ReadAfter \/ Measure \/ Lock \/ GiveUp
  BY <1>3, <1>9
  DEF Pressure, ReadBefore, Wait, ReadAfter, Measure, Lock, GiveUp, scanVars,
      killVars
<1>10. CASE UNCHANGED vars
  BY <1>3, <1>10 DEF vars, scanVars, killVars
<1> QED
  BY <1>2, <1>4, <1>5, <1>6, <1>7, <1>8, <1>9, <1>10 DEF Next, OwnStep

(* Candidates stay what they were while the cache is locked.                *)
LEMMA ScanFitsStep == TypeOK /\ ScanFits /\ [Next]_vars => ScanFits'
<1> SUFFICES ASSUME TypeOK, ScanFits, [Next]_vars PROVE ScanFits'
  OBVIOUS
<1>0. Pid \subseteq Nat \ {0}
  BY InitPidAssumption
<1>1. ASSUME UNCHANGED <<pc, locked, todo, open, cache>> PROVE ScanFits'
  BY <1>1 DEF ScanFits, IsCritical
<1>2. CASE Processes \/ Pressure \/ UNCHANGED vars
  BY <1>1, <1>2 DEF Processes, Pressure, vars, scanVars
<1>3. ASSUME NEW p \in Pid, CacheChange(p) PROVE ScanFits'
  BY <1>3 DEF CacheChange, ScanFits, scanVars
<1>4. CASE ReadBefore \/ Wait \/ ReadAfter \/ Measure \/ Kill \/ Spin \/ GiveUp
  BY <1>4
  DEF ReadBefore, Wait, ReadAfter, Measure, Kill, Spin, GiveUp, Step, ScanFits,
      scanVars
<1>5. CASE Lock
  BY <1>5 DEF Lock, Step, Candidates, ScanFits, IsCritical
<1>6. ASSUME NEW p \in Pid, ScanOpen(p) PROVE ScanFits'
  <2>1. todo' \union ({open'} \ {0}) \subseteq todo \union ({open} \ {0})
    BY <1>6 DEF ScanOpen
  <2> QED
    BY <1>6, <2>1 DEF ScanOpen, ScanFits, IsCritical
<1>7. CASE ScanRead
  BY <1>7 DEF ScanRead, ScanFits, IsCritical
<1>8. CASE Choose
  BY <1>8 DEF Choose, ScanFits
<1> QED
  BY <1>2, <1>3, <1>4, <1>5, <1>6, <1>7, <1>8 DEF Next, OwnStep

(* Nobody is chosen who was filtered out.                                   *)
LEMMA ChosenStep == TypeOK /\ ScanFits /\ Chosen /\ [Next]_vars => Chosen'
<1> SUFFICES ASSUME TypeOK, ScanFits, Chosen, [Next]_vars PROVE Chosen'
  OBVIOUS
<1>1. ASSUME UNCHANGED <<best, target>>, pc' \in {"kill", "spin"} => pc \in {"kill", "spin"}
      PROVE  Chosen'
  BY <1>1 DEF Chosen, MayDie
<1>2. CASE Processes \/ Pressure \/ UNCHANGED vars
  BY <1>1, <1>2 DEF Processes, Pressure, vars, scanVars, killVars
<1>3. ASSUME NEW p \in Pid, CacheChange(p) PROVE Chosen'
  BY <1>1, <1>3 DEF CacheChange, scanVars, killVars
<1>4. CASE ReadBefore \/ Wait \/ ReadAfter \/ Measure \/ Lock
  BY <1>1, <1>4
  DEF ReadBefore, Wait, ReadAfter, Measure, Lock, Step, scanVars, killVars
<1>5. CASE Kill \/ Spin \/ GiveUp
  BY <1>1, <1>5 DEF Kill, Spin, GiveUp, Step, scanVars, killVars
<1>6. ASSUME NEW p \in todo \union ({open} \ {0}), pc = "scan",
             NEW size \in 0..2, Consider(p, size), UNCHANGED target,
             pc' \in {"scan", "dead"}
      PROVE  Chosen'
  <2>1. p \in Pid /\ cache[p] # Absent /\ ~IsCritical(p, cache[p])
    BY <1>6 DEF ScanFits, TypeOK
  <2>2. p = SelfPid \/ cache[p].exe \notin CriticalExe
    BY <2>1 DEF IsCritical
  <2>3. best' = best \/ (best'.pid = p /\ best'.exe = cache[p].exe)
    BY <1>6, <2>1, ConsiderType
  <2> QED
    BY <1>6, <2>2, <2>3 DEF Chosen, MayDie
<1>7. ASSUME NEW p \in Pid, ScanOpen(p) PROVE Chosen'
  <2>1. CASE UNCHANGED best
    BY <1>1, <1>7, <2>1 DEF ScanOpen, killVars
  <2>2. CASE Consider(p, 0)
    BY <1>6, <1>7, <2>2 DEF ScanOpen, killVars
  <2> QED
    BY <1>7, <2>1, <2>2 DEF ScanOpen
<1>8. CASE ScanRead
  <2>1. CASE UNCHANGED best
    BY <1>1, <1>8, <2>1 DEF ScanRead, killVars
  <2>2. ASSUME NEW size \in 0..2, Consider(open, size), UNCHANGED pc
        PROVE  Chosen'
    BY <1>6, <1>8, <2>2 DEF ScanRead, killVars
  <2> QED
    BY <1>8, <2>1, <2>2 DEF ScanRead
<1>9. CASE Choose
  <2>1. CASE best # Absent /\ lowSeen
    <3>1. best \in Measured /\ MayDie(best)
      BY <2>1 DEF TypeOK, Measured, Chosen
    <3>2. target' = [pid |-> best.pid, inc |-> best.inc, exe |-> best.exe]
          /\ best' = Absent
      BY <1>9, <2>1 DEF Choose
    <3>3. target' \in Victim /\ MayDie(target')
      BY <3>1, <3>2 DEF Measured, Victim, MayDie
    <3> QED
      BY <3>2, <3>3 DEF Chosen, MayDie
  <2>2. CASE ~(best # Absent /\ lowSeen)
    BY <1>9, <2>2 DEF Choose, Chosen
  <2> QED
    BY <2>1, <2>2
<1> QED
  BY <1>2, <1>3, <1>4, <1>5, <1>7, <1>8, <1>9 DEF Next, OwnStep

(* What is gone stays gone.                                                 *)
LEMMA OneVictimStep ==
    TypeOK /\ NotAhead /\ Chosen /\ OneVictimAtATime /\ [Next]_vars
        => OneVictimAtATime'
<1> SUFFICES ASSUME TypeOK, NotAhead, Chosen, OneVictimAtATime, [Next]_vars
             PROVE  OneVictimAtATime'
  OBVIOUS
<1>1. ASSUME UNCHANGED <<kern, target, gaveUp>>,
             pc' \in {"kill", "spin", "dead"} \/ pc \notin {"kill", "spin", "dead"}
      PROVE  OneVictimAtATime'
  BY <1>1 DEF OneVictimAtATime, Exists
<1>2. CASE Processes
  <2>1. TableType /\ TableNext /\ UNCHANGED <<pc, target, gaveUp>>
    BY <1>2 DEF Processes, TypeOK, TableType, killVars
  <2>2. ASSUME target # Absent, ~Exists(target.pid, target.inc)
        PROVE  ~Exists(target.pid, target.inc)'
    <3>1. target.pid \in Pid /\ target.inc <= kern[target.pid].inc /\ target.inc \in Nat
      BY <2>2 DEF TypeOK, NotAhead
    <3>2. kern[target.pid].inc <= kern'[target.pid].inc
          /\ kern[target.pid].inc \in Nat /\ kern'[target.pid].inc \in Nat
      BY <2>1, <3>1, TableStep
    <3>3. CASE kern[target.pid].inc # target.inc
      BY <2>1, <3>1, <3>2, <3>3 DEF Exists
    <3>4. CASE kern[target.pid].st = "free"
      BY <2>1, <3>1, <3>2, <3>4, FreeStays DEF Exists
    <3> QED
      BY <2>2, <3>3, <3>4 DEF Exists
  <2> QED
    BY <2>1, <2>2 DEF OneVictimAtATime
<1>3. CASE Pressure \/ ReadBefore \/ Wait \/ ReadAfter \/ Measure \/ Lock
  BY <1>1, <1>3
  DEF Pressure, ReadBefore, Wait, ReadAfter, Measure, Lock, Step, killVars
<1>4. ASSUME NEW p \in Pid, CacheChange(p) \/ ScanOpen(p)
      PROVE  OneVictimAtATime'
  BY <1>1, <1>4 DEF CacheChange, ScanOpen, killVars
<1>5. CASE ScanRead
  BY <1>1, <1>5 DEF ScanRead, killVars
<1>6. CASE Choose
  <2>1. CASE best # Absent /\ lowSeen
    BY <1>6, <2>1 DEF Choose, OneVictimAtATime
  <2>2. CASE ~(best # Absent /\ lowSeen)
    BY <1>1, <1>6, <2>2 DEF Choose, killVars
  <2> QED
    BY <2>1, <2>2
<1>7. CASE Kill
  BY <1>7 DEF Kill, Step, OneVictimAtATime
<1>8. CASE Spin
  <2>1. CASE Exists(target.pid, target.inc)
    BY <1>8, <2>1 DEF Spin, Step, OneVictimAtATime
  <2>2. CASE ~Exists(target.pid, target.inc)
    <3>1. kern' = kern /\ UNCHANGED target
      BY <1>8, <2>2 DEF Spin, Strike, killVars
    <3> QED
      BY <2>2, <3>1 DEF Exists, OneVictimAtATime
  <2> QED
    BY <2>1, <2>2
<1>9. CASE GiveUp
  BY <1>9 DEF GiveUp, OneVictimAtATime
<1>10. CASE UNCHANGED vars
  BY <1>1, <1>10 DEF vars, killVars
<1> QED
  BY <1>2, <1>3, <1>4, <1>5, <1>6, <1>7, <1>8, <1>9, <1>10 DEF Next, OwnStep

IInv == TypeOK /\ NotAhead /\ ScanFits /\ Chosen /\ OneVictimAtATime

LEMMA KillerInit == Init => IInv
<1> SUFFICES ASSUME Init PROVE IInv
  OBVIOUS
<1>1. TypeOK
  BY TableInitType DEF Init, TypeOK, TableType
<1> QED
  BY <1>1 DEF Init, IInv, NotAhead, ScanFits, Chosen, OneVictimAtATime

LEMMA KillerInvariant == Spec => []IInv
<1>1. IInv /\ [Next]_vars => IInv'
  BY KillerTypeStep, NotAheadStep, ScanFitsStep, ChosenStep, OneVictimStep
  DEF IInv
<1> QED
  BY <1>1, KillerInit, PTL DEF Spec

(* The variables of the killer keep their types.                            *)
THEOREM TypeCorrect == Spec => []TypeOK
<1>1. IInv => TypeOK
  BY DEF IInv
<1> QED
  BY <1>1, KillerInvariant, PTL

(* Before the killer looks for its next victim the last one is gone, or was *)
(* given up, whatever has become of its pid since (main.rs:660-669).        *)
THEOREM OneVictim == Spec => []OneVictimAtATime
<1>1. IInv => OneVictimAtATime
  BY DEF IInv
<1> QED
  BY <1>1, KillerInvariant, PTL

(* A process that runs a critical executable is struck only if the cache    *)
(* took it for another one when it was chosen (main.rs:623).                *)
THEOREM CriticalAreSpared == Spec => CriticalSpared
<1> DEFINE Spared ==
        Kill \/ Spin =>
            \A p \in Pid \ {SelfPid} :
                /\ kern[p].st = "run" /\ kern'[p].st # "run"
                /\ kern[p].exe \in CriticalExe
                => target.exe # kern[p].exe
<1>1. IInv /\ [Next]_vars => Spared
  <2> SUFFICES ASSUME IInv, Kill \/ Spin, NEW p \in Pid \ {SelfPid},
                      kern[p].st = "run", kern'[p].st # "run",
                      kern[p].exe \in CriticalExe
               PROVE  target.exe # kern[p].exe
    OBVIOUS
  <2>1. TypeOK /\ Strike /\ target \in Victim /\ MayDie(target)
    BY DEF IInv, Kill, Spin, Step, Chosen
  <2>2. p = target.pid
    BY <2>1, StrikeStep
  <2> QED
    BY <2>1, <2>2 DEF MayDie
<1>2. (Spec => [][Spared]_vars) => (Spec => CriticalSpared)
  BY DEF CriticalSpared
<1> QED
  BY <1>1, <1>2, KillerInvariant, PTL DEF Spec

==============================================================================
