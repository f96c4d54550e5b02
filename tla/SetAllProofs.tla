----------------------------- MODULE SetAllProofs -----------------------------
(***************************************************************************)
(* set_all for any processes with any number of threads, however often     *)
(* their numbers are recycled and whichever calls fail: a sweep changes    *)
(* nobody else's threads, leaves none of its own half done, and cleanup    *)
(* has put back what it says it has.                                       *)
(***************************************************************************)
EXTENDS SetAll, TLAPS

USE DEF At

\* What a sweep still has to do with attributes a, for class c, when the call
\* named by s is the next one.
OnTheWay(a, c, s) ==
    CASE s \in {"nice", "sched"} -> TRUE
      [] s = "limits" -> c \in {"realtime", "excluded"}
      [] s = "group" -> \/ c = "excluded"
                        \/ c = "realtime" /\ Conforms(a, c)
      [] s = "again" -> \/ c \in {"excluded", "excludedNormal"}
                        \/ c = "realtime" /\ Conforms(a, c)
      [] OTHER -> Conforms(a, c)

\* The calls each class makes.
StepFits ==
    tid # NoTid =>
        CASE class = "realtime" -> step \in {"limits", "nice", "sched", "group", "again"}
          [] class = "excluded" -> step \in {"limits", "group", "again"}
          [] class = "excludedNormal" -> step = "again"
          [] OTHER -> step \in {"nice", "sched"}

\* A number belongs to a process or is free.
Owned ==
    \A t \in Tid : IF Exists(t) THEN task[t].proc \in Proc ELSE task[t] = FreeTask

\* Only a process below a critical one is swept, and only during a sweep is
\* there a list.
Swept ==
    /\ \A p \in todo : want[p] # "none"
    /\ \A p \in snap : want[p] # "none"
    /\ cur = NoProc => list = {} /\ tid = NoTid
    /\ phase = "exited" => cur = NoProc /\ todo = {}

Target(p) == IF want[p] = "excluded" THEN "excludedNormal" ELSE "normal"

\* A number on the list is cur's, or free, or was handed out since.
OwnList ==
    cur # NoProc =>
        \A t \in Tid : t \in list \/ t = tid =>
            task[t].proc = cur \/ task[t].st = "free" \/ t \in reborn

\* A thread of cur that has been there all along is still to come, or is
\* being changed, or has what it should have.
Progress ==
    cur # NoProc /\ cur \notin unlisted =>
        \A t \in Tid : task[t].proc = cur /\ t \notin reborn =>
            \/ t \in list
            \/ t = tid /\ OnTheWay(task[t].attr, class, step)
            \/ t # tid /\ Conforms(task[t].attr, class)

\* cleanup puts back to normal, and what it has put back stays so.
PutBack ==
    phase # "up" =>
        /\ cur # NoProc => class = Target(cur)
        /\ ~failed => \A p \in snap :
            \/ p \in todo \/ p = cur
            \/ Threads(p) # {} =>
                /\ group[p] = 0
                /\ p \notin unlisted =>
                    \A t \in Threads(p) \ reborn : Conforms(task[t].attr, Target(p))

IInv == TypeOK /\ Owned /\ Swept /\ StepFits /\ OwnList /\ Progress /\ PutBack

------------------------------------------------------------------------------
(* Types.                                                                   *)

LEMMA ConstantsType ==
    /\ Leader \in [Proc -> Tid] /\ NoProc \notin Proc /\ NoTid \notin Tid
    /\ FirstWant \subseteq FirstWants
  BY LeaderAssumption, NoneAssumption, WantAssumption

LEMMA FreeTaskType == FreeTask \in Task /\ Untouched \in Attr
  BY DEF FreeTask, Task, Attr, Untouched, Policies, Nices

\* What the kernel and the calls make of attributes.
LEMMA AttrType ==
    ASSUME NEW a \in Attr, NEW c \in Class, NEW r \in BOOLEAN
    PROVE  /\ Inherited(a) \in Attr
           /\ NiceOf(c) \in Nices /\ PolicyOf(c) \in Policies
           /\ [a EXCEPT !.nice = NiceOf(c)] \in Attr
           /\ SetScheduler(a, PolicyOf(c), NiceOf(c), r) \in Attr
<1>1. NiceOf(c) \in Nices /\ PolicyOf(c) \in Policies
  BY DEF NiceOf, PolicyOf, Class, Nices, Policies
<1>2. Inherited(a) \in Attr
  BY DEF Inherited, Attr, Policies, Nices, REALTIME_NICE, BOOST_NICE, LOW_PRIORITY_NICE
<1> QED
  BY <1>1, <1>2 DEF Attr, SetScheduler

LEMMA InitType == Init => TypeOK
<1> SUFFICES ASSUME Init PROVE TypeOK
  OBVIOUS
<1>1. \A t \in Tid : task[t] \in Task
  <2> SUFFICES ASSUME NEW t \in Tid PROVE task[t] \in Task
    OBVIOUS
  <2>1. CASE \E p \in Proc : t \in FirstTids[p]
    <3>1. (CHOOSE p \in Proc : t \in FirstTids[p]) \in Proc
      BY <2>1
    <3> QED
      BY <2>1, <3>1, FreeTaskType DEF Init, Task
  <2>2. CASE ~\E p \in Proc : t \in FirstTids[p]
    BY <2>2, FreeTaskType DEF Init
  <2> QED
    BY <2>1, <2>2
<1>2. task \in [Tid -> Task]
  BY <1>1 DEF Init
<1> QED
  BY <1>2, ConstantsType, BudgetAssumption DEF Init, TypeOK, Nices, Class

LEMMA SpendType == ASSUME TypeOK, NEW k \in Kinds, Spend(k) PROVE left' \in [Kinds -> Nat]
  BY DEF TypeOK, Spend

LEMMA NextType == TypeOK /\ Owned /\ Swept /\ [Next]_vars => TypeOK'
<1> SUFFICES ASSUME TypeOK, Owned, Swept, [Next]_vars PROVE TypeOK'
  OBVIOUS
<1> USE ConstantsType DEF TypeOK, sweepVars, sweepFrame
<1>1. ASSUME NEW t \in Tid, End(t) PROVE TypeOK'
  <2>1. \A u \in Tid : task'[u] \in Task
    BY <1>1, FreeTaskType DEF End, Task
  <2>2. task' \in [Tid -> Task]
    BY <1>1, <2>1 DEF End
  <2> QED
    BY <1>1, <2>2, SpendType DEF End, Kinds
<1>2. ASSUME NEW t \in Tid, NEW u \in Tid, Clone(t, u) PROVE TypeOK'
  <2>1. Inherited(task[t].attr) \in Attr /\ task[t].proc \in Proc \union {NoProc}
    BY AttrType DEF Task
  <2>2. task' \in [Tid -> Task]
    BY <1>2, <2>1 DEF Clone, Task
  <2> QED
    BY <1>2, <2>2, SpendType DEF Clone, Kinds
<1>3. CASE Refresh
  BY <1>3 DEF Refresh, kernelVars
<1>4. CASE Stop
  BY <1>4, SpendType DEF Stop, kernelVars, Kinds
<1>5. CASE Exit
  BY <1>5 DEF Exit, kernelVars
<1>6. CASE SweepStep
  <2>1. ASSUME NEW p \in Proc, Begin(p) \/ BeginUnlisted(p) PROVE TypeOK'
    <3>1. class' \in Class
      <4>1. want[p] \in Class
        BY <2>1 DEF Begin, BeginUnlisted, Opened, Swept, FirstWants
      <4> QED
        BY <2>1, <4>1 DEF Begin, BeginUnlisted, Opened, Class
    <3>2. CASE Begin(p)
      BY <3>1, <3>2 DEF Begin, Opened, UnlistedBefore, Listed, Threads, kernelVars
    <3>3. CASE BeginUnlisted(p)
      BY <3>1, <3>3, SpendType DEF BeginUnlisted, Opened, UnlistedBefore, kernelVars, Kinds
    <3> QED
      BY <2>1, <3>2, <3>3
  <2>2. ASSUME NEW t \in Tid, Pick(t) PROVE TypeOK'
    BY <2>2 DEF Pick, FirstCall, kernelVars
  <2>3. CASE LiftLimits \/ SetGroup \/ SetNice \/ SetSched
    <3>1. UNCHANGED <<todo, cur, class, list, failed, unlisted, reborn, want, cached,
                      phase, snap>>
      BY <2>3 DEF LiftLimits, SetGroup, SetNice, SetSched, SetAttr, Advance
    <3>2. step' \in {"limits", "nice", "sched", "group", "again", "done"}
      BY <2>3 DEF LiftLimits, SetGroup, SetNice, SetSched, SetAttr, Advance, NextCall
    <3>3. tid \in Tid /\ tid' \in Tid \union {NoTid}
      BY <2>3 DEF LiftLimits, SetGroup, SetNice, SetSched, SetAttr, Advance
    <3>4. /\ task[tid].attr \in Attr /\ task[tid].proc \in Proc \union {NoProc}
          /\ [task[tid].attr EXCEPT !.nice = NiceOf(class)] \in Attr
          /\ SetScheduler(task[tid].attr, PolicyOf(class), NiceOf(class),
                          class = "realtime") \in Attr
      BY <3>3, AttrType DEF Task
    <3>5. task' \in [Tid -> Task]
      <4>1. CASE UNCHANGED task
        BY <4>1
      <4>2. ASSUME NEW a \in Attr, task' = [task EXCEPT ![tid].attr = a]
            PROVE  task' \in [Tid -> Task]
        BY <3>3, <4>2 DEF Task
      <4> QED
        BY <2>3, <3>4, <4>1, <4>2 DEF LiftLimits, SetGroup, SetNice, SetSched, SetAttr
    <3>6. group' \in [Proc -> Nices]
      BY <2>3 DEF LiftLimits, SetGroup, SetNice, SetSched, SetAttr, Nices
    <3>7. unlimited' \subseteq Proc
      <4>1. CASE LiftLimits
        <5>1. Exists(tid) => task[tid].proc \in Proc
          BY <3>3 DEF Owned, Exists
        <5> QED
          BY <4>1, <5>1 DEF LiftLimits
      <4>2. CASE SetGroup \/ SetNice \/ SetSched
        BY <4>2 DEF SetGroup, SetNice, SetSched, SetAttr
      <4> QED
        BY <2>3, <4>1, <4>2
    <3>8. left' \in [Kinds -> Nat]
      BY <2>3, SpendType DEF LiftLimits, SetGroup, SetNice, SetSched, SetAttr, Kinds
    <3> QED
      BY <3>1, <3>2, <3>3, <3>5, <3>6, <3>7, <3>8
  <2>4. CASE CallFails \/ FinishFails
    BY <2>4, SpendType DEF CallFails, Failing, FinishFails, Return, Kinds, kernelVars
  <2>5. CASE Finish
    <3>1. group' \in [Proc -> Nices]
      BY <2>5 DEF Finish, Nices
    <3> QED
      BY <2>5, <3>1 DEF Finish, Return
  <2> QED
    BY <1>6, <2>1, <2>2, <2>3, <2>4, <2>5 DEF SweepStep
<1>7. ASSUME NEW p \in Proc, Forget(p) PROVE TypeOK'
  BY <1>7 DEF Forget, kernelVars
<1>8. ASSUME NEW p \in Proc, NEW c \in Class, Switch(p, c) PROVE TypeOK'
  <2>1. want' \in FirstWants
    BY <1>8 DEF Switch, FirstWants
  <2> QED
    BY <1>8, <2>1, SpendType DEF Switch, kernelVars, Kinds
<1>9. CASE UNCHANGED vars
  BY <1>9 DEF vars, kernelVars
<1> QED
  BY <1>1, <1>2, <1>3, <1>4, <1>5, <1>6, <1>7, <1>8, <1>9 DEF Next, Kernel, Over

------------------------------------------------------------------------------
(* What every step keeps.                                                   *)

LEMMA InitRest == Init => Owned /\ Swept /\ StepFits /\ OwnList /\ Progress /\ PutBack
<1> SUFFICES ASSUME Init
             PROVE  Owned /\ Swept /\ StepFits /\ OwnList /\ Progress /\ PutBack
  OBVIOUS
<1>1. Owned
  <2> SUFFICES ASSUME NEW t \in Tid, \E p \in Proc : t \in FirstTids[p]
               PROVE  (CHOOSE p \in Proc : t \in FirstTids[p]) \in Proc
    BY DEF Init, Owned, Exists, FreeTask
  <2> QED
    OBVIOUS
<1> QED
  BY <1>1 DEF Init, Swept, StepFits, OwnList, Progress, PutBack

\* A thread that ends takes nothing from another one but its life.
LEMMA EndStep ==
    ASSUME TypeOK, NEW t \in Tid, End(t), NEW u \in Tid
    PROVE  \/ task'[u] = FreeTask
           \/ task'[u] = task[u]
           \/ /\ task[u].st = "run" /\ task'[u].st = "zombie"
              /\ task'[u].proc = task[u].proc /\ task'[u].attr = task[u].attr
<1> DEFINE p == task[t].proc
<1>1. task[t].st = "run" /\ task[u] \in Task /\ task \in [Tid -> Task]
  BY DEF End, TypeOK
<1>2. CASE task' = [v \in Tid |-> IF v \in Threads(p) THEN FreeTask ELSE task[v]]
  BY <1>2
<1>3. CASE task' = [task EXCEPT ![t] = FreeTask]
  BY <1>1, <1>3
<1>4. CASE task' = [task EXCEPT ![t] = [task[t] EXCEPT !.st = "zombie"]]
  BY <1>1, <1>4 DEF Task
<1> QED
  BY <1>1, <1>2, <1>3, <1>4 DEF End

LEMMA NextOwned == TypeOK /\ Owned /\ [Next]_vars => Owned'
<1> SUFFICES ASSUME TypeOK, Owned, [Next]_vars PROVE Owned'
  OBVIOUS
<1> USE DEF TypeOK, Owned, Exists, FreeTask
<1>1. ASSUME NEW t \in Tid, End(t) PROVE Owned'
  BY <1>1, EndStep
<1>2. ASSUME NEW t \in Tid, NEW u \in Tid, Clone(t, u) PROVE Owned'
  BY <1>2 DEF Clone
<1>3. CASE SweepStep
  <2>1. CASE SetNice \/ SetSched
    <3>1. PICK a : task' = [task EXCEPT ![tid].attr = a]
      BY <2>1 DEF SetNice, SetSched, SetAttr
    <3>2. Exists(tid)
      BY <2>1 DEF SetNice, SetSched, SetAttr
    <3>3. \A t \in Tid : task'[t].proc = task[t].proc /\ task'[t].st = task[t].st
      BY <3>1 DEF Task
    <3>4. \A t \in Tid \ {tid} : task'[t] = task[t]
      BY <3>1
    <3> QED
      BY <3>2, <3>3, <3>4
  <2>2. CASE ~(SetNice \/ SetSched)
    <3>1. UNCHANGED task
      BY <1>3, <2>2 DEF SweepStep, Begin, BeginUnlisted, Opened, Pick, LiftLimits,
                        SetGroup, CallFails, Finish, FinishFails, kernelVars
    <3> QED
      BY <3>1
  <2> QED
    BY <2>1, <2>2
<1>4. CASE UNCHANGED task
  BY <1>4
<1>5. CASE Refresh \/ Stop \/ Exit \/ UNCHANGED vars
  BY <1>4, <1>5 DEF Refresh, Stop, Exit, kernelVars, vars
<1>6. ASSUME NEW p \in Proc, Forget(p) \/ \E c \in Class : Switch(p, c) PROVE Owned'
  BY <1>4, <1>6 DEF Forget, Switch, kernelVars
<1> QED
  BY <1>1, <1>2, <1>3, <1>5, <1>6 DEF Next, Kernel, Over

LEMMA NextSwept == TypeOK /\ Swept /\ [Next]_vars => Swept'
<1> SUFFICES ASSUME TypeOK, Swept, [Next]_vars PROVE Swept'
  OBVIOUS
<1> USE ConstantsType DEF Swept, sweepVars, sweepFrame
<1>1. CASE Kernel
  BY <1>1 DEF Kernel, End, Clone
<1>2. CASE Refresh \/ Stop \/ Exit \/ UNCHANGED vars
  BY <1>2 DEF Refresh, Stop, Exit, Resting, kernelVars, vars, Readable
<1>3. ASSUME NEW p \in Proc, Forget(p) PROVE Swept'
  BY <1>3 DEF Forget, kernelVars
<1>4. ASSUME NEW p \in Proc, NEW c \in Class, Switch(p, c) PROVE Swept'
  <2>1. want' = [want EXCEPT ![p] = c] /\ c # "none" /\ todo' \subseteq {p}
    BY <1>4 DEF Switch, Class
  <2>2. \A q \in Proc : want[q] # "none" => want'[q] # "none"
    BY <2>1 DEF TypeOK, FirstWants
  <2>3. want'[p] # "none"
    BY <2>1 DEF TypeOK, FirstWants
  <2> QED
    BY <1>4, <2>1, <2>2, <2>3 DEF Switch, TypeOK, kernelVars
<1>5. CASE SweepStep
  <2>1. ASSUME NEW p \in Proc, Begin(p) \/ BeginUnlisted(p) PROVE Swept'
    BY <2>1 DEF Begin, BeginUnlisted, Opened, kernelVars
  <2>2. ASSUME NEW t \in Tid, Pick(t) PROVE Swept'
    BY <2>2 DEF Pick, kernelVars
  <2>3. CASE LiftLimits \/ SetGroup \/ SetNice \/ SetSched
    BY <2>3 DEF LiftLimits, SetGroup, SetNice, SetSched, SetAttr, Advance
  <2>4. CASE CallFails \/ Finish \/ FinishFails
    BY <2>4 DEF CallFails, Failing, Finish, FinishFails, Ended, Return, kernelVars
  <2> QED
    BY <1>5, <2>1, <2>2, <2>3, <2>4 DEF SweepStep
<1> QED
  BY <1>1, <1>2, <1>3, <1>4, <1>5 DEF Next, Over

\* Only a sweep that begins or goes on changes its place in the list.
LEMMA OutsideSweep ==
    ASSUME [Next]_vars, ~SweepStep
    PROVE  UNCHANGED <<cur, class, list, tid, step>>
  BY DEF Next, Kernel, End, Clone, Refresh, Stop, Exit, Forget, Switch, Over, sweepVars, vars

LEMMA NextStepFits == TypeOK /\ Swept /\ StepFits /\ [Next]_vars => StepFits'
<1> SUFFICES ASSUME TypeOK, Swept, StepFits, [Next]_vars PROVE StepFits'
  OBVIOUS
<1> USE ConstantsType DEF StepFits, sweepVars, sweepFrame, TypeOK
<1>1. ASSUME NEW p \in Proc, Begin(p) \/ BeginUnlisted(p) PROVE StepFits'
  BY <1>1 DEF Begin, BeginUnlisted, Opened, Swept
<1>2. ASSUME NEW t \in Tid, Pick(t) PROVE StepFits'
  BY <1>2 DEF Pick, FirstCall, Class
<1>3. CASE LiftLimits \/ SetGroup \/ SetNice \/ SetSched
  BY <1>3 DEF LiftLimits, SetGroup, SetNice, SetSched, SetAttr, Advance, NextCall, Class
<1>4. CASE CallFails \/ Finish \/ FinishFails
  BY <1>4 DEF CallFails, Finish, FinishFails, Return
<1>5. CASE ~SweepStep
  BY <1>5, OutsideSweep
<1> QED
  BY <1>1, <1>2, <1>3, <1>4, <1>5 DEF SweepStep

------------------------------------------------------------------------------
(* What a sweep touches, and how far it is.                                 *)

LEMMA KernelFrame ==
    ASSUME Kernel
    PROVE  UNCHANGED <<group, want, cur, class, list, tid, step, todo, phase, snap, failed,
                       unlisted>>
  BY DEF Kernel, End, Clone, sweepVars

\* The kernel leaves a thread its process and its attributes, or takes the
\* thread away, or has handed its number out.
LEMMA KernelTask ==
    ASSUME TypeOK, Kernel, NEW t \in Tid
    PROVE  /\ reborn \subseteq reborn'
           /\ \/ t \in reborn'
              \/ task'[t] = FreeTask
              \/ /\ task'[t].proc = task[t].proc /\ task'[t].attr = task[t].attr
                 /\ task'[t].st = "free" <=> task[t].st = "free"
<1>1. ASSUME NEW u \in Tid, End(u)
      PROVE  \/ task'[t] = FreeTask
             \/ /\ task'[t].proc = task[t].proc /\ task'[t].attr = task[t].attr
                /\ task'[t].st = "free" <=> task[t].st = "free"
  BY <1>1, EndStep
<1>2. ASSUME NEW u \in Tid, NEW v \in Tid, Clone(u, v)
      PROVE  t \in reborn' \/ task'[t] = task[t]
  BY <1>2 DEF Clone, TypeOK
<1> QED
  BY <1>1, <1>2 DEF Kernel, End, Clone

Calls == LiftLimits \/ SetNice \/ SetSched \/ SetGroup

\* A call changes the attributes of the thread it is for, to what it says.
LEMMA CallTask ==
    ASSUME TypeOK, Calls
    PROVE  /\ tid \in Tid /\ step' = NextCall(class)
           /\ tid' = IF NextCall(class) = "done" THEN NoTid ELSE tid
           /\ UNCHANGED <<cur, class, list, todo, phase, want, snap, failed, unlisted, reborn>>
           /\ \A q \in Proc : group'[q] = group[q] \/ q = cur
           /\ \A t \in Tid \ {tid} : task'[t] = task[t]
           /\ task'[tid].proc = task[tid].proc /\ task'[tid].st = task[tid].st
           /\ CASE step = "sched" -> task'[tid].attr = SetScheduler(task[tid].attr,
                        PolicyOf(class), NiceOf(class), class = "realtime")
                [] step \in {"nice", "again"} -> task'[tid].attr =
                        [task[tid].attr EXCEPT !.nice = NiceOf(class)]
                [] OTHER -> task'[tid].attr = task[tid].attr
<1> USE DEF Calls, LiftLimits, SetGroup, SetNice, SetSched, SetAttr, Advance, sweepFrame
<1>1. /\ tid \in Tid /\ step' = NextCall(class)
      /\ tid' = IF NextCall(class) = "done" THEN NoTid ELSE tid
      /\ UNCHANGED <<cur, class, list, todo, phase, want, snap, failed, unlisted, reborn>>
  BY DEF TypeOK
<1>2. \A q \in Proc : group'[q] = group[q] \/ q = cur
  BY DEF TypeOK
<1>3. ASSUME NEW a, task' = [task EXCEPT ![tid].attr = a]
      PROVE  /\ \A t \in Tid \ {tid} : task'[t] = task[t]
             /\ task'[tid].proc = task[tid].proc /\ task'[tid].st = task[tid].st
             /\ task'[tid].attr = a
  BY <1>1, <1>3 DEF TypeOK, Task
<1>4. CASE LiftLimits \/ SetGroup
  <2>1. UNCHANGED task /\ step \in {"limits", "group"}
    BY <1>4
  <2> QED
    BY <1>1, <1>2, <2>1
<1>5. CASE SetNice
  <2>1. /\ task' = [task EXCEPT ![tid].attr = [task[tid].attr EXCEPT !.nice = NiceOf(class)]]
        /\ step \in {"nice", "again"}
    BY <1>5
  <2> QED
    BY <1>1, <1>2, <1>3, <2>1
<1>6. CASE SetSched
  <2>1. /\ task' = [task EXCEPT ![tid].attr = SetScheduler(task[tid].attr,
                        PolicyOf(class), NiceOf(class), class = "realtime")]
        /\ step = "sched"
    BY <1>6
  <2> QED
    BY <1>1, <1>2, <1>3, <2>1
<1> QED
  BY <1>4, <1>5, <1>6

\* Steps that are neither the kernel's nor a sweep's happen between sweeps.
LEMMA BetweenSweeps ==
    ASSUME Swept, [Next]_vars, ~SweepStep, ~Kernel, ~UNCHANGED vars
    PROVE  cur = NoProc /\ UNCHANGED <<task, group, cur, class, list, tid, step>>
  BY DEF Swept, Next, Refresh, Stop, Exit, Forget, Switch, Over, Resting, kernelVars,
         sweepVars

\* The numbers on the list.
LEMMA NextOwnList == TypeOK /\ Owned /\ Swept /\ OwnList /\ [Next]_vars => OwnList'
<1> SUFFICES ASSUME TypeOK, Owned, Swept, OwnList, [Next]_vars PROVE OwnList'
  OBVIOUS
<1>1. CASE Kernel
  <2> SUFFICES ASSUME cur # NoProc, NEW t \in Tid, t \in list \/ t = tid
               PROVE  task'[t].proc = cur \/ task'[t].st = "free" \/ t \in reborn'
    BY <1>1, KernelFrame DEF OwnList
  <2>1. task[t].proc = cur \/ task[t].st = "free" \/ t \in reborn
    BY DEF OwnList
  <2> QED
    BY <1>1, <2>1, KernelTask DEF FreeTask
<1>2. CASE SweepStep
  <2>1. ASSUME NEW p \in Proc, Begin(p) \/ BeginUnlisted(p) PROVE OwnList'
    BY <2>1, ConstantsType DEF Begin, BeginUnlisted, Opened, Swept, Listed, Threads,
                               kernelVars, OwnList
  <2>2. ASSUME NEW t \in Tid, Pick(t) PROVE OwnList'
    BY <2>2 DEF Pick, OwnList, kernelVars, sweepFrame
  <2>3. CASE Calls
    BY <2>3, CallTask, ConstantsType DEF OwnList
  <2>4. CASE CallFails \/ Finish \/ FinishFails
    BY <2>4 DEF CallFails, Finish, FinishFails, Return, OwnList
  <2> QED
    BY <1>2, <2>1, <2>2, <2>3, <2>4 DEF SweepStep, Calls
<1>3. CASE UNCHANGED vars
  BY <1>3 DEF vars, kernelVars, sweepVars, OwnList
<1>4. CASE ~SweepStep /\ ~Kernel /\ ~UNCHANGED vars
  BY <1>4, BetweenSweeps DEF OwnList
<1> QED
  BY <1>1, <1>2, <1>3, <1>4

\* Each call leads to the next, and the last one to the whole setting.
LEMMA CallProgress ==
    ASSUME TypeOK, StepFits, Calls, OnTheWay(task[tid].attr, class, step)
    PROVE  IF NextCall(class) = "done" THEN Conforms(task'[tid].attr, class)
           ELSE OnTheWay(task'[tid].attr, class, NextCall(class))
<1> DEFINE a == task[tid].attr
           b == task'[tid].attr
<1> USE DEF StepFits, Class, NextCall, OnTheWay
<1>1. tid \in Tid /\ tid # NoTid /\ a \in Attr /\ class \in Class
  BY CallTask, ConstantsType DEF TypeOK, Task
<1>2. CASE step = "limits"
  <2>1. class \in {"realtime", "excluded"}
    BY <1>1, <1>2
  <2>2. CASE class = "realtime"
    BY <1>2, <2>2
  <2>3. CASE class = "excluded"
    BY <1>2, <2>3
  <2> QED
    BY <2>1, <2>2, <2>3
<1>3. CASE step = "nice"
  BY <1>1, <1>3
<1>4. CASE step = "sched"
  <2>1. b.policy = PolicyOf(class) /\ b.nice = NiceOf(class) /\ b.reset = (class = "realtime")
    BY <1>1, <1>4, CallTask DEF SetScheduler, Attr
  <2>2. Conforms(b, class)
    BY <2>1 DEF Conforms
  <2> QED
    BY <1>1, <1>4, <2>2
<1>5. CASE step = "group"
  <2>1. b = a
    BY <1>5, CallTask
  <2> QED
    BY <1>1, <1>5, <2>1
<1>6. CASE step = "again"
  <2>1. b.nice = NiceOf(class) /\ b.policy = a.policy /\ b.reset = a.reset
    BY <1>1, <1>6, CallTask DEF Attr
  <2>2. class \in {"excluded", "excludedNormal"} \/ Conforms(a, class)
    BY <1>1, <1>6
  <2>3. Conforms(b, class)
    BY <2>1, <2>2 DEF Conforms
  <2> QED
    BY <1>6, <2>3
<1> QED
  BY <1>1, <1>2, <1>3, <1>4, <1>5, <1>6

\* A thread is not left half done.
LEMMA NextProgress ==
    TypeOK /\ Owned /\ Swept /\ StepFits /\ Progress /\ [Next]_vars => Progress'
<1> SUFFICES ASSUME TypeOK, Owned, Swept, StepFits, Progress, [Next]_vars PROVE Progress'
  OBVIOUS
<1>1. CASE Kernel
  <2> SUFFICES ASSUME cur # NoProc, cur \notin unlisted, NEW t \in Tid,
                      task'[t].proc = cur, t \notin reborn'
               PROVE  \/ t \in list
                      \/ t = tid /\ OnTheWay(task'[t].attr, class, step)
                      \/ t # tid /\ Conforms(task'[t].attr, class)
    BY <1>1, KernelFrame DEF Progress
  <2>1. cur \in Proc
    BY DEF TypeOK
  <2>2. task'[t].proc = task[t].proc /\ task'[t].attr = task[t].attr /\ t \notin reborn
    BY <1>1, <2>1, KernelTask, ConstantsType DEF FreeTask
  <2> QED
    BY <2>2 DEF Progress
<1>2. CASE SweepStep
  <2>1. ASSUME NEW p \in Proc, Begin(p) \/ BeginUnlisted(p) PROVE Progress'
    BY <2>1 DEF Begin, BeginUnlisted, Opened, Listed, Threads, kernelVars, Progress
  <2>2. ASSUME NEW t \in Tid, Pick(t) PROVE Progress'
    <3> SUFFICES ASSUME cur # NoProc, cur \notin unlisted, NEW u \in Tid,
                        task[u].proc = cur, u \notin reborn
                 PROVE  \/ u \in list'
                        \/ u = tid' /\ OnTheWay(task[u].attr, class, step')
                        \/ u # tid' /\ Conforms(task[u].attr, class)
      BY <2>2 DEF Pick, kernelVars, sweepFrame, Progress
    <3>1. OnTheWay(task[u].attr, class, FirstCall(class))
      BY DEF OnTheWay, FirstCall, TypeOK, Class
    <3>2. u \in list \/ Conforms(task[u].attr, class)
      BY <2>2, ConstantsType DEF Pick, Progress
    <3> QED
      BY <2>2, <3>1, <3>2 DEF Pick
  <2>3. CASE Calls
    <3> SUFFICES ASSUME cur # NoProc, cur \notin unlisted, NEW t \in Tid,
                        task'[t].proc = cur, t \notin reborn
                 PROVE  \/ t \in list
                        \/ t = tid' /\ OnTheWay(task'[t].attr, class, step')
                        \/ t # tid' /\ Conforms(task'[t].attr, class)
      BY <2>3, CallTask DEF Progress
    <3>1. CASE t = tid
      BY <2>3, <3>1, CallTask, CallProgress, ConstantsType DEF Progress
    <3>2. CASE t # tid
      <4>1. task'[t] = task[t] /\ t # tid'
        BY <2>3, <3>2, CallTask, ConstantsType
      <4> QED
        BY <3>2, <4>1 DEF Progress
    <3> QED
      BY <3>1, <3>2
  <2>4. CASE CallFails \/ Finish \/ FinishFails
    BY <2>4 DEF CallFails, Finish, FinishFails, Return, Progress
  <2> QED
    BY <1>2, <2>1, <2>2, <2>3, <2>4 DEF SweepStep, Calls
<1>3. CASE UNCHANGED vars
  BY <1>3 DEF vars, kernelVars, sweepVars, Progress
<1>4. CASE ~SweepStep /\ ~Kernel /\ ~UNCHANGED vars
  BY <1>4, BetweenSweeps DEF Progress
<1> QED
  BY <1>1, <1>2, <1>3, <1>4

LEMMA Complete == TypeOK /\ Progress => PassIsComplete
  BY ConstantsType DEF PassIsComplete, Ended, Progress, Threads

\* cleanup goes through its list, and nothing undoes what it has done.
LEMMA NextPutBack == IInv /\ [Next]_vars => PutBack'
<1> SUFFICES ASSUME IInv, [Next]_vars PROVE PutBack'
  OBVIOUS
<1> USE DEF IInv
<1> DEFINE Done(p) == Threads(p) # {} =>
                /\ group[p] = 0
                /\ p \notin unlisted =>
                    \A t \in Threads(p) \ reborn : Conforms(task[t].attr, Target(p))
<1>1. CASE Kernel
  <2> SUFFICES ASSUME phase # "up", ~failed, NEW p \in snap, Done(p) PROVE Done(p)'
    BY <1>1, KernelFrame DEF PutBack, Target
  <2>1. p \in Proc
    BY DEF TypeOK
  <2>2. UNCHANGED <<group, unlisted, Target(p)>>
    BY <1>1, KernelFrame DEF Target
  <2>3. ASSUME NEW t \in Threads(p)' PROVE Threads(p) # {}
    BY <1>1, <2>1, <2>3, ConstantsType DEF Kernel, End, Clone, Threads, FreeTask, TypeOK, Task
  <2>4. ASSUME NEW t \in Threads(p)', t \notin reborn'
        PROVE  t \in Threads(p) \ reborn /\ task'[t].attr = task[t].attr
    BY <1>1, <2>1, <2>4, KernelTask, ConstantsType DEF Threads, FreeTask
  <2> QED
    BY <2>2, <2>3, <2>4
<1>2. CASE SweepStep
  <2>1. ASSUME NEW p \in Proc, Begin(p) \/ BeginUnlisted(p) PROVE PutBack'
    <3>1. /\ UNCHANGED <<task, group, want, phase, snap, failed>>
          /\ cur = NoProc /\ cur' = p /\ todo' = todo \ {p}
          /\ phase # "up" =>
                class' = Target(p) /\ reborn' = reborn /\ unlisted \subseteq unlisted'
      BY <2>1 DEF Begin, BeginUnlisted, Opened, UnlistedBefore, Target, kernelVars, sweepFrame
    <3>2. \A q \in snap : q # NoProc
      BY ConstantsType DEF TypeOK
    <3> QED
      BY <3>1, <3>2 DEF PutBack, Target, Threads
  <2>2. ASSUME NEW t \in Tid, Pick(t) PROVE PutBack'
    BY <2>2 DEF Pick, PutBack, Target, Threads, kernelVars, sweepFrame
  <2>3. CASE Calls
    <3>1. UNCHANGED <<phase, failed, unlisted, snap, todo, cur, class, want, reborn>>
      BY <2>3, CallTask
    <3>2. ASSUME phase # "up", ~failed, NEW p \in snap, p # cur, Done(p) PROVE Done(p)'
      <4>1. p \in Proc /\ UNCHANGED <<group[p], Target(p)>>
        BY <2>3, <3>1, <3>2, CallTask DEF TypeOK, Target
      <4>2. Threads(p)' = Threads(p)
        BY <2>3, CallTask DEF Threads
      <4>3. ASSUME NEW t \in Threads(p) \ reborn PROVE task'[t].attr = task[t].attr
        <5>1. cur # NoProc /\ tid \in Tid
          BY <2>3, CallTask, ConstantsType DEF Swept
        <5>2. t # tid
          BY <3>2, <4>1, <4>3, <5>1, ConstantsType DEF OwnList, Owned, Exists, Threads, FreeTask
        <5> QED
          BY <2>3, <4>3, <5>2, CallTask DEF Threads
      <4> QED
        BY <3>1, <3>2, <4>1, <4>2, <4>3
    <3> QED
      BY <3>1, <3>2 DEF PutBack, Target
  <2>4. CASE CallFails \/ FinishFails
    <3>1. phase # "exited" /\ cur' = NoProc /\ UNCHANGED phase
      BY <2>4 DEF CallFails, Failing, FinishFails, Return, sweepFrame, Swept
    <3>2. phase = "cleanup" => failed'
      BY <2>4 DEF CallFails, FinishFails, Return
    <3> QED
      BY <3>1, <3>2 DEF PutBack, TypeOK
  <2>5. CASE Finish
    <3>1. /\ UNCHANGED <<task, phase, snap, want, unlisted, reborn>> /\ cur' = NoProc
          /\ cur # NoProc /\ phase # "up" =>
                /\ group' = IF Threads(cur) # {} THEN [group EXCEPT ![cur] = 0] ELSE group
                /\ ~failed' => Threads(cur) # {} /\ UNCHANGED todo /\ ~failed
      BY <2>5 DEF Finish, Ended, Return, sweepFrame, Swept, TypeOK
    <3>2. ASSUME phase # "up", ~failed', NEW p \in snap, p = cur PROVE Done(p)'
      <4>1. group'[p] = 0 /\ class = Target(p)
        BY <2>5, <3>1, <3>2 DEF TypeOK, PutBack, Finish, Ended
      <4>2. p \notin unlisted =>
                \A t \in Threads(p) \ reborn : Conforms(task[t].attr, class)
        BY <2>5, <3>2, Complete DEF PassIsComplete, Finish
      <4> QED
        BY <3>1, <4>1, <4>2 DEF Threads, Target
    <3>3. ASSUME phase # "up", NEW p \in snap, p # cur, Done(p) PROVE Done(p)'
      <4>1. group'[p] = group[p]
        BY <2>5, <3>1, <3>3 DEF TypeOK, Finish, Ended
      <4> QED
        BY <3>1, <3>3, <4>1 DEF Threads, Target
    <3> QED
      BY <2>5, <3>1, <3>2, <3>3 DEF PutBack, Finish, Ended
  <2> QED
    BY <1>2, <2>1, <2>2, <2>3, <2>4, <2>5 DEF SweepStep, Calls
<1>3. CASE Stop
  BY <1>3 DEF Stop, PutBack, Resting, sweepVars
<1>4. CASE Exit
  BY <1>4 DEF Exit, PutBack, Resting, kernelVars, sweepVars, Threads, Target
<1>5. ASSUME NEW p \in Proc, Forget(p) \/ \E c \in Class : Switch(p, c) PROVE PutBack'
  BY <1>5 DEF Forget, Switch, PutBack
<1>6. CASE Refresh
  BY <1>6 DEF Refresh, PutBack
<1>7. CASE UNCHANGED vars
  BY <1>7 DEF vars, kernelVars, sweepVars, PutBack, Threads, Target
<1> QED
  BY <1>1, <1>2, <1>3, <1>4, <1>5, <1>6, <1>7 DEF Next, Over

LEMMA InitIInv == Init => IInv
  BY InitType, InitRest DEF IInv

LEMMA NextIInv == IInv /\ [Next]_vars => IInv'
  BY NextType, NextOwned, NextSwept, NextStepFits, NextOwnList, NextProgress, NextPutBack
  DEF IInv

------------------------------------------------------------------------------
(* Theorems.                                                                *)

\* Every variable stays in its range (set_all and what it changes).
THEOREM TypeCorrect == Spec => []TypeOK
  BY InitIInv, NextIInv, PTL DEF Spec, IInv

\* A pass that comes to its end without an error has given every thread that
\* was there all along the whole of its setting (main.rs:233-235).
THEOREM NoneHalfDone == Spec => []PassIsComplete
<1>1. IInv => PassIsComplete
  BY Complete DEF IInv
<1> QED
  BY <1>1, InitIInv, NextIInv, PTL DEF Spec

\* A cleanup without errors has put everything back, and it stays so
\* (main.rs:354-361).
THEOREM CleanupDone == Spec => []CleanupSetsThreads
<1>1. IInv => CleanupSetsThreads
  <2> SUFFICES ASSUME IInv, phase = "exited", ~failed, NEW p \in snap, Threads(p) # {}
               PROVE  /\ group[p] = 0
                      /\ p \notin unlisted =>
                          \A t \in Threads(p) \ reborn : Conforms(task[t].attr, Target(p))
    BY DEF CleanupSetsThreads, Target
  <2>1. cur = NoProc /\ todo = {} /\ p # NoProc
    BY ConstantsType DEF IInv, Swept, TypeOK
  <2> QED
    BY <2>1 DEF IInv, PutBack
<1> QED
  BY <1>1, InitIInv, NextIInv, PTL DEF Spec

\* A sweep changes the thread of another process only by a number that was
\* handed out since its list was made (main.rs:233, proc.rs:94).
THEOREM NoStrangers == Spec => StrangersOnlyByRecycling
<1>1. ASSUME IInv, [Next]_vars, NEW t \in Tid, task[t].st # "free", task'[t].st # "free",
             task'[t].attr # task[t].attr
      PROVE  task[t].proc = cur \/ t \in reborn
  <2> USE DEF IInv
  <2>1. CASE Kernel
    <3>1. ASSUME NEW u \in Tid, End(u) PROVE FALSE
      BY <1>1, <3>1, EndStep DEF FreeTask
    <3>2. ASSUME NEW u \in Tid, NEW v \in Tid, Clone(u, v) PROVE FALSE
      BY <1>1, <3>2 DEF Clone, TypeOK, Exists
    <3> QED
      BY <2>1, <3>1, <3>2 DEF Kernel
  <2>2. CASE Calls
    <3>1. t = tid /\ tid # NoTid
      BY <1>1, <2>2, CallTask, ConstantsType
    <3> QED
      BY <1>1, <3>1 DEF Swept, OwnList
  <2>3. CASE SweepStep /\ ~Calls
    BY <1>1, <2>3 DEF SweepStep, Calls, Begin, BeginUnlisted, Opened, Pick,
                          CallFails, Finish, FinishFails, kernelVars
  <2>4. CASE UNCHANGED vars
    BY <1>1, <2>4 DEF vars, kernelVars
  <2>5. CASE ~SweepStep /\ ~Kernel /\ ~UNCHANGED vars
    BY <1>1, <2>5, BetweenSweeps
  <2> QED
    BY <2>1, <2>2, <2>3, <2>4, <2>5
<1>2. IInv /\ [Next]_vars => [\A t \in Tid :
        task[t].st # "free" /\ task'[t].attr # task[t].attr /\ task'[t].st # "free"
            => task[t].proc = cur \/ t \in reborn]_vars
  BY <1>1
<1> QED
  BY <1>2, InitIInv, NextIInv, PTL DEF Spec, StrangersOnlyByRecycling

===============================================================================
