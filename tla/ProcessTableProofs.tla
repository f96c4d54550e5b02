------------------------- MODULE ProcessTableProofs -------------------------
(* Facts about the kernel's process table that the other proofs rest on.    *)
EXTENDS ProcessTable, TLAPS

TableType == kern \in [Pid -> Process]

\* A pid is a parent pid, and so is the 0 of pid 1.
LEMMA ParentType == Pid \subseteq Parent /\ 0 \in Parent
  BY DEF Parent

\* Died changes no incarnation number and keeps the table well typed.
LEMMA DiedType ==
    ASSUME TableType, NEW p \in Pid
    PROVE  /\ Died(kern, p) \in [Pid -> Process]
           /\ \A q \in Pid : Died(kern, p)[q].inc = kern[q].inc
  BY InitPidAssumption, ParentType DEF TableType, Died, Process, Status

\* Nobody else dies of it, and p leaves its number taken.
LEMMA DiedStates ==
    ASSUME TableType, NEW p \in Pid, NEW q \in Pid
    PROVE  Died(kern, p)[q].st = IF q = p THEN "zombie" ELSE kern[q].st
  BY DEF TableType, Died, Process

\* The first table is well typed.
LEMMA TableInitType == TableInit => TableType
  BY InitPidAssumption, ParentType DEF TableInit, TableType, Process, Status

\* A step of the kernel keeps the types and makes no incarnation number
\* smaller.
LEMMA TableStep ==
    ASSUME TableType, TableNext
    PROVE  /\ TableType'
           /\ \A q \in Pid : kern[q].inc <= kern'[q].inc
           /\ \A q \in Pid : kern[q].inc \in Nat /\ kern'[q].inc \in Nat
<1> DEFINE Monotone == \A q \in Pid : kern[q].inc <= kern'[q].inc
<1> USE DEF TableType, Process
<1>1. ASSUME NEW p \in Pid, NEW parent \in Pid, Fork(p, parent)
      PROVE  TableType' /\ Monotone
  BY <1>1, ParentType DEF Fork, Status
<1>2. ASSUME NEW p \in Pid, NEW e \in Exe, Exec(p, e)
      PROVE  TableType' /\ Monotone
  BY <1>2 DEF Exec
<1>3. ASSUME NEW p \in Pid, Exit(p)
      PROVE  TableType' /\ Monotone
  <2>1. kern' = Died(kern, p)
    BY <1>3 DEF Exit
  <2>2. Died(kern, p) \in [Pid -> Process]
        /\ \A q \in Pid : Died(kern, p)[q].inc = kern[q].inc
    BY DiedType
  <2>3. \A q \in Pid : kern[q].inc \in Nat /\ kern'[q].inc = kern[q].inc
    BY <2>1, <2>2
  <2> QED
    BY <2>1, <2>2, <2>3
<1>4. ASSUME NEW p \in Pid, Reap(p)
      PROVE  TableType' /\ Monotone
  BY <1>4 DEF Reap, Status
<1>5. TableType' /\ Monotone
  BY <1>1, <1>2, <1>3, <1>4 DEF TableNext
<1> QED
  BY <1>5

\* A free number is only taken by a process of a new incarnation.
LEMMA FreeStays ==
    ASSUME TableType, TableNext, NEW q \in Pid,
           kern[q].st = "free", kern'[q].inc = kern[q].inc
    PROVE  kern'[q].st = "free"
<1> USE DEF TableType, Process
<1>1. ASSUME NEW p \in Pid, NEW parent \in Pid, Fork(p, parent)
      PROVE  kern'[q].st = "free"
  BY <1>1 DEF Fork
<1>2. ASSUME NEW p \in Pid, NEW e \in Exe, Exec(p, e)
      PROVE  kern'[q].st = "free"
  BY <1>2 DEF Exec
<1>3. ASSUME NEW p \in Pid, Exit(p)
      PROVE  kern'[q].st = "free"
  BY <1>3, DiedStates DEF Exit
<1>4. ASSUME NEW p \in Pid, Reap(p)
      PROVE  kern'[q].st = "free"
  BY <1>4 DEF Reap
<1> QED
  BY <1>1, <1>2, <1>3, <1>4 DEF TableNext

=============================================================================
