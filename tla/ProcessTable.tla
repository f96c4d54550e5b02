---------------------------- MODULE ProcessTable ----------------------------
(***************************************************************************)
(* The kernel's processes, as far as the daemon depends on them: they      *)
(* fork, exec, exit and are reaped by their parent, orphans go to pid 1,   *)
(* and the pid of a reaped process is handed out again.  The source relies *)
(* on these rules (ProcessHandle::from_pid, src/src/proc.rs, names the     *)
(* last one).  An incarnation number tells the processes a pid has         *)
(* belonged to apart.                                                      *)
(***************************************************************************)
EXTENDS Naturals

CONSTANTS
    Pid,        \* the pids the kernel hands out
    InitPid,    \* pid 1: never exits, adopts orphans, has parent 0
    Exe,        \* executables
    MaxInc      \* bound of a run: incarnations per pid

ASSUME InitPidAssumption == InitPid \in Pid /\ Pid \subseteq Nat \ {0}
ASSUME MaxIncAssumption == MaxInc \in Nat

VARIABLE kern   \* kern[p]: the process the kernel has under pid p

Status == {"free", "run", "zombie"}

Parent == Pid \union {0}

Process == [st : Status, inc : Nat, ppid : Parent, exe : Exe]

\* Processes /proc lists: a zombie is one of them.
Listed == {p \in Pid : kern[p].st # "free"}

\* The kernel without p's process: its children go to pid 1, p is a zombie.
Died(k, p) ==
    [q \in Pid |->
        IF q = p THEN [k[q] EXCEPT !.st = "zombie"]
        ELSE IF k[q].ppid = p THEN [k[q] EXCEPT !.ppid = InitPid]
        ELSE k[q]]

Fork(p, parent) ==
    /\ kern[p].st = "free"
    /\ kern[parent].st = "run"
    /\ kern[p].inc < MaxInc
    /\ kern' = [kern EXCEPT ![p] = [st |-> "run", inc |-> kern[p].inc + 1,
                                    ppid |-> parent, exe |-> kern[parent].exe]]

Exec(p, e) ==
    /\ kern[p].st = "run"
    /\ kern' = [kern EXCEPT ![p].exe = e]

Exit(p) ==
    /\ p # InitPid
    /\ kern[p].st = "run"
    /\ kern' = Died(kern, p)

Reap(p) ==
    /\ kern[p].st = "zombie"
    /\ kern' = [kern EXCEPT ![p].st = "free"]

TableInit ==
    /\ kern \in [Pid -> [st : {"free", "run"}, inc : {0, 1}, ppid : {InitPid, 0},
                         exe : Exe]]
    /\ kern[InitPid].st = "run"
    /\ \A p \in Pid :
        /\ kern[p].inc = IF kern[p].st = "free" THEN 0 ELSE 1
        /\ kern[p].ppid = IF p = InitPid THEN 0 ELSE InitPid

TableNext ==
    \E p \in Pid :
        \/ \E parent \in Pid : Fork(p, parent)
        \/ \E e \in Exe : Exec(p, e)
        \/ Exit(p)
        \/ Reap(p)

=============================================================================
