---------------------------- MODULE ProcessHandle ----------------------------
(***************************************************************************)
(* ProcessHandle::from_pid (src/src/proc.rs): the four system calls that   *)
(* turn a pid into a handle, interleaved with a kernel that lets processes *)
(* fork, exec, exit and be reaped, and that recycles pids.  A handle is    *)
(* used much later by the out-of-memory killer (src/src/main.rs), which    *)
(* reads the victim through the handle's directory descriptor and signals  *)
(* it through the handle's pidfd.                                          *)
(*                                                                         *)
(* A descriptor refers to one incarnation of a pid, so it is modelled by   *)
(* the incarnation number it was opened on; 0 is "not open".               *)
(***************************************************************************)
EXTENDS ProcessTable

CONSTANT Caller     \* the threads that call from_pid

VARIABLES
    step,       \* step[c]: the call that c makes next
    hd,         \* hd[c]: what c has opened and read so far
    killed      \* the incarnations hit by a signal, with the handle used

handleVars == <<kern, step, hd, killed>>

------------------------------------------------------------------------------
(* from_pid.                                                               *)

\* A from_pid that opened the pidfd only after reading the files: the faulty
\* order the comment in the source warns of.
AfterPidfdLast == [open |-> "status", status |-> "exe", exe |-> "pidfd",
                   pidfd |-> "made"]

\* The order in which from_pid makes its calls.
After == [open |-> "pidfd", pidfd |-> "status", status |-> "exe",
          exe |-> "made"]

Calls == {"open", "pidfd", "status", "exe", "made"}

Handle == [pid : Pid, dir : Nat, pidfd : Nat, ppid : Parent, exe : Exe]

\* Mutant: the handle does not know its pid.
BlankZero(p) == [pid |-> 0, dir |-> 0, pidfd |-> 0, ppid |-> 0,
                 exe |-> kern[InitPid].exe]

Blank(p) == [pid |-> p, dir |-> 0, pidfd |-> 0, ppid |-> 0,
             exe |-> kern[InitPid].exe]

Advance(c, h) ==
    /\ hd' = [hd EXCEPT ![c] = h]
    /\ step' = [step EXCEPT ![c] = After[step[c]]]

\* An early return by `?`: the descriptors opened so far are dropped.
Fail(c) ==
    /\ step' = [step EXCEPT ![c] = "open"]
    /\ UNCHANGED hd

\* Does c's directory descriptor still lead to a process (reaped: ESRCH)?
DirAlive(c) ==
    /\ kern[hd[c].pid].st # "free"
    /\ kern[hd[c].pid].inc = hd[c].dir

\* open("/proc/{pid}"); with no such process from_pid returns at once.
OpenDir(c, p) ==
    /\ step[c] = "open"
    /\ kern[p].st # "free"
    /\ Advance(c, [Blank(p) EXCEPT !.dir = kern[p].inc])
    /\ UNCHANGED <<kern, killed>>

\* pidfd_open(pid): by number, so whatever has the pid now.
PidfdOpen(c) ==
    /\ step[c] = "pidfd"
    /\ LET p == hd[c].pid
       IN  IF kern[p].st # "free"
           THEN Advance(c, [hd[c] EXCEPT !.pidfd = kern[p].inc])
           ELSE Fail(c)
    /\ UNCHANGED <<kern, killed>>

\* Read "status" through the directory descriptor: a zombie still has one.
ReadStatus(c) ==
    /\ step[c] = "status"
    /\ IF DirAlive(c)
       THEN Advance(c, [hd[c] EXCEPT !.ppid = kern[hd[c].pid].ppid])
       ELSE Fail(c)
    /\ UNCHANGED <<kern, killed>>

\* Read the "exe" link through the directory descriptor: a zombie has none.
ReadExe(c) ==
    /\ step[c] = "exe"
    /\ IF DirAlive(c) /\ kern[hd[c].pid].st = "run"
       THEN Advance(c, [hd[c] EXCEPT !.exe = kern[hd[c].pid].exe])
       ELSE Fail(c)
    /\ UNCHANGED <<kern, killed>>

\* The handle is dropped with its descriptors; c may call from_pid again.
DropHandle(c) ==
    /\ step[c] = "made"
    /\ step' = [step EXCEPT ![c] = "open"]
    /\ UNCHANGED <<kern, hd, killed>>

\* A kill(pid) in place of the pidfd: it hits whatever has the number now.
SignalByNumber(h) ==
    {i \in {kern[h.pid].inc} : kern[h.pid].st # "free"}

\* pidfd_send_signal(SIGKILL): nothing (ESRCH) once the pidfd's process is
\* gone; a zombie takes the signal and stays a zombie.
SignalTarget(h) ==
    {i \in {h.pidfd} : kern[h.pid].st # "free" /\ kern[h.pid].inc = i}

KillTarget(c) ==
    /\ step[c] = "made"
    /\ hd[c].pid # InitPid
    /\ \E i \in SignalTarget(hd[c]) :
          /\ killed' = killed \union
                {[pid |-> hd[c].pid, inc |-> i, dir |-> hd[c].dir]}
          /\ kern' = IF kern[hd[c].pid].st = "run"
                     THEN Died(kern, hd[c].pid) ELSE kern
    /\ UNCHANGED <<step, hd>>

------------------------------------------------------------------------------
HandleInit ==
    /\ TableInit
    /\ step = [c \in Caller |-> "open"]
    /\ hd = [c \in Caller |-> Blank(InitPid)]
    /\ killed = {}

Kernel == TableNext /\ UNCHANGED <<step, hd, killed>>

FromPid(c) ==
    \/ \E p \in Pid : OpenDir(c, p)
    \/ PidfdOpen(c)
    \/ ReadStatus(c)
    \/ ReadExe(c)
    \/ DropHandle(c)
    \/ KillTarget(c)

HandleNext == Kernel \/ \E c \in Caller : FromPid(c)

HandleSpec == HandleInit /\ [][HandleNext]_handleVars

------------------------------------------------------------------------------
(* The types of the four variables.                                        *)
HandleTypeOK ==
    /\ kern \in [Pid -> Process]
    /\ step \in [Caller -> Calls]
    /\ hd \in [Caller -> Handle]
    /\ killed \subseteq [pid : Pid, inc : Nat, dir : Nat]

(* A finished handle's directory descriptor and pidfd are the same         *)
(* process, whatever happened to the pid between the calls: what the       *)
(* comment in from_pid claims for opening the pidfd second.                *)
HandleOneProcess ==
    \A c \in Caller : step[c] = "made" => hd[c].dir = hd[c].pidfd

(* Every process that dies by a signal through a handle is the one whose   *)
(* files were read through that handle's directory descriptor: recycling   *)
(* the pid after the victim was chosen never costs a stranger its life.    *)
KillHitsProcessRead ==
    \A k \in killed : k.inc = k.dir

==============================================================================
