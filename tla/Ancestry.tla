------------------------------ MODULE Ancestry ------------------------------
(***************************************************************************)
(* Who descends from whom, as the daemon's process cache tells it:         *)
(* parents, is_child_of, is_equal_or_child_of and is_critical              *)
(* (src/src/main.rs).  A cache here is a function from the pids that have  *)
(* a handle to their handles; a handle is a record with fields pid, ppid   *)
(* and exe.  Predicates over handles are given as the set of pids whose    *)
(* handle satisfies them.                                                  *)
(***************************************************************************)
EXTENDS Naturals, FiniteSets

CONSTANTS
    CriticalExe,    \* CRITICAL_PROCESSES
    ExcludeRealtime,\* EXCLUDE_REALTIME
    SelfPid,        \* the daemon's own pid
    NoPid,          \* None where a pid is optional
    NoExe           \* an executable path that is not UTF-8

\* Two assertions main makes before it starts any thread.
ASSUME ExcludeAssumption == ExcludeRealtime \subseteq CriticalExe
ASSUME NoExeAssumption == NoExe \notin CriticalExe

LEMOND_SELF_REALTIME == FALSE

\* The parent pids met by the loop of parents, in order.  The climb rests on
\* the first pid that has no handle; otherwise it goes on for ever, so that
\* after as many steps as there are handles it has either come to rest or
\* entered a cycle.
Climb(x, c) ==
    LET at[n \in 0..Cardinality(DOMAIN c)] ==
            IF n = 0 THEN x.ppid
            ELSE IF at[n - 1] \in DOMAIN c THEN c[at[n - 1]].ppid
            ELSE at[n - 1]
    IN  at

\* Does the loop of parents come to an end?
ClimbEnds(x, c) ==
    Climb(x, c)[Cardinality(DOMAIN c)] \notin DOMAIN c

Parents(x, c) ==
    {Climb(x, c)[n] : n \in 0..Cardinality(DOMAIN c)} \intersect DOMAIN c

IsChildOf(x, S, c) == Parents(x, c) \intersect S # {}

IsEqualOrChildOf(x, S, c) == x.pid \in S \/ IsChildOf(x, S, c)

\* client is the client_pid of the state, NoPid when there is none or when
\* the caller passes no state.
IsCritical(h, client) ==
    IF h.pid \in {client, SelfPid} THEN LEMOND_SELF_REALTIME
    ELSE h.exe \in CriticalExe

CriticalPids(c, client) == {p \in DOMAIN c : IsCritical(c[p], client)}

=============================================================================
