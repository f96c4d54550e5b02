----------------------------- MODULE ParentWalk -----------------------------
(***************************************************************************)
(* The loops behind is_child_of (src/src/main.rs), one iteration per step: *)
(* parents climbs the parent pids of the cache and collects handles, then  *)
(* is_child_of scans what was collected.  The runs start it on every cache *)
(* of a few pids, cyclic ones included, and compare it with the closed     *)
(* form the other modules use (Ancestry) and with a definition of          *)
(* "ancestor" that mentions no loop at all.                                *)
(***************************************************************************)
EXTENDS Ancestry, Sequences

CONSTANTS
    WalkPid,        \* pids of the cache and of who is asked about
    MaxCollected    \* bound of a run: where an endless climb is cut off

ASSUME WalkPidAssumption == IsFiniteSet(WalkPid)

VARIABLES
    table,          \* the cache
    asked,          \* the handle asked about
    sought,         \* the pids that satisfy the predicate
    orEqual,        \* is_equal_or_child_of or is_child_of?
    cur,            \* cur.parent_pid
    result,         \* the handles collected by parents
    seen,           \* how many of them is_child_of has looked at
    at              \* where control is

walkVars == <<table, asked, sought, orEqual, cur, result, seen, at>>
input == <<table, asked, sought, orEqual>>

Number == WalkPid \union {0}
H == [pid : WalkPid, ppid : Number]

Caches == UNION {{d \in [D -> H] : \A p \in D : d[p].pid = p} : D \in SUBSET WalkPid}

WalkInit ==
    /\ table \in Caches
    /\ asked \in H
    /\ sought \in SUBSET WalkPid
    /\ orEqual \in BOOLEAN
    /\ cur = asked.ppid
    /\ result = <<>>
    /\ seen = 0
    /\ at = "self"

\* is_equal_or_child_of asks about the handle itself first.
TestSelf ==
    /\ at = "self"
    /\ at' = IF orEqual /\ asked.pid \in sought THEN "true" ELSE "climb"
    /\ UNCHANGED <<input, cur, result, seen>>

\* Mutant: the climb does not move on.
CollectParentAgain ==
    /\ at = "climb"
    /\ cur \in DOMAIN table
    /\ Len(result) < MaxCollected
    /\ result' = Append(result, table[cur])
    /\ UNCHANGED <<input, cur, seen, at>>

CollectParent ==
    /\ at = "climb"
    /\ cur \in DOMAIN table
    /\ Len(result) < MaxCollected
    /\ result' = Append(result, table[cur])
    /\ cur' = table[cur].ppid
    /\ UNCHANGED <<input, seen, at>>

\* Mutant: the climb may end at pid 1 as well.
StopClimbAtInit ==
    /\ at = "climb"
    /\ cur \notin DOMAIN table \/ cur = 1
    /\ at' = "scan"
    /\ UNCHANGED <<input, cur, result, seen>>

StopClimb ==
    /\ at = "climb"
    /\ cur \notin DOMAIN table
    /\ at' = "scan"
    /\ UNCHANGED <<input, cur, result, seen>>

\* Mutant: only every other parent is tested.
TestParentSkips ==
    /\ at = "scan"
    /\ seen < Len(result)
    /\ seen' = seen + 2
    /\ at' = IF result[seen + 1].pid \in sought THEN "true" ELSE "scan"
    /\ UNCHANGED <<input, cur, result>>

\* Mutant: only the first parent is tested.
TestParentOnce ==
    /\ at = "scan"
    /\ seen < Len(result)
    /\ seen' = seen + 1
    /\ at' = IF result[seen + 1].pid \in sought THEN "true" ELSE "false"
    /\ UNCHANGED <<input, cur, result>>

TestParent ==
    /\ at = "scan"
    /\ seen < Len(result)
    /\ seen' = seen + 1
    /\ at' = IF result[seen + 1].pid \in sought THEN "true" ELSE "scan"
    /\ UNCHANGED <<input, cur, result>>

StopScan ==
    /\ at = "scan"
    /\ seen = Len(result)
    /\ at' = "false"
    /\ UNCHANGED <<input, cur, result, seen>>

\* The answer is returned, or the endless climb has been cut off.
Idle ==
    /\ \/ at \in {"true", "false"}
       \/ at = "climb" /\ Len(result) = MaxCollected
    /\ UNCHANGED walkVars

WalkNext == TestSelf \/ CollectParent \/ StopClimb \/ TestParent \/ StopScan \/ Idle

WalkSpec == WalkInit /\ [][WalkNext]_walkVars /\ WF_walkVars(WalkNext)

-----------------------------------------------------------------------------
\* The least set of cached pids that holds the parent and is closed under
\* taking the parent.
Closed(T) ==
    /\ asked.ppid \in DOMAIN table => asked.ppid \in T
    /\ \A p \in T : table[p].ppid \in DOMAIN table => table[p].ppid \in T

AncestorsOf == {p \in DOMAIN table : \A T \in SUBSET DOMAIN table : Closed(T) => p \in T}

Answered == at \in {"true", "false"}

(* The types of the variables.                                             *)
WalkTypeOK ==
    /\ table \in Caches /\ asked \in H /\ sought \subseteq WalkPid /\ orEqual \in BOOLEAN
    /\ cur \in Number
    /\ result \in Seq(H) /\ seen \in 0..Len(result)
    /\ at \in {"self", "climb", "scan", "true", "false"}

(* is_child_of says whether some ancestor satisfies the predicate, and     *)
(* is_equal_or_child_of whether the handle or some ancestor does.          *)
AnswerIsAncestry ==
    Answered =>
        (at = "true" <=> \/ orEqual /\ asked.pid \in sought
                         \/ AncestorsOf \intersect sought # {})

(* The loop collects exactly the parents of the closed form, each once, so *)
(* that the other modules may use the closed form in its place.            *)
ClosedFormIsLoop ==
    at \in {"scan", "false"} =>
        /\ {result[k].pid : k \in DOMAIN result} = Parents(asked, table)
        /\ \A k, l \in DOMAIN result : result[k] = result[l] => k = l

(* The climb is over within as many steps as the cache has handles, or it  *)
(* is on a cycle of parent pids and is_child_of never answers: nothing in  *)
(* the loop remembers where it has been.                                   *)
AnswersUnlessCyclic ==
    <>(Answered \/ ~ClimbEnds(asked, table)) /\ []( ~ClimbEnds(asked, table) => at # "scan")

=============================================================================
