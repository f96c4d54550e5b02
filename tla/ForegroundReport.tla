--------------------------- MODULE ForegroundReport ---------------------------
(***************************************************************************)
(* What the daemon may believe about the window in the foreground, however *)
(* the client and the socket bring it the news: something that has been    *)
(* true, and never something older than what it believed before; or        *)
(* nothing.  Client implements this.                                       *)
(***************************************************************************)
EXTENDS Naturals, Sequences

CONSTANTS NoPid, App

VARIABLES
    trail,      \* the windows that have been in the foreground, in order
    known,      \* what the daemon believes, NoPid for nothing
    place       \* how far along the trail the last news was

vars == <<trail, known, place>>

Init ==
    /\ \E p \in App : trail = <<p>>
    /\ known = NoPid /\ place = 1

Show ==
    /\ \E p \in App : trail' = Append(trail, p)
    /\ UNCHANGED <<known, place>>

\* News that is younger than the last, or as old.
Learn ==
    /\ \E i \in place..Len(trail) :
        place' = i /\ known' \in {trail[i], NoPid}
    /\ UNCHANGED trail

\* The next daemon knows nothing, but it will not be told anything older.
Forget ==
    /\ known' = NoPid
    /\ UNCHANGED <<trail, place>>

Next == Show \/ Learn \/ Forget

Spec == Init /\ [][Next]_vars

===============================================================================
