---------------------------- MODULE LockProtocol ----------------------------
(***************************************************************************)
(* What the daemon's threads promise about its two mutexes                 *)
(* (src/src/main.rs), without saying what they do with them: a thread that *)
(* takes both takes the state first, nobody asks for the state while it    *)
(* has the cache, and what is taken is given back.  The cache may also be  *)
(* locked for an instant inside one step; nobody sees it locked then.      *)
(***************************************************************************)
CONSTANTS
    Thread,     \* the threads
    NoThread    \* nobody

VARIABLES
    stateOwner, cacheOwner,     \* who holds each mutex
    up                          \* is the process running?

vars == <<stateOwner, cacheOwner, up>>

LockState(t) ==
    /\ up
    /\ stateOwner = NoThread /\ cacheOwner # t
    /\ stateOwner' = t
    /\ UNCHANGED <<cacheOwner, up>>

LockCache(t) ==
    /\ up
    /\ cacheOwner = NoThread
    /\ cacheOwner' = t
    /\ UNCHANGED <<stateOwner, up>>

\* Whatever t holds is unlocked in one go, as guards are at the end of a
\* statement or of a block.
Unlock(t) ==
    /\ up
    /\ t \in {stateOwner, cacheOwner}
    /\ stateOwner' = IF stateOwner = t THEN NoThread ELSE stateOwner
    /\ cacheOwner' = IF cacheOwner = t THEN NoThread ELSE cacheOwner
    /\ UNCHANGED up

\* The process ends, with or without its locks held.
Stop == up /\ up' = FALSE /\ UNCHANGED <<stateOwner, cacheOwner>>

\* It starts again.
Start ==
    /\ ~up
    /\ up' = TRUE
    /\ stateOwner' = NoThread /\ cacheOwner' = NoThread

Init == stateOwner = NoThread /\ cacheOwner = NoThread /\ up = TRUE

Next ==
    \/ \E t \in Thread : LockState(t) \/ LockCache(t) \/ Unlock(t)
    \/ Stop \/ Start

Spec ==
    /\ Init /\ [][Next]_vars
    /\ \A t \in Thread : WF_vars(Unlock(t))

=============================================================================
