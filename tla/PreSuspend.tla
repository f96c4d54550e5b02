------------------------------ MODULE PreSuspend ------------------------------
(***************************************************************************)
(* pre-suspend (src/src/bin/pre-suspend.rs), which makes room in memory    *)
(* for the contents of the graphics cards before the machine is suspended: *)
(* one thread per CPU takes its share of what they need, all wait for one  *)
(* another, and give it back.  While one of them still has to take its     *)
(* share, what another gives back could be taken by anybody.               *)
(***************************************************************************)
EXTENDS Integers, Sequences, FiniteSets

CONSTANTS
    Thread,     \* one per CPU
    Page,       \* bytes in a page
    Needs,      \* what all the cards' memory may come to
    Spare,      \* what is taken on top, a GiB
    Releases    \* versions of the kernel, as sequences of numbers

ASSUME ThreadAssumption ==
    /\ IsFiniteSet(Thread) /\ Thread # {}
    /\ Page \in Nat /\ Cardinality(Thread) <= Page
ASSUME NeedsAssumption ==
    /\ Spare \in Nat /\ Needs \subseteq Nat
    /\ \A n \in Needs : (n + Spare) % Page = 0

VARIABLES
    phase,      \* "start", "work", or how the program ended
    total,      \* bytes to take
    pc,         \* where each thread is
    inside,     \* threads waiting in the barrier
    open        \* the barrier's generation has passed

vars == <<phase, total, pc, inside, open>>

Count == Cardinality(Thread)

\* Vec's order: the first difference decides, and the longer one is greater.
AtLeast(v, w) ==
    \/ v = w
    \/ \E i \in 1..Len(v) :
        /\ i <= Len(w) + 1
        /\ \A j \in 1..(i - 1) : v[j] = w[j]
        /\ i <= Len(w) => v[i] > w[i]

\* Mutant: the wrong sign.
TotalLess(n) == n - Spare

Total(n) == n + Spare

\* Mutant: rounded down to whole pages.
ShareDown(n) == ((n \div Count) \div Page) * Page

\* total / thread_count, which alloc_fault_in rounds up to whole pages.
Share(n) == (((n \div Count) + Page - 1) \div Page) * Page

Begin ==
    /\ phase = "start"
    /\ \/ /\ \E r \in Releases : AtLeast(r, <<6, 14, 0>>)
          /\ phase' = "skipped"
          /\ UNCHANGED total
       \/ /\ \E r \in Releases : ~AtLeast(r, <<6, 14, 0>>)
          /\ phase' = "work"
          /\ \E n \in Needs : total' = Total(n)
       \/ /\ phase' = "aborted"     \* a name or a number it cannot read
          /\ UNCHANGED total
    /\ UNCHANGED <<pc, inside, open>>

At(t, l) == phase = "work" /\ pc[t] = l
Goto(t, l) == pc' = [pc EXCEPT ![t] = l]

\* alloc_fault_in: mmap, and madvise, which has the kernel provide the pages
\* at once.  (Nobody asks whether it did.)
Alloc(t) ==
    /\ At(t, "alloc")
    /\ Goto(t, "arrive")
    /\ UNCHANGED <<phase, total, inside, open>>

\* The thread is not started, or mmap fails: a panic, and with panic = 'abort' that is the end.
AllocPanics(t) ==
    /\ At(t, "alloc")
    /\ phase' = "aborted"
    /\ UNCHANGED <<total, pc, inside, open>>

\* Mutant: a barrier for one thread more.
LastMany == Cardinality(inside) = Count

\* The thread that is about to arrive is the one the others wait for.
Last == Cardinality(inside) + 1 = Count

\* barrier.wait(): the last one lets all of them go.
Arrive(t) ==
    /\ At(t, "arrive")
    /\ IF Last
       THEN inside' = {} /\ open' = TRUE /\ Goto(t, "free")
       ELSE inside' = inside \union {t} /\ Goto(t, "wait") /\ UNCHANGED open
    /\ UNCHANGED <<phase, total>>

Leave(t) ==
    /\ At(t, "wait")
    /\ open
    /\ Goto(t, "free")
    /\ UNCHANGED <<phase, total, inside, open>>

\* drop(buf)
Free(t) ==
    /\ At(t, "free")
    /\ Goto(t, "end")
    /\ UNCHANGED <<phase, total, inside, open>>

\* The scope ends when all its threads have.
Finish ==
    /\ phase = "work"
    /\ \A t \in Thread : pc[t] = "end"
    /\ phase' = "done"
    /\ UNCHANGED <<total, pc, inside, open>>

ThreadStep(t) ==
    Alloc(t) \/ AllocPanics(t) \/ Arrive(t) \/ Leave(t) \/ Free(t)

Init ==
    /\ phase = "start" /\ total = 0
    /\ pc = [t \in Thread |-> "alloc"]
    /\ inside = {} /\ open = FALSE

Over == phase \in {"skipped", "done", "aborted"} /\ UNCHANGED vars

Next == Begin \/ Finish \/ Over \/ \E t \in Thread : ThreadStep(t)

\* The program and its threads run.
Fairness ==
    /\ WF_vars(Begin) /\ WF_vars(Finish)
    /\ \A t \in Thread : WF_vars(ThreadStep(t))

Spec == Init /\ [][Next]_vars
FairSpec == Spec /\ Fairness

------------------------------------------------------------------------------
(* Properties.                                                              *)

\* Every variable stays in its range (pre-suspend.rs:21-83).
TypeOK ==
    /\ phase \in {"start", "work", "skipped", "done", "aborted"}
    /\ total \in Nat
    /\ pc \in [Thread -> {"alloc", "arrive", "wait", "free", "end"}]
    /\ inside \subseteq Thread
    /\ open \in BOOLEAN

\* No thread gives its memory back before every one has had its own, and what
\* they have then is enough for the cards: the shares are rounded down to
\* bytes and up to pages (pre-suspend.rs:55-77, lib.rs:34-43).
AllBeforeAny ==
    (\E t \in Thread : pc[t] \in {"free", "end"}) =>
        /\ \A t \in Thread : pc[t] \in {"wait", "free", "end"}
        /\ Count * Share(total) >= total

\* The program always comes to an end, and the barrier lets everybody go:
\* one that stays behind would hold up the suspend (pre-suspend.rs:52-80).
Ends == <>(phase \in {"skipped", "done", "aborted"})

===============================================================================
