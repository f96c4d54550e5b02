--------------------------- MODULE PreSuspendProofs ---------------------------
(***************************************************************************)
(* pre-suspend for every number of threads up to the size of a page, and   *)
(* everything the cards' memory may come to in whole pages.                *)
(***************************************************************************)
EXTENDS PreSuspend, FiniteSetTheorems, TLAPS

\* How many threads there are.
LEMMA CountPositive == Count \in Nat \ {0} /\ Count <= Page /\ Page \in Nat \ {0}
<1>1. Cardinality(Thread) \in Nat /\ Cardinality(Thread) # 0
  BY ThreadAssumption, FS_CardinalityType, FS_EmptySet
<1> QED
  BY <1>1, ThreadAssumption DEF Count

\* Rounding up gives a multiple that is not less.
LEMMA RoundUp ==
    ASSUME NEW q \in Nat, NEW p \in Nat \ {0}
    PROVE  /\ ((q + p - 1) \div p) \in Nat
           /\ ((q + p - 1) \div p) * p >= q
  OBVIOUS

\* Division with remainder.
LEMMA Division ==
    ASSUME NEW n \in Nat, NEW d \in Nat \ {0}
    PROVE  /\ n \div d \in Nat /\ n % d \in 0..(d - 1)
           /\ n = d * (n \div d) + (n % d)
  OBVIOUS

\* The shares add up to no less than the total, although it is divided with
\* truncation, because it is in whole pages (alloc_fault_in, pre-suspend.rs:57).
THEOREM SharesSuffice ==
    ASSUME NEW n \in Nat, n % Page = 0
    PROVE  Count * Share(n) >= n
<1> DEFINE q == n \div Count
           r == n % Count
           j == (q + Page - 1) \div Page
           k == n \div Page
<1>0. Count \in Nat \ {0} /\ Count <= Page /\ Page \in Nat \ {0}
  BY CountPositive
<1>1. q \in Nat /\ r \in 0..(Count - 1) /\ n = Count * q + r
  BY <1>0, Division
<1>2. j \in Nat /\ j * Page >= q
  BY <1>0, <1>1, RoundUp
<1>3. k \in Nat /\ n = Page * k
  BY <1>0, Division
<1>4. Share(n) = j * Page
  BY DEF Share
<1> HIDE DEF q, r, j, k
<1>5. CASE j * Page = q
  <2>1. r = Page * (k - Count * j)
    BY <1>0, <1>1, <1>2, <1>3, <1>5
  <2>2. r < Page /\ r >= 0
    BY <1>0, <1>1
  <2>3. k - Count * j \in Int
    BY <1>0, <1>2, <1>3
  <2>4. k - Count * j = 0
    <3>1. k - Count * j < 1
      <4>1. SUFFICES ASSUME k - Count * j >= 1 PROVE FALSE
        BY <2>3
      <4>2. Page * (k - Count * j) >= Page
        BY <1>0, <2>3, <4>1
      <4> QED
        BY <1>0, <2>1, <2>2, <4>2
    <3>2. k - Count * j > -1
      <4>1. SUFFICES ASSUME k - Count * j <= -1 PROVE FALSE
        BY <2>3
      <4>2. Page * (k - Count * j) <= -Page
        BY <1>0, <2>3, <4>1
      <4> QED
        BY <1>0, <2>1, <2>2, <4>2
    <3> QED
      BY <2>3, <3>1, <3>2
  <2>5. r = 0
    BY <1>0, <2>1, <2>4
  <2> QED
    BY <1>0, <1>1, <1>4, <1>5, <2>5
<1>6. CASE j * Page >= q + 1
  <2>1. Count * (j * Page) >= Count * (q + 1)
    BY <1>0, <1>1, <1>2, <1>6
  <2>2. Count * (q + 1) = Count * q + Count
    BY <1>0, <1>1
  <2> QED
    BY <1>0, <1>1, <1>2, <1>4, <2>1, <2>2
<1>7. j * Page \in Nat
  BY <1>0, <1>2
<1> QED
  BY <1>1, <1>2, <1>5, <1>6, <1>7

------------------------------------------------------------------------------
(* The barrier.                                                             *)

\* Until the barrier opens, who has arrived is inside; afterwards nobody is
\* still on the way.
Barrier ==
    /\ ~open => /\ \A t \in Thread : pc[t] \in {"alloc", "arrive", "wait"}
                /\ inside = {t \in Thread : pc[t] = "wait"}
    /\ open => \A t \in Thread : pc[t] \in {"wait", "free", "end"}

WholePages == total % Page = 0

IInv == TypeOK /\ Barrier /\ WholePages

\* The last to arrive is the only one that is not inside.
LEMMA LastIsAlone ==
    ASSUME NEW t \in Thread, inside \subseteq Thread \ {t}, Last
    PROVE  inside = Thread \ {t}
<1>1. IsFiniteSet(Thread \ {t}) /\ Cardinality(Thread \ {t}) = Count - 1
  BY ThreadAssumption, FS_RemoveElement DEF Count
<1>2. Cardinality(inside) \in Nat
  BY <1>1, FS_Subset, FS_CardinalityType
<1>3. Cardinality(inside) = Cardinality(Thread \ {t})
  BY <1>1, <1>2, CountPositive DEF Last
<1> QED
  BY <1>1, <1>3, FS_Subset

LEMMA InitIInv == Init => IInv
<1> SUFFICES ASSUME Init PROVE IInv
  OBVIOUS
<1>1. TypeOK /\ Barrier
  BY DEF Init, TypeOK, Barrier
<1>2. 0 % Page = 0
  BY CountPositive
<1> QED
  BY <1>1, <1>2 DEF Init, IInv, WholePages

\* Every step preserves the invariant.
LEMMA NextIInv == IInv /\ [Next]_vars => IInv'
<1> SUFFICES ASSUME IInv, [Next]_vars PROVE IInv'
  OBVIOUS
<1> USE DEF IInv, TypeOK, Barrier, WholePages
<1>1. CASE Begin
  BY <1>1, NeedsAssumption DEF Begin, Total
<1>2. CASE Finish
  BY <1>2 DEF Finish
<1>3. ASSUME NEW t \in Thread, ThreadStep(t) PROVE IInv'
  <2>1. CASE Alloc(t)
    BY <2>1 DEF Alloc, At, Goto
  <2>2. CASE AllocPanics(t)
    BY <2>2 DEF AllocPanics, At
  <2>3. CASE Arrive(t)
    <3>1. ~open /\ inside \subseteq Thread \ {t}
      BY <2>3 DEF Arrive, At
    <3>2. CASE Last
      <4>1. \A u \in Thread \ {t} : pc[u] = "wait"
        BY <3>1, <3>2, LastIsAlone
      <4> QED
        BY <2>3, <3>2, <4>1 DEF Arrive, At, Goto
    <3>3. CASE ~Last
      BY <2>3, <3>1, <3>3 DEF Arrive, At, Goto
    <3> QED
      BY <3>2, <3>3
  <2>4. CASE Leave(t)
    BY <2>4 DEF Leave, At, Goto
  <2>5. CASE Free(t)
    BY <2>5 DEF Free, At, Goto
  <2> QED
    BY <1>3, <2>1, <2>2, <2>3, <2>4, <2>5 DEF ThreadStep
<1>4. CASE UNCHANGED vars
  BY <1>4 DEF vars
<1> QED
  BY <1>1, <1>2, <1>3, <1>4 DEF Next, Over

\* Every variable stays in its range (pre-suspend.rs:21-83).
THEOREM TypeCorrect == Spec => []TypeOK
<1>1. IInv => TypeOK
  BY DEF IInv
<1> QED
  BY <1>1, InitIInv, NextIInv, PTL DEF Spec

\* No thread gives back before all have had theirs, and together they had
\* enough (pre-suspend.rs:55-77).
THEOREM NoneLeavesEarly == Spec => []AllBeforeAny
<1>1. IInv => AllBeforeAny
  <2> SUFFICES ASSUME IInv, NEW t \in Thread, pc[t] \in {"free", "end"}
               PROVE  /\ \A u \in Thread : pc[u] \in {"wait", "free", "end"}
                      /\ Count * Share(total) >= total
    BY DEF AllBeforeAny
  <2>1. total \in Nat /\ total % Page = 0
    BY DEF IInv, TypeOK, WholePages
  <2>2. \A u \in Thread : pc[u] \in {"wait", "free", "end"}
    BY DEF IInv, Barrier, TypeOK
  <2> QED
    BY <2>1, <2>2, SharesSuffice
<1> QED
  BY <1>1, InitIInv, NextIInv, PTL DEF Spec

===============================================================================
