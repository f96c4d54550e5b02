------------------------- MODULE KernelTweaksProofs -------------------------
(***************************************************************************)
(* What KernelTweaks promises, for every list of parameters and any number *)
(* of failures and starts.                                                 *)
(***************************************************************************)
EXTENDS KernelTweaks, TLAPS

Entry == [value : Value, brackets : BOOLEAN]

\* What the daemon remembers at present, wherever it keeps it.
Remembered == IF mode = "apply" THEN prev ELSE saved

\* The remembered value of the j-th parameter would do it no harm.
Harmless(j) ==
    Remembered[j] = Empty \/ Remembered[j].value \in {orig[Path[j]], Tweak(Path[j])}

\* There is an entry for every pair the loop has come past, at most one each.
Pairs ==
    /\ mode = "apply" => Len(prev) = i - 1
    /\ mode = "up" => Len(saved) \in {0, Len(Path)}
    /\ mode = "up" /\ ~lost => Len(saved) = Len(Path)
    /\ mode = "revert" => Len(saved) = Len(Path)

NoHarm == mode \in {"apply", "up", "revert"} =>
            \A j \in 1..Len(Remembered) : Harmless(j)

\* The j-th parameter is as it was; it will be once its entry is written back.
AsItWas(j) == sys[Path[j]] = orig[Path[j]]
WillBe(j) == IF Remembered[j] = Empty THEN AsItWas(j)
             ELSE Remembered[j].value = orig[Path[j]]

\* How far a daemon to which nothing has happened has come.
Undisturbed ==
    ~lost =>
        /\ mode # "aborted"
        /\ \A j \in 1..Len(Path) : Path[j] \notin refused =>
            /\ mode = "apply" => IF j < i THEN WillBe(j) ELSE AsItWas(j)
            /\ mode = "up" => WillBe(j)
            /\ mode = "revert" => IF j < i THEN AsItWas(j) ELSE WillBe(j)
            /\ mode = "down" => AsItWas(j)

TInv == TypeOK /\ OwnOrTweak /\ Pairs /\ NoHarm /\ Undisturbed

------------------------------------------------------------------------------
(* The pairs and their values.                                              *)

\* The parameters are those of the list, each at one place.
LEMMA Places ==
    /\ Len(Path) \in Nat
    /\ \A j \in 1..Len(Path) : Path[j] \in Param
    /\ \A j, k \in 1..Len(Path) : Path[j] = Path[k] => j = k
    /\ \A p \in Param : \E j \in 1..Len(Path) : Path[j] = p
BY PathAssumption DEF Param

\* What is written to a parameter, and what is read from it, is a value.
LEMMA Values ==
    /\ Missing \in Value /\ Empty \in Entry
    /\ \A p \in Param : Own(p) \in Value /\ Tweak(p) \in Value
BY DEF Missing, Value, Empty, Entry, Own, Tweak

LEMMA TextType ==
    ASSUME sys \in [Param -> Value], NEW p \in Param, sys[p] # Missing
    PROVE  Text(p) \in Entry /\ Text(p) # Empty /\ Text(p).value = sys[p]
BY DEF Text, Entry, Empty

\* At the start nothing has been written and nothing is remembered.
LEMMA InitTInv == Init => TInv
<1> SUFFICES ASSUME Init PROVE TInv
    OBVIOUS
<1> USE Places, Values
<1>1. TypeOK
    <2>1. orig \in [Param -> Value] /\ sys = orig
        BY DEF Init
    <2>2. prev \in Seq(Entry) /\ saved \in Seq(Entry)
        BY DEF Init
    <2>3. i \in 1..Len(Path) + 1 /\ faults \in 0..MaxFaults /\ starts \in 1..MaxStarts
        BY BoundsAssumption DEF Init
    <2> QED BY <2>1, <2>2, <2>3 DEF Init, TypeOK, Entry
<1>2. OwnOrTweak
    BY DEF Init, OwnOrTweak
<1>3. Pairs /\ NoHarm
    BY DEF Init, Pairs, NoHarm, Remembered
<1>4. Undisturbed
    BY DEF Init, Undisturbed, AsItWas
<1> QED BY <1>1, <1>2, <1>3, <1>4 DEF TInv

------------------------------------------------------------------------------
(* kernel_tweaks(None).                                                     *)

\* A pair is appended for the parameter the loop has come to: Empty if it is
\* skipped, what was read if it is set.
LEMMA ApplyOne ==
    ASSUME TInv, NEW p \in Param, ApplySkip(p) \/ ApplySet(p)
    PROVE  TInv'
<1> USE Places, Values
<1>1. /\ mode = "apply" /\ mode' = "apply" /\ i \in 1..Len(Path) /\ Path[i] = p
      /\ i' = i + 1 /\ UNCHANGED <<saved, starts, orig, lost, refused>>
      /\ Len(prev) = i - 1
      /\ sys \in [Param -> Value] /\ orig \in [Param -> Value] /\ prev \in Seq(Entry)
    BY DEF TInv, TypeOK, Pairs, ApplySkip, ApplySet, ApplyTo, Entry
<1>2. PICK x \in Entry :
        /\ prev' = Append(prev, x)
        /\ \/ x = Empty /\ sys' = sys
           \/ x # Empty /\ x.value = sys[p] /\ sys' = [sys EXCEPT ![p] = Tweak(p)]
    BY <1>1, TextType DEF ApplySkip, ApplySet
<1>3. /\ prev' \in Seq(Entry) /\ Len(prev') = i /\ prev'[i] = x
      /\ \A j \in 1..Len(prev) : prev'[j] = prev[j]
    BY <1>1, <1>2
<1>4. faults' \in 0..MaxFaults
    BY BoundsAssumption DEF TInv, TypeOK, ApplySkip, ApplySet, Fault
<1>5. TypeOK'
    BY <1>1, <1>2, <1>3, <1>4 DEF TInv, TypeOK, Entry
<1>6. OwnOrTweak'
    BY <1>1, <1>2 DEF TInv, OwnOrTweak
<1>7. Pairs'
    BY <1>1, <1>3 DEF Pairs
<1>8. NoHarm'
    <2> SUFFICES ASSUME NEW j \in 1..Len(prev')
                 PROVE  prev'[j] = Empty \/ prev'[j].value \in {orig[Path[j]], Tweak(Path[j])}
        BY <1>1 DEF NoHarm, Harmless, Remembered
    <2>1. CASE j = i
        BY <2>1, <1>1, <1>2, <1>3 DEF TInv, OwnOrTweak
    <2>2. CASE j # i
        <3>1. j \in 1..Len(prev) /\ prev'[j] = prev[j]
            BY <2>2, <1>1, <1>3
        <3>2. prev[j] = Empty \/ prev[j].value \in {orig[Path[j]], Tweak(Path[j])}
            BY <3>1, <1>1 DEF TInv, NoHarm, Harmless, Remembered
        <3> QED BY <3>1, <3>2
    <2> QED BY <2>1, <2>2
<1>9. Undisturbed'
    <2> SUFFICES ASSUME ~lost, NEW j \in 1..Len(Path), Path[j] \notin refused
                 PROVE  IF j < i + 1 THEN WillBe(j)' ELSE AsItWas(j)'
        BY <1>1 DEF Undisturbed
    <2>1. IF j < i THEN WillBe(j) ELSE AsItWas(j)
        BY <1>1 DEF TInv, Undisturbed
    <2>2. CASE j = i
        BY <2>1, <2>2, <1>1, <1>2, <1>3 DEF WillBe, AsItWas, Remembered
    <2>3. CASE j # i
        <3>1. sys'[Path[j]] = sys[Path[j]]
            BY <2>3, <1>1, <1>2
        <3>2. j < i => prev'[j] = prev[j]
            BY <1>1, <1>3
        <3> QED BY <2>1, <2>3, <3>1, <3>2, <1>1 DEF WillBe, AsItWas, Remembered
    <2> QED BY <2>2, <2>3
<1> QED BY <1>5, <1>6, <1>7, <1>8, <1>9 DEF TInv

\* An error leaves nothing to remember.
LEMMA ApplyFails ==
    ASSUME TInv, NEW p \in Param, ApplyFail(p)
    PROVE  TInv'
<1>1. /\ mode' = "up" /\ saved' = <<>> /\ prev' = <<>> /\ lost' = TRUE
      /\ UNCHANGED <<sys, i, starts, orig, refused>> /\ Fault
    BY DEF ApplyFail
<1>2. TypeOK'
    BY <1>1, BoundsAssumption DEF TInv, TypeOK, Fault
<1>3. OwnOrTweak'
    BY <1>1 DEF TInv, OwnOrTweak
<1>4. Pairs' /\ NoHarm' /\ Undisturbed'
    BY <1>1 DEF Pairs, NoHarm, Remembered, Undisturbed
<1> QED BY <1>2, <1>3, <1>4 DEF TInv

\* main stores what kernel_tweaks returned: an entry for every pair.
LEMMA ApplyEnds ==
    ASSUME TInv, ApplyDone
    PROVE  TInv'
<1> USE Places
<1>1. /\ mode = "apply" /\ mode' = "up" /\ saved' = prev /\ prev' = <<>>
      /\ UNCHANGED <<sys, i, faults, starts, orig, lost, refused>>
      /\ i = Len(Path) + 1 /\ Len(prev) = Len(Path)
    BY DEF ApplyDone, TInv, TypeOK, Pairs
<1>2. TypeOK'
    BY <1>1 DEF TInv, TypeOK
<1>3. OwnOrTweak' /\ Pairs'
    BY <1>1 DEF TInv, OwnOrTweak, Pairs
<1>4. Remembered' = Remembered
    BY <1>1 DEF Remembered
<1>5. NoHarm'
    BY <1>1, <1>4 DEF TInv, NoHarm, Harmless
<1>6. Undisturbed'
    BY <1>1, <1>4 DEF TInv, Undisturbed, WillBe, AsItWas
<1> QED BY <1>2, <1>3, <1>5, <1>6 DEF TInv

------------------------------------------------------------------------------
(* kernel_tweaks(Some(prev)).                                               *)

\* A daemon that has met no error has something to write back.
LEMMA SignalTInv ==
    ASSUME TInv, Signal
    PROVE  TInv'
<1> USE Places
<1>1. /\ mode = "up" /\ mode' = IF saved = <<>> THEN "down" ELSE "revert"
      /\ i' = 1 /\ UNCHANGED <<sys, prev, saved, faults, starts, orig, lost, refused>>
      /\ saved \in Seq(Entry)
    BY DEF Signal, TInv, TypeOK, Entry
<1>2. saved # <<>> => Len(saved) = Len(Path)
    BY <1>1 DEF TInv, Pairs
<1>3. ~lost => saved # <<>>
    BY <1>1, PathAssumption DEF TInv, Pairs
<1>4. TypeOK'
    BY <1>1, <1>2 DEF TInv, TypeOK
<1>5. OwnOrTweak' /\ Pairs'
    BY <1>1, <1>2 DEF TInv, OwnOrTweak, Pairs
<1>6. Remembered' = Remembered
    BY <1>1 DEF Remembered
<1>7. NoHarm'
    BY <1>1, <1>6 DEF TInv, NoHarm, Harmless
<1>8. Undisturbed'
    BY <1>1, <1>3, <1>6 DEF TInv, Undisturbed, WillBe, AsItWas
<1> QED BY <1>4, <1>5, <1>7, <1>8 DEF TInv

\* The remembered value goes back to the parameter it came from, or there was
\* none.
LEMMA RevertOne ==
    ASSUME TInv, NEW p \in Param, RevertSkip(p) \/ RevertSet(p) \/ RevertRefused(p)
    PROVE  TInv'
<1> USE Places, Values
<1>1. /\ mode = "revert" /\ mode' = "revert" /\ i \in 1..Len(Path) /\ Path[i] = p
      /\ i' = i + 1 /\ UNCHANGED <<prev, saved, starts, orig, lost>>
      /\ Len(saved) = Len(Path) /\ saved \in Seq(Entry)
      /\ sys \in [Param -> Value] /\ orig \in [Param -> Value]
    BY DEF TInv, TypeOK, Pairs, RevertSkip, RevertSet, RevertRefused, RevertOf, Entry
<1>2. \/ saved[i] = Empty /\ UNCHANGED <<sys, refused>>
      \/ /\ saved[i] # Empty /\ UNCHANGED refused
         /\ sys' = [sys EXCEPT ![p] = saved[i].value]
      \/ UNCHANGED sys /\ refused' = refused \union {p}
    BY DEF RevertSkip, RevertSet, RevertRefused, Chosen
<1>3. saved[i] \in Entry /\ saved[i].value \in Value
    <2>1. saved[i] \in Entry
        BY <1>1
    <2> QED BY <2>1 DEF Entry
<1>4. Harmless(i) /\ Remembered = saved /\ Remembered' = saved
    BY <1>1 DEF TInv, NoHarm, Remembered
<1>5. faults' \in 0..MaxFaults
    BY BoundsAssumption DEF TInv, TypeOK, RevertSkip, RevertSet, RevertRefused, Fault
<1>6. TypeOK'
    <2>1. sys' \in [Param -> Value] /\ refused' \subseteq Param
        BY <1>1, <1>2, <1>3 DEF TInv, TypeOK
    <2> QED BY <2>1, <1>1, <1>5 DEF TInv, TypeOK
<1>7. OwnOrTweak'
    BY <1>1, <1>2, <1>4 DEF TInv, OwnOrTweak, Harmless
<1>8. Pairs'
    BY <1>1 DEF Pairs
<1>9. NoHarm'
    BY <1>1, <1>4 DEF TInv, NoHarm, Harmless
<1>10. Undisturbed'
    <2> SUFFICES ASSUME ~lost, NEW j \in 1..Len(Path), Path[j] \notin refused'
                 PROVE  IF j < i + 1 THEN AsItWas(j)' ELSE WillBe(j)'
        BY <1>1 DEF Undisturbed
    <2>1. Path[j] \notin refused
        BY <1>2
    <2>2. IF j < i THEN AsItWas(j) ELSE WillBe(j)
        BY <2>1, <1>1 DEF TInv, Undisturbed
    <2>3. CASE j = i
        BY <2>2, <2>3, <1>1, <1>2, <1>4 DEF WillBe, AsItWas
    <2>4. CASE j # i
        <3>1. sys'[Path[j]] = sys[Path[j]]
            BY <2>4, <1>1, <1>2
        <3> QED BY <2>2, <2>4, <3>1, <1>1, <1>4 DEF WillBe, AsItWas
    <2> QED BY <2>3, <2>4
<1> QED BY <1>6, <1>7, <1>8, <1>9, <1>10 DEF TInv

\* An error ends the revert, and is the disturbance.
LEMMA RevertFails ==
    ASSUME TInv, NEW p \in Param, RevertFail(p)
    PROVE  TInv'
<1>1. /\ mode' = "down" /\ lost' = TRUE /\ Fault
      /\ UNCHANGED <<sys, i, prev, saved, starts, orig, refused>>
    BY DEF RevertFail
<1>2. TypeOK'
    BY <1>1, BoundsAssumption DEF TInv, TypeOK, Fault
<1> QED BY <1>1, <1>2 DEF TInv, OwnOrTweak, Pairs, NoHarm, Undisturbed

\* Past the last entry every parameter has been put back.
LEMMA RevertEnds ==
    ASSUME TInv, RevertDone
    PROVE  TInv'
<1> USE Places
<1>1. /\ mode = "revert" /\ mode' = "down" /\ i = Len(Path) + 1
      /\ UNCHANGED <<sys, i, prev, saved, faults, starts, orig, lost, refused>>
    BY DEF RevertDone, TInv, TypeOK, Pairs
<1>2. TypeOK' /\ OwnOrTweak' /\ Pairs' /\ NoHarm'
    BY <1>1 DEF TInv, TypeOK, OwnOrTweak, Pairs, NoHarm
<1>3. Undisturbed'
    BY <1>1 DEF TInv, Undisturbed, AsItWas
<1> QED BY <1>2, <1>3 DEF TInv

------------------------------------------------------------------------------
(* The end of the process, and another one.                                 *)

LEMMA CrashTInv ==
    ASSUME TInv, Crash
    PROVE  TInv'
<1>1. /\ mode' = "aborted" /\ lost' = TRUE /\ Fault
      /\ UNCHANGED <<sys, i, prev, saved, starts, orig, refused>>
    BY DEF Crash
<1>2. TypeOK'
    BY <1>1, BoundsAssumption DEF TInv, TypeOK, Fault
<1> QED BY <1>1, <1>2 DEF TInv, OwnOrTweak, Pairs, NoHarm, Undisturbed

\* The next daemon finds what the last one left, and remembers nothing.
LEMMA StartTInv ==
    ASSUME TInv, Start
    PROVE  TInv'
<1> USE Places
<1>1. /\ mode \in {"down", "aborted"} /\ mode' = "apply"
      /\ i' = 1 /\ prev' = <<>> /\ saved' = <<>>
      /\ starts < MaxStarts /\ starts' = starts + 1
      /\ UNCHANGED <<sys, faults, orig, lost, refused>>
    BY DEF Start
<1>2. TypeOK'
    BY <1>1, BoundsAssumption DEF TInv, TypeOK
<1>3. OwnOrTweak' /\ Pairs' /\ NoHarm'
    BY <1>1 DEF TInv, OwnOrTweak, Pairs, NoHarm, Remembered
<1>4. Undisturbed'
    BY <1>1 DEF TInv, Undisturbed, AsItWas
<1> QED BY <1>2, <1>3, <1>4 DEF TInv

LEMMA NextTInv == TInv /\ [Next]_vars => TInv'
<1> SUFFICES ASSUME TInv, [Next]_vars PROVE TInv'
    OBVIOUS
<1>1. CASE UNCHANGED vars
    BY <1>1 DEF vars, TInv, TypeOK, OwnOrTweak, Pairs, NoHarm, Harmless, Remembered,
                Undisturbed, WillBe, AsItWas
<1>2. CASE \E p \in Param : ApplySkip(p) \/ ApplySet(p)
    BY <1>2, ApplyOne
<1>3. CASE \E p \in Param : ApplyFail(p)
    BY <1>3, ApplyFails
<1>4. CASE \E p \in Param : RevertSkip(p) \/ RevertSet(p) \/ RevertRefused(p)
    BY <1>4, RevertOne
<1>5. CASE \E p \in Param : RevertFail(p)
    BY <1>5, RevertFails
<1>6. CASE ApplyDone
    BY <1>6, ApplyEnds
<1>7. CASE Signal
    BY <1>7, SignalTInv
<1>8. CASE RevertDone
    BY <1>8, RevertEnds
<1>9. CASE Crash
    BY <1>9, CrashTInv
<1>10. CASE Start
    BY <1>10, StartTInv
<1> QED BY <1>1, <1>2, <1>3, <1>4, <1>5, <1>6, <1>7, <1>8, <1>9, <1>10 DEF Next, Stopped

------------------------------------------------------------------------------
LEMMA Invariance == Spec => []TInv
BY InitTInv, NextTInv, PTL DEF Spec

\* The variables of kernel_tweaks keep their types; as many values come back
\* as were written (the assertion at main.rs:440).
THEOREM TypeCorrect == Spec => []TypeOK
<1>1. TInv => TypeOK
    BY DEF TInv
<1> QED BY <1>1, Invariance, PTL

\* For any list of parameters and through any failures, aborts and starts, no
\* parameter ever has another one's value (the zip at main.rs:442).
THEOREM NeverAStrangersValue == Spec => []OwnOrTweak
<1>1. TInv => OwnOrTweak
    BY DEF TInv
<1> QED BY <1>1, Invariance, PTL

\* A daemon that was never disturbed leaves every parameter that took its value
\* back as the first start found it.
THEOREM TweaksUndone == Spec => []ExitRestoresTweaks
<1>1. TInv => ExitRestoresTweaks
    <2> SUFFICES ASSUME TInv, mode = "down", ~lost, NEW p \in Param \ refused
                 PROVE  sys[p] = orig[p]
        BY DEF ExitRestoresTweaks
    <2>1. PICK j \in 1..Len(Path) : Path[j] = p
        BY Places
    <2> QED BY <2>1 DEF TInv, Undisturbed, AsItWas
<1> QED BY <1>1, Invariance, PTL

=============================================================================
