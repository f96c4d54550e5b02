---------------------------- MODULE KernelTweaks ----------------------------
(***************************************************************************)
(* kernel_tweaks (src/src/main.rs): at the start the daemon writes its own *)
(* values to a list of kernel parameters and remembers what they were; on  *)
(* SIGINT or SIGTERM it writes the remembered values back.  Any open, read *)
(* or write may fail, and the daemon may be aborted anywhere and started   *)
(* again, when it has nothing but the parameters themselves to go by.      *)
(*                                                                         *)
(* The value of a parameter says whose it is, so that a value written to   *)
(* the wrong parameter shows.                                              *)
(***************************************************************************)
EXTENDS Naturals, Sequences

CONSTANTS
    Path,       \* the parameters of values, in order
    Menu,       \* those that read as a menu: "always [madvise] never"
    MaxFaults,  \* bound of a run: calls that fail
    MaxStarts   \* bound of a run: starts of the daemon

ASSUME PathAssumption ==
    /\ Path \in Seq(Nat) /\ Len(Path) > 0
    /\ \A i, j \in 1..Len(Path) : Path[i] = Path[j] => i = j

ASSUME BoundsAssumption == MaxFaults \in Nat /\ MaxStarts \in Nat \ {0}

Param == {Path[i] : i \in 1..Len(Path)}

VARIABLES
    sys,        \* sys[p]: the value parameter p has, Missing if it has no file
    mode,       \* what the daemon does: "apply", "up", "revert", or "down",
                \* "aborted" when it does not run
    i,          \* the pair of values the loop has come to
    prev,       \* kernel_tweaks's result so far
    saved,      \* main's kernel_tweaks_prev: <<>> for None
    faults, starts,     \* bounds
    orig,       \* history: the parameters before the daemon touched them
    lost,       \* history: an error cost the daemon the remembered values or
                \* the rest of the revert, or it was aborted
    refused     \* history: parameters that did not take their value back

vars == <<sys, mode, i, prev, saved, faults, starts, orig, lost, refused>>

Missing == [of |-> 0, is |-> "missing"]
Own(p) == [of |-> p, is |-> "own"]
Tweak(p) == [of |-> p, is |-> "tweak"]
Value == [of : Param, is : {"own", "tweak", "menu"}] \union {Missing}

\* What is read from p: a menu with the value in brackets, or the value.
Text(p) == [value |-> sys[p], brackets |-> p \in Menu]
Empty == [value |-> Missing, brackets |-> FALSE]

\* Mutant: the text goes back as it was read; no parameter has a whole menu
\* for its value.
WholeText(t) == IF t.brackets THEN [t.value EXCEPT !.is = "menu"] ELSE t.value

\* What is between the brackets, if there are any.
Chosen(t) == t.value

Fault == faults < MaxFaults /\ faults' = faults + 1

------------------------------------------------------------------------------
(* kernel_tweaks(None).                                                     *)

ApplyTo(p) == mode = "apply" /\ i <= Len(Path) /\ Path[i] = p

\* Mutant: nothing is remembered for a parameter that is skipped.
ApplySkipForgotten(p) ==
    /\ ApplyTo(p)
    /\ \/ sys[p] = Missing /\ UNCHANGED faults
       \/ sys[p] # Missing /\ Fault
    /\ i' = i + 1
    /\ UNCHANGED <<sys, mode, prev, saved, starts, orig, lost, refused>>

\* File::create fails: "does not exist, skipping".
ApplySkip(p) ==
    /\ ApplyTo(p)
    /\ \/ sys[p] = Missing /\ UNCHANGED faults
       \/ sys[p] # Missing /\ Fault
    /\ prev' = Append(prev, Empty)
    /\ i' = i + 1
    /\ UNCHANGED <<sys, mode, saved, starts, orig, lost, refused>>

\* The old value is read and remembered, the new one written.
ApplySet(p) ==
    /\ ApplyTo(p)
    /\ sys[p] # Missing
    /\ prev' = Append(prev, Text(p))
    /\ sys' = [sys EXCEPT ![p] = Tweak(p)]
    /\ i' = i + 1
    /\ UNCHANGED <<mode, saved, faults, starts, orig, lost, refused>>

\* The read or the write fails: `?` returns, and what was remembered is gone.
ApplyFail(p) ==
    /\ ApplyTo(p)
    /\ sys[p] # Missing
    /\ Fault
    /\ mode' = "up" /\ saved' = <<>> /\ prev' = <<>>
    /\ lost' = TRUE
    /\ UNCHANGED <<sys, i, starts, orig, refused>>

ApplyDone ==
    /\ mode = "apply"
    /\ i > Len(Path)
    /\ mode' = "up" /\ saved' = prev /\ prev' = <<>>
    /\ UNCHANGED <<sys, i, faults, starts, orig, lost, refused>>

------------------------------------------------------------------------------
(* kernel_tweaks(Some(prev)), called when a signal has arrived.             *)

Signal ==
    /\ mode = "up"
    /\ mode' = IF saved = <<>> THEN "down" ELSE "revert"
    /\ i' = 1
    /\ UNCHANGED <<sys, prev, saved, faults, starts, orig, lost, refused>>

RevertOf(p) == mode = "revert" /\ i <= Len(saved) /\ Path[i] = p

RevertSkip(p) ==
    /\ RevertOf(p)
    /\ saved[i] = Empty
    /\ i' = i + 1
    /\ UNCHANGED <<sys, mode, prev, saved, faults, starts, orig, lost, refused>>

RevertSet(p) ==
    /\ RevertOf(p)
    /\ saved[i] # Empty
    /\ sys' = [sys EXCEPT ![p] = Chosen(saved[i])]
    /\ i' = i + 1
    /\ UNCHANGED <<mode, prev, saved, faults, starts, orig, lost, refused>>

\* Mutant: `?` in place of handle_error, so that a refused value ends the loop.
RevertRefusedEnds(p) ==
    /\ RevertOf(p)
    /\ saved[i] # Empty
    /\ Fault
    /\ refused' = refused \union {p}
    /\ mode' = "down"
    /\ UNCHANGED <<sys, i, prev, saved, starts, orig, lost>>

\* The write fails: the error is printed and the loop goes on.
RevertRefused(p) ==
    /\ RevertOf(p)
    /\ saved[i] # Empty
    /\ Fault
    /\ refused' = refused \union {p}
    /\ i' = i + 1
    /\ UNCHANGED <<sys, mode, prev, saved, starts, orig, lost>>

\* File::create fails: `?` returns, the rest is not written back.
RevertFail(p) ==
    /\ RevertOf(p)
    /\ saved[i] # Empty
    /\ Fault
    /\ mode' = "down"
    /\ lost' = TRUE
    /\ UNCHANGED <<sys, i, prev, saved, starts, orig, refused>>

RevertDone ==
    /\ mode = "revert"
    /\ i > Len(saved)
    /\ mode' = "down"
    /\ UNCHANGED <<sys, i, prev, saved, faults, starts, orig, lost, refused>>

------------------------------------------------------------------------------
(* abort() or a panic, and another start.                                   *)

Crash ==
    /\ mode \in {"apply", "up", "revert"}
    /\ Fault
    /\ mode' = "aborted"
    /\ lost' = TRUE
    /\ UNCHANGED <<sys, i, prev, saved, starts, orig, refused>>

Start ==
    /\ mode \in {"down", "aborted"}
    /\ starts < MaxStarts /\ starts' = starts + 1
    /\ mode' = "apply"
    /\ i' = 1 /\ prev' = <<>> /\ saved' = <<>>
    /\ UNCHANGED <<sys, faults, orig, lost, refused>>

Stopped ==
    /\ mode \in {"down", "aborted"} /\ starts = MaxStarts
    /\ UNCHANGED vars

Init ==
    /\ orig \in [Param -> Value]
    /\ \A p \in Param : orig[p] \in {Own(p), Missing}
    /\ sys = orig
    /\ mode = "apply" /\ i = 1 /\ prev = <<>> /\ saved = <<>>
    /\ faults = 0 /\ starts = 1
    /\ lost = FALSE /\ refused = {}

Next ==
    \/ \E p \in Param :
        \/ ApplySkip(p) \/ ApplySet(p) \/ ApplyFail(p)
        \/ RevertSkip(p) \/ RevertSet(p) \/ RevertRefused(p) \/ RevertFail(p)
    \/ ApplyDone \/ Signal \/ RevertDone
    \/ Crash \/ Start \/ Stopped

Spec == Init /\ [][Next]_vars

------------------------------------------------------------------------------
(* Properties.                                                              *)

\* Every parameter has its own value or the daemon's, never another one's and
\* never a menu, through any number of failures, aborts and starts (the zip
\* of values and revert, main.rs:442, and the brackets, main.rs:444-451).
OwnOrTweak == \A p \in Param : sys[p] \in {orig[p], Tweak(p)}

\* When the daemon has ended by a signal, and neither was aborted nor met an
\* error that made it return early, every parameter that took its value back
\* is as it was, however often the daemon was started.
ExitRestoresTweaks ==
    mode = "down" /\ ~lost => \A p \in Param \ refused : sys[p] = orig[p]

\* Every variable stays in its range, and as many values come back as were
\* written, whichever parameters were skipped (kernel_tweaks, the assertion at
\* main.rs:440).
TypeOK ==
    /\ sys \in [Param -> Value] /\ orig \in [Param -> Value]
    /\ mode \in {"apply", "up", "revert", "down", "aborted"}
    /\ i \in 1..Len(Path) + 1
    /\ prev \in Seq([value : Value, brackets : BOOLEAN])
    /\ saved \in Seq([value : Value, brackets : BOOLEAN])
    /\ mode = "revert" => Len(saved) = Len(Path)
    /\ faults \in 0..MaxFaults /\ starts \in 1..MaxStarts
    /\ lost \in BOOLEAN /\ refused \subseteq Param

=============================================================================
