---------------------------- MODULE HeroRegister ----------------------------
(***************************************************************************)
(* What the hero publication promises its readers: an atomic register.     *)
(* `value' counts the publications so far and stands for the last one;     *)
(* a read returns the value of one moment during the read, or fails.       *)
(***************************************************************************)
EXTENDS Integers

CONSTANTS Readers

VARIABLES value,    \* the publication in force, 0 before the first
          seen      \* what each reader holds: a publication, or 0

vars == <<value, seen>>

Init == value = 0 /\ seen = [r \in Readers |-> 0]

Write ==
    /\ value' = value + 1
    /\ UNCHANGED seen

Read(r) ==
    /\ seen[r] = 0
    /\ seen' = [seen EXCEPT ![r] = value]
    /\ UNCHANGED value

Forget(r) ==
    /\ seen' = [seen EXCEPT ![r] = 0]
    /\ UNCHANGED value

Next == Write \/ \E r \in Readers : Read(r) \/ Forget(r)

Spec == Init /\ [][Next]_vars
=============================================================================
