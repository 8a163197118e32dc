------------------------------ MODULE SideHold ------------------------------
(***************************************************************************)
(* What the mod promises about the one native rope, whatever the device.   *)
(*                                                                         *)
(* The game has a single web.  The mod lets the player hold it on a chosen *)
(* side: `holder' is that side, or NoSide when the mod asks for nothing.   *)
(* `submit' is the native rope submission in progress: a side when it runs *)
(* on the mod's request, "stock" when the game submits on its own, NoSide  *)
(* when none runs.                                                         *)
(*                                                                         *)
(* The promise: a hold never passes directly from one side to the other;   *)
(* a submission on a side runs only for the side that is held, a stock one *)
(* only when nothing is held; and the hold does not change while a         *)
(* submission runs.                                                        *)
(***************************************************************************)
CONSTANTS Sides,    \* the two sides
          NoSide,   \* no hold, no submission
          Stock     \* the game's own submission

VARIABLES holder, submit

vars == <<holder, submit>>

TypeOK ==
    /\ holder \in Sides \cup {NoSide}
    /\ submit \in Sides \cup {NoSide, Stock}

Init ==
    /\ holder = NoSide
    /\ submit = NoSide

\* The player's press on side s starts a hold.
Take(s) ==
    /\ holder = NoSide
    /\ submit = NoSide
    /\ holder' = s
    /\ UNCHANGED submit

\* A release, a cancellation or a reset ends it.
Drop ==
    /\ holder # NoSide
    /\ submit = NoSide
    /\ holder' = NoSide
    /\ UNCHANGED submit

\* The game starts to submit a rope: on the held side, or its own choice when
\* nothing is held.
Submit ==
    /\ submit = NoSide
    /\ \/ holder # NoSide /\ submit' = holder
       \/ holder = NoSide /\ submit' = Stock
    /\ UNCHANGED holder

Finish ==
    /\ submit # NoSide
    /\ submit' = NoSide
    /\ UNCHANGED holder

Next ==
    \/ \E s \in Sides : Take(s)
    \/ Drop
    \/ Submit
    \/ Finish

Spec == Init /\ [][Next]_vars
=============================================================================
