----------------------------- MODULE AnchorChoice -----------------------------
(***************************************************************************)
(* The loop of TrySelectNativeSideAnchor (NativeAnchorSidePolicy.h) on the *)
(* candidates ApplyRequestedSide (ManualWebRuntime.cpp) has read from the  *)
(* hunter: which of the anchors the game accepts is taken for a side.      *)
(*                                                                         *)
(* `pivot' and `hand' are signed distances along the actor row of the game *)
(* (positive on the character's left), in units of which Margin are the    *)
(* minimum distance; `usable' is false when a number is not finite.        *)
(***************************************************************************)
EXTENDS Integers, Sequences

CONSTANT Margin     \* minimumSideDistance

ASSUME MarginAssumption == Margin \in Nat

Candidate == [pivot : Int, hand : Int, score : Int,
              nativeValid : BOOLEAN, nativeRejected : BOOLEAN, usable : BOOLEAN]

VARIABLES
    candidates,     \* the hunter's bank
    requestedSide,
    examined,       \* candidates the loop has passed
    best            \* index of the best so far, 0 for none

choiceVars == <<candidates, requestedSide, examined, best>>

WebSides == {"left", "right"}

\* The row of the game is not turned round (mutant).
CharacterRightNative(distance) == distance

\* ApplyRequestedSide negates the actor row: the selector's basis is
\* positive on the right.
CharacterRight(distance) == -distance

OnRequestedSide(distance) ==
    IF requestedSide = "left" THEN CharacterRight(distance) < -Margin
                              ELSE CharacterRight(distance) > Margin

Eligible(c) ==
    /\ c.nativeValid /\ ~c.nativeRejected /\ c.usable
    /\ OnRequestedSide(c.pivot) /\ OnRequestedSide(c.hand)

ChoiceInit ==
    /\ candidates = <<>> /\ requestedSide \in WebSides
    /\ examined = 0 /\ best = 0

BeginChoice(bank, side) ==
    /\ candidates' = bank
    /\ requestedSide' = side
    /\ examined' = 0
    /\ best' = 0

\* The first record on equal score is kept.
Examine ==
    /\ examined < Len(candidates)
    /\ examined' = examined + 1
    /\ best' = IF /\ Eligible(candidates[examined + 1])
                  /\ best # 0 => candidates[examined + 1].score
                                   > candidates[best].score
                 THEN examined + 1 ELSE best
    /\ UNCHANGED <<candidates, requestedSide>>

ChoiceNext ==
    \/ \E bank \in Seq(Candidate), side \in WebSides : BeginChoice(bank, side)
    \/ Examine

ChoiceSpec == ChoiceInit /\ [][ChoiceNext]_choiceVars
-----------------------------------------------------------------------------
\* What the side of a candidate is for the player, and the game's own order.
Serves(c, side) ==
    /\ c.nativeValid /\ ~c.nativeRejected /\ c.usable
    /\ IF side = "left" THEN c.pivot > Margin /\ c.hand > Margin
                        ELSE -c.pivot > Margin /\ -c.hand > Margin
Precedes(i, j) ==
    \/ candidates[i].score > candidates[j].score
    \/ candidates[i].score = candidates[j].score /\ i <= j

(* Of the candidates examined, the one chosen serves the side the player   *)
(* asked for, with its pivot and with its hand, and the game would have    *)
(* preferred it to all others that do; none is chosen only if none does.   *)
ChoiceIsBest ==
    LET serving == {i \in 1 .. examined : Serves(candidates[i], requestedSide)}
    IN IF best = 0 THEN serving = {}
       ELSE best \in serving /\ \A i \in serving : Precedes(best, i)
=============================================================================
