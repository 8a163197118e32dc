----------------------------- MODULE MouseProofs -----------------------------
(***************************************************************************)
(* Proofs about the mouse policy under a mouse that may lose ups.  The     *)
(* inductive invariant adds to the checked ones that the game holds a      *)
(* button only while it is physically down or after its up got lost:       *)
(* without it a fresh capture could meet a button the game still sees down *)
(* for no known reason.                                                    *)
(***************************************************************************)
EXTENDS MouseMonitor, TLAPS

SeenExplained == seen \subseteq pressed \cup stale

IInv ==
    /\ MonitorTypeOK
    /\ NoUnmatchedUp
    /\ NoLeakedDown
    /\ HoldHasButton
    /\ SeenExplained

LEMMA InitInv == MonitorInit => IInv
BY DEF MonitorInit, Init, NoDecision, IInv, MonitorTypeOK, TypeOK, Decisions,
       NoUnmatchedUp, NoLeakedDown, HoldHasButton, SeenExplained

\* What a press does to the latches, the owners and the game's view.
LEMMA DownStep ==
    ASSUME TypeOK, NEW s \in Sides, NEW e \in Eligibilities, Down(s, e)
    PROVE  /\ TypeOK'
           /\ captured \subseteq captured'
           /\ captured' \subseteq captured \cup {s}
           /\ decision'.consume <=> s \in captured'
           /\ \/ owns' = owns
              \/ owns = {} /\ owns' = {s} /\ s \in captured'
<1> USE DEF TypeOK
<1>1. CASE Duplicate(s)
  <2>1. decision' = [consume |-> TRUE, attach |-> {}, release |-> {},
                     press |-> FALSE, lift |-> FALSE]
    BY <1>1 DEF Duplicate, NoDecision
  <2>2. decision' \in Decisions /\ decision'.consume
    BY <2>1 DEF Decisions
  <2>3. QED
    BY <1>1, <2>2 DEF Duplicate
<1>2. CASE PassToGame(s, e)
  <2>1. decision' \in Decisions /\ ~decision'.consume
    BY <1>2 DEF PassToGame, NoDecision, Decisions
  <2>2. QED
    BY <1>2, <2>1 DEF PassToGame
<1>3. CASE Suppress(s, e)
  <2>1. decision' = [consume |-> TRUE, attach |-> {}, release |-> {},
                     press |-> FALSE, lift |-> FALSE]
    BY <1>3 DEF Suppress, NoDecision
  <2>2. decision' \in Decisions /\ decision'.consume
    BY <2>1 DEF Decisions
  <2>3. QED
    BY <1>3, <2>2 DEF Suppress
<1>4. CASE Own(s, e)
  <2>1. decision' \in Decisions /\ decision'.consume
    BY <1>4 DEF Own, Decisions
  <2>2. QED
    BY <1>4, <2>1 DEF Own
<1>5. QED
  BY <1>1, <1>2, <1>3, <1>4 DEF Down

\* What an up does: it is consumed exactly when the button was captured.
LEMMA UpStep ==
    ASSUME TypeOK, NEW s \in Sides, Up(s)
    PROVE  /\ TypeOK'
           /\ captured' = captured \ {s}
           /\ decision'.consume <=> s \in captured
           /\ owns' = owns \/ (s \in captured /\ owns' = owns \ {s})
<1> USE DEF TypeOK
<1>1. CASE UpNative(s)
  <2>1. decision' \in Decisions /\ ~decision'.consume
    BY <1>1 DEF UpNative, NoDecision, Decisions
  <2>2. QED
    BY <1>1, <2>1 DEF UpNative
<1>2. CASE UpCaptured(s)
  <2>1. decision' \in Decisions /\ decision'.consume
    BY <1>2 DEF UpCaptured, Decisions
  <2>2. QED
    BY <1>2, <2>1 DEF UpCaptured
<1>3. QED
  BY <1>1, <1>2 DEF Up
-----------------------------------------------------------------------------
LEMMA PressStep ==
    ASSUME IInv, NEW s \in Sides, NEW e \in Eligibilities, PressButton(s, e)
    PROVE  IInv'
<1> USE DEF IInv
<1>1. /\ TypeOK'
      /\ captured \subseteq captured'
      /\ captured' \subseteq captured \cup {s}
      /\ decision'.consume <=> s \in captured'
      /\ \/ owns' = owns
         \/ owns = {} /\ owns' = {s} /\ s \in captured'
  BY DownStep DEF MonitorTypeOK, PressButton
<1>2. /\ s \notin pressed
      /\ pressed' = pressed \cup {s}
      /\ forgotten' = forgotten \ {s}
      /\ blurred' = blurred \ {s}
      /\ missed' = missed \ {s}
      /\ stale' = stale
      /\ s \in captured' => seen' = seen
      /\ s \notin captured' => seen' = seen \cup {s}
  BY <1>1 DEF PressButton
<1>3. MonitorTypeOK'
  BY <1>1, <1>2 DEF MonitorTypeOK
<1>4. NoUnmatchedUp'
  BY <1>1, <1>2 DEF NoUnmatchedUp
<1>5. NoLeakedDown'
  BY <1>1, <1>2 DEF NoLeakedDown, SeenExplained
<1>6. HoldHasButton'
  BY <1>1, <1>2 DEF HoldHasButton
<1>7. SeenExplained'
  BY <1>2 DEF SeenExplained
<1>8. QED
  BY <1>3, <1>4, <1>5, <1>6, <1>7

LEMMA ReleaseStep ==
    ASSUME IInv, NEW s \in Sides, ReleaseButton(s)
    PROVE  IInv'
<1> USE DEF IInv
<1>1. /\ TypeOK'
      /\ captured' = captured \ {s}
      /\ decision'.consume <=> s \in captured
      /\ owns' = owns \/ (s \in captured /\ owns' = owns \ {s})
  BY UpStep DEF MonitorTypeOK, ReleaseButton
<1>2. /\ pressed' = pressed \ {s}
      /\ forgotten' = forgotten \ {s}
      /\ blurred' = blurred \ {s}
      /\ missed' = missed
      /\ s \in captured => seen' = seen /\ stale' = stale
      /\ s \notin captured => seen' = seen \ {s} /\ stale' = stale \ {s}
  BY <1>1 DEF ReleaseButton
<1>3. owns' \subseteq captured'
  <2>1. CASE s \in captured
    <3>1. owns' = owns \ {s}
      BY <2>1 DEF ReleaseButton, Up, UpNative, UpCaptured
    <3>2. QED
      BY <1>1, <3>1 DEF HoldHasButton
  <2>2. CASE s \notin captured
    BY <1>1, <2>2 DEF HoldHasButton
  <2>3. QED
    BY <2>1, <2>2
<1>4. MonitorTypeOK'
  BY <1>1, <1>2 DEF MonitorTypeOK
<1>5. NoUnmatchedUp'
  BY <1>1, <1>2 DEF NoUnmatchedUp
<1>6. NoLeakedDown'
  BY <1>1, <1>2 DEF NoLeakedDown
<1>7. HoldHasButton'
  BY <1>1, <1>2, <1>3 DEF HoldHasButton
<1>8. SeenExplained'
  BY <1>2 DEF SeenExplained, NoLeakedDown
<1>9. QED
  BY <1>4, <1>5, <1>6, <1>7, <1>8

LEMMA PairStep ==
    ASSUME IInv, NEW s \in Sides, StripPair(s) \/ PassPair(s)
    PROVE  IInv'
<1> USE DEF IInv
<1>1. CASE StripPair(s)
  <2>1. /\ TypeOK'
        /\ captured' = captured \ {s}
        /\ owns' = owns \ {s}
    BY <1>1, UpStep DEF MonitorTypeOK, StripPair, Up, UpNative, UpCaptured
  <2>2. /\ blurred' = blurred \cup ({s} \cap pressed)
        /\ missed' = missed \ {s}
        /\ UNCHANGED <<pressed, seen, forgotten, stale>>
    BY <1>1 DEF StripPair
  <2>3. MonitorTypeOK' /\ SeenExplained'
    BY <2>1, <2>2 DEF MonitorTypeOK, SeenExplained
  <2>4. NoUnmatchedUp' /\ NoLeakedDown'
    BY <2>1, <2>2 DEF NoUnmatchedUp, NoLeakedDown
  <2>5. HoldHasButton'
    BY <2>1, <2>2 DEF HoldHasButton
  <2>6. QED
    BY <2>3, <2>4, <2>5
<1>2. CASE PassPair(s)
  BY <1>2 DEF PassPair, vars, MonitorTypeOK, TypeOK, NoUnmatchedUp,
     NoLeakedDown, HoldHasButton, SeenExplained
<1>3. QED
  BY <1>1, <1>2

LEMMA OtherStep ==
    ASSUME IInv,
           (\E s \in Sides : LoseUp(s)) \/ LoseFocus \/ CancelHold
             \/ UNCHANGED mvars
    PROVE  IInv'
<1> USE DEF IInv, MonitorTypeOK, TypeOK, NoUnmatchedUp, NoLeakedDown,
            HoldHasButton, SeenExplained
<1>1. ASSUME NEW s \in Sides, LoseUp(s) PROVE IInv'
  BY <1>1 DEF LoseUp, vars
<1>2. CASE LoseFocus
  <2>1. decision' \in Decisions
    BY <1>2 DEF LoseFocus, Reset, NoDecision, Decisions
  <2>2. QED
    BY <1>2, <2>1 DEF LoseFocus, Reset
<1>3. CASE CancelHold
  <2>1. decision' \in Decisions
    BY <1>3 DEF CancelHold, CancelNativeHold, Decisions
  <2>2. QED
    BY <1>3, <2>1 DEF CancelHold, CancelNativeHold
<1>4. CASE UNCHANGED mvars
  BY <1>4 DEF mvars, vars
<1>5. QED
  BY <1>1, <1>2, <1>3, <1>4

LEMMA InvStep == IInv /\ [MonitorNext]_mvars => IInv'
BY PressStep, ReleaseStep, PairStep, OtherStep DEF MonitorNext

LEMMA Inductive == MonitorSpec => []IInv
BY InitInv, InvStep, PTL DEF MonitorSpec
-----------------------------------------------------------------------------
(* The policy's state stays within its types.                              *)
THEOREM TypeCorrect == MonitorSpec => []MonitorTypeOK
BY Inductive, PTL DEF IInv

(* The game never sees an up whose down was taken from it, except of a     *)
(* button held across a focus reset, or of one whose up and next down came *)
(* in one packet and were taken from the game together.                    *)
THEOREM UpsMatch == MonitorSpec => []NoUnmatchedUp
BY Inductive, PTL DEF IInv

(* A captured press never reached the game.                                *)
THEOREM DownsStay == MonitorSpec => []NoLeakedDown
BY Inductive, PTL DEF IInv

(* The native hold belongs to one button, captured and down, or whose up   *)
(* got lost.                                                               *)
THEOREM HoldsHaveButtons == MonitorSpec => []HoldHasButton
BY Inductive, PTL DEF IInv

(* The policy implements the abstract promise: a press never takes the     *)
(* rope from the other button.                                             *)
THEOREM ImplementsHold == MonitorSpec => OneRope
<1>1. MonitorInit => Hold!Init
  BY DEF MonitorInit, Init, Hold!Init, Holder
<1>2. IInv /\ IInv' /\ [MonitorNext]_mvars => [Hold!Next]_(Hold!vars)
  <2> SUFFICES ASSUME IInv, IInv', [MonitorNext]_mvars, Holder' # Holder
               PROVE  Hold!Next
    BY DEF Hold!vars
  <2>1. TypeOK /\ HoldHasButton /\ TypeOK' /\ HoldHasButton'
    BY DEF IInv, MonitorTypeOK
  <2>2. owns' # owns
    BY DEF Holder
  <2>3. \/ owns' \subseteq owns
        \/ owns = {} /\ \E s \in Sides : owns' = {s}
    <3>1. ASSUME NEW s \in Sides, NEW e \in Eligibilities, PressButton(s, e)
          PROVE  owns' = owns \/ (owns = {} /\ owns' = {s})
      BY <2>1, <3>1, DownStep DEF PressButton
    <3>2. ASSUME NEW s \in Sides, ReleaseButton(s)
          PROVE  owns' \subseteq owns
      BY <2>1, <3>2, UpStep DEF ReleaseButton
    <3>3. ASSUME NEW s \in Sides, StripPair(s) \/ PassPair(s)
          PROVE  owns' \subseteq owns
      BY <2>1, <3>3, UpStep DEF StripPair, PassPair, vars
    <3>4. QED
      BY <2>2, <3>1, <3>2, <3>3
      DEF MonitorNext, LoseUp, LoseFocus, Reset, CancelHold, CancelNativeHold,
          mvars, vars
  <2>4. CASE owns = {}
    <3>1. PICK s \in Sides : owns' = {s}
      BY <2>2, <2>3, <2>4
    <3>2. Holder = NoSide
      BY <2>4 DEF Holder
    <3>3. Holder' = s
      BY <3>1 DEF Holder, Sides
    <3>4. Hold!Take(s)
      BY <3>2, <3>3 DEF Hold!Take
    <3>5. QED
      BY <3>4 DEF Hold!Next
  <2>5. CASE owns # {}
    <3>1. PICK s \in Sides : owns = {s} /\ Holder = s
      BY <2>1, <2>5 DEF HoldHasButton, TypeOK, Holder, Sides
    <3>2. owns' = {}
      BY <2>2, <2>3, <2>5, <3>1
    <3>3. Holder' = NoSide
      BY <3>2 DEF Holder
    <3>4. s # NoSide
      BY DEF Sides, NoSide
    <3>5. Hold!Drop
      BY <3>1, <3>3, <3>4 DEF Hold!Drop
    <3>6. QED
      BY <3>5 DEF Hold!Next
  <2>6. QED
    BY <2>4, <2>5
<1>3. QED
  BY <1>1, <1>2, Inductive, PTL DEF MonitorSpec, OneRope, Hold!Spec
=============================================================================
