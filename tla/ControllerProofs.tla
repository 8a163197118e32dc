-------------------------- MODULE ControllerProofs --------------------------
(***************************************************************************)
(* Proofs about the controller policy, for every set of trigger values,    *)
(* every pair of thresholds with release below press and every set of      *)
(* source epochs.                                                          *)
(***************************************************************************)
EXTENDS ControllerMonitor, TLAPS

IInv ==
    /\ MonitorTypeOK
    /\ HoldJustified
    /\ CaptureConsistent
    /\ TieStartsNothing

\* The trigger sets an update computes are sets of triggers, and an edge is
\* never both a press and a release.
LEMMA EdgeTypes ==
    ASSUME TypeOK, NEW x \in Samples
    PROVE  /\ Kept(down, x) \in SUBSET Sides
           /\ Kept(captured, x) \in SUBSET Sides
           /\ Kept(armed, x) \in SUBSET Sides
           /\ Carried(x) \in Sides \cup {NoSide}
           /\ Pressed(x) \in SUBSET Sides
           /\ Released(x) \in SUBSET Sides
           /\ NowDown(x) \in SUBSET Sides
           /\ NowArmed(x) \in SUBSET Sides
           /\ Survivor(x) \in Sides \cup {NoSide}
           /\ Fresh(x) \in SUBSET Sides
           /\ Starter(x) \in SUBSET Sides
           /\ Lifted(x) \in BOOLEAN
           /\ Pressed(x) \cap Released(x) = {}
<1>1. /\ Kept(down, x) \in SUBSET Sides
      /\ Kept(captured, x) \in SUBSET Sides
      /\ Kept(armed, x) \in SUBSET Sides
      /\ Carried(x) \in Sides \cup {NoSide}
  BY DEF TypeOK, Kept, Carried
<1>2. /\ Pressed(x) \in SUBSET Sides
      /\ Released(x) \in SUBSET Sides
      /\ Pressed(x) \cap Released(x) = {}
  BY <1>1 DEF Pressed, Released
<1>3. /\ NowDown(x) \in SUBSET Sides
      /\ NowArmed(x) \in SUBSET Sides
      /\ Fresh(x) \in SUBSET Sides
  BY <1>1, <1>2 DEF NowDown, NowArmed, Fresh
<1>4. /\ Survivor(x) \in Sides \cup {NoSide}
      /\ Starter(x) \in SUBSET Sides
      /\ Lifted(x) \in BOOLEAN
  BY <1>1, <1>3 DEF Survivor, Starter, Lifted, TypeOK
<1>5. QED
  BY <1>1, <1>2, <1>3, <1>4

LEMMA InitInv == MonitorInit => IInv
<1> SUFFICES ASSUME MonitorInit PROVE IInv
  OBVIOUS
<1>1. decision \in Decisions
  BY DEF MonitorInit, Init, Decisions
<1>2. MonitorTypeOK
  BY <1>1, ThresholdAssumption DEF MonitorInit, Init, MonitorTypeOK, TypeOK
<1>3. HoldJustified /\ CaptureConsistent /\ TieStartsNothing
  BY DEF MonitorInit, Init, HoldJustified, CaptureConsistent,
         TieStartsNothing
<1>4. QED
  BY <1>2, <1>3 DEF IInv

LEMMA ObserveTypes ==
    ASSUME MonitorTypeOK, NEW x, Observe(x)
    PROVE  /\ rested' \in SUBSET Sides
           /\ firm' \in SUBSET Sides
           /\ neutral' \in SUBSET Sides
           /\ tied' \in SUBSET Sides
  BY DEF MonitorTypeOK, Observe, AtRest, Kept

LEMMA TypeStep ==
    ASSUME MonitorTypeOK, [MonitorNext]_mvars
    PROVE  MonitorTypeOK'
<1> USE DEF MonitorTypeOK
<1>1. ASSUME NEW x \in Samples, Disconnected(x), Observe(x)
      PROVE  MonitorTypeOK'
  <2>1. TypeOK'
    BY <1>1, ThresholdAssumption
    DEF TypeOK, Disconnected, CancelOwner, ResetSource, Decisions, NoSide, Sides
  <2>2. QED
    BY <1>1, <2>1, ObserveTypes
<1>2. ASSUME NEW x \in Samples, Quiet(x), Observe(x)
      PROVE  MonitorTypeOK'
  <2>1. /\ Kept(down, x) \in SUBSET Sides
        /\ Kept(captured, x) \in SUBSET Sides
        /\ x.epoch \in Epochs
    BY EdgeTypes DEF Samples
  <2>2. {owner} \ {NoSide} \in SUBSET Sides
    BY DEF TypeOK
  <2>3. TypeOK'
    BY <1>2, <2>1, <2>2 DEF TypeOK, Quiet, Adopt, CancelOwner, Decisions
  <2>4. QED
    BY <1>2, <2>3, ObserveTypes
<1>3. ASSUME NEW x \in Samples, Observed(x), Observe(x)
      PROVE  MonitorTypeOK'
  <2>1. x.epoch \in Epochs /\ x.gate \in BOOLEAN
    BY DEF Samples
  <2>2. /\ known' \in BOOLEAN
        /\ epoch' \in Epochs
        /\ down' \in SUBSET Sides
        /\ armed' \in SUBSET Sides
        /\ captured' \in SUBSET Sides
        /\ owner' \in Sides \cup {NoSide}
        /\ held' \in BOOLEAN
    BY <1>3, <2>1, EdgeTypes DEF Observed, Adopt, TypeOK
  <2>3. /\ {owner} \ {NoSide, Survivor(x)} \in SUBSET Sides
        /\ Kept(captured, x) \cup (IF x.gate THEN Sides ELSE {})
             \in SUBSET Sides
    BY EdgeTypes DEF TypeOK
  <2>4. decision' \in Decisions
    BY <1>3, <2>1, <2>3, EdgeTypes DEF Observed, Decisions
  <2>5. TypeOK'
    BY <2>2, <2>4 DEF TypeOK
  <2>6. QED
    BY <1>3, <2>5, ObserveTypes
<1>4. CASE Shutdown
  <2>1. TypeOK'
    BY <1>4, ThresholdAssumption
    DEF TypeOK, Shutdown, CancelAndReset, CancelOwner, ResetSource, Decisions,
        NoSide, Sides
  <2>2. QED
    BY <1>4, <2>1 DEF Shutdown
<1>5. CASE UNCHANGED mvars
  BY <1>5 DEF mvars, vars, TypeOK
<1>6. QED
  BY <1>1, <1>2, <1>3, <1>4, <1>5 DEF MonitorNext, Poll, Update

\* What one accepted sample does to the owner.
LEMMA OwnerStep ==
    ASSUME IInv, NEW x \in Samples, Observed(x)
    PROVE  \/ /\ owner' = NoSide
              /\ held' = FALSE
           \/ /\ owner' = owner
              /\ owner \in Sides
              /\ held' = TRUE
              /\ x.gate
              /\ ~NewSource(x)
              /\ owner \in captured \ Released(x)
           \/ /\ owner' \in Fresh(x)
              /\ owner = NoSide
              /\ held' = TRUE
              /\ x.gate
<1> USE DEF IInv, MonitorTypeOK
<1>1. CASE Starter(x) # {}
  <2>1. owner' \in Starter(x) /\ held'
    BY <1>1 DEF Observed
  <2>2. owner' \in Fresh(x) /\ x.gate /\ ~Lifted(x) /\ Survivor(x) = NoSide
    BY <2>1 DEF Starter
  <2>3. owner = NoSide
    BY <2>2 DEF Lifted, HoldJustified
  <2>4. QED
    BY <2>1, <2>2, <2>3, <1>1 DEF Observed
<1>2. CASE Starter(x) = {}
  <2>1. owner' = Survivor(x) /\ held' = (held /\ ~Lifted(x))
    BY <1>2 DEF Observed
  <2>2. CASE Survivor(x) = NoSide
    BY <2>1, <2>2 DEF Lifted, HoldJustified, TypeOK
  <2>3. CASE Survivor(x) # NoSide
    <3>1. /\ x.gate
          /\ ~NewSource(x)
          /\ Survivor(x) = owner
          /\ owner \in Sides
          /\ owner \notin Released(x) \cap captured
      BY <2>3 DEF Survivor, Carried, Kept, TypeOK
    <3>2. held /\ owner \in captured
      BY <2>3, <3>1 DEF HoldJustified, CaptureConsistent
    <3>3. QED
      BY <2>1, <3>1, <3>2 DEF Lifted
  <2>4. QED
    BY <2>2, <2>3
<1>3. QED
  BY <1>1, <1>2

LEMMA InvStep ==
    ASSUME IInv, [MonitorNext]_mvars
    PROVE  IInv'
<1> USE DEF IInv
<1>1. MonitorTypeOK'
  BY TypeStep
<1>2. ASSUME NEW x \in Samples, Observed(x), Observe(x)
      PROVE  HoldJustified' /\ CaptureConsistent' /\ TieStartsNothing'
  <2> DEFINE lv(s) == x.level[s]
  <2>1. /\ x.level \in [Sides -> Values]
        /\ \A s \in Sides : x.level[s] \in Int
    BY ThresholdAssumption DEF Samples
  <2>2. Valid(x)
    BY <1>2 DEF Observed, Valid
  <2>3. \A s \in Fresh(x) : s \in Sides /\ x.level[s] > ReleaseThreshold
    BY <2>1, ThresholdAssumption DEF Fresh, Pressed
  <2>4. \A s \in captured \ Released(x) :
          ~NewSource(x) => s \in Sides /\ x.level[s] > ReleaseThreshold
    BY <2>1, ThresholdAssumption
    DEF CaptureConsistent, Released, Kept, MonitorTypeOK, TypeOK
  <2>5. firm' = IF x.gate THEN {s \in Sides : x.level[s] > ReleaseThreshold}
                ELSE {}
    BY <1>2, <2>2 DEF Observe
  <2>6. HoldJustified'
    BY <1>2, <2>3, <2>4, <2>5, OwnerStep DEF HoldJustified, NoSide, Sides
  <2>7. captured' \subseteq down'
    BY <1>2 DEF Observed, NowDown, Fresh, Released, Pressed, Kept,
                CaptureConsistent
  <2>8. held' => owner' \in captured'
    <3>1. CASE owner' \in Fresh(x) /\ x.gate
      BY <1>2, <3>1 DEF Observed
    <3>2. CASE owner' = owner /\ owner \in captured \ Released(x)
               /\ ~NewSource(x)
      BY <1>2, <3>2 DEF Observed, Kept
    <3>3. QED
      BY <1>2, <3>1, <3>2, OwnerStep
  <2>9. armed' \ down' \subseteq rested'
    <3> SUFFICES ASSUME NEW s \in armed' \ down'
                 PROVE  s \in rested'
      OBVIOUS
    <3>1. s \in Sides /\ s \in NowArmed(x) /\ s \notin NowDown(x)
      BY <1>2, <1>1 DEF Observed, MonitorTypeOK, TypeOK
    <3>2. rested' = {t \in Sides : \/ x.level[t] <= ReleaseThreshold
                                   \/ /\ t \in Kept(rested, x)
                                      /\ x.level[t] < PressThreshold}
      BY <1>2, <2>2 DEF Observe
    <3>3. CASE x.level[s] <= ReleaseThreshold
      BY <3>1, <3>2, <3>3
    <3>4. CASE x.level[s] > ReleaseThreshold
      <4>1. s \in Kept(armed, x)
        BY <3>1, <3>4, <2>1, ThresholdAssumption DEF NowArmed
      <4>2. s \notin Kept(down, x) /\ x.level[s] < PressThreshold
        BY <3>1, <3>4, <2>1, ThresholdAssumption
        DEF NowDown, Pressed, Released
      <4>3. s \in Kept(rested, x)
        BY <4>1, <4>2 DEF Kept, CaptureConsistent
      <4>4. QED
        BY <3>1, <3>2, <4>2, <4>3
    <3>5. QED
      BY <3>1, <3>3, <3>4, <2>1, ThresholdAssumption
  <2>10. rested' \subseteq armed' \ down'
    <3> SUFFICES ASSUME NEW s \in rested'
                 PROVE  s \in NowArmed(x) /\ s \notin NowDown(x)
      BY <1>2 DEF Observed
    <3>1. s \in Sides /\ x.level[s] \in Int
      BY <1>1, <2>1 DEF MonitorTypeOK
    <3>2. \/ x.level[s] <= ReleaseThreshold
          \/ s \in Kept(rested, x) /\ x.level[s] < PressThreshold
      BY <1>2, <2>2 DEF Observe
    <3>3. CASE x.level[s] <= ReleaseThreshold
      <4>1. s \notin NowDown(x)
        BY <3>1, <3>3, ThresholdAssumption DEF NowDown, Pressed, Released
      <4>2. QED
        BY <3>1, <3>3, <4>1 DEF NowArmed
    <3>4. CASE s \in Kept(rested, x) /\ x.level[s] < PressThreshold
      <4>1. s \in Kept(armed, x) /\ s \notin Kept(down, x)
        BY <3>4 DEF Kept, CaptureConsistent
      <4>2. s \notin Pressed(x)
        BY <3>1, <3>4, ThresholdAssumption DEF Pressed
      <4>3. QED
        BY <4>1, <4>2 DEF NowArmed, NowDown
    <3>5. QED
      BY <3>2, <3>3, <3>4
  <2>11. Tie(x) => Fresh(x) = Sides /\ owner = NoSide /\ x.gate
    <3> SUFFICES ASSUME Tie(x)
                 PROVE  Fresh(x) = Sides /\ owner = NoSide /\ x.gate
      OBVIOUS
    <3>1. \A s \in Sides : s \in Kept(rested, x)
                            /\ x.level[s] >= PressThreshold
      BY DEF Tie, Crossing
    <3>2. \A s \in Sides : /\ s \in Kept(armed, x)
                            /\ s \notin Kept(down, x)
                            /\ s \notin Kept(captured, x)
      BY <3>1 DEF Kept, CaptureConsistent
    <3>3. Fresh(x) = Sides
      BY <3>1, <3>2 DEF Fresh, Pressed
    <3>4. owner \notin Sides
      BY <3>1 DEF Kept, CaptureConsistent, HoldJustified, Sides, NoSide
    <3>5. QED
      BY <3>3, <3>4 DEF Tie, MonitorTypeOK, TypeOK
  <2>12. tied' \subseteq captured'
    <3>1. tied' = (IF Tie(x) THEN Sides ELSE Kept(tied, x)) \ AtRest(x)
      BY <1>2, <2>2 DEF Observe
    <3>2. captured' = (Kept(captured, x) \ Released(x))
                        \cup (IF x.gate THEN Fresh(x) ELSE {})
      BY <1>2 DEF Observed
    <3>3. CASE Tie(x)
      BY <2>11, <3>1, <3>2, <3>3
    <3>4. CASE ~Tie(x)
      <4>1. Kept(tied, x) \subseteq Kept(captured, x)
        BY DEF Kept, TieStartsNothing
      <4>2. Kept(captured, x) \subseteq Sides
        BY EdgeTypes DEF MonitorTypeOK
      <4>3. Kept(captured, x) \cap Released(x) \subseteq AtRest(x)
        BY <4>2 DEF Released, AtRest
      <4>4. QED
        BY <3>1, <3>2, <3>4, <4>1, <4>3
    <3>5. QED
      BY <3>3, <3>4
  <2>13. owner' \notin tied'
    <3>1. tied' \subseteq IF Tie(x) THEN Sides ELSE Kept(tied, x)
      BY <1>2, <2>2 DEF Observe
    <3>2. CASE Tie(x)
      <4>1. Starter(x) = {}
        BY <2>11, <3>2 DEF Starter, Sides
      <4>2. owner' = NoSide
        BY <1>2, <2>11, <3>2, <4>1 DEF Observed, Survivor, Carried
      <4>3. QED
        BY <1>1, <4>2 DEF MonitorTypeOK, Sides, NoSide
    <3>3. CASE ~Tie(x)
      <4>1. Kept(tied, x) \subseteq Kept(down, x)
        BY DEF Kept, TieStartsNothing, CaptureConsistent
      <4>2. Fresh(x) \cap Kept(down, x) = {}
        BY DEF Fresh, Pressed
      <4>3. Kept(tied, x) \subseteq tied
        BY DEF Kept
      <4>4. tied' \subseteq Kept(tied, x)
        BY <3>1, <3>3
      <4>5. CASE owner' = NoSide
        BY <1>1, <4>5 DEF MonitorTypeOK, Sides, NoSide
      <4>6. CASE owner' = owner
        BY <4>3, <4>4, <4>6 DEF TieStartsNothing
      <4>7. CASE owner' \in Fresh(x)
        BY <4>1, <4>2, <4>4, <4>7
      <4>8. QED
        BY <1>2, <4>5, <4>6, <4>7, OwnerStep
    <3>4. QED
      BY <3>2, <3>3
  <2>14. QED
    BY <2>6, <2>7, <2>8, <2>9, <2>10, <2>12, <2>13
    DEF CaptureConsistent, TieStartsNothing
<1>3. ASSUME NEW x \in Samples, Quiet(x), Observe(x)
      PROVE  HoldJustified' /\ CaptureConsistent' /\ TieStartsNothing'
  <2>1. owner' = NoSide /\ held' = FALSE /\ armed' = {}
    BY <1>3 DEF Quiet, CancelOwner
  <2>2. captured' \subseteq down'
    BY <1>3 DEF Quiet, Kept, CaptureConsistent
  <2>3. rested' = {} /\ tied' = Kept(tied, x)
    BY <1>3 DEF Quiet, Observe, Valid
  <2>4. tied' \subseteq captured'
    BY <1>3, <2>3 DEF Quiet, Kept, TieStartsNothing
  <2>5. QED
    BY <1>1, <2>1, <2>2, <2>3, <2>4
    DEF HoldJustified, CaptureConsistent, TieStartsNothing, MonitorTypeOK,
        Sides, NoSide
<1>4. ASSUME NEW x \in Samples, Disconnected(x), Observe(x)
      PROVE  HoldJustified' /\ CaptureConsistent' /\ TieStartsNothing'
  BY <1>4 DEF Disconnected, CancelOwner, ResetSource, HoldJustified,
              CaptureConsistent, TieStartsNothing, Observe, Valid
<1>5. CASE Shutdown
  <2>1. /\ owner' = NoSide /\ held' = FALSE
        /\ captured' = {} /\ down' = {} /\ armed' = {}
        /\ rested' = {} /\ tied' = {}
    BY <1>5 DEF Shutdown, CancelAndReset, CancelOwner, ResetSource
  <2>2. QED
    BY <1>1, <2>1 DEF HoldJustified, CaptureConsistent, TieStartsNothing
<1>6. CASE UNCHANGED mvars
  BY <1>6 DEF mvars, vars, HoldJustified, CaptureConsistent,
              TieStartsNothing, MonitorTypeOK, TypeOK
<1>7. QED
  BY <1>1, <1>2, <1>3, <1>4, <1>5, <1>6 DEF MonitorNext, Poll, Update

LEMMA Inductive == MonitorSpec => []IInv
<1>1. IInv /\ [MonitorNext]_mvars => IInv'
  BY InvStep
<1>2. QED
  BY InitInv, <1>1, PTL DEF MonitorSpec
-----------------------------------------------------------------------------
(* The policy and its observers keep their types.                          *)
THEOREM TypeCorrect == MonitorSpec => []MonitorTypeOK
<1>1. IInv => MonitorTypeOK
  BY DEF IInv
<1>2. QED
  BY <1>1, Inductive, PTL

(* No sequence of samples, however long, leaves the native Swing held      *)
(* without an owner whose trigger was above the release threshold in the   *)
(* last sample.                                                            *)
THEOREM NoStuckHold == MonitorSpec => []HoldJustified
<1>1. IInv => HoldJustified
  BY DEF IInv
<1>2. QED
  BY <1>1, Inductive, PTL

(* Captured triggers are down, the owner is captured and exactly the       *)
(* rested triggers can be accepted as fresh.                               *)
THEOREM CapturesConsistent == MonitorSpec => []CaptureConsistent
<1>1. IInv => CaptureConsistent
  BY DEF IInv
<1>2. QED
  BY <1>1, Inductive, PTL

(* Triggers that cross together start no hold and stay with the policy     *)
(* until each has been neutral, in any sequence of samples.                *)
THEOREM TiesStartNothing == MonitorSpec => []TieStartsNothing
<1>1. IInv => TieStartsNothing
  BY DEF IInv
<1>2. QED
  BY <1>1, Inductive, PTL

LEMMA CancelStep ==
    ASSUME NEW consume, CancelOwner(consume)
    PROVE  /\ owner' = NoSide
           /\ decision'.consume = consume
           /\ decision'.lift = held
           /\ decision'.press = FALSE
           /\ decision'.attach = {}
           /\ decision'.release = {owner} \ {NoSide}
  BY DEF CancelOwner

LEMMA FreshStep ==
    ASSUME IInv, [MonitorNext]_mvars, owner' \notin {owner, NoSide}
    PROVE  owner = NoSide /\ owner' \in rested
<1> USE DEF IInv
<1>1. PICK x \in Samples : Observed(x)
  BY DEF MonitorNext, Poll, Update, Disconnected, Quiet, CancelOwner,
         Shutdown, CancelAndReset, mvars, vars
<1>2. owner' \in Fresh(x) /\ owner = NoSide
  BY <1>1, OwnerStep
<1>3. owner' \in armed /\ owner' \notin down
  BY <1>2 DEF Fresh, Pressed, Kept
<1>4. QED
  BY <1>2, <1>3 DEF CaptureConsistent

(* A hold starts only with a press of a trigger that was neutral in this   *)
(* source and focus session and has not reached the threshold since.       *)
THEOREM OnlyFreshPresses == MonitorSpec => FreshPressOnly
<1>1. IInv /\ [MonitorNext]_mvars
        => [owner' \notin {owner, NoSide}
              => owner = NoSide /\ owner' \in rested]_mvars
  BY FreshStep
<1>2. QED
  BY <1>1, Inductive, PTL DEF MonitorSpec, FreshPressOnly

LEMMA QuarantineStep ==
    ASSUME IInv, MonitorNext, known, known', epoch' = epoch
    PROVE  /\ captured \subseteq decision'.consume
           /\ captured \ captured' \subseteq neutral'
<1> USE DEF IInv, MonitorTypeOK
<1>1. PICK x \in Samples : /\ Quiet(x) \/ Observed(x)
                           /\ Observe(x)
                           /\ x.epoch = epoch
  BY DEF MonitorNext, Poll, Update, Disconnected, ResetSource, Shutdown,
         CancelAndReset, Quiet, Observed, Adopt
<1>2. ~NewSource(x)
  BY <1>1 DEF NewSource
<1>3. Kept(captured, x) = captured
  BY <1>2 DEF Kept
<1>4. CASE Quiet(x)
  <2>1. captured' = captured /\ decision'.consume = captured
    BY <1>3, <1>4, CancelStep DEF Quiet
  <2>2. QED
    BY <2>1
<1>5. CASE Observed(x)
  <2>1. captured \subseteq decision'.consume
    BY <1>3, <1>5 DEF Observed
  <2>2. captured \ captured' \subseteq Released(x)
    BY <1>3, <1>5 DEF Observed
  <2>3. neutral' = {s \in Sides : x.level[s] <= ReleaseThreshold}
    BY <1>1, <1>5 DEF Observe, AtRest, Observed, Valid
  <2>4. Released(x) \subseteq neutral'
    BY <2>3, EdgeTypes DEF Released
  <2>5. QED
    BY <2>1, <2>2, <2>4
<1>6. QED
  BY <1>1, <1>4, <1>5

(* While the source stays, a captured trigger is consumed in every update  *)
(* and let go only by a valid sample that shows it neutral.                *)
THEOREM Quarantine == MonitorSpec => QuarantineUntilNeutral
<1>1. IInv /\ [MonitorNext]_mvars
        => [known /\ known' /\ epoch' = epoch
              => /\ captured \subseteq decision'.consume
                 /\ captured \ captured' \subseteq neutral']_mvars
  BY QuarantineStep
<1>2. QED
  BY <1>1, Inductive, PTL DEF MonitorSpec, QuarantineUntilNeutral

LEMMA EdgesStep ==
    ASSUME IInv, MonitorNext
    PROVE  /\ decision'.lift <=> (held /\ owner' # owner)
           /\ decision'.press <=> (owner' \notin {owner, NoSide})
           /\ ~(decision'.lift /\ decision'.press)
           /\ decision'.release = {owner} \ {owner', NoSide}
           /\ decision'.attach = {owner'} \ {owner, NoSide}
<1> USE DEF IInv, MonitorTypeOK
<1>1. ASSUME NEW x \in Samples, Observed(x)
      PROVE  /\ decision'.lift <=> (held /\ owner' # owner)
             /\ decision'.press <=> (owner' \notin {owner, NoSide})
             /\ ~(decision'.lift /\ decision'.press)
             /\ decision'.release = {owner} \ {owner', NoSide}
             /\ decision'.attach = {owner'} \ {owner, NoSide}
  <2>1. /\ decision'.lift = Lifted(x)
        /\ decision'.press = (Starter(x) # {})
        /\ decision'.attach = Starter(x)
        /\ decision'.release = {owner} \ {NoSide, Survivor(x)}
    BY <1>1 DEF Observed
  <2>2. CASE Starter(x) # {}
    <3>1. owner' \in Starter(x)
      BY <1>1, <2>2 DEF Observed
    <3>2. /\ Starter(x) = {owner'}
          /\ owner' \in Sides
          /\ ~Lifted(x)
          /\ Survivor(x) = NoSide
      BY <3>1, EdgeTypes DEF Starter
    <3>3. owner = NoSide /\ ~held
      BY <3>2 DEF Lifted, HoldJustified
    <3>4. owner' # NoSide
      BY <3>2 DEF Sides, NoSide
    <3>5. decision'.press /\ ~decision'.lift
      BY <2>1, <2>2, <3>2
    <3>6. decision'.release = {} /\ decision'.attach = {owner'}
      BY <2>1, <3>2, <3>3
    <3>7. QED
      BY <3>3, <3>4, <3>5, <3>6
  <2>3. CASE Starter(x) = {}
    <3>1. owner' = Survivor(x)
      BY <1>1, <2>3 DEF Observed
    <3>2. owner' \in {owner, NoSide}
      BY <3>1 DEF Survivor, Carried
    <3>3. decision'.lift <=> (held /\ owner' # owner)
      BY <2>1, <3>1 DEF Lifted, TypeOK
    <3>4. QED
      BY <2>1, <2>3, <3>1, <3>2, <3>3
  <2>4. QED
    BY <2>2, <2>3
<1>2. ASSUME NEW consume, CancelOwner(consume)
      PROVE  /\ decision'.lift <=> (held /\ owner' # owner)
             /\ decision'.press <=> (owner' \notin {owner, NoSide})
             /\ ~(decision'.lift /\ decision'.press)
             /\ decision'.release = {owner} \ {owner', NoSide}
             /\ decision'.attach = {owner'} \ {owner, NoSide}
  BY <1>2, CancelStep DEF HoldJustified
<1>3. QED
  BY <1>1, <1>2
  DEF MonitorNext, Poll, Update, Disconnected, Quiet, Shutdown, CancelAndReset

(* Starts and ends of holds are reported exactly once, never together.     *)
THEOREM EdgesOnce == MonitorSpec => EdgesReportedOnce
<1>1. IInv /\ [MonitorNext]_mvars
        => [/\ decision'.lift <=> (held /\ owner' # owner)
            /\ decision'.press <=> (owner' \notin {owner, NoSide})
            /\ ~(decision'.lift /\ decision'.press)
            /\ decision'.release = {owner} \ {owner', NoSide}
            /\ decision'.attach = {owner'} \ {owner, NoSide}]_mvars
  BY EdgesStep
<1>2. QED
  BY <1>1, Inductive, PTL DEF MonitorSpec, EdgesReportedOnce
=============================================================================
