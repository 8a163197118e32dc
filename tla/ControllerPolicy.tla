-------------------------- MODULE ControllerPolicy --------------------------
(***************************************************************************)
(* ControllerWebInputPolicy (ControllerWebInputPolicy.h): the pure state   *)
(* machine that turns polled analog triggers into ownership of the single  *)
(* native rope.                                                            *)
(*                                                                         *)
(* A trigger value is an integer (hundredths of the code's double, clamped *)
(* to 0..100 by Normalize, which keeps the order of values and both        *)
(* thresholds); `finite' says that both values of the sample are finite.   *)
(* `gate' is runtimeReady /\ airborneProven /\ nativeSwingAvailable, which *)
(* the code only ever uses together.                                       *)
(***************************************************************************)
EXTENDS Integers

CONSTANTS
    Values,             \* trigger values a sample may carry
    PressThreshold,     \* kTriggerPressThreshold   (0.50)
    ReleaseThreshold,   \* kTriggerReleaseThreshold (0.25)
    Epochs              \* source epochs the route may hand out

ASSUME ThresholdAssumption ==
    /\ Values \subseteq Int
    /\ PressThreshold \in Int
    /\ ReleaseThreshold \in Int
    /\ ReleaseThreshold < PressThreshold
    /\ 0 \in Epochs

VARIABLES
    known,      \* sourceKnown_
    epoch,      \* sourceEpoch_
    down,       \* triggers whose Schmitt state is down
    captured,   \* triggers quarantined from the game until their release
    armed,      \* triggers seen neutral in this source and focus session
    owner,      \* owner_
    held,       \* nativeSwingHeld_
    decision    \* the ControllerWebInputDecision the last call returned

vars == <<known, epoch, down, captured, armed, owner, held, decision>>
-----------------------------------------------------------------------------
Sides == {"left", "right"}
NoSide == "none"

Samples ==
    [connected : BOOLEAN, focused : BOOLEAN, finite : BOOLEAN, gate : BOOLEAN,
     epoch : Epochs, level : [Sides -> Values]]

Decisions ==
    [layerActive : BOOLEAN, consume : SUBSET Sides, attach : SUBSET Sides,
     release : SUBSET Sides, press : BOOLEAN, lift : BOOLEAN]

TypeOK ==
    /\ known \in BOOLEAN
    /\ epoch \in Epochs
    /\ down \in SUBSET Sides
    /\ captured \in SUBSET Sides
    /\ armed \in SUBSET Sides
    /\ owner \in Sides \cup {NoSide}
    /\ held \in BOOLEAN
    /\ decision \in Decisions

Init ==
    /\ known = FALSE
    /\ epoch = 0
    /\ down = {}
    /\ captured = {}
    /\ armed = {}
    /\ owner = NoSide
    /\ held = FALSE
    /\ decision = [layerActive |-> FALSE, consume |-> {}, attach |-> {},
                   release |-> {}, press |-> FALSE, lift |-> FALSE]
-----------------------------------------------------------------------------
(* CancelOwner whose release edge is forgotten (mutant).                   *)
CancelOwnerSilent(consume) ==
    /\ owner' = NoSide
    /\ held' = FALSE
    /\ decision' = [layerActive |-> FALSE, consume |-> consume, attach |-> {},
                    release |-> {owner} \ {NoSide}, press |-> FALSE,
                    lift |-> FALSE]

(* CancelOwner: end the hold and say so once, reserving `consume'.         *)
CancelOwner(consume) ==
    /\ owner' = NoSide
    /\ held' = FALSE
    /\ decision' = [layerActive |-> FALSE, consume |-> consume, attach |-> {},
                    release |-> {owner} \ {NoSide}, press |-> FALSE,
                    lift |-> held]

\* ResetSource: forget the source and both triggers (the owner is cancelled
\* by every caller).
ResetSource ==
    /\ known' = FALSE
    /\ epoch' = 0
    /\ down' = {}
    /\ captured' = {}
    /\ armed' = {}

\* A sample of another source starts from nothing.
NewSource(x) == ~known \/ x.epoch # epoch
Kept(S, x) == IF NewSource(x) THEN {} ELSE S
Carried(x) == IF NewSource(x) THEN NoSide ELSE owner

Adopt(x) ==
    /\ known' = TRUE
    /\ epoch' = x.epoch

\* ObserveTrigger: Schmitt trigger, pressed and released are its edges.
Pressed(x) == {s \in Sides \ Kept(down, x) : x.level[s] >= PressThreshold}
\* Released at the press threshold: no hysteresis (mutant).
ReleasedEarly(x) == {s \in Kept(down, x) : x.level[s] < PressThreshold}
Released(x) == {s \in Kept(down, x) : x.level[s] <= ReleaseThreshold}
NowDown(x) == (Kept(down, x) \cup Pressed(x)) \ Released(x)
NowArmed(x) ==
    Kept(armed, x)
      \cup {s \in Sides \ NowDown(x) : x.level[s] <= ReleaseThreshold}

\* A hold that survives a closed gate (mutant).
SurvivorUngated(x) ==
    IF Carried(x) \notin Released(x) \cap Kept(captured, x)
      THEN Carried(x)
      ELSE NoSide

\* The owner left after gate loss and matching releases.
Survivor(x) ==
    IF x.gate /\ Carried(x) \notin Released(x) \cap Kept(captured, x)
      THEN Carried(x)
      ELSE NoSide

\* Edges that need no neutral position first (mutant).
FreshUnarmed(x) == Pressed(x) \ (Kept(captured, x) \ Released(x))

\* Edges of triggers that were seen neutral before and are not quarantined.
Fresh(x) ==
    (Pressed(x) \cap Kept(armed, x)) \ (Kept(captured, x) \ Released(x))

\* CancelOwner ran somewhere in this update while the native hold was on.
Lifted(x) == held /\ Survivor(x) # owner

\* The left trigger wins when both cross in one sample (mutant).
StarterLeftFirst(x) ==
    {s \in Fresh(x) : /\ x.gate
                      /\ ~Lifted(x)
                      /\ Survivor(x) = NoSide
                      /\ s = "left" \/ "left" \notin Fresh(x)}

\* The one trigger that takes the rope: alone in its sample, with nobody
\* holding and no release reported by the same update.
Starter(x) ==
    {s \in Fresh(x) : /\ x.gate
                      /\ ~Lifted(x)
                      /\ Survivor(x) = NoSide
                      /\ Fresh(x) = {s}}
-----------------------------------------------------------------------------
Disconnected(x) ==
    /\ ~x.connected
    /\ CancelOwner({})
    /\ ResetSource

\* Focus loss that forgets the quarantine's trigger state (mutant).
QuietForgetful(x) ==
    /\ x.connected
    /\ ~(x.focused /\ x.finite)
    /\ Adopt(x)
    /\ CancelOwner(Kept(captured, x))
    /\ down' = {}
    /\ captured' = Kept(captured, x)
    /\ armed' = {}

\* Focus loss, or a value that is not a number: the hold ends, captured
\* triggers stay quarantined and nothing is armed.
Quiet(x) ==
    /\ x.connected
    /\ ~(x.focused /\ x.finite)
    /\ Adopt(x)
    /\ CancelOwner(Kept(captured, x))
    /\ down' = Kept(down, x)
    /\ captured' = Kept(captured, x)
    /\ armed' = {}

Observed(x) ==
    /\ x.connected
    /\ x.focused
    /\ x.finite
    /\ Adopt(x)
    /\ down' = NowDown(x)
    /\ armed' = NowArmed(x)
    /\ captured' = (Kept(captured, x) \ Released(x))
                     \cup (IF x.gate THEN Fresh(x) ELSE {})
    /\ \/ Starter(x) = {} /\ owner' = Survivor(x)
       \/ owner' \in Starter(x)
    /\ held' = (Starter(x) # {} \/ (held /\ ~Lifted(x)))
    /\ decision' = [layerActive |-> x.gate,
                    consume |-> Kept(captured, x)
                                  \cup (IF x.gate THEN Sides ELSE {}),
                    attach |-> Starter(x),
                    release |-> {owner} \ {NoSide, Survivor(x)},
                    press |-> Starter(x) # {},
                    lift |-> Lifted(x)]

Update(x) == Disconnected(x) \/ Quiet(x) \/ Observed(x)

CancelAndReset ==
    /\ CancelOwner({})
    /\ ResetSource

Next ==
    \/ \E x \in Samples : Update(x)
    \/ CancelAndReset

Spec == Init /\ [][Next]_vars
=============================================================================
