-------------------------- MODULE ControllerMonitor --------------------------
(***************************************************************************)
(* The controller policy under arbitrary sequences of samples, observed by *)
(* four history variables that look at the samples and the source only,    *)
(* never at the policy's own trigger state:                                *)
(*   rested : triggers that, in this source and focus session, were        *)
(*            neutral and have not reached the press threshold since;      *)
(*   firm   : triggers above the release threshold in the last sample, if  *)
(*            that sample was valid and the gameplay gate was open;        *)
(*   neutral: triggers at or below the release threshold in the last       *)
(*            sample, if it was valid;                                     *)
(*   tied   : triggers that reached the press threshold from rest in one   *)
(*            sample with the gate open, and have not been neutral since.  *)
(***************************************************************************)
EXTENDS ControllerPolicy

VARIABLES rested, firm, neutral, tied

mvars == <<vars, rested, firm, neutral, tied>>

Valid(x) == x.connected /\ x.focused /\ x.finite

AtRest(x) == {s \in Sides : x.level[s] <= ReleaseThreshold}
Crossing(x) == {s \in Sides \cap Kept(rested, x) : x.level[s] >= PressThreshold}
\* Both triggers cross in one sample, and the game would let either swing.
Tie(x) == x.gate /\ Crossing(x) = Sides

Observe(x) ==
    /\ rested' = IF ~Valid(x) THEN {}
                 ELSE {s \in Sides : \/ x.level[s] <= ReleaseThreshold
                                     \/ /\ s \in Kept(rested, x)
                                        /\ x.level[s] < PressThreshold}
    /\ firm' = IF Valid(x) /\ x.gate
                 THEN {s \in Sides : x.level[s] > ReleaseThreshold}
                 ELSE {}
    /\ neutral' = IF Valid(x) THEN AtRest(x) ELSE {}
    /\ tied' = IF Valid(x)
                 THEN (IF Tie(x) THEN Sides ELSE Kept(tied, x)) \ AtRest(x)
                 ELSE IF x.connected THEN Kept(tied, x) ELSE {}

MonitorInit ==
    /\ Init
    /\ rested = {}
    /\ firm = {}
    /\ neutral = {}
    /\ tied = {}

Poll(x) ==
    /\ Update(x)
    /\ Observe(x)

Shutdown ==
    /\ CancelAndReset
    /\ rested' = {}
    /\ firm' = {}
    /\ neutral' = {}
    /\ tied' = {}

MonitorNext ==
    \/ \E x \in Samples : Poll(x)
    \/ Shutdown

MonitorSpec == MonitorInit /\ [][MonitorNext]_mvars
-----------------------------------------------------------------------------
(* Types of the policy's state and of the observers.                       *)
MonitorTypeOK ==
    /\ TypeOK
    /\ rested \in SUBSET Sides
    /\ firm \in SUBSET Sides
    /\ neutral \in SUBSET Sides
    /\ tied \in SUBSET Sides

(* No stuck hold: the native Swing is held exactly while somebody owns it, *)
(* and after every update the very last sample justifies it: connected,    *)
(* focused, finite, gate open and the owning trigger still above the       *)
(* release threshold.                                                      *)
HoldJustified ==
    /\ held <=> owner # NoSide
    /\ held => owner \in firm

(* A captured trigger belongs to a press the policy has not seen end: it   *)
(* is down, the owner is among the captured, and the triggers the policy   *)
(* would accept as fresh are exactly those that really rested: it neither  *)
(* makes up a press nor goes deaf to one.                                  *)
CaptureConsistent ==
    /\ captured \subseteq down
    /\ held => owner \in captured
    /\ armed \ down = rested

(* A hold starts only on a deliberate press: nobody owned the rope, the    *)
(* trigger was neutral in this very session and reaches the threshold for  *)
(* the first time since.  A trigger held through a gate change, a focus    *)
(* loss, a reconnection or somebody else's release never starts one.       *)
FreshPressOnly ==
    [][owner' \notin {owner, NoSide} => owner = NoSide /\ owner' \in rested]_mvars

(* A trigger captured from the game stays captured and consumed until a    *)
(* valid sample shows it neutral; that sample is consumed too.  Only a     *)
(* lost or changed source forgets it.                                      *)
QuarantineUntilNeutral ==
    [][known /\ known' /\ epoch' = epoch
         => /\ captured \subseteq decision'.consume
            /\ captured \ captured' \subseteq neutral']_mvars

(* Every start and every end of a hold is reported to the game exactly     *)
(* once, and never both in one update (no up/down restart in one sample).  *)
EdgesReportedOnce ==
    [][/\ decision'.lift <=> (held /\ owner' # owner)
       /\ decision'.press <=> (owner' \notin {owner, NoSide})
       /\ ~(decision'.lift /\ decision'.press)
       /\ decision'.release = {owner} \ {owner', NoSide}
       /\ decision'.attach = {owner'} \ {owner, NoSide}]_mvars

(* When both triggers cross the press threshold in one sample, the policy  *)
(* does not choose: neither starts a hold, both are taken from the game,   *)
(* and neither may swing or reach the game before it has been neutral      *)
(* itself, whatever the gate, the focus and the other trigger do meanwhile.*)
TieStartsNothing ==
    /\ tied \subseteq captured
    /\ owner \notin tied
=============================================================================
