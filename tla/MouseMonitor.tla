---------------------------- MODULE MouseMonitor ----------------------------
(***************************************************************************)
(* The mouse policy fed by a physical mouse whose ups may get lost, as Raw *)
(* Input loses them without RIDEV_INPUTSINK, whose packets may carry both  *)
(* edges of a button at once, and by a game that sees only the edges the   *)
(* hook lets through.                                                      *)
(***************************************************************************)
EXTENDS MousePolicy

VARIABLES
    pressed,    \* buttons physically down
    seen,       \* buttons whose last edge that reached the game was a down
    forgotten,  \* buttons that were down when a focus epoch reset the policy
    blurred,    \* buttons down since an up and a down in one stripped packet
    missed,     \* captured buttons whose up got lost, until they go down again
    stale       \* buttons the game holds down because their up got lost

mvars == <<vars, pressed, seen, forgotten, blurred, missed, stale>>

MonitorTypeOK ==
    /\ TypeOK
    /\ {pressed, seen, forgotten, blurred, missed, stale} \subseteq SUBSET Sides

MonitorInit ==
    /\ Init
    /\ pressed = {}
    /\ seen = {}
    /\ forgotten = {}
    /\ blurred = {}
    /\ missed = {}
    /\ stale = {}

PressButton(s, e) ==
    /\ s \notin pressed
    /\ Down(s, e)
    /\ pressed' = pressed \cup {s}
    /\ seen' = IF decision'.consume THEN seen ELSE seen \cup {s}
    /\ forgotten' = forgotten \ {s}
    /\ blurred' = blurred \ {s}
    /\ missed' = missed \ {s}
    /\ UNCHANGED stale

ReleaseButton(s) ==
    /\ s \in pressed
    /\ Up(s)
    /\ pressed' = pressed \ {s}
    /\ seen' = IF decision'.consume THEN seen ELSE seen \ {s}
    /\ stale' = IF decision'.consume THEN stale ELSE stale \ {s}
    /\ forgotten' = forgotten \ {s}
    /\ blurred' = blurred \ {s}
    /\ UNCHANGED missed

(* handleAmbiguousPair.  The packet does not tell the order of its two     *)
(* edges; for a button that was up it is down before up, for one that was  *)
(* down up before down, so that the pair leaves the button where it was.   *)
\* Of a captured button the pair is taken for its up and kept from the game.
StripPair(s) ==
    /\ s \in captured
    /\ Up(s)
    /\ blurred' = blurred \cup ({s} \cap pressed)
    /\ missed' = missed \ {s}
    /\ UNCHANGED <<pressed, seen, forgotten, stale>>

\* Of any other button both edges go to the game, past the policy.
PassPair(s) ==
    /\ s \notin captured
    /\ seen' = IF s \in pressed THEN seen \cup {s} ELSE seen \ {s}
    /\ forgotten' = forgotten \ {s}
    /\ blurred' = blurred \ {s}
    /\ stale' = stale \ {s}
    /\ UNCHANGED <<vars, pressed, missed>>

LoseUp(s) ==
    /\ s \in pressed
    /\ pressed' = pressed \ {s}
    /\ missed' = missed \cup ({s} \cap captured)
    /\ stale' = stale \cup ({s} \cap seen)
    /\ forgotten' = forgotten \ {s}
    /\ blurred' = blurred \ {s}
    /\ UNCHANGED <<vars, seen>>

\* CancelManualHold: cancel and reset in one focus message.
LoseFocus ==
    /\ Reset
    /\ forgotten' = forgotten \cup (pressed \cap captured)
    /\ missed' = {}
    /\ UNCHANGED <<pressed, seen, blurred, stale>>

\* The hold is cancelled and the latches kept (the first half of the above).
CancelHold ==
    /\ CancelNativeHold
    /\ UNCHANGED <<pressed, seen, forgotten, blurred, missed, stale>>

MonitorNext ==
    \/ \E s \in Sides : \/ \E e \in Eligibilities : PressButton(s, e)
                        \/ ReleaseButton(s)
                        \/ StripPair(s) \/ PassPair(s)
                        \/ LoseUp(s)
    \/ LoseFocus
    \/ CancelHold

MonitorSpec == MonitorInit /\ [][MonitorNext]_mvars
-----------------------------------------------------------------------------
(* A button the game did not see go down is captured as long as it is      *)
(* held, so that its up cannot reach the game unmatched.  There are two    *)
(* exceptions: a button held across a focus epoch, whose latch the adapter *)
(* resets, and one whose up and next down came in one packet, which was    *)
(* taken for the up.  No order of presses, of the other button's ownership *)
(* and of lost ups makes a third.                                          *)
NoUnmatchedUp == pressed \ captured \subseteq seen \cup forgotten \cup blurred

(* A captured button's down never reached the game in this capture: the    *)
(* game holds it only from an earlier press whose up got lost.             *)
NoLeakedDown == captured \cap seen \subseteq stale

(* The native hold never outlives its button: at most one button owns it,  *)
(* that button is captured, and it is physically down unless its up was    *)
(* lost on the way.                                                        *)
HoldHasButton ==
    /\ \A s, t \in owns : s = t
    /\ owns \subseteq captured
    /\ captured \subseteq pressed \cup missed

(* One native rope: ownership never passes from one button to the other.   *)
Holder ==
    IF "left" \in owns THEN "left"
    ELSE IF "right" \in owns THEN "right" ELSE NoSide
Hold == INSTANCE SideHold WITH holder <- Holder, submit <- NoSide,
                               Stock <- "stock"
OneRope == Hold!Spec
=============================================================================
