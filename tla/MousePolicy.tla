----------------------------- MODULE MousePolicy -----------------------------
(***************************************************************************)
(* AirborneWebInputPolicy (AirborneWebInputPolicy.h): which raw mouse      *)
(* edges are taken from the game and which button owns the native rope.    *)
(***************************************************************************)
VARIABLES
    captured,   \* leftCaptured_ / rightCaptured_
    owns,       \* leftOwnsNativeHold_ / rightOwnsNativeHold_
    decision    \* the WebInputDecision the last call returned

vars == <<captured, owns, decision>>
-----------------------------------------------------------------------------
Sides == {"left", "right"}
NoSide == "none"

\* WebInputEligibility: `gate' is foreground /\ runtimeReady /\
\* airborneProven, `chord' is nativeLeftActionChordHeld.
Eligibilities == [gate : BOOLEAN, chord : BOOLEAN]

Decisions ==
    [consume : BOOLEAN, attach : SUBSET Sides, release : SUBSET Sides,
     press : BOOLEAN, lift : BOOLEAN]

TypeOK ==
    /\ captured \in SUBSET Sides
    /\ owns \in SUBSET Sides
    /\ decision \in Decisions

NoDecision ==
    [consume |-> FALSE, attach |-> {}, release |-> {}, press |-> FALSE,
     lift |-> FALSE]

Init ==
    /\ captured = {}
    /\ owns = {}
    /\ decision = NoDecision
-----------------------------------------------------------------------------
\* Left-button attacks keep the native button: Ground Strike with Space held,
\* Swing Kick while the right button owns the web.
NativePriority(s, e) == s = "left" /\ (e.chord \/ "right" \in owns)

\* A second down without an up in between.
Duplicate(s) ==
    /\ s \in captured
    /\ decision' = [NoDecision EXCEPT !.consume = TRUE]
    /\ UNCHANGED <<captured, owns>>

PassToGame(s, e) ==
    /\ s \notin captured
    /\ NativePriority(s, e) \/ (owns = {} /\ ~e.gate)
    /\ decision' = NoDecision
    /\ UNCHANGED <<captured, owns>>

\* A swallowed press that is not latched (mutant).
SuppressUnlatched(s, e) ==
    /\ s \notin captured
    /\ ~NativePriority(s, e)
    /\ owns # {}
    /\ decision' = [NoDecision EXCEPT !.consume = TRUE]
    /\ UNCHANGED <<captured, owns>>

\* The second press takes the rope from the first (mutant).
SuppressByTransfer(s, e) ==
    /\ s \notin captured
    /\ ~NativePriority(s, e)
    /\ owns # {}
    /\ captured' = captured \cup {s}
    /\ owns' = {s}
    /\ decision' = [NoDecision EXCEPT !.consume = TRUE]

\* The other button already owns the one rope: swallow this press.
Suppress(s, e) ==
    /\ s \notin captured
    /\ ~NativePriority(s, e)
    /\ owns # {}
    /\ captured' = captured \cup {s}
    /\ decision' = [NoDecision EXCEPT !.consume = TRUE]
    /\ UNCHANGED owns

\* An owning press that the game sees as well (mutant).
OwnUnconsumed(s, e) ==
    /\ s \notin captured
    /\ ~NativePriority(s, e)
    /\ owns = {}
    /\ e.gate
    /\ captured' = captured \cup {s}
    /\ owns' = {s}
    /\ decision' = [consume |-> FALSE, attach |-> {s}, release |-> {},
                    press |-> TRUE, lift |-> FALSE]

Own(s, e) ==
    /\ s \notin captured
    /\ ~NativePriority(s, e)
    /\ owns = {}
    /\ e.gate
    /\ captured' = captured \cup {s}
    /\ owns' = {s}
    /\ decision' = [consume |-> TRUE, attach |-> {s}, release |-> {},
                    press |-> TRUE, lift |-> FALSE]

Down(s, e) ==
    \/ Duplicate(s)
    \/ PassToGame(s, e)
    \/ Suppress(s, e)
    \/ Own(s, e)

UpNative(s) ==
    /\ s \notin captured
    /\ decision' = NoDecision
    /\ UNCHANGED <<captured, owns>>

\* The up clears the latch but not the ownership (mutant).
UpKeepsOwner(s) ==
    /\ s \in captured
    /\ captured' = captured \ {s}
    /\ decision' = [NoDecision EXCEPT !.consume = TRUE]
    /\ UNCHANGED owns

UpCaptured(s) ==
    /\ s \in captured
    /\ captured' = captured \ {s}
    /\ owns' = owns \ {s}
    /\ decision' = [consume |-> TRUE, attach |-> {}, release |-> owns \cap {s},
                    press |-> FALSE, lift |-> owns # {} /\ owns \ {s} = {}]

Up(s) == UpNative(s) \/ UpCaptured(s)

\* The hold ends, the capture latches stay.
CancelNativeHold ==
    /\ owns' = {}
    /\ decision' = [consume |-> FALSE, attach |-> {}, release |-> owns,
                    press |-> FALSE, lift |-> owns # {}]
    /\ UNCHANGED captured

\* Reset, as the adapter calls it: always after CancelNativeHold.
Reset ==
    /\ captured' = {}
    /\ owns' = {}
    /\ decision' = NoDecision

Next ==
    \/ \E s \in Sides : Up(s) \/ \E e \in Eligibilities : Down(s, e)
    \/ CancelNativeHold
    \/ Reset

Spec == Init /\ [][Next]_vars
=============================================================================
