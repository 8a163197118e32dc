---------------------------- MODULE InputRuntime ----------------------------
(***************************************************************************)
(* The input adapter of ManualWebRuntime.cpp (TRUESWING_CONTROLS_ONLY):    *)
(* what HookInputDispatch, HookInputDeviceUpdate and HookSwingPointSubmit  *)
(* do with the decisions of the two policies.                              *)
(*                                                                         *)
(* Two threads.  The input thread runs one handler at a time (a raw mouse  *)
(* packet, a Shift edge, a focus loss, a device poll); the steps of a      *)
(* handler that the other thread can see apart are steps of their own:     *)
(* `pc' is the handler and `work' the sequence of effects that are still   *)
(* due.  The traversal thread publishes the hero and submits ropes; it     *)
(* holds g_sideRequestLock for the whole of a submission, so the lock is   *)
(* free exactly when submit = NoSide.                                      *)
(***************************************************************************)
EXTENDS Integers, Sequences

CONSTANTS
    Devices, NoDevice,  \* gamepads the game may route to player 0
    EpochWidth,         \* the route's epoch counter wraps at this (2^64)
    Levels,             \* trigger values of a poll
    PressThreshold, ReleaseThreshold,
    Heroes, NoHero      \* bindings a hunter may publish; none fresh and valid

ASSUME RuntimeAssumption ==
    /\ NoDevice \notin Devices
    /\ EpochWidth \in Nat /\ EpochWidth >= 3
    /\ Levels \subseteq Int
    /\ NoHero \notin Heroes

VARIABLES
    mCaptured, mOwns, mDecision,            \* g_inputPolicy
    pKnown, pEpoch, pDown, pCaptured,       \* g_controllerInputPolicy
    pArmed, pOwner, pHeld, pDecision,
    device, routeEpoch,     \* g_controllerSourceRoute
    synthetic,              \* g_syntheticShiftDown
    bridge,                 \* g_nativeBridgeShiftDown
    physicalShift,          \* g_physicalShiftDown
    nativeShift,            \* the game's own key state of left Shift
    reqSide, reqHero,       \* g_sideRequest: side (or canceling) and binding
    heroPub,                \* g_hero as a reader proves it now, or NoHero
    proven,                 \* provenHero of the running handler
    trigger,                \* the game-facing right trigger
    pc, todo, work,         \* input thread: handler, edges left, effects due
    submit                  \* traversal thread: the submission in progress

mouseVars == <<mCaptured, mOwns, mDecision>>
padVars == <<pKnown, pEpoch, pDown, pCaptured, pArmed, pOwner, pHeld, pDecision>>
routeVars == <<device, routeEpoch>>
keyVars == <<synthetic, bridge, physicalShift, nativeShift>>
requestVars == <<reqSide, reqHero>>
vars == <<mouseVars, padVars, routeVars, keyVars, requestVars, heroPub, proven,
          trigger, pc, todo, work, submit>>

Epochs == 0 .. EpochWidth - 1

Mouse == INSTANCE MousePolicy WITH captured <- mCaptured, owns <- mOwns,
                                   decision <- mDecision
Pad == INSTANCE ControllerPolicy WITH
          Values <- Levels, known <- pKnown, epoch <- pEpoch, down <- pDown,
          captured <- pCaptured, armed <- pArmed, owner <- pOwner,
          held <- pHeld, decision <- pDecision
-----------------------------------------------------------------------------
Sides == {"left", "right"}
NoSide == "none"

\* The edges of one button in a raw packet; "both" is a down and an up whose
\* order the packet does not tell.
Edges == {"no", "down", "up", "both"}
Nothing == [s \in Sides |-> "no"]

Handlers == {"idle", "packet", "poll", "unplugged",
             "focusMouse", "focusReset", "focusEnd"}
Effects == {"publish", "press", "mark", "lift", "force", "clear"}
Triggers == {"raw", "zero", "driven"}
Submissions == Sides \cup {NoSide, "stock", "refused"}

NoPadDecision ==
    [layerActive |-> FALSE, consume |-> {}, attach |-> {}, release |-> {},
     press |-> FALSE, lift |-> FALSE]

Init ==
    /\ Mouse!Init
    /\ Pad!Init
    /\ device = NoDevice /\ routeEpoch = 0
    /\ synthetic = FALSE /\ bridge = FALSE
    /\ physicalShift = FALSE /\ nativeShift = FALSE
    /\ reqSide = NoSide /\ reqHero = NoHero
    /\ heroPub = NoHero /\ proven = NoHero
    /\ trigger = "raw"
    /\ pc = "idle" /\ todo = Nothing /\ work = <<>>
    /\ submit = NoSide
-----------------------------------------------------------------------------
(* The decisions, as the effects ApplyDecision and ApplyControllerDecision *)
(* carry out, in their order.                                              *)
When(b, seq) == IF b THEN seq ELSE <<>>

\* The request is dropped before the game's Shift goes up (mutant).
ApplyDecisionClearFirst(d) ==
    When(d.attach # {}, <<"publish">>)
      \o When(d.press, <<"press">>)
      \o When(d.release # {}, <<"mark", "clear">>)
      \o When(d.lift, <<"lift">>)

ApplyDecision(d) ==
    When(d.attach # {}, <<"publish">>)
      \o When(d.press, <<"press">>)
      \o When(d.release # {}, <<"mark">>)
      \o When(d.lift, <<"lift">>)
      \o When(d.release # {}, <<"clear">>)

\* A release that leaves the request canceling (mutant).
ApplyControllerMarkOnly(d) ==
    When(d.release # {}, <<"mark">>) \o When(d.attach # {}, <<"publish">>)

\* The controller's hold is driven through the trigger, not through Shift.
ApplyControllerDecision(d) ==
    When(d.release # {}, <<"mark", "clear">>)
      \o When(d.attach # {}, <<"publish">>)

Running(handler) == pc = handler /\ work = <<>>
LockFree == submit = NoSide

Effect(e) ==
    /\ work # <<>>
    /\ Head(work) = e
    /\ work' = Tail(work)
    /\ UNCHANGED <<mouseVars, padVars, routeVars, heroPub, proven, trigger,
                   pc, todo, submit>>

\* PublishSideRequest, with the hero proved when the press was judged.
Publish ==
    /\ Effect("publish")
    /\ LockFree
    /\ reqSide' \in mDecision.attach \cup pDecision.attach
    /\ reqHero' = proven
    /\ UNCHANGED keyVars

\* InjectNativeShift(down): the parser gives the game the edge.
Press ==
    /\ Effect("press")
    /\ physicalShift' = FALSE
    /\ nativeShift' = TRUE
    /\ bridge' = TRUE
    /\ synthetic' = TRUE
    /\ UNCHANGED requestVars

\* The cancellation does not wait for a submission in progress (mutant).
MarkUnlocked ==
    /\ Effect("mark")
    /\ reqSide' = IF reqSide \in Sides THEN "canceling" ELSE reqSide
    /\ UNCHANGED <<reqHero, keyVars>>

\* BeginSideRequestCancellation
Mark ==
    /\ Effect("mark")
    /\ LockFree
    /\ reqSide' = IF reqSide \in Sides THEN "canceling" ELSE reqSide
    /\ UNCHANGED <<reqHero, keyVars>>

\* The native up, unless the player's own Shift inherits the edge.
Lift ==
    /\ Effect("lift")
    /\ nativeShift' = (nativeShift /\ physicalShift)
    /\ bridge' = (bridge /\ physicalShift)
    /\ synthetic' = FALSE
    /\ UNCHANGED <<physicalShift, requestVars>>

\* The keyboard part of CancelManualHold.
ForceUp ==
    /\ Effect("force")
    /\ nativeShift' = (nativeShift /\ ~bridge)
    /\ bridge' = FALSE
    /\ synthetic' = FALSE
    /\ physicalShift' = FALSE
    /\ UNCHANGED requestVars

\* ClearSideRequest
Clear ==
    /\ Effect("clear")
    /\ LockFree
    /\ reqSide' = NoSide
    /\ reqHero' = NoHero
    /\ UNCHANGED keyVars
-----------------------------------------------------------------------------
(* HookInputDispatch: a raw mouse packet.                                  *)
MousePacket(f) ==
    /\ Running("idle")
    /\ f # Nothing
    /\ pc' = "packet"
    /\ todo' = f
    /\ UNCHANGED <<mouseVars, padVars, routeVars, keyVars, requestVars,
                   heroPub, proven, trigger, work, submit>>

\* Ambiguous pairs come first, left before right.
Rank(s) == (IF todo[s] = "both" THEN 0 ELSE 2) + (IF s = "left" THEN 0 ELSE 1)
Due(s) ==
    /\ todo[s] # "no"
    /\ \A t \in Sides : todo[t] # "no" => Rank(s) <= Rank(t)

\* Eligibility that ignores the controller's hold (mutant).
MouseReadyBesideController ==
    (synthetic \/ ~nativeShift) /\ heroPub # NoHero

\* Eligibility that ignores the game's own Shift state (mutant).
MouseReadyAnyShift == ~pHeld /\ heroPub # NoHero

\* EligibilityForDown: what it may answer now; the other reads of game state
\* (mouse enabled, bindings, hand mirror, airborne) are the environment's.
MouseReady ==
    /\ ~pHeld
    /\ synthetic \/ ~nativeShift
    /\ heroPub # NoHero
MouseEligibility ==
    {e \in Mouse!Eligibilities : e.gate \/ e.chord => MouseReady}

\* The body of `process' and of handleAmbiguousPair for button s.
ProcessButton(s) ==
    /\ Running("packet")
    /\ Due(s)
    /\ \/ /\ todo[s] = "down"
          /\ \E e \in MouseEligibility :
                /\ Mouse!Down(s, e)
                /\ proven' = IF e.gate THEN heroPub ELSE NoHero
       \/ /\ todo[s] \in {"up", "both"}
          /\ Mouse!Up(s)
          /\ proven' = NoHero
    /\ todo' = [todo EXCEPT ![s] = "no"]
    /\ work' = ApplyDecision(mDecision')
    /\ UNCHANGED <<padVars, routeVars, keyVars, requestVars, heroPub, trigger,
                   pc, submit>>

EndPacket ==
    /\ Running("packet")
    /\ todo = Nothing
    /\ pc' = "idle"
    /\ mDecision' = Mouse!NoDecision
    /\ proven' = NoHero
    /\ UNCHANGED <<mCaptured, mOwns, padVars, routeVars, keyVars, requestVars,
                   heroPub, trigger, todo, work, submit>>

\* The handed-over Shift's up does not end the bridge (mutant).
ShiftKeyKeepsBridge(isDown) ==
    /\ Running("idle")
    /\ physicalShift' = isDown
    /\ nativeShift' = IF synthetic THEN nativeShift ELSE isDown
    /\ UNCHANGED <<mouseVars, padVars, routeVars, synthetic, bridge,
                   requestVars, heroPub, proven, trigger, pc, todo, work,
                   submit>>

(* HookInputDispatch: an edge (or a repeat) of the player's left Shift.    *)
ShiftKey(isDown) ==
    /\ Running("idle")
    /\ physicalShift' = isDown
    /\ IF synthetic
         THEN UNCHANGED <<nativeShift, bridge>>
         ELSE nativeShift' = isDown /\ bridge' = (bridge /\ isDown)
    /\ UNCHANGED <<mouseVars, padVars, routeVars, synthetic, requestVars,
                   heroPub, proven, trigger, pc, todo, work, submit>>
-----------------------------------------------------------------------------
(* HookInputDispatch: a focus loss, CancelManualHold.                      *)
Unfocused ==
    [connected |-> TRUE, focused |-> FALSE, finite |-> TRUE, gate |-> FALSE,
     epoch |-> routeEpoch, level |-> [s \in Sides |-> 0]]

\* CancelControllerForFocusLoss
FocusLost ==
    /\ Running("idle")
    /\ IF device # NoDevice THEN Pad!Update(Unfocused) ELSE Pad!CancelAndReset
    /\ work' = ApplyControllerDecision(pDecision')
    /\ pc' = "focusMouse"
    /\ UNCHANGED <<mouseVars, routeVars, keyVars, requestVars, heroPub, proven,
                   trigger, todo, submit>>

FocusMouse ==
    /\ Running("focusMouse")
    /\ Mouse!CancelNativeHold
    /\ work' = ApplyDecision(mDecision')
    /\ pDecision' = NoPadDecision
    /\ pc' = "focusReset"
    /\ UNCHANGED <<pKnown, pEpoch, pDown, pCaptured, pArmed, pOwner, pHeld,
                   routeVars, keyVars, requestVars, heroPub, proven, trigger,
                   todo, submit>>

FocusReset ==
    /\ Running("focusReset")
    /\ Mouse!Reset
    /\ work' = <<"mark", "force", "clear">>
    /\ pc' = "focusEnd"
    /\ UNCHANGED <<padVars, routeVars, keyVars, requestVars, heroPub, proven,
                   trigger, todo, submit>>

\* The original handler sees the message next; it may flush the game's keys.
FocusEnd ==
    /\ Running("focusEnd")
    /\ pc' = "idle"
    /\ nativeShift' \in {nativeShift, FALSE}
    /\ UNCHANGED <<mouseVars, padVars, routeVars, synthetic, bridge,
                   physicalShift, requestVars, heroPub, proven, trigger, todo,
                   work, submit>>
-----------------------------------------------------------------------------
(* HookInputDeviceUpdate.  The original update has just refreshed the      *)
(* device, so the game-facing trigger is the physical one until the write. *)
Advance(e) == IF (e + 1) % EpochWidth = 0 THEN 1 ELSE e + 1

\* ControllerSourceRoute::Update
Route(d) ==
    /\ device' = d
    /\ routeEpoch' = IF d = device THEN routeEpoch ELSE Advance(routeEpoch)

\* ControllerEligibilityForDown, asked only for a hold or a pressed trigger.
PadReady ==
    /\ mOwns = {}
    /\ ~synthetic /\ ~bridge /\ ~nativeShift
    /\ heroPub # NoHero

PadSamples(e) ==
    {x \in [connected : {TRUE}, focused : BOOLEAN, finite : BOOLEAN,
            gate : BOOLEAN, epoch : {e}, level : [Sides -> Levels]] :
        x.gate => /\ x.focused
                  /\ PadReady
                  /\ pHeld \/ \E s \in Sides : x.level[s] >= PressThreshold}

PollConnected(d) ==
    /\ Running("idle")
    /\ Route(d)
    /\ \E x \in PadSamples(routeEpoch') :
          /\ Pad!Update(x)
          /\ proven' = IF x.gate THEN heroPub ELSE NoHero
    /\ work' = ApplyControllerDecision(pDecision')
    /\ trigger' = "raw"
    /\ pc' = "poll"
    /\ UNCHANGED <<mouseVars, keyVars, requestVars, heroPub, todo, submit>>

\* No device, an ambiguous one, or one that reports itself disconnected.
PollDisconnected ==
    /\ Running("idle")
    /\ Route(NoDevice)
    /\ Pad!Update([Unfocused EXCEPT !.connected = FALSE, !.epoch = routeEpoch'])
    /\ work' = ApplyControllerDecision(pDecision')
    /\ trigger' = "raw"
    /\ pc' = "unplugged"
    /\ UNCHANGED <<mouseVars, keyVars, requestVars, heroPub, proven, todo,
                   submit>>

\* A quarantined trigger is driven, not neutralised (mutant).
PollWriteDrivesQuarantined ==
    /\ Running("poll")
    /\ trigger' = IF pHeld \/ "right" \in pDecision.consume THEN "driven"
                  ELSE trigger
    /\ pc' = "idle"
    /\ pDecision' = NoPadDecision
    /\ proven' = NoHero
    /\ UNCHANGED <<mouseVars, pKnown, pEpoch, pDown, pCaptured, pArmed, pOwner,
                   pHeld, routeVars, keyVars, requestVars, heroPub, todo, work,
                   submit>>

\* ResolveControllerTriggerBridge and the write of the right trigger.
PollWrite ==
    /\ Running("poll")
    /\ trigger' = IF pHeld THEN "driven"
                  ELSE IF "right" \in pDecision.consume THEN "zero"
                  ELSE trigger
    /\ pc' = "idle"
    /\ pDecision' = NoPadDecision
    /\ proven' = NoHero
    /\ UNCHANGED <<mouseVars, pKnown, pEpoch, pDown, pCaptured, pArmed, pOwner,
                   pHeld, routeVars, keyVars, requestVars, heroPub, todo, work,
                   submit>>

\* One of the writes fails; the right trigger, the last one, is not written.
PollWriteFails ==
    /\ Running("poll")
    /\ Pad!CancelAndReset
    /\ work' = ApplyControllerDecision(pDecision')
    /\ Route(NoDevice)
    /\ pc' = "unplugged"
    /\ proven' = NoHero
    /\ UNCHANGED <<mouseVars, keyVars, requestVars, heroPub, trigger, todo,
                   submit>>

PollEnd ==
    /\ Running("unplugged")
    /\ pc' = "idle"
    /\ pDecision' = NoPadDecision
    /\ UNCHANGED <<mouseVars, pKnown, pEpoch, pDown, pCaptured, pArmed, pOwner,
                   pHeld, routeVars, keyVars, requestVars, heroPub, proven,
                   trigger, todo, work, submit>>
-----------------------------------------------------------------------------
inputVars == <<mouseVars, padVars, routeVars, keyVars, requestVars, proven,
               trigger, pc, todo, work>>

(* ObserveHunter publishes a binding; the lease runs out, or the binding   *)
(* no longer revalidates.                                                  *)
HeroPublished(h) ==
    /\ heroPub' = h
    /\ UNCHANGED <<inputVars, submit>>

HeroExpired ==
    /\ heroPub' = NoHero
    /\ UNCHANGED <<inputVars, submit>>

(* HookSwingPointSubmit takes the lock and holds it for the native call.   *)
SubmitStock ==
    /\ LockFree
    /\ reqSide = NoSide
    /\ submit' = "stock"
    /\ UNCHANGED <<inputVars, heroPub>>

SubmitSide ==
    /\ LockFree
    /\ reqSide \in Sides
    /\ heroPub = reqHero
    /\ submit' = reqSide
    /\ UNCHANGED <<inputVars, heroPub>>

\* Being cancelled, or the hero, its flight or its hand is not proved: the
\* selected anchor is invalidated.
SubmitRefused ==
    /\ LockFree
    /\ reqSide # NoSide
    /\ submit' = "refused"
    /\ UNCHANGED <<inputVars, heroPub>>

\* A refused submission returns without unlocking (mutant).
SubmitEndKeepsLock ==
    /\ submit \notin {NoSide, "refused"}
    /\ submit' = NoSide
    /\ UNCHANGED <<inputVars, heroPub>>

SubmitEnd ==
    /\ submit # NoSide
    /\ submit' = NoSide
    /\ UNCHANGED <<inputVars, heroPub>>
-----------------------------------------------------------------------------
ApplyEffect == Publish \/ Press \/ Mark \/ Lift \/ ForceUp \/ Clear

Handle ==
    \/ \E s \in Sides : ProcessButton(s)
    \/ EndPacket
    \/ FocusMouse \/ FocusReset \/ FocusEnd
    \/ PollWrite \/ PollWriteFails \/ PollEnd

Arrive ==
    \/ \E f \in [Sides -> Edges] : MousePacket(f)
    \/ \E b \in BOOLEAN : ShiftKey(b)
    \/ FocusLost
    \/ \E d \in Devices : PollConnected(d)
    \/ PollDisconnected

Traverse ==
    \/ \E h \in Heroes : HeroPublished(h)
    \/ HeroExpired
    \/ SubmitStock \/ SubmitSide \/ SubmitRefused
    \/ SubmitEnd

Next == ApplyEffect \/ Handle \/ Arrive \/ Traverse

Spec == Init /\ [][Next]_vars
=============================================================================
