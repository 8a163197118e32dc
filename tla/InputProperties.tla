-------------------------- MODULE InputProperties --------------------------
(***************************************************************************)
(* What the input adapter owes the player and the game.                    *)
(***************************************************************************)
EXTENDS InputRuntime

RuntimeTypeOK ==
    /\ Mouse!TypeOK
    /\ Pad!TypeOK
    /\ device \in Devices \cup {NoDevice} /\ routeEpoch \in Epochs
    /\ {synthetic, bridge, physicalShift, nativeShift} \subseteq BOOLEAN
    /\ reqSide \in Sides \cup {NoSide, "canceling"}
    /\ {reqHero, heroPub, proven} \subseteq Heroes \cup {NoHero}
    /\ trigger \in Triggers
    /\ pc \in Handlers
    /\ todo \in [Sides -> Edges]
    /\ \A i \in DOMAIN work : work[i] \in Effects
    /\ submit \in Submissions

(* The mouse and the controller share one rope and one request: they never *)
(* hold it together.                                                       *)
OneHolder == ~(mOwns # {} /\ pHeld)

(* Between two effects the published request is the hold: the side of the  *)
(* owning button or trigger, for a proved hero, and nothing without one.   *)
RequestIsHold ==
    work = <<>> =>
        /\ reqSide # "canceling"
        /\ \A s \in Sides : reqSide = s <=> s \in mOwns \/ pOwner = s
        /\ reqSide # NoSide <=> reqHero # NoHero

(* The Shift the mod pressed is never stuck in the game: it is down there  *)
(* only while a button owns the rope or the player's own Shift inherited   *)
(* it.                                                                     *)
NoStuckShift ==
    /\ synthetic => bridge
    /\ bridge => nativeShift /\ (synthetic \/ physicalShift)
    /\ work = <<>> => (synthetic <=> mOwns # {})

(* The game never swings stock on the mod's own input: as long as the mod  *)
(* keeps Shift down, or the controller's hold drives the trigger, a request *)
(* (or its cancellation) stands and no stock submission is in progress.    *)
SwingCovered ==
    synthetic \/ (trigger = "driven" /\ pHeld)
      => reqSide # NoSide /\ submit # "stock"

(* The edges the mod injects are edges: it presses a Shift the game has up *)
(* and lifts one the game has down.                                        *)
EdgesAreReal ==
    [][/\ ~bridge /\ bridge' => ~nativeShift /\ nativeShift'
       /\ bridge /\ ~bridge' => nativeShift /\ ~nativeShift']_vars

(* SideHold, with the request as the hold and the submission under it.     *)
Hold == INSTANCE SideHold WITH
          holder <- IF reqSide \in Sides THEN reqSide ELSE NoSide,
          submit <- IF submit = "refused" THEN NoSide ELSE submit,
          Stock <- "stock"
OneRope == Hold!Spec
-----------------------------------------------------------------------------
(* Fairness: the input thread finishes the handler it runs, a native       *)
(* submission returns, the request lock does not starve a waiter that sees *)
(* it free again and again, and the game keeps polling its devices.        *)
Poll == PollDisconnected \/ \E d \in Devices : PollConnected(d)

Fairness ==
    /\ WF_vars(Press \/ Lift \/ ForceUp)
    /\ WF_vars(Handle)
    /\ WF_vars(SubmitEnd)
    /\ SF_vars(Publish \/ Mark \/ Clear)
    /\ SF_vars(Poll)

FairSpec == Spec /\ Fairness

(* No handler hangs on the lock: every effect of a decision is carried out *)
(* and a request being cancelled does not block the rope for ever.         *)
EffectsComplete ==
    /\ work # <<>> ~> work = <<>>
    /\ reqSide = "canceling" ~> reqSide = NoSide

(* A trigger the mod drives for a hold that has ended (focus loss ends it  *)
(* without a write) does not stay driven: a later poll leaves it physical   *)
(* or neutral, unless a new hold drives it.                                *)
TriggerWithdrawn ==
    trigger = "driven" /\ ~pHeld
      ~> pHeld \/ (trigger # "driven" /\ Running("idle"))

(* The comment of CancelManualHold (ManualWebRuntime.cpp:1208-1209) "A     *)
(* focus boundary invalidates our physical-key observation. Force the      *)
(* native action up": when the focus message has been handled, the game    *)
(* sees none of the mod's Swing inputs down.                               *)
FocusForcesUp == Running("focusEnd") => ~bridge /\ trigger # "driven"
=============================================================================
