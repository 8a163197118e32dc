---------------------------- MODULE InputProofs ----------------------------
(***************************************************************************)
(* Proofs about the input adapter, for every set of devices, heroes and    *)
(* trigger levels and every width of the epoch counter: mouse and          *)
(* controller share one rope, the request is the hold, no Shift is stuck,  *)
(* and no stock swing runs on the mod's own input.                         *)
(***************************************************************************)
EXTENDS InputProperties, SequenceTheorems, TLAPS

\* Each policy has one owner at most, and the two never hold together.
PolicyInv ==
    /\ mOwns \in {{}, {"left"}, {"right"}}
    /\ pHeld <=> pOwner # NoSide
    /\ OneHolder

\* A decision attaches only within the handler that made it; a focus loss
\* has ended the controller's hold first and the mouse's next.
PhaseInv ==
    /\ pc # "packet" => mDecision.attach = {}
    /\ pc # "poll" => pDecision.attach = {}
    /\ pc \in {"focusMouse", "focusReset", "focusEnd"} => ~pHeld
    /\ pc \in {"focusReset", "focusEnd"} => mOwns = {}

Unheld == mOwns = {} /\ ~pHeld

\* Nothing is due: the request is the hold, Shift is down for a button.
Settled ==
    /\ reqSide \in Sides \cup {NoSide}
    /\ \A s \in Sides : reqSide = s <=> s \in mOwns \/ pOwner = s
    /\ reqSide # NoSide <=> reqHero # NoHero
    /\ synthetic <=> mOwns # {}
    /\ pc = "focusEnd" => ~bridge

\* A button's press, and a trigger's, on the way into the game.
Attaching(s) ==
    /\ pc = "packet"
    /\ mOwns = {s} /\ mDecision.attach = {s}
    /\ ~nativeShift /\ ~synthetic
    /\ \/ work = <<"publish", "press">> /\ reqSide = NoSide /\ proven # NoHero
       \/ work = <<"press">> /\ reqSide = s /\ reqHero # NoHero
AttachingPad(s) ==
    /\ pc = "poll"
    /\ mOwns = {} /\ ~synthetic
    /\ pOwner = s /\ pDecision.attach = {s}
    /\ trigger = "raw"
    /\ work = <<"publish">> /\ reqSide = NoSide /\ proven # NoHero

\* A hold that has ended, on its way out of the game.
Releasing ==
    /\ Unheld
    /\ \/ /\ work \in {<<"mark", "lift", "clear">>, <<"lift", "clear">>}
          /\ pc \in {"packet", "focusReset"}
          /\ synthetic /\ reqSide # NoSide
       \/ /\ work = <<"mark", "clear">>
          /\ ~synthetic /\ pc \in {"poll", "unplugged", "focusMouse"}
       \/ /\ work \in {<<"mark", "force", "clear">>, <<"force", "clear">>}
          /\ ~synthetic /\ pc = "focusEnd"
       \/ /\ work = <<"clear">>
          /\ ~synthetic /\ (pc = "focusEnd" => ~bridge)

WorkInv ==
    \/ work = <<>> /\ Settled
    \/ \E s \in Sides : Attaching(s) \/ AttachingPad(s)
    \/ Releasing

\* The Shift part of NoStuckShift that holds at every step.
ShiftInv ==
    /\ synthetic => bridge
    /\ bridge => nativeShift /\ (synthetic \/ physicalShift)

\* A request is published and cancelled between submissions only.
StockInv == reqSide # NoSide => submit # "stock"

\* RuntimeTypeOK but for the effects, whose words WorkInv lists.
TypeInv ==
    /\ Mouse!TypeOK
    /\ Pad!TypeOK
    /\ device \in Devices \cup {NoDevice} /\ routeEpoch \in Epochs
    /\ synthetic \in BOOLEAN /\ bridge \in BOOLEAN
    /\ physicalShift \in BOOLEAN /\ nativeShift \in BOOLEAN
    /\ reqSide \in Sides \cup {NoSide, "canceling"}
    /\ reqHero \in Heroes \cup {NoHero}
    /\ heroPub \in Heroes \cup {NoHero}
    /\ proven \in Heroes \cup {NoHero}
    /\ trigger \in Triggers
    /\ pc \in Handlers
    /\ todo \in [Sides -> Edges]
    /\ submit \in Submissions

InputInv ==
    /\ TypeInv
    /\ PolicyInv
    /\ PhaseInv
    /\ WorkInv
    /\ ShiftInv
    /\ StockInv
-----------------------------------------------------------------------------
(* The effects of a handler, from its first to its last.                   *)
LEMMA Words ==
    /\ Head(<<"publish", "press">>) = "publish"
    /\ Tail(<<"publish", "press">>) = <<"press">>
    /\ Head(<<"publish">>) = "publish" /\ Tail(<<"publish">>) = <<>>
    /\ Head(<<"press">>) = "press" /\ Tail(<<"press">>) = <<>>
    /\ Head(<<"mark", "lift", "clear">>) = "mark"
    /\ Tail(<<"mark", "lift", "clear">>) = <<"lift", "clear">>
    /\ Head(<<"mark", "force", "clear">>) = "mark"
    /\ Tail(<<"mark", "force", "clear">>) = <<"force", "clear">>
    /\ Head(<<"mark", "clear">>) = "mark"
    /\ Tail(<<"mark", "clear">>) = <<"clear">>
    /\ Head(<<"lift", "clear">>) = "lift"
    /\ Tail(<<"lift", "clear">>) = <<"clear">>
    /\ Head(<<"force", "clear">>) = "force"
    /\ Tail(<<"force", "clear">>) = <<"clear">>
    /\ Head(<<"clear">>) = "clear" /\ Tail(<<"clear">>) = <<>>
OBVIOUS

LEMMA NoWord ==
    /\ <<"publish", "press">> # <<>> /\ <<"publish">> # <<>>
    /\ <<"press">> # <<>> /\ <<"clear">> # <<>>
    /\ <<"mark", "lift", "clear">> # <<>> /\ <<"mark", "clear">> # <<>>
    /\ <<"mark", "force", "clear">> # <<>>
    /\ <<"lift", "clear">> # <<>> /\ <<"force", "clear">> # <<>>
OBVIOUS

LEMMA Pair ==
    ASSUME NEW a, NEW b
    PROVE  <<a>> \o <<b>> = <<a, b>>
<1> DEFINE S == {a, b}
           s == <<a>> \o <<b>>
           t == <<a, b>>
<1>1. <<a>> \in Seq(S) /\ <<b>> \in Seq(S) /\ s \in Seq(S) /\ t \in Seq(S)
  OBVIOUS
<1>2. Len(s) = 2 /\ Len(t) = 2
  BY <1>1
<1>3. s[1] = a /\ s[2] = b /\ t[1] = a /\ t[2] = b
  BY <1>1
<1> HIDE DEF S, s, t
<1>4. \A i \in 1 .. Len(s) : s[i] = t[i]
  BY <1>2, <1>3
<1>5. s = t
  BY <1>1, <1>2, <1>4, SeqEqual
<1> QED
  BY <1>5 DEF s, t

LEMMA Triple ==
    ASSUME NEW a, NEW b, NEW c
    PROVE  <<a, b>> \o <<c>> = <<a, b, c>>
<1> DEFINE S == {a, b, c}
           s == <<a, b>> \o <<c>>
           t == <<a, b, c>>
<1>1. /\ <<a, b>> \in Seq(S) /\ <<c>> \in Seq(S)
      /\ s \in Seq(S) /\ t \in Seq(S)
  OBVIOUS
<1>2. Len(s) = 3 /\ Len(t) = 3
  BY <1>1
<1>3. /\ s[1] = a /\ s[2] = b /\ s[3] = c
      /\ t[1] = a /\ t[2] = b /\ t[3] = c
  BY <1>1
<1> HIDE DEF S, s, t
<1>4. \A i \in 1 .. Len(s) : s[i] = t[i]
  BY <1>2, <1>3
<1>5. s = t
  BY <1>1, <1>2, <1>4, SeqEqual
<1> QED
  BY <1>5 DEF s, t

LEMMA MouseEffects ==
    ASSUME NEW d
    PROVE  /\ d.attach = {} /\ d.release = {} /\ ~d.press /\ ~d.lift
                => ApplyDecision(d) = <<>>
           /\ d.attach # {} /\ d.release = {} /\ d.press /\ ~d.lift
                => ApplyDecision(d) = <<"publish", "press">>
           /\ d.attach = {} /\ d.release # {} /\ ~d.press /\ d.lift
                => ApplyDecision(d) = <<"mark", "lift", "clear">>
<1>1. ASSUME d.attach = {}, d.release = {}, ~d.press, ~d.lift
      PROVE  ApplyDecision(d) = <<>>
  <2>1. ApplyDecision(d) = <<>> \o <<>> \o <<>> \o <<>> \o <<>>
    BY <1>1 DEF ApplyDecision, When
  <2> QED
    BY <2>1
<1>2. ASSUME d.attach # {}, d.release = {}, d.press, ~d.lift
      PROVE  ApplyDecision(d) = <<"publish", "press">>
  <2>1. ApplyDecision(d) = <<"publish">> \o <<"press">> \o <<>> \o <<>> \o <<>>
    BY <1>2 DEF ApplyDecision, When
  <2>2. <<"publish">> \o <<"press">> = <<"publish", "press">>
    BY Pair
  <2>3. <<"publish", "press">> \o <<>> = <<"publish", "press">>
    OBVIOUS
  <2> QED
    BY <2>1, <2>2, <2>3
<1>3. ASSUME d.attach = {}, d.release # {}, ~d.press, d.lift
      PROVE  ApplyDecision(d) = <<"mark", "lift", "clear">>
  <2>1. ApplyDecision(d) = <<>> \o <<>> \o <<"mark">> \o <<"lift">> \o <<"clear">>
    BY <1>3 DEF ApplyDecision, When
  <2>2. <<>> \o <<>> = <<>> /\ <<>> \o <<"mark">> = <<"mark">>
    OBVIOUS
  <2>3. <<"mark">> \o <<"lift">> = <<"mark", "lift">>
    BY Pair
  <2>4. <<"mark", "lift">> \o <<"clear">> = <<"mark", "lift", "clear">>
    BY Triple
  <2> QED
    BY <2>1, <2>2, <2>3, <2>4
<1> QED
  BY <1>1, <1>2, <1>3

LEMMA PadEffects ==
    ASSUME NEW d
    PROVE  /\ d.attach = {} /\ d.release = {}
                => ApplyControllerDecision(d) = <<>>
           /\ d.attach # {} /\ d.release = {}
                => ApplyControllerDecision(d) = <<"publish">>
           /\ d.attach = {} /\ d.release # {}
                => ApplyControllerDecision(d) = <<"mark", "clear">>
<1>1. ASSUME d.attach = {}, d.release = {}
      PROVE  ApplyControllerDecision(d) = <<>>
  <2>1. ApplyControllerDecision(d) = <<>> \o <<>>
    BY <1>1 DEF ApplyControllerDecision, When
  <2> QED
    BY <2>1
<1>2. ASSUME d.attach # {}, d.release = {}
      PROVE  ApplyControllerDecision(d) = <<"publish">>
  <2>1. ApplyControllerDecision(d) = <<>> \o <<"publish">>
    BY <1>2 DEF ApplyControllerDecision, When
  <2> QED
    BY <2>1
<1>3. ASSUME d.attach = {}, d.release # {}
      PROVE  ApplyControllerDecision(d) = <<"mark", "clear">>
  <2>1. ApplyControllerDecision(d) = <<"mark", "clear">> \o <<>>
    BY <1>3 DEF ApplyControllerDecision, When
  <2> QED
    BY <2>1
<1> QED
  BY <1>1, <1>2, <1>3

\* The effects are due in these situations only.
Situations ==
    /\ Head(work) = "publish" =>
          \E s \in Sides : \/ Attaching(s) /\ work = <<"publish", "press">>
                           \/ AttachingPad(s)
    /\ Head(work) = "press" =>
          \E s \in Sides : Attaching(s) /\ work = <<"press">>
    /\ Head(work) = "mark" =>
          /\ Releasing
          /\ work \in {<<"mark", "lift", "clear">>, <<"mark", "clear">>,
                       <<"mark", "force", "clear">>}
    /\ Head(work) = "lift" => Releasing /\ work = <<"lift", "clear">>
    /\ Head(work) = "force" => Releasing /\ work = <<"force", "clear">>
    /\ Head(work) = "clear" => Releasing /\ work = <<"clear">>

LEMMA EffectsDue ==
    ASSUME WorkInv, work # <<>>
    PROVE  Situations
<1>1. \A s \in Sides : Attaching(s) =>
         \/ work = <<"publish", "press">> /\ Head(work) = "publish"
         \/ work = <<"press">> /\ Head(work) = "press"
  BY Words DEF Attaching
<1>2. \A s \in Sides : AttachingPad(s) => Head(work) = "publish"
  BY Words DEF AttachingPad
<1>3. Releasing =>
         \/ /\ Head(work) = "mark"
            /\ work \in {<<"mark", "lift", "clear">>, <<"mark", "clear">>,
                         <<"mark", "force", "clear">>}
         \/ work = <<"lift", "clear">> /\ Head(work) = "lift"
         \/ work = <<"force", "clear">> /\ Head(work) = "force"
         \/ work = <<"clear">> /\ Head(work) = "clear"
  BY Words DEF Releasing
<1>4. \/ \E s \in Sides : Attaching(s) \/ AttachingPad(s)
      \/ Releasing
  BY DEF WorkInv
<1> HIDE DEF Attaching, AttachingPad, Releasing
<1>5. CASE Head(work) = "publish"
  BY <1>1, <1>2, <1>3, <1>4, <1>5 DEF Situations
<1>6. CASE Head(work) = "press"
  BY <1>1, <1>2, <1>3, <1>4, <1>6 DEF Situations
<1>7. CASE Head(work) \notin {"publish", "press"}
  BY <1>1, <1>2, <1>3, <1>4, <1>7 DEF Situations
<1> QED
  BY <1>5, <1>6, <1>7
-----------------------------------------------------------------------------
(* What the policies answer.                                               *)
NoEffect(d) == d.attach = {} /\ d.release = {} /\ ~d.press /\ ~d.lift

LEMMA MouseDown ==
    ASSUME Mouse!TypeOK, NEW s \in Sides, NEW e \in Mouse!Eligibilities,
           Mouse!Down(s, e)
    PROVE  /\ mCaptured' \in SUBSET Sides /\ mDecision' \in Mouse!Decisions
           /\ \/ mOwns' = mOwns /\ NoEffect(mDecision')
              \/ /\ mOwns = {} /\ mOwns' = {s} /\ e.gate
                 /\ mDecision'.attach = {s} /\ mDecision'.release = {}
                 /\ mDecision'.press /\ ~mDecision'.lift
<1> USE DEF Mouse!TypeOK, Mouse!Sides, Sides, Mouse!Decisions, NoEffect,
        Mouse!NoDecision
<1>1. CASE Mouse!Duplicate(s)
  BY <1>1 DEF Mouse!Duplicate
<1>2. CASE Mouse!PassToGame(s, e)
  BY <1>2 DEF Mouse!PassToGame
<1>3. CASE Mouse!Suppress(s, e)
  BY <1>3 DEF Mouse!Suppress
<1>4. CASE Mouse!Own(s, e)
  BY <1>4 DEF Mouse!Own
<1> QED
  BY <1>1, <1>2, <1>3, <1>4 DEF Mouse!Down

LEMMA MouseUp ==
    ASSUME Mouse!TypeOK, mOwns \in {{}, {"left"}, {"right"}}, NEW s \in Sides,
           Mouse!Up(s)
    PROVE  /\ mCaptured' \in SUBSET Sides /\ mDecision' \in Mouse!Decisions
           /\ \/ mOwns' = mOwns /\ NoEffect(mDecision')
              \/ /\ mOwns # {} /\ mOwns' = {}
                 /\ mDecision'.attach = {} /\ mDecision'.release # {}
                 /\ ~mDecision'.press /\ mDecision'.lift
<1> USE DEF Mouse!TypeOK, Mouse!Sides, Sides, Mouse!Decisions, NoEffect,
        Mouse!NoDecision
<1>1. CASE Mouse!UpNative(s)
  BY <1>1 DEF Mouse!UpNative
<1>2. CASE Mouse!UpCaptured(s)
  BY <1>2 DEF Mouse!UpCaptured
<1> QED
  BY <1>1, <1>2 DEF Mouse!Up

LEMMA MouseCancel ==
    ASSUME Mouse!TypeOK, Mouse!CancelNativeHold
    PROVE  /\ mCaptured' = mCaptured /\ mDecision' \in Mouse!Decisions
           /\ mOwns' = {}
           /\ mDecision'.attach = {} /\ mDecision'.release = mOwns
           /\ ~mDecision'.press /\ (mDecision'.lift <=> mOwns # {})
BY DEF Mouse!CancelNativeHold, Mouse!TypeOK, Mouse!Sides, Mouse!Decisions

\* A poll's owner: the same one, a new one under the gate, or none.
OwnerStep(gate) ==
    \/ /\ pOwner' = NoSide /\ pDecision'.attach = {}
       /\ pDecision'.release = IF pOwner = NoSide THEN {} ELSE {pOwner}
    \/ /\ pOwner' = pOwner /\ gate
       /\ pDecision'.attach = {} /\ pDecision'.release = {}
    \/ /\ pOwner = NoSide /\ pOwner' \in Sides /\ gate
       /\ pDecision'.attach = {pOwner'} /\ pDecision'.release = {}

LEMMA PadCancel ==
    ASSUME Pad!TypeOK, NEW c \in SUBSET Sides, Pad!CancelOwner(c)
    PROVE  /\ pOwner' = NoSide /\ pHeld' = FALSE
           /\ pDecision' \in Pad!Decisions
           /\ pDecision'.attach = {}
           /\ pDecision'.release = IF pOwner = NoSide THEN {} ELSE {pOwner}
BY DEF Pad!CancelOwner, Pad!TypeOK, Pad!Sides, Pad!NoSide, Sides, NoSide,
   Pad!Decisions

LEMMA EpochFacts ==
    /\ 0 \in Epochs
    /\ \A e \in Epochs : Advance(e) \in Epochs
<1>1. EpochWidth \in Nat /\ EpochWidth >= 3
  BY RuntimeAssumption
<1>2. ASSUME NEW e \in Epochs PROVE Advance(e) \in Epochs
  <2>1. CASE e + 1 = EpochWidth
    <3>1. EpochWidth % EpochWidth = 0
      BY <1>1, Z3
    <3> QED
      BY <1>1, <2>1, <3>1 DEF Epochs, Advance
  <2>2. CASE e + 1 # EpochWidth
    BY <1>1, <2>2 DEF Epochs, Advance
  <2> QED
    BY <2>1, <2>2
<1> QED
  BY <1>1, <1>2 DEF Epochs

LEMMA PadUpdate ==
    ASSUME Pad!TypeOK, pHeld <=> pOwner # NoSide,
           NEW x, x.gate \in BOOLEAN, x.epoch \in Epochs, Pad!Update(x)
    PROVE  /\ Pad!TypeOK'
           /\ pHeld' <=> pOwner' # NoSide
           /\ OwnerStep(x.gate)
           /\ ~(x.connected /\ x.focused /\ x.finite) => pOwner' = NoSide
<1> USE DEF Pad!Sides, Pad!NoSide, Sides, NoSide
<1>0. /\ Pad!Kept(pDown, x) \in SUBSET Sides
      /\ Pad!Kept(pCaptured, x) \in SUBSET Sides
      /\ Pad!Kept(pArmed, x) \in SUBSET Sides
  BY DEF Pad!TypeOK, Pad!Kept
<1>1. CASE Pad!Disconnected(x)
  <2>1. /\ pOwner' = NoSide /\ pHeld' = FALSE /\ pDecision' \in Pad!Decisions
        /\ OwnerStep(x.gate)
    BY <1>1, PadCancel DEF Pad!Disconnected, OwnerStep
  <2> QED
    BY <1>1, <2>1, EpochFacts DEF Pad!Disconnected, Pad!ResetSource, Pad!TypeOK
<1>2. CASE Pad!Quiet(x)
  <2>1. /\ pOwner' = NoSide /\ pHeld' = FALSE /\ pDecision' \in Pad!Decisions
        /\ OwnerStep(x.gate)
    BY <1>0, <1>2, PadCancel DEF Pad!Quiet, OwnerStep
  <2> QED
    BY <1>0, <1>2, <2>1 DEF Pad!Quiet, Pad!Adopt, Pad!TypeOK
<1>3. CASE Pad!Observed(x)
  <2>1. /\ Pad!Pressed(x) \in SUBSET Sides /\ Pad!Released(x) \in SUBSET Sides
    BY <1>0 DEF Pad!Pressed, Pad!Released
  <2>2. /\ Pad!NowDown(x) \in SUBSET Sides /\ Pad!NowArmed(x) \in SUBSET Sides
        /\ Pad!Fresh(x) \in SUBSET Sides
    BY <1>0, <2>1 DEF Pad!NowDown, Pad!NowArmed, Pad!Fresh
  <2>3. /\ Pad!Survivor(x) \in {NoSide, pOwner}
        /\ Pad!Survivor(x) # NoSide => x.gate
        /\ Pad!Starter(x) \in SUBSET Sides
        /\ Pad!Lifted(x) <=> pHeld /\ Pad!Survivor(x) # pOwner
    BY <2>2 DEF Pad!Survivor, Pad!Carried, Pad!Starter, Pad!Lifted, Pad!TypeOK
  <2>4. pOwner \in Sides \cup {NoSide} /\ pHeld \in BOOLEAN
    BY DEF Pad!TypeOK
  <2>7. Pad!TypeOK'
    <3>1. /\ pKnown' = TRUE /\ pEpoch' \in Epochs
          /\ pDown' \in SUBSET Sides /\ pArmed' \in SUBSET Sides
          /\ pCaptured' \in SUBSET Sides
      BY <1>0, <1>3, <2>1, <2>2 DEF Pad!Observed, Pad!Adopt
    <3>2. pOwner' \in Sides \cup {NoSide}
      BY <1>3, <2>3, <2>4 DEF Pad!Observed
    <3>3. pHeld' \in BOOLEAN
      BY <1>3 DEF Pad!Observed
    <3>4. pDecision' \in Pad!Decisions
      <4>1. /\ {pOwner} \ {NoSide, Pad!Survivor(x)} \in SUBSET Sides
            /\ Pad!Lifted(x) \in BOOLEAN
        BY <2>3, <2>4 DEF Pad!Lifted
      <4>2. Pad!Kept(pCaptured, x) \cup (IF x.gate THEN Sides ELSE {})
               \in SUBSET Sides
        BY <1>0
      <4> QED
        BY <1>3, <2>3, <4>1, <4>2 DEF Pad!Observed, Pad!Decisions
    <3> QED
      BY <3>1, <3>2, <3>3, <3>4 DEF Pad!TypeOK
  <2>5. CASE Pad!Starter(x) # {}
    <3>1. /\ x.gate /\ pOwner = NoSide /\ pHeld = FALSE
          /\ \A s \in Pad!Starter(x) : Pad!Starter(x) = {s}
      BY <2>3, <2>4, <2>5 DEF Pad!Starter, Pad!Lifted
    <3>2. pOwner' \in Pad!Starter(x) /\ pHeld' = TRUE
      BY <1>3, <2>5 DEF Pad!Observed
    <3>3. pDecision'.attach = {pOwner'} /\ pDecision'.release = {}
      BY <1>3, <2>3, <3>1, <3>2 DEF Pad!Observed
    <3>4. OwnerStep(x.gate) /\ (pHeld' <=> pOwner' # NoSide)
      BY <2>3, <3>1, <3>2, <3>3 DEF OwnerStep
    <3> QED
      BY <1>3, <2>7, <3>4 DEF Pad!Observed
  <2>6. CASE Pad!Starter(x) = {}
    <3>1. /\ pOwner' = Pad!Survivor(x)
          /\ pHeld' = (pHeld /\ ~Pad!Lifted(x))
          /\ pDecision'.attach = {}
          /\ pDecision'.release = {pOwner} \ {NoSide, Pad!Survivor(x)}
      BY <1>3, <2>6 DEF Pad!Observed
    <3>2. pHeld' <=> pOwner' # NoSide
      BY <2>3, <2>4, <3>1
    <3>3. OwnerStep(x.gate)
      BY <2>3, <2>4, <3>1 DEF OwnerStep
    <3> QED
      BY <1>3, <2>7, <3>2, <3>3 DEF Pad!Observed
  <2> QED
    BY <2>5, <2>6
<1> QED
  BY <1>1, <1>2, <1>3 DEF Pad!Update
-----------------------------------------------------------------------------
(* PublishSideRequest: the request of the press that is being attached.    *)
LEMMA PublishKeeps ==
    ASSUME InputInv, Publish
    PROVE  InputInv'
<1> USE DEF Publish, LockFree, Effect, mouseVars, padVars, routeVars, keyVars,
        requestVars
<1>1. work # <<>> /\ Situations
  BY EffectsDue DEF InputInv
<1>2. PICK s \in Sides : \/ Attaching(s) /\ work = <<"publish", "press">>
                         \/ AttachingPad(s)
  BY <1>1 DEF Situations
<1>3. /\ reqSide' = s /\ reqHero' = proven /\ proven # NoHero
      /\ s # NoSide /\ submit = NoSide /\ submit' = submit
  BY <1>2, Words DEF InputInv, PhaseInv, Attaching, AttachingPad, Sides, NoSide
<1>4. TypeInv'
  <2>1. Mouse!TypeOK'
    BY <1>2, <1>3 DEF InputInv, TypeInv, Mouse!TypeOK
  <2>2. Pad!TypeOK'
    BY <1>2, <1>3 DEF InputInv, TypeInv, Pad!TypeOK
  <2>3. /\ synthetic' \in BOOLEAN /\ bridge' \in BOOLEAN
        /\ physicalShift' \in BOOLEAN /\ nativeShift' \in BOOLEAN
    BY <1>2, <1>3 DEF InputInv, TypeInv
  <2>4. /\ device' \in Devices \cup {NoDevice} /\ routeEpoch' \in Epochs
        /\ reqSide' \in Sides \cup {NoSide, "canceling"}
        /\ reqHero' \in Heroes \cup {NoHero}
        /\ heroPub' \in Heroes \cup {NoHero}
        /\ proven' \in Heroes \cup {NoHero}
    BY <1>2, <1>3 DEF InputInv, TypeInv
  <2>5. /\ trigger' \in Triggers /\ pc' \in Handlers
        /\ todo' \in [Sides -> Edges] /\ submit' \in Submissions
    BY <1>2, <1>3 DEF InputInv, TypeInv, Triggers, Handlers, Submissions
  <2> QED
    BY <2>1, <2>2, <2>3, <2>4, <2>5 DEF TypeInv
<1>5. PolicyInv'
  BY <1>2, <1>3 DEF InputInv, PolicyInv, OneHolder, Mouse!TypeOK, TypeInv
<1>6. PhaseInv'
  BY <1>2, <1>3 DEF InputInv, PhaseInv, PolicyInv
<1>7. WorkInv'
  <2>1. CASE Attaching(s) /\ work = <<"publish", "press">>
    <3>1. Attaching(s)'
      BY <1>3, <2>1, Words DEF Attaching
    <3> QED
      BY <3>1 DEF WorkInv
  <2>2. CASE AttachingPad(s)
    <3>1. work' = <<>>
      BY <2>2, Words DEF AttachingPad
    <3>2. Settled'
      BY <1>3, <2>2 DEF Settled, AttachingPad, InputInv, PolicyInv, Sides, NoSide
    <3> QED
      BY <3>1, <3>2 DEF WorkInv
  <2> QED
    BY <1>2, <2>1, <2>2
<1>8. ShiftInv'
  BY <1>2, <1>3 DEF InputInv, ShiftInv, TypeInv
<1>9. StockInv'
  BY <1>3 DEF StockInv, NoSide
<1> QED
  BY <1>4, <1>5, <1>6, <1>7, <1>8, <1>9 DEF InputInv

(* InjectNativeShift: Shift goes down for the button that owns the rope.   *)
LEMMA PressKeeps ==
    ASSUME InputInv, Press
    PROVE  InputInv'
<1> USE DEF Press, Effect, mouseVars, padVars, routeVars, keyVars, requestVars
<1>1. work # <<>> /\ Situations
  BY EffectsDue DEF InputInv
<1>2. PICK s \in Sides : Attaching(s) /\ work = <<"press">>
  BY <1>1 DEF Situations
<1>3. TypeInv'
  <2>1. Mouse!TypeOK'
    BY <1>2 DEF InputInv, TypeInv, Mouse!TypeOK
  <2>2. Pad!TypeOK'
    BY <1>2 DEF InputInv, TypeInv, Pad!TypeOK
  <2>3. /\ synthetic' \in BOOLEAN /\ bridge' \in BOOLEAN
        /\ physicalShift' \in BOOLEAN /\ nativeShift' \in BOOLEAN
    BY <1>2 DEF InputInv, TypeInv
  <2>4. /\ device' \in Devices \cup {NoDevice} /\ routeEpoch' \in Epochs
        /\ reqSide' \in Sides \cup {NoSide, "canceling"}
        /\ reqHero' \in Heroes \cup {NoHero}
        /\ heroPub' \in Heroes \cup {NoHero}
        /\ proven' \in Heroes \cup {NoHero}
    BY <1>2 DEF InputInv, TypeInv
  <2>5. /\ trigger' \in Triggers /\ pc' \in Handlers
        /\ todo' \in [Sides -> Edges] /\ submit' \in Submissions
    BY <1>2 DEF InputInv, TypeInv, Triggers, Handlers, Submissions
  <2> QED
    BY <2>1, <2>2, <2>3, <2>4, <2>5 DEF TypeInv
<1>4. PolicyInv'
  BY <1>2 DEF InputInv, PolicyInv, OneHolder, Mouse!TypeOK, TypeInv
<1>5. PhaseInv'
  BY <1>2 DEF InputInv, PhaseInv, PolicyInv
<1>6. WorkInv'
  <2>1. work' = <<>> /\ work # <<"publish", "press">>
    BY <1>2, Words
  <2>2. pOwner = NoSide
    BY <1>2 DEF Attaching, InputInv, PolicyInv, OneHolder
  <2>3. reqSide = s /\ reqHero # NoHero
    BY <1>2, <2>1 DEF Attaching
  <2>4. Settled'
    BY <1>2, <2>2, <2>3 DEF Attaching, Settled, Sides, NoSide
  <2> QED
    BY <2>1, <2>4 DEF WorkInv
<1>7. ShiftInv'
  BY <1>2 DEF InputInv, ShiftInv, TypeInv
<1>8. StockInv'
  BY <1>2 DEF InputInv, StockInv, TypeInv
<1> QED
  BY <1>3, <1>4, <1>5, <1>6, <1>7, <1>8 DEF InputInv

(* BeginSideRequestCancellation: between submissions.                      *)
LEMMA MarkKeeps ==
    ASSUME InputInv, Mark
    PROVE  InputInv'
<1> USE DEF Mark, LockFree, Effect, mouseVars, padVars, routeVars, keyVars,
        requestVars
<1>1. work # <<>> /\ Situations
  BY EffectsDue DEF InputInv
<1>2. /\ Releasing
      /\ work \in {<<"mark", "lift", "clear">>, <<"mark", "clear">>,
                   <<"mark", "force", "clear">>}
  BY <1>1 DEF Situations
<1>3. TypeInv'
  <2>1. Mouse!TypeOK'
    BY <1>2 DEF InputInv, TypeInv, Mouse!TypeOK
  <2>2. Pad!TypeOK'
    BY <1>2 DEF InputInv, TypeInv, Pad!TypeOK
  <2>3. /\ synthetic' \in BOOLEAN /\ bridge' \in BOOLEAN
        /\ physicalShift' \in BOOLEAN /\ nativeShift' \in BOOLEAN
    BY <1>2 DEF InputInv, TypeInv
  <2>4. /\ device' \in Devices \cup {NoDevice} /\ routeEpoch' \in Epochs
        /\ reqSide' \in Sides \cup {NoSide, "canceling"}
        /\ reqHero' \in Heroes \cup {NoHero}
        /\ heroPub' \in Heroes \cup {NoHero}
        /\ proven' \in Heroes \cup {NoHero}
    BY <1>2 DEF InputInv, TypeInv
  <2>5. /\ trigger' \in Triggers /\ pc' \in Handlers
        /\ todo' \in [Sides -> Edges] /\ submit' \in Submissions
    BY <1>2 DEF InputInv, TypeInv, Triggers, Handlers, Submissions
  <2> QED
    BY <2>1, <2>2, <2>3, <2>4, <2>5 DEF TypeInv
<1>4. PolicyInv'
  BY <1>2 DEF InputInv, PolicyInv, OneHolder, Mouse!TypeOK, TypeInv
<1>5. PhaseInv'
  BY <1>2 DEF InputInv, PhaseInv, PolicyInv
<1>6. WorkInv'
  <2>1. work' \in {<<"lift", "clear">>, <<"clear">>, <<"force", "clear">>}
    BY <1>2, Words
  <2>2. Unheld' /\ (reqSide # NoSide => reqSide' # NoSide)
    BY <1>2 DEF Releasing, Unheld, NoSide
  <2>3. CASE work = <<"mark", "lift", "clear">>
    <3>1. /\ synthetic /\ reqSide # NoSide /\ pc \in {"packet", "focusReset"}
          /\ work' = <<"lift", "clear">>
      BY <1>2, <2>3, Words DEF Releasing
    <3> QED
      BY <2>2, <3>1 DEF WorkInv, Releasing
  <2>4. CASE work = <<"mark", "clear">>
    <3>1. /\ ~synthetic /\ pc \in {"poll", "unplugged", "focusMouse"}
          /\ work' = <<"clear">>
      BY <1>2, <2>4, Words DEF Releasing
    <3> QED
      BY <2>2, <3>1 DEF WorkInv, Releasing
  <2>5. CASE work = <<"mark", "force", "clear">>
    <3>1. ~synthetic /\ pc = "focusEnd" /\ work' = <<"force", "clear">>
      BY <1>2, <2>5, Words DEF Releasing
    <3> QED
      BY <2>2, <3>1 DEF WorkInv, Releasing
  <2> QED
    BY <1>2, <2>3, <2>4, <2>5
<1>7. ShiftInv'
  BY <1>2 DEF InputInv, ShiftInv, TypeInv
<1>8. StockInv'
  BY <1>2 DEF InputInv, StockInv, TypeInv, NoSide
<1> QED
  BY <1>3, <1>4, <1>5, <1>6, <1>7, <1>8 DEF InputInv

(* InjectNativeShift: Shift goes up, or the player's own inherits it.      *)
LEMMA LiftKeeps ==
    ASSUME InputInv, Lift
    PROVE  InputInv'
<1> USE DEF Lift, Effect, mouseVars, padVars, routeVars, keyVars, requestVars
<1>1. work # <<>> /\ Situations
  BY EffectsDue DEF InputInv
<1>2. Releasing /\ work = <<"lift", "clear">>
  BY <1>1 DEF Situations
<1>3. TypeInv'
  <2>1. Mouse!TypeOK'
    BY <1>2 DEF InputInv, TypeInv, Mouse!TypeOK
  <2>2. Pad!TypeOK'
    BY <1>2 DEF InputInv, TypeInv, Pad!TypeOK
  <2>3. /\ synthetic' \in BOOLEAN /\ bridge' \in BOOLEAN
        /\ physicalShift' \in BOOLEAN /\ nativeShift' \in BOOLEAN
    BY <1>2 DEF InputInv, TypeInv
  <2>4. /\ device' \in Devices \cup {NoDevice} /\ routeEpoch' \in Epochs
        /\ reqSide' \in Sides \cup {NoSide, "canceling"}
        /\ reqHero' \in Heroes \cup {NoHero}
        /\ heroPub' \in Heroes \cup {NoHero}
        /\ proven' \in Heroes \cup {NoHero}
    BY <1>2 DEF InputInv, TypeInv
  <2>5. /\ trigger' \in Triggers /\ pc' \in Handlers
        /\ todo' \in [Sides -> Edges] /\ submit' \in Submissions
    BY <1>2 DEF InputInv, TypeInv, Triggers, Handlers, Submissions
  <2> QED
    BY <2>1, <2>2, <2>3, <2>4, <2>5 DEF TypeInv
<1>4. PolicyInv'
  BY <1>2 DEF InputInv, PolicyInv, OneHolder, Mouse!TypeOK, TypeInv
<1>5. PhaseInv'
  BY <1>2 DEF InputInv, PhaseInv, PolicyInv
<1>6. WorkInv'
  <2>1. work' = <<"clear">> /\ pc # "focusEnd" /\ Unheld
    BY <1>2, Words DEF Releasing
  <2> QED
    BY <2>1 DEF WorkInv, Releasing, Unheld
<1>7. ShiftInv'
  BY <1>2 DEF InputInv, ShiftInv, TypeInv
<1>8. StockInv'
  BY <1>2 DEF InputInv, StockInv, TypeInv
<1> QED
  BY <1>3, <1>4, <1>5, <1>6, <1>7, <1>8 DEF InputInv

(* CancelManualHold: the game sees no Shift of the mod any more.           *)
LEMMA ForceUpKeeps ==
    ASSUME InputInv, ForceUp
    PROVE  InputInv'
<1> USE DEF ForceUp, Effect, mouseVars, padVars, routeVars, keyVars,
        requestVars
<1>1. work # <<>> /\ Situations
  BY EffectsDue DEF InputInv
<1>2. Releasing /\ work = <<"force", "clear">>
  BY <1>1 DEF Situations
<1>3. TypeInv'
  <2>1. Mouse!TypeOK'
    BY <1>2 DEF InputInv, TypeInv, Mouse!TypeOK
  <2>2. Pad!TypeOK'
    BY <1>2 DEF InputInv, TypeInv, Pad!TypeOK
  <2>3. /\ synthetic' \in BOOLEAN /\ bridge' \in BOOLEAN
        /\ physicalShift' \in BOOLEAN /\ nativeShift' \in BOOLEAN
    BY <1>2 DEF InputInv, TypeInv
  <2>4. /\ device' \in Devices \cup {NoDevice} /\ routeEpoch' \in Epochs
        /\ reqSide' \in Sides \cup {NoSide, "canceling"}
        /\ reqHero' \in Heroes \cup {NoHero}
        /\ heroPub' \in Heroes \cup {NoHero}
        /\ proven' \in Heroes \cup {NoHero}
    BY <1>2 DEF InputInv, TypeInv
  <2>5. /\ trigger' \in Triggers /\ pc' \in Handlers
        /\ todo' \in [Sides -> Edges] /\ submit' \in Submissions
    BY <1>2 DEF InputInv, TypeInv, Triggers, Handlers, Submissions
  <2> QED
    BY <2>1, <2>2, <2>3, <2>4, <2>5 DEF TypeInv
<1>4. PolicyInv'
  BY <1>2 DEF InputInv, PolicyInv, OneHolder, Mouse!TypeOK, TypeInv
<1>5. PhaseInv'
  BY <1>2 DEF InputInv, PhaseInv, PolicyInv
<1>6. WorkInv'
  <2>1. work' = <<"clear">> /\ Unheld
    BY <1>2, Words DEF Releasing
  <2> QED
    BY <2>1 DEF WorkInv, Releasing, Unheld
<1>7. ShiftInv'
  BY <1>2 DEF InputInv, ShiftInv, TypeInv
<1>8. StockInv'
  BY <1>2 DEF InputInv, StockInv, TypeInv
<1> QED
  BY <1>3, <1>4, <1>5, <1>6, <1>7, <1>8 DEF InputInv

(* ClearSideRequest: nothing is held, nothing is requested.                *)
LEMMA ClearKeeps ==
    ASSUME InputInv, Clear
    PROVE  InputInv'
<1> USE DEF Clear, LockFree, Effect, mouseVars, padVars, routeVars, keyVars,
        requestVars
<1>1. work # <<>> /\ Situations
  BY EffectsDue DEF InputInv
<1>2. Releasing /\ work = <<"clear">>
  BY <1>1 DEF Situations
<1>3. TypeInv'
  <2>1. Mouse!TypeOK'
    BY <1>2 DEF InputInv, TypeInv, Mouse!TypeOK
  <2>2. Pad!TypeOK'
    BY <1>2 DEF InputInv, TypeInv, Pad!TypeOK
  <2>3. /\ synthetic' \in BOOLEAN /\ bridge' \in BOOLEAN
        /\ physicalShift' \in BOOLEAN /\ nativeShift' \in BOOLEAN
    BY <1>2 DEF InputInv, TypeInv
  <2>4. /\ device' \in Devices \cup {NoDevice} /\ routeEpoch' \in Epochs
        /\ reqSide' \in Sides \cup {NoSide, "canceling"}
        /\ reqHero' \in Heroes \cup {NoHero}
        /\ heroPub' \in Heroes \cup {NoHero}
        /\ proven' \in Heroes \cup {NoHero}
    BY <1>2 DEF InputInv, TypeInv
  <2>5. /\ trigger' \in Triggers /\ pc' \in Handlers
        /\ todo' \in [Sides -> Edges] /\ submit' \in Submissions
    BY <1>2 DEF InputInv, TypeInv, Triggers, Handlers, Submissions
  <2> QED
    BY <2>1, <2>2, <2>3, <2>4, <2>5 DEF TypeInv
<1>4. PolicyInv'
  BY <1>2 DEF InputInv, PolicyInv, OneHolder, Mouse!TypeOK, TypeInv
<1>5. PhaseInv'
  BY <1>2 DEF InputInv, PhaseInv, PolicyInv
<1>6. WorkInv'
  <2>1. work' = <<>>
    BY <1>2, Words
  <2>2. Unheld /\ ~synthetic /\ (pc = "focusEnd" => ~bridge)
    BY <1>2, Words DEF Releasing
  <2>3. Settled'
    BY <2>2 DEF Settled, Unheld, InputInv, PolicyInv, Sides, NoSide
  <2> QED
    BY <2>1, <2>3 DEF WorkInv
<1>7. ShiftInv'
  BY <1>2 DEF InputInv, ShiftInv, TypeInv
<1>8. StockInv'
  BY <1>2 DEF InputInv, StockInv, TypeInv
<1> QED
  BY <1>3, <1>4, <1>5, <1>6, <1>7, <1>8 DEF InputInv

(* A packet arrives.                                                       *)
LEMMA MousePacketKeeps ==
    ASSUME InputInv, NEW f \in [Sides -> Edges], MousePacket(f)
    PROVE  InputInv'
<1> USE DEF MousePacket, Running, mouseVars, padVars, routeVars, keyVars,
        requestVars
<1>1. work = <<>> /\ Settled
  BY NoWord DEF InputInv, WorkInv, Attaching, AttachingPad, Releasing
<1>2. TypeInv'
  <2>1. Mouse!TypeOK'
    BY <1>1 DEF InputInv, TypeInv, Mouse!TypeOK
  <2>2. Pad!TypeOK'
    BY <1>1 DEF InputInv, TypeInv, Pad!TypeOK
  <2>3. /\ synthetic' \in BOOLEAN /\ bridge' \in BOOLEAN
        /\ physicalShift' \in BOOLEAN /\ nativeShift' \in BOOLEAN
    BY <1>1 DEF InputInv, TypeInv
  <2>4. /\ device' \in Devices \cup {NoDevice} /\ routeEpoch' \in Epochs
        /\ reqSide' \in Sides \cup {NoSide, "canceling"}
        /\ reqHero' \in Heroes \cup {NoHero}
        /\ heroPub' \in Heroes \cup {NoHero}
        /\ proven' \in Heroes \cup {NoHero}
    BY <1>1 DEF InputInv, TypeInv
  <2>5. /\ trigger' \in Triggers /\ pc' \in Handlers
        /\ todo' \in [Sides -> Edges] /\ submit' \in Submissions
    BY <1>1 DEF InputInv, TypeInv, Triggers, Handlers, Submissions
  <2> QED
    BY <2>1, <2>2, <2>3, <2>4, <2>5 DEF TypeInv
<1>3. PolicyInv'
  BY <1>1 DEF InputInv, PolicyInv, OneHolder, Mouse!TypeOK, TypeInv
<1>4. PhaseInv'
  BY <1>1 DEF InputInv, PhaseInv, PolicyInv
<1>5. WorkInv'
  <2>1. work' = <<>> /\ Settled'
    BY <1>1 DEF Settled, InputInv, PolicyInv, PhaseInv, TypeInv
  <2> QED
    BY <2>1 DEF WorkInv
<1>6. ShiftInv'
  BY <1>1 DEF InputInv, ShiftInv, TypeInv
<1>7. StockInv'
  BY <1>1 DEF InputInv, StockInv, TypeInv
<1> QED
  BY <1>2, <1>3, <1>4, <1>5, <1>6, <1>7 DEF InputInv

(* The packet is through.                                                  *)
LEMMA EndPacketKeeps ==
    ASSUME InputInv, EndPacket
    PROVE  InputInv'
<1> USE DEF EndPacket, Running, mouseVars, padVars, routeVars, keyVars,
        requestVars
<1>1. work = <<>> /\ Settled
  BY NoWord DEF InputInv, WorkInv, Attaching, AttachingPad, Releasing
<1>2. TypeInv'
  <2>1. Mouse!TypeOK'
    BY <1>1 DEF InputInv, TypeInv, Mouse!TypeOK, Mouse!NoDecision,
       Mouse!Decisions, Mouse!Sides
  <2>2. Pad!TypeOK'
    BY <1>1 DEF InputInv, TypeInv, Pad!TypeOK
  <2>3. /\ synthetic' \in BOOLEAN /\ bridge' \in BOOLEAN
        /\ physicalShift' \in BOOLEAN /\ nativeShift' \in BOOLEAN
    BY <1>1 DEF InputInv, TypeInv
  <2>4. /\ device' \in Devices \cup {NoDevice} /\ routeEpoch' \in Epochs
        /\ reqSide' \in Sides \cup {NoSide, "canceling"}
        /\ reqHero' \in Heroes \cup {NoHero}
        /\ heroPub' \in Heroes \cup {NoHero}
        /\ proven' \in Heroes \cup {NoHero}
    BY <1>1 DEF InputInv, TypeInv
  <2>5. /\ trigger' \in Triggers /\ pc' \in Handlers
        /\ todo' \in [Sides -> Edges] /\ submit' \in Submissions
    BY <1>1 DEF InputInv, TypeInv, Triggers, Handlers, Submissions
  <2> QED
    BY <2>1, <2>2, <2>3, <2>4, <2>5 DEF TypeInv
<1>3. PolicyInv'
  BY <1>1 DEF InputInv, PolicyInv, OneHolder, Mouse!TypeOK, TypeInv
<1>4. PhaseInv'
  BY <1>1 DEF InputInv, PhaseInv, PolicyInv, Mouse!NoDecision
<1>5. WorkInv'
  <2>1. work' = <<>> /\ Settled'
    BY <1>1 DEF Settled, InputInv, PolicyInv, PhaseInv, TypeInv
  <2> QED
    BY <2>1 DEF WorkInv
<1>6. ShiftInv'
  BY <1>1 DEF InputInv, ShiftInv, TypeInv
<1>7. StockInv'
  BY <1>1 DEF InputInv, StockInv, TypeInv
<1> QED
  BY <1>2, <1>3, <1>4, <1>5, <1>6, <1>7 DEF InputInv

(* The player's Shift, seen by the game only if the mod's is not down.     *)
LEMMA ShiftKeyKeeps ==
    ASSUME InputInv, NEW b \in BOOLEAN, ShiftKey(b)
    PROVE  InputInv'
<1> USE DEF ShiftKey, Running, mouseVars, padVars, routeVars, keyVars,
        requestVars
<1>1. work = <<>> /\ Settled
  BY NoWord DEF InputInv, WorkInv, Attaching, AttachingPad, Releasing
<1>2. TypeInv'
  <2>1. Mouse!TypeOK'
    BY <1>1 DEF InputInv, TypeInv, Mouse!TypeOK
  <2>2. Pad!TypeOK'
    BY <1>1 DEF InputInv, TypeInv, Pad!TypeOK
  <2>3. /\ synthetic' \in BOOLEAN /\ bridge' \in BOOLEAN
        /\ physicalShift' \in BOOLEAN /\ nativeShift' \in BOOLEAN
    BY <1>1 DEF InputInv, TypeInv
  <2>4. /\ device' \in Devices \cup {NoDevice} /\ routeEpoch' \in Epochs
        /\ reqSide' \in Sides \cup {NoSide, "canceling"}
        /\ reqHero' \in Heroes \cup {NoHero}
        /\ heroPub' \in Heroes \cup {NoHero}
        /\ proven' \in Heroes \cup {NoHero}
    BY <1>1 DEF InputInv, TypeInv
  <2>5. /\ trigger' \in Triggers /\ pc' \in Handlers
        /\ todo' \in [Sides -> Edges] /\ submit' \in Submissions
    BY <1>1 DEF InputInv, TypeInv, Triggers, Handlers, Submissions
  <2> QED
    BY <2>1, <2>2, <2>3, <2>4, <2>5 DEF TypeInv
<1>3. PolicyInv'
  BY <1>1 DEF InputInv, PolicyInv, OneHolder, Mouse!TypeOK, TypeInv
<1>4. PhaseInv'
  BY <1>1 DEF InputInv, PhaseInv, PolicyInv
<1>5. WorkInv'
  <2>1. work' = <<>> /\ Settled'
    BY <1>1 DEF Settled, InputInv, PolicyInv, PhaseInv, TypeInv
  <2> QED
    BY <2>1 DEF WorkInv
<1>6. ShiftInv'
  BY <1>1 DEF InputInv, ShiftInv, TypeInv
<1>7. StockInv'
  BY <1>1 DEF InputInv, StockInv, TypeInv
<1> QED
  BY <1>2, <1>3, <1>4, <1>5, <1>6, <1>7 DEF InputInv

(* The original handler may flush the keys: none of the mod's is down.     *)
LEMMA FocusEndKeeps ==
    ASSUME InputInv, FocusEnd
    PROVE  InputInv'
<1> USE DEF FocusEnd, Running, mouseVars, padVars, routeVars, keyVars,
        requestVars
<1>1. work = <<>> /\ Settled
  BY NoWord DEF InputInv, WorkInv, Attaching, AttachingPad, Releasing
<1>2. TypeInv'
  <2>1. Mouse!TypeOK'
    BY <1>1 DEF InputInv, TypeInv, Mouse!TypeOK
  <2>2. Pad!TypeOK'
    BY <1>1 DEF InputInv, TypeInv, Pad!TypeOK
  <2>3. /\ synthetic' \in BOOLEAN /\ bridge' \in BOOLEAN
        /\ physicalShift' \in BOOLEAN /\ nativeShift' \in BOOLEAN
    BY <1>1 DEF InputInv, TypeInv
  <2>4. /\ device' \in Devices \cup {NoDevice} /\ routeEpoch' \in Epochs
        /\ reqSide' \in Sides \cup {NoSide, "canceling"}
        /\ reqHero' \in Heroes \cup {NoHero}
        /\ heroPub' \in Heroes \cup {NoHero}
        /\ proven' \in Heroes \cup {NoHero}
    BY <1>1 DEF InputInv, TypeInv
  <2>5. /\ trigger' \in Triggers /\ pc' \in Handlers
        /\ todo' \in [Sides -> Edges] /\ submit' \in Submissions
    BY <1>1 DEF InputInv, TypeInv, Triggers, Handlers, Submissions
  <2> QED
    BY <2>1, <2>2, <2>3, <2>4, <2>5 DEF TypeInv
<1>3. PolicyInv'
  BY <1>1 DEF InputInv, PolicyInv, OneHolder, Mouse!TypeOK, TypeInv
<1>4. PhaseInv'
  BY <1>1 DEF InputInv, PhaseInv, PolicyInv
<1>5. WorkInv'
  <2>1. work' = <<>> /\ Settled'
    BY <1>1 DEF Settled, InputInv, PolicyInv, PhaseInv, TypeInv
  <2> QED
    BY <2>1 DEF WorkInv
<1>6. ShiftInv'
  BY <1>1 DEF InputInv, ShiftInv, TypeInv, Settled
<1>7. StockInv'
  BY <1>1 DEF InputInv, StockInv, TypeInv
<1> QED
  BY <1>2, <1>3, <1>4, <1>5, <1>6, <1>7 DEF InputInv

(* The trigger is driven for a hold only.                                  *)
LEMMA PollWriteKeeps ==
    ASSUME InputInv, PollWrite
    PROVE  InputInv'
<1> USE DEF PollWrite, Running, mouseVars, padVars, routeVars, keyVars,
        requestVars
<1>1. work = <<>> /\ Settled
  BY NoWord DEF InputInv, WorkInv, Attaching, AttachingPad, Releasing
<1>2. TypeInv'
  <2>1. Mouse!TypeOK'
    BY <1>1 DEF InputInv, TypeInv, Mouse!TypeOK
  <2>2. Pad!TypeOK'
    BY <1>1 DEF InputInv, TypeInv, Pad!TypeOK, NoPadDecision,
       Pad!Decisions, Pad!Sides
  <2>3. /\ synthetic' \in BOOLEAN /\ bridge' \in BOOLEAN
        /\ physicalShift' \in BOOLEAN /\ nativeShift' \in BOOLEAN
    BY <1>1 DEF InputInv, TypeInv
  <2>4. /\ device' \in Devices \cup {NoDevice} /\ routeEpoch' \in Epochs
        /\ reqSide' \in Sides \cup {NoSide, "canceling"}
        /\ reqHero' \in Heroes \cup {NoHero}
        /\ heroPub' \in Heroes \cup {NoHero}
        /\ proven' \in Heroes \cup {NoHero}
    BY <1>1 DEF InputInv, TypeInv
  <2>5. /\ trigger' \in Triggers /\ pc' \in Handlers
        /\ todo' \in [Sides -> Edges] /\ submit' \in Submissions
    BY <1>1 DEF InputInv, TypeInv, Triggers, Handlers, Submissions
  <2> QED
    BY <2>1, <2>2, <2>3, <2>4, <2>5 DEF TypeInv
<1>3. PolicyInv'
  BY <1>1 DEF InputInv, PolicyInv, OneHolder, Mouse!TypeOK, TypeInv
<1>4. PhaseInv'
  BY <1>1 DEF InputInv, PhaseInv, PolicyInv, NoPadDecision
<1>5. WorkInv'
  <2>1. work' = <<>> /\ Settled'
    BY <1>1 DEF Settled, InputInv, PolicyInv, PhaseInv, TypeInv
  <2> QED
    BY <2>1 DEF WorkInv
<1>6. ShiftInv'
  BY <1>1 DEF InputInv, ShiftInv, TypeInv
<1>7. StockInv'
  BY <1>1 DEF InputInv, StockInv, TypeInv
<1> QED
  BY <1>2, <1>3, <1>4, <1>5, <1>6, <1>7 DEF InputInv

(* The poll without a device ends.                                         *)
LEMMA PollEndKeeps ==
    ASSUME InputInv, PollEnd
    PROVE  InputInv'
<1> USE DEF PollEnd, Running, mouseVars, padVars, routeVars, keyVars,
        requestVars
<1>1. work = <<>> /\ Settled
  BY NoWord DEF InputInv, WorkInv, Attaching, AttachingPad, Releasing
<1>2. TypeInv'
  <2>1. Mouse!TypeOK'
    BY <1>1 DEF InputInv, TypeInv, Mouse!TypeOK
  <2>2. Pad!TypeOK'
    BY <1>1 DEF InputInv, TypeInv, Pad!TypeOK, NoPadDecision,
       Pad!Decisions, Pad!Sides
  <2>3. /\ synthetic' \in BOOLEAN /\ bridge' \in BOOLEAN
        /\ physicalShift' \in BOOLEAN /\ nativeShift' \in BOOLEAN
    BY <1>1 DEF InputInv, TypeInv
  <2>4. /\ device' \in Devices \cup {NoDevice} /\ routeEpoch' \in Epochs
        /\ reqSide' \in Sides \cup {NoSide, "canceling"}
        /\ reqHero' \in Heroes \cup {NoHero}
        /\ heroPub' \in Heroes \cup {NoHero}
        /\ proven' \in Heroes \cup {NoHero}
    BY <1>1 DEF InputInv, TypeInv
  <2>5. /\ trigger' \in Triggers /\ pc' \in Handlers
        /\ todo' \in [Sides -> Edges] /\ submit' \in Submissions
    BY <1>1 DEF InputInv, TypeInv, Triggers, Handlers, Submissions
  <2> QED
    BY <2>1, <2>2, <2>3, <2>4, <2>5 DEF TypeInv
<1>3. PolicyInv'
  BY <1>1 DEF InputInv, PolicyInv, OneHolder, Mouse!TypeOK, TypeInv
<1>4. PhaseInv'
  BY <1>1 DEF InputInv, PhaseInv, PolicyInv, NoPadDecision
<1>5. WorkInv'
  <2>1. work' = <<>> /\ Settled'
    BY <1>1 DEF Settled, InputInv, PolicyInv, PhaseInv, TypeInv
  <2> QED
    BY <2>1 DEF WorkInv
<1>6. ShiftInv'
  BY <1>1 DEF InputInv, ShiftInv, TypeInv
<1>7. StockInv'
  BY <1>1 DEF InputInv, StockInv, TypeInv
<1> QED
  BY <1>2, <1>3, <1>4, <1>5, <1>6, <1>7 DEF InputInv
-----------------------------------------------------------------------------
LEMMA RouteTypes ==
    ASSUME routeEpoch \in Epochs, NEW d \in Devices \cup {NoDevice}, Route(d)
    PROVE  device' \in Devices \cup {NoDevice} /\ routeEpoch' \in Epochs
BY EpochFacts DEF Route

(* The owner of the controller's hold ends, whatever ends it.              *)
LEMMA PadLetsGo ==
    ASSUME InputInv, work = <<>>, pOwner' = NoSide, pHeld' <=> pOwner' # NoSide,
           pDecision'.attach = {},
           pDecision'.release = IF pOwner = NoSide THEN {} ELSE {pOwner},
           work' = ApplyControllerDecision(pDecision'),
           UNCHANGED <<mouseVars, keyVars, requestVars>>,
           pc' \in {"poll", "unplugged", "focusMouse"}
    PROVE  PolicyInv' /\ WorkInv'
<1> USE DEF mouseVars, keyVars, requestVars
<1>1. Settled /\ ~pHeld'
  BY NoWord DEF InputInv, WorkInv, Attaching, AttachingPad, Releasing
<1>2. PolicyInv'
  BY <1>1 DEF InputInv, PolicyInv, OneHolder
<1>3. CASE pOwner = NoSide
  <2>1. work' = <<>>
    BY <1>3, PadEffects
  <2>2. Settled'
    BY <1>1, <1>3 DEF Settled
  <2> QED
    BY <1>2, <2>1, <2>2 DEF WorkInv
<1>4. CASE pOwner # NoSide
  <2>1. work' = <<"mark", "clear">>
    BY <1>4, PadEffects
  <2>2. mOwns = {} /\ ~synthetic
    BY <1>1, <1>4 DEF Settled, InputInv, PolicyInv, OneHolder
  <2>3. Releasing'
    BY <1>1, <2>1, <2>2 DEF Releasing, Unheld
  <2> QED
    BY <1>2, <2>3 DEF WorkInv
<1> QED
  BY <1>3, <1>4

(* A button's edge: a new rope, its end, or nothing.                       *)
LEMMA ProcessButtonKeeps ==
    ASSUME InputInv, NEW s \in Sides, ProcessButton(s)
    PROVE  InputInv'
<1> USE DEF ProcessButton, Running, mouseVars, padVars, routeVars, keyVars,
        requestVars
<1>1. work = <<>> /\ Settled
  BY NoWord DEF InputInv, WorkInv, Attaching, AttachingPad, Releasing
<1>2. /\ mCaptured' \in SUBSET Sides /\ mDecision' \in Mouse!Decisions
      /\ \/ mOwns' = mOwns /\ NoEffect(mDecision')
         \/ /\ mOwns = {} /\ mOwns' = {s} /\ MouseReady
            /\ mDecision'.attach = {s} /\ mDecision'.release = {}
            /\ mDecision'.press /\ ~mDecision'.lift
            /\ proven' = heroPub
         \/ /\ mOwns # {} /\ mOwns' = {}
            /\ mDecision'.attach = {} /\ mDecision'.release # {}
            /\ ~mDecision'.press /\ mDecision'.lift
  <2>1. ASSUME NEW e \in MouseEligibility, Mouse!Down(s, e),
               proven' = IF e.gate THEN heroPub ELSE NoHero
        PROVE  /\ mCaptured' \in SUBSET Sides /\ mDecision' \in Mouse!Decisions
               /\ \/ mOwns' = mOwns /\ NoEffect(mDecision')
                  \/ /\ mOwns = {} /\ mOwns' = {s} /\ MouseReady
                     /\ mDecision'.attach = {s} /\ mDecision'.release = {}
                     /\ mDecision'.press /\ ~mDecision'.lift
                     /\ proven' = heroPub
    BY <2>1, MouseDown DEF InputInv, TypeInv, MouseEligibility
  <2>2. CASE Mouse!Up(s)
    BY <2>2, MouseUp DEF InputInv, TypeInv, PolicyInv
  <2> QED
    BY <2>1, <2>2
<1>3. mOwns' \in SUBSET Sides /\ proven' \in Heroes \cup {NoHero}
  <2>1. mOwns' \in SUBSET Sides
    BY <1>2 DEF InputInv, TypeInv, Mouse!TypeOK, Mouse!Sides, Sides
  <2>2. proven' \in {heroPub, NoHero}
    OBVIOUS
  <2> QED
    BY <2>1, <2>2 DEF InputInv, TypeInv
<1>4. TypeInv'
  <2>1. Mouse!TypeOK'
    BY <1>2, <1>3 DEF InputInv, TypeInv, Mouse!TypeOK, Mouse!Sides, Sides
  <2>2. Pad!TypeOK'
    BY <1>2, <1>3 DEF InputInv, TypeInv, Pad!TypeOK
  <2>3. /\ synthetic' \in BOOLEAN /\ bridge' \in BOOLEAN
        /\ physicalShift' \in BOOLEAN /\ nativeShift' \in BOOLEAN
    BY <1>2, <1>3 DEF InputInv, TypeInv
  <2>4. /\ device' \in Devices \cup {NoDevice} /\ routeEpoch' \in Epochs
        /\ reqSide' \in Sides \cup {NoSide, "canceling"}
        /\ reqHero' \in Heroes \cup {NoHero}
        /\ heroPub' \in Heroes \cup {NoHero}
        /\ proven' \in Heroes \cup {NoHero}
    BY <1>2, <1>3 DEF InputInv, TypeInv
  <2>5. /\ trigger' \in Triggers /\ pc' \in Handlers
        /\ todo' \in [Sides -> Edges] /\ submit' \in Submissions
    BY <1>2, <1>3 DEF InputInv, TypeInv, Triggers, Handlers, Submissions,
       Edges
  <2> QED
    BY <2>1, <2>2, <2>3, <2>4, <2>5 DEF TypeInv
<1>5. PolicyInv'
  <2>1. mOwns' \in {{}, {"left"}, {"right"}}
    BY <1>2 DEF InputInv, PolicyInv, Sides
  <2>2. mOwns' # {} => ~pHeld
    BY <1>2 DEF InputInv, PolicyInv, OneHolder, MouseReady
  <2> QED
    BY <2>1, <2>2 DEF InputInv, PolicyInv, OneHolder
<1>6. PhaseInv'
  BY <1>1, <1>2, <1>3 DEF InputInv, PhaseInv, PolicyInv
<1>7. WorkInv'
  <2>1. CASE mOwns' = mOwns /\ NoEffect(mDecision')
    <3>1. work' = <<>>
      BY <2>1, MouseEffects DEF NoEffect
    <3>2. Settled'
      BY <1>1, <2>1 DEF Settled
    <3> QED
      BY <3>1, <3>2 DEF WorkInv
  <2>2. CASE /\ mOwns = {} /\ mOwns' = {s} /\ MouseReady
             /\ mDecision'.attach = {s} /\ mDecision'.release = {}
             /\ mDecision'.press /\ ~mDecision'.lift
             /\ proven' = heroPub
    <3>1. work' = <<"publish", "press">>
      BY <2>2, MouseEffects
    <3>2. ~synthetic /\ ~nativeShift /\ proven' # NoHero
      BY <1>1, <2>2 DEF Settled, MouseReady
    <3>3. reqSide = NoSide
      BY <1>1, <2>2 DEF Settled, MouseReady, InputInv, PolicyInv, Sides, NoSide
    <3>4. Attaching(s)'
      BY <2>2, <3>1, <3>2, <3>3 DEF Attaching
    <3> QED
      BY <3>4 DEF WorkInv
  <2>3. CASE /\ mOwns # {} /\ mOwns' = {}
             /\ mDecision'.attach = {} /\ mDecision'.release # {}
             /\ ~mDecision'.press /\ mDecision'.lift
    <3>1. work' = <<"mark", "lift", "clear">>
      BY <2>3, MouseEffects
    <3>2. ~pHeld /\ synthetic
      BY <1>1, <2>3 DEF Settled, InputInv, PolicyInv, OneHolder
    <3>3. reqSide # NoSide
      BY <1>1, <2>3 DEF Settled, InputInv, PolicyInv, Sides, NoSide
    <3>4. Releasing'
      BY <2>3, <3>1, <3>2, <3>3 DEF Releasing, Unheld
    <3> QED
      BY <3>4 DEF WorkInv
  <2> QED
    BY <1>2, <2>1, <2>2, <2>3
<1>8. ShiftInv'
  BY <1>1, <1>2, <1>3 DEF InputInv, ShiftInv, TypeInv
<1>9. StockInv'
  BY <1>1, <1>2, <1>3 DEF InputInv, StockInv, TypeInv
<1> QED
  BY <1>4, <1>5, <1>6, <1>7, <1>8, <1>9 DEF InputInv

(* CancelControllerForFocusLoss: the controller's hold ends.               *)
LEMMA FocusLostKeeps ==
    ASSUME InputInv, FocusLost
    PROVE  InputInv'
<1> USE DEF FocusLost, Running, mouseVars, padVars, routeVars, keyVars,
        requestVars
<1>1. work = <<>> /\ Settled
  BY NoWord DEF InputInv, WorkInv, Attaching, AttachingPad, Releasing
<1>2. /\ Pad!TypeOK' /\ pOwner' = NoSide /\ (pHeld' <=> pOwner' # NoSide)
      /\ pDecision'.attach = {}
      /\ pDecision'.release = IF pOwner = NoSide THEN {} ELSE {pOwner}
  <2>1. CASE Pad!CancelAndReset
    <3>1. Pad!CancelOwner({}) /\ Pad!ResetSource
      BY <2>1 DEF Pad!CancelAndReset
    <3>2. /\ pOwner' = NoSide /\ pHeld' = FALSE /\ pDecision' \in Pad!Decisions
          /\ pDecision'.attach = {}
          /\ pDecision'.release = IF pOwner = NoSide THEN {} ELSE {pOwner}
      BY <3>1, PadCancel DEF InputInv, TypeInv
    <3> QED
      BY <3>1, <3>2, EpochFacts DEF Pad!ResetSource, Pad!TypeOK, Pad!NoSide,
         NoSide
  <2>2. CASE Pad!Update(Unfocused)
    <3>1. /\ ~Unfocused.gate /\ Unfocused.gate \in BOOLEAN
          /\ Unfocused.epoch \in Epochs /\ ~Unfocused.focused
      BY DEF Unfocused, InputInv, TypeInv
    <3>2. /\ Pad!TypeOK' /\ (pHeld' <=> pOwner' # NoSide) /\ pOwner' = NoSide
          /\ OwnerStep(Unfocused.gate)
      BY <2>2, <3>1, PadUpdate DEF InputInv, TypeInv, PolicyInv
    <3> QED
      BY <3>1, <3>2 DEF OwnerStep
  <2> QED
    BY <2>1, <2>2
<1>3. PolicyInv' /\ WorkInv'
  <2>1. /\ work = <<>> /\ UNCHANGED <<mouseVars, keyVars, requestVars>>
        /\ work' = ApplyControllerDecision(pDecision')
        /\ pc' \in {"poll", "unplugged", "focusMouse"}
    OBVIOUS
  <2> QED
    BY <1>2, <2>1, PadLetsGo
<1>4. TypeInv'
  <2>1. Mouse!TypeOK'
    BY DEF InputInv, TypeInv, Mouse!TypeOK
  <2>2. Pad!TypeOK'
    BY <1>2 DEF InputInv, TypeInv
  <2>3. /\ synthetic' \in BOOLEAN /\ bridge' \in BOOLEAN
        /\ physicalShift' \in BOOLEAN /\ nativeShift' \in BOOLEAN
    BY DEF InputInv, TypeInv
  <2>4. /\ device' \in Devices \cup {NoDevice} /\ routeEpoch' \in Epochs
        /\ reqSide' \in Sides \cup {NoSide, "canceling"}
        /\ reqHero' \in Heroes \cup {NoHero}
        /\ heroPub' \in Heroes \cup {NoHero}
        /\ proven' \in Heroes \cup {NoHero}
    BY DEF InputInv, TypeInv
  <2>5. /\ trigger' \in Triggers /\ pc' \in Handlers
        /\ todo' \in [Sides -> Edges] /\ submit' \in Submissions
    BY DEF InputInv, TypeInv, Triggers, Handlers, Submissions, Edges
  <2> QED
    BY <2>1, <2>2, <2>3, <2>4, <2>5 DEF TypeInv
<1>5. PolicyInv'
  BY <1>3
<1>6. PhaseInv'
  BY <1>1, <1>2, <1>3 DEF InputInv, PhaseInv, PolicyInv
<1>7. WorkInv'
  BY <1>3
<1>8. ShiftInv'
  BY <1>1, <1>2, <1>3 DEF InputInv, ShiftInv, TypeInv
<1>9. StockInv'
  BY <1>1, <1>2, <1>3 DEF InputInv, StockInv, TypeInv
<1> QED
  BY <1>4, <1>5, <1>6, <1>7, <1>8, <1>9 DEF InputInv

(* No device: the controller's hold ends.                                  *)
LEMMA PollDisconnectedKeeps ==
    ASSUME InputInv, PollDisconnected
    PROVE  InputInv'
<1> USE DEF PollDisconnected, Running, mouseVars, padVars, routeVars, keyVars,
        requestVars
<1>0. device' \in Devices \cup {NoDevice} /\ routeEpoch' \in Epochs
  BY RouteTypes DEF InputInv, TypeInv
<1>1. work = <<>> /\ Settled
  BY NoWord DEF InputInv, WorkInv, Attaching, AttachingPad, Releasing
<1>2. /\ Pad!TypeOK' /\ pOwner' = NoSide /\ (pHeld' <=> pOwner' # NoSide)
      /\ pDecision'.attach = {}
      /\ pDecision'.release = IF pOwner = NoSide THEN {} ELSE {pOwner}
  <2> DEFINE x == [Unfocused EXCEPT !.connected = FALSE, !.epoch = routeEpoch']
  <2>1. /\ ~x.gate /\ x.gate \in BOOLEAN
        /\ x.epoch \in Epochs /\ ~x.connected
    BY <1>0 DEF Unfocused
  <2>2. Pad!Update(x)
    OBVIOUS
  <2> HIDE DEF x
  <2>3. /\ Pad!TypeOK' /\ (pHeld' <=> pOwner' # NoSide) /\ pOwner' = NoSide
        /\ OwnerStep(x.gate)
    BY <2>1, <2>2, PadUpdate DEF InputInv, TypeInv, PolicyInv
  <2> QED
    BY <2>1, <2>3 DEF OwnerStep
<1>3. PolicyInv' /\ WorkInv'
  <2>1. /\ work = <<>> /\ UNCHANGED <<mouseVars, keyVars, requestVars>>
        /\ work' = ApplyControllerDecision(pDecision')
        /\ pc' \in {"poll", "unplugged", "focusMouse"}
    OBVIOUS
  <2> QED
    BY <1>2, <2>1, PadLetsGo
<1>4. TypeInv'
  <2>1. Mouse!TypeOK'
    BY DEF InputInv, TypeInv, Mouse!TypeOK
  <2>2. Pad!TypeOK'
    BY <1>2 DEF InputInv, TypeInv
  <2>3. /\ synthetic' \in BOOLEAN /\ bridge' \in BOOLEAN
        /\ physicalShift' \in BOOLEAN /\ nativeShift' \in BOOLEAN
    BY DEF InputInv, TypeInv
  <2>4. /\ device' \in Devices \cup {NoDevice} /\ routeEpoch' \in Epochs
        /\ reqSide' \in Sides \cup {NoSide, "canceling"}
        /\ reqHero' \in Heroes \cup {NoHero}
        /\ heroPub' \in Heroes \cup {NoHero}
        /\ proven' \in Heroes \cup {NoHero}
    BY <1>0 DEF InputInv, TypeInv
  <2>5. /\ trigger' \in Triggers /\ pc' \in Handlers
        /\ todo' \in [Sides -> Edges] /\ submit' \in Submissions
    BY DEF InputInv, TypeInv, Triggers, Handlers, Submissions, Edges
  <2> QED
    BY <2>1, <2>2, <2>3, <2>4, <2>5 DEF TypeInv
<1>5. PolicyInv'
  BY <1>3
<1>6. PhaseInv'
  BY <1>1, <1>2, <1>3 DEF InputInv, PhaseInv, PolicyInv
<1>7. WorkInv'
  BY <1>3
<1>8. ShiftInv'
  BY <1>1, <1>2, <1>3 DEF InputInv, ShiftInv, TypeInv
<1>9. StockInv'
  BY <1>1, <1>2, <1>3 DEF InputInv, StockInv, TypeInv
<1> QED
  BY <1>4, <1>5, <1>6, <1>7, <1>8, <1>9 DEF InputInv

(* The trigger could not be written: the hold ends.                        *)
LEMMA PollWriteFailsKeeps ==
    ASSUME InputInv, PollWriteFails
    PROVE  InputInv'
<1> USE DEF PollWriteFails, Running, mouseVars, padVars, routeVars, keyVars,
        requestVars
<1>0. device' \in Devices \cup {NoDevice} /\ routeEpoch' \in Epochs
  BY RouteTypes DEF InputInv, TypeInv
<1>1. work = <<>> /\ Settled
  BY NoWord DEF InputInv, WorkInv, Attaching, AttachingPad, Releasing
<1>2. /\ Pad!TypeOK' /\ pOwner' = NoSide /\ (pHeld' <=> pOwner' # NoSide)
      /\ pDecision'.attach = {}
      /\ pDecision'.release = IF pOwner = NoSide THEN {} ELSE {pOwner}
  <2>1. Pad!CancelOwner({}) /\ Pad!ResetSource
    BY DEF Pad!CancelAndReset
  <2>2. /\ pOwner' = NoSide /\ pHeld' = FALSE /\ pDecision' \in Pad!Decisions
        /\ pDecision'.attach = {}
        /\ pDecision'.release = IF pOwner = NoSide THEN {} ELSE {pOwner}
    BY <2>1, PadCancel DEF InputInv, TypeInv
  <2> QED
    BY <2>1, <2>2, EpochFacts DEF Pad!ResetSource, Pad!TypeOK, Pad!NoSide,
       NoSide
<1>3. PolicyInv' /\ WorkInv'
  <2>1. /\ work = <<>> /\ UNCHANGED <<mouseVars, keyVars, requestVars>>
        /\ work' = ApplyControllerDecision(pDecision')
        /\ pc' \in {"poll", "unplugged", "focusMouse"}
    OBVIOUS
  <2> QED
    BY <1>2, <2>1, PadLetsGo
<1>4. TypeInv'
  <2>1. Mouse!TypeOK'
    BY DEF InputInv, TypeInv, Mouse!TypeOK
  <2>2. Pad!TypeOK'
    BY <1>2 DEF InputInv, TypeInv
  <2>3. /\ synthetic' \in BOOLEAN /\ bridge' \in BOOLEAN
        /\ physicalShift' \in BOOLEAN /\ nativeShift' \in BOOLEAN
    BY DEF InputInv, TypeInv
  <2>4. /\ device' \in Devices \cup {NoDevice} /\ routeEpoch' \in Epochs
        /\ reqSide' \in Sides \cup {NoSide, "canceling"}
        /\ reqHero' \in Heroes \cup {NoHero}
        /\ heroPub' \in Heroes \cup {NoHero}
        /\ proven' \in Heroes \cup {NoHero}
    BY <1>0 DEF InputInv, TypeInv
  <2>5. /\ trigger' \in Triggers /\ pc' \in Handlers
        /\ todo' \in [Sides -> Edges] /\ submit' \in Submissions
    BY DEF InputInv, TypeInv, Triggers, Handlers, Submissions, Edges
  <2> QED
    BY <2>1, <2>2, <2>3, <2>4, <2>5 DEF TypeInv
<1>5. PolicyInv'
  BY <1>3
<1>6. PhaseInv'
  BY <1>1, <1>2, <1>3 DEF InputInv, PhaseInv, PolicyInv
<1>7. WorkInv'
  BY <1>3
<1>8. ShiftInv'
  BY <1>1, <1>2, <1>3 DEF InputInv, ShiftInv, TypeInv
<1>9. StockInv'
  BY <1>1, <1>2, <1>3 DEF InputInv, StockInv, TypeInv
<1> QED
  BY <1>4, <1>5, <1>6, <1>7, <1>8, <1>9 DEF InputInv

(* CancelNativeHold: the mouse's hold ends.                                *)
LEMMA FocusMouseKeeps ==
    ASSUME InputInv, FocusMouse
    PROVE  InputInv'
<1> USE DEF FocusMouse, Running, mouseVars, padVars, routeVars, keyVars,
        requestVars
<1>1. work = <<>> /\ Settled
  BY NoWord DEF InputInv, WorkInv, Attaching, AttachingPad, Releasing
<1>2. /\ mCaptured' = mCaptured /\ mDecision' \in Mouse!Decisions
      /\ mOwns' = {} /\ ~pHeld
      /\ mDecision'.attach = {} /\ mDecision'.release = mOwns
      /\ ~mDecision'.press /\ (mDecision'.lift <=> mOwns # {})
  BY MouseCancel DEF InputInv, TypeInv, PhaseInv
<1>3. TypeInv'
  <2>1. Mouse!TypeOK'
    BY <1>2 DEF InputInv, TypeInv, Mouse!TypeOK
  <2>2. Pad!TypeOK'
    BY DEF InputInv, TypeInv, Pad!TypeOK, NoPadDecision, Pad!Decisions,
       Pad!Sides
  <2>3. /\ synthetic' \in BOOLEAN /\ bridge' \in BOOLEAN
        /\ physicalShift' \in BOOLEAN /\ nativeShift' \in BOOLEAN
    BY DEF InputInv, TypeInv
  <2>4. /\ device' \in Devices \cup {NoDevice} /\ routeEpoch' \in Epochs
        /\ reqSide' \in Sides \cup {NoSide, "canceling"}
        /\ reqHero' \in Heroes \cup {NoHero}
        /\ heroPub' \in Heroes \cup {NoHero}
        /\ proven' \in Heroes \cup {NoHero}
    BY DEF InputInv, TypeInv
  <2>5. /\ trigger' \in Triggers /\ pc' \in Handlers
        /\ todo' \in [Sides -> Edges] /\ submit' \in Submissions
    BY DEF InputInv, TypeInv, Triggers, Handlers, Submissions, Edges
  <2> QED
    BY <2>1, <2>2, <2>3, <2>4, <2>5 DEF TypeInv
<1>4. PolicyInv'
  BY <1>1, <1>2 DEF InputInv, PolicyInv, OneHolder, Mouse!TypeOK, TypeInv
<1>5. PhaseInv'
  BY <1>1, <1>2 DEF InputInv, PhaseInv, PolicyInv, NoPadDecision
<1>6. WorkInv'
  <2>1. CASE mOwns = {}
    <3>1. work' = <<>>
      BY <1>2, <2>1, MouseEffects
    <3>2. Settled'
      BY <1>1, <1>2, <2>1 DEF Settled
    <3> QED
      BY <3>1, <3>2 DEF WorkInv
  <2>2. CASE mOwns # {}
    <3>1. work' = <<"mark", "lift", "clear">>
      BY <1>2, <2>2, MouseEffects
    <3>2. synthetic /\ reqSide # NoSide
      BY <1>1, <2>2 DEF Settled, InputInv, PolicyInv, Sides, NoSide
    <3>3. Releasing'
      BY <1>2, <3>1, <3>2 DEF Releasing, Unheld
    <3> QED
      BY <3>3 DEF WorkInv
  <2> QED
    BY <2>1, <2>2
<1>7. ShiftInv'
  BY <1>1, <1>2 DEF InputInv, ShiftInv, TypeInv
<1>8. StockInv'
  BY <1>1, <1>2 DEF InputInv, StockInv, TypeInv
<1> QED
  BY <1>3, <1>4, <1>5, <1>6, <1>7, <1>8 DEF InputInv

(* The mouse policy is reset; Shift is forced up next.                     *)
LEMMA FocusResetKeeps ==
    ASSUME InputInv, FocusReset
    PROVE  InputInv'
<1> USE DEF FocusReset, Running, mouseVars, padVars, routeVars, keyVars,
        requestVars
<1>1. work = <<>> /\ Settled
  BY NoWord DEF InputInv, WorkInv, Attaching, AttachingPad, Releasing
<1>2. /\ mCaptured' = {} /\ mOwns' = {} /\ mDecision' = Mouse!NoDecision
      /\ ~pHeld /\ ~synthetic
  BY <1>1 DEF Mouse!Reset, Settled, InputInv, PhaseInv
<1>3. TypeInv'
  <2>1. Mouse!TypeOK'
    BY <1>2 DEF InputInv, TypeInv, Mouse!TypeOK, Mouse!NoDecision,
       Mouse!Decisions, Mouse!Sides
  <2>2. Pad!TypeOK'
    BY <1>2 DEF InputInv, TypeInv, Pad!TypeOK
  <2>3. /\ synthetic' \in BOOLEAN /\ bridge' \in BOOLEAN
        /\ physicalShift' \in BOOLEAN /\ nativeShift' \in BOOLEAN
    BY <1>2 DEF InputInv, TypeInv
  <2>4. /\ device' \in Devices \cup {NoDevice} /\ routeEpoch' \in Epochs
        /\ reqSide' \in Sides \cup {NoSide, "canceling"}
        /\ reqHero' \in Heroes \cup {NoHero}
        /\ heroPub' \in Heroes \cup {NoHero}
        /\ proven' \in Heroes \cup {NoHero}
    BY <1>2 DEF InputInv, TypeInv
  <2>5. /\ trigger' \in Triggers /\ pc' \in Handlers
        /\ todo' \in [Sides -> Edges] /\ submit' \in Submissions
    BY <1>2 DEF InputInv, TypeInv, Triggers, Handlers, Submissions, Edges
  <2> QED
    BY <2>1, <2>2, <2>3, <2>4, <2>5 DEF TypeInv
<1>4. PolicyInv'
  BY <1>1, <1>2 DEF InputInv, PolicyInv, OneHolder, Mouse!TypeOK, TypeInv
<1>5. PhaseInv'
  BY <1>1, <1>2 DEF InputInv, PhaseInv, PolicyInv, Mouse!NoDecision
<1>6. WorkInv'
  <2>1. Releasing'
    BY <1>2 DEF Releasing, Unheld
  <2> QED
    BY <2>1 DEF WorkInv
<1>7. ShiftInv'
  BY <1>1, <1>2 DEF InputInv, ShiftInv, TypeInv
<1>8. StockInv'
  BY <1>1, <1>2 DEF InputInv, StockInv, TypeInv
<1> QED
  BY <1>3, <1>4, <1>5, <1>6, <1>7, <1>8 DEF InputInv

(* A poll: the controller's hold ends, stays or begins.                    *)
LEMMA PollConnectedKeeps ==
    ASSUME InputInv, NEW d \in Devices, PollConnected(d)
    PROVE  InputInv'
<1> USE DEF PollConnected, Running, mouseVars, padVars, routeVars, keyVars,
        requestVars
<1>0. device' \in Devices \cup {NoDevice} /\ routeEpoch' \in Epochs
  BY RouteTypes DEF InputInv, TypeInv
<1>1. work = <<>> /\ Settled
  BY NoWord DEF InputInv, WorkInv, Attaching, AttachingPad, Releasing
<1>2. PICK x \in PadSamples(routeEpoch') :
         Pad!Update(x) /\ proven' = IF x.gate THEN heroPub ELSE NoHero
  OBVIOUS
<1>3. /\ x.gate \in BOOLEAN /\ x.epoch \in Epochs
      /\ x.gate => PadReady
  BY <1>0 DEF PadSamples
<1>4. Pad!TypeOK' /\ (pHeld' <=> pOwner' # NoSide) /\ OwnerStep(x.gate)
  BY <1>2, <1>3, PadUpdate DEF InputInv, TypeInv, PolicyInv
<1>5. PolicyInv' /\ WorkInv'
  <2>1. CASE /\ pOwner' = NoSide /\ pDecision'.attach = {}
             /\ pDecision'.release = IF pOwner = NoSide THEN {} ELSE {pOwner}
    <3>1. /\ work = <<>> /\ UNCHANGED <<mouseVars, keyVars, requestVars>>
          /\ work' = ApplyControllerDecision(pDecision')
          /\ pc' \in {"poll", "unplugged", "focusMouse"}
      OBVIOUS
    <3> QED
      BY <1>4, <2>1, <3>1, PadLetsGo
  <2>2. CASE /\ pOwner' = pOwner /\ x.gate
             /\ pDecision'.attach = {} /\ pDecision'.release = {}
    <3>1. work' = <<>>
      BY <2>2, PadEffects
    <3>2. Settled'
      BY <1>1, <2>2 DEF Settled
    <3>3. PolicyInv'
      BY <1>3, <1>4, <2>2 DEF PadReady, InputInv, PolicyInv, OneHolder
    <3> QED
      BY <3>1, <3>2, <3>3 DEF WorkInv
  <2>3. CASE /\ pOwner = NoSide /\ pOwner' \in Sides /\ x.gate
             /\ pDecision'.attach = {pOwner'} /\ pDecision'.release = {}
    <3>1. work' = <<"publish">>
      BY <2>3, PadEffects
    <3>2. mOwns = {} /\ ~synthetic /\ proven' # NoHero
      BY <1>2, <1>3, <2>3 DEF PadReady
    <3>3. reqSide = NoSide
      BY <1>1, <2>3, <3>2 DEF Settled, Sides, NoSide
    <3>4. \E s \in Sides : AttachingPad(s)'
      BY <2>3, <3>1, <3>2, <3>3 DEF AttachingPad
    <3>5. PolicyInv'
      BY <1>4, <3>2 DEF InputInv, PolicyInv, OneHolder
    <3> QED
      BY <3>4, <3>5 DEF WorkInv
  <2> QED
    BY <1>4, <2>1, <2>2, <2>3 DEF OwnerStep
<1>6. proven' \in {heroPub, NoHero}
  BY <1>2
<1>7. TypeInv'
  <2>1. Mouse!TypeOK'
    BY DEF InputInv, TypeInv, Mouse!TypeOK
  <2>2. Pad!TypeOK'
    BY <1>4 DEF InputInv, TypeInv
  <2>3. /\ synthetic' \in BOOLEAN /\ bridge' \in BOOLEAN
        /\ physicalShift' \in BOOLEAN /\ nativeShift' \in BOOLEAN
    BY DEF InputInv, TypeInv
  <2>4. /\ device' \in Devices \cup {NoDevice} /\ routeEpoch' \in Epochs
        /\ reqSide' \in Sides \cup {NoSide, "canceling"}
        /\ reqHero' \in Heroes \cup {NoHero}
        /\ heroPub' \in Heroes \cup {NoHero}
        /\ proven' \in Heroes \cup {NoHero}
    BY <1>0, <1>6 DEF InputInv, TypeInv
  <2>5. /\ trigger' \in Triggers /\ pc' \in Handlers
        /\ todo' \in [Sides -> Edges] /\ submit' \in Submissions
    BY DEF InputInv, TypeInv, Triggers, Handlers, Submissions, Edges
  <2> QED
    BY <2>1, <2>2, <2>3, <2>4, <2>5 DEF TypeInv
<1>8. PolicyInv'
  BY <1>5
<1>9. PhaseInv'
  BY <1>1 DEF InputInv, PhaseInv, PolicyInv
<1>10. WorkInv'
  BY <1>5
<1>11. ShiftInv'
  BY <1>1 DEF InputInv, ShiftInv, TypeInv
<1>12. StockInv'
  BY <1>1 DEF InputInv, StockInv, TypeInv
<1> QED
  BY <1>7, <1>8, <1>9, <1>10, <1>11, <1>12 DEF InputInv

(* The other thread: the hero and the submissions.                         *)
LEMMA InputUntouched ==
    ASSUME InputInv, UNCHANGED inputVars,
           heroPub' \in Heroes \cup {NoHero}, submit' \in Submissions,
           reqSide # NoSide => submit' # "stock"
    PROVE  InputInv'
<1> USE DEF inputVars, mouseVars, padVars, routeVars, keyVars, requestVars
<1>1. TypeInv'
  <2>1. Mouse!TypeOK'
    BY DEF InputInv, TypeInv, Mouse!TypeOK
  <2>2. Pad!TypeOK'
    BY DEF InputInv, TypeInv, Pad!TypeOK
  <2>3. /\ synthetic' \in BOOLEAN /\ bridge' \in BOOLEAN
        /\ physicalShift' \in BOOLEAN /\ nativeShift' \in BOOLEAN
    BY DEF InputInv, TypeInv
  <2>4. /\ device' \in Devices \cup {NoDevice} /\ routeEpoch' \in Epochs
        /\ reqSide' \in Sides \cup {NoSide, "canceling"}
        /\ reqHero' \in Heroes \cup {NoHero}
        /\ heroPub' \in Heroes \cup {NoHero}
        /\ proven' \in Heroes \cup {NoHero}
    BY DEF InputInv, TypeInv
  <2>5. /\ trigger' \in Triggers /\ pc' \in Handlers
        /\ todo' \in [Sides -> Edges] /\ submit' \in Submissions
    BY DEF InputInv, TypeInv, Triggers, Handlers, Submissions, Edges
  <2> QED
    BY <2>1, <2>2, <2>3, <2>4, <2>5 DEF TypeInv
<1>2. PolicyInv'
  BY DEF InputInv, PolicyInv, OneHolder
<1>3. PhaseInv'
  BY DEF InputInv, PhaseInv
<1>4. WorkInv'
  <2>1. ASSUME Settled PROVE Settled'
    BY <2>1 DEF Settled
  <2>2. ASSUME NEW s \in Sides, Attaching(s) PROVE Attaching(s)'
    BY <2>2 DEF Attaching
  <2>3. ASSUME NEW s \in Sides, AttachingPad(s) PROVE AttachingPad(s)'
    BY <2>3 DEF AttachingPad
  <2>4. ASSUME Releasing PROVE Releasing'
    BY <2>4 DEF Releasing, Unheld
  <2> QED
    BY <2>1, <2>2, <2>3, <2>4 DEF InputInv, WorkInv
<1>5. ShiftInv'
  BY DEF InputInv, ShiftInv
<1>6. StockInv'
  BY DEF StockInv
<1> QED
  BY <1>1, <1>2, <1>3, <1>4, <1>5, <1>6 DEF InputInv

LEMMA TraverseKeeps ==
    ASSUME InputInv, Traverse
    PROVE  InputInv'
<1> USE DEF Submissions
<1>0. /\ heroPub \in Heroes \cup {NoHero} /\ submit \in Submissions
      /\ reqSide # NoSide => submit # "stock"
  BY DEF InputInv, TypeInv, StockInv
<1>1. CASE \E h \in Heroes : HeroPublished(h)
  BY <1>0, <1>1, InputUntouched DEF HeroPublished
<1>2. CASE HeroExpired
  BY <1>0, <1>2, InputUntouched DEF HeroExpired
<1>3. CASE SubmitStock
  BY <1>0, <1>3, InputUntouched DEF SubmitStock
<1>4. CASE SubmitSide
  BY <1>0, <1>4, InputUntouched DEF SubmitSide, Sides
<1>5. CASE SubmitRefused
  BY <1>0, <1>5, InputUntouched DEF SubmitRefused
<1>6. CASE SubmitEnd
  BY <1>0, <1>6, InputUntouched DEF SubmitEnd, NoSide
<1> QED
  BY <1>1, <1>2, <1>3, <1>4, <1>5, <1>6 DEF Traverse
-----------------------------------------------------------------------------
LEMMA InitInv == Init => InputInv
<1> SUFFICES ASSUME Init PROVE InputInv
  OBVIOUS
<1> USE DEF Init, Mouse!Init, Pad!Init, Mouse!NoDecision
<1>1. TypeInv
  <2>1. Mouse!TypeOK
    BY DEF Mouse!TypeOK, Mouse!Decisions, Mouse!Sides
  <2>2. Pad!TypeOK
    BY EpochFacts DEF Pad!TypeOK, Pad!Decisions, Pad!Sides, Pad!NoSide
  <2> QED
    BY <2>1, <2>2, EpochFacts DEF TypeInv, Triggers, Handlers, Submissions,
       Nothing, Edges
<1>2. PolicyInv
  BY DEF PolicyInv, OneHolder, Pad!NoSide, NoSide
<1>3. PhaseInv
  BY DEF PhaseInv
<1>4. WorkInv
  BY DEF WorkInv, Settled, Sides, NoSide, Pad!NoSide
<1>5. ShiftInv /\ StockInv
  BY DEF ShiftInv, StockInv
<1> QED
  BY <1>1, <1>2, <1>3, <1>4, <1>5 DEF InputInv

LEMMA NextInv == InputInv /\ [Next]_vars => InputInv'
<1> SUFFICES ASSUME InputInv, [Next]_vars PROVE InputInv'
  OBVIOUS
<1>1. CASE ApplyEffect
  BY <1>1, PublishKeeps, PressKeeps, MarkKeeps, LiftKeeps, ForceUpKeeps,
     ClearKeeps DEF ApplyEffect
<1>2. CASE Handle
  BY <1>2, ProcessButtonKeeps, EndPacketKeeps, FocusMouseKeeps,
     FocusResetKeeps, FocusEndKeeps, PollWriteKeeps, PollWriteFailsKeeps,
     PollEndKeeps DEF Handle
<1>3. CASE Arrive
  BY <1>3, MousePacketKeeps, ShiftKeyKeeps, FocusLostKeeps,
     PollConnectedKeeps, PollDisconnectedKeeps DEF Arrive
<1>4. CASE Traverse
  BY <1>4, TraverseKeeps
<1>5. CASE UNCHANGED vars
  <2>1. UNCHANGED inputVars /\ heroPub' = heroPub /\ submit' = submit
    BY <1>5 DEF vars, inputVars
  <2> QED
    BY <2>1, InputUntouched DEF InputInv, TypeInv, StockInv
<1> QED
  BY <1>1, <1>2, <1>3, <1>4, <1>5 DEF Next
-----------------------------------------------------------------------------
(* What the adapter is due never lags behind the policies by more than the *)
(* effects of the running handler.                                         *)
THEOREM Invariance == Spec => []InputInv
<1>1. Init => InputInv
  BY InitInv
<1>2. InputInv /\ [Next]_vars => InputInv'
  BY NextInv
<1> QED
  BY <1>1, <1>2, PTL DEF Spec

LEMMA Quiet ==
    ASSUME InputInv, work = <<>>
    PROVE  Settled
BY NoWord DEF InputInv, WorkInv, Attaching, AttachingPad, Releasing

LEMMA DueEffects ==
    ASSUME WorkInv
    PROVE  \A i \in DOMAIN work : work[i] \in Effects
<1> USE DEF Effects
<1>1. CASE work \in {<<>>, <<"publish", "press">>, <<"publish">>, <<"press">>}
  BY <1>1
<1>2. CASE work \in {<<"mark", "clear">>, <<"lift", "clear">>,
                    <<"force", "clear">>, <<"clear">>}
  BY <1>2
<1>3. CASE work \in {<<"mark", "lift", "clear">>, <<"mark", "force", "clear">>}
  BY <1>3
<1> QED
  BY <1>1, <1>2, <1>3 DEF WorkInv, Attaching, AttachingPad, Releasing

(* Every variable of the adapter and of both policies keeps its type.      *)
THEOREM TypeCorrect == Spec => []RuntimeTypeOK
<1>1. InputInv => RuntimeTypeOK
  <2> SUFFICES ASSUME InputInv PROVE RuntimeTypeOK
    OBVIOUS
  <2>1. {synthetic, bridge, physicalShift, nativeShift} \subseteq BOOLEAN
    BY DEF InputInv, TypeInv
  <2>2. {reqHero, heroPub, proven} \subseteq Heroes \cup {NoHero}
    BY DEF InputInv, TypeInv
  <2>3. \A i \in DOMAIN work : work[i] \in Effects
    BY DueEffects DEF InputInv
  <2> QED
    BY <2>1, <2>2, <2>3 DEF InputInv, TypeInv, RuntimeTypeOK
<1> QED
  BY <1>1, Invariance, PTL

(* Mouse and controller never hold the rope together.                      *)
THEOREM OneHolds == Spec => []OneHolder
<1>1. InputInv => OneHolder
  BY DEF InputInv, PolicyInv
<1> QED
  BY <1>1, Invariance, PTL

(* Between two effects the published request is the hold.                  *)
THEOREM RequestsAreHolds == Spec => []RequestIsHold
<1>1. InputInv => RequestIsHold
  <2> SUFFICES ASSUME InputInv, work = <<>>
               PROVE  /\ reqSide # "canceling"
                      /\ \A s \in Sides :
                            reqSide = s <=> s \in mOwns \/ pOwner = s
                      /\ reqSide # NoSide <=> reqHero # NoHero
    BY DEF RequestIsHold
  <2> QED
    BY Quiet DEF Settled, Sides, NoSide
<1> QED
  BY <1>1, Invariance, PTL

(* No Shift the mod pressed is stuck in the game.                          *)
THEOREM ShiftsEnd == Spec => []NoStuckShift
<1>1. InputInv => NoStuckShift
  <2> SUFFICES ASSUME InputInv PROVE NoStuckShift
    OBVIOUS
  <2>1. work = <<>> => (synthetic <=> mOwns # {})
    BY Quiet DEF Settled
  <2> QED
    BY <2>1 DEF InputInv, ShiftInv, NoStuckShift
<1> QED
  BY <1>1, Invariance, PTL

(* No stock swing runs on the mod's own input.                             *)
THEOREM SwingsCovered == Spec => []SwingCovered
<1>1. InputInv => SwingCovered
  <2> SUFFICES ASSUME InputInv, synthetic \/ (trigger = "driven" /\ pHeld)
               PROVE  reqSide # NoSide
    BY DEF SwingCovered, InputInv, StockInv
  <2>1. CASE Settled
    <3>1. \E s \in Sides : s \in mOwns \/ pOwner = s
      BY <2>1 DEF Settled, InputInv, PolicyInv, TypeInv, Pad!TypeOK, Pad!Sides,
         Pad!NoSide, Sides, NoSide
    <3> QED
      BY <2>1, <3>1 DEF Settled, Sides, NoSide
  <2>2. ASSUME NEW s \in Sides, Attaching(s) \/ AttachingPad(s)
        PROVE  FALSE
    BY <2>2 DEF Attaching, AttachingPad, InputInv, PolicyInv, OneHolder
  <2>3. CASE Releasing
    BY <2>3 DEF Releasing, Unheld
  <2> QED
    BY <2>1, <2>2, <2>3 DEF InputInv, WorkInv
<1> QED
  BY <1>1, Invariance, PTL
-----------------------------------------------------------------------------
KeyEdges ==
    /\ ~bridge /\ bridge' => ~nativeShift /\ nativeShift'
    /\ bridge /\ ~bridge' => nativeShift /\ ~nativeShift'

LEMMA EdgeSteps ==
    ASSUME InputInv, [Next]_vars
    PROVE  [KeyEdges]_vars
<1> SUFFICES ASSUME Next PROVE KeyEdges
  OBVIOUS
<1> USE DEF KeyEdges
<1>1. CASE Press
  <2>1. work # <<>> /\ Situations /\ Head(work) = "press"
    BY <1>1, EffectsDue DEF InputInv, Press, Effect
  <2> QED
    BY <1>1, <2>1 DEF Situations, Attaching, Press
<1>2. CASE Lift
  BY <1>2 DEF Lift, InputInv, ShiftInv
<1>3. CASE ForceUp
  BY <1>3 DEF ForceUp, InputInv, ShiftInv
<1>4. CASE \E b \in BOOLEAN : ShiftKey(b)
  BY <1>4 DEF ShiftKey, InputInv, ShiftInv
<1>5. CASE Publish \/ Mark \/ Clear
  BY <1>5 DEF Publish, Mark, Clear, keyVars
<1>6. CASE Handle
  <2>1. bridge' = bridge
    BY <1>6 DEF Handle, ProcessButton, EndPacket, FocusMouse, FocusReset,
       FocusEnd, PollWrite, PollWriteFails, PollEnd, keyVars
  <2> QED
    BY <2>1
<1>7. CASE Traverse
  BY <1>7 DEF Traverse, HeroPublished, HeroExpired, SubmitStock, SubmitSide,
     SubmitRefused, SubmitEnd, inputVars, keyVars
<1>8. CASE \E f \in [Sides -> Edges] : MousePacket(f)
  BY <1>8 DEF MousePacket, keyVars
<1>9. CASE FocusLost \/ PollDisconnected \/ \E d \in Devices : PollConnected(d)
  BY <1>9 DEF FocusLost, PollDisconnected, PollConnected, keyVars
<1> QED
  BY <1>1, <1>2, <1>3, <1>4, <1>5, <1>6, <1>7, <1>8, <1>9
     DEF Next, ApplyEffect, Arrive

(* The mod presses a Shift the game has up and lifts one the game has down. *)
THEOREM EdgesReal == Spec => EdgesAreReal
<1>1. InputInv /\ [Next]_vars => [KeyEdges]_vars
  BY EdgeSteps
<1>2. Spec => [][KeyEdges]_vars
  BY <1>1, Invariance, PTL DEF Spec
<1> QED
  BY <1>2, PTL DEF EdgesAreReal, KeyEdges
-----------------------------------------------------------------------------
LEMMA HoldSteps ==
    ASSUME InputInv, [Next]_vars
    PROVE  [Hold!Next]_(Hold!vars)
<1> DEFINE holder == IF reqSide \in Sides THEN reqSide ELSE NoSide
           native == IF submit = "refused" THEN NoSide ELSE submit
<1> USE DEF LockFree
<1>0. ASSUME UNCHANGED <<reqSide, submit>>
      PROVE  [Hold!Next]_(Hold!vars)
  BY <1>0 DEF Hold!vars
<1>1. CASE Publish
  <2>1. work # <<>> /\ Situations /\ Head(work) = "publish"
    BY <1>1, EffectsDue DEF InputInv, Publish, Effect
  <2>2. PICK s \in Sides : \/ Attaching(s) /\ work = <<"publish", "press">>
                           \/ AttachingPad(s)
    BY <2>1 DEF Situations
  <2>3. reqSide = NoSide /\ reqSide' = s /\ submit = NoSide /\ submit' = NoSide
    BY <1>1, <2>2, Words DEF Attaching, AttachingPad, InputInv, PhaseInv,
       Publish, Effect, Sides, NoSide
  <2>4. Hold!Take(s)
    BY <2>3 DEF Hold!Take, Sides, NoSide
  <2> QED
    BY <2>4 DEF Hold!Next
<1>2. CASE Mark
  <2>1. CASE reqSide \in Sides
    <3>1. Hold!Drop
      BY <1>2, <2>1 DEF Mark, Effect, Hold!Drop, Sides, NoSide
    <3> QED
      BY <3>1 DEF Hold!Next
  <2>2. CASE reqSide \notin Sides
    BY <1>0, <1>2, <2>2 DEF Mark, Effect
  <2> QED
    BY <2>1, <2>2
<1>3. CASE Clear
  <2>1. CASE reqSide \in Sides
    <3>1. Hold!Drop
      BY <1>3, <2>1 DEF Clear, Effect, Hold!Drop, Sides, NoSide
    <3> QED
      BY <3>1 DEF Hold!Next
  <2>2. CASE reqSide \notin Sides
    BY <1>3, <2>2 DEF Clear, Effect, Hold!vars, Sides, NoSide
  <2> QED
    BY <2>1, <2>2
<1>4. CASE SubmitStock \/ SubmitSide
  <2>1. Hold!Submit
    BY <1>4 DEF SubmitStock, SubmitSide, inputVars, requestVars, Hold!Submit,
       Sides, NoSide
  <2> QED
    BY <2>1 DEF Hold!Next
<1>5. CASE SubmitRefused
  BY <1>5 DEF SubmitRefused, inputVars, requestVars, Hold!vars, NoSide
<1>6. CASE SubmitEnd
  <2>1. CASE submit = "refused"
    BY <1>6, <2>1 DEF SubmitEnd, inputVars, requestVars, Hold!vars, NoSide
  <2>2. CASE submit # "refused"
    <3>1. Hold!Finish
      BY <1>6, <2>2 DEF SubmitEnd, inputVars, requestVars, Hold!Finish, NoSide
    <3> QED
      BY <3>1 DEF Hold!Next
  <2> QED
    BY <2>1, <2>2
<1>7. CASE Press \/ Lift \/ ForceUp
  BY <1>0, <1>7 DEF Press, Lift, ForceUp, Effect, requestVars
<1>8. CASE Handle
  BY <1>0, <1>8 DEF Handle, ProcessButton, EndPacket, FocusMouse, FocusReset,
     FocusEnd, PollWrite, PollWriteFails, PollEnd, requestVars
<1>9. CASE Arrive
  BY <1>0, <1>9 DEF Arrive, MousePacket, ShiftKey, FocusLost, PollConnected,
     PollDisconnected, requestVars
<1>10. CASE HeroExpired \/ \E h \in Heroes : HeroPublished(h)
  BY <1>0, <1>10 DEF HeroExpired, HeroPublished, inputVars, requestVars
<1>11. CASE UNCHANGED vars
  BY <1>0, <1>11 DEF vars, requestVars
<1> QED
  BY <1>1, <1>2, <1>3, <1>4, <1>5, <1>6, <1>7, <1>8, <1>9, <1>10, <1>11
     DEF Next, ApplyEffect, Traverse

(* The adapter implements SideHold: one rope, held for one side, submitted *)
(* for that side only, and never stock under a hold.                       *)
THEOREM ImplementsHold == Spec => OneRope
<1>1. Init => Hold!Init
  BY DEF Init, Hold!Init, Sides, NoSide
<1>2. InputInv /\ [Next]_vars => [Hold!Next]_(Hold!vars)
  BY HoldSteps
<1> QED
  BY <1>1, <1>2, Invariance, PTL DEF Spec, OneRope, Hold!Spec
=============================================================================
