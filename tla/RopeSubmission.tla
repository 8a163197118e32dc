---------------------------- MODULE RopeSubmission ----------------------------
(***************************************************************************)
(* From the hero's mover to a rope: HookHunterUpdate publishes the mover   *)
(* its hunter's registry leads to (MoverBinding.cpp), a press proves it    *)
(* and asks for a side, and HookSwingPointSubmit proves it once more and   *)
(* chooses the anchor.  Meanwhile the game replaces movers, handles and    *)
(* registries, and time passes.                                            *)
(*                                                                         *)
(* Every manager has an index of its own in the handle table, and a hunter *)
(* one state host.  The game's own changes are made by the thread of the   *)
(* hunters, so none happens while a rope is being chosen; the records are  *)
(* read and written whole here (HeroPublication has their parts).          *)
(***************************************************************************)
EXTENDS AnchorChoice

CONSTANTS
    Hunters, NoHunter,
    Managers,
    Addresses, NoMover, \* where movers are allocated
    Registries,         \* by hunter, what the registry of its host may hold
    Banks,              \* the candidates a hunter may have collected
    MaxCandidates,      \* kHunterMaximumCandidates
    GenerationWidth,    \* 2^12
    MaximumAge,         \* kHeroPublicationMaximumAgeMs
    MaxSpawns           \* bound: movers each manager may have

ASSUME RopeAssumption ==
    /\ NoHunter \notin Hunters /\ NoMover \notin Addresses
    /\ \A h \in Hunters : Registries[h] \subseteq Seq(Managers)
    /\ MaxCandidates \in Nat /\ Banks \subseteq Seq(Candidate)
    /\ GenerationWidth \in Nat /\ GenerationWidth >= 2
    /\ MaximumAge \in Nat /\ MaxSpawns \in [Managers -> Nat]

VARIABLES
    airborne,       \* the airborne byte of the movers
    table,          \* handle table: generation and mover, by manager
    handle,         \* the generation in each manager's own handle
    registry,       \* the managers in the registry of a hunter's host
    hero,           \* g_hero
    proven,         \* provenHero of a press that is not published yet
    request,        \* g_sideRequest
    submitting,     \* the hunter whose submission holds the lock
    spawned,        \* history: movers a manager has had
    sinceUpdate     \* history: ticks since a hunter was last updated

gameVars == <<airborne, table, handle, registry, spawned>>
heroVars == <<hero, sinceUpdate>>
inputVars == <<proven, request>>
vars == <<choiceVars, gameVars, heroVars, inputVars, submitting>>

\* Ages count ticks up to the first that is too old.
Expired == MaximumAge + 1
Older(age) == IF age = Expired THEN age ELSE age + 1

NoBinding == [hunter |-> NoHunter]
NoRequest == [side |-> "none"]

Init ==
    /\ ChoiceInit /\ requestedSide = "left"
    /\ airborne = FALSE
    /\ table = [m \in Managers |-> [generation |-> 0, mover |-> NoMover]]
    /\ handle = [m \in Managers |-> 0]
    /\ registry \in [Hunters -> UNION {Registries[h] : h \in Hunters}]
    /\ \A h \in Hunters : registry[h] \in Registries[h]
    /\ hero = NoBinding /\ proven = NoRequest /\ request = NoRequest
    /\ submitting = NoHunter
    /\ spawned = [m \in Managers |-> 0]
    /\ sinceUpdate = [h \in Hunters |-> Expired]
-----------------------------------------------------------------------------
(* MoverBinding.cpp                                                        *)
\* ResolveManager: the handle leads to a mover of its own generation.
Resolves(m) ==
    /\ handle[m] # 0
    /\ table[m].generation = handle[m]
    /\ table[m].mover # NoMover

\* ResolveHeroMover: all entries of the registry that resolve are of one
\* manager; the last of them gives the index.
HeroMovers(h) ==
    LET live == {i \in DOMAIN registry[h] : Resolves(registry[h][i])}
    IN {[hunter |-> h, manager |-> registry[h][i], slot |-> i,
         mover |-> table[registry[h][i]].mover, handle |-> handle[registry[h][i]]] :
        i \in {i \in live : \A j \in live : /\ j <= i
                                            /\ registry[h][j] = registry[h][i]}}

\* The handle is not compared (mutant).
RevalidateByAddress(b) ==
    /\ Resolves(b.manager)
    /\ table[b.manager].mover = b.mover
    /\ b.slot \in DOMAIN registry[b.hunter]
    /\ registry[b.hunter][b.slot] = b.manager

\* RevalidateHeroMover
Revalidate(b) ==
    /\ Resolves(b.manager)
    /\ table[b.manager].mover = b.mover
    /\ handle[b.manager] = b.handle
    /\ b.slot \in DOMAIN registry[b.hunter]
    /\ registry[b.hunter][b.slot] = b.manager

Binding(s) ==
    [hunter |-> s.hunter, manager |-> s.manager, slot |-> s.slot,
     mover |-> s.mover, handle |-> s.handle]
Observed(b) ==
    [hunter |-> b.hunter, manager |-> b.manager, slot |-> b.slot,
     mover |-> b.mover, handle |-> b.handle, age |-> 0]

\* A publication that has become old counts (mutant).
IsFreshAlways(s) == s # NoBinding

IsFresh(s) == s # NoBinding /\ s.age <= MaximumAge
-----------------------------------------------------------------------------
(* The game.                                                               *)
Idle == submitting = NoHunter
NextGeneration(g) == (g % (GenerationWidth - 1)) + 1

Spawn(m) ==
    /\ spawned[m] < MaxSpawns[m]
    /\ \E a \in Addresses \ {table[n].mover : n \in Managers \ {m}} :
         table' = [table EXCEPT ![m] =
                     [generation |-> NextGeneration(@.generation), mover |-> a]]
    /\ spawned' = [spawned EXCEPT ![m] = @ + 1]
    /\ UNCHANGED <<airborne, handle, registry>>

Despawn(m) ==
    /\ table' = [table EXCEPT ![m].mover = NoMover]
    /\ UNCHANGED <<airborne, handle, registry, spawned>>

\* The manager takes the handle of the mover it has now.
Rebind(m) ==
    /\ handle' = [handle EXCEPT ![m] = table[m].generation]
    /\ UNCHANGED <<airborne, table, registry, spawned>>

Register(h, r) ==
    /\ registry' = [registry EXCEPT ![h] = r]
    /\ UNCHANGED <<airborne, table, handle, spawned>>

Leap ==
    /\ airborne' = ~airborne
    /\ UNCHANGED <<table, handle, registry, spawned>>

Game ==
    /\ Idle
    /\ \/ \E m \in Managers : Spawn(m) \/ Despawn(m) \/ Rebind(m)
       \/ \E h \in Hunters : \E r \in Registries[h] : Register(h, r)
       \/ Leap
    /\ UNCHANGED <<choiceVars, heroVars, inputVars, submitting>>

Tick ==
    /\ Idle
    /\ hero' = IF hero = NoBinding THEN hero ELSE [hero EXCEPT !.age = Older(@)]
    /\ sinceUpdate' = [h \in Hunters |-> Older(sinceUpdate[h])]
    /\ UNCHANGED <<choiceVars, gameVars, inputVars, submitting>>

\* ObserveHunter, after the native update: the binding in force is refreshed
\* as long as it can be revalidated, or else resolved anew.
Update(h) ==
    /\ Idle
    /\ sinceUpdate' = [sinceUpdate EXCEPT ![h] = 0]
    /\ hero' \in IF hero.hunter = h /\ Revalidate(hero) THEN {Observed(hero)}
                 ELSE IF HeroMovers(h) = {} THEN {hero}
                 ELSE {Observed(b) : b \in HeroMovers(h)}
    /\ UNCHANGED <<choiceVars, gameVars, inputVars, submitting>>
-----------------------------------------------------------------------------
(* The input thread.                                                       *)
\* EligibilityForDown and ControllerEligibilityForDown, as far as they prove
\* the hero.
Prove(side) ==
    /\ proven = NoRequest /\ request = NoRequest
    /\ IsFresh(hero) /\ Revalidate(hero) /\ airborne
    /\ proven' = [side |-> side, binding |-> Binding(hero),
                  mover |-> spawned[hero.manager]]      \* history
    /\ UNCHANGED <<choiceVars, gameVars, heroVars, request, submitting>>

PublishSideRequest ==
    /\ Idle
    /\ proven # NoRequest
    /\ request' = proven /\ proven' = NoRequest
    /\ UNCHANGED <<choiceVars, gameVars, heroVars, submitting>>

\* BeginSideRequestCancellation, and ClearSideRequest.
Cancel ==
    /\ Idle /\ request # NoRequest
    /\ request' \in {NoRequest, [request EXCEPT !.side = "canceling"]}
    /\ UNCHANGED <<choiceVars, gameVars, heroVars, proven, submitting>>
-----------------------------------------------------------------------------
(* HookSwingPointSubmit, while the request stands and is not cancelled.    *)
\* RequestMatchesCurrentAirborneHero: the request's binding is the one in
\* force, not only one that is valid.
MatchesCurrentAirborneHero ==
    /\ IsFresh(hero)
    /\ request.binding = Binding(hero)
    /\ Revalidate(hero)
    /\ airborne

\* Everything else leaves the rope unsubmitted or the request unasked.
BeginSubmit(h) ==
    /\ Idle
    /\ request # NoRequest /\ request.side # "canceling"
    /\ request.binding.hunter = h
    /\ MatchesCurrentAirborneHero
    /\ \E bank \in {b \in Banks : Len(b) <= MaxCandidates} :
         BeginChoice(bank, request.side)
    /\ submitting' = h
    /\ UNCHANGED <<gameVars, heroVars, inputVars>>

Choose ==
    /\ ~Idle
    /\ Examine
    /\ UNCHANGED <<gameVars, heroVars, inputVars, submitting>>

\* The native submission of the chosen record, or of none.
EndSubmit ==
    /\ ~Idle /\ examined = Len(candidates)
    /\ submitting' = NoHunter
    /\ candidates' = <<>> /\ examined' = 0 /\ best' = 0
    /\ UNCHANGED <<requestedSide, gameVars, heroVars, inputVars>>
-----------------------------------------------------------------------------
Input == PublishSideRequest \/ Cancel \/ \E side \in WebSides : Prove(side)
Traverse == Choose \/ EndSubmit \/ \E h \in Hunters : Update(h) \/ BeginSubmit(h)

Next == Game \/ Tick \/ Input \/ Traverse

Spec == Init /\ [][Next]_vars
-----------------------------------------------------------------------------
(* The rope of a request is of the mover that was proved at its press,     *)
(* however often the game has replaced movers and reused their addresses   *)
(* meanwhile, until a generation comes round again.                        *)
RopeOfProvedMover ==
    submitting # NoHunter =>
        LET m == request.binding.manager
        IN /\ table[m].mover = request.binding.mover
           /\ (spawned[m] - request.mover) % (GenerationWidth - 1) = 0

(* A hunter submits the rope of a request only shortly after an update of  *)
(* its own: a publication does not outlive the hunter that made it.        *)
RopeWithinLease ==
    submitting # NoHunter => sinceUpdate[submitting] <= MaximumAge
=============================================================================
