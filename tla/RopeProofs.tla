------------------------------ MODULE RopeProofs ------------------------------
(***************************************************************************)
(* Proofs about RopeSubmission: for every number of hunters, managers,     *)
(* addresses and generations a rope is of the mover that was proved, within *)
(* the lease of its hunter, and with the best anchor of its side.          *)
(***************************************************************************)
EXTENDS RopeSubmission, TLAPS
-----------------------------------------------------------------------------
(* The choice: for every bank of candidates and every margin the loop      *)
(* keeps the best of those it has examined.                                *)

ChoiceTypeOK ==
    /\ candidates \in Seq(Candidate)
    /\ requestedSide \in WebSides
    /\ examined \in 0 .. Len(candidates)
    /\ best \in 0 .. examined

\* The state is well typed, and the best so far is the best.
ChoiceInv == ChoiceTypeOK /\ ChoiceIsBest

(* The selector works on a row it has turned round, with each comparison   *)
(* turned round as well: what it finds eligible serves the player's side.  *)
LEMMA EligibleServes ==
    ASSUME NEW c \in Candidate, requestedSide \in WebSides
    PROVE  Eligible(c) <=> Serves(c, requestedSide)
BY MarginAssumption DEF Candidate, WebSides, Eligible, Serves,
   OnRequestedSide, CharacterRight

(* The order of scores, and of places for equal scores, is transitive.     *)
LEMMA PrecedesTransitive ==
    ASSUME NEW i \in 1 .. Len(candidates), NEW j \in 1 .. Len(candidates),
           NEW k \in 1 .. Len(candidates), candidates \in Seq(Candidate),
           Precedes(i, j), Precedes(j, k)
    PROVE  Precedes(i, k)
<1>1. candidates[i] \in Candidate /\ candidates[j] \in Candidate
      /\ candidates[k] \in Candidate
  OBVIOUS
<1>2. candidates[i].score \in Int /\ candidates[j].score \in Int
      /\ candidates[k].score \in Int
  BY <1>1 DEF Candidate
<1> QED BY <1>2 DEF Precedes

(* One turn of the loop keeps the invariant.                               *)
LEMMA ExamineKeeps == ASSUME ChoiceInv, Examine PROVE ChoiceInv'
<1> DEFINE next == examined + 1
           c == candidates[next]
<1>1. /\ next \in 1 .. Len(candidates) /\ c \in Candidate
      /\ examined' = next
      /\ candidates' = candidates /\ requestedSide' = requestedSide
      /\ candidates \in Seq(Candidate) /\ requestedSide \in WebSides
      /\ examined \in Nat /\ best \in 0 .. examined
      /\ Len(candidates) \in Nat
  BY DEF ChoiceInv, ChoiceTypeOK, Examine
<1>2. best' \in {best, next}
  BY DEF Examine
<1>3. ChoiceTypeOK'
  BY <1>1, <1>2 DEF ChoiceTypeOK
<1>4. Eligible(c) <=> Serves(c, requestedSide)
  BY <1>1, EligibleServes
<1> DEFINE Serving(n) == {i \in 1 .. n : Serves(candidates[i], requestedSide)}
<1>5. Serving(next) = IF Eligible(c) THEN Serving(examined) \cup {next}
                                     ELSE Serving(examined)
  BY <1>1, <1>4
<1>6. ChoiceIsBest <=> IF best = 0 THEN Serving(examined) = {}
                       ELSE /\ best \in Serving(examined)
                            /\ \A i \in Serving(examined) : Precedes(best, i)
  BY DEF ChoiceIsBest
<1>7. ChoiceIsBest' <=> IF best' = 0 THEN Serving(next) = {}
                        ELSE /\ best' \in Serving(next)
                             /\ \A i \in Serving(next) : Precedes(best', i)
  BY <1>1 DEF ChoiceIsBest, Precedes, Serves
<1>8. \A i \in 1 .. next : candidates[i].score \in Int
  <2>1. \A i \in 1 .. next : candidates[i] \in Candidate
    BY <1>1
  <2> QED BY <2>1 DEF Candidate
<1> HIDE DEF Serving, next, c
<1>9. CASE ~Eligible(c)
  <2>1. best' = best /\ Serving(next) = Serving(examined)
    BY <1>9, <1>5 DEF Examine, c, next
  <2> QED BY <2>1, <1>3, <1>6, <1>7 DEF ChoiceInv
<1>10. CASE Eligible(c) /\ best = 0
  <2>1. best' = next /\ Serving(next) = {next} /\ next # 0
    BY <1>10, <1>5, <1>6, <1>1 DEF Examine, c, next, ChoiceInv
  <2>2. Precedes(next, next)
    BY <1>1 DEF Precedes
  <2> QED BY <2>1, <2>2, <1>3, <1>7 DEF ChoiceInv
<1>11. CASE Eligible(c) /\ best # 0
  <2>1. /\ best \in Serving(examined)
        /\ \A i \in Serving(examined) : Precedes(best, i)
        /\ Serving(next) = Serving(examined) \cup {next}
        /\ best \in 1 .. next
    BY <1>11, <1>5, <1>6, <1>1 DEF ChoiceInv, next
  <2>2. CASE c.score > candidates[best].score
    <3>1. best' = next /\ next # 0
      BY <2>2, <1>11, <1>1 DEF Examine, c, next
    <3>2. Precedes(next, best) /\ Precedes(next, next)
      BY <2>2, <1>1 DEF Precedes, c
    <3>3. \A i \in Serving(examined) : Precedes(next, i)
      <4> TAKE i \in Serving(examined)
      <4>1. i \in 1 .. Len(candidates) /\ best \in 1 .. Len(candidates)
        BY <1>1, <2>1 DEF Serving, next
      <4> QED BY <4>1, <3>2, <2>1, <1>1, PrecedesTransitive
    <3> QED BY <3>1, <3>2, <3>3, <2>1, <1>3, <1>7 DEF ChoiceInv
  <2>3. CASE ~(c.score > candidates[best].score)
    <3>1. best' = best
      BY <2>3, <1>11 DEF Examine, c, next
    <3>2. Precedes(best, next)
      BY <2>3, <2>1, <1>8, <1>1 DEF Precedes, c
    <3> QED BY <3>1, <3>2, <2>1, <1>11, <1>3, <1>7 DEF ChoiceInv
  <2> QED BY <2>2, <2>3
<1> QED BY <1>9, <1>10, <1>11

(* Nothing has been examined when the loop begins.                         *)
LEMMA BeginKeeps ==
    ASSUME NEW bank \in Seq(Candidate), NEW side \in WebSides,
           BeginChoice(bank, side)
    PROVE  ChoiceInv'
<1>1. ChoiceTypeOK'
  BY DEF BeginChoice, ChoiceTypeOK
<1>2. ChoiceIsBest'
  BY DEF BeginChoice, ChoiceIsBest
<1> QED BY <1>1, <1>2 DEF ChoiceInv

(* For every margin, every bank of any length and either side, the anchor  *)
(* TrySelectNativeSideAnchor takes serves the side asked for and is the    *)
(* one the game itself would prefer among those that do.                   *)
THEOREM BestChosen == ChoiceSpec => []ChoiceIsBest
<1>1. ChoiceInit => ChoiceInv
  BY DEF ChoiceInit, ChoiceInv, ChoiceTypeOK, ChoiceIsBest, WebSides
<1>2. ChoiceInv /\ [ChoiceNext]_choiceVars => ChoiceInv'
  <2> SUFFICES ASSUME ChoiceInv, [ChoiceNext]_choiceVars PROVE ChoiceInv'
    OBVIOUS
  <2>1. ASSUME NEW bank \in Seq(Candidate), NEW side \in WebSides,
               BeginChoice(bank, side)
        PROVE  ChoiceInv'
    BY <2>1, BeginKeeps
  <2>2. CASE Examine
    BY <2>2, ExamineKeeps
  <2>3. CASE UNCHANGED choiceVars
    BY <2>3 DEF choiceVars, ChoiceInv, ChoiceTypeOK, ChoiceIsBest, Serves,
       Precedes
  <2> QED BY <2>1, <2>2, <2>3 DEF ChoiceNext
<1>3. ChoiceInv => ChoiceIsBest
  BY DEF ChoiceInv
<1> QED BY <1>1, <1>2, <1>3, PTL DEF ChoiceSpec
-----------------------------------------------------------------------------
(* The submission.                                                         *)

Snapshots ==
    [hunter : Hunters, manager : Managers, slot : Nat, mover : Addresses,
     handle : Nat, age : 0 .. Expired]
Bindings ==
    [hunter : Hunters, manager : Managers, slot : Nat, mover : Addresses,
     handle : Nat]
Presses ==
    [side : WebSides \cup {"canceling"}, binding : Bindings, mover : Nat]
Entries ==
    [generation : 0 .. GenerationWidth - 1, mover : Addresses \cup {NoMover}]

RopeTypeOK ==
    /\ table \in [Managers -> Entries]
    /\ handle \in [Managers -> Nat]
    /\ registry \in [Hunters -> Seq(Managers)]
    /\ spawned \in [Managers -> Nat]
    /\ hero \in Snapshots \cup {NoBinding}
    /\ proven \in Presses \cup {NoRequest}
    /\ request \in Presses \cup {NoRequest}
    /\ submitting \in Hunters \cup {NoHunter}
    /\ sinceUpdate \in [Hunters -> 0 .. Expired]

\* The n-th mover of a manager has generation g.
OfGeneration(n, g) == \E q \in Int : n = g + q * (GenerationWidth - 1)

EntriesCounted ==
    \A m \in Managers : OfGeneration(spawned[m], table[m].generation)

PressCounted(s) == s # NoRequest => OfGeneration(s.mover, s.binding.handle)

\* The publication is no younger than its hunter's last update.
Leased == hero # NoBinding => sinceUpdate[hero.hunter] <= hero.age

\* What is being submitted is what was proved.
Submitted ==
    submitting # NoHunter =>
        /\ request # NoRequest
        /\ table[request.binding.manager].generation = request.binding.handle
        /\ table[request.binding.manager].mover = request.binding.mover
        /\ sinceUpdate[submitting] <= MaximumAge

RopeInv ==
    /\ RopeTypeOK
    /\ EntriesCounted /\ PressCounted(proven) /\ PressCounted(request)
    /\ Leased /\ Submitted
-----------------------------------------------------------------------------
(* Generations.                                                            *)
LEMMA RingStep ==
    ASSUME NEW k \in Nat, k >= 1, NEW g \in 0 .. k
    PROVE  (g % k) + 1 = IF g = k THEN 1 ELSE g + 1
<1>1. CASE g < k
  BY <1>1
<1>2. CASE g = k
  BY <1>2
<1> QED BY <1>1, <1>2

LEMMA RingMultiple ==
    ASSUME NEW k \in Nat, k >= 1, NEW q \in Int PROVE (q * k) % k = 0
OBVIOUS

(* The next mover of a manager has the generation Spawn gives it.          *)
LEMMA NextCounted ==
    ASSUME NEW n \in Nat, NEW g \in 0 .. GenerationWidth - 1,
           OfGeneration(n, g)
    PROVE  /\ OfGeneration(n + 1, NextGeneration(g))
           /\ NextGeneration(g) \in 0 .. GenerationWidth - 1
<1> DEFINE k == GenerationWidth - 1
<1>1. k \in Nat /\ k >= 1
  BY RopeAssumption
<1>2. NextGeneration(g) = IF g = k THEN 1 ELSE g + 1
  BY <1>1, RingStep DEF NextGeneration
<1>3. PICK q \in Int : n = g + q * k
  BY DEF OfGeneration
<1> HIDE DEF k
<1>4. CASE g = k
  <2>1. n + 1 = 1 + (q + 1) * k
    BY <1>1, <1>3, <1>4
  <2> QED BY <2>1, <1>1, <1>2, <1>4 DEF OfGeneration, k
<1>5. CASE g # k
  <2>1. n + 1 = (g + 1) + q * k
    BY <1>1, <1>3
  <2> QED BY <2>1, <1>1, <1>2, <1>5 DEF OfGeneration, k
<1> QED BY <1>4, <1>5

(* Movers of one generation are whole turns of the generations apart.      *)
LEMMA SameGeneration ==
    ASSUME NEW a \in Nat, NEW b \in Nat, NEW g \in Int,
           OfGeneration(a, g), OfGeneration(b, g)
    PROVE  (a - b) % (GenerationWidth - 1) = 0
<1> DEFINE k == GenerationWidth - 1
<1>1. k \in Nat /\ k >= 1
  BY RopeAssumption
<1>2. PICK q \in Int : a = g + q * k
  BY DEF OfGeneration
<1>3. PICK r \in Int : b = g + r * k
  BY DEF OfGeneration
<1> HIDE DEF k
<1>4. a - b = (q - r) * k
  BY <1>1, <1>2, <1>3
<1>5. (a - b) % k = 0
  BY <1>1, <1>4, RingMultiple
<1> QED BY <1>5 DEF k
-----------------------------------------------------------------------------
(* The invariant holds at first.                                           *)
LEMMA RopeInitially == Init => RopeInv
<1> SUFFICES ASSUME Init PROVE RopeInv
  OBVIOUS
<1>1. GenerationWidth - 1 \in Nat /\ Expired \in Nat
  BY RopeAssumption DEF Expired
<1>2. registry \in [Hunters -> Seq(Managers)]
  BY RopeAssumption DEF Init
<1>3. RopeTypeOK
  BY <1>1, <1>2 DEF Init, RopeTypeOK, Entries
<1>4. OfGeneration(0, 0)
  <2>1. 0 = 0 + 0 * (GenerationWidth - 1)
    BY <1>1
  <2> QED BY <2>1 DEF OfGeneration
<1>5. EntriesCounted
  BY <1>4 DEF Init, EntriesCounted
<1>6. PressCounted(proven) /\ PressCounted(request) /\ Leased /\ Submitted
  BY DEF Init, PressCounted, Leased, Submitted
<1> QED BY <1>3, <1>5, <1>6 DEF RopeInv

(* What is not a press or a publication is told by its parts.              *)
LEMMA Distinct ==
    /\ \A s \in Snapshots : s # NoBinding
    /\ \A s \in Presses : s # NoRequest
<1>1. \A s \in Snapshots : s.hunter \in Hunters
  BY DEF Snapshots
<1>2. \A s \in Presses : s.side # "none"
  BY DEF Presses, WebSides
<1> QED BY <1>1, <1>2, RopeAssumption DEF NoBinding, NoRequest

(* The game changes movers, handles and registries between submissions.    *)
LEMMA GameKeeps == ASSUME RopeInv, Game PROVE RopeInv'
<1>1. /\ UNCHANGED <<hero, sinceUpdate, proven, request, submitting>>
      /\ submitting = NoHunter
  BY DEF Game, Idle, heroVars, inputVars
<1>2. /\ PressCounted(proven)' /\ PressCounted(request)'
      /\ Leased' /\ Submitted'
  BY <1>1 DEF RopeInv, PressCounted, Leased, Submitted
<1>3. /\ hero' \in Snapshots \cup {NoBinding}
      /\ proven' \in Presses \cup {NoRequest}
      /\ request' \in Presses \cup {NoRequest}
      /\ submitting' \in Hunters \cup {NoHunter}
      /\ sinceUpdate' \in [Hunters -> 0 .. Expired]
  BY <1>1 DEF RopeInv, RopeTypeOK
<1>4. ASSUME NEW m \in Managers, Spawn(m) PROVE RopeInv'
  <2>1. PICK a \in Addresses :
          table' = [table EXCEPT ![m] =
                      [generation |-> NextGeneration(@.generation), mover |-> a]]
    BY <1>4 DEF Spawn
  <2>2. spawned' = [spawned EXCEPT ![m] = @ + 1]
        /\ UNCHANGED <<handle, registry>>
    BY <1>4 DEF Spawn
  <2>3. table[m] \in Entries /\ spawned[m] \in Nat
        /\ OfGeneration(spawned[m], table[m].generation)
    BY DEF RopeInv, RopeTypeOK, EntriesCounted
  <2>4. table[m].generation \in 0 .. GenerationWidth - 1
    BY <2>3 DEF Entries
  <2>5. /\ OfGeneration(spawned[m] + 1, NextGeneration(table[m].generation))
        /\ NextGeneration(table[m].generation) \in 0 .. GenerationWidth - 1
    BY <2>3, <2>4, NextCounted
  <2>6. [generation |-> NextGeneration(table[m].generation), mover |-> a]
          \in Entries
    BY <2>5 DEF Entries
  <2>7. table' \in [Managers -> Entries]
    BY <2>1, <2>6 DEF RopeInv, RopeTypeOK
  <2>8. spawned' \in [Managers -> Nat]
    BY <2>2 DEF RopeInv, RopeTypeOK
  <2>9. RopeTypeOK'
    BY <2>2, <2>7, <2>8, <1>3 DEF RopeInv, RopeTypeOK
  <2>10. EntriesCounted'
    <3> SUFFICES ASSUME NEW n \in Managers
                 PROVE  OfGeneration(spawned'[n], table'[n].generation)
      BY DEF EntriesCounted, OfGeneration
    <3>1. CASE n = m
      <4>1. spawned'[n] = spawned[m] + 1
        BY <3>1, <2>2 DEF RopeInv, RopeTypeOK
      <4>2. table'[n].generation = NextGeneration(table[m].generation)
        BY <3>1, <2>1 DEF RopeInv, RopeTypeOK
      <4> QED BY <4>1, <4>2, <2>5
    <3>2. CASE n # m
      <4>1. spawned'[n] = spawned[n] /\ table'[n] = table[n]
        BY <3>2, <2>1, <2>2 DEF RopeInv, RopeTypeOK
      <4> QED BY <4>1 DEF RopeInv, EntriesCounted
    <3> QED BY <3>1, <3>2
  <2> QED BY <2>9, <2>10, <1>2 DEF RopeInv
<1>5. ASSUME NEW m \in Managers, Despawn(m) PROVE RopeInv'
  <2>1. /\ table' = [table EXCEPT ![m].mover = NoMover]
        /\ UNCHANGED <<handle, registry, spawned>>
    BY <1>5 DEF Despawn
  <2>2. table' \in [Managers -> Entries]
    BY <2>1 DEF RopeInv, RopeTypeOK, Entries
  <2>3. \A n \in Managers : table'[n].generation = table[n].generation
    BY <2>1 DEF RopeInv, RopeTypeOK, Entries
  <2>4. RopeTypeOK'
    BY <2>1, <2>2, <1>3 DEF RopeInv, RopeTypeOK
  <2>5. EntriesCounted'
    BY <2>1, <2>3 DEF RopeInv, EntriesCounted, OfGeneration
  <2> QED BY <2>4, <2>5, <1>2 DEF RopeInv
<1>6. ASSUME NEW m \in Managers, Rebind(m) PROVE RopeInv'
  <2>1. /\ handle' = [handle EXCEPT ![m] = table[m].generation]
        /\ UNCHANGED <<table, registry, spawned>>
    BY <1>6 DEF Rebind
  <2>2. table[m].generation \in Nat
    BY RopeAssumption DEF RopeInv, RopeTypeOK, Entries
  <2>3. handle' \in [Managers -> Nat]
    BY <2>1, <2>2 DEF RopeInv, RopeTypeOK
  <2>4. RopeTypeOK'
    BY <2>1, <2>3, <1>3 DEF RopeInv, RopeTypeOK
  <2>5. EntriesCounted'
    BY <2>1 DEF RopeInv, EntriesCounted, OfGeneration
  <2> QED BY <2>4, <2>5, <1>2 DEF RopeInv
<1>7. ASSUME NEW h \in Hunters, NEW r \in Registries[h], Register(h, r)
      PROVE  RopeInv'
  <2>1. /\ registry' = [registry EXCEPT ![h] = r]
        /\ UNCHANGED <<table, handle, spawned>>
    BY <1>7 DEF Register
  <2>2. r \in Seq(Managers)
    BY RopeAssumption
  <2>3. registry' \in [Hunters -> Seq(Managers)]
    BY <2>1, <2>2 DEF RopeInv, RopeTypeOK
  <2>4. RopeTypeOK'
    BY <2>1, <2>3, <1>3 DEF RopeInv, RopeTypeOK
  <2>5. EntriesCounted'
    BY <2>1 DEF RopeInv, EntriesCounted, OfGeneration
  <2> QED BY <2>4, <2>5, <1>2 DEF RopeInv
<1>8. CASE Leap
  <2>1. UNCHANGED <<table, handle, registry, spawned>>
    BY <1>8 DEF Leap
  <2>2. RopeTypeOK'
    BY <2>1, <1>3 DEF RopeInv, RopeTypeOK
  <2>3. EntriesCounted'
    BY <2>1 DEF RopeInv, EntriesCounted, OfGeneration
  <2> QED BY <2>2, <2>3, <1>2 DEF RopeInv
<1> QED BY <1>4, <1>5, <1>6, <1>7, <1>8 DEF Game

(* A step that leaves the game's tables alone keeps what is said of them.  *)
LEMMA TablesKept ==
    ASSUME RopeInv, UNCHANGED gameVars
    PROVE  /\ table' \in [Managers -> Entries] /\ handle' \in [Managers -> Nat]
           /\ registry' \in [Hunters -> Seq(Managers)]
           /\ spawned' \in [Managers -> Nat]
           /\ EntriesCounted'
BY DEF gameVars, RopeInv, RopeTypeOK, EntriesCounted, OfGeneration

(* Time: a publication ages no less than the time since the update.        *)
LEMMA TickKeeps == ASSUME RopeInv, Tick PROVE RopeInv'
<1>1. /\ UNCHANGED gameVars /\ UNCHANGED <<proven, request, submitting>>
      /\ submitting = NoHunter
  BY DEF Tick, Idle, inputVars
<1>2. Expired \in Nat /\ Expired = MaximumAge + 1
  BY RopeAssumption DEF Expired
<1>3. \A age \in 0 .. Expired : Older(age) \in 0 .. Expired
  BY <1>2 DEF Older
<1>4. \A a, b \in 0 .. Expired : a <= b => Older(a) <= Older(b)
  BY <1>2 DEF Older
<1>5. sinceUpdate' = [h \in Hunters |-> Older(sinceUpdate[h])]
  BY DEF Tick
<1>6. sinceUpdate' \in [Hunters -> 0 .. Expired]
  BY <1>3, <1>5 DEF RopeInv, RopeTypeOK
<1>7. hero' \in Snapshots \cup {NoBinding} /\ Leased'
  <2>1. CASE hero = NoBinding
    BY <2>1 DEF Tick, Leased
  <2>2. CASE hero # NoBinding
    <3>1. hero \in Snapshots /\ hero.hunter \in Hunters
          /\ hero.age \in 0 .. Expired
      BY <2>2 DEF RopeInv, RopeTypeOK, Snapshots
    <3>2. hero' = [hero EXCEPT !.age = Older(hero.age)]
      BY <2>2 DEF Tick
    <3>3. hero' \in Snapshots /\ hero'.hunter = hero.hunter
          /\ hero'.age = Older(hero.age)
      BY <3>1, <3>2, <1>3 DEF Snapshots
    <3>4. sinceUpdate[hero.hunter] \in 0 .. Expired
          /\ sinceUpdate[hero.hunter] <= hero.age
      BY <3>1, <2>2 DEF RopeInv, RopeTypeOK, Leased
    <3>5. sinceUpdate'[hero'.hunter] <= hero'.age
      BY <3>1, <3>3, <3>4, <1>4, <1>5
    <3> QED BY <3>3, <3>5 DEF Leased
  <2> QED BY <2>1, <2>2
<1>8. RopeTypeOK'
  BY <1>1, <1>6, <1>7, TablesKept DEF RopeInv, RopeTypeOK
<1>9. PressCounted(proven)' /\ PressCounted(request)' /\ Submitted'
  BY <1>1 DEF RopeInv, PressCounted, Submitted
<1> QED BY <1>1, <1>7, <1>8, <1>9, TablesKept DEF RopeInv

(* An update publishes a binding of its own hunter, just observed.         *)
LEMMA UpdateKeeps ==
    ASSUME RopeInv, NEW h \in Hunters, Update(h) PROVE RopeInv'
<1>1. /\ UNCHANGED gameVars /\ UNCHANGED <<proven, request, submitting>>
      /\ submitting = NoHunter
  BY DEF Update, Idle, inputVars
<1>2. Expired \in Nat
  BY RopeAssumption DEF Expired
<1>3. sinceUpdate' = [sinceUpdate EXCEPT ![h] = 0]
  BY DEF Update
<1>4. sinceUpdate' \in [Hunters -> 0 .. Expired] /\ sinceUpdate'[h] = 0
      /\ \A g \in Hunters : g # h => sinceUpdate'[g] = sinceUpdate[g]
  BY <1>2, <1>3 DEF RopeInv, RopeTypeOK
<1>5. ASSUME NEW b, b.hunter = h, b.manager \in Managers, b.slot \in Nat,
             b.mover \in Addresses, b.handle \in Nat
      PROVE  Observed(b) \in Snapshots /\ Observed(b).hunter = h
             /\ Observed(b).age = 0
  BY <1>2, <1>5 DEF Observed, Snapshots
<1>6. CASE hero.hunter = h /\ Revalidate(hero)
  <2>1. hero \in Snapshots
    BY <1>6, RopeAssumption DEF RopeInv, RopeTypeOK, NoBinding
  <2>2. /\ hero.hunter = h /\ hero.manager \in Managers /\ hero.slot \in Nat
        /\ hero.mover \in Addresses /\ hero.handle \in Nat
    BY <2>1, <1>6 DEF Snapshots
  <2>3. hero' = Observed(hero)
    BY <1>6 DEF Update
  <2>4. hero' \in Snapshots /\ hero'.hunter = h /\ hero'.age = 0
    BY <2>2, <2>3, <1>5
  <2>5. RopeTypeOK'
    BY <2>4, <1>1, <1>4, TablesKept DEF RopeInv, RopeTypeOK
  <2>6. Leased'
    BY <2>4, <1>4 DEF Leased
  <2> QED BY <2>5, <2>6, <1>1, TablesKept
          DEF RopeInv, PressCounted, Submitted
<1>7. CASE ~(hero.hunter = h /\ Revalidate(hero)) /\ HeroMovers(h) = {}
  <2>1. hero' = hero
    BY <1>7 DEF Update
  <2>2. RopeTypeOK'
    BY <2>1, <1>1, <1>4, TablesKept DEF RopeInv, RopeTypeOK
  <2>3. Leased'
    <3>1. CASE hero = NoBinding
      BY <3>1, <2>1 DEF Leased
    <3>2. CASE hero # NoBinding
      <4>1. hero.hunter \in Hunters /\ hero.age \in 0 .. Expired
        BY <3>2 DEF RopeInv, RopeTypeOK, Snapshots
      <4> QED BY <4>1, <3>2, <2>1, <1>2, <1>4 DEF RopeInv, Leased
    <3> QED BY <3>1, <3>2
  <2> QED BY <2>2, <2>3, <1>1, TablesKept DEF RopeInv, PressCounted, Submitted
<1>8. CASE ~(hero.hunter = h /\ Revalidate(hero)) /\ HeroMovers(h) # {}
  <2>1. PICK b \in HeroMovers(h) : hero' = Observed(b)
    BY <1>8 DEF Update
  <2>2. PICK i \in DOMAIN registry[h] :
          /\ Resolves(registry[h][i])
          /\ b = [hunter |-> h, manager |-> registry[h][i], slot |-> i,
                  mover |-> table[registry[h][i]].mover,
                  handle |-> handle[registry[h][i]]]
    BY DEF HeroMovers
  <2>3. registry[h][i] \in Managers /\ i \in Nat
    BY DEF RopeInv, RopeTypeOK
  <2>4. table[registry[h][i]].mover \in Addresses
        /\ handle[registry[h][i]] \in Nat
    BY <2>2, <2>3 DEF RopeInv, RopeTypeOK, Entries, Resolves
  <2>5. hero' \in Snapshots /\ hero'.hunter = h /\ hero'.age = 0
    BY <2>1, <2>2, <2>3, <2>4, <1>5
  <2>6. RopeTypeOK'
    BY <2>5, <1>1, <1>4, TablesKept DEF RopeInv, RopeTypeOK
  <2>7. Leased'
    BY <2>5, <1>4 DEF Leased
  <2> QED BY <2>6, <2>7, <1>1, TablesKept DEF RopeInv, PressCounted, Submitted
<1> QED BY <1>6, <1>7, <1>8

(* A press remembers the generation of the mover it has proved.            *)
LEMMA ProveKeeps ==
    ASSUME RopeInv, NEW side \in WebSides, Prove(side) PROVE RopeInv'
<1>1. /\ UNCHANGED gameVars
      /\ UNCHANGED <<hero, sinceUpdate, request, submitting>>
      /\ request = NoRequest /\ hero # NoBinding /\ Revalidate(hero)
      /\ proven' = [side |-> side, binding |-> Binding(hero),
                    mover |-> spawned[hero.manager]]
  BY DEF Prove, heroVars, IsFresh
<1>2. hero \in Snapshots /\ hero.manager \in Managers
      /\ hero.handle = table[hero.manager].generation
  BY <1>1 DEF RopeInv, RopeTypeOK, Snapshots, Revalidate, Resolves
<1>3. Binding(hero) \in Bindings /\ Binding(hero).handle = hero.handle
  BY <1>2 DEF Snapshots, Bindings, Binding
<1>4. spawned[hero.manager] \in Nat
      /\ OfGeneration(spawned[hero.manager], hero.handle)
  BY <1>2 DEF RopeInv, RopeTypeOK, EntriesCounted
<1>5. proven' \in Presses /\ proven'.mover = spawned[hero.manager]
      /\ proven'.binding.handle = hero.handle
  BY <1>1, <1>3, <1>4 DEF Presses
<1>6. PressCounted(proven)'
  BY <1>4, <1>5 DEF PressCounted, OfGeneration
<1>7. RopeTypeOK'
  BY <1>1, <1>5, TablesKept DEF RopeInv, RopeTypeOK
<1>8. PressCounted(request)' /\ Leased'
  BY <1>1 DEF RopeInv, PressCounted, Leased
<1>9. Submitted'
  BY <1>1 DEF RopeInv, Submitted, gameVars
<1> QED BY <1>1, <1>6, <1>7, <1>8, <1>9, TablesKept DEF RopeInv

(* Publishing and cancelling happen between submissions.                   *)
LEMMA RequestKeeps ==
    ASSUME RopeInv, PublishSideRequest \/ Cancel PROVE RopeInv'
<1>1. /\ UNCHANGED gameVars /\ UNCHANGED <<hero, sinceUpdate, submitting>>
      /\ submitting = NoHunter
  BY DEF PublishSideRequest, Cancel, heroVars, Idle
<1>2. /\ proven' \in {proven, NoRequest}
      /\ \/ request' \in {proven, NoRequest}
         \/ request # NoRequest
            /\ request' = [request EXCEPT !.side = "canceling"]
  BY DEF PublishSideRequest, Cancel
<1>3. ASSUME request # NoRequest,
             request' = [request EXCEPT !.side = "canceling"]
      PROVE  request' \in Presses /\ request'.mover = request.mover
             /\ request'.binding = request.binding
  BY <1>3 DEF RopeInv, RopeTypeOK, Presses
<1>4. proven' \in Presses \cup {NoRequest}
      /\ request' \in Presses \cup {NoRequest}
  BY <1>2, <1>3 DEF RopeInv, RopeTypeOK
<1>5. PressCounted(proven)'
  BY <1>2 DEF RopeInv, PressCounted
<1>6. PressCounted(request)'
  BY <1>2, <1>3 DEF RopeInv, PressCounted
<1>7. RopeTypeOK'
  BY <1>1, <1>4, TablesKept DEF RopeInv, RopeTypeOK
<1>8. Leased' /\ Submitted'
  BY <1>1 DEF RopeInv, Leased, Submitted
<1> QED BY <1>1, <1>5, <1>6, <1>7, <1>8, TablesKept DEF RopeInv

(* A submission begins only on the proved mover, within the lease.         *)
LEMMA BeginSubmitKeeps ==
    ASSUME RopeInv, NEW h \in Hunters, BeginSubmit(h) PROVE RopeInv'
<1>1. /\ UNCHANGED gameVars /\ UNCHANGED <<hero, sinceUpdate, proven, request>>
      /\ request # NoRequest /\ request.binding.hunter = h
      /\ submitting' = h
      /\ IsFresh(hero) /\ request.binding = Binding(hero) /\ Revalidate(hero)
  BY DEF BeginSubmit, MatchesCurrentAirborneHero, heroVars, inputVars
<1>2. /\ hero \in Snapshots /\ hero # NoBinding /\ hero.age <= MaximumAge
      /\ hero.hunter = h /\ hero.age \in 0 .. Expired
  BY <1>1 DEF IsFresh, Binding, RopeInv, RopeTypeOK, Snapshots
<1>3. sinceUpdate[h] \in 0 .. Expired /\ sinceUpdate[h] <= hero.age
  BY <1>2 DEF RopeInv, RopeTypeOK, Leased
<1>4. sinceUpdate[h] <= MaximumAge
  BY <1>2, <1>3, RopeAssumption DEF Expired
<1>5. /\ request.binding.manager = hero.manager
      /\ request.binding.mover = hero.mover
      /\ request.binding.handle = hero.handle
  BY <1>1 DEF Binding
<1>6. /\ table[hero.manager].generation = hero.handle
      /\ table[hero.manager].mover = hero.mover
  BY <1>1 DEF Revalidate, Resolves
<1>7. Submitted'
  BY <1>1, <1>4, <1>5, <1>6 DEF Submitted, gameVars
<1>8. RopeTypeOK'
  BY <1>1, TablesKept DEF RopeInv, RopeTypeOK
<1> QED BY <1>1, <1>7, <1>8, TablesKept DEF RopeInv, PressCounted, Leased

(* The loop and the native submission change nothing of this.              *)
LEMMA SubmitKeeps == ASSUME RopeInv, Choose \/ EndSubmit PROVE RopeInv'
<1>1. /\ UNCHANGED gameVars /\ UNCHANGED <<hero, sinceUpdate, proven, request>>
      /\ submitting' \in {submitting, NoHunter}
  BY DEF Choose, EndSubmit, heroVars, inputVars
<1>2. RopeTypeOK'
  BY <1>1, TablesKept DEF RopeInv, RopeTypeOK
<1>3. Submitted'
  BY <1>1 DEF RopeInv, Submitted, gameVars
<1> QED BY <1>1, <1>2, <1>3, TablesKept DEF RopeInv, PressCounted, Leased

LEMMA RopeInductive == RopeInv /\ [Next]_vars => RopeInv'
<1> SUFFICES ASSUME RopeInv, [Next]_vars PROVE RopeInv'
  OBVIOUS
<1>1. CASE UNCHANGED vars
  <2>1. UNCHANGED gameVars
        /\ UNCHANGED <<hero, sinceUpdate, proven, request, submitting>>
    BY <1>1 DEF vars, heroVars, inputVars
  <2>2. RopeTypeOK'
    BY <2>1, TablesKept DEF RopeInv, RopeTypeOK
  <2>3. Submitted'
    BY <2>1 DEF RopeInv, Submitted, gameVars
  <2> QED BY <2>1, <2>2, <2>3, TablesKept DEF RopeInv, PressCounted, Leased
<1>2. CASE Game
  BY <1>2, GameKeeps
<1>3. CASE Tick
  BY <1>3, TickKeeps
<1>4. CASE Input
  BY <1>4, ProveKeeps, RequestKeeps DEF Input
<1>5. CASE Traverse
  BY <1>5, UpdateKeeps, BeginSubmitKeeps, SubmitKeeps DEF Traverse
<1> QED BY <1>1, <1>2, <1>3, <1>4, <1>5 DEF Next
-----------------------------------------------------------------------------
(* The state of tables, publications and requests stays within its types.  *)
THEOREM TypeCorrect == Spec => []RopeTypeOK
<1>1. RopeInv => RopeTypeOK
  BY DEF RopeInv
<1> QED BY <1>1, RopeInitially, RopeInductive, PTL DEF Spec

(* With any number of managers, addresses and generations, the rope of a   *)
(* request is of the mover that was proved at its press.                   *)
THEOREM RopesOfProvedMover == Spec => []RopeOfProvedMover
<1>1. RopeInv => RopeOfProvedMover
  <2> SUFFICES ASSUME RopeInv, submitting # NoHunter PROVE RopeOfProvedMover
    BY DEF RopeOfProvedMover
  <2>1. request \in Presses /\ request # NoRequest
    BY DEF RopeInv, RopeTypeOK, Submitted
  <2> DEFINE m == request.binding.manager
  <2>2. m \in Managers /\ request.mover \in Nat
        /\ request.binding.handle \in Nat
    BY <2>1 DEF Presses, Bindings
  <2>3. /\ OfGeneration(request.mover, request.binding.handle)
        /\ OfGeneration(spawned[m], request.binding.handle)
        /\ spawned[m] \in Nat
    BY <2>1, <2>2 DEF RopeInv, RopeTypeOK, EntriesCounted, PressCounted, Submitted
  <2>4. (spawned[m] - request.mover) % (GenerationWidth - 1) = 0
    BY <2>2, <2>3, SameGeneration
  <2> QED BY <2>4 DEF RopeInv, Submitted, RopeOfProvedMover
<1> QED BY <1>1, RopeInitially, RopeInductive, PTL DEF Spec

(* No rope outlives the lease of the hunter that submits it.               *)
THEOREM RopesWithinLease == Spec => []RopeWithinLease
<1>1. RopeInv => RopeWithinLease
  BY DEF RopeInv, Submitted, RopeWithinLease
<1> QED BY <1>1, RopeInitially, RopeInductive, PTL DEF Spec

(* The choice within the whole: whatever bank a hunter has collected, the  *)
(* anchor of its rope is the best of the side asked for.                   *)
THEOREM RopesOfBestAnchor == Spec => []ChoiceIsBest
<1>1. Init => ChoiceInv
  BY DEF Init, ChoiceInit, ChoiceInv, ChoiceTypeOK, ChoiceIsBest, WebSides
<1>2. RopeInv /\ ChoiceInv /\ [Next]_vars => ChoiceInv'
  <2> SUFFICES ASSUME RopeInv, ChoiceInv, [Next]_vars PROVE ChoiceInv'
    OBVIOUS
  <2>1. CASE UNCHANGED choiceVars
    BY <2>1 DEF choiceVars, ChoiceInv, ChoiceTypeOK, ChoiceIsBest, Serves,
       Precedes
  <2>2. CASE Choose
    BY <2>2, ExamineKeeps DEF Choose
  <2>3. ASSUME NEW h \in Hunters, BeginSubmit(h) PROVE ChoiceInv'
    <3>1. PICK bank \in Banks : BeginChoice(bank, request.side)
      BY <2>3 DEF BeginSubmit
    <3>2. bank \in Seq(Candidate)
      BY RopeAssumption
    <3>3. request.side \in WebSides
      BY <2>3 DEF BeginSubmit, RopeInv, RopeTypeOK, Presses
    <3> QED BY <3>1, <3>2, <3>3, BeginKeeps
  <2>4. CASE EndSubmit
    <3>1. ChoiceTypeOK'
      BY <2>4 DEF EndSubmit, ChoiceInv, ChoiceTypeOK
    <3>2. ChoiceIsBest'
      BY <2>4 DEF EndSubmit, ChoiceIsBest
    <3> QED BY <3>1, <3>2 DEF ChoiceInv
  <2>5. \/ UNCHANGED choiceVars \/ Choose \/ EndSubmit
        \/ \E h \in Hunters : BeginSubmit(h)
    BY DEF Next, vars, Game, Tick, Input, Traverse, Prove, PublishSideRequest,
       Cancel, Update
  <2> QED BY <2>1, <2>2, <2>3, <2>4, <2>5
<1>3. ChoiceInv => ChoiceIsBest
  BY DEF ChoiceInv
<1> QED BY <1>1, <1>2, <1>3, RopeInitially, RopeInductive, PTL DEF Spec
=============================================================================
