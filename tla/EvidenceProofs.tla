--------------------------- MODULE EvidenceProofs ---------------------------
(***************************************************************************)
(* Proofs about SubmitEvidence, for every number of machines, requests and *)
(* transitions, every capacity of the ring and every width of the sequence *)
(* number: evidence that can authorize an Enter is the held request's, and *)
(* the executor gives each transition to the request it came from.         *)
(***************************************************************************)
EXTENDS SubmitEvidence, SequenceTheorems, WellFoundedInduction, TLAPS

Postings == [token : Tokens, machine : Machines, at : 1 .. MaxQueued]
Pendings == [token : Tokens, copied : BOOLEAN]
EnterClaims ==
    [kind : Kinds, token : 0 .. MaxTokens, machine : Machines \cup {NoMachine},
     at : 0 .. MaxQueued]
Scopes == [claim : EnterClaims \cup {NoClaim}, valid : BOOLEAN]

RequestTypeOK ==
    /\ token \in 0 .. MaxTokens /\ side \in {"none", "held", "canceling"}
    /\ side # "none" => token \in Tokens
RingTypeOK ==
    /\ ring \in [Slots -> Evidence \cup {Free}] /\ next \in Slots
    /\ consumed \in 0 .. MaxTokens
    /\ posted \in Seq(Machines \X (1 .. MaxQueued))
SubmitTypeOK ==
    /\ pending \in Pendings \cup {NoPending}
    /\ posting \in Postings \cup {NoPosting}
GameTypeOK ==
    /\ queued \in [Machines -> Seq(0 .. MaxTokens)]
    /\ executed \in [Machines -> 0 .. MaxQueued]
    /\ \A m \in Machines : executed[m] <= Len(queued[m])
                              /\ Len(queued[m]) <= MaxQueued
EnterTypeOK ==
    /\ scope \in Scopes /\ claim \in EnterClaims \cup {NoClaim}
    /\ granted \subseteq Machines \X (1 .. MaxQueued)

\* Transition k of machine m was queued for request t.
Origin(t, m, k) == k \in 1 .. Len(queued[m]) /\ queued[m][k] = t

\* What stands in the ring is true, and was not consumed but by the
\* execution of a transition that looks like its own.
RingInv ==
    \A s \in Slots : Occupied(s) =>
        /\ Origin(ring[s].token, ring[s].machine, ring[s].at)
        /\ ring[s].bytes = Bytes(ring[s].at)
        /\ ring[s].consumed =>
             \E j \in 1 .. executed[ring[s].machine] : Bytes(j) = ring[s].bytes
PostingInv ==
    posting # NoPosting => Origin(posting.token, posting.machine, posting.at)

\* The last publications are where they have been written.
Place(i) == LET p == next - Len(posted) - 1 + i
            IN IF p < 0 THEN p + Capacity ELSE p
PlaceInv ==
    /\ Len(posted) <= Capacity
    /\ \A i \in 1 .. Len(posted) :
         /\ Occupied(Place(i))
         /\ <<ring[Place(i)].machine, ring[Place(i)].at>> = posted[i]

\* Transitions whose Enter was granted are executed, and no open scope or
\* claim is of one of them.
Executed(c) == c.machine \in Machines /\ c.at \in 1 .. executed[c.machine]
GrantInv ==
    /\ \A m \in Machines : \A k \in 1 .. MaxQueued :
         <<m, k>> \in granted => k <= executed[m]
    /\ scope.valid => /\ Executed(scope.claim)
                      /\ <<scope.claim.machine, scope.claim.at>> \notin granted
    /\ claim.kind = "ActiveRequest" =>
         /\ Executed(claim) /\ ~scope.valid
         /\ <<claim.machine, claim.at>> \notin granted

EvidenceInv ==
    /\ RequestTypeOK /\ RingTypeOK /\ SubmitTypeOK /\ GameTypeOK /\ EnterTypeOK
    /\ EvidenceOfHeldOnly
    /\ RingInv /\ PostingInv /\ PlaceInv
    /\ GrantInv
-----------------------------------------------------------------------------
(* Numbers.                                                                *)

LEMMA LeastNumber ==
    ASSUME NEW S \in SUBSET Nat, S # {}
    PROVE  \E n \in S : \A k \in S : n <= k
<1>1. PICK n \in S : \A k \in S : <<k, n>> \notin OpToRel(<, Nat)
  BY NatLessThanWellFounded, WFMin
<1>2. \A k \in S : ~(k < n)
  BY <1>1 DEF OpToRel
<1> QED
  BY <1>2

LEMMA GreatestNumber ==
    ASSUME NEW n \in Nat, NEW S \in SUBSET (0 .. n), S # {}
    PROVE  \E g \in S : \A k \in S : k <= g
<1> DEFINE D == {n - k : k \in S}
<1>1. \A k \in S : k \in Nat /\ k <= n /\ n - k \in Nat
  OBVIOUS
<1>2. D \subseteq Nat
  BY <1>1
<1>3. D # {}
  OBVIOUS
<1>4. PICK d \in D : \A e \in D : d <= e
  <2> HIDE DEF D
  <2> QED
    BY <1>2, <1>3, LeastNumber
<1>5. PICK g \in S : d = n - g
  OBVIOUS
<1>6. \A k \in S : n - g <= n - k
  BY <1>4, <1>5
<1> QED
  BY <1>1, <1>6

LEMMA FollowingFacts ==
    ASSUME NEW s \in Slots
    PROVE  Following(s) = IF s + 1 = Capacity THEN 0 ELSE s + 1
BY EvidenceAssumption DEF Following, Slots

LEMMA TailOfAppend ==
    ASSUME NEW S, NEW q \in Seq(S), NEW e \in S
    PROVE  Tail(Append(q, e)) \in Seq(S)
<1>1. Append(q, e) \in Seq(S) /\ Append(q, e) # <<>>
  BY AppendProperties, Zenon
<1> QED
  BY <1>1, HeadTailProperties, Zenon

LEMMA PlaceIsSlot ==
    ASSUME next \in Slots, Len(posted) \in Nat, Len(posted) <= Capacity,
           NEW i \in 1 .. Len(posted)
    PROVE  Place(i) \in Slots
BY EvidenceAssumption DEF Place, Slots

LEMMA EvidenceIsNotFree == \A e \in Evidence : e # Free
BY DEF Evidence, Free, Tokens

LEMMA BytesFacts == \A k \in Nat : Bytes(k) \in 0 .. SequenceWidth - 1
BY EvidenceAssumption DEF Bytes
-----------------------------------------------------------------------------
(* The game's queues only grow.                                            *)
Grows ==
    \A m \in Machines :
        /\ executed[m] <= executed'[m]
        /\ \A k \in 1 .. Len(queued[m]) :
             k \in 1 .. Len(queued'[m]) /\ queued'[m][k] = queued[m][k]

LEMMA EnqueueFacts ==
    ASSUME GameTypeOK, NEW m \in Machines, NEW t \in 0 .. MaxTokens,
           Enqueue(m, t), UNCHANGED executed
    PROVE  /\ GameTypeOK' /\ Grows
           /\ Len(queued[m]) + 1 \in 1 .. MaxQueued
           /\ \A k : k = Len(queued[m]) + 1 => Origin(t, m, k)'
<1>1. /\ queued[m] \in Seq(0 .. MaxTokens) /\ Len(queued[m]) \in Nat
      /\ MaxQueued \in Nat
      /\ Append(queued[m], t) \in Seq(0 .. MaxTokens)
      /\ Len(Append(queued[m], t)) = Len(queued[m]) + 1
      /\ \A k \in 1 .. Len(queued[m]) : Append(queued[m], t)[k] = queued[m][k]
      /\ Append(queued[m], t)[Len(queued[m]) + 1] = t
  BY EvidenceAssumption, AppendProperties DEF GameTypeOK
<1>2. /\ queued' \in [Machines -> Seq(0 .. MaxTokens)]
      /\ queued'[m] = Append(queued[m], t)
      /\ \A n \in Machines \ {m} : queued'[n] = queued[n]
  BY <1>1 DEF GameTypeOK, Enqueue
<1>3. \A n \in Machines : Len(queued[n]) \in Nat /\ executed[n] \in Nat
  BY DEF GameTypeOK
<1>4. Len(queued[m]) + 1 \in 1 .. MaxQueued
  BY <1>1 DEF Enqueue
<1>5. Grows
  <2>1. \A k \in 1 .. Len(queued[m]) :
           k \in 1 .. Len(queued'[m]) /\ queued'[m][k] = queued[m][k]
    BY <1>1, <1>2
  <2>2. ASSUME NEW n \in Machines, n # m PROVE queued'[n] = queued[n]
    BY <1>2, <2>2
  <2>3. \A n \in Machines : executed[n] <= executed'[n]
    BY <1>3
  <2> QED
    BY <2>1, <2>2, <2>3 DEF Grows
<1>6. GameTypeOK'
  BY <1>1, <1>2, <1>3, <1>4 DEF GameTypeOK
<1>7. ASSUME NEW CONSTANT k, k = Len(queued[m]) + 1 PROVE Origin(t, m, k)'
  <2>1. Len(queued'[m]) = k /\ queued'[m][k] = t /\ k \in Nat /\ k >= 1
    BY <1>1, <1>2, <1>7
  <2> QED
    BY <2>1 DEF Origin
<1> QED
  BY <1>4, <1>5, <1>6, <1>7

(* The next transition of a machine is executed or dropped.                *)
LEMMA ExecuteFacts ==
    ASSUME GameTypeOK, NEW m \in Machines, executed[m] < Len(queued[m]),
           executed' = [executed EXCEPT ![m] = @ + 1], UNCHANGED queued
    PROVE  /\ GameTypeOK' /\ Grows /\ executed'[m] = executed[m] + 1
           /\ executed[m] + 1 \in 1 .. Len(queued[m])
           /\ executed[m] + 1 \in 1 .. MaxQueued
<1>1. \A n \in Machines : Len(queued[n]) \in Nat /\ executed[n] \in Nat
  BY DEF GameTypeOK
<1>2. MaxQueued \in Nat /\ Len(queued[m]) <= MaxQueued
  BY EvidenceAssumption DEF GameTypeOK
<1>3. /\ executed'[m] = executed[m] + 1
      /\ \A n \in Machines \ {m} : executed'[n] = executed[n]
  BY DEF GameTypeOK
<1>4. /\ executed[m] + 1 \in 1 .. Len(queued[m])
      /\ executed[m] + 1 \in 1 .. MaxQueued
  BY <1>1, <1>2
<1>5. Grows
  BY <1>1, <1>3 DEF Grows
<1>6. GameTypeOK'
  BY <1>1, <1>3, <1>4 DEF GameTypeOK
<1> QED
  BY <1>3, <1>4, <1>5, <1>6

LEMMA GameStill ==
    ASSUME GameTypeOK, UNCHANGED gameVars PROVE GameTypeOK' /\ Grows
BY DEF GameTypeOK, Grows, gameVars

LEMMA GameKept ==
    ASSUME EvidenceInv, [Next]_vars PROVE GameTypeOK' /\ Grows
<1>0. GameTypeOK /\ 0 \in 0 .. MaxTokens
  BY EvidenceAssumption DEF EvidenceInv
<1>1. ASSUME NEW m \in Machines, RequestOther(m) PROVE GameTypeOK' /\ Grows
  BY <1>0, <1>1, EnqueueFacts DEF RequestOther
<1>2. ASSUME NEW m \in Machines, RequestStaged(m) PROVE GameTypeOK' /\ Grows
  <2>1. pending.token \in 0 .. MaxTokens
    BY <1>2 DEF EvidenceInv, SubmitTypeOK, RequestStaged, NoPending, Pendings,
       Tokens
  <2> QED
    BY <1>0, <1>2, <2>1, EnqueueFacts, GameStill DEF RequestStaged, gameVars
<1>3. ASSUME NEW m \in Machines, Execute(m) \/ Drop(m)
      PROVE  GameTypeOK' /\ Grows
  BY <1>0, <1>3, ExecuteFacts DEF Execute, Drop
<1>4. CASE UNCHANGED gameVars
  BY <1>0, <1>4, GameStill
<1> QED
  BY <1>1, <1>2, <1>3, <1>4 DEF Next, Input, Traverse, Enter, Press,
     BeginCancellation, Clear, Submit, CopyPayload, Post, ClaimScoped,
     ClaimUnscoped, Complete, EndExecute, vars
-----------------------------------------------------------------------------
(* The request, and what is on its way into the queue.                     *)
LEMMA RequestKept == ASSUME EvidenceInv, [Next]_vars PROVE RequestTypeOK'
<1> USE DEF EvidenceInv, RequestTypeOK, requestVars
<1>1. MaxTokens \in Nat
  BY EvidenceAssumption
<1>2. \A r : MarkCanceling(r) =>
         side' = IF side = "held" THEN "canceling" ELSE side
  BY DEF MarkCanceling
<1>3. CASE Input
  BY <1>1, <1>2, <1>3 DEF Input, Press, BeginCancellation, Clear, Tokens
<1>4. CASE Enter
  <2>1. ASSUME NEW m \in Machines, Execute(m) PROVE RequestTypeOK'
    BY <1>2, <2>1 DEF Execute
  <2> QED
    BY <1>2, <1>4, <2>1 DEF Enter, Drop, ClaimScoped, ClaimUnscoped, Complete,
       EndExecute
<1> QED
  BY <1>3, <1>4 DEF Next, Traverse, Submit, CopyPayload, Post, RequestOther,
     RequestStaged, vars

LEMMA OriginKept ==
    ASSUME Grows, NEW t, NEW m \in Machines, NEW k, Origin(t, m, k)
    PROVE  Origin(t, m, k)'
BY DEF Grows, Origin

LEMMA SubmitKept ==
    ASSUME EvidenceInv, [Next]_vars PROVE SubmitTypeOK' /\ PostingInv'
<1> USE DEF EvidenceInv, SubmitTypeOK, submitVars
<1>0. Grows /\ GameTypeOK
  BY GameKept
<1>1. ASSUME UNCHANGED posting PROVE PostingInv'
  <2> SUFFICES ASSUME posting # NoPosting
               PROVE  Origin(posting.token, posting.machine, posting.at)'
    BY <1>1 DEF PostingInv
  <2>1. /\ posting.machine \in Machines
        /\ Origin(posting.token, posting.machine, posting.at)
    BY DEF PostingInv, Postings
  <2> QED
    BY <1>0, <1>1, <2>1 DEF Grows, Origin
<1>2. CASE UNCHANGED submitVars
  BY <1>1, <1>2
<1>3. CASE Submit
  <2>1. UNCHANGED posting /\ pending' \in Pendings \cup {NoPending}
    <3>1. side = "held" => token \in Tokens
      BY DEF RequestTypeOK
    <3>2. \A t \in Tokens : [token |-> t, copied |-> FALSE] \in Pendings
      BY DEF Pendings
    <3> QED
      BY <1>3, <3>1, <3>2 DEF Submit
  <2> QED
    BY <1>1, <2>1
<1>4. CASE CopyPayload
  BY <1>1, <1>4 DEF CopyPayload, Pendings, NoPending
<1>5. CASE Post
  BY <1>5 DEF Post, PostingInv
<1>6. ASSUME NEW m \in Machines, RequestStaged(m)
      PROVE  SubmitTypeOK' /\ PostingInv'
  <2>1. pending' = NoPending /\ pending.token \in Tokens
    BY <1>6 DEF RequestStaged, NoPending, Pendings
  <2>2. CASE UNCHANGED posting
    BY <1>1, <2>1, <2>2
  <2>3. CASE /\ Enqueue(m, pending.token)
             /\ posting' = [token |-> pending.token, machine |-> m,
                            at |-> Len(queued[m]) + 1]
    <3>1. /\ Len(queued[m]) + 1 \in 1 .. MaxQueued
          /\ \A k : k = Len(queued[m]) + 1 => queued'[m][k] = pending.token
                                                 /\ k \in 1 .. Len(queued'[m])
      <4>1. pending.token \in 0 .. MaxTokens /\ UNCHANGED executed
        BY <1>6, <2>1 DEF RequestStaged, Tokens
      <4>2. \A t \in 0 .. MaxTokens : Enqueue(m, t) =>
               /\ Len(queued[m]) + 1 \in 1 .. MaxQueued
               /\ \A k : k = Len(queued[m]) + 1 => Origin(t, m, k)'
        BY <1>0, <4>1, EnqueueFacts
      <4> QED
        BY <2>3, <4>1, <4>2 DEF Origin
    <3>2. posting' \in Postings
      BY <2>1, <2>3, <3>1 DEF Postings
    <3>3. /\ posting'.token = pending.token /\ posting'.machine = m
          /\ posting'.at = Len(queued[m]) + 1
      BY <2>3
    <3> QED
      BY <2>1, <3>1, <3>2, <3>3 DEF PostingInv, Origin
  <2> QED
    BY <1>6, <2>2, <2>3 DEF RequestStaged
<1> QED
  BY <1>2, <1>3, <1>4, <1>5, <1>6 DEF Next, Input, Traverse, Enter, Press,
     BeginCancellation, Clear, RequestOther, Execute, Drop, ClaimScoped,
     ClaimUnscoped, Complete, EndExecute, vars
-----------------------------------------------------------------------------
(* The marks on the evidence.                                              *)
Rings == [Slots -> Evidence \cup {Free}]

\* q is r with more of it cancelled or consumed.
Marks(r, q) ==
    /\ q \in Rings
    /\ \A s \in Slots :
         /\ q[s] = Free <=> r[s] = Free
         /\ q[s] # Free =>
              /\ q[s].token = r[s].token /\ q[s].machine = r[s].machine
              /\ q[s].bytes = r[s].bytes /\ q[s].at = r[s].at
              /\ r[s].canceled => q[s].canceled
              /\ r[s].consumed => q[s].consumed

SameConsumed(r, q) ==
    \A s \in Slots : q[s] # Free => (q[s].consumed <=> r[s].consumed)

\* What could still authorize an Enter is evidence of the request t.
HeldOnly(r, sd, t) ==
    \A s \in Slots : r[s] # Free /\ ~r[s].consumed /\ ~r[s].canceled
                       => sd = "held" /\ r[s].token = t

LEMMA CanceledFacts ==
    ASSUME NEW r \in Rings, NEW t
    PROVE  /\ Marks(r, Canceled(r, t)) /\ SameConsumed(r, Canceled(r, t))
           /\ \A sd : HeldOnly(r, "held", t) => HeldOnly(Canceled(r, t), sd, t)
<1> DEFINE q == Canceled(r, t)
<1>1. ASSUME NEW s \in Slots
      PROVE  /\ q[s] \in Evidence \cup {Free} /\ (q[s] = Free <=> r[s] = Free)
             /\ q[s] # Free =>
                  /\ q[s].token = r[s].token /\ q[s].machine = r[s].machine
                  /\ q[s].bytes = r[s].bytes /\ q[s].at = r[s].at
                  /\ r[s].canceled => q[s].canceled
                  /\ q[s].consumed <=> r[s].consumed
                  /\ r[s].token = t /\ ~r[s].consumed => q[s].canceled
  <2> DEFINE x == [r[s] EXCEPT !.canceled = TRUE]
             hit == r[s] # Free /\ r[s].token = t /\ ~r[s].consumed
  <2>1. r[s] \in Evidence \cup {Free} /\ q[s] = IF hit THEN x ELSE r[s]
    BY DEF Rings, Canceled
  <2>2. CASE ~hit
    BY <2>1, <2>2
  <2>3. CASE hit
    <3>1. r[s] \in Evidence /\ q[s] = x
      BY <2>1, <2>3
    <3>2. /\ x \in Evidence
          /\ x.token = r[s].token /\ x.machine = r[s].machine
          /\ x.bytes = r[s].bytes /\ x.at = r[s].at
          /\ x.canceled /\ (x.consumed <=> r[s].consumed)
      BY <3>1 DEF Evidence
    <3>3. x # Free
      BY <3>2, EvidenceIsNotFree
    <3> HIDE DEF x
    <3> QED
      BY <2>3, <3>1, <3>2, <3>3
  <2> QED
    BY <2>2, <2>3
<1>2. q \in Rings
  <2>1. q = [s \in Slots |-> q[s]]
    BY DEF Canceled
  <2> HIDE DEF q
  <2> QED
    BY <1>1, <2>1 DEF Rings
<1> HIDE DEF q
<1>3. Marks(r, q) /\ SameConsumed(r, q)
  BY <1>1, <1>2 DEF Marks, SameConsumed
<1>4. ASSUME NEW sd, HeldOnly(r, "held", t) PROVE HeldOnly(q, sd, t)
  BY <1>1, <1>4 DEF HeldOnly
<1> QED
  BY <1>3, <1>4 DEF q

LEMMA ConsumedFacts ==
    ASSUME ring \in Rings, NEW S \in SUBSET Slots, \A s \in S : Occupied(s)
    PROVE  /\ Marks(ring, Consumed(S))
           /\ \A s \in Slots : ring[s] # Free =>
                /\ Consumed(S)[s].consumed => ring[s].consumed \/ s \in S
                /\ s \in S => Consumed(S)[s].consumed
                /\ Consumed(S)[s].canceled => ring[s].canceled
<1> DEFINE q == Consumed(S)
<1>1. ASSUME NEW s \in Slots
      PROVE  /\ q[s] \in Evidence \cup {Free}
             /\ q[s] = Free <=> ring[s] = Free
             /\ q[s] # Free =>
                  /\ q[s].token = ring[s].token
                  /\ q[s].machine = ring[s].machine
                  /\ q[s].bytes = ring[s].bytes /\ q[s].at = ring[s].at
                  /\ q[s].canceled <=> ring[s].canceled
                  /\ ring[s].consumed => q[s].consumed
                  /\ q[s].consumed => ring[s].consumed \/ s \in S
                  /\ s \in S => q[s].consumed
  <2> DEFINE x == [ring[s] EXCEPT !.consumed = TRUE]
  <2>1. /\ ring[s] \in Evidence \cup {Free}
        /\ q[s] = IF s \in S THEN x ELSE ring[s]
    BY DEF Rings, Consumed
  <2>2. CASE s \notin S
    BY <2>1, <2>2
  <2>3. CASE s \in S
    <3>1. ring[s] \in Evidence /\ q[s] = x /\ ring[s] # Free
      BY <2>1, <2>3 DEF Occupied
    <3>2. /\ x \in Evidence
          /\ x.token = ring[s].token /\ x.machine = ring[s].machine
          /\ x.bytes = ring[s].bytes /\ x.at = ring[s].at
          /\ x.consumed /\ (x.canceled <=> ring[s].canceled)
      BY <3>1 DEF Evidence
    <3>3. x # Free
      BY <3>2, EvidenceIsNotFree
    <3> HIDE DEF x
    <3> QED
      BY <2>3, <3>1, <3>2, <3>3
  <2> QED
    BY <2>2, <2>3
<1>2. q \in Rings
  <2>1. q = [s \in Slots |-> q[s]]
    BY DEF Consumed
  <2> HIDE DEF q
  <2> QED
    BY <1>1, <2>1 DEF Rings
<1> HIDE DEF q
<1>3. Marks(ring, q)
  BY <1>1, <1>2 DEF Marks
<1> QED
  BY <1>1, <1>3 DEF q

LEMMA MarkCancelingFacts ==
    ASSUME NEW r \in Rings, MarkCanceling(r), UNCHANGED token,
           HeldOnly(r, side, token)
    PROVE  /\ Marks(r, ring') /\ SameConsumed(r, ring')
           /\ HeldOnly(ring', side', token')
<1>1. CASE side = "held"
  BY <1>1, CanceledFacts DEF MarkCanceling
<1>2. CASE side # "held"
  <2>1. Marks(r, r) /\ SameConsumed(r, r)
    BY DEF Marks, SameConsumed, Rings
  <2> QED
    BY <1>2, <2>1 DEF MarkCanceling
<1> QED
  BY <1>1, <1>2

LEMMA MarksTransitive ==
    ASSUME NEW r, NEW q, NEW p, Marks(r, q), Marks(q, p) PROVE Marks(r, p)
BY DEF Marks
-----------------------------------------------------------------------------
(* The ring: first a step that only marks what stands in it.               *)
RingOK == RingTypeOK /\ RingInv /\ PlaceInv

LEMMA RingMarked ==
    ASSUME RingOK, GameTypeOK, GameTypeOK', Grows,
           Marks(ring, ring'), consumed' \in 0 .. MaxTokens,
           UNCHANGED <<next, posted>>,
           \A s \in Slots : ring'[s] # Free /\ ring'[s].consumed =>
               \/ ring[s].consumed
               \/ \E j \in 1 .. executed'[ring[s].machine] :
                    Bytes(j) = ring[s].bytes
    PROVE  RingOK'
<1> USE DEF RingOK
<1>1. RingTypeOK'
  BY DEF RingTypeOK, Marks, Rings
<1>2. ASSUME NEW s \in Slots, Occupied(s)'
      PROVE  /\ ring[s] \in Evidence /\ Occupied(s)
             /\ ring'[s].token = ring[s].token
             /\ ring'[s].machine = ring[s].machine
             /\ ring'[s].bytes = ring[s].bytes /\ ring'[s].at = ring[s].at
  BY <1>2 DEF Marks, Occupied, RingTypeOK
<1>3. RingInv'
  <2> SUFFICES ASSUME NEW s \in Slots, Occupied(s)'
               PROVE  /\ Origin(ring[s].token, ring[s].machine, ring[s].at)'
                      /\ ring'[s].bytes = Bytes(ring'[s].at)
                      /\ ring'[s].consumed =>
                           \E j \in 1 .. executed'[ring'[s].machine] :
                              Bytes(j) = ring'[s].bytes
    BY DEF RingInv, Bytes
  <2>1. /\ Origin(ring[s].token, ring[s].machine, ring[s].at)
        /\ ring[s].bytes = Bytes(ring[s].at)
        /\ ring[s].consumed =>
             \E j \in 1 .. executed[ring[s].machine] : Bytes(j) = ring[s].bytes
        /\ ring[s].machine \in Machines
    BY <1>2 DEF RingInv, Evidence
  <2>2. Origin(ring[s].token, ring[s].machine, ring[s].at)'
    BY <1>2, <2>1 DEF Origin, Grows
  <2>3. ASSUME ring[s].consumed
        PROVE  \E j \in 1 .. executed'[ring[s].machine] :
                  Bytes(j) = ring[s].bytes
    <3>1. PICK j \in 1 .. executed[ring[s].machine] : Bytes(j) = ring[s].bytes
      BY <2>1, <2>3
    <3>2. j \in 1 .. executed'[ring[s].machine]
      BY <2>1 DEF Grows, GameTypeOK
    <3> QED
      BY <3>1, <3>2
  <2>4. ring'[s].consumed => \E j \in 1 .. executed'[ring[s].machine] :
                                Bytes(j) = ring[s].bytes
    BY <2>3 DEF Occupied
  <2> QED
    BY <1>2, <2>1, <2>2, <2>4
<1>4. PlaceInv'
  <2>1. \A i : Place(i)' = Place(i)
    BY DEF Place
  <2>2. ASSUME NEW CONSTANT i \in 1 .. Len(posted)
        PROVE  /\ Occupied(Place(i))'
               /\ <<ring[Place(i)].machine, ring[Place(i)].at>>' = posted'[i]
    <3>1. Place(i) \in Slots
      BY PlaceIsSlot DEF PlaceInv, RingTypeOK
    <3>2. Occupied(Place(i))'
      BY <2>1, <3>1 DEF PlaceInv, Marks, Occupied
    <3> QED
      BY <2>1, <3>1, <3>2 DEF PlaceInv, Marks, Occupied
  <2> QED
    BY <2>2 DEF PlaceInv
<1> QED
  BY <1>1, <1>3, <1>4

(* Where the publications are after another one has been written.          *)
LEMMA PlacesShift ==
    ASSUME next \in Slots, next' = Following(next), NEW x,
           posted \in Seq(Machines \X (1 .. MaxQueued)),
           x \in Machines \X (1 .. MaxQueued), Len(posted) <= Capacity,
           posted' = LastOf(Append(posted, x)), NEW i \in 1 .. Len(posted')
    PROVE  /\ Len(posted') <= Capacity
           /\ IF i = Len(posted')
                THEN Place(i)' = next /\ posted'[i] = x
                ELSE \E j \in 1 .. Len(posted) :
                       /\ Place(i)' = Place(j) /\ posted'[i] = posted[j]
                       /\ Place(j) \in Slots \ {next}
<1> DEFINE q == Append(posted, x)
           L == Len(posted)
<1>1. /\ q \in Seq(Machines \X (1 .. MaxQueued)) /\ L \in Nat /\ Len(q) = L + 1
      /\ q[L + 1] = x /\ \A j \in 1 .. L : q[j] = posted[j]
  BY AppendProperties
<1>2. /\ Capacity \in Nat /\ Capacity > 0 /\ next \in Nat /\ next < Capacity
      /\ next' = IF next + 1 = Capacity THEN 0 ELSE next + 1
  BY EvidenceAssumption, FollowingFacts DEF Slots
<1>3. CASE L < Capacity
  <2>1. posted' = q
    BY <1>1, <1>2, <1>3 DEF LastOf
  <2>2. Len(posted') = L + 1
    BY <1>1, <2>1
  <2> HIDE DEF q, L
  <2>3. CASE i = L + 1
    <3>1. Place(i)' = next
      BY <1>1, <1>2, <1>3, <2>2, <2>3 DEF Place
    <3> QED
      BY <1>1, <1>2, <1>3, <2>1, <2>2, <2>3, <3>1
  <2>4. CASE i # L + 1
    <3>1. i \in 1 .. L /\ posted'[i] = posted[i]
      BY <1>1, <2>1, <2>2, <2>4
    <3>2. Place(i)' = Place(i) /\ Place(i) \in Slots \ {next}
      <4>1. /\ Place(i)' = LET p == next' - (L + 1) - 1 + i
                            IN IF p < 0 THEN p + Capacity ELSE p
            /\ Place(i) = LET p == next - L - 1 + i
                          IN IF p < 0 THEN p + Capacity ELSE p
        BY <2>2 DEF Place, L
      <4>2. Place(i)' = Place(i)
        <5>1. CASE next + 1 = Capacity
          <6>1. next' = 0 /\ next - L - 1 + i >= 0
            BY <1>1, <1>2, <1>3, <3>1, <5>1
          <6>2. next' - (L + 1) - 1 + i < 0
            BY <1>1, <1>2, <1>3, <3>1, <5>1, <6>1
          <6>3. Place(i)' = next' - (L + 1) - 1 + i + Capacity
            BY <4>1, <6>2
          <6>4. Place(i) = next - L - 1 + i
            BY <4>1, <1>1, <1>2, <3>1, <6>1
          <6> QED
            BY <1>1, <1>2, <3>1, <5>1, <6>1, <6>3, <6>4
        <5>2. CASE next + 1 # Capacity
          <6>1. next' - (L + 1) - 1 + i = next - L - 1 + i
            BY <1>1, <1>2, <3>1, <5>2
          <6> QED
            BY <4>1, <6>1
        <5> QED
          BY <5>1, <5>2
      <4>3. Place(i) # next /\ Place(i) \in 0 .. Capacity - 1
        BY <1>1, <1>2, <1>3, <3>1, <4>1
      <4> QED
        BY <4>2, <4>3 DEF Slots
    <3> QED
      BY <1>1, <1>2, <1>3, <2>2, <2>4, <3>1, <3>2 DEF L
  <2> QED
    BY <2>3, <2>4
<1>4. CASE L = Capacity
  <2>1. posted' = Tail(q)
    BY <1>1, <1>2, <1>4 DEF LastOf
  <2>2. Len(posted') = L /\ \A j \in 1 .. L : posted'[j] = q[j + 1]
    BY <1>1, <2>1, HeadTailProperties
  <2> HIDE DEF q, L
  <2>3. CASE i = L
    <3>1. Place(i)' = next
      BY <1>1, <1>2, <1>4, <2>2, <2>3 DEF Place
    <3>2. posted'[i] = x
      BY <1>1, <2>2, <2>3
    <3> QED
      BY <1>1, <1>4, <2>2, <2>3, <3>1, <3>2, <1>2
  <2>4. CASE i # L
    <3>1. i + 1 \in 1 .. L /\ posted'[i] = posted[i + 1]
      BY <1>1, <2>2, <2>4
    <3>2. Place(i)' = Place(i + 1) /\ Place(i + 1) \in Slots \ {next}
      BY <1>1, <1>2, <1>4, <2>2, <3>1 DEF Place, Slots, L
    <3> QED
      BY <1>1, <1>2, <1>4, <2>2, <2>4, <3>1, <3>2 DEF L
  <2> QED
    BY <2>3, <2>4
<1> QED
  BY <1>1, <1>2, <1>3, <1>4

(* ... and the step that publishes.                                        *)
LEMMA RingPublished ==
    ASSUME RingOK, NEW e \in Evidence, Publish(e), UNCHANGED consumed,
           Origin(e.token, e.machine, e.at), e.bytes = Bytes(e.at),
           ~e.consumed, UNCHANGED gameVars
    PROVE  /\ RingOK'
           /\ \A s \in Slots : ring'[s] # e => ring'[s] = ring[s]
<1> USE DEF RingOK
<1>1. CASE UNCHANGED ringVars
  BY <1>1 DEF RingTypeOK, RingInv, PlaceInv, Origin, Occupied, Place, Bytes,
     ringVars, gameVars
<1>2. CASE /\ ring' = [ring EXCEPT ![next] = e]
           /\ next' = Following(next)
           /\ posted' = LastOf(Append(posted, <<e.machine, e.at>>))
  <2> DEFINE x == <<e.machine, e.at>>
  <2>1. /\ next \in Slots /\ posted \in Seq(Machines \X (1 .. MaxQueued))
        /\ Len(posted) <= Capacity /\ x \in Machines \X (1 .. MaxQueued)
    BY DEF RingTypeOK, PlaceInv, Evidence
  <2>2. /\ ring' \in Rings /\ ring'[next] = e
        /\ \A s \in Slots \ {next} : ring'[s] = ring[s]
    BY <1>2, <2>1 DEF RingTypeOK, Rings
  <2>3. RingTypeOK'
    <3>1. next' \in Slots
      BY <1>2, <2>1, FollowingFacts, EvidenceAssumption DEF Slots
    <3>2. Append(posted, x) \in Seq(Machines \X (1 .. MaxQueued))
      BY <2>1, AppendProperties
    <3>3. Tail(Append(posted, x)) \in Seq(Machines \X (1 .. MaxQueued))
      BY <2>1, TailOfAppend
    <3>4. posted' \in Seq(Machines \X (1 .. MaxQueued))
      BY <1>2, <3>2, <3>3 DEF LastOf
    <3> QED
      BY <2>2, <3>1, <3>4 DEF RingTypeOK, Rings
  <2>4. RingInv'
    <3> SUFFICES ASSUME NEW s \in Slots, Occupied(s)'
                 PROVE  /\ Origin(ring[s].token, ring[s].machine, ring[s].at)'
                        /\ ring'[s].bytes = Bytes(ring'[s].at)
                        /\ ring'[s].consumed =>
                             \E j \in 1 .. executed'[ring'[s].machine] :
                                Bytes(j) = ring'[s].bytes
      BY DEF RingInv, Bytes
    <3>1. CASE s = next
      BY <2>2, <3>1 DEF Origin, gameVars
    <3>2. CASE s # next
      BY <2>2, <3>2 DEF RingInv, Occupied, Origin, gameVars
    <3> QED
      BY <3>1, <3>2
  <2>5. PlaceInv'
    <3>0. posted' \in Seq(Machines \X (1 .. MaxQueued)) /\ Len(posted') \in Nat
      BY <2>3 DEF RingTypeOK
    <3>1. ASSUME NEW CONSTANT i \in 1 .. Len(posted')
          PROVE  /\ Len(posted') <= Capacity
                 /\ Occupied(Place(i))'
                 /\ <<ring[Place(i)].machine, ring[Place(i)].at>>' = posted'[i]
      <4>1. /\ Len(posted') <= Capacity
            /\ IF i = Len(posted')
                 THEN Place(i)' = next /\ posted'[i] = x
                 ELSE \E j \in 1 .. Len(posted) :
                        /\ Place(i)' = Place(j) /\ posted'[i] = posted[j]
                        /\ Place(j) \in Slots \ {next}
        BY <1>2, <2>1, PlacesShift
      <4>2. CASE i = Len(posted')
        BY <2>2, <4>1, <4>2, EvidenceIsNotFree DEF Occupied
      <4>3. CASE i # Len(posted')
        <5>1. PICK j \in 1 .. Len(posted) :
                /\ Place(i)' = Place(j) /\ posted'[i] = posted[j]
                /\ Place(j) \in Slots \ {next}
          BY <4>1, <4>3
        <5>2. Occupied(Place(j)) /\ ring'[Place(j)] = ring[Place(j)]
              /\ <<ring[Place(j)].machine, ring[Place(j)].at>> = posted[j]
          BY <2>2, <5>1 DEF PlaceInv
        <5> QED
          BY <4>1, <5>1, <5>2 DEF Occupied
      <4> QED
        BY <4>2, <4>3
    <3>2. Len(posted') <= Capacity
      BY <3>0, <3>1, EvidenceAssumption
    <3> QED
      BY <3>1, <3>2 DEF PlaceInv
  <2>6. \A s \in Slots : ring'[s] # e => ring'[s] = ring[s]
    BY <2>2
  <2> QED
    BY <2>3, <2>4, <2>5, <2>6
<1> QED
  BY <1>1, <1>2 DEF Publish, ringVars

LEMMA RingOnlyMarked ==
    ASSUME RingOK, GameTypeOK, GameTypeOK', Grows, Marks(ring, ring'),
           SameConsumed(ring, ring'), UNCHANGED <<next, consumed, posted>>
    PROVE  RingOK'
<1>1. consumed' \in 0 .. MaxTokens
  BY DEF RingOK, RingTypeOK
<1>2. \A s \in Slots : ring'[s] # Free /\ ring'[s].consumed => ring[s].consumed
  BY DEF SameConsumed
<1> QED
  BY <1>1, <1>2, RingMarked
-----------------------------------------------------------------------------
(* The evidence of a transition.                                           *)
LEMMA TokenFacts ==
    ASSUME RingOK, NEW S \in SUBSET Slots, \A s \in S : Occupied(s)
    PROVE  /\ GreatestToken(S) \in 0 .. MaxTokens
           /\ QueuedToken(S) \in 0 .. MaxTokens
           /\ S # {} /\ ~Ambiguous(S) =>
                \A s \in S : ring[s].token = QueuedToken(S)
<1>1. /\ MaxTokens \in Nat /\ S \subseteq Nat
      /\ consumed \in 0 .. MaxTokens
      /\ \A s \in S : ring[s].token \in 0 .. MaxTokens
  BY EvidenceAssumption DEF RingOK, RingTypeOK, Occupied, Evidence, Tokens,
     Slots
<1>2. GreatestToken(S) \in 0 .. MaxTokens
  <2> DEFINE T == {consumed} \cup {ring[s].token : s \in S}
  <2>1. T \subseteq 0 .. MaxTokens /\ T # {}
    BY <1>1
  <2>2. PICK g \in T : \A t \in T : t <= g
    <3> HIDE DEF T
    <3> QED
      BY <1>1, <2>1, GreatestNumber
  <2>3. \A t \in T : t \in 0 .. MaxTokens
    BY <2>1
  <2>4. g >= consumed /\ \A s \in S : g >= ring[s].token
    BY <2>2, <2>3, <1>1
  <2>5. GreatestToken(S) \in T
    BY <2>2, <2>4 DEF GreatestToken
  <2> QED
    BY <2>3, <2>5
<1>3. CASE S = {} \/ Ambiguous(S)
  BY <1>1, <1>2, <1>3 DEF QueuedToken
<1>4. CASE S # {} /\ ~Ambiguous(S)
  <2>1. \E s \in S : \A t \in S : s <= t
    BY <1>1, <1>4, LeastNumber
  <2>2. PICK c \in S : QueuedToken(S) = ring[c].token
    BY <1>4, <2>1 DEF QueuedToken
  <2> QED
    BY <1>1, <1>2, <1>4, <2>2 DEF Ambiguous
<1> QED
  BY <1>3, <1>4

LEMMA MatchingFacts ==
    ASSUME NEW m, NEW b
    PROVE  /\ Matching(m, b) \in SUBSET Slots
           /\ \A s \in Matching(m, b) : /\ Occupied(s) /\ ring[s].machine = m
                                        /\ ring[s].bytes = b
BY DEF Matching

(* What the execution of a transition leaves in the ring.                  *)
LEMMA RingExecuted ==
    ASSUME EvidenceInv, GameTypeOK', Grows, NEW m \in Machines, Execute(m)
    PROVE  RingOK' /\ EvidenceOfHeldOnly'
<1> DEFINE k == executed[m] + 1
           S == Matching(m, Bytes(k))
           q == Consumed(S)
<1>0. RingOK /\ GameTypeOK /\ HeldOnly(ring, side, token) /\ ring \in Rings
  BY DEF EvidenceInv, RingOK, HeldOnly, EvidenceOfHeldOnly, Occupied,
     RingTypeOK, Rings
<1>1. /\ executed[m] < Len(queued[m]) /\ consumed' = GreatestToken(S)
      /\ executed' = [executed EXCEPT ![m] = @ + 1]
      /\ MarkCanceling(q) \/ (ring' = q /\ UNCHANGED side)
      /\ UNCHANGED <<token, next, posted, queued>>
  BY DEF Execute, submitVars
<1>2. executed'[m] = k /\ k \in 1 .. MaxQueued
  BY <1>0, <1>1, ExecuteFacts
<1>3. /\ S \in SUBSET Slots
      /\ \A s \in S : /\ Occupied(s) /\ ring[s].machine = m
                       /\ ring[s].bytes = Bytes(k)
  BY MatchingFacts
<1> HIDE DEF S, k
<1>4. /\ Marks(ring, q)
      /\ \A s \in Slots : ring[s] # Free =>
           /\ q[s].consumed => ring[s].consumed \/ s \in S
           /\ s \in S => q[s].consumed
           /\ q[s].canceled => ring[s].canceled
  BY <1>0, <1>3, ConsumedFacts
<1> HIDE DEF q
<1>5. q \in Rings /\ HeldOnly(q, side, token)
  BY <1>0, <1>4 DEF Marks, HeldOnly
<1>6. /\ Marks(q, ring') /\ SameConsumed(q, ring')
      /\ HeldOnly(ring', side', token')
  <2>1. CASE MarkCanceling(q)
    BY <1>1, <1>5, <2>1, MarkCancelingFacts
  <2>2. CASE ring' = q /\ UNCHANGED side
    BY <1>1, <1>5, <2>2 DEF Marks, SameConsumed, Rings
  <2> QED
    BY <1>1, <2>1, <2>2
<1>7. Marks(ring, ring')
  BY <1>4, <1>6, MarksTransitive
<1>8. \A s \in Slots : ring'[s] # Free /\ ring'[s].consumed =>
         \/ ring[s].consumed
         \/ \E j \in 1 .. executed'[ring[s].machine] : Bytes(j) = ring[s].bytes
  <2> SUFFICES ASSUME NEW s \in Slots, ring'[s] # Free, ring'[s].consumed,
                      ~ring[s].consumed
               PROVE  \E j \in 1 .. executed'[ring[s].machine] :
                         Bytes(j) = ring[s].bytes
    OBVIOUS
  <2>1. ring[s] # Free /\ q[s].consumed
    BY <1>6, <1>7 DEF Marks, SameConsumed
  <2>2. s \in S
    BY <1>4, <2>1
  <2>3. k \in 1 .. executed'[ring[s].machine]
    BY <1>2, <1>3, <2>2
  <2> QED
    BY <1>3, <2>2, <2>3
<1>9. consumed' \in 0 .. MaxTokens
  BY <1>0, <1>1, <1>3, TokenFacts
<1>10. RingOK'
  BY <1>0, <1>1, <1>7, <1>8, <1>9, RingMarked
<1> QED
  BY <1>6, <1>10 DEF HeldOnly, EvidenceOfHeldOnly, Occupied

LEMMA RingPosted ==
    ASSUME EvidenceInv, Post PROVE RingOK' /\ EvidenceOfHeldOnly'
<1> DEFINE E(airborne) ==
       [token |-> posting.token, machine |-> posting.machine,
        bytes |-> Bytes(posting.at), at |-> posting.at,
        canceled |-> ~(side = "held" /\ token = posting.token /\ airborne),
        consumed |-> FALSE]
<1>1. /\ posting \in Postings
      /\ Origin(posting.token, posting.machine, posting.at)
  BY DEF EvidenceInv, SubmitTypeOK, PostingInv, Post
<1>2. PICK airborne \in BOOLEAN : Publish(E(airborne))
  BY DEF Post
<1> DEFINE e == E(airborne)
<1>3. e \in Evidence
  <2>1. Bytes(posting.at) \in 0 .. SequenceWidth - 1
    BY <1>1, BytesFacts, EvidenceAssumption DEF Postings
  <2> QED
    BY <1>1, <2>1 DEF Evidence, Postings
<1>4. /\ e.token = posting.token /\ e.machine = posting.machine
      /\ e.bytes = Bytes(posting.at) /\ e.at = posting.at /\ ~e.consumed
      /\ ~e.canceled => side = "held" /\ token = posting.token
  OBVIOUS
<1>5. Publish(e)
  BY <1>2
<1> HIDE DEF e
<1>6. RingOK' /\ \A s \in Slots : ring'[s] # e => ring'[s] = ring[s]
  BY <1>1, <1>3, <1>4, <1>5, RingPublished DEF EvidenceInv, RingOK, Post
<1>7. EvidenceOfHeldOnly'
  BY <1>4, <1>6 DEF EvidenceInv, EvidenceOfHeldOnly, Occupied, Post,
     requestVars
<1> QED
  BY <1>6, <1>7

LEMMA RingKept ==
    ASSUME EvidenceInv, [Next]_vars PROVE RingOK' /\ EvidenceOfHeldOnly'
<1>0. /\ RingOK /\ GameTypeOK /\ GameTypeOK' /\ Grows
      /\ HeldOnly(ring, side, token) /\ ring \in Rings
  BY GameKept DEF EvidenceInv, RingOK, HeldOnly, EvidenceOfHeldOnly, Occupied,
     RingTypeOK, Rings
<1>1. ASSUME UNCHANGED <<next, consumed, posted>>, Marks(ring, ring'),
             SameConsumed(ring, ring'), HeldOnly(ring', side', token')
      PROVE  RingOK' /\ EvidenceOfHeldOnly'
  <2>1. RingOK'
    BY <1>0, <1>1, RingOnlyMarked
  <2> QED
    BY <1>1, <2>1 DEF HeldOnly, EvidenceOfHeldOnly, Occupied
<1>2. Marks(ring, ring) /\ SameConsumed(ring, ring)
  BY <1>0 DEF Marks, SameConsumed
<1>3. CASE UNCHANGED <<requestVars, ringVars>>
  BY <1>0, <1>1, <1>2, <1>3 DEF requestVars, ringVars
<1>4. CASE Press
  BY <1>0, <1>1, <1>2, <1>4 DEF Press, HeldOnly, ringVars
<1>5. CASE UNCHANGED <<token, next, consumed, posted>> /\ MarkCanceling(ring)
  BY <1>0, <1>1, <1>5, MarkCancelingFacts
<1>6. CASE Clear
  <2>1. CASE side = "held"
    BY <1>0, <1>1, <1>6, <2>1, CanceledFacts DEF Clear
  <2>2. CASE side # "held"
    BY <1>0, <1>1, <1>2, <1>6, <2>2 DEF Clear, HeldOnly
  <2> QED
    BY <2>1, <2>2
<1>7. CASE Complete
  BY <1>3, <1>5, <1>7 DEF Complete, requestVars, ringVars
<1>8. CASE Post
  BY <1>8, RingPosted
<1>9. ASSUME NEW m \in Machines, Execute(m)
      PROVE  RingOK' /\ EvidenceOfHeldOnly'
  BY <1>0, <1>9, RingExecuted
<1> QED
  BY <1>3, <1>4, <1>5, <1>6, <1>7, <1>8, <1>9 DEF Next, Input, Traverse, Enter,
     BeginCancellation, ClaimUnscoped, Submit, CopyPayload, RequestOther,
     RequestStaged, Drop, ClaimScoped, EndExecute, vars
-----------------------------------------------------------------------------
(* The claims.                                                             *)
GrantOK == EnterTypeOK /\ GrantInv

LEMMA NoClaimFacts ==
    /\ NoClaim.kind = "none" /\ NoClaim.token = 0
    /\ NoScope.claim = NoClaim /\ ~NoScope.valid /\ NoScope \in Scopes
BY DEF NoClaim, NoScope, Scopes

\* A transition that is executed stays executed.
LEMMA ExecutedKept ==
    ASSUME GameTypeOK, GameTypeOK', Grows
    PROVE  \A c : Executed(c) => c.machine \in Machines
                                   /\ c.at \in 1 .. executed'[c.machine]
                                   /\ c.at \in 1 .. MaxQueued
<1> SUFFICES ASSUME NEW c, Executed(c)
             PROVE  /\ c.at \in 1 .. executed'[c.machine]
                    /\ c.at \in 1 .. MaxQueued
  BY DEF Executed
<1>1. /\ executed[c.machine] \in 0 .. MaxQueued
      /\ executed'[c.machine] \in 0 .. MaxQueued
      /\ executed[c.machine] <= executed'[c.machine] /\ MaxQueued \in Nat
      /\ c.at \in 1 .. executed[c.machine]
  BY EvidenceAssumption DEF Executed, GameTypeOK, Grows
<1> QED
  BY <1>1

LEMMA GrantStill ==
    ASSUME GrantOK, GameTypeOK, GameTypeOK', Grows, UNCHANGED enterVars
    PROVE  GrantOK'
<1>1. \A c : Executed(c) => c.machine \in Machines
                              /\ c.at \in 1 .. executed'[c.machine]
  BY ExecutedKept
<1>2. EnterTypeOK'
  BY DEF GrantOK, EnterTypeOK, enterVars
<1>3. \A m \in Machines : \A k \in 1 .. MaxQueued :
         <<m, k>> \in granted' => k <= executed'[m]
  <2> SUFFICES ASSUME NEW m \in Machines, NEW k \in 1 .. MaxQueued,
                      <<m, k>> \in granted
               PROVE  k <= executed'[m]
    BY DEF enterVars
  <2>1. k <= executed[m] /\ executed[m] \in Int /\ executed'[m] \in Int
        /\ executed[m] <= executed'[m]
    BY DEF GrantOK, GrantInv, GameTypeOK, Grows
  <2> QED
    BY <2>1
<1>4. GrantInv'
  BY <1>1, <1>3 DEF GrantOK, GrantInv, enterVars, Executed
<1> QED
  BY <1>2, <1>4 DEF GrantOK

LEMMA GrantExecuted ==
    ASSUME EvidenceInv, GameTypeOK', Grows, NEW m \in Machines, Execute(m)
    PROVE  GrantOK'
<1> DEFINE k == executed[m] + 1
           S == Matching(m, Bytes(k))
           t == QueuedToken(S)
<1>0. GameTypeOK /\ RingOK /\ GrantOK
  BY DEF EvidenceInv, RingOK, GrantOK
<1>1. /\ executed[m] < Len(queued[m]) /\ claim = NoClaim
      /\ executed' = [executed EXCEPT ![m] = @ + 1]
      /\ UNCHANGED <<token, queued, claim, granted>>
  BY DEF Execute
<1>2. PICK airborne \in BOOLEAN :
         scope' = [claim |-> [kind |-> Classify(S, airborne), machine |-> m,
                              at |-> k, token |-> IF t # 0 THEN t ELSE token],
                   valid |-> TRUE]
  BY DEF Execute
<1>3. /\ executed'[m] = k /\ k \in 1 .. MaxQueued /\ executed[m] = k - 1
      /\ executed[m] \in Nat
  BY <1>0, <1>1, ExecuteFacts DEF GameTypeOK
<1>4. t \in 0 .. MaxTokens
  BY <1>0, MatchingFacts, TokenFacts
<1>5. Classify(S, airborne) \in Kinds
  BY DEF Classify, Kinds
<1> HIDE DEF S, k, t
<1>6. scope' \in Scopes /\ scope'.claim.machine = m /\ scope'.claim.at = k
  <2>1. token \in 0 .. MaxTokens /\ k \in 0 .. MaxQueued
    BY <1>3 DEF EvidenceInv, RequestTypeOK
  <2> QED
    BY <1>2, <1>4, <1>5, <2>1 DEF Scopes, EnterClaims
<1>7. <<m, k>> \notin granted
  BY <1>0, <1>3 DEF GrantOK, GrantInv
<1>8. EnterTypeOK'
  BY <1>0, <1>1, <1>6 DEF GrantOK, EnterTypeOK
<1>9. \A n \in Machines : \A j \in 1 .. MaxQueued :
         <<n, j>> \in granted => j <= executed'[n]
  <2> SUFFICES ASSUME NEW n \in Machines, NEW j \in 1 .. MaxQueued,
                      <<n, j>> \in granted
               PROVE  j <= executed'[n]
    OBVIOUS
  <2>1. j <= executed[n] /\ executed[n] \in Int /\ executed'[n] \in Int
        /\ executed[n] <= executed'[n]
    BY <1>0 DEF GrantOK, GrantInv, GameTypeOK, Grows
  <2> QED
    BY <2>1
<1>10. Executed(scope.claim)'
  <2>1. k \in 1 .. executed'[m]
    BY <1>3
  <2> QED
    BY <1>6, <2>1 DEF Executed
<1>11. GrantInv'
  BY <1>1, <1>6, <1>7, <1>9, <1>10, NoClaimFacts DEF GrantInv
<1> QED
  BY <1>8, <1>11 DEF GrantOK

LEMMA GrantCompleted ==
    ASSUME EvidenceInv, Complete PROVE GrantOK'
<1>1. GrantOK /\ UNCHANGED <<executed, scope>> /\ claim' = NoClaim
      /\ GameTypeOK
  BY DEF EvidenceInv, GrantOK, Complete, gameVars
<1>2. CASE UNCHANGED granted
  BY <1>1, <1>2, NoClaimFacts DEF GrantOK, EnterTypeOK, GrantInv, Executed
<1>3. CASE /\ claim.kind = "ActiveRequest"
           /\ granted' = granted \cup {<<claim.machine, claim.at>>}
  <2>1. Executed(claim) /\ ~scope.valid
    BY <1>1, <1>3 DEF GrantOK, GrantInv
  <2>2. /\ claim.machine \in Machines /\ claim.at \in 1 .. MaxQueued
        /\ claim.at <= executed[claim.machine]
    <3>1. /\ claim.machine \in Machines /\ MaxQueued \in Nat
          /\ executed[claim.machine] \in 0 .. MaxQueued
          /\ claim.at \in 1 .. executed[claim.machine]
      BY <1>1, <2>1, EvidenceAssumption DEF Executed, GameTypeOK
    <3> QED
      BY <3>1
  <2>3. EnterTypeOK'
    BY <1>1, <1>3, <2>2 DEF GrantOK, EnterTypeOK
  <2>4. GrantInv'
    BY <1>1, <1>3, <2>1, <2>2, NoClaimFacts DEF GrantOK, GrantInv
  <2> QED
    BY <2>3, <2>4 DEF GrantOK
<1> QED
  BY <1>2, <1>3 DEF Complete

LEMMA GrantKept ==
    ASSUME EvidenceInv, [Next]_vars PROVE GrantOK'
<1>0. GrantOK /\ GameTypeOK /\ GameTypeOK' /\ Grows
  BY GameKept DEF EvidenceInv, GrantOK
<1>1. CASE UNCHANGED enterVars
  BY <1>0, <1>1, GrantStill
<1>2. ASSUME NEW m \in Machines, Execute(m) PROVE GrantOK'
  BY <1>0, <1>2, GrantExecuted
<1>3. CASE ClaimScoped
  <2>1. /\ scope.valid /\ claim' = scope.claim /\ scope' \in Scopes
        /\ ~scope'.valid /\ UNCHANGED <<executed, granted>>
    BY <1>0, <1>3 DEF ClaimScoped, gameVars, GrantOK, EnterTypeOK, Scopes
  <2>2. scope.claim \in EnterClaims \cup {NoClaim}
    BY <1>0 DEF GrantOK, EnterTypeOK, Scopes
  <2> QED
    BY <1>0, <2>1, <2>2 DEF GrantOK, EnterTypeOK, GrantInv, Executed
<1>4. CASE ClaimUnscoped
  <2>1. /\ claim' \in EnterClaims /\ claim'.kind # "ActiveRequest"
        /\ UNCHANGED <<executed, scope, granted>>
    <3>1. token \in 0 .. MaxTokens /\ 0 \in 0 .. MaxTokens
          /\ 0 \in 0 .. MaxQueued
      BY EvidenceAssumption DEF EvidenceInv, RequestTypeOK
    <3> QED
      BY <1>4, <3>1 DEF ClaimUnscoped, NoClaim, EnterClaims, Kinds, gameVars
  <2> QED
    BY <1>0, <2>1 DEF GrantOK, EnterTypeOK, GrantInv, Executed
<1>5. CASE EndExecute
  BY <1>0, <1>5, NoClaimFacts DEF EndExecute, GrantOK, EnterTypeOK, GrantInv,
     Executed, gameVars
<1>6. CASE Complete
  BY <1>6, GrantCompleted
<1> QED
  BY <1>1, <1>2, <1>3, <1>4, <1>5, <1>6 DEF Next, Input, Traverse, Enter,
     Press, BeginCancellation, Clear, Submit, CopyPayload, RequestOther,
     RequestStaged, Post, Drop, vars
-----------------------------------------------------------------------------
(* The invariant.                                                          *)
LEMMA EvidenceInvStart == Init => EvidenceInv
<1> SUFFICES ASSUME Init PROVE EvidenceInv
  OBVIOUS
<1> USE EvidenceAssumption DEF Init
<1>1. RequestTypeOK /\ EvidenceOfHeldOnly /\ RingInv /\ PostingInv
  BY DEF RequestTypeOK, EvidenceOfHeldOnly, RingInv, PostingInv, Occupied
<1>2. RingTypeOK /\ PlaceInv
  <2>1. 0 \in Slots /\ Len(posted) = 0
    BY EmptySeq DEF Slots
  <2>2. posted \in Seq(Machines \X (1 .. MaxQueued))
    BY EmptySeq
  <2> QED
    BY <2>1, <2>2 DEF RingTypeOK, PlaceInv
<1>3. SubmitTypeOK
  BY DEF SubmitTypeOK
<1>4. GameTypeOK
  <2>1. <<>> \in Seq(0 .. MaxTokens) /\ Len(<<>>) = 0
    OBVIOUS
  <2> QED
    BY <2>1 DEF GameTypeOK
<1>5. EnterTypeOK /\ GrantInv
  BY NoClaimFacts DEF EnterTypeOK, GrantInv
<1> QED
  BY <1>1, <1>2, <1>3, <1>4, <1>5 DEF EvidenceInv

LEMMA EvidenceInvKept == EvidenceInv /\ [Next]_vars => EvidenceInv'
BY RequestKept, SubmitKept, GameKept, RingKept, GrantKept
   DEF EvidenceInv, RingOK, GrantOK

LEMMA EvidenceInvariant == Spec => []EvidenceInv
BY EvidenceInvStart, EvidenceInvKept, PTL DEF Spec
-----------------------------------------------------------------------------
(* The types of the request, the ring, the queues and the claims.          *)
THEOREM EvidenceTypeCorrect == Spec => []TypeOK
<1>1. EvidenceInv => TypeOK
  <2> SUFFICES ASSUME EvidenceInv PROVE TypeOK
    OBVIOUS
  <2>1. 0 \in 0 .. MaxTokens /\ Tokens \subseteq 0 .. MaxTokens
    BY EvidenceAssumption DEF Tokens
  <2>2. pending \in [token : 0 .. MaxTokens, copied : BOOLEAN]
    <3>1. NoPending \in [token : 0 .. MaxTokens, copied : BOOLEAN]
      BY <2>1 DEF NoPending
    <3>2. Pendings \subseteq [token : 0 .. MaxTokens, copied : BOOLEAN]
      <4> SUFFICES ASSUME NEW p \in Pendings
                   PROVE  p \in [token : 0 .. MaxTokens, copied : BOOLEAN]
        OBVIOUS
      <4>1. p = [token |-> p.token, copied |-> p.copied] /\ p.token \in Tokens
            /\ p.copied \in BOOLEAN
        BY DEF Pendings
      <4> QED
        BY <2>1, <4>1
    <3> QED
      BY <3>1, <3>2 DEF EvidenceInv, SubmitTypeOK
  <2>3. posting.token \in 0 .. MaxTokens
    <3>1. NoPosting.token = 0 /\ \A p \in Postings : p.token \in Tokens
      BY DEF NoPosting, Postings
    <3> QED
      BY <2>1, <3>1 DEF EvidenceInv, SubmitTypeOK
  <2>4. {scope.claim.kind, claim.kind} \subseteq Kinds \cup {"none"}
    BY NoClaimFacts DEF EvidenceInv, EnterTypeOK, Scopes, EnterClaims
  <2> QED
    BY <2>2, <2>3, <2>4 DEF EvidenceInv, RequestTypeOK, RingTypeOK, GameTypeOK,
       EnterTypeOK, TypeOK
<1> QED
  BY <1>1, EvidenceInvariant, PTL

(* Whatever is left in the ring of requests that are over cannot authorize *)
(* an Enter: CancelQueuedSubmitEvidenceLocked has reached all of it.       *)
THEOREM OnlyHeldAuthorizes == Spec => []EvidenceOfHeldOnly
<1>1. EvidenceInv => EvidenceOfHeldOnly
  BY DEF EvidenceInv
<1> QED
  BY <1>1, EvidenceInvariant, PTL

(* The step that claims a transition is an execution of it.                *)
LEMMA ClaimFacts ==
    ASSUME EvidenceInv, [Next]_vars, NEW m \in Machines,
           NEW k \in 1 .. MaxQueued, Claims(m, k)
    PROVE  /\ k = executed[m] + 1 /\ executed[m] \in Nat
           /\ \E airborne \in BOOLEAN :
                LET S == Matching(m, Bytes(k)) IN
                /\ scope'.claim.kind = Classify(S, airborne)
                /\ scope'.claim.token = IF QueuedToken(S) # 0
                                          THEN QueuedToken(S) ELSE token
<1>1. scope = NoScope /\ scope' # NoScope /\ NoScope.valid = FALSE
  BY DEF Claims, NoScope
<1>2. PICK n \in Machines : Execute(n)
  BY <1>1 DEF Next, Input, Traverse, Enter, Press, BeginCancellation, Clear,
     Submit, CopyPayload, Post, RequestOther, RequestStaged, Drop, ClaimScoped,
     ClaimUnscoped, Complete, EndExecute, vars, enterVars
<1>3. PICK airborne \in BOOLEAN :
         LET j == executed[n] + 1
             S == Matching(n, Bytes(j))
             t == QueuedToken(S)
         IN scope' = [claim |-> [kind |-> Classify(S, airborne), machine |-> n,
                                 at |-> j,
                                 token |-> IF t # 0 THEN t ELSE token],
                      valid |-> TRUE]
  BY <1>2 DEF Execute
<1>4. n = m /\ executed[n] + 1 = k
  BY <1>3 DEF Claims
<1>5. executed[m] \in Nat
  BY DEF EvidenceInv, GameTypeOK
<1> QED
  BY <1>3, <1>4, <1>5

(* ConsumeQueuedSubmitEvidenceLocked takes everything that looks like the  *)
(* transition, so a request that is classified active is the only one with *)
(* evidence of it.                                                         *)
THEOREM RequestsOwnTheirEvidence == Spec => OwnEvidenceOnly
<1>1. ASSUME EvidenceInv, [Next]_vars, NEW m \in Machines,
             NEW k \in 1 .. MaxQueued, NEW s \in Slots, Claims(m, k),
             scope'.claim.kind = "ActiveRequest", EvidenceOf(s, m, k)
      PROVE  ring[s].token = scope'.claim.token
  <2> DEFINE S == Matching(m, Bytes(k))
  <2>1. PICK airborne \in BOOLEAN :
           /\ Classify(S, airborne) = "ActiveRequest"
           /\ scope'.claim.token = IF QueuedToken(S) # 0 THEN QueuedToken(S)
                                                         ELSE token
    BY <1>1, ClaimFacts
  <2>2. S # {} /\ ~Ambiguous(S) /\ token = QueuedToken(S)
    BY <2>1 DEF Classify
  <2>3. s \in S
    BY <1>1 DEF EvidenceOf, Matching, EvidenceInv, RingInv
  <2>4. \A x \in S : ring[x].token = QueuedToken(S)
    BY <1>1, <2>2, MatchingFacts, TokenFacts DEF EvidenceInv, RingOK
  <2> QED
    BY <2>1, <2>2, <2>3, <2>4
<1>2. EvidenceInv /\ [Next]_vars =>
         [\A m \in Machines : \A k \in 1 .. MaxQueued : \A s \in Slots :
            Claims(m, k) /\ scope'.claim.kind = "ActiveRequest"
              /\ EvidenceOf(s, m, k) =>
                 ring[s].token = scope'.claim.token]_vars
  BY <1>1
<1> QED
  BY <1>2, EvidenceInvariant, PTL DEF Spec, OwnEvidenceOnly

(* A transition whose evidence is still in the ring is given to the        *)
(* request it was queued for, and rejected unless that request is held.    *)
THEOREM ReturnedTransitionsAreRejected == Spec => ReleasedIsRejected
<1>1. ASSUME EvidenceInv, [Next]_vars, NEW m \in Machines,
             NEW k \in 1 .. MaxQueued, Claims(m, k), Survives(m, k),
             Unique(m, k)
      PROVE  /\ scope'.claim.token = queued[m][k]
             /\ scope'.claim.kind = "CanceledRequest" \/
                  (scope'.claim.kind = "ActiveRequest" /\ side = "held"
                     /\ token = queued[m][k])
  <2> DEFINE S == Matching(m, Bytes(k))
             t == queued[m][k]
  <2>1. k = executed[m] + 1 /\ executed[m] \in Nat
    BY <1>1, ClaimFacts
  <2>2. PICK airborne \in BOOLEAN :
           /\ scope'.claim.kind = Classify(S, airborne)
           /\ scope'.claim.token = IF QueuedToken(S) # 0 THEN QueuedToken(S)
                                                         ELSE token
    BY <1>1, ClaimFacts
  <2>3. PICK i \in 1 .. Len(posted) : posted[i] = <<m, k>>
    BY <1>1 DEF Survives, EvidenceInv, RingTypeOK
  <2>4. PICK p \in Slots : Occupied(p) /\ ring[p].machine = m /\ ring[p].at = k
    <3>1. Place(i) \in Slots
      BY <1>1, PlaceIsSlot DEF EvidenceInv, RingTypeOK, PlaceInv
    <3> QED
      BY <1>1, <2>3, <3>1 DEF EvidenceInv, PlaceInv
  <2>5. /\ \A s \in Slots : Occupied(s) /\ ring[s].machine = m =>
              /\ ring[s].at \in 1 .. Len(queued[m])
              /\ ring[s].token = queued[m][ring[s].at]
              /\ ring[s].bytes = Bytes(ring[s].at)
              /\ ring[s].consumed =>
                   \E j \in 1 .. executed[m] : Bytes(j) = ring[s].bytes
        /\ \A j \in 1 .. Len(queued[m]) : Bytes(j) = Bytes(k) => j = k
        /\ executed[m] <= Len(queued[m]) /\ Len(queued[m]) \in Nat
    BY <1>1 DEF EvidenceInv, RingInv, Origin, Unique, GameTypeOK
  <2>6. ~ring[p].consumed /\ ring[p].bytes = Bytes(k) /\ ring[p].token = t
    <3>1. \A j \in 1 .. executed[m] : j \in 1 .. Len(queued[m]) /\ j # k
      BY <2>1, <2>5
    <3> QED
      BY <2>4, <2>5, <3>1
  <2>7. p \in S
    BY <2>4, <2>6 DEF Matching
  <2>8. \A s \in S : ring[s].token = t
    BY <2>5 DEF Matching
  <2>9. S # {} /\ ~Ambiguous(S)
    BY <2>7, <2>8 DEF Ambiguous
  <2>10. QueuedToken(S) = t
    BY <1>1, <2>7, <2>8, <2>9, MatchingFacts, TokenFacts
       DEF EvidenceInv, RingOK
  <2>11. t # 0
    BY <1>1, <2>4, <2>6 DEF EvidenceInv, RingTypeOK, Occupied, Evidence, Tokens
  <2>12. \/ Classify(S, airborne) = "CanceledRequest"
         \/ /\ Classify(S, airborne) = "ActiveRequest"
            /\ side = "held" /\ token = QueuedToken(S)
    BY <2>9 DEF Classify
  <2> QED
    BY <2>2, <2>10, <2>11, <2>12
<1>2. EvidenceInv /\ [Next]_vars =>
         [\A m \in Machines : \A k \in 1 .. MaxQueued :
            Claims(m, k) /\ Survives(m, k) /\ Unique(m, k) =>
             /\ scope'.claim.token = queued[m][k]
             /\ scope'.claim.kind = "CanceledRequest" \/
                  (scope'.claim.kind = "ActiveRequest" /\ side = "held"
                     /\ token = queued[m][k])]_vars
  BY <1>1
<1> QED
  BY <1>2, EvidenceInvariant, PTL DEF Spec, ReleasedIsRejected

(* The scope is given away with the first Enter and the claim ends with    *)
(* its answer, so no transition is granted an Enter twice.                 *)
THEOREM OneEnterEach == Spec => OneEnterPerTransition
<1>1. EvidenceInv /\ [Next]_vars =>
         [claim.kind = "ActiveRequest" /\ claim' = NoClaim
            /\ side' = "held" /\ token = claim.token
            => <<claim.machine, claim.at>> \notin granted]_vars
  BY DEF EvidenceInv, GrantInv
<1> QED
  BY <1>1, EvidenceInvariant, PTL DEF Spec, OneEnterPerTransition
=============================================================================
