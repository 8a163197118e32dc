---------------------------- MODULE SubmitEvidence ----------------------------
(***************************************************************************)
(* ManualWebRuntime.cpp as it is built without TRUESWING_CONTROLS_ONLY:    *)
(* how a side request comes to own the Enter of the swing it has caused.   *)
(*                                                                         *)
(* A submission leaves a pending publication, the copy of its payload and  *)
(* the request of the transition turn it into evidence in a ring, and the  *)
(* executor, later and perhaps on another thread, consumes the evidence    *)
(* that has the bytes of the transition it executes.  What the three hooks *)
(* do under g_sideRequestLock is one step.                                 *)
(*                                                                         *)
(* The bytes of a transition are its points and a sequence number that the *)
(* machine counts modulo 2^8.  All points are equal here, so two           *)
(* transitions of a machine look alike when their numbers are congruent.   *)
(***************************************************************************)
EXTENDS Integers, Sequences

CONSTANTS
    Machines,       \* transition machines of the game
    NoMachine,
    Capacity,       \* kQueuedSubmitEvidenceCapacity
    SequenceWidth,  \* 2^8
    MaxTokens,      \* bound: requests
    MaxQueued       \* bound: transitions queued per machine

ASSUME EvidenceAssumption ==
    /\ NoMachine \notin Machines
    /\ Capacity \in Nat \ {0}
    /\ SequenceWidth \in Nat \ {0}
    /\ MaxTokens \in Nat
    /\ MaxQueued \in Nat

VARIABLES
    token, side,    \* g_sideRequest
    ring, next,     \* g_queuedSubmitEvidence, g_nextQueuedSubmitEvidence
    consumed,       \* g_consumedSubmitToken
    pending,        \* g_pendingSubmitPublication
    posting,        \* a RequestTransition between native call and evidence
    queued,         \* per machine, the requests its transitions came from
    executed,       \* per machine, how many of them are executed or dropped
    scope,          \* g_executorEnterScope
    claim,          \* an Enter between its claim and its completion
    posted,         \* history: transitions of the last Capacity publications
    granted         \* history: transitions whose Enter was granted

requestVars == <<token, side>>
ringVars == <<ring, next, consumed, posted>>
submitVars == <<pending, posting>>
gameVars == <<queued, executed>>
enterVars == <<scope, claim, granted>>
vars == <<requestVars, ringVars, submitVars, gameVars, enterVars>>

Tokens == 1 .. MaxTokens
Slots == 0 .. Capacity - 1
Bytes(k) == k % SequenceWidth
Kinds == {"Vanilla", "ActiveRequest", "CanceledRequest"}

\* `at' is history: the transition the evidence was published for.
Evidence == [token : Tokens, machine : Machines, bytes : 0 .. SequenceWidth - 1,
             canceled : BOOLEAN, consumed : BOOLEAN, at : 1 .. MaxQueued]
Free == [token |-> 0]
Occupied(s) == ring[s] # Free

NoPending == [token |-> 0, copied |-> FALSE]
NoPosting == [token |-> 0, machine |-> NoMachine, at |-> 0]
NoClaim == [kind |-> "none", token |-> 0, machine |-> NoMachine, at |-> 0]
NoScope == [claim |-> NoClaim, valid |-> FALSE]

Init ==
    /\ token = 0 /\ side = "none"
    /\ ring = [s \in Slots |-> Free] /\ next = 0 /\ consumed = 0
    /\ pending = NoPending /\ posting = NoPosting
    /\ queued = [m \in Machines |-> <<>>]
    /\ executed = [m \in Machines |-> 0]
    /\ scope = NoScope /\ claim = NoClaim
    /\ posted = <<>> /\ granted = {}
-----------------------------------------------------------------------------
(* The request.                                                            *)
HasRequest == side # "none"

\* CancelQueuedSubmitEvidenceLocked
Canceled(r, t) ==
    [s \in Slots |-> IF r[s] # Free /\ r[s].token = t /\ ~r[s].consumed
                       THEN [r[s] EXCEPT !.canceled = TRUE] ELSE r[s]]

\* The evidence is left as it is (mutant).
MarkRequestOnly(r) ==
    /\ side' = IF side = "held" THEN "canceling" ELSE side
    /\ ring' = r

\* MarkSideRequestCancelingLocked, on a ring that may just have been changed.
MarkCanceling(r) ==
    /\ side' = IF side = "held" THEN "canceling" ELSE side
    /\ ring' = IF side = "held" THEN Canceled(r, token) ELSE r

\* PublishSideRequest: the policy attaches only when no hold is left.
Press ==
    /\ side = "none" /\ token < MaxTokens
    /\ token' = token + 1
    /\ side' = "held"
    /\ UNCHANGED <<ringVars, submitVars, gameVars, enterVars>>

\* BeginSideRequestCancellation
BeginCancellation ==
    /\ HasRequest
    /\ MarkCanceling(ring)
    /\ UNCHANGED <<token, next, consumed, posted, submitVars, gameVars, enterVars>>

\* ClearSideRequest, after the above or when the runtime is shut off.
Clear ==
    /\ HasRequest
    /\ side' = "none"
    /\ ring' = IF side = "held" THEN Canceled(ring, token) ELSE ring
    /\ UNCHANGED <<token, next, consumed, posted, submitVars, gameVars, enterVars>>
-----------------------------------------------------------------------------
(* The submission and its way into the queue, on one thread.               *)
\* HookSwingPointSubmit: staged when the request is held, its hero and side
\* are proved and the native call succeeds; everything else unstages.
Submit ==
    /\ posting = NoPosting
    /\ pending' \in {NoPending} \cup
          (IF side = "held" THEN {[token |-> token, copied |-> FALSE]} ELSE {})
    /\ UNCHANGED <<requestVars, ringVars, posting, gameVars, enterVars>>

\* HookSwingTransitionPayloadCopy: with the submission's points or others.
CopyPayload ==
    /\ posting = NoPosting
    /\ pending # NoPending
    /\ pending' \in {NoPending, [pending EXCEPT !.copied = TRUE]}
    /\ UNCHANGED <<requestVars, ringVars, posting, gameVars, enterVars>>

\* The native part of HookRequestTransition: a transition of machine m is
\* queued for request t, or for none that could be proved (0).
Enqueue(m, t) ==
    /\ Len(queued[m]) < MaxQueued
    /\ queued' = [queued EXCEPT ![m] = Append(@, t)]

\* Another caller, another payload or another key: nothing is staged, and
\* what is pending stays pending.
RequestOther(m) ==
    /\ posting = NoPosting
    /\ Enqueue(m, 0)
    /\ UNCHANGED <<requestVars, ringVars, submitVars, executed, enterVars>>

\* The request that was staged.  The queue may refuse it or not look before
\* and after the call as it must, or it did take exactly these bytes.
RequestStaged(m) ==
    /\ posting = NoPosting
    /\ pending.copied
    /\ pending' = NoPending
    /\ \/ UNCHANGED <<posting, queued>>
       \/ Enqueue(m, 0) /\ UNCHANGED posting
       \/ /\ Enqueue(m, pending.token)
          /\ posting' = [token |-> pending.token, machine |-> m,
                         at |-> Len(queued[m]) + 1]
    /\ UNCHANGED <<requestVars, ringVars, executed, enterVars>>

\* The index runs off the ring (mutant).
FollowingUnwrapped(s) == s + 1

Following(s) == (s + 1) % Capacity

LastOf(q) == IF Len(q) <= Capacity THEN q ELSE Tail(q)

\* PublishQueuedSubmitEvidenceLocked: a consumed request gets no more.
Publish(e) ==
    IF e.token <= consumed
      THEN UNCHANGED <<ring, next, posted>>
      ELSE /\ ring' = [ring EXCEPT ![next] = e]
           /\ next' = Following(next)
           /\ posted' = LastOf(Append(posted, <<e.machine, e.at>>))

\* The end of HookRequestTransition.  The request may be gone by now.
Post ==
    /\ posting # NoPosting
    /\ \E airborne \in BOOLEAN :   \* RequestMatchesCurrentAirborneHero
         Publish([token |-> posting.token, machine |-> posting.machine,
                  bytes |-> Bytes(posting.at), at |-> posting.at,
                  canceled |-> ~(side = "held" /\ token = posting.token
                                 /\ airborne),
                  consumed |-> FALSE])
    /\ posting' = NoPosting
    /\ UNCHANGED <<requestVars, consumed, pending, gameVars, enterVars>>
-----------------------------------------------------------------------------
(* The executor.                                                           *)
\* Cancelled evidence is passed over (mutant).
MatchingUncanceled(m, b) ==
    {s \in Slots : /\ Occupied(s)
                   /\ ~ring[s].consumed /\ ~ring[s].canceled
                   /\ ring[s].machine = m /\ ring[s].bytes = b}

Matching(m, b) ==
    {s \in Slots : /\ Occupied(s)
                   /\ ~ring[s].consumed
                   /\ ring[s].machine = m /\ ring[s].bytes = b}

Ambiguous(S) == \E s, t \in S : ring[s].token # ring[t].token

\* ConsumeQueuedSubmitEvidenceLocked: all that match are consumed, and the
\* token is 0 unless they agree on one.
Consumed(S) == [s \in Slots |-> IF s \in S THEN [ring[s] EXCEPT !.consumed = TRUE]
                                ELSE ring[s]]
QueuedToken(S) ==
    IF S = {} \/ Ambiguous(S) THEN 0
    ELSE ring[CHOOSE s \in S : \A t \in S : s <= t].token
QueuedCanceled(S) == \E s \in S : ring[s].canceled
GreatestToken(S) ==
    CHOOSE t \in {consumed} \cup {ring[s].token : s \in S} :
        /\ t >= consumed
        /\ \A s \in S : t >= ring[s].token

\* ClassifyManualWebEnter
Classify(S, airborne) ==
    IF Ambiguous(S) THEN "CanceledRequest"
    ELSE IF S # {}
      THEN IF ~QueuedCanceled(S) /\ side = "held" /\ token = QueuedToken(S)
                /\ airborne
             THEN "ActiveRequest" ELSE "CanceledRequest"
      ELSE IF HasRequest THEN "CanceledRequest" ELSE "Vanilla"

\* BuildExecutorEnterClaimLocked, at the head of HookExecuteTransition; the
\* scope lasts as long as the native call.
Execute(m) ==
    /\ scope = NoScope /\ claim = NoClaim
    /\ executed[m] < Len(queued[m])
    /\ executed' = [executed EXCEPT ![m] = @ + 1]
    /\ LET k == executed[m] + 1
           S == Matching(m, Bytes(k))
           t == QueuedToken(S)
       IN \E airborne \in BOOLEAN :
            LET kind == Classify(S, airborne) IN
            /\ consumed' = GreatestToken(S)
            /\ IF kind = "CanceledRequest" /\ HasRequest /\ t \in {0, token}
                 THEN MarkCanceling(Consumed(S))
                 ELSE ring' = Consumed(S) /\ UNCHANGED side
            /\ scope' = [claim |-> [kind |-> kind, machine |-> m, at |-> k,
                                    token |-> IF t # 0 THEN t ELSE token],
                         valid |-> TRUE]
    /\ UNCHANGED <<token, next, posted, submitVars, queued, claim, granted>>

\* The scope stays open for a repeat (mutant).
ClaimScopedAgain ==
    /\ claim = NoClaim
    /\ scope.valid
    /\ claim' = scope.claim
    /\ UNCHANGED <<requestVars, ringVars, submitVars, gameVars, scope, granted>>

\* ClaimManualWebSwingEnter, for the payload that is being executed.
ClaimScoped ==
    /\ claim = NoClaim
    /\ scope.valid
    /\ claim' = scope.claim
    /\ scope' = [scope EXCEPT !.valid = FALSE]
    /\ UNCHANGED <<requestVars, ringVars, submitVars, gameVars, granted>>

\* ... and for any other Enter: a repeat, or one outside of the executor.
ClaimUnscoped ==
    /\ claim = NoClaim
    /\ MarkCanceling(ring)
    /\ claim' = [NoClaim EXCEPT
                    !.kind = IF HasRequest THEN "CanceledRequest" ELSE "Vanilla",
                    !.token = IF HasRequest THEN token ELSE 0]
    /\ UNCHANGED <<token, next, consumed, posted, submitVars, gameVars, scope,
                   granted>>

\* CompleteManualWebSwingEnter, with its answer.
Complete ==
    /\ claim # NoClaim
    /\ \E airborne \in BOOLEAN :
         LET current == /\ claim.kind = "ActiveRequest"
                        /\ side = "held" /\ token = claim.token
         IN /\ granted' = IF current /\ airborne
                            THEN granted \cup {<<claim.machine, claim.at>>}
                            ELSE granted
            /\ IF current /\ ~airborne THEN MarkCanceling(ring)
                                       ELSE UNCHANGED <<side, ring>>
    /\ claim' = NoClaim
    /\ UNCHANGED <<token, next, consumed, posted, submitVars, gameVars, scope>>

\* The native execution returns.
EndExecute ==
    /\ scope # NoScope /\ claim = NoClaim
    /\ scope' = NoScope
    /\ UNCHANGED <<requestVars, ringVars, submitVars, gameVars, claim, granted>>

\* The game discards a queued transition.
Drop(m) ==
    /\ executed[m] < Len(queued[m])
    /\ executed' = [executed EXCEPT ![m] = @ + 1]
    /\ UNCHANGED <<requestVars, ringVars, submitVars, queued, enterVars>>
-----------------------------------------------------------------------------
Input == Press \/ BeginCancellation \/ Clear
Traverse ==
    \/ Submit \/ CopyPayload \/ Post
    \/ \E m \in Machines : RequestOther(m) \/ RequestStaged(m)
Enter ==
    \/ \E m \in Machines : Execute(m) \/ Drop(m)
    \/ ClaimScoped \/ ClaimUnscoped \/ Complete \/ EndExecute

Next == Input \/ Traverse \/ Enter

Spec == Init /\ [][Next]_vars
-----------------------------------------------------------------------------
TypeOK ==
    /\ token \in 0 .. MaxTokens /\ side \in {"none", "held", "canceling"}
    /\ ring \in [Slots -> Evidence \cup {Free}]
    /\ next \in Slots /\ consumed \in 0 .. MaxTokens
    /\ pending \in [token : 0 .. MaxTokens, copied : BOOLEAN]
    /\ posting.token \in 0 .. MaxTokens
    /\ queued \in [Machines -> Seq(0 .. MaxTokens)]
    /\ executed \in [Machines -> 0 .. MaxQueued]
    /\ {scope.claim.kind, claim.kind} \subseteq Kinds \cup {"none"}
    /\ granted \subseteq Machines \X (1 .. MaxQueued)

(* Evidence that could still authorize an Enter belongs to the request     *)
(* that is held: whatever else is in the ring has been cancelled.          *)
EvidenceOfHeldOnly ==
    \A s \in Slots : Occupied(s) /\ ~ring[s].consumed /\ ~ring[s].canceled
                       => side = "held" /\ ring[s].token = token

(* The step in which the executor claims transition k of machine m.        *)
Claims(m, k) == scope = NoScope /\ scope' # NoScope
                  /\ scope'.claim.machine = m /\ scope'.claim.at = k

EvidenceOf(s, m, k) ==
    Occupied(s) /\ ~ring[s].consumed /\ ring[s].machine = m /\ ring[s].at = k

(* A request never owns a transition that has evidence of another one,     *)
(* even when their bytes are equal.                                        *)
OwnEvidenceOnly ==
    [][\A m \in Machines : \A k \in 1 .. MaxQueued : \A s \in Slots :
          Claims(m, k) /\ scope'.claim.kind = "ActiveRequest"
            /\ EvidenceOf(s, m, k) => ring[s].token = scope'.claim.token]_vars

(* A transition whose evidence is in the ring goes to its own request, and *)
(* to nobody once that one is let go: it is not taken for a stock one, nor *)
(* for the next request's.  Left out are the transitions without evidence: *)
(* what is not published yet, what was refused because the request had a   *)
(* transition consumed before, what Capacity later publications have       *)
(* overwritten; and those that look like another one of their machine.     *)
Survives(m, k) == \E i \in DOMAIN posted : posted[i] = <<m, k>>
Unique(m, k) ==
    \A j \in DOMAIN queued[m] : Bytes(j) = Bytes(k) => j = k
ReleasedIsRejected ==
    [][\A m \in Machines : \A k \in 1 .. MaxQueued :
          Claims(m, k) /\ Survives(m, k) /\ Unique(m, k) =>
             /\ scope'.claim.token = queued[m][k]
             /\ scope'.claim.kind = "CanceledRequest" \/
                  (scope'.claim.kind = "ActiveRequest" /\ side = "held"
                     /\ token = queued[m][k])]_vars

(* "The canceled queued-payload evidence rejects any already-returned      *)
(* transition after the request itself is cleared": no transition that a   *)
(* request has caused, and whose native call has returned, is the game's   *)
(* own after the request is gone.                                          *)
ReturnedIsRejected ==
    [][\A m \in Machines : \A k \in 1 .. MaxQueued :
          /\ Claims(m, k)
          /\ queued[m][k] # 0 /\ <<posting.machine, posting.at>> # <<m, k>>
          /\ side = "none"
          => scope'.claim.kind = "CanceledRequest"]_vars

(* A transition that reaches several Enters owns at most one of them.      *)
OneEnterPerTransition ==
    [][claim.kind = "ActiveRequest" /\ claim' = NoClaim
         /\ side' = "held" /\ token = claim.token
         => <<claim.machine, claim.at>> \notin granted]_vars
=============================================================================
