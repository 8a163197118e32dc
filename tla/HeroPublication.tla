-------------------------- MODULE HeroPublication --------------------------
(***************************************************************************)
(* g_hero (ManualWebRuntime.cpp): the sequence lock through which the      *)
(* hunter hook publishes the hero's binding and both input handlers and    *)
(* the submit hook read it.                                                *)
(*                                                                         *)
(* Data is abstracted to publication numbers: a field holds the number of  *)
(* the publication that stored it, 0 before the first.  Accesses take      *)
(* effect one at a time in program order, which is what an x64 build of    *)
(* these atomics does: the read-modify-writes of the sequence are locked   *)
(* instructions, stores are not reordered with stores nor loads with loads.*)
(* A publication that finds g_heroWriter taken is dropped: no step.        *)
(***************************************************************************)
EXTENDS Integers

CONSTANTS
    Writers, Readers,   \* threads that run ObserveHunter, that run ReadHero
    FieldCount,         \* fields of the record after the sequence (7)
    Attempts,           \* attempts of one ReadHero (8)
    MaxSequence         \* bound of the exploration: writers stop there

ASSUME PublicationAssumption ==
    /\ FieldCount \in Nat \ {0}
    /\ Attempts \in Nat \ {0}
    /\ MaxSequence \in Nat

VARIABLES
    sequence, flag, cells,      \* g_hero and g_heroWriter
    wpc, wnext,                 \* writers: program counter, next field
    rpc, rnext, attempt,        \* readers: program counter, field, attempt
    before, got                 \* readers: sequence and fields as loaded

writerVars == <<wpc, wnext>>
readerVars == <<rpc, rnext, attempt, before, got>>
vars == <<sequence, flag, cells, writerVars, readerVars>>

Fields == 1 .. FieldCount
Versions == 0 .. MaxSequence
WriterPCs == {"idle", "open", "store", "close", "release"}
ReaderPCs == {"idle", "begin", "load", "check", "proved", "confirmed"}

\* A sequence is odd while a publication is being stored; Published is the
\* number of those completed.
Odd(n) == n % 2 = 1
Published(n) == n \div 2

TypeOK ==
    /\ sequence \in Nat
    /\ flag \in BOOLEAN
    /\ cells \in [Fields -> Versions]
    /\ wpc \in [Writers -> WriterPCs]
    /\ wnext \in [Writers -> Fields]
    /\ rpc \in [Readers -> ReaderPCs]
    /\ rnext \in [Readers -> Fields]
    /\ attempt \in [Readers -> 1 .. Attempts]
    /\ before \in [Readers -> Nat]
    /\ got \in [Readers -> [Fields -> Versions]]

Init ==
    /\ sequence = 0
    /\ flag = FALSE
    /\ cells = [f \in Fields |-> 0]
    /\ wpc = [w \in Writers |-> "idle"]
    /\ wnext = [w \in Writers |-> 1]
    /\ rpc = [r \in Readers |-> "idle"]
    /\ rnext = [r \in Readers |-> 1]
    /\ attempt = [r \in Readers |-> 1]
    /\ before = [r \in Readers |-> 0]
    /\ got = [r \in Readers |-> [f \in Fields |-> 0]]
-----------------------------------------------------------------------------
(* PublishHero                                                             *)
Advance(w, from, to) ==
    /\ wpc[w] = from
    /\ wpc' = [wpc EXCEPT ![w] = to]
    /\ UNCHANGED readerVars

\* Publishing without the writer flag (mutant).
TakeFlagUntested(w) ==
    /\ Advance(w, "idle", "open")
    /\ sequence + 1 < MaxSequence
    /\ flag' = TRUE
    /\ UNCHANGED <<sequence, cells, wnext>>

\* test_and_set; the bound leaves room for both increments.
TakeFlag(w) ==
    /\ Advance(w, "idle", "open")
    /\ sequence + 1 < MaxSequence
    /\ ~flag
    /\ flag' = TRUE
    /\ UNCHANGED <<sequence, cells, wnext>>

Open(w) ==
    /\ Advance(w, "open", "store")
    /\ sequence' = sequence + 1
    /\ wnext' = [wnext EXCEPT ![w] = 1]
    /\ UNCHANGED <<flag, cells>>

\* The publication in progress is the next to be completed.
Store(w) ==
    /\ Advance(w, "store", IF wnext[w] = FieldCount THEN "close" ELSE "store")
    /\ cells' = [cells EXCEPT ![wnext[w]] = Published(sequence + 1)]
    /\ wnext' = [wnext EXCEPT ![w] = IF @ = FieldCount THEN @ ELSE @ + 1]
    /\ UNCHANGED <<sequence, flag>>

Close(w) ==
    /\ Advance(w, "close", "release")
    /\ sequence' = sequence + 1
    /\ UNCHANGED <<flag, cells, wnext>>

ReleaseFlag(w) ==
    /\ Advance(w, "release", "idle")
    /\ flag' = FALSE
    /\ UNCHANGED <<sequence, cells, wnext>>
-----------------------------------------------------------------------------
(* ReadHero                                                                *)
Goto(r, pc) == rpc' = [rpc EXCEPT ![r] = pc]

Start(r) ==
    /\ rpc[r] = "idle"
    /\ Goto(r, "begin")
    /\ attempt' = [attempt EXCEPT ![r] = 1]
    /\ UNCHANGED <<sequence, flag, cells, writerVars, rnext, before, got>>

\* The next turn of the loop, or false after the last one.
Retry(r) ==
    IF attempt[r] = Attempts
      THEN Goto(r, "idle") /\ UNCHANGED attempt
      ELSE Goto(r, "begin") /\ attempt' = [attempt EXCEPT ![r] = @ + 1]

Begin(r) ==
    /\ rpc[r] = "begin"
    /\ \/ /\ Odd(sequence)
          /\ Retry(r)
          /\ UNCHANGED <<rnext, before>>
       \/ /\ ~Odd(sequence)
          /\ Goto(r, "load")
          /\ before' = [before EXCEPT ![r] = sequence]
          /\ rnext' = [rnext EXCEPT ![r] = 1]
          /\ UNCHANGED attempt
    /\ UNCHANGED <<sequence, flag, cells, writerVars, got>>

Load(r) ==
    /\ rpc[r] = "load"
    /\ got' = [got EXCEPT ![r][rnext[r]] = cells[rnext[r]]]
    /\ Goto(r, IF rnext[r] = FieldCount THEN "check" ELSE "load")
    /\ rnext' = [rnext EXCEPT ![r] = IF @ = FieldCount THEN @ ELSE @ + 1]
    /\ UNCHANGED <<sequence, flag, cells, writerVars, attempt, before>>

\* Only the parity of the second load is looked at (mutant).
StableIfEven(r) == ~Odd(sequence)

Stable(r) == sequence = before[r] /\ ~Odd(sequence)

\* A stable record is returned, unless nothing was ever published.
Check(r) ==
    /\ rpc[r] = "check"
    /\ \/ /\ Stable(r)
          /\ Goto(r, IF got[r][1] # 0 THEN "proved" ELSE "idle")
          /\ UNCHANGED attempt
       \/ /\ ~Stable(r)
          /\ Retry(r)
    /\ UNCHANGED <<sequence, flag, cells, writerVars, rnext, before, got>>

\* The eligibility proof is accepted without its last look (mutant).
ConfirmBlindly(r) ==
    /\ rpc[r] = "proved"
    /\ Goto(r, "confirmed")
    /\ UNCHANGED <<sequence, flag, cells, writerVars, rnext, attempt, before,
                   got>>

\* The end of EligibilityForDown and ControllerEligibilityForDown: the record
\* is still the one read before the mover was revalidated.
Confirm(r) ==
    /\ rpc[r] = "proved"
    /\ sequence = before[r]
    /\ Goto(r, "confirmed")
    /\ UNCHANGED <<sequence, flag, cells, writerVars, rnext, attempt, before,
                   got>>

\* The caller is done with the snapshot, or rejects it.
Finish(r) ==
    /\ rpc[r] \in {"proved", "confirmed"}
    /\ Goto(r, "idle")
    /\ UNCHANGED <<sequence, flag, cells, writerVars, rnext, attempt, before,
                   got>>
-----------------------------------------------------------------------------
Publish(w) ==
    TakeFlag(w) \/ Open(w) \/ Store(w) \/ Close(w) \/ ReleaseFlag(w)

ReadHero(r) ==
    Start(r) \/ Begin(r) \/ Load(r) \/ Check(r) \/ Confirm(r) \/ Finish(r)

Next ==
    \/ \E w \in Writers : Publish(w)
    \/ \E r \in Readers : ReadHero(r)

Spec == Init /\ [][Next]_vars
-----------------------------------------------------------------------------
Holding(r) == rpc[r] \in {"proved", "confirmed"}

(* A snapshot ReadHero returned is one publication, never fields of two:   *)
(* its handle and mover belong to its hunter.                              *)
NoTornSnapshot ==
    \A r \in Readers : Holding(r) => \A f \in Fields : got[r][f] = Published(before[r])

(* A proof accepted by an eligibility check is of the publication in force *)
(* at that very moment, not of one replaced while the mover was looked at. *)
ProofCurrent ==
    [][\A r \in Readers :
          rpc[r] = "proved" /\ rpc'[r] = "confirmed"
            => ~Odd(sequence) /\ cells = got[r]]_vars

(* The sequence lock implements the atomic register.                       *)
Register == INSTANCE HeroRegister WITH
              value <- Published(sequence),
              seen <- [r \in Readers |-> IF Holding(r) THEN got[r][1] ELSE 0]
AtomicRegister == Register!Spec
=============================================================================
