----------------------------- MODULE HeroProofs -----------------------------
(***************************************************************************)
(* Proofs about the hero publication, for every number of writers, of      *)
(* readers, of fields and of attempts.                                     *)
(***************************************************************************)
EXTENDS HeroPublication, TLAPS

Storing(w) == wpc[w] \in {"store", "close"}
Read(r) == rpc[r] \in {"load", "check", "proved", "confirmed"}

\* One writer holds the flag, the sequence is odd while it stores, and the
\* bound of the exploration leaves it room.
WriterInv ==
    /\ sequence <= MaxSequence
    /\ \A w \in Writers :
          /\ wpc[w] # "idle" => flag
          /\ wpc[w] = "open" => sequence + 1 < MaxSequence
          /\ Storing(w) => Odd(sequence) /\ sequence < MaxSequence
    /\ \A w, u \in Writers : wpc[w] # "idle" /\ wpc[u] # "idle" => w = u
    /\ Odd(sequence) => \E w \in Writers : Storing(w)

\* At an even sequence all fields are of the last publication; a field
\* already stored is of the next one.
CellInv ==
    /\ ~Odd(sequence) => \A f \in Fields : cells[f] = Published(sequence)
    /\ \A w \in Writers :
          /\ wpc[w] = "store" =>
                \A f \in Fields :
                   f < wnext[w] => cells[f] = Published(sequence + 1)
          /\ wpc[w] = "close" =>
                \A f \in Fields : cells[f] = Published(sequence + 1)

\* As long as the sequence has not moved, what a reader has loaded is of the
\* publication it started with; what it returned is so for good.
ReaderOK(r) ==
    /\ Read(r) => ~Odd(before[r]) /\ before[r] <= sequence
    /\ rpc[r] = "load" /\ before[r] = sequence =>
          \A f \in Fields : f < rnext[r] => got[r][f] = Published(before[r])
    /\ rpc[r] = "check" /\ before[r] = sequence =>
          \A f \in Fields : got[r][f] = Published(before[r])
    /\ Holding(r) => \A f \in Fields : got[r][f] = Published(before[r])

ReaderInv == \A r \in Readers : ReaderOK(r)

IInv == TypeOK /\ WriterInv /\ CellInv /\ ReaderInv

\* The arithmetic of the sequence, used by name from here on.
LEMMA Parity ==
    ASSUME NEW n \in Nat
    PROVE  /\ Published(n) \in Nat
           /\ Published(n) <= n
           /\ Odd(n) => ~Odd(n + 1) /\ Published(n + 1) = Published(n) + 1
           /\ ~Odd(n) => Odd(n + 1) /\ Published(n + 1) = Published(n)
           /\ n # 0 => Published(n + 1) <= n
           /\ ~Odd(0) /\ Published(0) = 0
BY SMT DEF Odd, Published

LEMMA InitInv == Init => IInv
<1> SUFFICES ASSUME Init PROVE IInv
  OBVIOUS
<1>1. /\ MaxSequence \in Nat /\ Attempts \in Nat \ {0}
      /\ FieldCount \in Nat \ {0} /\ 1 \in Fields
  BY PublicationAssumption DEF Fields
<1>2. TypeOK
  <2>1. 0 \in Versions /\ 1 \in 1 .. Attempts
    BY <1>1 DEF Versions
  <2>2. sequence \in Nat /\ flag \in BOOLEAN /\ cells \in [Fields -> Versions]
    BY <2>1 DEF Init
  <2>3. wpc \in [Writers -> WriterPCs] /\ wnext \in [Writers -> Fields]
    BY <1>1 DEF Init, WriterPCs
  <2>4. rpc \in [Readers -> ReaderPCs] /\ rnext \in [Readers -> Fields]
    BY <1>1 DEF Init, ReaderPCs
  <2>5. attempt \in [Readers -> 1 .. Attempts] /\ before \in [Readers -> Nat]
    BY <2>1 DEF Init
  <2>6. [f \in Fields |-> 0] \in [Fields -> Versions]
    BY <2>1
  <2>7. got \in [Readers -> [Fields -> Versions]]
    BY <2>6 DEF Init
  <2>8. QED
    BY <2>2, <2>3, <2>4, <2>5, <2>7 DEF TypeOK
<1>3. ~Odd(0) /\ Published(0) = 0
  BY Parity
<1>4. WriterInv /\ CellInv /\ ReaderInv
  BY <1>1, <1>3
  DEF Init, WriterInv, CellInv, ReaderInv, ReaderOK, Storing, Read, Holding
<1>5. QED
  BY <1>2, <1>4 DEF IInv
-----------------------------------------------------------------------------
(* Steps of a writer.                                                      *)

\* Readers do not mind a sequence that stays or grows.
LEMMA ReaderFrame ==
    ASSUME IInv, UNCHANGED readerVars, sequence' \in Nat, sequence <= sequence'
    PROVE  ReaderInv'
<1>1. \A r \in Readers : before[r] \in Nat
  BY DEF IInv, TypeOK
<1>2. sequence \in Nat
  BY DEF IInv, TypeOK
<1>3. QED
  BY <1>1, <1>2 DEF IInv, ReaderInv, ReaderOK, readerVars, Read, Holding

\* A step of one writer's program counter, for one that holds the flag, or
\* for the first to take it.
LEMMA TakeFlagStep ==
    ASSUME IInv, NEW w \in Writers, TakeFlag(w)
    PROVE  IInv'
<1> USE DEF IInv
<1>1. /\ wpc[w] = "idle" /\ ~flag /\ flag'
      /\ sequence + 1 < MaxSequence
      /\ sequence' = sequence /\ cells' = cells /\ wnext' = wnext
      /\ wpc' = [wpc EXCEPT ![w] = "open"]
      /\ UNCHANGED readerVars
  BY DEF TakeFlag, Advance
<1>2. TypeOK'
  BY <1>1 DEF TypeOK, TakeFlag, readerVars, WriterPCs
<1>3. \A u \in Writers : wpc[u] = "idle"
  BY <1>1 DEF WriterInv
<1>4. \A u \in Writers : wpc'[u] = IF u = w THEN "open" ELSE "idle"
  BY <1>1, <1>3 DEF TypeOK
<1>5. WriterInv'
  BY <1>1, <1>3, <1>4 DEF WriterInv, Storing, TakeFlag
<1>6. CellInv'
  BY <1>1, <1>4 DEF CellInv
<1>7. ReaderInv'
  BY <1>1, ReaderFrame DEF TypeOK
<1>8. QED
  BY <1>2, <1>5, <1>6, <1>7

LEMMA OpenStep ==
    ASSUME IInv, NEW w \in Writers, Open(w)
    PROVE  IInv'
<1> USE DEF IInv
<1>1. /\ wpc[w] = "open"
      /\ sequence' = sequence + 1
      /\ flag' = flag /\ cells' = cells
      /\ wnext' = [wnext EXCEPT ![w] = 1]
      /\ wpc' = [wpc EXCEPT ![w] = "store"]
      /\ UNCHANGED readerVars
  BY DEF Open, Advance
<1>2. 1 \in Fields /\ sequence \in Nat /\ MaxSequence \in Nat
  BY PublicationAssumption DEF Fields, TypeOK
<1>3. TypeOK'
  BY <1>1, <1>2 DEF TypeOK, readerVars, WriterPCs
<1>4. \A u \in Writers : u # w => wpc[u] = "idle"
  BY <1>1 DEF WriterInv
<1>5. \A u \in Writers : wpc'[u] = IF u = w THEN "store" ELSE "idle"
  BY <1>1, <1>4 DEF TypeOK
<1>6. ~Odd(sequence)
  BY <1>1, <1>4 DEF WriterInv, Storing
<1>7. Odd(sequence')
  BY <1>1, <1>2, <1>6, Parity
<1>8. sequence + 1 < MaxSequence /\ flag
  BY <1>1 DEF WriterInv
<1>9. WriterInv'
  BY <1>1, <1>2, <1>5, <1>7, <1>8 DEF WriterInv, Storing
<1>10. CellInv'
  <2>1. wnext'[w] = 1
    BY <1>1 DEF TypeOK
  <2>2. \A f \in Fields : ~(f < wnext'[w])
    BY <2>1 DEF Fields
  <2>3. QED
    BY <1>5, <1>7, <2>2 DEF CellInv
<1>11. ReaderInv'
  BY <1>1, <1>2, ReaderFrame
<1>12. QED
  BY <1>3, <1>9, <1>10, <1>11

LEMMA StoreStep ==
    ASSUME IInv, NEW w \in Writers, Store(w)
    PROVE  IInv'
<1> USE DEF IInv
<1>1. /\ wpc[w] = "store"
      /\ sequence' = sequence /\ flag' = flag
      /\ cells' = [cells EXCEPT ![wnext[w]] = Published(sequence + 1)]
      /\ wnext' = [wnext EXCEPT ![w] = IF @ = FieldCount THEN @ ELSE @ + 1]
      /\ wpc' = [wpc EXCEPT ![w] =
                    IF wnext[w] = FieldCount THEN "close" ELSE "store"]
      /\ UNCHANGED readerVars
  BY DEF Store, Advance
<1>2. /\ sequence \in Nat /\ MaxSequence \in Nat
      /\ FieldCount \in Nat \ {0} /\ wnext[w] \in 1 .. FieldCount
  BY PublicationAssumption DEF TypeOK, Fields
<1>3. Odd(sequence) /\ sequence < MaxSequence /\ flag
  BY <1>1 DEF WriterInv, Storing
<1>4. Published(sequence + 1) \in Versions
  <2>1. /\ Published(sequence + 1) \in Nat
        /\ Published(sequence + 1) <= sequence + 1
    BY <1>2, Parity
  <2>2. QED
    BY <1>2, <1>3, <2>1 DEF Versions
<1>5. wnext'[w] = IF wnext[w] = FieldCount THEN wnext[w] ELSE wnext[w] + 1
  BY <1>1 DEF TypeOK
<1>6. TypeOK'
  <2>1. cells' \in [Fields -> Versions]
    BY <1>1, <1>4 DEF TypeOK
  <2>2. wnext' \in [Writers -> Fields]
    BY <1>1, <1>2 DEF TypeOK, Fields
  <2>3. wpc' \in [Writers -> WriterPCs]
    BY <1>1 DEF TypeOK, WriterPCs
  <2>4. QED
    BY <1>1, <2>1, <2>2, <2>3 DEF TypeOK, readerVars
<1>7. \A u \in Writers : u # w => wpc[u] = "idle"
  BY <1>1 DEF WriterInv
<1>8. \A u \in Writers :
        wpc'[u] = IF u # w THEN "idle"
                  ELSE IF wnext[w] = FieldCount THEN "close" ELSE "store"
  BY <1>1, <1>7 DEF TypeOK
<1>9. WriterInv'
  BY <1>1, <1>2, <1>3, <1>8 DEF WriterInv, Storing
<1>10. \A f \in Fields :
          f <= wnext[w] => cells'[f] = Published(sequence + 1)
  <2> SUFFICES ASSUME NEW f \in Fields, f <= wnext[w]
               PROVE  cells'[f] = Published(sequence + 1)
    OBVIOUS
  <2>1. CASE f = wnext[w]
    BY <1>1, <2>1 DEF TypeOK
  <2>2. CASE f < wnext[w]
    <3>1. cells[f] = Published(sequence + 1)
      BY <1>1, <2>2 DEF CellInv
    <3>2. QED
      BY <1>1, <1>2, <2>2, <3>1 DEF TypeOK, Fields
  <2>3. QED
    BY <1>2, <2>1, <2>2 DEF Fields
<1>11. CellInv'
  <2>1. \A f \in Fields : f < wnext'[w] => f <= wnext[w]
    BY <1>2, <1>5 DEF Fields
  <2>2. wnext[w] = FieldCount => \A f \in Fields : f <= wnext[w]
    BY <1>2 DEF Fields
  <2>3. QED
    BY <1>1, <1>3, <1>8, <1>10, <2>1, <2>2 DEF CellInv
<1>12. ReaderInv'
  BY <1>1, <1>2, ReaderFrame
<1>13. QED
  BY <1>6, <1>9, <1>11, <1>12

LEMMA CloseStep ==
    ASSUME IInv, NEW w \in Writers, Close(w)
    PROVE  IInv' /\ Published(sequence') = Published(sequence) + 1
<1> USE DEF IInv
<1>1. /\ wpc[w] = "close"
      /\ sequence' = sequence + 1
      /\ flag' = flag /\ cells' = cells /\ wnext' = wnext
      /\ wpc' = [wpc EXCEPT ![w] = "release"]
      /\ UNCHANGED readerVars
  BY DEF Close, Advance
<1>2. sequence \in Nat /\ MaxSequence \in Nat
  BY PublicationAssumption DEF TypeOK
<1>3. Odd(sequence) /\ sequence < MaxSequence /\ flag
  BY <1>1 DEF WriterInv, Storing
<1>4. ~Odd(sequence') /\ Published(sequence') = Published(sequence) + 1
  BY <1>1, <1>2, <1>3, Parity
<1>5. TypeOK'
  BY <1>1, <1>2 DEF TypeOK, readerVars, WriterPCs
<1>6. \A u \in Writers : u # w => wpc[u] = "idle"
  BY <1>1 DEF WriterInv
<1>7. \A u \in Writers : wpc'[u] = IF u = w THEN "release" ELSE "idle"
  BY <1>1, <1>6 DEF TypeOK
<1>8. WriterInv'
  BY <1>1, <1>2, <1>3, <1>4, <1>7 DEF WriterInv, Storing
<1>9. CellInv'
  BY <1>1, <1>4, <1>7 DEF CellInv
<1>10. ReaderInv'
  BY <1>1, <1>2, ReaderFrame
<1>11. QED
  BY <1>4, <1>5, <1>8, <1>9, <1>10

LEMMA ReleaseFlagStep ==
    ASSUME IInv, NEW w \in Writers, ReleaseFlag(w)
    PROVE  IInv'
<1> USE DEF IInv
<1>1. /\ wpc[w] = "release" /\ flag' = FALSE
      /\ sequence' = sequence /\ cells' = cells /\ wnext' = wnext
      /\ wpc' = [wpc EXCEPT ![w] = "idle"]
      /\ UNCHANGED readerVars
  BY DEF ReleaseFlag, Advance
<1>2. TypeOK'
  BY <1>1 DEF TypeOK, readerVars, WriterPCs
<1>3. \A u \in Writers : u # w => wpc[u] = "idle"
  BY <1>1 DEF WriterInv
<1>4. \A u \in Writers : wpc'[u] = "idle"
  BY <1>1, <1>3 DEF TypeOK
<1>5. ~Odd(sequence)
  BY <1>1, <1>3 DEF WriterInv, Storing
<1>6. WriterInv'
  BY <1>1, <1>4, <1>5 DEF WriterInv, Storing
<1>7. CellInv'
  BY <1>1, <1>4, <1>5 DEF CellInv
<1>8. ReaderInv'
  BY <1>1, ReaderFrame DEF TypeOK
<1>9. QED
  BY <1>2, <1>6, <1>7, <1>8
-----------------------------------------------------------------------------
(* Steps of a reader.                                                      *)

\* A step that leaves the publication and the other readers alone keeps the
\* invariant if it keeps the reader's own part of it.
LEMMA ReaderStep ==
    ASSUME IInv, NEW r \in Readers,
           UNCHANGED <<sequence, flag, cells, writerVars>>,
           TypeOK', ReaderOK(r)',
           \A s \in Readers \ {r} :
              /\ rpc'[s] = rpc[s] /\ rnext'[s] = rnext[s]
              /\ before'[s] = before[s] /\ got'[s] = got[s]
    PROVE  IInv'
<1>1. WriterInv'
  BY DEF IInv, WriterInv, writerVars, Storing
<1>2. CellInv'
  BY DEF IInv, CellInv, writerVars
<1>3. ASSUME NEW s \in Readers PROVE ReaderOK(s)'
  <2>1. CASE s = r
    BY <2>1
  <2>2. CASE s # r
    BY <2>2 DEF IInv, ReaderInv, ReaderOK, Read, Holding
  <2>3. QED
    BY <2>1, <2>2
<1>4. QED
  BY <1>1, <1>2, <1>3 DEF IInv, ReaderInv

\* The attempt stays in its range, and a reader without an attempt is idle.
LEMMA RetryStep ==
    ASSUME TypeOK, NEW r \in Readers, Retry(r)
    PROVE  /\ attempt' \in [Readers -> 1 .. Attempts]
           /\ rpc' \in [Readers -> ReaderPCs]
           /\ rpc'[r] \in {"idle", "begin"}
           /\ \A s \in Readers \ {r} : rpc'[s] = rpc[s]
<1>1. attempt[r] \in 1 .. Attempts /\ Attempts \in Nat
  BY PublicationAssumption DEF TypeOK
<1>2. CASE attempt[r] = Attempts
  BY <1>2 DEF TypeOK, Retry, Goto, ReaderPCs
<1>3. CASE attempt[r] # Attempts
  <2>1. attempt[r] + 1 \in 1 .. Attempts
    BY <1>1, <1>3
  <2>2. attempt' = [attempt EXCEPT ![r] = attempt[r] + 1]
    BY <1>3 DEF Retry
  <2>3. QED
    BY <1>3, <2>1, <2>2 DEF TypeOK, Retry, Goto, ReaderPCs
<1>4. QED
  BY <1>2, <1>3

LEMMA StartStep ==
    ASSUME IInv, NEW r \in Readers, Start(r)
    PROVE  IInv'
<1> USE DEF Start, Goto
<1>1. TypeOK /\ 1 \in 1 .. Attempts
  BY PublicationAssumption DEF IInv
<1>2. TypeOK'
  BY <1>1 DEF TypeOK, ReaderPCs, writerVars
<1>3. ReaderOK(r)'
  BY <1>1 DEF TypeOK, ReaderOK, Read, Holding
<1>4. QED
  BY <1>1, <1>2, <1>3, ReaderStep DEF TypeOK

LEMMA BeginStep ==
    ASSUME IInv, NEW r \in Readers, Begin(r)
    PROVE  IInv'
<1>1. TypeOK /\ UNCHANGED <<sequence, flag, cells, writerVars, got>>
  BY DEF IInv, Begin
<1>2. CASE Retry(r) /\ UNCHANGED <<rnext, before>>
  <2>1. TypeOK'
    BY <1>1, <1>2, RetryStep DEF TypeOK, writerVars
  <2>2. ReaderOK(r)'
    BY <1>1, <1>2, RetryStep DEF ReaderOK, Read, Holding
  <2>3. QED
    BY <1>1, <1>2, <2>1, <2>2, RetryStep, ReaderStep
<1>3. CASE /\ ~Odd(sequence)
           /\ rpc' = [rpc EXCEPT ![r] = "load"]
           /\ before' = [before EXCEPT ![r] = sequence]
           /\ rnext' = [rnext EXCEPT ![r] = 1]
           /\ UNCHANGED attempt
  <2>1. 1 \in Fields /\ sequence \in Nat
    BY <1>1, PublicationAssumption DEF Fields, TypeOK
  <2>2. TypeOK'
    BY <1>1, <1>3, <2>1 DEF TypeOK, ReaderPCs, writerVars
  <2>3. rpc'[r] = "load" /\ before'[r] = sequence /\ rnext'[r] = 1
    BY <1>1, <1>3 DEF TypeOK
  <2>4. \A f \in Fields : ~(f < rnext'[r])
    BY <2>3 DEF Fields
  <2>5. ReaderOK(r)'
    BY <1>1, <1>3, <2>1, <2>3, <2>4 DEF ReaderOK, Read, Holding
  <2>6. QED
    BY <1>1, <1>3, <2>2, <2>5, ReaderStep DEF TypeOK
<1>4. QED
  BY <1>2, <1>3 DEF Begin, Goto

LEMMA LoadStep ==
    ASSUME IInv, NEW r \in Readers, Load(r)
    PROVE  IInv'
<1> DEFINE n == rnext[r]
<1>1. /\ TypeOK /\ rpc[r] = "load"
      /\ UNCHANGED <<sequence, flag, cells, writerVars, attempt, before>>
      /\ got' = [got EXCEPT ![r] = [got[r] EXCEPT ![n] = cells[n]]]
      /\ rpc' = [rpc EXCEPT ![r] = IF n = FieldCount THEN "check" ELSE "load"]
      /\ rnext' = [rnext EXCEPT ![r] = IF n = FieldCount THEN n ELSE n + 1]
  BY DEF IInv, Load, Goto
<1>2. /\ n \in 1 .. FieldCount /\ FieldCount \in Nat
      /\ cells[n] \in Versions /\ got[r] \in [Fields -> Versions]
  BY <1>1, PublicationAssumption DEF TypeOK, Fields
<1>3. /\ got'[r] = [got[r] EXCEPT ![n] = cells[n]]
      /\ rpc'[r] = IF n = FieldCount THEN "check" ELSE "load"
      /\ rnext'[r] = IF n = FieldCount THEN n ELSE n + 1
  BY <1>1 DEF TypeOK
<1>4. TypeOK'
  <2>1. [got[r] EXCEPT ![n] = cells[n]] \in [Fields -> Versions]
    BY <1>2
  <2>2. got' \in [Readers -> [Fields -> Versions]]
    BY <1>1, <2>1 DEF TypeOK
  <2>3. (IF n = FieldCount THEN n ELSE n + 1) \in Fields
    BY <1>2 DEF Fields
  <2>4. rnext' \in [Readers -> Fields]
    BY <1>1, <2>3 DEF TypeOK
  <2>5. rpc' \in [Readers -> ReaderPCs]
    BY <1>1 DEF TypeOK, ReaderPCs
  <2>6. QED
    BY <1>1, <2>2, <2>4, <2>5 DEF TypeOK, writerVars
<1>5. ~Odd(before[r]) /\ before[r] <= sequence
  BY <1>1 DEF IInv, ReaderInv, ReaderOK, Read
<1>6. ASSUME before[r] = sequence, NEW f \in Fields, f <= n
      PROVE  got'[r][f] = Published(before[r])
  <2>1. CASE f = n
    <3>1. cells[n] = Published(sequence)
      BY <1>5, <1>6, <2>1 DEF IInv, CellInv
    <3>2. QED
      BY <1>2, <1>3, <1>6, <2>1, <3>1
  <2>2. CASE f < n
    <3>1. got[r][f] = Published(before[r])
      BY <1>1, <1>6, <2>2 DEF IInv, ReaderInv, ReaderOK
    <3>2. f # n
      BY <1>2, <2>2 DEF Fields
    <3>3. QED
      BY <1>2, <1>3, <3>1, <3>2
  <2>3. QED
    BY <1>2, <1>6, <2>1, <2>2 DEF Fields
<1>7. ReaderOK(r)'
  <2>1. \A f \in Fields : f < rnext'[r] => f <= n
    BY <1>2, <1>3 DEF Fields
  <2>2. n = FieldCount => \A f \in Fields : f <= n
    BY <1>2 DEF Fields
  <2>3. sequence' = sequence /\ before' = before
    BY <1>1
  <2>4. CASE n = FieldCount
    BY <1>3, <1>5, <1>6, <2>2, <2>3, <2>4 DEF ReaderOK, Read, Holding
  <2>5. CASE n # FieldCount
    BY <1>3, <1>5, <1>6, <2>1, <2>3, <2>5 DEF ReaderOK, Read, Holding
  <2>6. QED
    BY <2>4, <2>5
<1>8. \A s \in Readers \ {r} :
         /\ rpc'[s] = rpc[s] /\ rnext'[s] = rnext[s]
         /\ before'[s] = before[s] /\ got'[s] = got[s]
  BY <1>1 DEF TypeOK
<1>9. QED
  BY <1>1, <1>4, <1>7, <1>8, ReaderStep

LEMMA CheckStep ==
    ASSUME IInv, NEW r \in Readers, Check(r)
    PROVE  IInv'
<1>1. /\ TypeOK /\ rpc[r] = "check"
      /\ UNCHANGED <<sequence, flag, cells, writerVars, rnext, before, got>>
  BY DEF IInv, Check
<1>2. CASE /\ Stable(r)
           /\ rpc' = [rpc EXCEPT ![r] =
                         IF got[r][1] # 0 THEN "proved" ELSE "idle"]
           /\ UNCHANGED attempt
  <2>1. /\ before[r] = sequence /\ ~Odd(before[r]) /\ before[r] <= sequence
        /\ \A f \in Fields : got[r][f] = Published(before[r])
    BY <1>1, <1>2 DEF IInv, ReaderInv, ReaderOK, Read, Stable
  <2>2. TypeOK'
    BY <1>1, <1>2 DEF TypeOK, ReaderPCs, writerVars
  <2>3. rpc'[r] \in {"proved", "idle"}
    BY <1>1, <1>2 DEF TypeOK
  <2>4. ReaderOK(r)'
    BY <1>1, <2>1, <2>3 DEF ReaderOK, Read, Holding
  <2>5. QED
    BY <1>1, <1>2, <2>2, <2>4, ReaderStep DEF TypeOK
<1>3. CASE Retry(r)
  <2>1. TypeOK'
    BY <1>1, <1>3, RetryStep DEF TypeOK, writerVars
  <2>2. ReaderOK(r)'
    BY <1>1, <1>3, RetryStep DEF ReaderOK, Read, Holding
  <2>3. QED
    BY <1>1, <1>3, <2>1, <2>2, RetryStep, ReaderStep
<1>4. QED
  BY <1>2, <1>3 DEF Check, Goto

LEMMA ConfirmStep ==
    ASSUME IInv, NEW r \in Readers, Confirm(r)
    PROVE  IInv'
<1> USE DEF Confirm, Goto
<1>1. TypeOK /\ ReaderOK(r) /\ rpc[r] = "proved"
  BY DEF IInv, ReaderInv
<1>2. TypeOK'
  BY <1>1 DEF TypeOK, ReaderPCs, writerVars
<1>3. rpc'[r] = "confirmed"
  BY <1>1 DEF TypeOK
<1>4. ReaderOK(r)'
  BY <1>1, <1>3 DEF ReaderOK, Read, Holding
<1>5. QED
  BY <1>1, <1>2, <1>4, ReaderStep DEF TypeOK

LEMMA FinishStep ==
    ASSUME IInv, NEW r \in Readers, Finish(r)
    PROVE  IInv'
<1> USE DEF Finish, Goto
<1>1. TypeOK
  BY DEF IInv
<1>2. TypeOK'
  BY <1>1 DEF TypeOK, ReaderPCs, writerVars
<1>3. rpc'[r] = "idle"
  BY <1>1 DEF TypeOK
<1>4. ReaderOK(r)'
  BY <1>3 DEF ReaderOK, Read, Holding
<1>5. QED
  BY <1>1, <1>2, <1>4, ReaderStep DEF TypeOK

LEMMA StutterStep ==
    ASSUME IInv, UNCHANGED vars
    PROVE  IInv'
BY DEF vars, writerVars, readerVars, IInv, TypeOK, WriterInv, CellInv,
       ReaderInv, ReaderOK, Storing, Read, Holding

LEMMA NextInv == IInv /\ [Next]_vars => IInv'
<1> SUFFICES ASSUME IInv, [Next]_vars PROVE IInv'
  OBVIOUS
<1>1. ASSUME NEW w \in Writers, Publish(w) PROVE IInv'
  BY <1>1, TakeFlagStep, OpenStep, StoreStep, CloseStep, ReleaseFlagStep
  DEF Publish
<1>2. ASSUME NEW r \in Readers, ReadHero(r) PROVE IInv'
  BY <1>2, StartStep, BeginStep, LoadStep, CheckStep, ConfirmStep, FinishStep
  DEF ReadHero
<1>3. QED
  BY <1>1, <1>2, StutterStep DEF Next

LEMMA Inductive == Spec => []IInv
<1>1. QED
  BY InitInv, NextInv, PTL DEF Spec
-----------------------------------------------------------------------------
(* The program counters, the fields and the attempts keep their ranges:    *)
(* ReadHero gives up after Attempts turns, whatever the writers do.        *)
THEOREM TypeCorrect == Spec => []TypeOK
<1>1. IInv => TypeOK
  BY DEF IInv
<1>2. QED
  BY <1>1, Inductive, PTL

(* A snapshot ReadHero returned is one publication, with any number of     *)
(* writers and readers and any interleaving of their loads and stores.     *)
THEOREM NoTorn == Spec => []NoTornSnapshot
<1>1. IInv => NoTornSnapshot
  BY DEF IInv, ReaderInv, ReaderOK, NoTornSnapshot
<1>2. QED
  BY <1>1, Inductive, PTL

(* An eligibility proof is accepted only while the record it was read from *)
(* is the one in force, and no publication is in progress.                 *)
THEOREM ProofsCurrent == Spec => ProofCurrent
<1> DEFINE Accepts(r) == rpc[r] = "proved" /\ rpc'[r] = "confirmed"
           Current(r) == ~Odd(sequence) /\ cells = got[r]
<1>1. ASSUME IInv, Next, NEW r \in Readers, Accepts(r)
      PROVE  sequence = before[r]
  <2>1. TypeOK
    BY <1>1 DEF IInv
  <2>2. ASSUME NEW w \in Writers, Publish(w) PROVE FALSE
    BY <1>1, <2>2 DEF Publish, TakeFlag, Open, Store, Close, ReleaseFlag,
                      Advance, readerVars
  <2>3. ASSUME NEW s \in Readers, ReadHero(s), s # r PROVE FALSE
    BY <1>1, <2>1, <2>3 DEF ReadHero, Start, Begin, Load, Check, Confirm,
                            Finish, Retry, Goto, TypeOK
  <2>4. CASE ReadHero(r)
    BY <1>1, <2>1, <2>4 DEF ReadHero, Start, Begin, Load, Check, Confirm,
                            Finish, Goto, TypeOK
  <2>5. QED
    BY <1>1, <2>2, <2>3, <2>4 DEF Next
<1>2. ASSUME IInv, Next, NEW r \in Readers, Accepts(r)
      PROVE  Current(r)
  <2>1. sequence = before[r]
    BY <1>1, <1>2
  <2>2. ~Odd(before[r]) /\ \A f \in Fields : got[r][f] = Published(before[r])
    BY <1>2 DEF IInv, ReaderInv, ReaderOK, Read, Holding
  <2>3. \A f \in Fields : cells[f] = Published(sequence)
    BY <1>2, <2>1, <2>2 DEF IInv, CellInv
  <2>4. cells \in [Fields -> Versions] /\ got[r] \in [Fields -> Versions]
    BY <1>2 DEF IInv, TypeOK
  <2>5. cells = got[r]
    BY <2>1, <2>2, <2>3, <2>4
  <2>6. QED
    BY <2>1, <2>2, <2>5
<1>3. IInv /\ [Next]_vars => [\A r \in Readers : Accepts(r) => Current(r)]_vars
  BY <1>2
<1>4. QED
  BY <1>3, Inductive, PTL DEF Spec, ProofCurrent
-----------------------------------------------------------------------------
(* The refinement.                                                         *)
LEMMA PublishRefines ==
    ASSUME IInv, NEW w \in Writers, Publish(w)
    PROVE  [Register!Next]_Register!vars
<1>1. sequence \in Nat
  BY DEF IInv, TypeOK
<1>2. UNCHANGED readerVars
  BY DEF Publish, TakeFlag, Open, Store, Close, ReleaseFlag, Advance
<1>3. [r \in Readers |-> IF Holding(r) THEN got[r][1] ELSE 0]'
        = [r \in Readers |-> IF Holding(r) THEN got[r][1] ELSE 0]
  BY <1>2 DEF readerVars, Holding
<1>4. CASE Close(w)
  BY <1>3, <1>4, CloseStep DEF Register!Next, Register!Write
<1>5. CASE Open(w)
  <2>1. \A u \in Writers : ~Storing(u)
    BY <1>5 DEF IInv, WriterInv, Storing, Open, Advance
  <2>2. ~Odd(sequence) /\ sequence' = sequence + 1
    BY <1>5, <2>1 DEF IInv, WriterInv, Open
  <2>3. Published(sequence') = Published(sequence)
    BY <1>1, <2>2, Parity
  <2>4. QED
    BY <1>3, <2>3 DEF Register!vars
<1>6. CASE TakeFlag(w) \/ Store(w) \/ ReleaseFlag(w)
  <2>1. sequence' = sequence
    BY <1>6 DEF TakeFlag, Store, ReleaseFlag
  <2>2. QED
    BY <1>3, <2>1 DEF Register!vars, Published
<1>7. QED
  BY <1>4, <1>5, <1>6 DEF Publish

LEMMA ReadRefines ==
    ASSUME IInv, NEW r \in Readers, ReadHero(r)
    PROVE  [Register!Next]_Register!vars
<1> DEFINE seen == [s \in Readers |-> IF Holding(s) THEN got[s][1] ELSE 0]
<1>1. TypeOK /\ 1 \in Fields
  BY PublicationAssumption DEF IInv, Fields
<1>2. Published(sequence)' = Published(sequence)
  <2>1. sequence' = sequence
    BY DEF ReadHero, Start, Begin, Load, Check, Confirm, Finish
  <2>2. QED
    BY <2>1 DEF Published
<1>3. \A s \in Readers \ {r} : rpc'[s] = rpc[s] /\ got'[s] = got[s]
  BY <1>1 DEF ReadHero, Start, Begin, Load, Check, Confirm, Finish, Retry,
              Goto, TypeOK
<1>4. ASSUME ~Holding(r), ~Holding(r)' PROVE seen' = seen
  BY <1>3, <1>4 DEF Holding
<1>5. CASE Start(r) \/ Begin(r) \/ Load(r)
  <2>1. ~Holding(r) /\ ~Holding(r)'
    BY <1>1, <1>5 DEF Start, Begin, Load, Retry, Goto, Holding, TypeOK
  <2>2. QED
    BY <1>2, <1>4, <2>1 DEF Register!vars
<1>6. CASE Check(r) /\ ~Holding(r)'
  <2>1. ~Holding(r)
    BY <1>6 DEF Check, Holding
  <2>2. QED
    BY <1>2, <1>4, <1>6, <2>1 DEF Register!vars
<1>7. CASE Check(r) /\ Holding(r)'
  <2>1. ~Holding(r) /\ got' = got
    BY <1>7 DEF Check, Holding
  <2>2. Stable(r)
    BY <1>1, <1>7 DEF Check, Holding, Retry, Goto, TypeOK
  <2>3. got[r][1] = Published(sequence)
    BY <1>1, <1>7, <2>2 DEF IInv, ReaderInv, ReaderOK, Stable, Check
  <2>4. seen[r] = 0
    BY <2>1
  <2>5. seen' = [seen EXCEPT ![r] = Published(sequence)]
    BY <1>3, <1>7, <2>1, <2>3 DEF Holding
  <2>6. Register!Read(r)
    BY <1>2, <2>4, <2>5 DEF Register!Read
  <2>7. QED
    BY <2>6 DEF Register!Next
<1>8. CASE Confirm(r)
  <2>1. Holding(r) /\ Holding(r)' /\ got' = got
    BY <1>1, <1>8 DEF Confirm, Goto, Holding, TypeOK
  <2>2. seen' = seen
    BY <1>3, <2>1 DEF Holding
  <2>3. QED
    BY <1>2, <2>2 DEF Register!vars
<1>9. CASE Finish(r)
  <2>1. ~Holding(r)' /\ got' = got
    BY <1>1, <1>9 DEF Finish, Goto, Holding, TypeOK
  <2>2. seen' = [seen EXCEPT ![r] = 0]
    BY <1>3, <2>1 DEF Holding
  <2>3. Register!Forget(r)
    BY <1>2, <2>2 DEF Register!Forget
  <2>4. QED
    BY <2>3 DEF Register!Next
<1>10. QED
  BY <1>5, <1>6, <1>7, <1>8, <1>9 DEF ReadHero

(* The sequence lock implements the atomic register: a publication takes   *)
(* effect at its second increment, a read at its last check.               *)
THEOREM ImplementsRegister == Spec => AtomicRegister
<1>1. Init => Register!Init
  <2> SUFFICES ASSUME Init PROVE Register!Init
    OBVIOUS
  <2>1. Published(0) = 0
    BY Parity
  <2>2. QED
    BY <2>1 DEF Init, Register!Init, Holding
<1>2. ASSUME IInv, [Next]_vars PROVE [Register!Next]_Register!vars
  <2>1. CASE UNCHANGED vars
    BY <2>1 DEF vars, readerVars, Register!vars, Holding, Published
  <2>2. QED
    BY <1>2, <2>1, PublishRefines, ReadRefines DEF Next
<1>3. QED
  BY <1>1, <1>2, Inductive, PTL DEF Spec, AtomicRegister, Register!Spec
=============================================================================
