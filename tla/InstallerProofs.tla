-------------------------- MODULE InstallerProofs --------------------------
(***************************************************************************)
(* Proofs about Installer, for every set of companions and every list of   *)
(* files: one commits at a time, a complete roll back restores the folder, *)
(* an installation that nobody disturbed is complete, and nothing of       *)
(* another author is lost.                                                 *)
(***************************************************************************)
EXTENDS Installer, TLAPS

\* Indices of files.
Indices == 1 .. Count

\* Where the loops of a companion stand, and what it has not yet decided.
InLoop(i) ==
    /\ pc[i] # "undo" => at[i] >= 1
    /\ pc[i] \in {"verify", "undo"} => at[i] <= Count
    /\ errors[i] => pc[i] = "undo"
    /\ pc[i] # "idle" => outcome[i] = "none"

\* What is planned contains what is to be installed.
Planned(i, k) ==
    \/ pc[i] \in {"read", "plan"} /\ k < at[i]
    \/ pc[i] = "lock" \/ Committing(i)
PlanInv(i) ==
    \A k \in Indices :
        Planned(i, k) => Ours(Order[k]) \subseteq plan[i][Order[k]].desired

\* What an undisturbed companion has planned is still what is there, and
\* what it has written stays there.
Untouched(i, k) ==
    \/ pc[i] \in {"read", "plan"} /\ k < at[i]
    \/ pc[i] \in {"lock", "backup"}
    \/ pc[i] = "write" /\ k >= at[i]
    \/ pc[i] = "verify" /\ k > at[i]
Written(i, k) == pc[i] \in {"write", "verify"} /\ k < at[i]
Found(i, k) ==
    /\ Untouched(i, k) => disk[Order[k]] = plan[i][Order[k]].existing
    /\ Written(i, k) => disk[Order[k]] = plan[i][Order[k]].desired
FreshInv(i) ==
    fresh[i] =>
        /\ pc[i] # "idle"
        /\ mutex \in {NoInstaller, i}
        /\ \A k \in Indices : Found(i, k)

\* During a commit: the records that are complete, and the files that are
\* as they were when it began, unless a step of the roll back has failed.
RecordInv(i, k) ==
    (pc[i] = "backup" => k < at[i]) =>
        /\ existed[i][Order[k]] = (entry[i][Order[k]] # Absent)
        /\ saved[i][Order[k]] = IF KindOf(i, Order[k]) = "replace"
                                  THEN entry[i][Order[k]] ELSE Absent
Original(i, k) ==
    \/ pc[i] = "backup"
    \/ pc[i] = "write" /\ k >= at[i]
    \/ pc[i] \in {"verify", "undo"} /\ k > at[i]
    \/ KindOf(i, Order[k]) = "unchanged"
OriginalInv(i, k) ==
    Original(i, k) /\ ~errors[i] => disk[Order[k]] = entry[i][Order[k]]
CommitInv(i) ==
    mutex = i => \A k \in Indices : RecordInv(i, k) /\ OriginalInv(i, k)

InstallerInv ==
    /\ TypeOK
    /\ OneCommitter
    /\ \A i \in Installers :
          InLoop(i) /\ PlanInv(i) /\ FreshInv(i) /\ CommitInv(i)

\* A step of i leaves the others as they are, takes or releases the mutex
\* for i only, and touches the folder only as the holder.
StepOf(i) ==
    /\ \A j \in Installers \ {i} :
          /\ pc'[j] = pc[j] /\ at'[j] = at[j] /\ plan'[j] = plan[j]
          /\ existed'[j] = existed[j] /\ saved'[j] = saved[j]
          /\ errors'[j] = errors[j] /\ entry'[j] = entry[j]
          /\ outcome'[j] = outcome[j]
          /\ fresh'[j] => fresh[j] /\ (mutex # i => mutex' # i)
    /\ mutex' \in {mutex, i, NoInstaller}
    /\ mutex # i => disk' = disk
-----------------------------------------------------------------------------
(* The list of files names each file once.                                 *)
LEMMA OrderFacts ==
    /\ Count \in Nat
    /\ \A k \in Indices : Order[k] \in Files
    /\ \A f \in Files : \E k \in Indices : Order[k] = f
    /\ \A j, k \in Indices : Order[j] = Order[k] => j = k
    /\ \A f \in Files : Ours(f) \in SUBSET Entries
BY InstallerAssumption DEF Count, Indices, Files, Ours, Entries

(* What a step of one companion must establish for the invariant.          *)
LEMMA StepKeeps ==
    ASSUME InstallerInv, NEW i \in Installers, StepOf(i),
           TypeOK', OneCommitter', InLoop(i)', PlanInv(i)', FreshInv(i)',
           CommitInv(i)'
    PROVE  InstallerInv'
<1>1. ASSUME NEW j \in Installers \ {i}
      PROVE  InLoop(j)' /\ PlanInv(j)' /\ FreshInv(j)' /\ CommitInv(j)'
  <2>1. InLoop(j) /\ PlanInv(j) /\ FreshInv(j) /\ CommitInv(j)
    BY DEF InstallerInv
  <2>2. InLoop(j)' /\ PlanInv(j)'
    BY <2>1 DEF StepOf, InLoop, PlanInv, Planned, Committing
  <2>3. FreshInv(j)'
    <3>1. CASE fresh'[j]
      <4>1. fresh[j] /\ mutex # i /\ mutex' # i /\ disk' = disk
        BY <2>1, <3>1, InstallerAssumption DEF StepOf, FreshInv
      <4> QED
        BY <2>1, <4>1 DEF StepOf, FreshInv, Found, Untouched, Written
    <3> QED
      BY <3>1 DEF FreshInv
  <2>4. CommitInv(j)'
    <3>1. CASE mutex' = j
      <4>1. mutex = j /\ disk' = disk
        BY <3>1, InstallerAssumption DEF StepOf
      <4> QED
        BY <2>1, <4>1
           DEF StepOf, CommitInv, RecordInv, OriginalInv, Original, KindOf
    <3> QED
      BY <3>1 DEF CommitInv
  <2> QED
    BY <2>2, <2>3, <2>4
<1> QED
  BY <1>1 DEF InstallerInv

(* Start: Nothing is planned yet.                                          *)
LEMMA StartKeeps ==
    ASSUME InstallerInv, NEW i \in Installers, Start(i)
    PROVE  InstallerInv'
<1> USE OrderFacts DEF Start, localVars, Goto
<1>1. TypeOK'
  BY DEF InstallerInv, TypeOK, InLoop, Phases, Outcomes, Plans, Indices,
     Entries, Absent
<1>2. OneCommitter'
  BY InstallerAssumption DEF InstallerInv, OneCommitter, Committing, TypeOK
<1>3. InLoop(i)'
  BY DEF InstallerInv, InLoop, TypeOK, Indices
<1>4. PlanInv(i)'
  BY DEF InstallerInv, InLoop, TypeOK, PlanInv, Planned, Committing, Indices
<1>5. FreshInv(i)'
  BY InstallerAssumption DEF InstallerInv, InLoop, TypeOK, FreshInv, Found,
     Untouched, Written, Indices, OneCommitter, Committing
<1>6. CommitInv(i)'
  BY InstallerAssumption DEF InstallerInv, InLoop, TypeOK, CommitInv,
     RecordInv, OriginalInv, Original, Indices, OneCommitter, Committing
<1>7. StepOf(i)
  BY InstallerAssumption DEF StepOf, InstallerInv, TypeOK, OneCommitter,
     Committing
<1> QED
  BY <1>1, <1>2, <1>3, <1>4, <1>5, <1>6, <1>7, StepKeeps

(* BeginPlan: The loop over the files begins.                              *)
LEMMA BeginPlanKeeps ==
    ASSUME InstallerInv, NEW i \in Installers, BeginPlan(i)
    PROVE  InstallerInv'
<1> USE OrderFacts DEF BeginPlan, localVars, Past, Goto
<1>1. TypeOK'
  BY DEF InstallerInv, TypeOK, InLoop, Phases, Outcomes, Plans, Indices,
     Entries, Absent
<1>2. OneCommitter'
  BY InstallerAssumption DEF InstallerInv, OneCommitter, Committing, TypeOK
<1>3. InLoop(i)'
  BY DEF InstallerInv, InLoop, TypeOK, Indices
<1>4. PlanInv(i)'
  BY DEF InstallerInv, InLoop, TypeOK, PlanInv, Planned, Committing, Indices
<1>5. FreshInv(i)'
  BY InstallerAssumption DEF InstallerInv, InLoop, TypeOK, FreshInv, Found,
     Untouched, Written, Indices, OneCommitter, Committing
<1>6. CommitInv(i)'
  BY InstallerAssumption DEF InstallerInv, InLoop, TypeOK, CommitInv,
     RecordInv, OriginalInv, Original, Indices, OneCommitter, Committing
<1>7. StepOf(i)
  BY InstallerAssumption DEF StepOf, InstallerInv, TypeOK, OneCommitter,
     Committing
<1> QED
  BY <1>1, <1>2, <1>3, <1>4, <1>5, <1>6, <1>7, StepKeeps

(* Read: Reading a text changes nothing shared.                            *)
LEMMA ReadKeeps ==
    ASSUME InstallerInv, NEW i \in Installers, Read(i)
    PROVE  InstallerInv'
<1> USE OrderFacts DEF Read, Lines, AtFile, Current, Goto
<1>1. TypeOK'
  BY DEF InstallerInv, TypeOK, InLoop, Phases, Outcomes, Plans, Indices,
     Entries, Absent
<1>2. OneCommitter'
  BY InstallerAssumption DEF InstallerInv, OneCommitter, Committing, TypeOK
<1>3. InLoop(i)'
  BY DEF InstallerInv, InLoop, TypeOK, Indices
<1>4. PlanInv(i)'
  BY DEF InstallerInv, InLoop, TypeOK, PlanInv, Planned, Committing, Indices
<1>5. FreshInv(i)'
  BY InstallerAssumption DEF InstallerInv, InLoop, TypeOK, FreshInv, Found,
     Untouched, Written, Indices, OneCommitter, Committing
<1>6. CommitInv(i)'
  BY InstallerAssumption DEF InstallerInv, InLoop, TypeOK, CommitInv,
     RecordInv, OriginalInv, Original, Indices, OneCommitter, Committing
<1>7. StepOf(i)
  BY InstallerAssumption DEF StepOf, InstallerInv, TypeOK, OneCommitter,
     Committing
<1> QED
  BY <1>1, <1>2, <1>3, <1>4, <1>5, <1>6, <1>7, StepKeeps

(* Plan: One more file is planned, from what is there.                     *)
LEMMA PlanKeeps ==
    ASSUME InstallerInv, NEW i \in Installers, Plan(i)
    PROVE  InstallerInv'
<1> USE OrderFacts DEF Plan, Desired, AtFile, Current, NextFile, Goto
<1>1. TypeOK'
  BY DEF InstallerInv, TypeOK, InLoop, Phases, Outcomes, Plans, Indices,
     Entries, Absent
<1>2. OneCommitter'
  BY InstallerAssumption DEF InstallerInv, OneCommitter, Committing, TypeOK
<1>3. InLoop(i)'
  BY DEF InstallerInv, InLoop, TypeOK, Indices
<1>4. PlanInv(i)'
  <2> SUFFICES ASSUME NEW k \in Indices, Planned(i, k)'
               PROVE  Ours(Order[k]) \subseteq plan'[i][Order[k]].desired
    BY DEF PlanInv
  <2>1. at[i] \in Indices /\ Order[at[i]] \in Files /\ Order[k] \in Files
    BY DEF Indices
  <2>2. CASE k = at[i]
    BY <2>1, <2>2 DEF InstallerInv, TypeOK
  <2>3. CASE k # at[i]
    <3>1. plan'[i][Order[k]] = plan[i][Order[k]]
      BY <2>1, <2>3 DEF InstallerInv, TypeOK
    <3>2. Planned(i, k)
      BY <2>1, <2>3 DEF InstallerInv, TypeOK, Planned, Committing, Indices
    <3> QED
      BY <3>1, <3>2 DEF InstallerInv, PlanInv
  <2> QED
    BY <2>2, <2>3
<1>5. FreshInv(i)'
  <2> SUFFICES ASSUME fresh'[i]
               PROVE  /\ pc'[i] # "idle" /\ mutex' \in {NoInstaller, i}
                      /\ \A k \in Indices : Found(i, k)'
    BY DEF FreshInv
  <2>1. FreshInv(i) /\ fresh[i] /\ at[i] \in Indices
    BY DEF InstallerInv, Indices
  <2>2. pc'[i] # "idle" /\ mutex' \in {NoInstaller, i}
    BY <2>1 DEF FreshInv, InstallerInv, TypeOK
  <2>3. ASSUME NEW k \in Indices PROVE Found(i, k)'
    <3>1. Found(i, k)
      BY <2>1 DEF FreshInv
    <3>2. CASE k = at[i]
      BY <2>1, <3>1, <3>2 DEF InstallerInv, TypeOK, Indices, Found,
         Untouched, Written, KindOf, Kind
    <3>3. CASE k # at[i]
      <4>1. /\ Order[k] # Order[at[i]]
            /\ Order[k] \in Files /\ Order[at[i]] \in Files
        BY <2>1, <3>3
      <4>2. /\ disk'[Order[k]] = disk[Order[k]]
            /\ plan'[i][Order[k]] = plan[i][Order[k]]
        BY <4>1 DEF InstallerInv, TypeOK
      <4>3. /\ pc[i] = "plan" /\ at'[i] = at[i] + 1
            /\ pc'[i] = IF at[i] = Count THEN "lock" ELSE "read"
        BY DEF InstallerInv, TypeOK
      <4>4. /\ Untouched(i, k)' => Untouched(i, k)
            /\ Written(i, k)' => Written(i, k)
        BY <2>1, <3>3, <4>3 DEF Indices, Untouched, Written
      <4> QED
        BY <3>1, <4>2, <4>4 DEF Found
    <3> QED
      BY <3>2, <3>3
  <2> QED
    BY <2>2, <2>3
<1>6. CommitInv(i)'
  BY InstallerAssumption DEF InstallerInv, InLoop, TypeOK, CommitInv,
     RecordInv, OriginalInv, Original, Indices, OneCommitter, Committing
<1>7. StepOf(i)
  BY InstallerAssumption DEF StepOf, InstallerInv, TypeOK, OneCommitter,
     Committing
<1> QED
  BY <1>1, <1>2, <1>3, <1>4, <1>5, <1>6, <1>7, StepKeeps

(* Lock: The folder is as it is when the mutex is taken; no other plan stay*)
LEMMA LockKeeps ==
    ASSUME InstallerInv, NEW i \in Installers, Lock(i)
    PROVE  InstallerInv'
<1> USE OrderFacts DEF Lock, Goto
<1>1. TypeOK'
  BY InstallerAssumption DEF InstallerInv, TypeOK, InLoop, Phases, Outcomes,
     Plans, Indices, Entries, Absent
<1>2. OneCommitter'
  BY InstallerAssumption DEF InstallerInv, OneCommitter, Committing, TypeOK
<1>3. InLoop(i)'
  BY DEF InstallerInv, InLoop, TypeOK, Indices
<1>4. PlanInv(i)'
  BY DEF InstallerInv, InLoop, TypeOK, PlanInv, Planned, Committing, Indices
<1>5. FreshInv(i)'
  BY InstallerAssumption DEF InstallerInv, InLoop, TypeOK, FreshInv, Found,
     Untouched, Written, Indices, OneCommitter, Committing
<1>6. CommitInv(i)'
  BY InstallerAssumption DEF InstallerInv, InLoop, TypeOK, CommitInv,
     RecordInv, OriginalInv, Original, Indices, OneCommitter, Committing
<1>7. StepOf(i)
  BY InstallerAssumption DEF StepOf, InstallerInv, TypeOK, OneCommitter,
     Committing
<1> QED
  BY <1>1, <1>2, <1>3, <1>4, <1>5, <1>6, <1>7, StepKeeps

(* Backup: One more file is recorded.                                      *)
LEMMA BackupKeeps ==
    ASSUME InstallerInv, NEW i \in Installers, Backup(i)
    PROVE  InstallerInv'
<1> USE OrderFacts DEF Backup, Unmoved, Record, Copy, AtFile, Current, NextFile,
   Goto
<1>1. TypeOK'
  BY DEF InstallerInv, TypeOK, InLoop, Phases, Outcomes, Plans, Indices,
     Entries, Absent
<1>2. OneCommitter'
  BY InstallerAssumption DEF InstallerInv, OneCommitter, Committing, TypeOK
<1>3. InLoop(i)'
  BY DEF InstallerInv, InLoop, TypeOK, Indices
<1>4. PlanInv(i)'
  BY DEF InstallerInv, InLoop, TypeOK, PlanInv, Planned, Committing, Indices
<1>5. FreshInv(i)'
  BY InstallerAssumption DEF InstallerInv, InLoop, TypeOK, FreshInv, Found,
     Untouched, Written, Indices, OneCommitter, Committing
<1>6. CommitInv(i)'
  <2>1. mutex = i
    BY DEF InstallerInv, OneCommitter, Committing
  <2>2. ASSUME NEW k \in Indices
        PROVE  RecordInv(i, k)' /\ OriginalInv(i, k)'
    <3>1. RecordInv(i, k) /\ OriginalInv(i, k)
      BY <2>1 DEF InstallerInv, CommitInv
    <3>2. /\ at[i] \in Int /\ InLoop(i) /\ Order[k] \in Files
          /\ at[i] \in Indices /\ k # at[i] => Order[k] # Order[at[i]]
      BY DEF InstallerInv, TypeOK
    <3>3. KindOf(i, Order[k])' = KindOf(i, Order[k]) /\ entry' = entry
      BY DEF KindOf
    <3>4. RecordInv(i, k)'
      BY <3>1, <3>2, <3>3 DEF InstallerInv, TypeOK, InLoop, RecordInv,
         Indices, OriginalInv, Original
    <3>5. OriginalInv(i, k)'
      BY <3>1, <3>2, <3>3 DEF InstallerInv, TypeOK, InLoop, RecordInv,
         OriginalInv, Original, Indices, KindOf, Kind
    <3> QED
      BY <3>4, <3>5
  <2> QED
    BY <2>2 DEF CommitInv
<1>7. StepOf(i)
  BY InstallerAssumption DEF StepOf, InstallerInv, TypeOK, OneCommitter,
     Committing
<1> QED
  BY <1>1, <1>2, <1>3, <1>4, <1>5, <1>6, <1>7, StepKeeps

(* Prepared: All files are recorded.                                       *)
LEMMA PreparedKeeps ==
    ASSUME InstallerInv, NEW i \in Installers, Prepared(i)
    PROVE  InstallerInv'
<1> USE OrderFacts DEF Prepared, localVars, Past, Goto
<1>1. TypeOK'
  BY DEF InstallerInv, TypeOK, InLoop, Phases, Outcomes, Plans, Indices,
     Entries, Absent
<1>2. OneCommitter'
  BY InstallerAssumption DEF InstallerInv, OneCommitter, Committing, TypeOK
<1>3. InLoop(i)'
  BY DEF InstallerInv, InLoop, TypeOK, Indices
<1>4. PlanInv(i)'
  BY DEF InstallerInv, InLoop, TypeOK, PlanInv, Planned, Committing, Indices
<1>5. FreshInv(i)'
  BY InstallerAssumption DEF InstallerInv, InLoop, TypeOK, FreshInv, Found,
     Untouched, Written, Indices, OneCommitter, Committing
<1>6. CommitInv(i)'
  <2>1. mutex = i
    BY DEF InstallerInv, OneCommitter, Committing
  <2>2. ASSUME NEW k \in Indices
        PROVE  RecordInv(i, k)' /\ OriginalInv(i, k)'
    <3>1. RecordInv(i, k) /\ OriginalInv(i, k)
      BY <2>1 DEF InstallerInv, CommitInv
    <3>2. /\ at[i] \in Int /\ InLoop(i) /\ Order[k] \in Files
          /\ at[i] \in Indices /\ k # at[i] => Order[k] # Order[at[i]]
      BY DEF InstallerInv, TypeOK
    <3>3. KindOf(i, Order[k])' = KindOf(i, Order[k]) /\ entry' = entry
      BY DEF KindOf
    <3>4. RecordInv(i, k)'
      BY <3>1, <3>2, <3>3 DEF InstallerInv, TypeOK, InLoop, RecordInv,
         Indices
    <3>5. OriginalInv(i, k)'
      BY <3>1, <3>2, <3>3 DEF InstallerInv, TypeOK, InLoop, RecordInv,
         OriginalInv, Original, Indices, KindOf, Kind
    <3> QED
      BY <3>4, <3>5
  <2> QED
    BY <2>2 DEF CommitInv
<1>7. StepOf(i)
  BY InstallerAssumption DEF StepOf, InstallerInv, TypeOK, OneCommitter,
     Committing
<1> QED
  BY <1>1, <1>2, <1>3, <1>4, <1>5, <1>6, <1>7, StepKeeps

(* Skip: What is unchanged counts as written.                              *)
LEMMA SkipKeeps ==
    ASSUME InstallerInv, NEW i \in Installers, Skip(i)
    PROVE  InstallerInv'
<1> USE OrderFacts DEF Skip, localVars, AtFile, Current, NextFile, Goto
<1>1. TypeOK'
  BY DEF InstallerInv, TypeOK, InLoop, Phases, Outcomes, Plans, Indices,
     Entries, Absent
<1>2. OneCommitter'
  BY InstallerAssumption DEF InstallerInv, OneCommitter, Committing, TypeOK
<1>3. InLoop(i)'
  BY DEF InstallerInv, InLoop, TypeOK, Indices
<1>4. PlanInv(i)'
  BY DEF InstallerInv, InLoop, TypeOK, PlanInv, Planned, Committing, Indices
<1>5. FreshInv(i)'
  <2> SUFFICES ASSUME fresh'[i]
               PROVE  /\ pc'[i] # "idle" /\ mutex' \in {NoInstaller, i}
                      /\ \A k \in Indices : Found(i, k)'
    BY DEF FreshInv
  <2>1. FreshInv(i) /\ fresh[i] /\ at[i] \in Indices
    BY DEF InstallerInv, Indices
  <2>2. pc'[i] # "idle" /\ mutex' \in {NoInstaller, i}
    BY <2>1 DEF FreshInv, InstallerInv, TypeOK
  <2>3. ASSUME NEW k \in Indices PROVE Found(i, k)'
    <3>1. Found(i, k)
      BY <2>1 DEF FreshInv
    <3>2. CASE k = at[i]
      BY <2>1, <3>1, <3>2 DEF InstallerInv, TypeOK, Indices, Found,
         Untouched, Written, KindOf, Kind
    <3>3. CASE k # at[i]
      <4>1. /\ Order[k] # Order[at[i]]
            /\ Order[k] \in Files /\ Order[at[i]] \in Files
        BY <2>1, <3>3
      <4>2. /\ disk'[Order[k]] = disk[Order[k]]
            /\ plan'[i][Order[k]] = plan[i][Order[k]]
        BY <4>1 DEF InstallerInv, TypeOK
      <4>3. pc[i] = "write" /\ pc'[i] = "write" /\ at'[i] = at[i] + 1
        BY DEF InstallerInv, TypeOK
      <4>4. /\ Untouched(i, k)' => Untouched(i, k)
            /\ Written(i, k)' => Written(i, k)
        BY <2>1, <3>3, <4>3 DEF Indices, Untouched, Written
      <4> QED
        BY <3>1, <4>2, <4>4 DEF Found
    <3> QED
      BY <3>2, <3>3
  <2> QED
    BY <2>2, <2>3
<1>6. CommitInv(i)'
  <2>1. mutex = i
    BY DEF InstallerInv, OneCommitter, Committing
  <2>2. ASSUME NEW k \in Indices
        PROVE  RecordInv(i, k)' /\ OriginalInv(i, k)'
    <3>1. RecordInv(i, k) /\ OriginalInv(i, k)
      BY <2>1 DEF InstallerInv, CommitInv
    <3>2. /\ at[i] \in Int /\ InLoop(i) /\ Order[k] \in Files
          /\ at[i] \in Indices /\ k # at[i] => Order[k] # Order[at[i]]
      BY DEF InstallerInv, TypeOK
    <3>3. KindOf(i, Order[k])' = KindOf(i, Order[k]) /\ entry' = entry
      BY DEF KindOf
    <3>4. RecordInv(i, k)'
      BY <3>1, <3>2, <3>3 DEF InstallerInv, TypeOK, InLoop, RecordInv,
         Indices
    <3>5. OriginalInv(i, k)'
      BY <3>1, <3>2, <3>3 DEF InstallerInv, TypeOK, InLoop, RecordInv,
         OriginalInv, Original, Indices, KindOf, Kind
    <3> QED
      BY <3>4, <3>5
  <2> QED
    BY <2>2 DEF CommitInv
<1>7. StepOf(i)
  BY InstallerAssumption DEF StepOf, InstallerInv, TypeOK, OneCommitter,
     Committing
<1> QED
  BY <1>1, <1>2, <1>3, <1>4, <1>5, <1>6, <1>7, StepKeeps

(* Write: The file at hand is no longer the original one.                  *)
LEMMA WriteKeeps ==
    ASSUME InstallerInv, NEW i \in Installers, Write(i)
    PROVE  InstallerInv'
<1> USE OrderFacts DEF Write, localVars, AtFile, Current, Goto
<1>1. TypeOK'
  BY DEF InstallerInv, TypeOK, InLoop, Phases, Outcomes, Plans, Indices,
     Entries, Absent
<1>2. OneCommitter'
  BY InstallerAssumption DEF InstallerInv, OneCommitter, Committing, TypeOK
<1>3. InLoop(i)'
  BY DEF InstallerInv, InLoop, TypeOK, Indices
<1>4. PlanInv(i)'
  BY DEF InstallerInv, InLoop, TypeOK, PlanInv, Planned, Committing, Indices
<1>5. FreshInv(i)'
  <2> SUFFICES ASSUME fresh'[i]
               PROVE  /\ pc'[i] # "idle" /\ mutex' \in {NoInstaller, i}
                      /\ \A k \in Indices : Found(i, k)'
    BY DEF FreshInv
  <2>1. FreshInv(i) /\ fresh[i] /\ at[i] \in Indices
    BY DEF InstallerInv, Indices
  <2>2. pc'[i] # "idle" /\ mutex' \in {NoInstaller, i}
    BY <2>1 DEF FreshInv, InstallerInv, TypeOK
  <2>3. ASSUME NEW k \in Indices PROVE Found(i, k)'
    <3>1. Found(i, k)
      BY <2>1 DEF FreshInv
    <3>2. CASE k = at[i]
      BY <2>1, <3>1, <3>2 DEF InstallerInv, TypeOK, Indices, Found,
         Untouched, Written, KindOf, Kind
    <3>3. CASE k # at[i]
      <4>1. /\ Order[k] # Order[at[i]]
            /\ Order[k] \in Files /\ Order[at[i]] \in Files
        BY <2>1, <3>3
      <4>2. /\ disk'[Order[k]] = disk[Order[k]]
            /\ plan'[i][Order[k]] = plan[i][Order[k]]
        BY <4>1 DEF InstallerInv, TypeOK
      <4>3. pc[i] = "write" /\ pc'[i] = "verify" /\ at'[i] = at[i]
        BY DEF InstallerInv, TypeOK
      <4>4. /\ Untouched(i, k)' => Untouched(i, k)
            /\ Written(i, k)' => Written(i, k)
        BY <2>1, <3>3, <4>3 DEF Indices, Untouched, Written
      <4> QED
        BY <3>1, <4>2, <4>4 DEF Found
    <3> QED
      BY <3>2, <3>3
  <2> QED
    BY <2>2, <2>3
<1>6. CommitInv(i)'
  <2>1. mutex = i
    BY DEF InstallerInv, OneCommitter, Committing
  <2>2. ASSUME NEW k \in Indices
        PROVE  RecordInv(i, k)' /\ OriginalInv(i, k)'
    <3>1. RecordInv(i, k) /\ OriginalInv(i, k)
      BY <2>1 DEF InstallerInv, CommitInv
    <3>2. /\ at[i] \in Int /\ InLoop(i) /\ Order[k] \in Files
          /\ at[i] \in Indices /\ k # at[i] => Order[k] # Order[at[i]]
      BY DEF InstallerInv, TypeOK
    <3>3. KindOf(i, Order[k])' = KindOf(i, Order[k]) /\ entry' = entry
      BY DEF KindOf
    <3>4. RecordInv(i, k)'
      BY <3>1, <3>2, <3>3 DEF InstallerInv, TypeOK, InLoop, RecordInv,
         Indices
    <3>5. OriginalInv(i, k)'
      BY <3>1, <3>2, <3>3 DEF InstallerInv, TypeOK, InLoop, RecordInv,
         OriginalInv, Original, Indices, KindOf, Kind
    <3> QED
      BY <3>4, <3>5
  <2> QED
    BY <2>2 DEF CommitInv
<1>7. StepOf(i)
  BY InstallerAssumption DEF StepOf, InstallerInv, TypeOK, OneCommitter,
     Committing
<1> QED
  BY <1>1, <1>2, <1>3, <1>4, <1>5, <1>6, <1>7, StepKeeps

(* Verify: The file at hand is as desired.                                 *)
LEMMA VerifyKeeps ==
    ASSUME InstallerInv, NEW i \in Installers, Verify(i)
    PROVE  InstallerInv'
<1> USE OrderFacts DEF Verify, localVars, AtFile, Current, NextFile, Goto
<1>1. TypeOK'
  BY DEF InstallerInv, TypeOK, InLoop, Phases, Outcomes, Plans, Indices,
     Entries, Absent
<1>2. OneCommitter'
  BY InstallerAssumption DEF InstallerInv, OneCommitter, Committing, TypeOK
<1>3. InLoop(i)'
  BY DEF InstallerInv, InLoop, TypeOK, Indices
<1>4. PlanInv(i)'
  BY DEF InstallerInv, InLoop, TypeOK, PlanInv, Planned, Committing, Indices
<1>5. FreshInv(i)'
  BY InstallerAssumption DEF InstallerInv, InLoop, TypeOK, FreshInv, Found,
     Untouched, Written, Indices, OneCommitter, Committing
<1>6. CommitInv(i)'
  <2>1. mutex = i
    BY DEF InstallerInv, OneCommitter, Committing
  <2>2. ASSUME NEW k \in Indices
        PROVE  RecordInv(i, k)' /\ OriginalInv(i, k)'
    <3>1. RecordInv(i, k) /\ OriginalInv(i, k)
      BY <2>1 DEF InstallerInv, CommitInv
    <3>2. /\ at[i] \in Int /\ InLoop(i) /\ Order[k] \in Files
          /\ at[i] \in Indices /\ k # at[i] => Order[k] # Order[at[i]]
      BY DEF InstallerInv, TypeOK
    <3>3. KindOf(i, Order[k])' = KindOf(i, Order[k]) /\ entry' = entry
      BY DEF KindOf
    <3>4. RecordInv(i, k)'
      BY <3>1, <3>2, <3>3 DEF InstallerInv, TypeOK, InLoop, RecordInv,
         Indices
    <3>5. OriginalInv(i, k)'
      BY <3>1, <3>2, <3>3 DEF InstallerInv, TypeOK, InLoop, RecordInv,
         OriginalInv, Original, Indices, KindOf, Kind
    <3> QED
      BY <3>4, <3>5
  <2> QED
    BY <2>2 DEF CommitInv
<1>7. StepOf(i)
  BY InstallerAssumption DEF StepOf, InstallerInv, TypeOK, OneCommitter,
     Committing
<1> QED
  BY <1>1, <1>2, <1>3, <1>4, <1>5, <1>6, <1>7, StepKeeps

(* Fail: What was not written is still original.                           *)
LEMMA FailKeeps ==
    ASSUME InstallerInv, NEW i \in Installers, Fail(i)
    PROVE  InstallerInv'
<1> USE OrderFacts DEF Fail, localVars, Goto
<1>1. TypeOK'
  <2>1. at[i] \in 1 .. Count + 1 /\ Count \in Nat
    BY DEF InstallerInv, TypeOK, InLoop
  <2>2. PICK k \in {at[i], at[i] - 1} : Goto(i, "undo", k)
    OBVIOUS
  <2>3. /\ at' \in [Installers -> 0 .. Count + 1]
        /\ pc' \in [Installers -> Phases]
    <3>1. k \in 0 .. Count + 1 /\ "undo" \in Phases
      BY <2>1 DEF Phases
    <3> QED
      BY <2>2, <3>1 DEF InstallerInv, TypeOK
  <2> QED
    BY <2>3 DEF InstallerInv, TypeOK
<1>2. OneCommitter'
  BY InstallerAssumption DEF InstallerInv, OneCommitter, Committing, TypeOK
<1>3. InLoop(i)'
  BY DEF InstallerInv, InLoop, TypeOK, Indices
<1>4. PlanInv(i)'
  BY DEF InstallerInv, InLoop, TypeOK, PlanInv, Planned, Committing, Indices
<1>5. FreshInv(i)'
  BY InstallerAssumption DEF InstallerInv, InLoop, TypeOK, FreshInv, Found,
     Untouched, Written, Indices, OneCommitter, Committing
<1>6. CommitInv(i)'
  <2>1. mutex = i
    BY DEF InstallerInv, OneCommitter, Committing
  <2>2. ASSUME NEW k \in Indices
        PROVE  RecordInv(i, k)' /\ OriginalInv(i, k)'
    <3>1. RecordInv(i, k) /\ OriginalInv(i, k)
      BY <2>1 DEF InstallerInv, CommitInv
    <3>2. /\ at[i] \in Int /\ InLoop(i) /\ Order[k] \in Files
          /\ at[i] \in Indices /\ k # at[i] => Order[k] # Order[at[i]]
      BY DEF InstallerInv, TypeOK
    <3>3. KindOf(i, Order[k])' = KindOf(i, Order[k]) /\ entry' = entry
      BY DEF KindOf
    <3>4. RecordInv(i, k)'
      BY <3>1, <3>2, <3>3 DEF InstallerInv, TypeOK, InLoop, RecordInv,
         Indices
    <3>5. OriginalInv(i, k)'
      BY <3>1, <3>2, <3>3 DEF InstallerInv, TypeOK, InLoop, RecordInv,
         OriginalInv, Original, Indices, KindOf, Kind
    <3> QED
      BY <3>4, <3>5
  <2> QED
    BY <2>2 DEF CommitInv
<1>7. StepOf(i)
  BY InstallerAssumption DEF StepOf, InstallerInv, TypeOK, OneCommitter,
     Committing
<1> QED
  BY <1>1, <1>2, <1>3, <1>4, <1>5, <1>6, <1>7, StepKeeps

(* Undo: One more file is original again, or a step has failed.            *)
LEMMA UndoKeeps ==
    ASSUME InstallerInv, NEW i \in Installers, Undo(i)
    PROVE  InstallerInv'
<1> USE OrderFacts DEF Undo, CanRestore, Restored, Current, Goto
<1>1. TypeOK'
  <2>1. at[i] \in 1 .. Count + 1 /\ Count \in Nat
    BY DEF InstallerInv, TypeOK, InLoop
  <2>2. PICK k \in {at[i], at[i] - 1} : Goto(i, "undo", k)
    OBVIOUS
  <2>3. /\ at' \in [Installers -> 0 .. Count + 1]
        /\ pc' \in [Installers -> Phases]
    <3>1. k \in 0 .. Count + 1 /\ "undo" \in Phases
      BY <2>1 DEF Phases
    <3> QED
      BY <2>2, <3>1 DEF InstallerInv, TypeOK
  <2>4. Restored(i, Current(i)) \in SUBSET Entries
    <3>1. Current(i) \in Files
      BY <2>1 DEF InstallerInv, TypeOK, InLoop, Indices
    <3> QED
      BY <3>1 DEF InstallerInv, TypeOK, Entries, Absent
  <2>5. /\ disk' \in [Files -> SUBSET Entries]
        /\ errors' \in [Installers -> BOOLEAN]
    <3>1. /\ \/ disk' = disk
             \/ disk' = [disk EXCEPT ![Current(i)] = Restored(i, Current(i))]
          /\ errors' \in {errors, [errors EXCEPT ![i] = TRUE]}
      OBVIOUS
    <3>2. errors' \in [Installers -> BOOLEAN]
      BY <3>1 DEF InstallerInv, TypeOK
    <3>3. disk' \in [Files -> SUBSET Entries]
      <4> HIDE DEF Undo, Restored, Current
      <4> QED
        BY <2>4, <3>1 DEF InstallerInv, TypeOK
    <3> QED
      BY <3>2, <3>3
  <2> QED
    BY <2>3, <2>5 DEF InstallerInv, TypeOK
<1>2. OneCommitter'
  BY InstallerAssumption DEF InstallerInv, OneCommitter, Committing, TypeOK
<1>3. InLoop(i)'
  BY DEF InstallerInv, InLoop, TypeOK, Indices
<1>4. PlanInv(i)'
  BY DEF InstallerInv, InLoop, TypeOK, PlanInv, Planned, Committing, Indices
<1>5. FreshInv(i)'
  BY InstallerAssumption DEF InstallerInv, InLoop, TypeOK, FreshInv, Found,
     Untouched, Written, Indices, OneCommitter, Committing
<1>6. CommitInv(i)'
  <2>1. mutex = i
    BY DEF InstallerInv, OneCommitter, Committing
  <2>2. ASSUME NEW k \in Indices
        PROVE  RecordInv(i, k)' /\ OriginalInv(i, k)'
    <3>1. RecordInv(i, k) /\ OriginalInv(i, k)
      BY <2>1 DEF InstallerInv, CommitInv
    <3>2. /\ at[i] \in Int /\ InLoop(i) /\ Order[k] \in Files
          /\ at[i] \in Indices /\ k # at[i] => Order[k] # Order[at[i]]
      BY DEF InstallerInv, TypeOK
    <3>3. KindOf(i, Order[k])' = KindOf(i, Order[k]) /\ entry' = entry
      BY DEF KindOf
    <3>4. RecordInv(i, k)'
      BY <3>1, <3>2, <3>3 DEF InstallerInv, TypeOK, InLoop, RecordInv,
         Indices
    <3>5. OriginalInv(i, k)'
      BY <3>1, <3>2, <3>3 DEF InstallerInv, TypeOK, InLoop, RecordInv,
         OriginalInv, Original, Indices, KindOf, Kind
    <3> QED
      BY <3>4, <3>5
  <2> QED
    BY <2>2 DEF CommitInv
<1>7. StepOf(i)
  BY InstallerAssumption DEF StepOf, InstallerInv, TypeOK, OneCommitter,
     Committing
<1> QED
  BY <1>1, <1>2, <1>3, <1>4, <1>5, <1>6, <1>7, StepKeeps

(* Leave: nothing is left of an Install that returns, throws or is killed. *)
LEMMA LeaveKeeps ==
    ASSUME InstallerInv, NEW i \in Installers, NEW r \in Outcomes,
           Leave(i, r), UNCHANGED <<disk, backups>>
    PROVE  InstallerInv'
<1> USE DEF Leave, Goto
<1>1. TypeOK'
  BY OrderFacts DEF InstallerInv, TypeOK, Phases, Plans, Entries, Absent,
     NoPlan, NoFiles, NoneExisted
<1>2. OneCommitter'
  BY InstallerAssumption DEF InstallerInv, OneCommitter, Committing, TypeOK
<1>3. InLoop(i)' /\ PlanInv(i)' /\ FreshInv(i)' /\ CommitInv(i)'
  BY InstallerAssumption, OrderFacts DEF InstallerInv, TypeOK, InLoop,
     PlanInv, Planned, Committing, FreshInv, CommitInv
<1>4. StepOf(i)
  BY InstallerAssumption DEF StepOf, InstallerInv, TypeOK
<1> QED
  BY <1>1, <1>2, <1>3, <1>4, StepKeeps

(* Check: the next file, or the end of the Install.                        *)
LEMMA CheckKeeps ==
    ASSUME InstallerInv, NEW i \in Installers, Check(i)
    PROVE  InstallerInv'
<1>1. CASE Leave(i, "refused") /\ UNCHANGED <<disk, backups>>
  BY <1>1, LeaveKeeps DEF Outcomes
<1>2. CASE /\ AtFile(i, "check") /\ NextFile(i, "check")
           /\ UNCHANGED <<disk, backups, mutex, localVars, outcome>>
  <2> USE <1>2, OrderFacts DEF AtFile, NextFile, Goto, localVars
  <2>1. TypeOK' /\ OneCommitter'
    BY DEF InstallerInv, TypeOK, Phases, OneCommitter, Committing
  <2>2. InLoop(i)' /\ PlanInv(i)'
    BY DEF InstallerInv, TypeOK, InLoop, PlanInv, Planned, Committing
  <2>3. FreshInv(i)'
    BY DEF InstallerInv, TypeOK, FreshInv, Found, Untouched, Written
  <2>4. CommitInv(i)'
    BY DEF InstallerInv, CommitInv, OneCommitter, Committing
  <2>5. StepOf(i)
    BY InstallerAssumption DEF StepOf, InstallerInv, TypeOK
  <2> QED
    BY <2>1, <2>2, <2>3, <2>4, <2>5, StepKeeps
<1> QED
  BY <1>1, <1>2 DEF Check
-----------------------------------------------------------------------------
LEMMA InitInv ==
    ASSUME Init
    PROVE  InstallerInv
<1> USE OrderFacts
<1>1. \A f \in Files : Contents(f) \subseteq SUBSET Entries
  BY DEF Contents, Entries, Absent
<1>2. disk \in [Files -> SUBSET Entries]
  <2>1. PICK d \in [Files -> UNION {Contents(f) : f \in Files}] :
           disk = d /\ \A f \in Files : d[f] \in Contents(f)
    BY DEF Init
  <2> QED
    BY <1>1, <2>1
<1>3. TypeOK
  BY <1>2 DEF Init, TypeOK, Phases, Outcomes, Plans, Entries, Absent, NoPlan,
     NoFiles, NoneExisted
<1>4. OneCommitter
  BY InstallerAssumption DEF Init, OneCommitter, Committing
<1>5. ASSUME NEW i \in Installers
      PROVE  InLoop(i) /\ PlanInv(i) /\ FreshInv(i) /\ CommitInv(i)
  BY InstallerAssumption DEF Init, InLoop, PlanInv, Planned, Committing,
     FreshInv, CommitInv
<1> QED
  BY <1>3, <1>4, <1>5 DEF InstallerInv

LEMMA NextInv ==
    ASSUME InstallerInv, [Next]_vars
    PROVE  InstallerInv'
<1>1. CASE UNCHANGED vars
  <2> USE <1>1 DEF vars, localVars
  <2>1. TypeOK' /\ OneCommitter'
    BY DEF InstallerInv, TypeOK, OneCommitter, Committing
  <2>2. ASSUME NEW i \in Installers
        PROVE  InLoop(i)' /\ PlanInv(i)' /\ FreshInv(i)' /\ CommitInv(i)'
    <3>1. InLoop(i) /\ PlanInv(i) /\ FreshInv(i) /\ CommitInv(i)
      BY DEF InstallerInv
    <3>2. InLoop(i)' /\ PlanInv(i)'
      BY <3>1 DEF InLoop, PlanInv, Planned, Committing
    <3>3. FreshInv(i)'
      BY <3>1 DEF FreshInv, Found, Untouched, Written
    <3>4. CommitInv(i)'
      BY <3>1 DEF CommitInv, RecordInv, OriginalInv, Original, KindOf
    <3> QED
      BY <3>2, <3>3, <3>4
  <2> QED
    BY <2>1, <2>2 DEF InstallerInv
<1>2. ASSUME NEW i \in Installers, Prepare(i) PROVE InstallerInv'
  <2>1. CASE Refuse(i)
    BY <2>1, LeaveKeeps DEF Refuse, Outcomes
  <2> QED
    BY <1>2, <2>1, StartKeeps, CheckKeeps, BeginPlanKeeps, ReadKeeps,
       PlanKeeps DEF Prepare
<1>3. ASSUME NEW i \in Installers, Acquire(i) PROVE InstallerInv'
  <2>1. CASE NothingToDo(i) \/ Busy(i)
    BY <2>1, LeaveKeeps DEF NothingToDo, Busy, Outcomes
  <2> QED
    BY <1>3, <2>1, LockKeeps DEF Acquire
<1>4. ASSUME NEW i \in Installers, Commit(i) PROVE InstallerInv'
  <2>1. CASE Abort(i) \/ Finish(i)
    BY <2>1, LeaveKeeps DEF Abort, Finish, Outcomes
  <2> QED
    BY <1>4, <2>1, BackupKeeps, PreparedKeeps, SkipKeeps, WriteKeeps,
       VerifyKeeps, FailKeeps DEF Commit
<1>5. ASSUME NEW i \in Installers, RollBack(i) \/ Crash(i) PROVE InstallerInv'
  <2>1. CASE EndRollBack(i) \/ Crash(i)
    BY <2>1, LeaveKeeps DEF EndRollBack, Crash, Outcomes
  <2> QED
    BY <1>5, <2>1, UndoKeeps DEF RollBack
<1> QED
  BY <1>1, <1>2, <1>3, <1>4, <1>5 DEF Next

(* The invariant of every number of companions.                            *)
THEOREM Invariance == Spec => []InstallerInv
BY InitInv, NextInv, PTL DEF Spec

(* The state of the companions stays within its types.                     *)
THEOREM TypeCorrect == Spec => []TypeOK
BY Invariance, PTL DEF InstallerInv

(* Whoever commits holds the mutex, and nobody else does.                  *)
THEOREM OneCommits == Spec => []OneCommitter
BY Invariance, PTL DEF InstallerInv
-----------------------------------------------------------------------------
(* Which steps decide an Install.                                          *)
LEMMA Deciding ==
    ASSUME InstallerInv, [Next]_vars, NEW i \in Installers, pc[i] # "idle",
           outcome'[i] \notin {"none", "refused"}
    PROVE  NothingToDo(i) \/ Finish(i) \/ EndRollBack(i)
<1>1. outcome[i] = "none" /\ outcome \in [Installers -> Outcomes]
  BY DEF InstallerInv, InLoop, TypeOK
<1>2. UNCHANGED vars => FALSE
  BY <1>1 DEF vars
<1>3. ASSUME NEW j \in Installers, Prepare(j) PROVE FALSE
  BY <1>1, <1>3 DEF Prepare, Start, Refuse, Check, BeginPlan, Read, Plan, Leave
<1>4. ASSUME NEW j \in Installers, Acquire(j) PROVE NothingToDo(i)
  BY <1>1, <1>4 DEF Acquire, NothingToDo, Busy, Lock, Leave
<1>5. ASSUME NEW j \in Installers, Commit(j) PROVE Finish(i)
  BY <1>1, <1>5 DEF Commit, Backup, Abort, Prepared, Skip, Write, Verify,
     Fail, Finish, Leave
<1>6. ASSUME NEW j \in Installers, RollBack(j) \/ Crash(j)
      PROVE  EndRollBack(i)
  BY <1>1, <1>6 DEF RollBack, Undo, EndRollBack, Crash, Leave
<1> QED
  BY <1>2, <1>3, <1>4, <1>5, <1>6 DEF Next

(* A failed Install that reports a complete roll back leaves the folder as *)
(* it was when it took the mutex: every file is original again.            *)
THEOREM RollBacksRestore == Spec => RollBackRestores
<1>1. ASSUME InstallerInv, [Next]_vars, NEW i \in Installers,
             pc[i] = "undo", outcome'[i] = "failed"
      PROVE  disk = entry[i]
  <2>1. EndRollBack(i)
    BY <1>1, Deciding DEF NothingToDo, Finish, Past
  <2>2. at[i] = 0 /\ ~errors[i] /\ mutex = i
    BY <1>1, <2>1 DEF EndRollBack, Leave, InstallerInv, TypeOK, OneCommitter,
       Committing
  <2>3. \A k \in Indices : disk[Order[k]] = entry[i][Order[k]]
    BY <1>1, <2>2 DEF InstallerInv, CommitInv, OriginalInv, Original, Indices
  <2>4. \A f \in Files : disk[f] = entry[i][f]
    BY <2>3, OrderFacts
  <2> QED
    BY <1>1, <2>4 DEF InstallerInv, TypeOK
<1>2. InstallerInv /\ [Next]_vars =>
         [\A i \in Installers :
             pc[i] = "undo" /\ outcome'[i] = "failed" => disk = entry[i]]_vars
  BY <1>1
<1> QED
  BY <1>2, Invariance, PTL DEF Spec, RollBackRestores

(* An Install that reports success leaves all files installed, provided    *)
(* that nobody else has held the mutex since it began to plan.             *)
THEOREM UndisturbedCompletes == Spec => UndisturbedIsComplete
<1>1. ASSUME InstallerInv, [Next]_vars, NEW i \in Installers,
             pc[i] # "idle", outcome'[i] \in {"unchanged", "installed"},
             fresh[i]
      PROVE  Installed
  <2>1. \A k \in Indices : Found(i, k) /\ Order[k] \in Files
    BY <1>1, OrderFacts DEF InstallerInv, FreshInv
  <2>2. NothingToDo(i) \/ Finish(i)
    <3>1. CASE EndRollBack(i)
      <4>1. outcome'[i] \in {"failed", "failedWithErrors"}
        BY <1>1, <3>1 DEF EndRollBack, Leave, InstallerInv, TypeOK
      <4> QED
        BY <1>1, <4>1
    <3>2. outcome'[i] \notin {"none", "refused"}
      BY <1>1
    <3> QED
      BY <1>1, <3>1, <3>2, Deciding
  <2>3. \A k \in Indices : disk[Order[k]] = plan[i][Order[k]].desired
    <3>1. CASE NothingToDo(i)
      BY <2>1, <3>1
         DEF NothingToDo, HasChanges, KindOf, Kind, Found, Untouched
    <3>2. CASE Finish(i)
      BY <2>1, <3>2, OrderFacts DEF Finish, Past, Found, Written, Indices
    <3> QED
      BY <2>2, <3>1, <3>2
  <2>4. \A k \in Indices : Ours(Order[k]) \subseteq plan[i][Order[k]].desired
    BY <1>1, <2>2 DEF InstallerInv, PlanInv, Planned, NothingToDo, Finish,
       Past, Committing
  <2> QED
    BY <2>3, <2>4, OrderFacts DEF Installed
<1>2. InstallerInv /\ [Next]_vars =>
         [\A i \in Installers :
             pc[i] # "idle" /\ outcome'[i] \in {"unchanged", "installed"}
                /\ fresh[i] => Installed]_vars
  BY <1>1
<1> QED
  BY <1>2, Invariance, PTL DEF Spec, UndisturbedIsComplete
-----------------------------------------------------------------------------
(* What is not the mod's in a file.  In a text it never changes, not even  *)
(* when the file comes and goes: T.foreign[f] is what every reader has     *)
(* read and every writer will write.  A DLL is replaced whole.  Of both,   *)
(* T.missing says which may be missing: those are only ever the mod's.     *)
Foreign(f, c) == c \ (Ours(f) \cup {"absent"})
Whole(c) == c = Absent \/ "absent" \notin c
Fits(T, f, c) ==
    /\ Whole(c)
    /\ f \in Texts => Foreign(f, c) = T.foreign[f]
    /\ IF f \in T.missing THEN c \in {Absent, Ours(f)} ELSE c # Absent

\* What i has read and planned fits as well.
ReadInv(T, i) ==
    pc[i] = "plan" /\ at[i] \in Indices /\ Order[at[i]] \in Texts =>
        /\ "absent" \notin seen[i]
        /\ Foreign(Order[at[i]], seen[i]) = T.foreign[Order[at[i]]]
        /\ Order[at[i]] \in T.missing => seen[i] \subseteq Ours(Order[at[i]])
FitInv(T, i) ==
    \A k \in Indices : Planned(i, k) =>
        /\ Fits(T, Order[k], plan[i][Order[k]].existing)
        /\ Fits(T, Order[k], plan[i][Order[k]].desired)
        /\ plan[i][Order[k]].desired # Absent
        /\ Order[k] \in Dlls => plan[i][Order[k]].desired = Ours(Order[k])

\* During a commit: the backups there are, and what has been written.
Done(i, k) ==
    \/ pc[i] = "write" /\ k < at[i]
    \/ pc[i] \in {"verify", "undo"} /\ k <= at[i]
SavedInv(i, k) ==
    (pc[i] = "backup" => k < at[i]) /\ KindOf(i, Order[k]) = "replace" =>
        <<Order[k], entry[i][Order[k]]>> \in backups
DoneInv(i, k) ==
    Done(i, k) /\ KindOf(i, Order[k]) # "unchanged" =>
        disk[Order[k]] = plan[i][Order[k]].desired
HoldInv(T, i) ==
    mutex = i => \A k \in Indices : /\ Fits(T, Order[k], entry[i][Order[k]])
                                    /\ SavedInv(i, k) /\ DoneInv(i, k)

KeptInv(T) ==
    /\ \A f \in Files : Fits(T, f, disk[f])
    /\ \A i \in Installers : ReadInv(T, i) /\ FitInv(T, i) /\ HoldInv(T, i)

(* Nobody but the one that steps can change what it has read; backups stay. *)
Frame(i) ==
    /\ StepOf(i)
    /\ \A j \in Installers \ {i} : seen'[j] = seen[j]
    /\ backups \subseteq backups'

LEMMA Frames ==
    ASSUME InstallerInv, NEW i \in Installers,
           Prepare(i) \/ Acquire(i) \/ Commit(i) \/ RollBack(i) \/ Crash(i)
    PROVE  Frame(i)
<1> USE InstallerAssumption DEF Frame, StepOf, InstallerInv, TypeOK,
        OneCommitter, Committing, localVars, Goto, NextFile
<1>1. ASSUME NEW r \in Outcomes, Leave(i, r), UNCHANGED <<disk, backups>>
      PROVE  Frame(i)
  BY <1>1 DEF Leave
<1>2. CASE Start(i)
  BY <1>2 DEF Start
<1>3. CASE BeginPlan(i)
  BY <1>3 DEF BeginPlan, Past
<1>4. CASE Read(i)
  BY <1>4 DEF Read, AtFile
<1>5. CASE Plan(i)
  BY <1>5 DEF Plan, AtFile
<1>6. CASE Lock(i)
  BY <1>6 DEF Lock
<1>7. CASE Backup(i)
  BY <1>7 DEF Backup, AtFile, Record, Copy
<1>8. CASE Prepared(i)
  BY <1>8 DEF Prepared, Past
<1>9. CASE Skip(i)
  BY <1>9 DEF Skip, AtFile
<1>10. CASE Write(i)
  BY <1>10 DEF Write, AtFile
<1>11. CASE Verify(i)
  BY <1>11 DEF Verify, AtFile
<1>12. CASE Fail(i)
  BY <1>12 DEF Fail
<1>13. CASE Undo(i)
  BY <1>13 DEF Undo
<1>14. CASE Check(i)
  <2>1. CASE Current(i) \in Texts \/ Replaceable(Current(i))
    BY <1>14, <2>1 DEF Check, AtFile
  <2>2. CASE ~(Current(i) \in Texts \/ Replaceable(Current(i)))
    BY <1>1, <1>14, <2>2 DEF Check, Outcomes
  <2> QED
    BY <2>1, <2>2
<1>15. CASE \/ Refuse(i) \/ NothingToDo(i) \/ Busy(i) \/ Abort(i)
              \/ Finish(i) \/ EndRollBack(i) \/ Crash(i)
  BY <1>1, <1>15 DEF Refuse, NothingToDo, Busy, Abort, Finish, EndRollBack,
     Crash, Outcomes
<1> QED
  BY <1>2, <1>3, <1>4, <1>5, <1>6, <1>7, <1>8, <1>9, <1>10, <1>11, <1>12,
     <1>13, <1>14, <1>15 DEF Prepare, Acquire, Commit, RollBack

(* A plan that stays as it is fits as well as it did.                       *)
LEMMA FitKept ==
    ASSUME NEW T, NEW i \in Installers, FitInv(T, i), plan'[i] = plan[i],
           \A k \in Indices : Planned(i, k)' => Planned(i, k)
    PROVE  FitInv(T, i)'
<1> SUFFICES ASSUME NEW k \in Indices, Planned(i, k)'
             PROVE  /\ Fits(T, Order[k], plan'[i][Order[k]].existing)
                    /\ Fits(T, Order[k], plan'[i][Order[k]].desired)
                    /\ plan'[i][Order[k]].desired # Absent
                    /\ Order[k] \in Dlls =>
                          plan'[i][Order[k]].desired = Ours(Order[k])
  BY DEF FitInv
<1> QED
  BY DEF FitInv

(* What a step of one companion must establish.                            *)
LEMMA KeptStep ==
    ASSUME InstallerInv, NEW T, KeptInv(T), NEW i \in Installers, Frame(i),
           \A f \in Files : Fits(T, f, disk'[f]),
           ReadInv(T, i)', FitInv(T, i)', HoldInv(T, i)'
    PROVE  KeptInv(T)'
<1>1. ASSUME NEW j \in Installers \ {i}
      PROVE  ReadInv(T, j)' /\ FitInv(T, j)' /\ HoldInv(T, j)'
  <2>1. ReadInv(T, j) /\ FitInv(T, j) /\ HoldInv(T, j)
    BY DEF KeptInv
  <2>2. ReadInv(T, j)'
    BY <2>1 DEF Frame, StepOf, ReadInv
  <2>3. FitInv(T, j)'
    <3>1. /\ plan'[j] = plan[j]
          /\ \A k \in Indices : Planned(j, k)' => Planned(j, k)
      BY DEF Frame, StepOf, Planned, Committing
    <3> QED
      BY <2>1, <3>1, FitKept
  <2>4. HoldInv(T, j)'
    <3>1. CASE mutex' = j
      <4>1. mutex = j /\ disk' = disk /\ backups \subseteq backups'
        BY <3>1, InstallerAssumption DEF Frame, StepOf
      <4>2. /\ pc'[j] = pc[j] /\ at'[j] = at[j] /\ plan'[j] = plan[j]
            /\ entry'[j] = entry[j]
        BY DEF Frame, StepOf
      <4>3. ASSUME NEW k \in Indices
            PROVE  /\ Fits(T, Order[k], entry'[j][Order[k]])
                   /\ SavedInv(j, k)' /\ DoneInv(j, k)'
        BY <2>1, <4>1, <4>2 DEF HoldInv, SavedInv, DoneInv, Done, KindOf
      <4> QED
        BY <4>3 DEF HoldInv
    <3> QED
      BY <3>1 DEF HoldInv
  <2> QED
    BY <2>2, <2>3, <2>4
<1> QED
  BY <1>1 DEF KeptInv

(* A step of i that reads, plans and writes nothing.                       *)
LEMMA MoveKept ==
    ASSUME InstallerInv, NEW T, KeptInv(T), NEW i \in Installers, Frame(i),
           UNCHANGED <<disk, backups, mutex, plan, entry>>, pc'[i] # "plan",
           \A k \in Indices :
              /\ Planned(i, k)' => Planned(i, k)
              /\ mutex = i /\ (pc'[i] = "backup" => k < at'[i])
                    => (pc[i] = "backup" => k < at[i])
              /\ mutex = i /\ Done(i, k)'
                    => Done(i, k) \/ KindOf(i, Order[k]) = "unchanged"
    PROVE  KeptInv(T)'
<1>1. ReadInv(T, i) /\ FitInv(T, i) /\ HoldInv(T, i)
  BY DEF KeptInv
<1>2. ReadInv(T, i)'
  BY DEF ReadInv
<1>3. FitInv(T, i)'
  BY <1>1 DEF FitInv, Fits, Whole, Foreign
<1>4. HoldInv(T, i)'
  <2> SUFFICES ASSUME mutex = i, NEW k \in Indices
               PROVE  /\ Fits(T, Order[k], entry'[i][Order[k]])
                      /\ SavedInv(i, k)' /\ DoneInv(i, k)'
    BY DEF HoldInv
  <2>1. /\ Fits(T, Order[k], entry'[i][Order[k]])
        /\ SavedInv(i, k) /\ DoneInv(i, k)
    BY <1>1 DEF HoldInv
  <2>2. SavedInv(i, k)'
    BY <2>1 DEF SavedInv, KindOf
  <2>3. DoneInv(i, k)'
    BY <2>1 DEF DoneInv, KindOf
  <2> QED
    BY <2>1, <2>2, <2>3
<1> QED
  BY <1>2, <1>3, <1>4, KeptStep DEF KeptInv

LEMMA MovesKept ==
    ASSUME InstallerInv, NEW T, KeptInv(T), NEW i \in Installers, Frame(i),
           \/ Start(i) \/ BeginPlan(i) \/ Prepared(i) \/ Skip(i)
           \/ Verify(i) \/ Fail(i)
           \/ Check(i) /\ (Current(i) \in Texts \/ Replaceable(Current(i)))
    PROVE  KeptInv(T)'
<1> USE DEF localVars, Goto, NextFile, Planned, Committing, Done, Indices
<1>1. /\ pc \in [Installers -> Phases] /\ at \in [Installers -> 0 .. Count + 1]
      /\ (mutex = i => Committing(i)) /\ Count \in Nat
  BY OrderFacts DEF InstallerInv, TypeOK, OneCommitter
<1>2. CASE Start(i)
  BY <1>1, <1>2, MoveKept DEF Start
<1>3. CASE BeginPlan(i)
  BY <1>1, <1>3, MoveKept DEF BeginPlan, Past
<1>4. CASE Prepared(i)
  BY <1>1, <1>4, MoveKept DEF Prepared, Past
<1>5. CASE Skip(i)
  BY <1>1, <1>5, MoveKept DEF Skip, AtFile, Current
<1>6. CASE Verify(i)
  BY <1>1, <1>6, MoveKept DEF Verify, AtFile
<1>7. CASE Fail(i)
  BY <1>1, <1>7, MoveKept DEF Fail
<1>8. CASE Check(i) /\ (Current(i) \in Texts \/ Replaceable(Current(i)))
  BY <1>1, <1>8, MoveKept DEF Check, AtFile
<1> QED
  BY <1>2, <1>3, <1>4, <1>5, <1>6, <1>7, <1>8

LEMMA LeavesKept ==
    ASSUME InstallerInv, NEW T, KeptInv(T), NEW i \in Installers, Frame(i),
           NEW r \in Outcomes, Leave(i, r), UNCHANGED <<disk, backups>>
    PROVE  KeptInv(T)'
<1>1. pc'[i] = "idle" /\ mutex' # i
  BY InstallerAssumption DEF Leave, Goto, InstallerInv, TypeOK
<1>2. ReadInv(T, i)' /\ FitInv(T, i)' /\ HoldInv(T, i)'
  BY <1>1 DEF ReadInv, FitInv, HoldInv, Planned, Committing
<1> QED
  BY <1>2, KeptStep DEF KeptInv

(* A text is read: what is not the mod's in it is what it always was.      *)
LEMMA ReadKept ==
    ASSUME InstallerInv, NEW T, KeptInv(T), NEW i \in Installers, Frame(i),
           Read(i)
    PROVE  KeptInv(T)'
<1> USE DEF Read, AtFile, Goto
<1>0. /\ pc[i] = "read" /\ pc'[i] = "plan" /\ at'[i] = at[i] /\ mutex # i
      /\ at[i] \in Indices /\ Current(i) \in Files /\ Current(i)' = Current(i)
  BY OrderFacts DEF InstallerInv, TypeOK, OneCommitter, Committing, Indices,
     Current
<1>1. ReadInv(T, i)'
  <2> SUFFICES ASSUME Current(i) \in Texts
               PROVE  /\ "absent" \notin seen'[i]
                      /\ Foreign(Current(i), seen'[i]) = T.foreign[Current(i)]
                      /\ Current(i) \in T.missing =>
                            seen'[i] \subseteq Ours(Current(i))
    BY <1>0 DEF ReadInv, Current
  <2>1. seen'[i] = Lines(Current(i)) /\ Fits(T, Current(i), disk[Current(i)])
    BY <1>0 DEF InstallerInv, TypeOK, KeptInv
  <2>2. CASE disk[Current(i)] = Absent
    BY <2>1, <2>2 DEF Lines, Fits, Foreign, Absent
  <2>3. CASE disk[Current(i)] # Absent
    BY <2>1, <2>3 DEF Lines, Fits, Whole
  <2> QED
    BY <2>2, <2>3
<1>2. FitInv(T, i)'
  <2>1. \A k \in Indices : Planned(i, k)' => Planned(i, k)
    BY <1>0 DEF Planned, Committing
  <2>2. FitInv(T, i)
    BY DEF KeptInv
  <2> QED
    BY <2>1, <2>2 DEF FitInv, Fits, Whole, Foreign
<1>3. HoldInv(T, i)'
  BY <1>0 DEF HoldInv
<1> QED
  BY <1>1, <1>2, <1>3, KeptStep DEF KeptInv

(* A file is planned: what was read of it, with the mod's own.             *)
LEMMA PlanKept ==
    ASSUME InstallerInv, NEW T, KeptInv(T), NEW i \in Installers, Frame(i),
           Plan(i)
    PROVE  KeptInv(T)'
<1> USE DEF Plan, AtFile, Goto, NextFile
<1>0. /\ pc[i] = "plan" /\ at'[i] = at[i] + 1 /\ mutex' = mutex /\ mutex # i
      /\ pc'[i] = IF at[i] = Count THEN "lock" ELSE "read"
      /\ at[i] \in Indices /\ Current(i) \in Files
  BY OrderFacts DEF InstallerInv, TypeOK, OneCommitter, Committing, Indices,
     Current
<1>1. ReadInv(T, i)'
  BY <1>0 DEF ReadInv
<1>2. FitInv(T, i)'
  <2> SUFFICES ASSUME NEW k \in Indices, Planned(i, k)'
               PROVE  /\ Fits(T, Order[k], plan'[i][Order[k]].existing)
                      /\ Fits(T, Order[k], plan'[i][Order[k]].desired)
                      /\ plan'[i][Order[k]].desired # Absent
                      /\ Order[k] \in Dlls =>
                            plan'[i][Order[k]].desired = Ours(Order[k])
    BY DEF FitInv, Fits, Whole, Foreign
  <2>1. CASE k = at[i]
    <3>1. /\ plan'[i][Order[k]].existing = disk[Order[k]]
          /\ plan'[i][Order[k]].desired = Desired(i, Order[k])
      BY <1>0, <2>1 DEF InstallerInv, TypeOK, Current
    <3>2. Fits(T, Order[k], disk[Order[k]])
      BY <1>0, <2>1 DEF KeptInv, Current
    <3>3. Order[k] \in Files /\ (Order[k] \in Texts <=> Order[k] \notin Dlls)
      BY <1>0, <2>1 DEF Current, Texts
    <3>4. CASE Order[k] \in Dlls
      BY <3>1, <3>2, <3>3, <3>4
         DEF Desired, Fits, Whole, Foreign, Ours, Absent
    <3>5. CASE Order[k] \in Texts
      <4>1. /\ "absent" \notin seen[i]
            /\ Foreign(Order[k], seen[i]) = T.foreign[Order[k]]
            /\ Order[k] \in T.missing => seen[i] \subseteq Ours(Order[k])
        BY <1>0, <2>1, <3>5 DEF KeptInv, ReadInv
      <4>2. /\ Desired(i, Order[k]) = seen[i] \cup {"ours"}
            /\ Ours(Order[k]) = {"ours"}
        BY <3>3, <3>5 DEF Desired, Ours
      <4> QED
        BY <3>1, <3>2, <3>3, <3>5, <4>1, <4>2 DEF Fits, Whole, Foreign, Absent
    <3> QED
      BY <3>3, <3>4, <3>5
  <2>2. CASE k # at[i]
    <3>1. plan'[i][Order[k]] = plan[i][Order[k]]
      <4>1. Order[k] # Order[at[i]] /\ Order[k] \in Files
        BY <1>0, <2>2, OrderFacts
      <4> QED
        BY <1>0, <4>1 DEF InstallerInv, TypeOK, Current
    <3>2. Planned(i, k)
      <4>1. k < at[i]
        BY <1>0, <2>2, OrderFacts DEF Planned, Committing, Indices
      <4> QED
        BY <1>0, <4>1 DEF Planned
    <3> QED
      BY <3>1, <3>2 DEF KeptInv, FitInv
  <2> QED
    BY <2>1, <2>2
<1>3. HoldInv(T, i)'
  BY <1>0 DEF HoldInv
<1> QED
  BY <1>1, <1>2, <1>3, KeptStep DEF KeptInv

(* The folder at the beginning of a commit fits.                           *)
LEMMA LockKept ==
    ASSUME InstallerInv, NEW T, KeptInv(T), NEW i \in Installers, Frame(i),
           Lock(i)
    PROVE  KeptInv(T)'
<1> USE DEF Lock, Goto
<1>0. /\ pc[i] = "lock" /\ pc'[i] = "backup" /\ at'[i] = 1
      /\ entry'[i] = disk /\ plan' = plan
  BY DEF InstallerInv, TypeOK
<1>1. ReadInv(T, i)'
  BY <1>0 DEF ReadInv
<1>2. FitInv(T, i)'
  <2>1. FitInv(T, i) /\ plan'[i] = plan[i]
    BY <1>0 DEF KeptInv
  <2>2. \A k \in Indices : Planned(i, k)' => Planned(i, k)
    BY <1>0 DEF Planned, Committing
  <2> QED
    BY <2>1, <2>2, FitKept
<1>3. HoldInv(T, i)'
  <2>1. ASSUME NEW k \in Indices
        PROVE  /\ Fits(T, Order[k], entry'[i][Order[k]])
               /\ SavedInv(i, k)' /\ DoneInv(i, k)'
    BY <1>0, OrderFacts DEF KeptInv, SavedInv, DoneInv, Done, Indices
  <2> QED
    BY <2>1 DEF HoldInv
<1> QED
  BY <1>1, <1>2, <1>3, KeptStep DEF KeptInv

(* A file that will be replaced is copied as it was at the beginning.      *)
LEMMA BackupKept ==
    ASSUME InstallerInv, NEW T, KeptInv(T), NEW i \in Installers, Frame(i),
           Backup(i)
    PROVE  KeptInv(T)'
<1> USE DEF Backup, AtFile, Goto, NextFile
<1>0. /\ pc[i] = "backup" /\ pc'[i] = "backup" /\ at'[i] = at[i] + 1
      /\ mutex = i /\ plan' = plan /\ entry' = entry /\ disk' = disk
      /\ at[i] \in Indices /\ ~errors[i]
  BY DEF InstallerInv, TypeOK, OneCommitter, Committing, Indices, InLoop
<1>1. ReadInv(T, i)'
  BY <1>0 DEF ReadInv
<1>2. FitInv(T, i)'
  <2>1. FitInv(T, i) /\ plan'[i] = plan[i]
    BY <1>0 DEF KeptInv
  <2>2. \A k \in Indices : Planned(i, k)' => Planned(i, k)
    BY <1>0 DEF Planned, Committing
  <2> QED
    BY <2>1, <2>2, FitKept
<1>3. HoldInv(T, i)'
  <2> SUFFICES ASSUME NEW k \in Indices
               PROVE  /\ Fits(T, Order[k], entry'[i][Order[k]])
                      /\ SavedInv(i, k)' /\ DoneInv(i, k)'
    BY DEF HoldInv
  <2>1. Fits(T, Order[k], entry[i][Order[k]]) /\ SavedInv(i, k)
    BY <1>0 DEF KeptInv, HoldInv
  <2>2. DoneInv(i, k)'
    BY <1>0 DEF DoneInv, Done
  <2>3. SavedInv(i, k)'
    <3>1. CASE k = at[i]
      <4>1. disk[Order[k]] = entry[i][Order[k]]
        BY <1>0 DEF InstallerInv, CommitInv, OriginalInv, Original
      <4> QED
        BY <1>0, <3>1, <4>1 DEF Copy, Current, SavedInv, KindOf
    <3>2. CASE k # at[i]
      <4>1. (k < at'[i] => k < at[i]) /\ backups \subseteq backups'
        <5>1. at[i] \in Int /\ k \in Int
          BY <1>0, OrderFacts DEF Indices
        <5>2. k < at[i] + 1 => k < at[i]
          BY <3>2, <5>1
        <5> QED
          BY <1>0, <5>2 DEF Frame
      <4> QED
        BY <1>0, <2>1, <4>1 DEF SavedInv, KindOf
    <3> QED
      BY <3>1, <3>2
  <2> QED
    BY <1>0, <2>1, <2>2, <2>3
<1> QED
  BY <1>0, <1>1, <1>2, <1>3, KeptStep DEF KeptInv

(* What is written is what was planned.                                    *)
LEMMA WriteKept ==
    ASSUME InstallerInv, NEW T, KeptInv(T), NEW i \in Installers, Frame(i),
           Write(i)
    PROVE  KeptInv(T)'
<1> USE DEF Write, AtFile, Goto, localVars
<1>0. /\ pc[i] = "write" /\ pc'[i] = "verify" /\ at'[i] = at[i]
      /\ mutex = i /\ plan' = plan /\ entry' = entry /\ backups' = backups
      /\ at[i] \in Indices /\ Current(i) = Order[at[i]] /\ Current(i) \in Files
  BY OrderFacts DEF InstallerInv, TypeOK, OneCommitter, Committing, Indices,
     Current
<1>1. ReadInv(T, i)'
  BY <1>0 DEF ReadInv
<1>2. FitInv(T, i)'
  <2>1. FitInv(T, i) /\ plan'[i] = plan[i]
    BY <1>0 DEF KeptInv
  <2>2. \A k \in Indices : Planned(i, k)' => Planned(i, k)
    BY <1>0 DEF Planned, Committing
  <2> QED
    BY <2>1, <2>2, FitKept
<1>3. \A f \in Files : Fits(T, f, disk'[f])
  <2>1. Fits(T, Current(i), plan[i][Current(i)].desired)
    BY <1>0 DEF KeptInv, FitInv, Planned, Committing
  <2> QED
    BY <1>0, <2>1 DEF KeptInv, InstallerInv, TypeOK
<1>4. HoldInv(T, i)'
  <2> SUFFICES ASSUME NEW k \in Indices
               PROVE  /\ Fits(T, Order[k], entry'[i][Order[k]])
                      /\ SavedInv(i, k)' /\ DoneInv(i, k)'
    BY DEF HoldInv
  <2>1. /\ Fits(T, Order[k], entry[i][Order[k]])
        /\ SavedInv(i, k) /\ DoneInv(i, k)
    BY <1>0 DEF KeptInv, HoldInv
  <2>2. SavedInv(i, k)'
    BY <1>0, <2>1 DEF SavedInv, KindOf
  <2>3. DoneInv(i, k)'
    <3>1. CASE k = at[i]
      BY <1>0, <3>1 DEF DoneInv, InstallerInv, TypeOK
    <3>2. CASE k # at[i]
      <4>1. disk'[Order[k]] = disk[Order[k]]
        <5>1. Order[k] # Current(i) /\ Order[k] \in Files
          BY <1>0, <3>2, OrderFacts
        <5> QED
          BY <5>1 DEF InstallerInv, TypeOK
      <4>2. Done(i, k)' => Done(i, k)
        BY <1>0, <3>2 DEF Done, Indices
      <4> QED
        BY <1>0, <2>1, <4>1, <4>2 DEF DoneInv, KindOf
    <3> QED
      BY <3>1, <3>2
  <2> QED
    BY <1>0, <2>1, <2>2, <2>3
<1> QED
  BY <1>1, <1>2, <1>3, <1>4, KeptStep

(* What is restored is what was there at the beginning.                    *)
LEMMA Restoring ==
    ASSUME InstallerInv, NEW i \in Installers, Undo(i), disk' # disk
    PROVE  /\ at[i] \in Indices /\ Current(i) \in Files /\ mutex = i
           /\ KindOf(i, Current(i)) # "unchanged"
           /\ disk' = [disk EXCEPT ![Current(i)] = entry[i][Current(i)]]
<1>1. /\ at[i] \in Indices /\ Current(i) \in Files /\ mutex = i
      /\ pc[i] = "undo"
  BY OrderFacts DEF Undo, InstallerInv, TypeOK, OneCommitter, Committing,
     Indices, Current, InLoop
<1>2. /\ KindOf(i, Current(i)) # "unchanged" /\ CanRestore(i, Current(i))
      /\ disk' = [disk EXCEPT ![Current(i)] = Restored(i, Current(i))]
  BY DEF Undo
<1>3. Restored(i, Current(i)) = entry[i][Current(i)]
  BY <1>1, <1>2 DEF InstallerInv, CommitInv, RecordInv, Current, Restored,
     CanRestore, TypeOK
<1> QED
  BY <1>1, <1>2, <1>3

LEMMA UndoKept ==
    ASSUME InstallerInv, NEW T, KeptInv(T), NEW i \in Installers, Frame(i),
           Undo(i)
    PROVE  KeptInv(T)'
<1> USE DEF Goto
<1>0. /\ pc[i] = "undo" /\ pc'[i] = "undo" /\ at'[i] = at[i] - 1
      /\ mutex = i /\ plan' = plan /\ entry' = entry /\ backups' = backups
      /\ at[i] \in Indices /\ Current(i) = Order[at[i]]
  BY OrderFacts DEF Undo, InstallerInv, TypeOK, OneCommitter, Committing,
     Indices, Current, InLoop
<1>1. ReadInv(T, i)'
  BY <1>0 DEF ReadInv
<1>2. FitInv(T, i)'
  <2>1. FitInv(T, i) /\ plan'[i] = plan[i]
    BY <1>0 DEF KeptInv
  <2>2. \A k \in Indices : Planned(i, k)' => Planned(i, k)
    BY <1>0 DEF Planned, Committing
  <2> QED
    BY <2>1, <2>2, FitKept
<1>3. \A f \in Files : Fits(T, f, disk'[f])
  <2>1. CASE disk' = disk
    BY <2>1 DEF KeptInv
  <2>2. CASE disk' # disk
    <3>1. Fits(T, Current(i), entry[i][Current(i)])
      BY <1>0 DEF KeptInv, HoldInv
    <3> QED
      BY <2>2, <3>1, Restoring DEF KeptInv, InstallerInv, TypeOK
  <2> QED
    BY <2>1, <2>2
<1>4. HoldInv(T, i)'
  <2> SUFFICES ASSUME NEW k \in Indices
               PROVE  /\ Fits(T, Order[k], entry'[i][Order[k]])
                      /\ SavedInv(i, k)' /\ DoneInv(i, k)'
    BY DEF HoldInv
  <2>1. /\ Fits(T, Order[k], entry[i][Order[k]])
        /\ SavedInv(i, k) /\ DoneInv(i, k)
    BY <1>0 DEF KeptInv, HoldInv
  <2>2. SavedInv(i, k)'
    BY <1>0, <2>1 DEF SavedInv, KindOf
  <2>3. DoneInv(i, k)'
    <3> SUFFICES ASSUME Done(i, k)' PROVE DoneInv(i, k)'
      BY DEF DoneInv
    <3>1. Done(i, k) /\ k # at[i]
      BY <1>0 DEF Done, Indices, InstallerInv, TypeOK
    <3>2. disk'[Order[k]] = disk[Order[k]]
      <4>1. Order[k] # Current(i) /\ Order[k] \in Files
        BY <1>0, <3>1, OrderFacts
      <4> QED
        BY <4>1, Restoring DEF InstallerInv, TypeOK
    <3> QED
      BY <1>0, <2>1, <3>1, <3>2 DEF DoneInv, KindOf
  <2> QED
    BY <1>0, <2>1, <2>2, <2>3
<1> QED
  BY <1>1, <1>2, <1>3, <1>4, KeptStep

LEMMA NextKept ==
    ASSUME InstallerInv, NEW T, KeptInv(T), [Next]_vars
    PROVE  KeptInv(T)'
<1>1. CASE UNCHANGED vars
  BY <1>1 DEF vars, localVars, KeptInv, ReadInv, FitInv, HoldInv, Planned,
     Committing, SavedInv, DoneInv, Done, KindOf, Fits, Whole, Foreign
<1>2. ASSUME NEW i \in Installers,
             Prepare(i) \/ Acquire(i) \/ Commit(i) \/ RollBack(i) \/ Crash(i)
      PROVE  KeptInv(T)'
  <2>1. Frame(i)
    BY <1>2, Frames
  <2>2. ASSUME NEW r \in Outcomes, Leave(i, r), UNCHANGED <<disk, backups>>
        PROVE  KeptInv(T)'
    BY <2>1, <2>2, LeavesKept
  <2>3. CASE \/ Refuse(i) \/ NothingToDo(i) \/ Busy(i) \/ Abort(i)
             \/ Finish(i) \/ EndRollBack(i) \/ Crash(i)
    BY <2>2, <2>3 DEF Refuse, NothingToDo, Busy, Abort, Finish, EndRollBack,
       Crash, Outcomes
  <2>4. CASE Check(i)
    <3>1. CASE Current(i) \in Texts \/ Replaceable(Current(i))
      BY <2>1, <2>4, <3>1, MovesKept
    <3>2. CASE ~(Current(i) \in Texts \/ Replaceable(Current(i)))
      BY <2>2, <2>4, <3>2 DEF Check, Outcomes
    <3> QED
      BY <3>1, <3>2
  <2> QED
    BY <1>2, <2>1, <2>3, <2>4, MovesKept, ReadKept, PlanKept, LockKept,
       BackupKept, WriteKept, UndoKept DEF Prepare, Acquire, Commit, RollBack
<1> QED
  BY <1>1, <1>2 DEF Next

Kept == \E T : KeptInv(T)

LEMMA InitKept == Init => Kept
<1> SUFFICES ASSUME Init PROVE Kept
  OBVIOUS
<1> DEFINE T == [foreign |-> [f \in Files |-> Foreign(f, disk[f])],
                 missing |-> {f \in Files : disk[f] = Absent}]
<1>1. \A f \in Files : disk[f] \in Contents(f)
  BY DEF Init
<1>2. ASSUME NEW f \in Files PROVE Fits(T, f, disk[f])
  <2>1. Whole(disk[f])
    BY <1>1 DEF Contents, Whole, Absent
  <2>2. T.foreign[f] = Foreign(f, disk[f])
        /\ (f \in T.missing <=> disk[f] = Absent)
    OBVIOUS
  <2> QED
    BY <2>1, <2>2 DEF Fits
<1> HIDE DEF T
<1>3. ASSUME NEW i \in Installers
      PROVE  ReadInv(T, i) /\ FitInv(T, i) /\ HoldInv(T, i)
  BY InstallerAssumption DEF Init, ReadInv, FitInv, HoldInv, Planned,
     Committing
<1>4. KeptInv(T)
  BY <1>2, <1>3 DEF KeptInv
<1> QED
  BY <1>4 DEF Kept

LEMMA KeptInvariant == Spec => []Kept
<1>1. InstallerInv /\ Kept /\ [Next]_vars => Kept'
  BY NextKept DEF Kept
<1> QED
  BY <1>1, InitKept, Invariance, PTL DEF Spec

(* Only a write and a step of a roll back change the folder.               *)
LEMMA WhoWrites ==
    ASSUME [Next]_vars
    PROVE  disk' = disk \/ \E i \in Installers : Write(i) \/ Undo(i)
<1>1. ASSUME NEW i \in Installers, Prepare(i) \/ Acquire(i) PROVE disk' = disk
  BY <1>1 DEF Prepare, Acquire, Start, Refuse, Check, BeginPlan, Read, Plan,
     NothingToDo, Busy, Lock
<1>2. ASSUME NEW i \in Installers, Commit(i) PROVE disk' = disk \/ Write(i)
  BY <1>2 DEF Commit, Backup, Abort, Prepared, Skip, Verify, Fail, Finish
<1>3. ASSUME NEW i \in Installers, RollBack(i) \/ Crash(i)
      PROVE  disk' = disk \/ Undo(i)
  BY <1>3 DEF RollBack, EndRollBack, Crash
<1> QED
  BY <1>1, <1>2, <1>3 DEF Next, vars

(* What any step takes from a file of the folder, other than the mod's     *)
(* own, is in a backup: for every number of companions that install, fail, *)
(* roll back and are killed at any moment.                                 *)
THEOREM NothingIsLost == Spec => NothingLost
<1> DEFINE Safe == \A f \in Files :
                      disk[f] # Absent =>
                         \/ disk[f] \ Ours(f) \subseteq disk'[f]
                         \/ <<f, disk[f]>> \in backups'
<1>1. ASSUME InstallerInv, Kept, [Next]_vars PROVE Safe
  <2> SUFFICES ASSUME NEW f \in Files, disk[f] # Absent, disk'[f] # disk[f]
               PROVE  \/ disk[f] \ Ours(f) \subseteq disk'[f]
                      \/ <<f, disk[f]>> \in backups'
    OBVIOUS
  <2>1. PICK T : KeptInv(T)
    BY <1>1 DEF Kept
  <2>2. Fits(T, f, disk[f]) /\ Fits(T, f, disk'[f])
    BY <1>1, <2>1, NextKept DEF KeptInv
  <2>3. CASE f \in Texts
    <3>1. disk[f] \ Ours(f) = Foreign(f, disk[f])
      BY <2>2 DEF Fits, Whole, Foreign
    <3> QED
      BY <2>2, <2>3, <3>1 DEF Fits, Foreign
  <2>4. CASE f \in Dlls
    <3>1. PICK i \in Installers : Write(i) \/ Undo(i)
      BY <1>1, WhoWrites
    <3>2. PICK k \in Indices : Order[k] = f
      BY OrderFacts
    <3>3. CASE Write(i)
      <4>1. /\ k = at[i] /\ pc[i] = "write" /\ mutex = i
            /\ KindOf(i, f) # "unchanged" /\ ~errors[i] /\ backups' = backups
        BY <1>1, <3>2, <3>3, OrderFacts DEF Write, AtFile, Current,
           InstallerInv, TypeOK, OneCommitter, Committing, InLoop, Indices
      <4>2. CASE KindOf(i, f) = "replace"
        <5>1. <<f, entry[i][f]>> \in backups
          BY <2>1, <3>2, <4>1, <4>2 DEF KeptInv, HoldInv, SavedInv
        <5>2. disk[f] = entry[i][f]
          BY <1>1, <3>2, <4>1 DEF InstallerInv, CommitInv, OriginalInv,
             Original, Indices
        <5> QED
          BY <4>1, <5>1, <5>2
      <4>3. CASE KindOf(i, f) # "replace"
        <5>1. plan[i][f].existing = Absent
          BY <4>1, <4>3 DEF KindOf, Kind
        <5>2. Fits(T, f, Absent)
          BY <2>1, <3>2, <4>1, <5>1 DEF KeptInv, FitInv, Planned, Committing
        <5> QED
          BY <2>2, <2>4, <5>2 DEF Fits, Whole, Foreign
      <4> QED
        BY <4>2, <4>3
    <3>4. CASE Undo(i)
      <4>1. /\ k = at[i] /\ pc[i] = "undo" /\ mutex = i
            /\ KindOf(i, f) # "unchanged"
        <5>1. /\ at[i] \in Indices /\ Current(i) \in Files /\ mutex = i
              /\ KindOf(i, Current(i)) # "unchanged"
              /\ disk' = [disk EXCEPT ![Current(i)] = entry[i][Current(i)]]
          BY <1>1, <3>4, Restoring
        <5>2. f = Current(i)
          BY <1>1, <5>1 DEF InstallerInv, TypeOK
        <5> QED
          BY <3>2, <3>4, <5>1, <5>2, OrderFacts DEF Undo, Current
      <4>2. disk[f] = Ours(f)
        BY <2>1, <2>4, <3>2, <4>1 DEF KeptInv, HoldInv, DoneInv, Done, FitInv,
           Planned, Committing, Indices
      <4> QED
        BY <4>2
    <3> QED
      BY <3>1, <3>3, <3>4
  <2> QED
    BY <2>3, <2>4 DEF Texts
<1>2. InstallerInv /\ Kept /\ [Next]_vars => [Safe]_vars
  BY <1>1
<1>3. Spec => [][Safe]_vars
  BY <1>2, KeptInvariant, Invariance, PTL DEF Spec
<1> QED
  BY <1>3 DEF NothingLost

(* What a write of Install replaces is in a backup, with any number of     *)
(* companions: it takes another program to make one write over a file that *)
(* it has not saved.                                                       *)
THEOREM ReplacedAreBackedUp == Spec => ReplacedWereBackedUp
<1>1. ASSUME InstallerInv, Kept, [Next]_vars, NEW i \in Installers,
             pc[i] = "write", pc'[i] = "verify"
      PROVE  \/ disk[Current(i)] \in {Absent, disk'[Current(i)]}
             \/ <<Current(i), disk[Current(i)]>> \in backups
  <2>1. PICK T : KeptInv(T)
    BY <1>1 DEF Kept
  <2>2. Write(i)
    <3>1. PICK j \in Installers :
             Prepare(j) \/ Acquire(j) \/ Commit(j) \/ RollBack(j) \/ Crash(j)
      BY <1>1 DEF Next, vars
    <3>2. i = j
      BY <1>1, <3>1, Frames DEF Frame, StepOf
    <3> QED
      BY <1>1, <3>1, <3>2 DEF InstallerInv, TypeOK, Prepare, Acquire, Commit,
         RollBack, Crash, Start, Refuse, Check, BeginPlan, Read, Plan,
         NothingToDo, Busy, Lock, Backup, Abort, Prepared, Skip, Verify, Fail,
         Finish, Undo, EndRollBack, Leave, Goto, NextFile, AtFile, Past
  <2> DEFINE k == at[i]
             f == Current(i)
  <2>3. /\ k \in Indices /\ f = Order[k] /\ f \in Files /\ mutex = i
        /\ ~errors[i] /\ KindOf(i, f) # "unchanged"
        /\ disk'[f] = plan[i][f].desired
    BY <1>1, <2>2, OrderFacts DEF Write, AtFile, Current, InstallerInv, TypeOK,
       OneCommitter, Committing, InLoop, Indices
  <2>4. CASE KindOf(i, f) = "replace"
    <3>1. <<f, entry[i][f]>> \in backups
      BY <1>1, <2>1, <2>3, <2>4 DEF KeptInv, HoldInv, SavedInv
    <3>2. disk[f] = entry[i][f]
      BY <1>1, <2>3 DEF InstallerInv, CommitInv, OriginalInv, Original, Indices
    <3> QED
      BY <3>1, <3>2
  <2>5. CASE KindOf(i, f) # "replace"
    <3>1. plan[i][f].existing = Absent
      BY <2>3, <2>5 DEF KindOf, Kind
    <3>2. /\ Fits(T, f, Absent) /\ Fits(T, f, disk[f])
          /\ Fits(T, f, plan[i][f].desired) /\ plan[i][f].desired # Absent
      BY <1>1, <2>1, <2>3, <3>1 DEF KeptInv, FitInv, Planned, Committing
    <3> QED
      BY <2>3, <3>2 DEF Fits
  <2> QED
    BY <2>4, <2>5
<1>2. InstallerInv /\ Kept /\ [Next]_vars =>
         [\A i \in Installers :
            pc[i] = "write" /\ pc'[i] = "verify" =>
              \/ disk[Current(i)] \in {Absent, disk'[Current(i)]}
              \/ <<Current(i), disk[Current(i)]>> \in backups]_vars
  BY <1>1
<1> QED
  BY <1>2, KeptInvariant, Invariance, PTL DEF Spec, ReplacedWereBackedUp
-----------------------------------------------------------------------------
(* desiredFiles lists the DLL before the text that names it.               *)
ListAfterDll ==
    \E c, l \in Indices : c < l /\ Order[c] = "controls" /\ Order[l] = "list"

(* A companion does not write the list without the DLL: that one is there  *)
(* already, as planned or as written.                                      *)
LEMMA WriteListed ==
    ASSUME ListAfterDll, InstallerInv, Kept, NEW i \in Installers, Write(i),
           Dangling(disk'), fresh[i]
    PROVE  Dangling(disk)
<1>1. PICK c \in Indices, l \in Indices :
         c < l /\ Order[c] = "controls" /\ Order[l] = "list"
  BY DEF ListAfterDll
<1>2. PICK T : KeptInv(T)
  BY DEF Kept
<1>3. /\ at[i] \in Indices /\ pc[i] = "write" /\ Current(i) = Order[at[i]]
      /\ disk' = [disk EXCEPT ![Current(i)] = plan[i][Current(i)].desired]
  BY DEF Write, AtFile, Current, Indices
<1>4. /\ "controls" \in Files /\ "list" \in Files
      /\ disk \in [Files -> SUBSET Entries]
  BY <1>1, OrderFacts DEF InstallerInv, TypeOK
<1>5. \A k \in Indices : plan[i][Order[k]].desired # Absent
  BY <1>2, <1>3 DEF KeptInv, FitInv, Planned, Committing
<1>6. at[i] # c
  BY <1>1, <1>3, <1>4, <1>5 DEF Dangling
<1>7. Order[at[i]] # "controls"
  BY <1>1, <1>3, <1>6, OrderFacts
<1>8. disk["controls"] = Absent
  BY <1>3, <1>4, <1>7 DEF Dangling
<1>9. at[i] # l
  <2> SUFFICES ASSUME at[i] = l PROVE FALSE
    OBVIOUS
  <2>1. Written(i, c)
    BY <1>1, <1>3 DEF Written
  <2>2. disk[Order[c]] = plan[i][Order[c]].desired
    BY <2>1 DEF InstallerInv, FreshInv, Found
  <2> QED
    BY <1>1, <1>5, <1>8, <2>2
<1>10. Order[at[i]] # "list"
  BY <1>1, <1>3, <1>9, OrderFacts
<1> QED
  BY <1>3, <1>4, <1>7, <1>8, <1>10 DEF Dangling

(* A roll back takes the list back before the DLL.                         *)
LEMMA UndoListed ==
    ASSUME ListAfterDll, InstallerInv, Kept, NEW i \in Installers, Undo(i),
           Dangling(disk'), ~errors[i], ~Dangling(entry[i])
    PROVE  Dangling(disk)
<1>1. PICK c \in Indices, l \in Indices :
         c < l /\ Order[c] = "controls" /\ Order[l] = "list"
  BY DEF ListAfterDll
<1>2. PICK T : KeptInv(T)
  BY DEF Kept
<1> SUFFICES ASSUME disk' # disk PROVE Dangling(disk)
  OBVIOUS
<1>3. /\ at[i] \in Indices /\ mutex = i /\ pc[i] = "undo"
      /\ Current(i) = Order[at[i]]
      /\ disk' = [disk EXCEPT ![Current(i)] = entry[i][Current(i)]]
  BY Restoring DEF Undo, Current
<1>4. /\ "controls" \in Files /\ "list" \in Files
      /\ disk \in [Files -> SUBSET Entries]
  BY <1>1, OrderFacts DEF InstallerInv, TypeOK
<1>5. \A k \in Indices :
         k > at[i] \/ KindOf(i, Order[k]) = "unchanged" =>
            disk[Order[k]] = entry[i][Order[k]]
  BY <1>3 DEF InstallerInv, CommitInv, OriginalInv, Original
<1>6. \A k \in Indices :
         k <= at[i] /\ KindOf(i, Order[k]) # "unchanged" =>
            disk[Order[k]] # Absent
  BY <1>2, <1>3 DEF KeptInv, HoldInv, DoneInv, Done, FitInv, Planned,
     Committing
<1>7. CASE at[i] = c
  BY <1>1, <1>3, <1>4, <1>5, <1>7 DEF Dangling, Indices
<1>8. CASE at[i] = l
  BY <1>1, <1>3, <1>4, <1>5, <1>6, <1>8 DEF Dangling, Indices
<1>9. CASE at[i] # c /\ at[i] # l
  <2>1. Order[at[i]] # "controls" /\ Order[at[i]] # "list"
    BY <1>1, <1>3, <1>9, OrderFacts
  <2> QED
    BY <1>3, <1>4, <2>1 DEF Dangling
<1> QED
  BY <1>7, <1>8, <1>9

(* scripts.txt never comes to name a DLL that is missing, in a commit, a   *)
(* crash or a roll back of any number of companions, but in the cases that *)
(* the property excepts: for every list of files in which the DLL comes    *)
(* first.                                                                  *)
THEOREM ListedAreInstalled ==
    ASSUME ListAfterDll PROVE Spec => ListedIsInstalled
<1>1. ASSUME InstallerInv, Kept, [Next]_vars, Dangling(disk')
      PROVE  \/ Dangling(disk)
             \/ \E i \in Installers :
                   mutex = i /\ (errors[i] \/ Dangling(entry[i]) \/ ~fresh[i])
  <2>1. CASE disk' = disk
    BY <1>1, <2>1
  <2>2. CASE disk' # disk
    <3>1. PICK i \in Installers : Write(i) \/ Undo(i)
      BY <2>2, WhoWrites, <1>1
    <3>2. mutex = i
      BY <1>1, <3>1 DEF Write, AtFile, Undo, InstallerInv, TypeOK,
         OneCommitter, Committing
    <3> QED
      BY <1>1, <3>1, <3>2, WriteListed, UndoListed
  <2> QED
    BY <2>1, <2>2
<1>2. InstallerInv /\ Kept /\ [Next]_vars =>
         [Dangling(disk') =>
            \/ Dangling(disk)
            \/ \E i \in Installers :
                  mutex = i
                    /\ (errors[i] \/ Dangling(entry[i]) \/ ~fresh[i])]_vars
  BY <1>1
<1> QED
  BY <1>2, KeptInvariant, Invariance, PTL DEF Spec, ListedIsInstalled
=============================================================================
