------------------------------ MODULE Installer ------------------------------
(***************************************************************************)
(* SMPCToolCompanion/src/InstallerCore.cs: Install, that is Prepare, the   *)
(* mutex, Commit and RollBack, for several companions at one game folder.  *)
(*                                                                         *)
(* A content is a set of entries: a DLL is the set of its one version, a   *)
(* text file the set of its lines or arguments; Absent stands for no file. *)
(* Hashes are compared as the contents they stand for.  A file operation   *)
(* is one step; File.Replace and File.Move happen or fail as a whole.      *)
(***************************************************************************)
EXTENDS Integers, Sequences

CONSTANTS
    Installers,     \* running companions
    NoInstaller,    \* the free mutex
    Order,          \* the files in the order of desiredFiles
    Dlls            \* those of them that are DLLs; the others are text

ASSUME InstallerAssumption ==
    /\ NoInstaller \notin Installers
    /\ Order \in Seq(STRING)
    /\ \A j, k \in 1 .. Len(Order) : Order[j] = Order[k] => j = k
    /\ Dlls \subseteq {Order[k] : k \in 1 .. Len(Order)}

VARIABLES
    disk,       \* the game folder
    backups,    \* copies in all backup directories
    mutex,
    pc, at,     \* per companion: phase and index of the file at hand
    seen,       \* the text Prepare has read for the file at hand
    plan,       \* per file: its content when planned, and the desired one
    existed,    \* CommitRecord.Existed
    saved,      \* the content at CommitRecord.BackupPath, or Absent
    errors,     \* whether rollbackErrors is not empty
    outcome,    \* of the last Install
    entry,      \* history: the folder when the mutex was taken
    fresh       \* history: nobody else has held the mutex since Start

localVars == <<seen, plan, existed, saved, errors, entry, fresh>>
vars == <<disk, backups, mutex, pc, at, localVars, outcome>>

Count == Len(Order)
Files == {Order[k] : k \in 1 .. Count}
Texts == Files \ Dlls
Absent == {"absent"}
Ours(f) == IF f \in Dlls THEN {"new"} ELSE {"ours"}
Contents(f) ==
    IF f \in Dlls
      THEN {Absent, {"old"}, {"new"}, {"unknown"}}
      ELSE {Absent} \cup SUBSET {"ours", "theirs"}

Entries == {"absent", "old", "new", "unknown", "ours", "theirs"}
Plans == [existing : SUBSET Entries, desired : SUBSET Entries]

Phases == {"idle", "check", "read", "plan", "lock", "backup", "write",
           "verify", "undo"}
Outcomes == {"none", "refused", "unchanged", "installed", "failed",
             "failedWithErrors"}

NoFiles == [f \in Files |-> Absent]
NoPlan == [f \in Files |-> [existing |-> Absent, desired |-> Absent]]
NoneExisted == [f \in Files |-> FALSE]

Init ==
    /\ disk \in {d \in [Files -> UNION {Contents(f) : f \in Files}] :
                    \A f \in Files : d[f] \in Contents(f)}
    /\ backups = {}
    /\ mutex = NoInstaller
    /\ pc = [i \in Installers |-> "idle"]
    /\ at = [i \in Installers |-> 1]
    /\ seen = [i \in Installers |-> {}]
    /\ plan = [i \in Installers |-> NoPlan]
    /\ existed = [i \in Installers |-> NoneExisted]
    /\ saved = [i \in Installers |-> NoFiles]
    /\ errors = [i \in Installers |-> FALSE]
    /\ outcome = [i \in Installers |-> "none"]
    /\ entry = [i \in Installers |-> NoFiles]
    /\ fresh = [i \in Installers |-> FALSE]
-----------------------------------------------------------------------------
Goto(i, phase, k) ==
    /\ pc' = [pc EXCEPT ![i] = phase]
    /\ at' = [at EXCEPT ![i] = k]

\* Install returns or throws; its locals are gone and the mutex released.
Leave(i, result) ==
    /\ Goto(i, "idle", 1)
    /\ outcome' = [outcome EXCEPT ![i] = result]
    /\ mutex' = IF mutex = i THEN NoInstaller ELSE mutex
    /\ seen' = [seen EXCEPT ![i] = {}]
    /\ plan' = [plan EXCEPT ![i] = NoPlan]
    /\ existed' = [existed EXCEPT ![i] = NoneExisted]
    /\ saved' = [saved EXCEPT ![i] = NoFiles]
    /\ errors' = [errors EXCEPT ![i] = FALSE]
    /\ entry' = [entry EXCEPT ![i] = NoFiles]
    /\ fresh' = [fresh EXCEPT ![i] = FALSE]

\* The file at hand, in one of the loops over them.
Current(i) == Order[at[i]]
AtFile(i, phase) == pc[i] = phase /\ at[i] \in 1 .. Count
Past(i, phase) == pc[i] = phase /\ at[i] = Count + 1
NextFile(i, phase) == Goto(i, phase, at[i] + 1)

\* A file that is there needs no change (mutant).
KindByPresence(p) == IF p.existing = Absent THEN "create" ELSE "unchanged"

Kind(p) ==
    IF p.existing = Absent THEN "create"
    ELSE IF p.existing = p.desired THEN "unchanged" ELSE "replace"
KindOf(i, f) == Kind(plan[i][f])
HasChanges(i) == \E f \in Files : KindOf(i, f) # "unchanged"
-----------------------------------------------------------------------------
(* Prepare                                                                 *)
Start(i) ==
    /\ pc[i] = "idle"
    /\ Goto(i, "check", 1)
    /\ outcome' = [outcome EXCEPT ![i] = "none"]
    /\ fresh' = [fresh EXCEPT ![i] = (mutex = NoInstaller)]
    /\ UNCHANGED <<disk, backups, mutex, seen, plan, existed, saved, errors,
                   entry>>

\* Any of the other validations and reads fails: nothing has been touched.
Refuse(i) ==
    /\ pc[i] \in {"check", "read", "plan", "lock"}
    /\ Leave(i, "refused")
    /\ UNCHANGED <<disk, backups>>

\* A DLL that is there must be ours or one we may replace.
Replaceable(f) == disk[f] \in {Absent, {"old"}, {"new"}}

Check(i) ==
    /\ AtFile(i, "check")
    /\ IF Current(i) \in Texts \/ Replaceable(Current(i))
         THEN NextFile(i, "check") /\ UNCHANGED <<mutex, localVars, outcome>>
         ELSE Leave(i, "refused")
    /\ UNCHANGED <<disk, backups>>

BeginPlan(i) ==
    /\ Past(i, "check")
    /\ Goto(i, "read", 1)
    /\ UNCHANGED <<disk, backups, mutex, localVars, outcome>>

\* ReadSmallTextFile: a file that is not there reads as empty.
Lines(f) == IF disk[f] = Absent THEN {} ELSE disk[f]

Read(i) ==
    /\ AtFile(i, "read")
    /\ seen' = [seen EXCEPT ![i] =
                  IF Current(i) \in Texts THEN Lines(Current(i)) ELSE {}]
    /\ Goto(i, "plan", at[i])
    /\ UNCHANGED <<disk, backups, mutex, plan, existed, saved, errors, entry,
                   fresh, outcome>>

\* AddLineIfMissing and AddArgumentIfMissing keep what is there.
Desired(i, f) == IF f \in Dlls THEN Ours(f) ELSE seen[i] \cup Ours(f)

\* CreateDesiredFile, which looks at the file again.
Plan(i) ==
    /\ AtFile(i, "plan")
    /\ plan' = [plan EXCEPT ![i][Current(i)] =
                  [existing |-> disk[Current(i)],
                   desired |-> Desired(i, Current(i))]]
    /\ NextFile(i, IF at[i] = Count THEN "lock" ELSE "read")
    /\ UNCHANGED <<disk, backups, mutex, seen, existed, saved, errors, entry,
                   fresh, outcome>>
-----------------------------------------------------------------------------
(* Install: what follows Prepare.                                          *)
NothingToDo(i) ==
    /\ pc[i] = "lock"
    /\ ~HasChanges(i)
    /\ Leave(i, "unchanged")
    /\ UNCHANGED <<disk, backups>>

\* A protected process runs, or another companion holds the mutex.
Busy(i) ==
    /\ pc[i] = "lock"
    /\ HasChanges(i)
    /\ Leave(i, "refused")
    /\ UNCHANGED <<disk, backups>>

\* Not acquiring the mutex is not an error (mutant).
LockUntested(i) ==
    /\ pc[i] = "lock"
    /\ HasChanges(i)
    /\ mutex' = i
    /\ entry' = [entry EXCEPT ![i] = disk]
    /\ fresh' = [j \in Installers |-> j = i /\ fresh[j]]
    /\ Goto(i, "backup", 1)
    /\ UNCHANGED <<disk, backups, seen, plan, existed, saved, errors, outcome>>

Lock(i) ==
    /\ pc[i] = "lock"
    /\ HasChanges(i)
    /\ mutex = NoInstaller
    /\ mutex' = i
    /\ entry' = [entry EXCEPT ![i] = disk]
    /\ fresh' = [j \in Installers |-> j = i /\ fresh[j]]
    /\ Goto(i, "backup", 1)
    /\ UNCHANGED <<disk, backups, seen, plan, existed, saved, errors, outcome>>
-----------------------------------------------------------------------------
(* Commit                                                                  *)
\* A file planned for replacement must still be the one that was planned.
Unmoved(i, f) == disk[f] = plan[i][f].existing

\* Only replacements count as having existed (mutant).
RecordFromPlan(i, f) ==
    /\ existed' = [existed EXCEPT ![i][f] = (KindOf(i, f) # "create")]
    /\ saved' = [saved EXCEPT ![i][f] =
                   IF KindOf(i, f) = "replace" THEN disk[f] ELSE Absent]

Record(i, f) ==
    /\ existed' = [existed EXCEPT ![i][f] = (disk[f] # Absent)]
    /\ saved' = [saved EXCEPT ![i][f] =
                   IF KindOf(i, f) = "replace" THEN disk[f] ELSE Absent]

\* A copy that is not kept (mutant).
CopyNothing(i, f) == backups

Copy(i, f) ==
    IF KindOf(i, f) = "replace" THEN backups \cup {<<f, disk[f]>>} ELSE backups

\* PrepareBackups for one file.
Backup(i) ==
    /\ AtFile(i, "backup")
    /\ KindOf(i, Current(i)) = "replace" => Unmoved(i, Current(i))
    /\ Record(i, Current(i))
    /\ backups' = Copy(i, Current(i))
    /\ NextFile(i, "backup")
    /\ UNCHANGED <<disk, mutex, seen, plan, errors, entry, fresh, outcome>>

\* A backup fails or is not verified, or the manifest cannot be written:
\* nothing has been written over, and no roll back is needed.  A copy that
\* was not verified may stay; it does not count as a backup.
Abort(i) ==
    /\ pc[i] = "backup"
    /\ Leave(i, "refused")
    /\ UNCHANGED <<disk, backups>>

Prepared(i) ==
    /\ Past(i, "backup")
    /\ Goto(i, "write", 1)
    /\ UNCHANGED <<disk, backups, mutex, localVars, outcome>>

Skip(i) ==
    /\ AtFile(i, "write")
    /\ KindOf(i, Current(i)) = "unchanged"
    /\ NextFile(i, "write")
    /\ UNCHANGED <<disk, backups, mutex, localVars, outcome>>

Write(i) ==
    /\ AtFile(i, "write")
    /\ KindOf(i, Current(i)) # "unchanged"
    /\ disk' = [disk EXCEPT ![Current(i)] = plan[i][Current(i)].desired]
    /\ Goto(i, "verify", at[i])
    /\ UNCHANGED <<backups, mutex, localVars, outcome>>

Verify(i) ==
    /\ AtFile(i, "verify")
    /\ disk[Current(i)] = plan[i][Current(i)].desired
    /\ NextFile(i, "write")
    /\ UNCHANGED <<disk, backups, mutex, localVars, outcome>>

\* Writing goes wrong before or after the file at hand is in place, or the
\* last manifest cannot be written: what was committed is rolled back.
Fail(i) ==
    /\ \/ /\ pc[i] = "write"
          /\ at[i] \in 1 .. Count => KindOf(i, Current(i)) # "unchanged"
          /\ Goto(i, "undo", at[i] - 1)
       \/ pc[i] = "verify" /\ Goto(i, "undo", at[i])
    /\ UNCHANGED <<disk, backups, mutex, localVars, outcome>>

Finish(i) ==
    /\ Past(i, "write")
    /\ Leave(i, "installed")
    /\ UNCHANGED <<disk, backups>>
-----------------------------------------------------------------------------
(* RollBack                                                                *)
\* Only created files are undone (mutant).
RestoredCreatedOnly(i, f) == IF existed[i][f] THEN disk[f] ELSE Absent

\* What the roll back leaves in place of f: a backup, or no file.
Restored(i, f) == IF existed[i][f] THEN saved[i][f] ELSE Absent

\* There is a backup; what was created is still ours, or already gone.
CanRestore(i, f) ==
    IF existed[i][f]
      THEN saved[i][f] # Absent
      ELSE disk[f] \in {Absent, plan[i][f].desired}

\* One file, from the last to the first; files that were to stay unchanged
\* are not among the committed.  A step that fails is noted and passed over.
Undo(i) ==
    /\ pc[i] = "undo" /\ at[i] >= 1
    /\ LET f == Current(i) IN
         \/ /\ KindOf(i, f) = "unchanged"
            /\ UNCHANGED <<disk, errors>>
         \/ /\ KindOf(i, f) # "unchanged"
            /\ CanRestore(i, f)
            /\ disk' = [disk EXCEPT ![f] = Restored(i, f)]
            /\ UNCHANGED errors
         \/ /\ KindOf(i, f) # "unchanged"
            /\ errors' = [errors EXCEPT ![i] = TRUE]
            /\ UNCHANGED disk
    /\ Goto(i, "undo", at[i] - 1)
    /\ UNCHANGED <<backups, mutex, seen, plan, existed, saved, entry, fresh,
                   outcome>>

EndRollBack(i) ==
    /\ pc[i] = "undo" /\ at[i] = 0
    /\ Leave(i, IF errors[i] THEN "failedWithErrors" ELSE "failed")
    /\ UNCHANGED <<disk, backups>>

\* The companion is killed; the system abandons its mutex, which the next
\* one acquires like a free one.
Crash(i) ==
    /\ pc[i] # "idle"
    /\ Leave(i, "none")
    /\ UNCHANGED <<disk, backups>>
-----------------------------------------------------------------------------
Prepare(i) == Start(i) \/ Refuse(i) \/ Check(i) \/ BeginPlan(i) \/ Read(i) \/ Plan(i)
Acquire(i) == NothingToDo(i) \/ Busy(i) \/ Lock(i)
Commit(i) ==
    \/ Backup(i) \/ Abort(i) \/ Prepared(i)
    \/ Skip(i) \/ Write(i) \/ Verify(i) \/ Fail(i) \/ Finish(i)
RollBack(i) == Undo(i) \/ EndRollBack(i)

Next == \E i \in Installers :
    Prepare(i) \/ Acquire(i) \/ Commit(i) \/ RollBack(i) \/ Crash(i)

Spec == Init /\ [][Next]_vars

-----------------------------------------------------------------------------
Committing(i) == pc[i] \in {"backup", "write", "verify", "undo"}

TypeOK ==
    /\ disk \in [Files -> SUBSET Entries]
    /\ backups \subseteq Files \X SUBSET Entries
    /\ mutex \in Installers \cup {NoInstaller}
    /\ pc \in [Installers -> Phases]
    /\ at \in [Installers -> 0 .. Count + 1]
    /\ seen \in [Installers -> SUBSET Entries]
    /\ plan \in [Installers -> [Files -> Plans]]
    /\ existed \in [Installers -> [Files -> BOOLEAN]]
    /\ saved \in [Installers -> [Files -> SUBSET Entries]]
    /\ errors \in [Installers -> BOOLEAN]
    /\ outcome \in [Installers -> Outcomes]
    /\ entry \in [Installers -> [Files -> SUBSET Entries]]
    /\ fresh \in [Installers -> BOOLEAN]

(* Whoever is between its first backup and the end of its roll back holds  *)
(* the mutex, and nobody else does: also after failures and crashes.       *)
OneCommitter ==
    \A i \in Installers : Committing(i) <=> mutex = i

(* What a step of Install removes from a file of the game folder, other    *)
(* than Install's own entries, is in a backup: no mod of another author,   *)
(* no line of the player's is ever lost.                                   *)
NothingLost ==
    [][\A f \in Files :
          disk[f] # Absent =>
             \/ disk[f] \ Ours(f) \subseteq disk'[f]
             \/ <<f, disk[f]>> \in backups']_vars

(* A failed Install that reports a complete roll back leaves the folder as *)
(* it found it when it took the mutex, file by file.                       *)
RollBackRestores ==
    [][\A i \in Installers :
          pc[i] = "undo" /\ outcome'[i] = "failed" => disk = entry[i]]_vars

(* No companion ever makes scripts.txt name a DLL that is not there, at no *)
(* point of a commit, a crash or a roll back: the DLL is written first and *)
(* removed last.  Excepted are a roll back one of whose steps has failed,  *)
(* one that restores a folder found in that state, and a plan made while   *)
(* another companion held the mutex (see SuccessIsComplete).               *)
Dangling(d) == "ours" \in d["list"] /\ d["controls"] = Absent
ListedIsInstalled ==
    [][Dangling(disk') =>
          \/ Dangling(disk)
          \/ \E i \in Installers :
                mutex = i /\ (errors[i] \/ Dangling(entry[i]) \/ ~fresh[i])]_vars

Installed == \A f \in Files : Ours(f) \subseteq disk[f]

(* An Install that reports success, by a commit or by finding nothing to   *)
(* do, leaves all files installed, provided that nobody else has held the  *)
(* mutex since it began to plan: whatever crashed or failed before.        *)
UndisturbedIsComplete ==
    [][\A i \in Installers :
          pc[i] # "idle" /\ outcome'[i] \in {"unchanged", "installed"} /\ fresh[i]
             => Installed]_vars

(* An Install that reports success leaves all files installed, as the      *)
(* companion's window then tells the player.                               *)
SuccessIsComplete ==
    [][\A i \in Installers :
          outcome[i] = "none" /\ outcome'[i] = "installed" => Installed]_vars
-----------------------------------------------------------------------------
\* Another program writes to one of the files, at any moment but during a
\* commit, where nothing could keep it from being written over.
Disturb(f) ==
    /\ \A i \in Installers : ~Committing(i)
    /\ disk' \in {[disk EXCEPT ![f] = c] : c \in Contents(f)}
    /\ UNCHANGED <<backups, mutex, pc, at, localVars, outcome>>

(* What a write of Install replaces is in a verified backup.               *)
ReplacedWereBackedUp ==
    [][\A i \in Installers :
          pc[i] = "write" /\ pc'[i] = "verify" =>
             \/ disk[Current(i)] \in {Absent, disk'[Current(i)]}
             \/ <<Current(i), disk[Current(i)]>> \in backups]_vars

DisturbedSpec == Init /\ [][Next \/ \E f \in Files : Disturb(f)]_vars
=============================================================================
