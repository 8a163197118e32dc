----------------------------- MODULE StartProofs -----------------------------
(***************************************************************************)
(* Proofs about the start of the mod, for every number of hooks, of        *)
(* threads that start it and of threads of the game: ScriptsProxy with     *)
(* ModStart and MinHook.                                                   *)
(***************************************************************************)
EXTENDS ScriptsProxy, TLAPS

Entries == [heap : Nat, isEnabled : BOOLEAN, queueEnable : BOOLEAN]
Rollback == {"disable", "remove", "uninitialize"}
Installed == {"setReady", "succeed"}
Building == {"create", "queue", "apply"}
\* From the compare and exchange to the last store.
Working == {"verify", "initialize", "create", "queue", "apply", "fail"}
             \cup Rollback \cup Installed
Inside == [hook : Hooks, where : {"detour", "trampoline"}, heap : Nat,
           inRollback : BOOLEAN]

TableTypeOK ==
    /\ heap \in Nat /\ heaps \in Nat
    /\ table \in [Hooks -> Entries]
    /\ original \in [Hooks -> Nat]
    /\ live \subseteq Hooks \X Nat
StarterTypeOK ==
    /\ startState \in {"idle", "installing", "active"}
    /\ ready \in BOOLEAN
    /\ pc \in [Starters -> Working \cup {"out", "start"}]
    /\ at \in [Starters -> Hooks]
    /\ created \subseteq Hooks
GameTypeOK ==
    /\ thread \in [Threads -> Inside \cup {Outside}]
    /\ resisted \subseteq Hooks
ModTypeOK == TableTypeOK /\ StarterTypeOK /\ GameTypeOK

\* One thread at a time is between the two accesses to g_startState; it
\* alone has set g_ready.
WorkerInv ==
    /\ \A s, t \in Starters : pc[s] \in Working /\ pc[t] \in Working => s = t
    /\ startState = "installing" <=> \E s \in Starters : pc[s] \in Working
    /\ ready <=> startState = "active" \/ \E s \in Starters : pc[s] = "succeed"

\* What an installation has achieved where it stands.
Verified == IsSupported(executable) /\ Matches(executable)
Leftover ==
    /\ heap # 0 => \E h \in Hooks : Enabled(h)
    /\ \A h \in Hooks : Created(h) => h \in resisted
NoneEnabled == \A h \in Hooks : ~Enabled(h)
\* Before it could be rolled back, no call can have begun in an installation.
NoneInside == \A t \in Threads : thread[t] = Outside \/ thread[t].inRollback
\* The hooks from i on are still to be removed.
Remaining(i) ==
    \A h \in Hooks : Created(h) => IF h < i THEN h \in resisted
                                   ELSE h \in created
PhaseInv(s) ==
    /\ pc[s] \in Working \ {"verify", "fail"} => Verified
    /\ pc[s] \in {"verify", "initialize", "fail"} => Leftover
    /\ pc[s] \in Building => NoneEnabled /\ Remaining(1)
    /\ pc[s] \in Building \cup Rollback => NoneInside
    /\ pc[s] \in {"disable", "remove"} => Remaining(at[s])
    /\ pc[s] = "uninitialize" => Remaining(HookCount + 1)
    /\ pc[s] = "create" => \A h \in Hooks : h < at[s] => Created(h)
    /\ pc[s] \in {"queue", "apply"} => \A h \in Hooks : Created(h)
    /\ pc[s] = "queue" => \A h \in Hooks : h < at[s] => table[h].queueEnable
    /\ pc[s] = "apply" => \A h \in Hooks : table[h].queueEnable

\* Every entry of the table is of the present heap, and has its trampoline.
EntryInv ==
    \A h \in Hooks : Created(h) =>
        /\ heap # 0
        /\ table[h].heap = heap /\ original[h] = heap
        /\ <<h, heap>> \in live
TableInv == TableTypeOK /\ EntryInv

\* The mod is up when all hooks are enabled, which it stays.
Up == startState = "active" \/ \E s \in Starters : pc[s] \in Installed
HookInv(up) == up => Verified /\ \A h \in Hooks : Enabled(h)

\* A call that has not begun in a roll back is in a hook that is enabled.
ThreadInv ==
    \A t \in Threads : thread[t] # Outside /\ ~thread[t].inRollback =>
       /\ Enabled(thread[t].hook)
       /\ thread[t].where = "trampoline" =>
            thread[t].heap = original[thread[t].hook]

ModInv ==
    /\ TableInv /\ StarterTypeOK /\ GameTypeOK
    /\ WorkerInv
    /\ \A s \in Starters : PhaseInv(s)
    /\ HookInv(Up) /\ ThreadInv
    /\ startState = "idle" => Leftover
-----------------------------------------------------------------------------
(* The calls of MinHook.                                                   *)

\* What no call but MH_CreateHook changes in a table without entries.
LEMMA EntryFacts ==
    ASSUME TableInv
    PROVE  /\ NoEntry \in Entries
           /\ \A h \in Hooks : Enabled(h) \/ table[h].queueEnable => Created(h)
           /\ \A h \in Hooks : table[h] = [heap |-> table[h].heap,
                                   isEnabled |-> table[h].isEnabled,
                                   queueEnable |-> table[h].queueEnable]
BY DEF TableInv, TableTypeOK, Entries, NoEntry, Enabled, Created

LEMMA SwitchedFacts ==
    ASSUME NEW e \in Entries, NEW enable \in BOOLEAN
    PROVE  /\ Switched(e, enable) \in Entries
           /\ Switched(e, enable).heap = e.heap
           /\ Switched(e, enable).isEnabled = enable
           /\ Switched(e, enable).queueEnable = enable
BY DEF Switched, Entries

LEMMA SwitchAllFacts ==
    ASSUME TableInv, NEW done \in SUBSET Hooks, NEW enable \in BOOLEAN,
           \A h \in done : Created(h),
           SwitchAll(done, enable), UNCHANGED <<heap, heaps, original, live>>
    PROVE  /\ TableInv'
           /\ \A h \in Hooks :
                /\ Enabled(h)' = IF h \in done THEN enable ELSE Enabled(h)
                /\ Created(h)' => Created(h)
<1>1. table' \in [Hooks -> Entries]
  BY SwitchedFacts DEF SwitchAll, TableInv, TableTypeOK
<1>2. \A h \in Hooks :
         /\ table'[h].heap = table[h].heap
         /\ Enabled(h)' = IF h \in done THEN enable ELSE Enabled(h)
         /\ h \notin done => table'[h] = table[h]
  BY SwitchedFacts DEF SwitchAll, TableInv, TableTypeOK, Enabled
<1>3. ASSUME NEW h \in Hooks, Created(h)' PROVE Created(h)
  BY <1>2, <1>3 DEF Created
<1> QED
  BY <1>1, <1>2, <1>3 DEF TableInv, TableTypeOK, EntryInv

LEMMA InitializeFacts ==
    ASSUME TableInv, NEW status, MH_Initialize(status)
    PROVE  /\ TableInv' /\ UNCHANGED <<table, original>>
           /\ status # "OK" => UNCHANGED tableVars
           /\ status = "OK" => heap = 0
<1>1. CASE heap = 0 /\ heap' = heaps + 1
  BY <1>1 DEF MH_Initialize, TableInv, TableTypeOK, EntryInv, Created,
     tableVars
<1>2. CASE UNCHANGED tableVars
  BY <1>2 DEF MH_Initialize, TableInv, TableTypeOK, EntryInv, Created,
     tableVars
<1> QED
  BY <1>1, <1>2 DEF MH_Initialize

LEMMA CreateFacts ==
    ASSUME TableInv, NEW h \in Hooks, NEW status, MH_CreateHook(h, status)
    PROVE  /\ TableInv'
           /\ status = "OK" => Created(h)'
           /\ \A g \in Hooks : /\ Created(g) => Created(g)'
                               /\ Created(g)' => \/ Created(g)
                                                 \/ status = "OK" /\ g = h
                               /\ Enabled(g)' <=> Enabled(g)
                               /\ Enabled(g) => UNCHANGED original[g]
<1>1. CASE UNCHANGED tableVars /\ status # "OK"
  BY <1>1 DEF TableInv, TableTypeOK, EntryInv, Created, Enabled, tableVars
<1>2. CASE status = "OK"
  <2> DEFINE e == [heap |-> heap, isEnabled |-> FALSE, queueEnable |-> FALSE]
  <2>1. /\ heap # 0 /\ ~Created(h) /\ e \in Entries /\ e # NoEntry
        /\ table' = [table EXCEPT ![h] = e]
        /\ original' = [original EXCEPT ![h] = heap]
        /\ live' = live \cup {<<h, heap>>} /\ heap' = heap /\ heaps' = heaps
    BY <1>2 DEF MH_CreateHook, NoEntry, Entries, TableInv, TableTypeOK
  <2> HIDE DEF e
  <2>2. /\ table' \in [Hooks -> Entries] /\ table'[h] = e
        /\ \A g \in Hooks \ {h} : table'[g] = table[g]
    BY <2>1 DEF TableInv, TableTypeOK
  <2>3. /\ original' \in [Hooks -> Nat] /\ original'[h] = heap
        /\ \A g \in Hooks \ {h} : original'[g] = original[g]
    BY <2>1 DEF TableInv, TableTypeOK
  <2>4. e.heap = heap /\ e.isEnabled = FALSE
    BY DEF e
  <2>5. Created(h)' /\ ~Enabled(h)' /\ ~Enabled(h)
    BY <2>1, <2>2, <2>4 DEF Created, Enabled, NoEntry
  <2>6. TableInv'
    BY <2>1, <2>2, <2>3, <2>4 DEF TableInv, TableTypeOK, EntryInv, Created
  <2> QED
    BY <1>2, <2>2, <2>3, <2>5, <2>6 DEF Created, Enabled
<1> QED
  BY <1>1, <1>2 DEF MH_CreateHook

LEMMA QueueFacts ==
    ASSUME TableInv, NEW h \in Hooks, NEW status, MH_QueueEnableHook(h, status)
    PROVE  /\ TableInv'
           /\ status = "OK" => table'[h].queueEnable
           /\ \A g \in Hooks :
                /\ Created(g)' <=> Created(g)
                /\ table[g].queueEnable => table'[g].queueEnable
                /\ Enabled(g)' <=> Enabled(g)
<1>1. CASE table' = table /\ status # "OK"
  BY <1>1 DEF MH_QueueEnableHook, TableInv, TableTypeOK, EntryInv, Created,
     Enabled
<1>2. CASE /\ heap # 0 /\ Created(h)
           /\ table' = [table EXCEPT ![h].queueEnable = TRUE]
  <2>1. /\ table' \in [Hooks -> Entries]
        /\ \A g \in Hooks \ {h} : table'[g] = table[g]
        /\ table'[h].heap = table[h].heap /\ table'[h].queueEnable
        /\ table'[h].isEnabled = table[h].isEnabled
    BY <1>2 DEF TableInv, TableTypeOK, Entries
  <2>2. Created(h)'
    BY <2>1 DEF Created, NoEntry
  <2> QED
    BY <1>2, <2>1, <2>2
       DEF MH_QueueEnableHook, TableInv, TableTypeOK, EntryInv, Created, Enabled
<1> QED
  BY <1>1, <1>2 DEF MH_QueueEnableHook

\* The hooks that MH_ApplyQueued enables; after a success, all it had to.
LEMMA ApplyFacts ==
    ASSUME TableInv, NEW status, MH_ApplyQueued(status)
    PROVE  /\ TableInv'
           /\ \A h \in Hooks : Created(h)' => Created(h)
           /\ status = "OK" => \A h \in Hooks : Enabled(h)' <=>
                                  Enabled(h) \/ table[h].queueEnable
<1>1. CASE UNCHANGED table /\ status # "OK"
  BY <1>1 DEF MH_ApplyQueued, TableInv, TableTypeOK, EntryInv, Created, Enabled
<1>2. ASSUME NEW done \in Prefixes(Queued), SwitchAll(done, TRUE),
             status = IF done = Queued THEN "OK" ELSE "ERROR"
      PROVE  /\ TableInv'
             /\ \A h \in Hooks : /\ Enabled(h)' <=> (h \in done \/ Enabled(h))
                                 /\ Created(h)' => Created(h)
             /\ status = "OK" => done = Queued
  <2>1. done \subseteq Queued /\ Queued \subseteq Hooks
    BY DEF Prefixes, Queued
  <2>2. \A h \in done : Created(h)
    BY <2>1, EntryFacts DEF Queued
  <2> QED
    BY <1>2, <2>1, <2>2, SwitchAllFacts DEF MH_ApplyQueued
<1>3. \A h \in Hooks : h \in Queued <=> table[h].queueEnable /\ ~Enabled(h)
  BY DEF Queued
<1>4. CASE \E done \in Prefixes(Queued) :
              /\ status = IF done = Queued THEN "OK" ELSE "ERROR"
              /\ SwitchAll(done, TRUE)
  <2>1. PICK done \in Prefixes(Queued) :
              /\ status = IF done = Queued THEN "OK" ELSE "ERROR"
              /\ SwitchAll(done, TRUE)
    BY <1>4
  <2> QED
    BY <1>2, <1>3, <2>1
<1> QED
  BY <1>1, <1>4 DEF MH_ApplyQueued

LEMMA DisableFacts ==
    ASSUME TableInv, NEW h \in Hooks, MH_DisableHook(h)
    PROVE  TableInv' /\ \A g \in Hooks : Created(g)' => Created(g)
<1>1. CASE table' = table
  BY <1>1 DEF MH_DisableHook, TableInv, TableTypeOK, EntryInv, Created, Enabled
<1>2. CASE Enabled(h) /\ table' = [table EXCEPT ![h] = Switched(@, FALSE)]
  <2>1. SwitchAll({h}, FALSE) /\ Created(h)
    BY <1>2, EntryFacts DEF SwitchAll, TableInv, TableTypeOK
  <2> QED
    BY <2>1, SwitchAllFacts DEF MH_DisableHook
<1> QED
  BY <1>1, <1>2 DEF MH_DisableHook

LEMMA RemoveFacts ==
    ASSUME TableInv, NEW h \in Hooks, MH_RemoveHook(h)
    PROVE  /\ TableInv'
           /\ \A g \in Hooks : Created(g)' => Created(g)
           /\ Created(h)' => table'[h] = table[h]
<1>1. CASE UNCHANGED <<table, live>>
  BY <1>1 DEF MH_RemoveHook, TableInv, TableTypeOK, EntryInv, Created, Enabled
<1>2. CASE /\ Created(h)
           /\ table' = [table EXCEPT ![h] = NoEntry]
           /\ live' = live \ {Trampoline(h)}
  <2>1. /\ table' \in [Hooks -> Entries] /\ table'[h] = NoEntry
        /\ \A g \in Hooks \ {h} : table'[g] = table[g]
    BY <1>2, EntryFacts DEF TableInv, TableTypeOK
  <2>2. \A g \in Hooks \ {h} : \A k \in Nat :
           <<g, k>> \in live => <<g, k>> \in live'
    BY <1>2 DEF Trampoline
  <2>3. live' \subseteq live
    BY <1>2
  <2> QED
    BY <2>1, <2>2, <2>3 DEF MH_RemoveHook, TableInv, TableTypeOK, EntryInv,
       Created, Enabled, NoEntry
<1> QED
  BY <1>1, <1>2 DEF MH_RemoveHook

LEMMA UninitializeFacts ==
    ASSUME TableInv, MH_Uninitialize
    PROVE  /\ TableInv' /\ \A h \in Hooks : Created(h)' => Created(h)
           /\ heap' # 0 => \E h \in Hooks : Enabled(h)'
<1> DEFINE on == {h \in Hooks : Enabled(h)}
<1>1. CASE table' = [h \in Hooks |-> NoEntry] /\ live' = {} /\ heap' = 0
  BY <1>1, EntryFacts DEF MH_Uninitialize, TableInv, TableTypeOK, EntryInv,
     Created, Enabled, NoEntry
<1>2. ASSUME NEW done \in (SUBSET on) \ {on}, SwitchAll(done, FALSE),
             UNCHANGED <<live, heap>>
      PROVE  /\ TableInv' /\ \A h \in Hooks : Created(h)' => Created(h)
             /\ \E h \in Hooks : Enabled(h)'
  <2>1. \A h \in done : Created(h)
    BY EntryFacts
  <2>2. /\ TableInv'
        /\ \A h \in Hooks :
             /\ Enabled(h)' = IF h \in done THEN FALSE ELSE Enabled(h)
             /\ Created(h)' => Created(h)
    BY <1>2, <2>1, SwitchAllFacts DEF MH_Uninitialize
  <2>3. PICK h \in on : h \notin done
    OBVIOUS
  <2> QED
    BY <2>2, <2>3
<1> QED
  BY <1>1, <1>2 DEF MH_Uninitialize
-----------------------------------------------------------------------------
(* The statements of a start.                                              *)

LEMMA Alone ==
    ASSUME ModInv, NEW s \in Starters, pc[s] \in Working
    PROVE  /\ \A t \in Starters \ {s} : pc[t] \notin Working
           /\ startState = "installing"
           /\ ready <=> pc[s] = "succeed"
           /\ Up <=> pc[s] \in Installed
BY DEF ModInv, WorkerInv, Up, Working, Installed

\* A worker that goes on.
LEMMA WorkStep ==
    ASSUME ModInv, NEW s \in Starters, pc[s] \in Working \ {"succeed"},
           NEW w \in Working \ {"succeed"}, pc' = [pc EXCEPT ![s] = w],
           UNCHANGED <<startState, ready, executable, thread>>,
           TableInv', at' \in [Starters -> Hooks], created' \subseteq Hooks,
           resisted' \subseteq Hooks, PhaseInv(s)',
           HookInv(w \in Installed)', ThreadInv'
    PROVE  ModInv'
<1>1. pc'[s] = w /\ \A t \in Starters \ {s} : pc'[t] = pc[t]
  BY DEF ModInv, StarterTypeOK
<1>2. StarterTypeOK' /\ GameTypeOK'
  BY DEF ModInv, StarterTypeOK, GameTypeOK
<1>3. WorkerInv'
  BY <1>1, Alone DEF ModInv, WorkerInv
<1>4. ASSUME NEW t \in Starters PROVE PhaseInv(t)'
  BY <1>1, Alone DEF PhaseInv, Working, Building, Rollback
<1>5. Up' <=> w \in Installed
  BY <1>1, Alone DEF Up, Installed, Working
<1>6. startState' # "idle"
  BY Alone
<1> QED
  BY <1>2, <1>3, <1>4, <1>5, <1>6 DEF ModInv, HookInv

\* A worker that has not got all hooks enabled, and takes none from a call
\* that has not begun in the roll back.
LEMMA LowStep ==
    ASSUME ModInv, NEW s \in Starters, pc[s] \in Working \ Installed,
           NEW w \in Working \ Installed, pc' = [pc EXCEPT ![s] = w],
           UNCHANGED <<startState, ready, executable, thread>>,
           TableInv', at' \in [Starters -> Hooks], created' \subseteq Hooks,
           resisted' \subseteq Hooks, PhaseInv(s)',
           NoneInside \/ UNCHANGED <<table, original>>
    PROVE  ModInv'
<1>1. HookInv(w \in Installed)'
  BY DEF HookInv
<1>2. ThreadInv'
  BY DEF ModInv, ThreadInv, NoneInside, Enabled
<1> QED
  BY <1>1, <1>2, WorkStep DEF Installed

LEMMA SameTable ==
    ASSUME TableInv, UNCHANGED tableVars
    PROVE  TableInv' /\ \A h \in Hooks : /\ Enabled(h)' <=> Enabled(h)
                                         /\ Created(h)' <=> Created(h)
BY DEF tableVars, TableInv, TableTypeOK, EntryInv, Created, Enabled

LEMMA OneHook == 1 \in Hooks /\ HookCount \in Nat
BY HookAssumption DEF Hooks

\* Where a worker goes, as a place in the code and a hook.
LEMMA GotoFacts ==
    ASSUME ModInv, NEW s \in Starters, NEW w, NEW i \in Hooks, Goto(s, w, i)
    PROVE  /\ pc' = [pc EXCEPT ![s] = w] /\ pc'[s] = w
           /\ at' \in [Starters -> Hooks] /\ at'[s] = i
BY DEF Goto, ModInv, StarterTypeOK

LEMMA AdvanceFacts ==
    ASSUME ModInv, NEW s \in Starters, NEW next, Advance(s, next)
    PROVE  \E w, i : /\ Goto(s, w, i) /\ i \in Hooks
                     /\ \/ w = pc[s] /\ i = at[s] + 1
                        \/ w = next /\ i = 1 /\ at[s] = HookCount
BY OneHook DEF Advance, ModInv, StarterTypeOK, Hooks

(* Nothing of MinHook is touched before the executable is verified.        *)
LEMMA VerifyKeeps == ASSUME ModInv, NEW s \in Starters, Verify(s) PROVE ModInv'
<1> USE DEF Working, Installed, Building, Rollback
<1>1. PICK w \in {"fail", "initialize"} :
        Goto(s, w, 1) /\ (w = "initialize" => Verified)
  BY DEF Verify, Verified
<1>2. /\ pc[s] = "verify" /\ pc'[s] = w /\ Leftover
      /\ UNCHANGED <<tableVars, executable, resisted>>
  BY <1>1, GotoFacts, OneHook DEF Verify, ModInv, PhaseInv
<1>3. PhaseInv(s)'
  BY <1>1, <1>2 DEF PhaseInv, Verified, Leftover, tableVars, Enabled, Created
<1> QED
  BY <1>1, <1>3, LowStep, GotoFacts, OneHook, SameTable
  DEF Verify, ModInv, StarterTypeOK, GameTypeOK, tableVars

(* Only a fresh MinHook is used: one left over ends the start, and what is *)
(* in use of it stays.                                                     *)
LEMMA InitializeKeeps ==
    ASSUME ModInv, NEW s \in Starters, Initialize(s) PROVE ModInv'
<1> USE DEF Working, Installed, Building, Rollback
<1>1. PICK status : /\ MH_Initialize(status)
                    /\ Goto(s, IF status = "OK" THEN "create" ELSE "fail", 1)
                    /\ resisted' = IF status = "OK" THEN {} ELSE resisted
  BY DEF Initialize
<1>2. /\ pc[s] = "initialize" /\ Verified /\ Leftover
      /\ UNCHANGED <<executable, thread>>
      /\ pc'[s] = IF status = "OK" THEN "create" ELSE "fail"
      /\ at'[s] = 1
  BY <1>1, GotoFacts, OneHook DEF Initialize, ModInv, PhaseInv
<1>3. /\ TableInv' /\ table' = table /\ original' = original
      /\ status # "OK" => UNCHANGED tableVars
      /\ status = "OK" => heap = 0
  BY <1>1, InitializeFacts DEF ModInv
<1>4. PhaseInv(s)'
  <2>1. CASE status = "OK"
    <3>1. \A h \in Hooks : ~Created(h) /\ ~Enabled(h)
      BY <1>3, <2>1, EntryFacts DEF ModInv, TableInv, EntryInv
    <3>2. \A h \in Hooks : ~Created(h)' /\ ~Enabled(h)'
      BY <1>3, <3>1 DEF Created, Enabled
    <3>3. NoneInside'
      BY <1>2, <3>1 DEF NoneInside, ModInv, GameTypeOK, ThreadInv, Inside
    <3> QED
      BY <1>2, <2>1, <3>2, <3>3
      DEF PhaseInv, Verified, NoneEnabled, Remaining, Hooks
  <2>2. CASE status # "OK"
    BY <1>1, <1>2, <1>3, <2>2
    DEF PhaseInv, Verified, Leftover, tableVars, Enabled, Created
  <2> QED
    BY <2>1, <2>2
<1> QED
  BY <1>1, <1>2, <1>3, <1>4, LowStep, GotoFacts, OneHook
  DEF Initialize, ModInv, StarterTypeOK, GameTypeOK, Enabled

(* The hooks are created one by one; none is enabled.                      *)
LEMMA CreateKeeps == ASSUME ModInv, NEW s \in Starters, Create(s) PROVE ModInv'
<1> USE DEF Working, Installed, Building, Rollback
<1>1. PICK status \in {"OK", "ERROR"} :
        /\ MH_CreateHook(at[s], status)
        /\ IF status = "OK"
             THEN created' = created \cup {at[s]} /\ Advance(s, "queue")
             ELSE Goto(s, "disable", 1) /\ UNCHANGED created
  BY DEF Create
<1>2. /\ pc[s] = "create" /\ Verified /\ at[s] \in Hooks
      /\ \A h \in Hooks : h < at[s] => Created(h)
      /\ created' \subseteq Hooks
      /\ NoneEnabled /\ Remaining(1) /\ NoneInside
      /\ UNCHANGED <<executable, thread, resisted>>
  BY <1>1 DEF Create, ModInv, PhaseInv, StarterTypeOK
<1>3. /\ TableInv'
      /\ \A g \in Hooks :
           /\ Created(g)' <=> Created(g) \/ (g = at[s] /\ status = "OK")
           /\ Enabled(g)' <=> Enabled(g)
  BY <1>1, <1>2, CreateFacts DEF ModInv
<1>4. PICK w, i : /\ Goto(s, w, i) /\ i \in Hooks
                  /\ \/ w = "disable" /\ i = 1
                     \/ status = "OK" /\ w = "create" /\ i = at[s] + 1
                     \/ /\ status = "OK" /\ w = "queue"
                        /\ at[s] = HookCount /\ i = 1
  BY <1>1, <1>2, AdvanceFacts, OneHook
<1>5. pc' = [pc EXCEPT ![s] = w] /\ pc'[s] = w /\ at'[s] = i
      /\ at' \in [Starters -> Hooks]
  BY <1>4, GotoFacts
<1>6. Remaining(1)' /\ NoneEnabled' /\ NoneInside'
  BY <1>1, <1>2, <1>3 DEF Remaining, NoneEnabled, NoneInside, Hooks
<1>7. PhaseInv(s)'
  <2>1. Verified'
    BY <1>2 DEF Verified
  <2>2. CASE w = "disable"
    BY <1>4, <1>5, <1>6, <2>1, <2>2 DEF PhaseInv
  <2>3. CASE w = "create"
    <3>1. \A h \in Hooks : h < i => Created(h)'
      BY <1>2, <1>3, <1>4, <2>3 DEF Hooks
    <3> QED
      BY <1>5, <1>6, <2>1, <2>3, <3>1 DEF PhaseInv
  <2>4. CASE w = "queue"
    <3>1. \A h \in Hooks : Created(h)'
      BY <1>2, <1>3, <1>4, <2>4 DEF Hooks
    <3> QED
      BY <1>4, <1>5, <1>6, <2>1, <2>4, <3>1 DEF PhaseInv, Hooks
  <2> QED
    BY <1>4, <2>2, <2>3, <2>4
<1> QED
  BY <1>2, <1>3, <1>4, <1>5, <1>7, LowStep
  DEF Create, ModInv, StarterTypeOK, GameTypeOK

(* ... and then queued.                                                    *)
LEMMA QueueKeeps == ASSUME ModInv, NEW s \in Starters, Queue(s) PROVE ModInv'
<1> USE DEF Working, Installed, Building, Rollback
<1>1. PICK status \in {"OK", "ERROR"} :
        /\ MH_QueueEnableHook(at[s], status)
        /\ IF status = "OK" THEN Advance(s, "apply") ELSE Goto(s, "disable", 1)
  BY DEF Queue
<1>2. /\ pc[s] = "queue" /\ Verified /\ at[s] \in Hooks
      /\ \A h \in Hooks : Created(h) /\ (h < at[s] => table[h].queueEnable)
      /\ NoneEnabled /\ Remaining(1) /\ NoneInside
      /\ UNCHANGED <<created, executable, thread, resisted>>
  BY DEF Queue, ModInv, PhaseInv, StarterTypeOK
<1>3. /\ TableInv'
      /\ status = "OK" => table'[at[s]].queueEnable
      /\ \A g \in Hooks : /\ Created(g)' <=> Created(g)
                          /\ table[g].queueEnable => table'[g].queueEnable
                          /\ Enabled(g)' <=> Enabled(g)
  BY <1>1, <1>2, QueueFacts DEF ModInv
<1>4. PICK w, i : /\ Goto(s, w, i) /\ i \in Hooks
                  /\ \/ w = "disable" /\ i = 1
                     \/ status = "OK" /\ w = "queue" /\ i = at[s] + 1
                     \/ status = "OK" /\ w = "apply" /\ at[s] = HookCount
  BY <1>1, <1>2, AdvanceFacts, OneHook
<1>5. pc' = [pc EXCEPT ![s] = w] /\ pc'[s] = w /\ at'[s] = i
      /\ at' \in [Starters -> Hooks]
  BY <1>4, GotoFacts
<1>6. Remaining(1)' /\ NoneEnabled' /\ NoneInside'
  BY <1>2, <1>3 DEF Remaining, NoneEnabled, NoneInside
<1>7. PhaseInv(s)'
  <2>1. Verified' /\ \A h \in Hooks : Created(h)'
    BY <1>2, <1>3 DEF Verified
  <2>2. CASE w = "disable"
    BY <1>4, <1>5, <1>6, <2>1, <2>2 DEF PhaseInv
  <2>3. CASE w = "queue"
    <3>1. \A h \in Hooks : h < i => table'[h].queueEnable
      BY <1>2, <1>3, <1>4, <2>3 DEF Hooks
    <3> QED
      BY <1>5, <1>6, <2>1, <2>3, <3>1 DEF PhaseInv
  <2>4. CASE w = "apply"
    <3>1. \A h \in Hooks : table'[h].queueEnable
      BY <1>2, <1>3, <1>4, <2>4 DEF Hooks
    <3> QED
      BY <1>4, <1>5, <1>6, <2>1, <2>4, <3>1 DEF PhaseInv
  <2> QED
    BY <1>4, <2>2, <2>3, <2>4
<1> QED
  BY <1>2, <1>3, <1>4, <1>5, <1>7, LowStep
  DEF Queue, ModInv, StarterTypeOK, GameTypeOK

(* Either every hook is enabled and the mod is up, or the roll back begins. *)
LEMMA ApplyKeeps == ASSUME ModInv, NEW s \in Starters, Apply(s) PROVE ModInv'
<1> USE DEF Working, Installed, Building, Rollback
<1>1. PICK status \in {"OK", "ERROR"} :
        /\ MH_ApplyQueued(status)
        /\ Goto(s, IF status = "OK" THEN "setReady" ELSE "disable", 1)
  BY DEF Apply
<1>2. /\ pc[s] = "apply" /\ Verified /\ Verified'
      /\ \A h \in Hooks : table[h].queueEnable
      /\ UNCHANGED <<startState, ready, executable, thread, created, resisted>>
      /\ created \subseteq Hooks /\ resisted \subseteq Hooks
      /\ Remaining(1) /\ NoneInside
  BY DEF Apply, ModInv, PhaseInv, StarterTypeOK, GameTypeOK, Verified
<1>3. /\ TableInv'
      /\ \A h \in Hooks : Created(h)' => Created(h)
      /\ status = "OK" => \A h \in Hooks : Enabled(h)'
  BY <1>1, <1>2, ApplyFacts DEF ModInv
<1>4. CASE status = "ERROR"
  <2>1. Remaining(1)' /\ NoneInside'
    BY <1>2, <1>3 DEF Remaining, NoneInside
  <2>2. PhaseInv(s)'
    BY <1>1, <1>2, <1>4, <2>1, GotoFacts, OneHook DEF PhaseInv
  <2> QED
    BY <1>1, <1>2, <1>3, <1>4, <2>2, GotoFacts, OneHook, LowStep
<1>5. CASE status = "OK"
  <2>1. PhaseInv(s)'
    BY <1>1, <1>2, <1>5, GotoFacts, OneHook DEF PhaseInv
  <2>2. HookInv("setReady" \in Installed)'
    BY <1>2, <1>3, <1>5 DEF HookInv
  <2>3. ThreadInv'
    BY <1>2 DEF NoneInside, ThreadInv
  <2> QED
    BY <1>1, <1>2, <1>3, <1>5, <2>1, <2>2, <2>3, GotoFacts, OneHook, WorkStep
<1> QED
  BY <1>4, <1>5

(* The roll back leaves out no hook: what it has passed and is still there *)
(* is what it could not remove.                                            *)
LEMMA DisableKeeps ==
    ASSUME ModInv, NEW s \in Starters, Disable(s) PROVE ModInv'
<1> USE DEF Working, Installed, Building, Rollback
<1>0. PICK k \in Hooks : k = at[s]
  BY DEF ModInv, StarterTypeOK
<1>1. /\ pc[s] = "disable" /\ Verified /\ Verified' /\ at[s] = k
      /\ UNCHANGED <<startState, ready, created, executable, thread, resisted>>
      /\ Remaining(k) /\ NoneInside /\ NoneInside'
  BY <1>0 DEF Disable, ModInv, PhaseInv, StarterTypeOK, Verified, NoneInside
<1>2. TableInv' /\ \A h \in Hooks : Created(h)' => Created(h)
  BY <1>1, DisableFacts, SameTable DEF Disable, ModInv
<1>3. PICK w, i : /\ Goto(s, w, i) /\ i \in Hooks
                  /\ \/ w = "remove" /\ i = at[s]
                     \/ at[s] \notin created /\ w = "disable" /\ i = at[s] + 1
                     \/ /\ at[s] \notin created /\ w = "uninitialize"
                        /\ at[s] = HookCount
  BY <1>1, AdvanceFacts DEF Disable
<1>4. pc' = [pc EXCEPT ![s] = w] /\ pc'[s] = w /\ at'[s] = i
      /\ at' \in [Starters -> Hooks]
  BY <1>3, GotoFacts
<1>5. PhaseInv(s)'
  <2>1. Remaining(k)'
    BY <1>1, <1>2 DEF Remaining
  <2>2. k \notin created => Remaining(k + 1)'
    BY <1>1, <1>2 DEF Remaining, Hooks
  <2> QED
    BY <1>1, <1>3, <1>4, <2>1, <2>2 DEF PhaseInv, Remaining
<1> QED
  BY <1>1, <1>2, <1>3, <1>4, <1>5, LowStep
  DEF ModInv, StarterTypeOK, GameTypeOK

LEMMA RemoveKeeps == ASSUME ModInv, NEW s \in Starters, Remove(s) PROVE ModInv'
<1> USE DEF Working, Installed, Building, Rollback
<1>0. PICK k \in Hooks : k = at[s]
  BY DEF ModInv, StarterTypeOK
<1>1. /\ pc[s] = "remove" /\ Verified /\ Verified' /\ at[s] = k
      /\ created \subseteq Hooks /\ created' = created \ {k}
      /\ resisted' = resisted \cup {h \in {k} : table'[h] = table[h]}
      /\ UNCHANGED <<startState, ready, executable, thread>>
      /\ Remaining(k) /\ NoneInside /\ NoneInside'
  BY <1>0 DEF Remove, ModInv, PhaseInv, StarterTypeOK, Verified, NoneInside
<1>2. /\ TableInv'
      /\ \A h \in Hooks : Created(h)' => Created(h)
      /\ Created(k)' => k \in resisted'
  BY <1>1, RemoveFacts DEF Remove, ModInv
<1>3. Remaining(k + 1)'
  BY <1>1, <1>2 DEF Remaining, Hooks
<1>4. PICK w, i : /\ Goto(s, w, i) /\ i \in Hooks
                  /\ \/ w = "disable" /\ i = at[s] + 1
                     \/ w = "uninitialize" /\ at[s] = HookCount
  BY <1>1, OneHook DEF Remove, Hooks
<1>5. pc' = [pc EXCEPT ![s] = w] /\ pc'[s] = w /\ at'[s] = i
      /\ at' \in [Starters -> Hooks]
  BY <1>4, GotoFacts
<1>6. PhaseInv(s)'
  BY <1>1, <1>3, <1>4, <1>5 DEF PhaseInv, Remaining
<1>7. created' \subseteq Hooks /\ resisted' \subseteq Hooks
  BY <1>1 DEF ModInv, GameTypeOK
<1> QED
  BY <1>1, <1>2, <1>4, <1>5, <1>6, <1>7, LowStep

LEMMA UninitializeKeeps ==
    ASSUME ModInv, NEW s \in Starters, Uninitialize(s) PROVE ModInv'
<1> USE DEF Working, Installed, Building, Rollback
<1>1. /\ pc[s] = "uninitialize" /\ created' \subseteq Hooks
      /\ UNCHANGED <<startState, ready, executable, thread, resisted>>
      /\ Goto(s, "fail", 1) /\ Verified /\ Verified'
      /\ Remaining(HookCount + 1) /\ NoneInside
  BY DEF Uninitialize, ModInv, StarterTypeOK, PhaseInv, Verified
<1>2. /\ TableInv' /\ \A h \in Hooks : Created(h)' => Created(h)
      /\ heap' # 0 => \E h \in Hooks : Enabled(h)'
  BY UninitializeFacts DEF Uninitialize, ModInv
<1>3. Leftover'
  BY <1>1, <1>2, OneHook DEF Remaining, Leftover, Hooks
<1>4. PhaseInv(s)'
  BY <1>1, <1>3, GotoFacts, OneHook DEF PhaseInv
<1> QED
  BY <1>1, <1>2, <1>4, GotoFacts, OneHook, LowStep DEF ModInv, GameTypeOK

\* The steps that announce something, or begin or end a start: MinHook and
\* the threads of the game are left alone.
LEMMA StillTable ==
    ASSUME ModInv, UNCHANGED <<tableVars, executable, thread, resisted>>
    PROVE  /\ TableInv' /\ GameTypeOK' /\ (Verified <=> Verified')
           /\ (Leftover <=> Leftover') /\ (NoneInside <=> NoneInside')
           /\ \A h \in Hooks : /\ Enabled(h)' <=> Enabled(h)
                               /\ Created(h)' <=> Created(h)
           /\ ThreadInv' /\ ((Up' <=> Up) => HookInv(Up)')
<1>1. TableInv' /\ \A h \in Hooks : /\ Enabled(h)' <=> Enabled(h)
                                    /\ Created(h)' <=> Created(h)
  BY SameTable DEF ModInv
<1>2. Verified <=> Verified'
  BY DEF Verified
<1>3. (Leftover <=> Leftover') /\ (NoneInside <=> NoneInside')
  BY <1>1 DEF Leftover, NoneInside, tableVars
<1>4. ThreadInv'
  BY DEF ModInv, ThreadInv, Enabled, tableVars
<1>5. ASSUME Up' <=> Up PROVE HookInv(Up)'
  BY <1>1, <1>2, <1>5 DEF ModInv, HookInv
<1> QED
  BY <1>1, <1>2, <1>3, <1>4, <1>5 DEF ModInv, GameTypeOK

(* Threads that are not at work come and go.                               *)
LEMMA OutKeeps ==
    ASSUME ModInv, NEW s \in Starters, pc[s] \in {"out", "start"},
           NEW w \in {"out", "start"}, pc' = [pc EXCEPT ![s] = w],
           at' \in [Starters -> Hooks],
           \A t \in Starters \ {s} : at'[t] = at[t],
           UNCHANGED <<tableVars, startState, ready, created, executable,
                       thread, resisted>>
    PROVE  ModInv'
<1> USE DEF Working, Installed, Building, Rollback
<1>1. pc'[s] = w /\ \A t \in Starters \ {s} : pc'[t] = pc[t]
  BY DEF ModInv, StarterTypeOK
<1>2. StarterTypeOK' /\ WorkerInv'
  BY <1>1 DEF ModInv, StarterTypeOK, WorkerInv
<1>3. ASSUME NEW t \in Starters PROVE PhaseInv(t)'
  <2>1. CASE t = s
    BY <1>1, <2>1 DEF PhaseInv
  <2>2. CASE t # s
    <3>1. PhaseInv(t) /\ pc'[t] = pc[t] /\ at'[t] = at[t]
      BY <1>1, <2>2 DEF ModInv
    <3> QED
      BY <3>1, StillTable DEF PhaseInv, NoneEnabled, Remaining, tableVars
  <2> QED
    BY <2>1, <2>2
<1>4. Up' <=> Up
  BY <1>1 DEF Up
<1> QED
  BY <1>2, <1>3, <1>4, StillTable DEF ModInv

(* The compare and exchange admits one, when none is at work.              *)
LEMMA StartKeeps == ASSUME ModInv, NEW s \in Starters, Start(s) PROVE ModInv'
<1> USE DEF Working, Installed, Building, Rollback
<1>1. /\ pc[s] = "start"
      /\ UNCHANGED <<tableVars, ready, created, executable, thread,
                     resisted>>
  BY DEF Start
<1>2. CASE UNCHANGED startState /\ Goto(s, "out", 1)
  <2>1. \A t \in Starters \ {s} : at'[t] = at[t]
    BY <1>2 DEF Goto, ModInv, StarterTypeOK
  <2> QED
    BY <1>1, <1>2, <2>1, GotoFacts, OneHook, OutKeeps
<1>3. CASE CompareExchange(s)
  <2>1. /\ startState = "idle" /\ startState' = "installing" /\ Leftover
        /\ \A t \in Starters : pc[t] \notin Working
        /\ ~ready /\ ~Up
    BY <1>3 DEF CompareExchange, ModInv, WorkerInv, Up
  <2>2. /\ pc'[s] = "verify" /\ at' \in [Starters -> Hooks]
        /\ pc' = [pc EXCEPT ![s] = "verify"]
        /\ \A t \in Starters \ {s} : pc'[t] = pc[t]
    BY <1>3, GotoFacts, OneHook DEF CompareExchange, ModInv, StarterTypeOK
  <2>3. StarterTypeOK' /\ WorkerInv' /\ ~Up'
    BY <1>1, <2>1, <2>2 DEF ModInv, StarterTypeOK, WorkerInv, Up
  <2>4. ASSUME NEW t \in Starters PROVE PhaseInv(t)'
    BY <1>1, <2>1, <2>2, StillTable DEF PhaseInv
  <2> QED
    BY <1>1, <2>1, <2>3, <2>4, StillTable DEF ModInv
<1> QED
  BY <1>2, <1>3 DEF Start

(* Being ready is announced when everything is enabled.                    *)
LEMMA SetReadyKeeps ==
    ASSUME ModInv, NEW s \in Starters, SetReady(s) PROVE ModInv'
<1> USE DEF Working, Installed, Building, Rollback
<1>1. /\ pc[s] = "setReady" /\ ready' /\ Goto(s, "succeed", 1) /\ Verified
      /\ UNCHANGED <<tableVars, startState, created, executable, thread,
                     resisted>>
  BY DEF SetReady, ModInv, PhaseInv
<1>2. /\ pc'[s] = "succeed" /\ at' \in [Starters -> Hooks]
      /\ \A t \in Starters \ {s} : pc'[t] = pc[t] /\ pc[t] \notin Working
      /\ pc' = [pc EXCEPT ![s] = "succeed"]
  BY <1>1, GotoFacts, OneHook, Alone DEF ModInv, StarterTypeOK
<1>3. startState = "installing" /\ Up /\ Up'
  BY <1>1, <1>2, Alone DEF Up
<1>4. StarterTypeOK' /\ WorkerInv'
  BY <1>1, <1>2, <1>3 DEF SetReady, ModInv, StarterTypeOK, WorkerInv
<1>5. ASSUME NEW t \in Starters PROVE PhaseInv(t)'
  BY <1>1, <1>2, StillTable DEF PhaseInv
<1> QED
  BY <1>1, <1>3, <1>4, <1>5, StillTable DEF ModInv

(* The last store tells what the start has come to.                        *)
LEMMA ReturnKeeps == ASSUME ModInv, NEW s \in Starters, Return(s) PROVE ModInv'
<1> USE DEF Working, Installed, Building, Rollback
<1>1. /\ pc[s] \in {"fail", "succeed"} /\ created' = {} /\ Goto(s, "out", 1)
      /\ startState' = IF pc[s] = "succeed" THEN "active" ELSE "idle"
      /\ pc[s] = "fail" => Leftover
      /\ UNCHANGED <<tableVars, ready, executable, thread, resisted>>
  BY DEF Return, ModInv, PhaseInv
<1>2. /\ pc'[s] = "out" /\ at' \in [Starters -> Hooks]
      /\ \A t \in Starters : pc'[t] \notin Working
      /\ pc' = [pc EXCEPT ![s] = "out"]
  BY <1>1, GotoFacts, OneHook, Alone DEF ModInv, StarterTypeOK
<1>3. /\ ready <=> pc[s] = "succeed"
      /\ (Up <=> pc[s] = "succeed") /\ (Up' <=> Up)
  BY <1>1, <1>2, Alone DEF Up
<1>4. StarterTypeOK' /\ WorkerInv'
  BY <1>1, <1>2, <1>3 DEF ModInv, StarterTypeOK, WorkerInv
<1>5. ASSUME NEW t \in Starters PROVE PhaseInv(t)'
  BY <1>2 DEF PhaseInv
<1>6. startState' = "idle" => Leftover'
  BY <1>1, StillTable
<1> QED
  BY <1>1, <1>3, <1>4, <1>5, <1>6, StillTable DEF ModInv

LEMMA StepKeeps == ASSUME ModInv, NEW s \in Starters, Step(s) PROVE ModInv'
BY StartKeeps, VerifyKeeps, InitializeKeeps, CreateKeeps, QueueKeeps,
   ApplyKeeps, DisableKeeps, RemoveKeeps, UninitializeKeeps, SetReadyKeeps,
   ReturnKeeps DEF Step

\* Nothing of a start changes.
LEMMA StartVarsKept ==
    ASSUME ModInv, UNCHANGED <<tableVars, startVars, resisted>>,
           thread' \in [Threads -> Inside \cup {Outside}], ThreadInv',
           \A s \in Starters : pc[s] \in Building \cup Rollback => NoneInside'
    PROVE  ModInv'
<1> USE DEF startVars
<1>1. /\ TableInv' /\ (Verified <=> Verified') /\ (Leftover <=> Leftover')
      /\ \A h \in Hooks : /\ Enabled(h)' <=> Enabled(h)
                          /\ Created(h)' <=> Created(h)
  BY SameTable DEF ModInv, Verified, Leftover, tableVars
<1>2. StarterTypeOK' /\ WorkerInv' /\ (Up' <=> Up)
  BY DEF ModInv, StarterTypeOK, WorkerInv, Up
<1>3. ASSUME NEW s \in Starters PROVE PhaseInv(s)'
  BY <1>1 DEF ModInv, PhaseInv, NoneEnabled, Remaining, tableVars
<1>4. HookInv(Up)'
  BY <1>1, <1>2 DEF ModInv, HookInv
<1> QED
  BY <1>1, <1>2, <1>3, <1>4 DEF ModInv, GameTypeOK

LEMMA ModVarsKept == ModInv /\ UNCHANGED modVars => ModInv'
<1> SUFFICES ASSUME ModInv, UNCHANGED modVars PROVE ModInv'
  OBVIOUS
<1>1. UNCHANGED <<tableVars, startVars, thread, resisted>>
  BY DEF modVars
<1>2. thread' \in [Threads -> Inside \cup {Outside}] /\ ThreadInv'
  BY <1>1 DEF ModInv, GameTypeOK, ThreadInv, tableVars, Enabled
<1>3. NoneInside' <=> NoneInside
  BY <1>1 DEF NoneInside
<1> QED
  BY <1>1, <1>2, <1>3, StartVarsKept DEF ModInv, PhaseInv

LEMMA CallKeeps ==
    ASSUME ModInv, NEW s \in Starters, StartMod(s) \/ ScriptEnable(s)
    PROVE  ModInv'
<1>1. CASE UNCHANGED modVars
  BY <1>1, ModVarsKept
<1>2. CASE pc[s] = "out" /\ pc' = [pc EXCEPT ![s] = "start"]
  BY <1>2, OutKeeps DEF StartMod, ScriptEnable, ModInv, StarterTypeOK
<1> QED
  BY <1>1, <1>2 DEF StartMod, ScriptEnable, modVars, startVars

\* A thread of the game goes through a hook.
LEMMA GameStepKeeps ==
    ASSUME ModInv, NEW t \in Threads, GameStep(t) PROVE ModInv'
<1> DEFINE Safe(p) == p # Outside /\ ~p.inRollback =>
              /\ Enabled(p.hook)
              /\ p.where = "trampoline" => p.heap = original[p.hook]
           Unseen(p) == p = Outside \/ p.inRollback
<1>1. PICK p : /\ p \in Inside \cup {Outside}
               /\ thread' = [thread EXCEPT ![t] = p]
               /\ Safe(p)
               /\ \A s \in Starters :
                    pc[s] \in Building \cup Rollback => Unseen(p)
               /\ UNCHANGED <<tableVars, startVars, resisted>>
  <2>1. ASSUME NEW h \in Hooks, EnterDetour(t, h)
        PROVE  \E p \in Inside :
                 /\ thread' = [thread EXCEPT ![t] = p]
                 /\ Safe(p)
                 /\ \A s \in Starters :
                      pc[s] \in Building \cup Rollback => Unseen(p)
                 /\ UNCHANGED <<tableVars, startVars, resisted>>
    <3> DEFINE p == [hook |-> h, where |-> "detour", heap |-> 0,
                     inRollback |-> RollingBack]
    <3>1. p \in Inside /\ p.where = "detour" /\ p.hook = h
      BY DEF Inside, RollingBack
    <3>2. \A s \in Starters : pc[s] \notin Building
      BY <2>1 DEF EnterDetour, ModInv, PhaseInv, NoneEnabled
    <3>3. \A s \in Starters : pc[s] \in Rollback => p.inRollback
      BY DEF RollingBack, Rollback
    <3>4. thread' = [thread EXCEPT ![t] = p] /\ Enabled(h)
          /\ UNCHANGED <<tableVars, startVars, resisted>>
      BY <2>1 DEF EnterDetour
    <3> HIDE DEF p
    <3> QED
      BY <3>1, <3>2, <3>3, <3>4
  <2>2. ASSUME CallOriginal(t)
        PROVE  \E p \in Inside :
                 /\ thread' = [thread EXCEPT ![t] = p]
                 /\ Safe(p)
                 /\ \A s \in Starters :
                      pc[s] \in Building \cup Rollback => Unseen(p)
                 /\ UNCHANGED <<tableVars, startVars, resisted>>
    <3>1. /\ thread[t] \in Inside /\ original[thread[t].hook] \in Nat
          /\ thread[t] # Outside
      BY <2>2 DEF CallOriginal, ModInv, GameTypeOK, Outside, Inside,
         TableInv, TableTypeOK
    <3> DEFINE p == [thread[t] EXCEPT !.where = "trampoline",
                                      !.heap = original[thread[t].hook]]
    <3>2. /\ p \in Inside /\ p.hook = thread[t].hook
          /\ p.heap = original[thread[t].hook]
          /\ p.inRollback = thread[t].inRollback
      BY <3>1 DEF Inside
    <3>3. thread' = [thread EXCEPT ![t] = p]
          /\ UNCHANGED <<tableVars, startVars, resisted>>
      BY <2>2 DEF CallOriginal, ModInv, GameTypeOK
    <3>4. ~thread[t].inRollback => Enabled(thread[t].hook)
      BY <3>1 DEF ModInv, ThreadInv
    <3>5. \A s \in Starters :
            pc[s] \in Building \cup Rollback => thread[t].inRollback
      BY <3>1 DEF ModInv, PhaseInv, NoneInside
    <3> HIDE DEF p
    <3> QED
      BY <3>2, <3>3, <3>4, <3>5
  <2>3. CASE LeaveHook(t)
    BY <2>3 DEF LeaveHook
  <2>4. CASE \E h \in Hooks : EnterDetour(t, h)
    BY <2>1, <2>4
  <2> QED
    BY <2>2, <2>3, <2>4 DEF GameStep
<1>2. thread' \in [Threads -> Inside \cup {Outside}]
  BY <1>1 DEF ModInv, GameTypeOK
<1>3. ThreadInv'
  BY <1>1, <1>2 DEF ModInv, GameTypeOK, ThreadInv, tableVars, Enabled
<1>4. ASSUME NEW s \in Starters, pc[s] \in Building \cup Rollback
      PROVE  NoneInside'
  BY <1>1, <1>4 DEF ModInv, GameTypeOK, PhaseInv, NoneInside
<1> QED
  BY <1>1, <1>2, <1>3, <1>4, StartVarsKept
-----------------------------------------------------------------------------
(* The specification.                                                      *)

LEMMA ModInitially == Init => ModInv
<1> SUFFICES ASSUME Init PROVE ModInv
  OBVIOUS
<1> USE DEF Init, StartInit, TableInit
<1>1. \A h \in Hooks : table[h] = NoEntry /\ ~Enabled(h) /\ ~Created(h)
  BY DEF Enabled, Created, NoEntry
<1>2. TableInv /\ StarterTypeOK /\ GameTypeOK
  BY <1>1, OneHook DEF TableInv, TableTypeOK, EntryInv, StarterTypeOK,
     GameTypeOK, NoEntry, Entries
<1>3. WorkerInv /\ ~Up /\ \A s \in Starters : PhaseInv(s)
  BY DEF WorkerInv, Up, PhaseInv, Working, Installed, Building, Rollback
<1> QED
  BY <1>1, <1>2, <1>3 DEF ModInv, HookInv, ThreadInv, Leftover

LEMMA ModInductive == ModInv /\ [Next]_vars => ModInv'
<1> SUFFICES ASSUME ModInv, [Next]_vars PROVE ModInv'
  OBVIOUS
<1>1. CASE UNCHANGED modVars
  BY <1>1, ModVarsKept
<1>2. CASE Attach \/ Detach
  BY <1>1, <1>2 DEF Attach, Detach
<1>3. CASE Load
  <2>1. UNCHANGED modVars \/ ScriptEnable(Loader)
    BY <1>3 DEF Load, ParseArgs, OpenScripts, LoadScript, RestoreDirectory,
       EnableScript, ScriptReturns, AllEnabled
  <2> QED
    BY <1>1, <2>1, CallKeeps, ProxyAssumption
<1>4. CASE Run
  BY <1>4, CallKeeps, StepKeeps, GameStepKeeps DEF Run
<1> QED
  BY <1>1, <1>2, <1>3, <1>4 DEF Next, vars

LEMMA ModAlways == Spec => []ModInv
BY ModInitially, ModInductive, PTL DEF Spec

(* The state of MinHook, of the threads that start the mod and of those of *)
(* the game stays within its types, whatever number of hooks there is.     *)
THEOREM ModTypeCorrect ==
    Spec => [](TableTypeOK /\ StarterTypeOK /\ GameTypeOK)
BY ModAlways, PTL DEF ModInv, TableInv

(* g_ready is set only when all hooks are enabled on the exact build.      *)
THEOREM ReadyIsInstalled == Spec => []ReadyMeansInstalled
<1>1. ModInv => ReadyMeansInstalled
  BY DEF ModInv, WorkerInv, Up, HookInv, Installed, Verified,
     ReadyMeansInstalled
<1> QED
  BY <1>1, ModAlways, PTL

(* What is patched leads through a live trampoline of its own.             *)
THEOREM PatchedCallsArrive == Spec => []PatchedIsCallable
<1>1. ModInv => PatchedIsCallable
  BY EntryFacts DEF ModInv, TableInv, EntryInv, PatchedIsCallable, Trampoline
<1> QED
  BY <1>1, ModAlways, PTL

(* A failed start leaves in MinHook's table only hooks whose removal has   *)
(* failed, and MinHook itself only for one that is still enabled.          *)
THEOREM FailedStartsAreUndone == Spec => []FailedStartIsUndone
<1>1. ModInv => FailedStartIsUndone
  BY DEF ModInv, Leftover, FailedStartIsUndone
<1> QED
  BY <1>1, ModAlways, PTL

(* No start takes a trampoline from a call that has begun before or after  *)
(* a roll back, however often starts are repeated.                         *)
THEOREM NoCallDangles == Spec => []NoDanglingCall
<1>1. ASSUME ModInv, NEW t \in Threads, thread[t] # Outside,
             ~thread[t].inRollback
      PROVE  /\ <<thread[t].hook, original[thread[t].hook]>> \in live
             /\ thread[t].where = "trampoline" =>
                  thread[t].heap = original[thread[t].hook]
  <2>1. thread[t].hook \in Hooks /\ Enabled(thread[t].hook)
    BY <1>1 DEF ModInv, GameTypeOK, ThreadInv, Inside
  <2>2. Created(thread[t].hook)
    BY <1>1, <2>1, EntryFacts DEF ModInv
  <2> QED
    BY <1>1, <2>1, <2>2 DEF ModInv, TableInv, EntryInv, ThreadInv
<1>2. ModInv => NoDanglingCall
  BY <1>1 DEF NoDanglingCall, Outside
<1> QED
  BY <1>2, ModAlways, PTL

(* The starts keep their promise: one installation at a time, repeatable   *)
(* when it has failed, and final when it has succeeded.                    *)
THEOREM ImplementsStartOnce == Spec => StartsOnce
<1> USE DEF Promise!Init, Promise!Next, Promise!Begin, Promise!Work,
        Promise!Fail, Promise!Announce, Promise!vars
<1>1. Init => Promise!Init
  BY DEF Init, StartInit
<1>2. ModInv /\ [Next]_vars => [Promise!Next]_(Promise!vars)
  <2> SUFFICES ASSUME ModInv, [Next]_vars,
                      ~UNCHANGED <<startState, ready>>
               PROVE  Promise!Next
    OBVIOUS
  <2>1. PICK s \in Starters : Step(s)
    BY DEF Next, vars, modVars, startVars, Attach, Detach, Load, ParseArgs,
       OpenScripts, LoadScript, RestoreDirectory, EnableScript, ScriptReturns,
       AllEnabled, Run, StartMod, ScriptEnable, GameStep, EnterDetour,
       CallOriginal, LeaveHook
  <2>2. \/ CompareExchange(s) /\ UNCHANGED ready
        \/ SetReady(s) \/ Return(s)
    BY <2>1 DEF Step, Start, Verify, Initialize, Create, Queue, Apply, Disable,
       Remove, Uninitialize
  <2>3. CASE CompareExchange(s) /\ UNCHANGED ready
    BY <2>3 DEF CompareExchange
  <2>4. CASE SetReady(s)
    BY <2>4, Alone DEF SetReady, Working, Installed
  <2>5. CASE Return(s)
    BY <2>5, Alone DEF Return, Working, Installed
  <2> QED
    BY <2>2, <2>3, <2>4, <2>5
<1> QED
  BY <1>1, <1>2, ModAlways, PTL DEF Spec, StartsOnce, Promise!Spec
-----------------------------------------------------------------------------
(* The scripts.                                                            *)

\* What has become of the listed scripts: they are on their way through the
\* lines to be loaded and the scripts to be enabled.
Due(there) == listed \cap Loadable \subseteq there
ListInv ==
    /\ lines \in Seq(Scripts) /\ scripts \in Seq(Scripts)
    /\ index \in Nat \ {0}
    /\ step \in {"game", "inject", "load", "enable", "inScript"}
    /\ step = "inject" => listed = {}
    /\ step = "load" =>
         /\ Due(Range(lines) \cup Range(scripts))
         /\ dllDirectory = "scripts"
    /\ step \in {"enable", "inScript"} =>
         /\ Due(Range(scripts))
         /\ \A i \in 1 .. Len(scripts) : i < index => scripts[i] \in enabled
    /\ step = "game" => Due(enabled)

LEMMA HeadRange ==
    ASSUME NEW list \in Seq(Scripts), list # <<>>
    PROVE  /\ Tail(list) \in Seq(Scripts) /\ Head(list) \in Scripts
           /\ Range(list) \subseteq {Head(list)} \cup Range(Tail(list))
<1>1. /\ Tail(list) \in Seq(Scripts) /\ Head(list) = list[1]
      /\ Head(list) \in Scripts
      /\ Len(list) \in Nat /\ DOMAIN list = 1 .. Len(list)
      /\ DOMAIN Tail(list) = 1 .. Len(list) - 1
      /\ \A i \in 1 .. Len(list) - 1 : Tail(list)[i] = list[i + 1]
  OBVIOUS
<1>2. ASSUME NEW i \in DOMAIN list, i # 1
      PROVE  list[i] \in Range(Tail(list))
  <2>1. i - 1 \in 1 .. Len(list) - 1 /\ (i - 1) + 1 = i
    BY <1>1, <1>2
  <2>2. Tail(list)[i - 1] = list[i]
    BY <1>1, <2>1
  <2> QED
    BY <1>1, <2>1, <2>2 DEF Range
<1> QED
  BY <1>1, <1>2 DEF Range

LEMMA AppendRange ==
    ASSUME NEW list \in Seq(Scripts), NEW script \in Scripts
    PROVE  /\ Append(list, script) \in Seq(Scripts)
           /\ Range(list) \cup {script} \subseteq
                Range(Append(list, script))
<1>1. /\ Append(list, script) \in Seq(Scripts)
      /\ Len(list) \in Nat /\ DOMAIN list = 1 .. Len(list)
      /\ DOMAIN Append(list, script) = 1 .. Len(list) + 1
      /\ \A i \in 1 .. Len(list) : Append(list, script)[i] = list[i]
      /\ Append(list, script)[Len(list) + 1] = script
  OBVIOUS
<1>2. ASSUME NEW i \in DOMAIN list
      PROVE  list[i] \in Range(Append(list, script))
  <2>1. i \in 1 .. Len(list) + 1
    BY <1>1
  <2> QED
    BY <1>1, <2>1 DEF Range
<1>3. script \in Range(Append(list, script))
  <2>1. Len(list) + 1 \in 1 .. Len(list) + 1
    BY <1>1
  <2> QED
    BY <1>1, <2>1 DEF Range
<1> QED
  BY <1>1, <1>2, <1>3 DEF Range

\* A line is taken from the list; its script, if it loads, goes on.
LEMMA LoadScriptKeeps == ASSUME ListInv, LoadScript PROVE ListInv'
<1>1. /\ lines \in Seq(Scripts) /\ lines # <<>> /\ scripts \in Seq(Scripts)
      /\ step = "load" /\ dllDirectory = "scripts" /\ index \in Nat \ {0}
      /\ lines' = Tail(lines)
      /\ UNCHANGED <<step, dllDirectory, index, listed, enabled>>
      /\ Due(Range(lines) \cup Range(scripts))
  BY DEF LoadScript, ListInv
<1>2. /\ lines' \in Seq(Scripts) /\ Head(lines) \in Scripts
      /\ Range(lines) \subseteq {Head(lines)} \cup Range(lines')
  BY <1>1, HeadRange
<1>3. CASE Head(lines) \in Loadable
  <2>1. scripts' = Append(scripts, Head(lines))
    BY <1>1, <1>3 DEF LoadScript, Loads
  <2>2. /\ scripts' \in Seq(Scripts)
        /\ Range(scripts) \cup {Head(lines)} \subseteq Range(scripts')
    BY <1>1, <1>2, <2>1, AppendRange
  <2>3. Due(Range(lines') \cup Range(scripts'))
    BY <1>1, <1>2, <2>2 DEF Due
  <2> QED
    BY <1>1, <1>2, <2>2, <2>3 DEF ListInv, Due, Range
<1>4. CASE Head(lines) \notin Loadable
  <2>1. scripts' = scripts
    BY <1>4 DEF LoadScript, Loads
  <2>2. Due(Range(lines') \cup Range(scripts'))
    BY <1>1, <1>2, <1>4, <2>1 DEF Due
  <2> QED
    BY <1>1, <1>2, <2>1, <2>2 DEF ListInv, Due, Range
<1> QED
  BY <1>3, <1>4

LEMMA LoadKeeps == ASSUME ListInv, Load PROVE ListInv'
<1>1. ASSUME NEW injectScripts \in BOOLEAN, ParseArgs(injectScripts)
      PROVE  ListInv'
  BY <1>1 DEF ParseArgs, ListInv, Due
<1>2. CASE OpenScripts
  <2>1. CASE step' = "game" /\ UNCHANGED <<lines, listed>>
    BY <1>2, <2>1 DEF OpenScripts, ListInv, Due
  <2>2. ASSUME NEW file \in ScriptLists, step' = "load",
               dllDirectory' = "scripts", lines' = file,
               listed' = Range(file)
        PROVE  ListInv'
    <3>1. lines' \in Seq(Scripts) /\ listed' \subseteq Range(lines')
      BY <2>2, ProxyAssumption DEF Range
    <3> QED
      BY <1>2, <2>2, <3>1 DEF OpenScripts, ListInv, Due, Range
  <2> QED
    BY <1>2, <2>1, <2>2 DEF OpenScripts
<1>3. CASE RestoreDirectory
  <2>1. Range(lines) = {}
    BY <1>3 DEF RestoreDirectory, Range
  <2> QED
    BY <1>3, <2>1 DEF RestoreDirectory, ListInv, Due, Range
<1>4. CASE EnableScript
  <2>1. /\ scripts' = scripts /\ listed' = listed /\ lines' = lines
        /\ index \in Nat \ {0} /\ index' = index + 1
        /\ enabled' = enabled \cup {scripts[index]}
        /\ step' \in {"enable", "inScript"}
    BY <1>4 DEF EnableScript, ListInv
  <2>2. \A i \in 1 .. Len(scripts) : i < index + 1 => scripts[i] \in enabled'
    BY <1>4, <2>1 DEF EnableScript, ListInv
  <2> QED
    BY <1>4, <2>1, <2>2 DEF EnableScript, ListInv, Due, Range
<1>5. CASE ScriptReturns
  BY <1>5 DEF ScriptReturns, ListInv, loadVars, Due, Range
<1>6. CASE AllEnabled
  <2>1. Range(scripts) \subseteq enabled
    BY <1>6 DEF AllEnabled, ListInv, Range
  <2> QED
    BY <1>6, <2>1 DEF AllEnabled, ListInv, loadVars, Due
<1> QED
  BY <1>1, <1>2, <1>3, <1>4, <1>5, <1>6, LoadScriptKeeps DEF Load

(* ParseArgs returns only when every script that was listed and loads has  *)
(* been enabled by it, for any lists, any scripts that do not load and any *)
(* number of calls.                                                        *)
THEOREM ListedScriptsAreEnabled == Spec => []ListedAreEnabled
<1>1. Init => ListInv
  BY DEF Init, ListInv, Due
<1>2. ListInv /\ [Next]_vars => ListInv'
  <2> SUFFICES ASSUME ListInv, [Next]_vars PROVE ListInv'
    OBVIOUS
  <2>1. CASE UNCHANGED <<step, loadVars>>
    BY <2>1 DEF ListInv, loadVars, Due, Range
  <2> QED
    BY <2>1, LoadKeeps DEF Next, Attach, Detach, Run, vars, proxyVars
<1>3. ListInv => ListedAreEnabled
  BY DEF ListInv, Due, ListedAreEnabled
<1> QED
  BY <1>1, <1>2, <1>3, PTL DEF Spec
=============================================================================
