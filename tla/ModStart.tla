------------------------------- MODULE ModStart -------------------------------
(***************************************************************************)
(* How the mod is started in the game: script_enable and the two exported  *)
(* functions of controls_dllmain.cpp, StartControlsOnlyRuntime and         *)
(* InstallControlsOnlyHooks, on the threads that call them, while threads  *)
(* of the game run through the hooks.                                      *)
(***************************************************************************)
EXTENDS MinHook

CONSTANTS
    Starters,       \* threads that start the mod
    Threads,        \* threads of the game
    Executables     \* what the host executable may be, see IsSupported

VARIABLES
    startState,     \* g_startState
    ready,          \* g_ready
    pc, at,         \* per starter: next statement, index of the hook
    created,        \* hooks[i].created of the installer
    executable,     \* the file and the image in memory
    thread,         \* per game thread, where it is in a hook
    resisted        \* history: hooks that a roll back could not remove

startVars == <<startState, ready, pc, at, created, executable>>
modVars == <<tableVars, startVars, thread, resisted>>

\* A thread outside of the hooks.  inRollback says of a call whether it has
\* begun while a start was being rolled back.
Outside == [hook |-> 0, where |-> "outside", heap |-> 0, inRollback |-> FALSE]

StartInit ==
    /\ TableInit
    /\ startState = "idle" /\ ready = FALSE
    /\ pc = [s \in Starters |-> "out"] /\ at = [s \in Starters |-> 1]
    /\ created = {}
    /\ executable \in Executables
    /\ thread = [t \in Threads |-> Outside]
    /\ resisted = {}

\* GameBuild::IsSupported: readable as a PE image and every mark of it that
\* of the one supported build.
IsSupported(e) ==
    /\ e.readable /\ e.wholeFileHash = "expected"
    /\ e.header = "PE64"
    /\ e.timestamp = "expected" /\ e.imageSize = "expected"
    /\ e.sections = "valid" /\ e.textHash = "expected"

\* PrepareManualWebRuntime, on the image, which others may have patched.
Matches(e) == e.signatures = "expected"

Goto(s, where, i) == pc' = [pc EXCEPT ![s] = where] /\ at' = [at EXCEPT ![s] = i]
-----------------------------------------------------------------------------
(* The statements of a start, in their order.                              *)
\* script_enable; the log or a hash may fail for reasons of their own.
ScriptEnable(s) ==
    /\ pc[s] = "out"
    /\ \/ UNCHANGED pc
       \/ IsSupported(executable) /\ pc' = [pc EXCEPT ![s] = "start"]
    /\ UNCHANGED <<tableVars, startState, ready, at, created, executable,
                   thread, resisted>>

\* TrueSwingStartMod called by itself.
StartMod(s) ==
    /\ pc[s] = "out"
    /\ pc' = [pc EXCEPT ![s] = "start"]
    /\ UNCHANGED <<tableVars, startState, ready, at, created, executable,
                   thread, resisted>>

\* The state is only read (mutant).
CompareExchangeAnyway(s) ==
    startState # "active" /\ startState' = "installing" /\ Goto(s, "verify", 1)

CompareExchange(s) ==
    startState = "idle" /\ startState' = "installing" /\ Goto(s, "verify", 1)

Start(s) ==
    /\ pc[s] = "start"
    /\ \/ CompareExchange(s)
       \/ startState # "idle" /\ Goto(s, "out", 1) /\ UNCHANGED startState
    /\ UNCHANGED <<tableVars, ready, created, executable, thread, resisted>>

Verify(s) ==
    /\ pc[s] = "verify"
    /\ \/ Goto(s, "fail", 1)
       \/ IsSupported(executable) /\ Matches(executable) /\ Goto(s, "initialize", 1)
    /\ UNCHANGED <<tableVars, startState, ready, created, executable, thread,
                   resisted>>

\* A MinHook that is initialized already serves as well (mutant).
InitializeOrReuse(s) ==
    /\ pc[s] = "initialize"
    /\ \E status \in {"OK", "ALREADY_INITIALIZED", "MEMORY_ALLOC"} :
         /\ heaps < MaxHeaps \/ status # "OK"
         /\ MH_Initialize(status)
         /\ Goto(s, IF status = "MEMORY_ALLOC" THEN "fail" ELSE "create", 1)
         /\ resisted' = IF status = "OK" THEN {} ELSE resisted
    /\ UNCHANGED <<startState, ready, created, executable, thread>>

\* Only a MinHook that is fresh is used.
Initialize(s) ==
    /\ pc[s] = "initialize"
    /\ \E status \in {"OK", "ALREADY_INITIALIZED", "MEMORY_ALLOC"} :
         /\ heaps < MaxHeaps \/ status # "OK"
         /\ MH_Initialize(status)
         /\ Goto(s, IF status = "OK" THEN "create" ELSE "fail", 1)
         /\ resisted' = IF status = "OK" THEN {} ELSE resisted
    /\ UNCHANGED <<startState, ready, created, executable, thread>>

\* To the next hook, or from the last one to the next statement.
Advance(s, next) ==
    IF at[s] < HookCount THEN Goto(s, pc[s], at[s] + 1) ELSE Goto(s, next, 1)

Create(s) ==
    /\ pc[s] = "create"
    /\ \E status \in {"OK", "ERROR"} :
         /\ MH_CreateHook(at[s], status)
         /\ IF status = "OK"
              THEN created' = created \cup {at[s]} /\ Advance(s, "queue")
              ELSE Goto(s, "disable", 1) /\ UNCHANGED created
    /\ UNCHANGED <<startState, ready, executable, thread, resisted>>

Queue(s) ==
    /\ pc[s] = "queue"
    /\ \E status \in {"OK", "ERROR"} :
         /\ MH_QueueEnableHook(at[s], status)
         /\ IF status = "OK" THEN Advance(s, "apply") ELSE Goto(s, "disable", 1)
    /\ UNCHANGED <<startState, ready, created, executable, thread, resisted>>

Apply(s) ==
    /\ pc[s] = "apply"
    /\ \E status \in {"OK", "ERROR"} :
         /\ MH_ApplyQueued(status)
         /\ Goto(s, IF status = "OK" THEN "setReady" ELSE "disable", 1)
    /\ UNCHANGED <<startState, ready, created, executable, thread, resisted>>

\* rollback's loop; the flag was never set, so SetManualWebRuntimeReady(FALSE)
\* changes nothing of this module.
Disable(s) ==
    /\ pc[s] = "disable"
    /\ IF at[s] \in created
         THEN MH_DisableHook(at[s]) /\ Goto(s, "remove", at[s])
         ELSE UNCHANGED tableVars /\ Advance(s, "uninitialize")
    /\ UNCHANGED <<startState, ready, created, executable, thread, resisted>>

\* The loop ends at a hook that cannot be removed (mutant).
RemoveOrStop(s) ==
    /\ pc[s] = "remove"
    /\ MH_RemoveHook(at[s])
    /\ resisted' = resisted \cup {h \in {at[s]} : table'[h] = table[h]}
    /\ created' = created \ {at[s]}
    /\ IF at[s] < HookCount /\ table' # table
         THEN Goto(s, "disable", at[s] + 1)
         ELSE Goto(s, "uninitialize", 1)
    /\ UNCHANGED <<startState, ready, executable, thread>>

Remove(s) ==
    /\ pc[s] = "remove"
    /\ MH_RemoveHook(at[s])
    /\ resisted' = resisted \cup {h \in {at[s]} : table'[h] = table[h]}
    /\ created' = created \ {at[s]}
    /\ IF at[s] < HookCount THEN Goto(s, "disable", at[s] + 1)
                            ELSE Goto(s, "uninitialize", 1)
    /\ UNCHANGED <<startState, ready, executable, thread>>

Uninitialize(s) ==
    /\ pc[s] = "uninitialize"
    /\ MH_Uninitialize
    /\ Goto(s, "fail", 1)
    /\ UNCHANGED <<startState, ready, created, executable, thread, resisted>>

SetReady(s) ==
    /\ pc[s] = "setReady"
    /\ ready' = TRUE
    /\ Goto(s, "succeed", 1)
    /\ UNCHANGED <<tableVars, startState, created, executable, thread, resisted>>

\* The store at the end of StartControlsOnlyRuntime; `created' is a local.
Return(s) ==
    /\ pc[s] \in {"fail", "succeed"}
    /\ startState' = IF pc[s] = "succeed" THEN "active" ELSE "idle"
    /\ created' = {}
    /\ Goto(s, "out", 1)
    /\ UNCHANGED <<tableVars, ready, executable, thread, resisted>>

Step(s) ==
    \/ Start(s) \/ Verify(s) \/ Initialize(s) \/ Create(s) \/ Queue(s)
    \/ Apply(s) \/ Disable(s) \/ Remove(s) \/ Uninitialize(s)
    \/ SetReady(s) \/ Return(s)
-----------------------------------------------------------------------------
(* A thread of the game calls a hooked function: through the relay to the  *)
(* detour, from there by the original pointer to the trampoline, and back. *)
RollingBack ==
    \E s \in Starters : pc[s] \in {"disable", "remove", "uninitialize"}

EnterDetour(t, h) ==
    /\ thread[t] = Outside
    /\ Enabled(h)
    /\ thread' = [thread EXCEPT ![t] = [hook |-> h, where |-> "detour",
                                        heap |-> 0, inRollback |-> RollingBack]]
    /\ UNCHANGED <<tableVars, startVars, resisted>>

CallOriginal(t) ==
    /\ thread[t].where = "detour"
    /\ thread' = [thread EXCEPT ![t].where = "trampoline",
                                ![t].heap = original[thread[t].hook]]
    /\ UNCHANGED <<tableVars, startVars, resisted>>

LeaveHook(t) ==
    /\ thread[t].where = "trampoline"
    /\ thread' = [thread EXCEPT ![t] = Outside]
    /\ UNCHANGED <<tableVars, startVars, resisted>>

GameStep(t) ==
    (\E h \in Hooks : EnterDetour(t, h)) \/ CallOriginal(t) \/ LeaveHook(t)
-----------------------------------------------------------------------------
(* To be ready is to have all hooks enabled, on the exact build.  It is    *)
(* what the detours rely on, and it is never taken back.                   *)
ReadyMeansInstalled ==
    ready => /\ \A h \in Hooks : Enabled(h)
             /\ IsSupported(executable) /\ Matches(executable)

(* A patched function leads through a live trampoline of its own, even     *)
(* when a rollback could not restore it: the game can always call it.      *)
PatchedIsCallable ==
    \A h \in Hooks : Enabled(h) => /\ original[h] = table[h].heap
                                   /\ Trampoline(h) \in live

(* A start that has failed, however far it had come, leaves in MinHook's   *)
(* table only hooks whose own removal has failed; it gives MinHook itself  *)
(* back unless one of those could not even be disabled in the end.         *)
FailedStartIsUndone ==
    startState = "idle" =>
        /\ \A h \in Hooks : Created(h) => h \in resisted
        /\ heap # 0 => \E h \in Hooks : Enabled(h)

(* No start, a repeated one included, takes a trampoline from a call of    *)
(* the game that has begun in a hook of a mod that is up or in one that an *)
(* earlier roll back could not remove.  Calls that begin while a roll back *)
(* is under way are left out: it frees their trampolines without waiting   *)
(* for them.                                                               *)
NoDanglingCall ==
    \A t \in Threads : ~thread[t].inRollback =>
        /\ thread[t].where = "trampoline" =>
             <<thread[t].hook, thread[t].heap>> \in live
        /\ thread[t].where = "detour" =>
             <<thread[t].hook, original[thread[t].hook]>> \in live

Promise == INSTANCE StartOnce WITH state <- startState, working <- ready
StartsOnce == Promise!Spec
=============================================================================
