------------------------------- MODULE MinHook -------------------------------
(***************************************************************************)
(* MinHook's table of hooks (third_party/minhook/src/hook.c).  Every call  *)
(* holds the library's spin lock, so it is one step; which of its causes a *)
(* failure has does not matter, so each has one failing status.            *)
(*                                                                         *)
(* A trampoline is named by its hook and by the heap it was made under:    *)
(* original[h] is the number of that heap, or 0 for a null pointer.        *)
(***************************************************************************)
EXTENDS Integers

CONSTANTS
    HookCount,      \* hooks of the mod, 4 in the code
    MaxHeaps        \* bound: successful MH_Initialize calls

ASSUME HookAssumption == HookCount \in Nat \ {0} /\ MaxHeaps \in Nat \ {0}

VARIABLES
    heap,           \* g_hHeap: its number, 0 for NULL
    heaps,          \* history: heaps made so far
    table,          \* g_hooks, by target
    original,       \* the pointers MH_CreateHook has filled in
    live            \* trampolines whose buffer is allocated

tableVars == <<heap, heaps, table, original, live>>

Hooks == 1 .. HookCount
NoEntry == [heap |-> 0, isEnabled |-> FALSE, queueEnable |-> FALSE]
Created(h) == table[h] # NoEntry
Enabled(h) == table[h].isEnabled
Trampoline(h) == <<h, table[h].heap>>

TableInit ==
    /\ heap = 0 /\ heaps = 0
    /\ table = [h \in Hooks |-> NoEntry]
    /\ original = [h \in Hooks |-> 0]
    /\ live = {}

\* EnableHookLL: sets both flags; fails when the page cannot be unprotected.
Switched(e, enable) == [e EXCEPT !.isEnabled = enable, !.queueEnable = enable]

SwitchAll(done, enable) ==
    table' = [h \in Hooks |-> IF h \in done THEN Switched(table[h], enable)
                              ELSE table[h]]

\* What MH_ApplyQueued has to enable, and how far it may get: the entries
\* are in the order of their creation.
Queued == {h \in Hooks : table[h].queueEnable /\ ~Enabled(h)}
Prefixes(S) == {{h \in S : h <= last} : last \in 0 .. HookCount}

MH_Initialize(status) ==
    \/ /\ status = "OK" /\ heap = 0
       /\ heap' = heaps + 1 /\ heaps' = heaps + 1
       /\ UNCHANGED <<table, original, live>>
    \/ status = "MEMORY_ALLOC" /\ heap = 0 /\ UNCHANGED tableVars
    \/ status = "ALREADY_INITIALIZED" /\ heap # 0 /\ UNCHANGED tableVars

\* Fails when heap, page or prologue do not serve, or the hook is there.
MH_CreateHook(h, status) ==
    \/ /\ status = "OK" /\ heap # 0 /\ ~Created(h)
       /\ table' = [table EXCEPT ![h] = [NoEntry EXCEPT !.heap = heap]]
       /\ original' = [original EXCEPT ![h] = heap]
       /\ live' = live \cup {<<h, heap>>}
       /\ UNCHANGED <<heap, heaps>>
    \/ status = "ERROR" /\ UNCHANGED tableVars

MH_QueueEnableHook(h, status) ==
    LET found == heap # 0 /\ Created(h) IN
    /\ status = IF found THEN "OK" ELSE "ERROR"
    /\ table' = IF found THEN [table EXCEPT ![h].queueEnable = TRUE] ELSE table
    /\ UNCHANGED <<heap, heaps, original, live>>

\* A hook that cannot be enabled does not make the call fail (mutant).
MH_ApplyQueuedAnyway(status) ==
    /\ status = IF heap = 0 THEN "ERROR" ELSE "OK"
    /\ \E done \in Prefixes(Queued) : SwitchAll(done, TRUE)
    /\ UNCHANGED <<heap, heaps, original, live>>

\* Freezes the threads first, which may fail; stops at the first hook that
\* cannot be enabled and leaves the earlier ones enabled.
MH_ApplyQueued(status) ==
    /\ \/ status = "ERROR" /\ UNCHANGED table
       \/ /\ heap # 0
          /\ \E done \in Prefixes(Queued) :
               /\ status = IF done = Queued THEN "OK" ELSE "ERROR"
               /\ SwitchAll(done, TRUE)
    /\ UNCHANGED <<heap, heaps, original, live>>

MH_DisableHook(h) ==
    /\ \/ UNCHANGED table
       \/ Enabled(h) /\ table' = [table EXCEPT ![h] = Switched(@, FALSE)]
    /\ UNCHANGED <<heap, heaps, original, live>>

\* The buffer is freed although the hook could not be disabled (mutant).
MH_RemoveHookAnyway(h) ==
    /\ live' = live \ {Trampoline(h)}
    /\ \/ Enabled(h) /\ UNCHANGED table
       \/ table' = [table EXCEPT ![h] = NoEntry]
    /\ UNCHANGED <<heap, heaps, original>>

\* Disables first; frees the buffer and the entry only when that is done.
\* The pointer to the trampoline is not cleared.
MH_RemoveHook(h) ==
    /\ \/ Enabled(h) /\ UNCHANGED <<table, live>>
       \/ /\ Created(h)
          /\ table' = [table EXCEPT ![h] = NoEntry]
          /\ live' = live \ {Trampoline(h)}
    /\ UNCHANGED <<heap, heaps, original>>

\* Disables what is enabled, as far as it can be and in any order (removed
\* entries have been replaced by the last one); only when all of it is
\* disabled are buffers, table and heap given up.
MH_Uninitialize ==
    /\ heap # 0
    /\ LET enabled == {h \in Hooks : Enabled(h)} IN
       \/ /\ table' = [h \in Hooks |-> NoEntry]
          /\ live' = {} /\ heap' = 0
       \/ /\ \E done \in (SUBSET enabled) \ {enabled} : SwitchAll(done, FALSE)
          /\ UNCHANGED <<live, heap>>
    /\ UNCHANGED <<heaps, original>>
=============================================================================
