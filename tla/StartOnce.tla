------------------------------ MODULE StartOnce ------------------------------
(***************************************************************************)
(* What StartControlsOnlyRuntime promises to its callers: one installation *)
(* at a time; a failed one may be tried again; one that has succeeded is   *)
(* never undone nor repeated, and the hooks work before it is announced.   *)
(***************************************************************************)
VARIABLES
    state,          \* idle, installing, active
    working         \* the hooks are in place and ready

vars == <<state, working>>

Init == state = "idle" /\ working = FALSE
Begin == state = "idle" /\ state' = "installing" /\ UNCHANGED working
Work == state = "installing" /\ ~working /\ working' = TRUE /\ UNCHANGED state
Fail == state = "installing" /\ ~working /\ state' = "idle" /\ UNCHANGED working
Announce == state = "installing" /\ working /\ state' = "active" /\ UNCHANGED working

Next == Begin \/ Work \/ Fail \/ Announce

Spec == Init /\ [][Next]_vars
=============================================================================
