----------------------------- MODULE MCEvidence -----------------------------
EXTENDS SubmitEvidence, TLC

CONSTANTS m1, m2

MCMachines == {m1, m2}
OneMachine == {m1}
Symmetry == Permutations(MCMachines)
=============================================================================
