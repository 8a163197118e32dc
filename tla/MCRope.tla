-------------------------------- MODULE MCRope --------------------------------
EXTENDS RopeSubmission, SequencesExt

CONSTANTS h1, h2, g1, g2, a1, a2

MCRegistries == h1 :> {<<>>, <<g1>>, <<g1, g1, g2>>} @@ h2 :> {<<g2>>}
MCMaxSpawns == g1 :> 3 @@ g2 :> 1
Symmetry == Permutations({a1, a2})

At2(pivot, hand, score) ==
    [pivot |-> pivot, hand |-> hand, score |-> score, nativeValid |-> TRUE,
     nativeRejected |-> FALSE, usable |-> TRUE]
Kinds ==
    {At2(2, 2, 1), At2(2, 2, 2), At2(-2, -2, 1), At2(-2, -2, 2), At2(2, -2, 3),
     At2(0, 2, 3), [At2(2, 2, 3) EXCEPT !.nativeRejected = TRUE],
     [At2(-2, -2, 3) EXCEPT !.nativeValid = FALSE]}
MCBanks == SeqOf(Kinds, 2)
=============================================================================
