------------------------------- MODULE MCHero -------------------------------
EXTENDS HeroPublication, TLC

CONSTANTS w1, w2, r1, r2

MCWriters == {w1, w2}
MCReaders == {r1, r2}
MCSymmetry == Permutations(MCWriters) \cup Permutations(MCReaders)
=============================================================================
