---------------------------- MODULE MCHelperPool ----------------------------
\* Small instances of HelperPool for TLC.
EXTENDS HelperPool, TLC

CONSTANTS c1, c2, r1, r2, r3, h1, h2, h3

MCSymmetry == Permutations(Requests) \cup Permutations(Helpers)
                \cup Permutations(Containers)
=============================================================================
