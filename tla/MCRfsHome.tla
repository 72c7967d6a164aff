------------------------------ MODULE MCRfsHome ------------------------------
EXTENDS RfsHome, TLC
CONSTANTS d1, d2, d3, u1, u2

\* d1 and d2 are asked for the same mount, d3 for another.
MCTarget == [d \in Daemon |-> IF d = d3 THEN [root |-> 2, mountpoint |-> 2]
                              ELSE [root |-> 1, mountpoint |-> 1]]
UnmounterSymmetry == Permutations(Unmounter)
=============================================================================
