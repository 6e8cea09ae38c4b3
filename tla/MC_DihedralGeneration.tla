----------------------- MODULE MC_DihedralGeneration -----------------------
EXTENDS DihedralGeneration, TLC

CONSTANTS r1, r2

MCRanks == {r1, r2}

\* Four particles: a chain, a star, a triangle and a 4-cycle are all
\* reachable, and a dihedral needs all four.
MCPids == 1..4

\* No rank is distinguished: the ranks only own particles.
MCSymmetry == Permutations(MCRanks)
====
