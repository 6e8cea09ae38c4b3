-------------------------- MODULE MC_Integration --------------------------
(***************************************************************************)
(* Three ranks on a ring of three, so that every rank is a neighbour of    *)
(* every other and a particle can hop through a third rank in one resort;  *)
(* five particles carrying two dihedrals that share the bond 2-3.  The     *)
(* skin is two step lengths (skin/2 = 1) and in a step the particles of    *)
(* one rank move by one; Python calls run(1) twice, so the skin is reached *)
(* in the first run() and exceeded in the step of the second, which        *)
(* resorts inside the loop.                                                *)
(***************************************************************************)
EXTENDS Integration, TLC

CONSTANTS r1, r2, r3

MCRanks == {r1, r2, r3}

\* The ranks play interchangeable roles: no constant names one of them.
MCSymmetry == Permutations(MCRanks)

MCPids == 1..5

\* A dihedral, its reverse (keyed by the other middle particle), and a
\* second dihedral keyed by particle 3.
MCQuadCands == {<<1, 2, 3, 4>>, <<4, 3, 2, 1>>, <<2, 3, 4, 5>>}

\* The same AdResS bond given in both orders (add sorts it).
MCPairCands == {<<1, 2>>, <<2, 1>>}

\* The bond both dihedrals contain, and a bond in none of them.
MCBondCands == {<<2, 3>>, <<1, 3>>}

MCGroupCands == {1, 2}

\* In a step the particles of one rank move and those of the others stay
\* (a set closed under permuting the ranks): the local maxima differ and
\* only the all_reduce tells the other ranks.
MCMoveFns == {[r \in MCRanks |-> IF r = s THEN 1 ELSE 0] : s \in MCRanks}
====
