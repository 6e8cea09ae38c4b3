------------------------- MODULE MC_TopologyManager -------------------------
(***************************************************************************)
(* Two ranks, four particles in three residues: residue 1 = {1, 2},        *)
(* residue 2 = {3}, residue 3 = {4}.  The chain 1-2-3 is bonded at start,  *)
(* so molecules 1 (residues 1, 2) and 3 exist, and the two inter-residue   *)
(* bonds 1-3 and 2-3 can both link residues 1 and 2 (the hasBond case).    *)
(***************************************************************************)
EXTENDS TopologyManager, TLC

CONSTANTS r1, r2

MCRanks == {r1, r2}
MCPids == 1..4
MCResId == (1 :> 1) @@ (2 :> 1) @@ (3 :> 2) @@ (4 :> 3)
MCOwner == (1 :> r1) @@ (2 :> r2) @@ (3 :> r1) @@ (4 :> r2)
MCInitBonds == {<<1, 2>>, <<2, 3>>}
MCMaxMolId == 5
=============================================================================
