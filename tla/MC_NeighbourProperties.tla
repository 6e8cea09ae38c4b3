----------------------- MODULE MC_NeighbourProperties -----------------------
(***************************************************************************)
(* Two ranks and four particles bonded as the chain 1-2-3-4; the pair      *)
(* lists may also add 1-4, closing a ring in which particle 3 is two hops  *)
(* from 1 along two paths.  Rank r1 sees particles 1-3, r2 sees 1, 3, 4;  *)
(* 1 and 2 are real on r1, 3 and 4 on r2.                                  *)
(* Particles 1 and 4 have type 0, particles 2 and 3 type 1.                *)
(*                                                                         *)
(* Rules:                                                                  *)
(*  - type 1 at distance 1: state + 1 in window [0, 1), reset to 0 in      *)
(*    window [1, 2): every state has exactly one valid rule;               *)
(*  - type 0 at distance 2: becomes type 1, unconditionally;               *)
(*  - a type-0 root removes its own bond to a type-1 neighbour, and a     *)
(*    bond between two type-1 particles whose far end is two hops away;    *)
(*  - local changes: type 0 gets state + 1 in window [0, 1), type 1        *)
(*    becomes type 0.                                                      *)
(***************************************************************************)
EXTENDS NeighbourProperties, TLC

CONSTANTS r1, r2

NoPP == [flags |-> {}, cond |-> FALSE, min |-> 0, max |-> 0, typeId |-> 0,
         state |-> 0, incr |-> 0]

MCRanks == {r1, r2}
MCPids == 1..4
MCLocal == (r1 :> {1, 2, 3}) @@ (r2 :> {1, 3, 4})
MCReal == (r1 :> {1, 2}) @@ (r2 :> {3, 4})
MCInitGraph == {<<1, 2>>, <<2, 3>>, <<3, 4>>}
MCInitProps == [p \in 1..4 |-> [type |-> IF p \in {1, 4} THEN 0 ELSE 1, state |-> 0]]
MCEdges == {<<1, 2>>, <<2, 3>>, <<3, 4>>, <<1, 4>>}
MCNbRules ==
  { [type |-> 1, level |-> 1,
     pp |-> [NoPP EXCEPT !.flags = {"INCR_STATE"}, !.cond = TRUE, !.max = 1, !.incr = 1]],
    [type |-> 1, level |-> 1,
     pp |-> [NoPP EXCEPT !.flags = {"CHANGE_STATE"}, !.cond = TRUE, !.min = 1, !.max = 2]],
    [type |-> 0, level |-> 2,
     pp |-> [NoPP EXCEPT !.flags = {"CHANGE_TYPE"}, !.typeId = 1]] }
MCBondRules == {[type |-> 0, level |-> 1, t1 |-> 0, t2 |-> 1],
                [type |-> 0, level |-> 2, t1 |-> 1, t2 |-> 1]}
MCLocalRules ==
  (0 :> [NoPP EXCEPT !.flags = {"INCR_STATE"}, !.cond = TRUE, !.max = 1, !.incr = 1])
  @@ (1 :> [NoPP EXCEPT !.flags = {"CHANGE_TYPE"}, !.typeId = 0])
=============================================================================
