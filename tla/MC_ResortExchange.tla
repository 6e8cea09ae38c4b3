------------------------- MODULE MC_ResortExchange -------------------------
(* Instances of ResortExchange for TLC: one particle with real coordinates  *)
(* and one with NaN coordinates, placed on any node at any position of the *)
(* box (positions set from Python before the first decompose).             *)
EXTENDS ResortExchange, TLC

MCPids == {1, 2}
MCNaNPids == {2}

\* A 2 x 2 grid: along both axes left and right neighbour are the same node.
MCGridSquare == (0 :> 2) @@ (1 :> 2) @@ (2 :> 1)

\* A ring of 3 along the last axis: nodes 0 and 2 are both even neighbours,
\* and the last-axis outlier check runs on received particles.
MCGridRing == (0 :> 1) @@ (1 :> 1) @@ (2 :> 3)

\* Coordinates of the real particles: anywhere in the box, or one slab past
\* its edge as integrate1 leaves a particle that crossed the periodic
\* boundary; the NaN particle at the origin.
MCInitPos(g) ==
  {f \in [Pids -> [Axes -> -1..3]] :
     /\ \A p \in Pids \ NaNPids : \A a \in Axes : f[p][a] <= g[a]
     /\ \A p \in NaNPids : f[p] = [a \in Axes |-> 0]}

MCInitNode(g) == [Pids -> {n \in [Axes -> 0..3] : \A a \in Axes : n[a] < g[a]}]

\* Both grids, checked in one run.
MCGrids == {MCGridSquare, MCGridRing}

=============================================================================
