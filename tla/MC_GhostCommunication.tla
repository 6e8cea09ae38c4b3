----------------------- MODULE MC_GhostCommunication -----------------------
EXTENDS GhostCommunication

\* A 3 x 2 x 1 node grid.  Along x the ring of three puts two even ranks
\* side by side and left and right neighbours differ; along y the two
\* neighbours are one node; z is a local copy; corner ghosts need two hops.
MCGrid == (0 :> 3) @@ (1 :> 2) @@ (2 :> 1)
====
