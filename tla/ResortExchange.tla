--------------------------- MODULE ResortExchange ---------------------------
(***************************************************************************)
(* DomainDecomposition::resortRealParticles (storage/DomainDecomposition.cpp) *)
(* on a grid of MPI ranks, driven by the resort trigger of                 *)
(* VelocityVerlet::run.                                                    *)
(*                                                                         *)
(* Space is cut into one slab per node along each axis; a position is the  *)
(* unwrapped slab index along every axis, so "left of my domain" is        *)
(* pos[a] < n[a] and "right of it" is pos[a] > n[a].  The cells inside a   *)
(* node are not modelled: a node holds a set of particles.  Every rank is  *)
(* a process stepping through the axes; sendParticles/recvParticles are    *)
(* blocking and are modelled as a rendezvous of the send with the matching *)
(* receive (the strictest MPI semantics).  The all_reduce that ends a      *)
(* round is one collective step.                                           *)
(***************************************************************************)
EXTENDS Integers, FiniteSets

CONSTANTS
  Grids,      \* the node grids to check: axis -> number of nodes along it
  Pids,       \* particle ids
  NaNPids,    \* particles whose coordinates are NaN
  InitPos(_), \* grid -> set of possible initial position functions
  InitNode(_) \* grid -> set of possible initial placements pid -> node

VARIABLES
  gridSize,  \* axis -> nodes along it (nodeGrid.getGridSize), fixed at start
  pos,       \* pid -> axis -> unwrapped slab coordinate (Particle r.p)
  cells,     \* node -> real particles held by the node (its realCells)
  sendL, sendR, recvL, recvR,   \* node -> the four ParticleList buffers
  pc,        \* node -> "scan" | "comm" | "append" | "reduce" | "idle"
  axis,      \* node -> coord of the for loop
  op,        \* node -> index of the next blocking call, 1..4 (5: done)
  finished   \* node -> the local finished flag (1 or 0)

vars == <<gridSize, pos, cells, sendL, sendR, recvL, recvR, pc, axis, op, finished>>

Axes == 0..2
LastAxis == 2

\* The node grid: one position per axis.
Nodes == {n \in [Axes -> 0..3] : \A a \in Axes : n[a] < gridSize[a]}

\* nodeGrid.getNodeNeighbor(dir): dir 2a is left, 2a+1 right, periodic.
Left(n, a) == [n EXCEPT ![a] = (n[a] - 1 + gridSize[a]) % gridSize[a]]
Right(n, a) == [n EXCEPT ![a] = (n[a] + 1) % gridSize[a]]

\* Fault model for NoDeadlock: even nodes receive first as well.
EvenOpsRecvFirst == <<"recvR", "sendL", "recvL", "sendR">>

\* The four blocking calls of one axis, in the order of the odd-even rule.
EvenOps == <<"sendL", "recvR", "sendR", "recvL">>

ASSUME
  /\ Grids \subseteq [Axes -> 1..4]
  /\ NaNPids \subseteq Pids

-----------------------------------------------------------------------------
(* Helpers                                                                 *)

\* mapPositionToCellChecked != 0: the position lies in the node's domain.
InDomain(n, p) == \A a \in Axes : pos[p][a] = n[a]

\* Fault model for BufferPairing: the odd node does the receive from the
\* left first.
OddOpsSwapped(n) == <<"recvL", "sendL", "recvR", "sendR">>

\* The odd-even rule: an even node sends first, an odd node receives first.
OddOps(n) == <<"recvR", "sendL", "recvL", "sendR">>

Ops(n, a) == IF n[a] % 2 = 0 THEN EvenOps ELSE OddOps(n)

\* Fault model for TypeOK: the axis loop steps past the last axis.
NextAxisAlways(a) == a + 1

\* for (coord = 0; coord < 3; ++coord): the axis after a, the last one
\* leading to the all_reduce.
NextAxis(a) == IF a = LastAxis THEN a ELSE a + 1

\* Fault model for ParticlesConserved: the buffers are not reset.
ResetKept(buf, n) == buf

\* sendBufL.resize(0) etc.: the buffers are emptied after appendParticles.
Reset(buf, n) == [buf EXCEPT ![n] = {}]

\* Fault model for ResortPlacesParticles: the result of appendParticles is
\* ignored.
OutlierIgnored(n, S, p1) == FALSE

\* appendParticles returns true if mapPositionToCellCheckedAndClipped had
\* to clip a particle of S, i.e. it lies outside the node's domain.
Outlier(n, S, p1) == \E p \in S : \E b \in Axes : p1[p][b] # n[b]

\* Fault model for ResortTerminates: no folding at the periodic boundary.
FoldSkipped(x, a) == x

\* BC::foldCoordinate along axis a: wrap into the box.
Fold(x, a) == ((x % gridSize[a]) + gridSize[a]) % gridSize[a]

\* The node a blocking call of n on its current axis talks to.
Peer(n, call) ==
  IF call \in {"sendL", "recvL"} THEN Left(n, axis[n]) ELSE Right(n, axis[n])

CurrentOp(n) == Ops(n, axis[n])[op[n]]

\* The send buffer of direction d has been handed over on this axis.
Sent(n, d) ==
  \E i \in 1..(op[n] - 1) : pc[n] \in {"comm", "append"} /\ Ops(n, axis[n])[i] = d

Kinds == {"cells", "recvL", "recvR", "sendL", "sendR"}

Buffer(n, k) ==
  CASE k = "cells" -> cells[n] [] k = "recvL" -> recvL[n] [] k = "recvR" -> recvR[n]
    [] k = "sendL" -> sendL[n] [] k = "sendR" -> sendR[n]

\* Where a particle is: the node's cells, a filled receive buffer, or a send
\* buffer not yet handed over.
Places(p) ==
  {<<n, k>> \in Nodes \X Kinds :
     p \in Buffer(n, k) /\ ~(k \in {"sendL", "sendR"} /\ Sent(n, k))}

-----------------------------------------------------------------------------
Init ==
  /\ gridSize \in Grids
  /\ pos \in InitPos(gridSize)
  /\ \E place \in InitNode(gridSize) :
       cells = [n \in Nodes |-> {p \in Pids : place[p] = n}]
  /\ sendL = [n \in Nodes |-> {}]
  /\ sendR = [n \in Nodes |-> {}]
  /\ recvL = [n \in Nodes |-> {}]
  /\ recvR = [n \in Nodes |-> {}]
  /\ pc = [n \in Nodes |-> "scan"]
  /\ axis = [n \in Nodes |-> 0]
  /\ op = [n \in Nodes |-> 1]
  /\ finished = [n \in Nodes |-> 1]

\* The scan of all real cells along a communicating axis: particles left or
\* right of the domain go to sendBufL / sendBufR (and leave localParticles);
\* on the last axis a particle still outside the domain makes the node
\* take another loop, unless a coordinate is NaN.  NaN particles compare
\* false both ways and stay.
Scan(n) ==
  LET a == axis[n]
      movable == cells[n] \ NaNPids
      goL == {p \in movable : pos[p][a] < n[a]}
      goR == {p \in movable : pos[p][a] > n[a]}
      stay == movable \ (goL \cup goR)
  IN
  /\ pc[n] = "scan"
  /\ gridSize[a] > 1
  /\ sendL' = [sendL EXCEPT ![n] = @ \cup goL]
  /\ sendR' = [sendR EXCEPT ![n] = @ \cup goR]
  /\ cells' = [cells EXCEPT ![n] = @ \ (goL \cup goR)]
  /\ finished' = [finished EXCEPT ![n] =
                    IF a = LastAxis /\ Outlier(n, stay, pos) THEN 0 ELSE @]
  /\ pc' = [pc EXCEPT ![n] = "comm"]
  /\ UNCHANGED <<gridSize, pos, recvL, recvR, axis, op>>

\* Single-node direction: fold every particle into the box along the axis;
\* on the last axis a particle outside the domain asks for another loop.
ScanLocal(n) ==
  LET a == axis[n]
      pos1 == [p \in Pids |->
                 IF p \in cells[n] \ NaNPids
                 THEN [pos[p] EXCEPT ![a] = Fold(@, a)] ELSE pos[p]]
  IN
  /\ pc[n] = "scan"
  /\ gridSize[a] = 1
  /\ pos' = pos1
  /\ finished' = [finished EXCEPT ![n] =
                    IF a = LastAxis /\ Outlier(n, cells[n] \ NaNPids, pos1)
                    THEN 0 ELSE @]
  /\ pc' = [pc EXCEPT ![n] = IF a = LastAxis THEN "reduce" ELSE "scan"]
  /\ axis' = [axis EXCEPT ![n] = NextAxis(a)]
  /\ UNCHANGED <<gridSize, cells, sendL, sendR, recvL, recvR, op>>

\* A blocking send of n meets the blocking receive its peer m has posted
\* for n: recvParticles fills the receive buffer of m's direction with the
\* content of n's send buffer.
Transfer(n, m) ==
  LET s == CurrentOp(n)  r == CurrentOp(m)
      buf == IF s = "sendL" THEN sendL[n] ELSE sendR[n]
  IN
  /\ pc[n] = "comm" /\ pc[m] = "comm"
  /\ op[n] <= 4 /\ op[m] <= 4
  /\ s \in {"sendL", "sendR"} /\ r \in {"recvL", "recvR"}
  /\ Peer(n, s) = m /\ Peer(m, r) = n
  /\ recvL' = IF r = "recvL" THEN [recvL EXCEPT ![m] = buf] ELSE recvL
  /\ recvR' = IF r = "recvR" THEN [recvR EXCEPT ![m] = buf] ELSE recvR
  /\ op' = [op EXCEPT ![n] = @ + 1, ![m] = @ + 1]
  /\ pc' = [pc EXCEPT ![n] = IF op[n] = 4 THEN "append" ELSE "comm",
                      ![m] = IF op[m] = 4 THEN "append" ELSE "comm"]
  /\ UNCHANGED <<gridSize, pos, cells, sendL, sendR, axis, finished>>

\* appendParticles for both receive buffers: fold if the neighbour lies
\* across the periodic boundary, clip into the node (flagging an outlier on
\* the last axis), then reset the four buffers and go to the next axis.
Append(n) ==
  LET a == axis[n]
      inL == recvL[n] \ NaNPids  inR == recvR[n] \ NaNPids
      crossL == n[a] = 0
      crossR == n[a] = gridSize[a] - 1
      pos1 == [p \in Pids |->
                 IF (p \in inL /\ crossL) \/ (p \in inR /\ crossR)
                 THEN [pos[p] EXCEPT ![a] = Fold(@, a)] ELSE pos[p]]
      outlier == Outlier(n, inL, pos1) \/ Outlier(n, inR, pos1)
  IN
  /\ pc[n] = "append"
  /\ pos' = pos1
  /\ cells' = [cells EXCEPT ![n] = @ \cup recvL[n] \cup recvR[n]]
  /\ finished' = [finished EXCEPT ![n] = IF a = LastAxis /\ outlier THEN 0 ELSE @]
  /\ sendL' = Reset(sendL, n)
  /\ sendR' = Reset(sendR, n)
  /\ recvL' = Reset(recvL, n)
  /\ recvR' = Reset(recvR, n)
  /\ op' = [op EXCEPT ![n] = 1]
  /\ pc' = [pc EXCEPT ![n] = IF a = LastAxis THEN "reduce" ELSE "scan"]
  /\ axis' = [axis EXCEPT ![n] = NextAxis(a)]
  /\ UNCHANGED gridSize

\* all_reduce(finished, plus) and the do-while test: all nodes leave it
\* together, either done or for another round from axis 0.
Reduce ==
  LET done == \A n \in Nodes : finished[n] = 1 IN
  /\ \A n \in Nodes : pc[n] = "reduce"
  /\ pc' = [n \in Nodes |-> IF done THEN "idle" ELSE "scan"]
  /\ axis' = [n \in Nodes |-> 0]
  /\ finished' = [n \in Nodes |-> 1]
  /\ UNCHANGED <<gridSize, pos, cells, sendL, sendR, recvL, recvR, op>>

Next ==
  \/ \E n \in Nodes : Scan(n) \/ ScanLocal(n) \/ Append(n)
  \/ \E n, m \in Nodes : Transfer(n, m)
  \/ Reduce

\* Each rank keeps running and MPI completes a matched send/receive pair.
\* No rank can run ahead on its own for ever: every send blocks until its
\* receive is posted and every round ends in the collective all_reduce, so
\* weak fairness of the whole system (implied by that of every rank)
\* suffices.
Fairness == WF_vars(Next)

Spec == Init /\ [][Next]_vars /\ Fairness

-----------------------------------------------------------------------------
(* Properties                                                              *)

TypeOK ==
  /\ gridSize \in Grids
  /\ pc \in [Nodes -> {"scan", "comm", "append", "reduce", "idle"}]
  /\ axis \in [Nodes -> Axes]
  /\ op \in [Nodes -> 1..5]
  /\ finished \in [Nodes -> {0, 1}]
  /\ \A n \in Nodes : cells[n] \cup sendL[n] \cup sendR[n] \cup recvL[n] \cup recvR[n]
                        \subseteq Pids

\* Spec 4.3: particles are never duplicated or lost.  Every particle is in
\* exactly one place: the real cells of one node, a receive buffer, or a send
\* buffer whose blocking send has not happened yet.
ParticlesConserved == \A p \in Pids : Cardinality(Places(p)) = 1

\* The odd-even rule pairs the calls right: what a node receives from its
\* right neighbour was sent leftwards (its coordinate lies left of that
\* neighbour's domain) and what it receives from the left was sent rightwards.
BufferPairing ==
  \A n \in Nodes : pc[n] \in {"comm", "append"} =>
    /\ \A p \in recvR[n] \ NaNPids : pos[p][axis[n]] < Right(n, axis[n])[axis[n]]
    /\ \A p \in recvL[n] \ NaNPids : pos[p][axis[n]] > Left(n, axis[n])[axis[n]]

\* The blocking calls never wait on each other in a cycle: while the resort
\* runs some rank can always take a step (a send meets its receive, or a
\* local step or the all_reduce can go on).
NoDeadlock == (\E n \in Nodes : pc[n] # "idle") => ENABLED Next

\* After a resort every particle with real coordinates is on the node whose
\* domain holds it, its coordinates folded into the box.
ResortPlacesParticles ==
  (\A n \in Nodes : pc[n] = "idle") =>
    \A n \in Nodes : \A p \in cells[n] \ NaNPids : InDomain(n, p)

\* The do-while loop of resortRealParticles ends: once started, every rank
\* eventually leaves it, NaN particles notwithstanding.
ResortTerminates ==
  (\E n \in Nodes : pc[n] # "idle") ~> (\A n \in Nodes : pc[n] = "idle")

=============================================================================
