------------------------- MODULE GhostCommunication -------------------------
(***************************************************************************)
(* DomainDecomposition::doGhostCommunication with the cell lists of        *)
(* prepareGhostCommunication (storage/DomainDecomposition.cpp), run as the *)
(* integrator runs it after a resort: exchangeGhosts (positions, sizes     *)
(* first), the local force computation, then collectGhostForces.  Each     *)
(* rank goes from one pass to the next on its own; there is no barrier.    *)
(*                                                                         *)
(* A node has one inner cell and a ghost frame one cell wide, so a cell is *)
(* an offset o in {-1,0,1}^3 from the inner cell.  A position pass fills a *)
(* ghost cell with the image of a real cell, recorded as the node owning   *)
(* that real cell.  A force is a bag of contributions <<node, offset>>:    *)
(* the force computed on the particles of that cell of that node.          *)
(***************************************************************************)
EXTENDS Integers, Sequences, FiniteSets, Bags

CONSTANTS
  GridSize,    \* axis -> number of nodes along it
  SizesModes,  \* the position passes run: TRUE exchangeGhosts (sizes first),
               \* FALSE updateGhosts
  None         \* content of a ghost cell nothing was copied into

Axes == 0..2

Nodes == {n \in [Axes -> 0..3] : \A a \in Axes : n[a] < GridSize[a]}

Offs == [Axes -> {-1, 0, 1}]

Zero == [a \in Axes |-> 0]

\* The node whose real cell the cell at offset o of node n is an image of.
Image(n, o) == [a \in Axes |-> (n[a] + o[a] + GridSize[a]) % GridSize[a]]

\* nodeGrid.getNodeNeighbor(dir): dir 2c is left, 2c+1 right.
Neighbor(n, c, lr) ==
  [n EXCEPT ![c] = (n[c] + (IF lr = 0 THEN -1 ELSE 1) + GridSize[c]) % GridSize[c]]

ASSUME GridSize \in [Axes -> 1..4] /\ SizesModes \subseteq BOOLEAN

VARIABLES
  content,   \* node -> offset -> node imaged there (None: not filled)
  force,     \* node -> offset -> bag of force contributions
  pass,      \* node -> 1 (realToGhosts), 2 (ghosts to reals), 3 (done)
  step,      \* node -> 0..5: position in the _coord x lr loop
  sub,       \* node -> index of the next blocking call of this direction
  crossed,   \* a receive took a message packed for another direction
  sizesFirst \* this position pass exchanges cell sizes first

vars == <<content, force, pass, step, sub, crossed, sizesFirst>>

-----------------------------------------------------------------------------
(* The cell lists: commCells[dir].reals and .ghosts.                       *)

\* Fault model for GhostsMirrorReals: the ghost frame of the axes already
\* done is not sent along with the inner cells.
RealsInnerOnly(c) == {o \in Offs : \A b \in Axes : o[b] = 0}

\* prepareGhostCommunication: along axis c the sent slab is the inner layer
\* in c; along an axis done before it takes the full ghost frame, along an
\* axis still to come only the inner cells.
Reals(c) == {o \in Offs : o[c] = 0 /\ \A b \in Axes : b > c => o[b] = 0}

\* The ghosts of direction 2c + lr: the frame layer on the far side.
Ghosts(c, lr) ==
  {o \in Offs : o[c] = (IF lr = 0 THEN 1 ELSE -1) /\ \A b \in Axes : b > c => o[b] = 0}

\* reals[i] and ghosts[i] of one direction differ only along c.
GhostOf(r, c, lr) == [r EXCEPT ![c] = IF lr = 0 THEN 1 ELSE -1]

\* copyRealsToGhosts / unpackPositionsEtc: ghosts[i] of dst takes the
\* content of reals[i] of src; a ghost cell without a real partner is left
\* as it was.
CopyToGhosts(dst, src, c, lr) ==
  [o \in Offs |-> IF o \in Ghosts(c, lr) /\ [o EXCEPT ![c] = 0] \in Reals(c)
                  THEN src[[o EXCEPT ![c] = 0]] ELSE dst[o]]

\* Fault model for ForcesCollected: forces are collected in the axis order
\* of the position pass.
CoordForward(p, k) == k \div 2

\* coord = realToGhosts ? _coord : (2 - _coord).
Coord(p, k) == IF p = 1 THEN k \div 2 ELSE 2 - (k \div 2)

Lr(k) == k % 2

\* Fault model for NoDeadlock: every node sends first.
CallsSendFirst(n, p, c) ==
  IF p = 1 /\ sizesFirst THEN <<"send", "recv", "send", "recv">> ELSE <<"send", "recv">>

\* Fault model for NoCrossedMessages: only the even ranks exchange sizes.
CallsSizesOnEven(n, p, c) ==
  IF n[c] % 2 = 0
  THEN IF p = 1 /\ sizesFirst THEN <<"send", "recv", "send", "recv">> ELSE <<"send", "recv">>
  ELSE <<"recv", "send">>

\* The odd-even rule: even nodes send, then receive; odd nodes the reverse.
\* With sizesFirst the sizes go the same way before the data.
Calls(n, p, c) ==
  LET one == IF n[c] % 2 = 0 THEN <<"send", "recv">> ELSE <<"recv", "send">>
  IN  IF p = 1 /\ sizesFirst THEN one \o one ELSE one

CurCoord(n) == Coord(pass[n], step[n])
CurCalls(n) == Calls(n, pass[n], CurCoord(n))
CurCall(n) == CurCalls(n)[sub[n]]

\* Positions go to neighbour(dir) and come from neighbour(oppositeDir);
\* forces go the other way.
Dest(n) == Neighbor(n, CurCoord(n), IF pass[n] = 1 THEN Lr(step[n]) ELSE 1 - Lr(step[n]))
Src(n) == Neighbor(n, CurCoord(n), IF pass[n] = 1 THEN 1 - Lr(step[n]) ELSE Lr(step[n]))

\* What a message is packed for: pass, direction, sizes or data.
Tag(n) == <<pass[n], CurCoord(n), Lr(step[n]), sub[n] > Len(CurCalls(n)) - 2>>

-----------------------------------------------------------------------------
Init ==
  /\ content = [n \in Nodes |-> [o \in Offs |-> IF o = Zero THEN n ELSE None]]
  /\ force = [n \in Nodes |-> [o \in Offs |-> SetToBag({<<n, o>>})]]
  /\ pass = [n \in Nodes |-> 1]
  /\ step = [n \in Nodes |-> 0]
  /\ sub = [n \in Nodes |-> 1]
  /\ crossed = FALSE
  /\ sizesFirst \in SizesModes

\* Fault model for TypeOK: the _coord loop runs once too often.
NextStepPastLast(k) == IF k = 7 THEN 0 ELSE k + 1

\* The _coord x lr loop: the next direction, 0 again after direction 5.
NextStep(k) == IF k = 5 THEN 0 ELSE k + 1

\* The next direction, the next pass once the loop wraps.
Advance(n) ==
  /\ step' = [step EXCEPT ![n] = NextStep(@)]
  /\ pass' = [pass EXCEPT ![n] = IF NextStep(step[n]) = 0 THEN @ + 1 ELSE @]
  /\ sub' = [sub EXCEPT ![n] = 1]

\* A direction along which the grid has one node: copyRealsToGhosts or
\* addGhostForcesToReals between reals[i] and ghosts[i] of this node.
LocalCopy(n) ==
  LET c == CurCoord(n)  lr == Lr(step[n]) IN
  /\ pass[n] \in {1, 2}
  /\ GridSize[c] = 1
  /\ IF pass[n] = 1
     THEN /\ content' = [content EXCEPT ![n] =
                CopyToGhosts(content[n], content[n], c, lr)]
          /\ UNCHANGED force
     ELSE /\ force' = [force EXCEPT ![n] =
                [o \in Offs |-> IF o \in Reals(c) THEN force[n][o] (+) force[n][GhostOf(o, c, lr)]
                                ELSE force[n][o]]]
          /\ UNCHANGED content
  /\ Advance(n)
  /\ UNCHANGED <<crossed, sizesFirst>>

\* A blocking send of n meets the receive m has posted for n.  The message
\* is packed from n's cells (packPositionsEtc / packForces) and unpacked by
\* m into its own cells of its current direction (unpackPositionsEtc /
\* unpackAndAddForces); a message packed for another direction is crossed.
Transfer(n, m) ==
  LET c == CurCoord(m)  lr == Lr(step[m])
      data == sub[m] > Len(CurCalls(m)) - 2
      match == Tag(n) = Tag(m)
  IN
  /\ pass[n] \in {1, 2} /\ pass[m] \in {1, 2}
  /\ GridSize[CurCoord(n)] > 1 /\ GridSize[c] > 1
  /\ CurCall(n) = "send" /\ CurCall(m) = "recv"
  /\ Dest(n) = m /\ Src(m) = n
  /\ crossed' = (crossed \/ ~match)
  /\ IF match /\ data /\ pass[m] = 1
     THEN content' = [content EXCEPT ![m] =
            CopyToGhosts(content[m], content[n], c, lr)]
     ELSE UNCHANGED content
  /\ IF match /\ data /\ pass[m] = 2
     THEN force' = [force EXCEPT ![m] =
            [o \in Offs |-> IF o \in Reals(c) THEN force[m][o] (+) force[n][GhostOf(o, c, lr)]
                            ELSE force[m][o]]]
     ELSE UNCHANGED force
  /\ LET last(x) == sub[x] = Len(CurCalls(x)) IN
     /\ step' = [x \in Nodes |-> IF x \in {n, m} /\ last(x) THEN NextStep(step[x]) ELSE step[x]]
     /\ pass' = [x \in Nodes |-> IF x \in {n, m} /\ last(x) /\ NextStep(step[x]) = 0
                                THEN pass[x] + 1 ELSE pass[x]]
     /\ sub' = [x \in Nodes |-> IF x \in {n, m} THEN (IF last(x) THEN 1 ELSE sub[x] + 1) ELSE sub[x]]
  /\ UNCHANGED sizesFirst

Next ==
  \/ \E n \in Nodes : LocalCopy(n)
  \/ \E n, m \in Nodes : Transfer(n, m)

\* Every rank keeps calling doGhostCommunication until both passes are done.
\* Each step advances a rank's loop and none is ever undone, so weak
\* fairness of the whole system (implied by that of every rank) suffices.
Fairness == WF_vars(Next)

Spec == Init /\ [][Next]_vars /\ Fairness

-----------------------------------------------------------------------------
TypeOK ==
  /\ content \in [Nodes -> [Offs -> Nodes \cup {None}]]
  /\ \A n \in Nodes, o \in Offs : IsABag(force[n][o])
  /\ pass \in [Nodes -> 1..3]
  /\ step \in [Nodes -> 0..5]
  /\ sub \in [Nodes -> 1..4]
  /\ crossed \in BOOLEAN
  /\ sizesFirst \in SizesModes

\* The contributions whose force belongs to the real particles of node n:
\* the cells of every node that hold an image of n's inner cell.
Owed(n) == {<<m, o>> \in Nodes \X Offs : Image(m, o) = n}

\* A rank that has left the position pass (exchangeGhosts) holds in every
\* cell of its ghost frame, corners included, the image of the right real
\* cell: the frame of the axes done before is forwarded with the slab.
GhostsMirrorReals ==
  \A n \in Nodes : pass[n] > 1 => \A o \in Offs : content[n][o] = Image(n, o)

\* All sends and receives use DD_COMM_TAG and match by source only: no rank
\* ever takes in a message its neighbour packed for another direction, a
\* sizes message for data, or a force message for positions, even though
\* ranks move from exchangeGhosts to collectGhostForces without a barrier.
NoCrossedMessages == ~crossed

\* After collectGhostForces (axes in reverse order) the inner cell of every
\* rank has received the force computed on each of its images exactly once:
\* corner ghosts reach the real cell through the ranks in between.
ForcesCollected ==
  \A n \in Nodes : pass[n] = 3 => force[n][Zero] = SetToBag(Owed(n))

\* Both passes of every rank eventually finish: the odd-even ordering of
\* the blocking send and recv calls never leaves the unfinished ranks
\* waiting on each other (a stuck state would stutter forever).
GhostCommTerminates == <>(\A n \in Nodes : pass[n] = 3)

====
