--------------------------- MODULE TopologyManager ---------------------------
(***************************************************************************)
(* The distributed topology manager of integrator/TopologyManager.cpp,     *)
(* together with the bond lists it observes (FixedPairList).               *)
(*                                                                         *)
(* Every rank keeps its share of the bonds in FixedPairList::globalPairs   *)
(* (a bond is stored on the rank that owns its lower particle id) and a    *)
(* copy of the bond graph graph_, the residue graph res_graph_ and the     *)
(* molecule bookkeeping pid_mid / molecules_.  Between two calls of        *)
(* exchangeData a rank only queues edits (newEdges_, removedEdges_,        *)
(* is_dirty_); exchangeData is a collective (all_reduce + all_gather)      *)
(* after which every rank applies the same merged, sorted sets in the      *)
(* same order, so the replicated structures are modelled by one copy.      *)
(***************************************************************************)
EXTENDS Integers, FiniteSets

CONSTANTS
  Ranks,      \* MPI ranks of the communicator
  Pids,       \* particle ids (integers, ordered as longint)
  ResId,      \* pid -> residue id, the res_id of every particle (never 0)
  Owner,      \* pid -> rank holding the particle as a real particle
  InitBonds,  \* bonds present in the pair lists when initializeTopology runs
  MaxMolId    \* bound on max_mol_id_, the counter of fresh molecule ids

ResIds == {ResId[p] : p \in Pids}

\* Bonds are stored with the lower id first (the key of globalPairs).
Pairs == {e \in Pids \X Pids : e[1] < e[2]}

ASSUME
  /\ ResId \in [Pids -> Nat \ {0}]
  /\ Owner \in [Pids -> Ranks]
  /\ InitBonds \subseteq Pairs
  /\ MaxMolId \in Nat

VARIABLES
  globalPairs,   \* rank -> bonds of its FixedPairList (FixedPairList::globalPairs)
  graph,         \* graph_: bond graph, as canonical pairs <<low, high>>
  graphNodes,    \* the keys of graph_ (an entry, once made, is never erased)
  resGraph,      \* res_graph_: residue graph, canonical pairs, self loops included
  pidMid,        \* pid_mid: pid -> molecule id
  molecules,     \* molecules_: molecule id -> set of pids
  maxMolId,      \* max_mol_id_
  newEdges,      \* rank -> newEdges_ queued by onTupleAdded
  removedEdges,  \* rank -> removedEdges_ queued by onTupleRemoved
  isDirty,       \* rank -> is_dirty_
  fatal          \* an std::runtime_error escaped exchangeData: the run aborted

vars == <<globalPairs, graph, graphNodes, resGraph, pidMid, molecules, maxMolId,
          newEdges, removedEdges, isDirty, fatal>>

-----------------------------------------------------------------------------
(* Helpers                                                                 *)

\* The exchange canonicalises every edge as (min, max) (std::swap if f1 > f2).
Canon(a, b) == IF a <= b THEN <<a, b>> ELSE <<b, a>>

\* isParticleConnected: pid2 is in the adjacency set of pid1.
IsParticleConnected(g, a, b) == Canon(a, b) \in g

\* residues_: the particles carrying residue id r.
Residue(r) == {p \in Pids : ResId[p] = r}

\* std::set<std::pair> iterates in lexicographic order.
LexMin(E) == CHOOSE e \in E : \A f \in E : e[1] < f[1] \/ (e[1] = f[1] /\ e[2] <= f[2])

\* plainBFS(res_graph_, root): the residues reachable from a set of roots.
RECURSIVE ReachFrom(_, _)
ReachFrom(G, S) ==
  LET N == S \cup {y \in ResIds : \E x \in S : Canon(x, y) \in G}
  IN  IF N = S THEN S ELSE ReachFrom(G, N)

-----------------------------------------------------------------------------
(* The sequential part of exchangeData works on a record S holding the     *)
(* structures it mutates, so that one edge after the other can be applied  *)
(* in the order the code applies them.                                     *)

\* Fault model for TypeOK: fresh molecule id skips one value.
NextMolIdSkip(S) == S.max + 2

\* deleteEdge: ++max_mol_id_ gives the id of the split-off molecule.
NextMolId(S) == S.max + 1

\* Fault model for MoleculesAreComponents: the scan for another bond between
\* the two residues is dropped.
HasBondNoScan(g, r1, r2) == FALSE

\* deleteEdge: is there still a bond between residues r1 and r2?
HasBond(g, r1, r2) == \E p \in Residue(r1), q \in Residue(r2) : Canon(p, q) \in g

RemoveBond(gp, e) == [r \in Ranks |-> gp[r] \ {e}]

\* deleteEdge(pid1, pid2), including the molecule split.
DeleteEdge(S, e) ==
  LET a == e[1]  b == e[2]
      g == S.g \ {e}
      rid1 == ResId[a]  rid2 == ResId[b]
      mid1 == S.mid[a]  mid2 == S.mid[b]
      split == rid1 # rid2 /\ ~HasBond(g, rid1, rid2)
      rg == IF split THEN S.rg \ {Canon(rid1, rid2)} ELSE S.rg
      unique == ReachFrom(rg, {rid1}) \ ReachFrom(rg, {rid2})
      moved == UNION {Residue(x) : x \in unique}
      new == NextMolId(S)
  IN  IF (a \notin S.nodes /\ b \notin S.nodes) \/ mid1 # mid2
      THEN [S EXCEPT !.err = TRUE]
      ELSE IF split /\ unique # {}
      THEN [S EXCEPT !.gp = RemoveBond(S.gp, e), !.g = g, !.rg = rg,
                     !.max = new,
                     !.mid = [p \in Pids |-> IF p \in moved THEN new ELSE S.mid[p]],
                     !.mols = [m \in DOMAIN S.mols \cup {new} |->
                                 IF m = new THEN moved
                                 ELSE IF m = mid1 THEN S.mols[m] \ moved
                                 ELSE S.mols[m]]]
      ELSE [S EXCEPT !.gp = RemoveBond(S.gp, e), !.g = g, !.rg = rg]

\* Fault model for MoleculePartition: the absorbed molecule id is not erased.
MergeKeepOld(mols, mid1, mid2) ==
  [m \in DOMAIN mols |-> IF m = mid1 THEN mols[mid1] \cup mols[mid2] ELSE mols[m]]

\* newEdge: molecules_[mid1] absorbs molecules_[mid2], which is erased.
Merge(mols, mid1, mid2) ==
  [m \in DOMAIN mols \ {mid2} |->
     IF m = mid1 THEN mols[mid1] \cup mols[mid2] ELSE mols[m]]

\* Fault model for NoFatalError: the particles of the absorbed molecule keep
\* their old pid_mid entry.
AbsorbSkipped(mid, mols, mid1, mid2) == mid

\* newEdge: every particle of molecules_[mid2] gets pid_mid = mid1.
Absorb(mid, mols, mid1, mid2) ==
  [p \in Pids |-> IF p \in mols[mid2] THEN mid1 ELSE mid[p]]

\* Fault model for ResiduesConnectedByBonds: newResEdge is called only when
\* the bond merges two molecules.
NewEdgeResLinkOnMerge(S, e) ==
  LET a == e[1]  b == e[2]
      mid1 == S.mid[a]  mid2 == S.mid[b]
      S1 == [S EXCEPT !.g = S.g \cup {e}, !.nodes = S.nodes \cup {a, b}]
  IN  IF mid1 = mid2 THEN S1
      ELSE IF mid2 \notin DOMAIN S.mols \/ mid1 \notin DOMAIN S.mols
      THEN [S1 EXCEPT !.err = TRUE]
      ELSE [S1 EXCEPT !.rg = S.rg \cup {Canon(ResId[a], ResId[b])},
                      !.mid = Absorb(S.mid, S.mols, mid1, mid2),
                      !.mols = Merge(S.mols, mid1, mid2)]

\* newEdge(pid1, pid2) with newResEdge and the molecule merge.
NewEdge(S, e) ==
  LET a == e[1]  b == e[2]
      mid1 == S.mid[a]  mid2 == S.mid[b]
      S1 == [S EXCEPT !.g = S.g \cup {e}, !.nodes = S.nodes \cup {a, b},
                      !.rg = S.rg \cup {Canon(ResId[a], ResId[b])}]
  IN  IF mid1 = mid2 THEN S1
      ELSE IF mid2 \notin DOMAIN S.mols \/ mid1 \notin DOMAIN S.mols
      THEN [S1 EXCEPT !.err = TRUE]
      ELSE [S1 EXCEPT !.mid = Absorb(S.mid, S.mols, mid1, mid2),
                      !.mols = Merge(S.mols, mid1, mid2)]

\* The loops of exchangeData over a std::set of edges; an exception stops
\* the loop.
RECURSIVE DeleteAll(_, _)
DeleteAll(S, E) ==
  IF E = {} \/ S.err THEN S
  ELSE LET e == LexMin(E) IN DeleteAll(DeleteEdge(S, e), E \ {e})

RECURSIVE NewAll(_, _)
NewAll(S, E) ==
  IF E = {} \/ S.err THEN S
  ELSE LET e == LexMin(E) IN NewAll(NewEdge(S, e), E \ {e})

-----------------------------------------------------------------------------
(* Initial state: the result of initializeTopology.                        *)

InitState ==
  LET S0 == [gp |-> [r \in Ranks |-> {e \in InitBonds : Owner[e[1]] = r}],
             g |-> {}, nodes |-> {}, rg |-> {},
             mid |-> ResId,
             mols |-> [rid \in ResIds |-> Residue(rid)],
             max |-> CHOOSE m \in ResIds : \A x \in ResIds : x <= m,
             err |-> FALSE]
  IN  NewAll(S0, InitBonds)

Init ==
  LET S == InitState IN
  /\ globalPairs = S.gp
  /\ graph = S.g
  /\ graphNodes = S.nodes
  /\ resGraph = S.rg
  /\ pidMid = S.mid
  /\ molecules = S.mols
  /\ maxMolId = S.max
  /\ newEdges = [r \in Ranks |-> {}]
  /\ removedEdges = [r \in Ranks |-> {}]
  /\ isDirty = [r \in Ranks |-> TRUE]
  /\ fatal = S.err

-----------------------------------------------------------------------------
(* Actions                                                                 *)

\* FixedPairList::add(pid1, pid2) on rank r, which stores the pair only if
\* the lower id is real here and the pair is new, then signals onTupleAdded;
\* TopologyManager::onTupleAdded queues the edge unless graph_ has it.
AddBond(r, e) ==
  /\ ~fatal
  /\ Owner[e[1]] = r
  /\ e \notin globalPairs[r]
  /\ globalPairs' = [globalPairs EXCEPT ![r] = @ \cup {e}]
  /\ IF IsParticleConnected(graph, e[1], e[2])
     THEN UNCHANGED <<newEdges, isDirty>>
     ELSE /\ newEdges' = [newEdges EXCEPT ![r] = @ \cup {e}]
          /\ isDirty' = [isDirty EXCEPT ![r] = TRUE]
  /\ UNCHANGED <<graph, graphNodes, resGraph, pidMid, molecules, maxMolId,
                 removedEdges, fatal>>

\* FixedPairList::remove(pid1, pid2) erases the pair and signals
\* onTupleRemoved; TopologyManager::onTupleRemoved queues the edge only if
\* graph_ has it.
RemoveBondCall(r, e) ==
  /\ ~fatal
  /\ e \in globalPairs[r]
  /\ globalPairs' = [globalPairs EXCEPT ![r] = @ \ {e}]
  /\ IF IsParticleConnected(graph, e[1], e[2])
     THEN /\ removedEdges' = [removedEdges EXCEPT ![r] = @ \cup {e}]
          /\ isDirty' = [isDirty EXCEPT ![r] = TRUE]
     ELSE UNCHANGED <<removedEdges, isDirty>>
  /\ UNCHANGED <<graph, graphNodes, resGraph, pidMid, molecules, maxMolId,
                 newEdges, fatal>>

\* exchangeData on all ranks: the global OR of is_dirty_, the all_gather and
\* merge into sets, deleteEdge for every removed edge, then newEdge for every
\* new edge, then clearing the buffers and is_dirty_.  A split allocates one
\* fresh molecule id per removed edge at most; MaxMolId bounds them.
ExchangeData ==
  LET gRemove == UNION {removedEdges[r] : r \in Ranks}
      gNew == UNION {newEdges[r] : r \in Ranks}
      S0 == [gp |-> globalPairs, g |-> graph, nodes |-> graphNodes,
             rg |-> resGraph, mid |-> pidMid,
             mols |-> molecules, max |-> maxMolId, err |-> FALSE]
      S == NewAll(DeleteAll(S0, gRemove), gNew)
  IN
  /\ ~fatal
  /\ \E r \in Ranks : isDirty[r]
  /\ maxMolId + Cardinality(gRemove) <= MaxMolId
  /\ globalPairs' = S.gp
  /\ graph' = S.g
  /\ graphNodes' = S.nodes
  /\ resGraph' = S.rg
  /\ pidMid' = S.mid
  /\ molecules' = S.mols
  /\ maxMolId' = S.max
  /\ newEdges' = [r \in Ranks |-> {}]
  /\ removedEdges' = [r \in Ranks |-> {}]
  /\ isDirty' = [r \in Ranks |-> FALSE]
  /\ fatal' = S.err

Next ==
  \/ \E r \in Ranks, e \in Pairs : AddBond(r, e)
  \/ \E r \in Ranks, e \in Pairs : RemoveBondCall(r, e)
  \/ ExchangeData

Spec == Init /\ [][Next]_vars

-----------------------------------------------------------------------------
(* Properties                                                              *)

TypeOK ==
  /\ globalPairs \in [Ranks -> SUBSET Pairs]
  /\ graph \subseteq Pairs
  /\ graphNodes \subseteq Pids
  /\ resGraph \subseteq ResIds \X ResIds
  /\ DOMAIN molecules \subseteq 1..MaxMolId
  /\ pidMid \in [Pids -> 1..MaxMolId]
  /\ molecules \in [DOMAIN molecules -> SUBSET Pids]
  /\ maxMolId \in 1..MaxMolId
  /\ newEdges \in [Ranks -> SUBSET Pairs]
  /\ removedEdges \in [Ranks -> SUBSET Pairs]
  /\ isDirty \in [Ranks -> BOOLEAN]
  /\ fatal \in BOOLEAN

\* isResiduesConnected: rid2 is in the adjacency set of rid1 in res_graph_.
IsResiduesConnected(p, q) == Canon(ResId[p], ResId[q]) \in resGraph

\* isSameMolecule: both particles carry the same pid_mid.
IsSameMolecule(p, q) == pidMid[p] = pidMid[q]

\* The residue links implied by the bond graph.
ResLinks(g) == {Canon(ResId[e[1]], ResId[e[2]]) : e \in g}

MoleculesAreComponents ==
  LET links == ResLinks(graph) IN
  \A p \in Pids :
    LET comp == ReachFrom(links, {ResId[p]}) IN
    \A q \in Pids : IsSameMolecule(p, q) <=> ResId[q] \in comp

\* isResiduesConnected answers TRUE for two particles of different residues
\* exactly when a bond of graph_ joins the two residues: newResEdge links
\* them with every new bond, and deleteEdge unlinks them only when its scan
\* of the two residues' particles finds no other bond, through any series
\* of exchanges that add and remove several bonds between the same residues.
ResiduesConnectedByBonds ==
  LET links == ResLinks(graph) IN
  \A p, q \in Pids :
    ResId[p] # ResId[q] =>
      (IsResiduesConnected(p, q) <=> Canon(ResId[p], ResId[q]) \in links)

\* molecules_ and pid_mid describe the same partition: every molecule id in
\* use has a non-empty member set equal to the particles mapped to it.
MoleculePartition ==
  /\ \A p \in Pids : pidMid[p] \in DOMAIN molecules
  /\ \A m \in DOMAIN molecules :
       molecules[m] # {} /\ molecules[m] = {p \in Pids : pidMid[p] = m}

\* exchangeData never throws its consistency errors (edge between two
\* molecules, unknown molecule id, removal of an unknown edge).
NoFatalError == ~fatal

\* Once no rank has pending edits, every edge of graph_ is a bond held by
\* some pair list (spec 3: the graph is built from the fixed-tuple lists).
Settled == \A r \in Ranks : ~isDirty[r]

GraphEdgesAreBonds ==
  Settled => graph \subseteq UNION {globalPairs[r] : r \in Ranks}

\* A bond a pair list holds when exchangeData starts is still held after it:
\* the exchange only erases (deleteEdge -> removeBond) bonds the user
\* already removed.  onTupleAdded does not queue a bond graph_ still has,
\* so a bond removed and added again before the exchange is queued only as
\* removed, and deleteEdge erases the re-added pair.
ExchangeKeepsStoredBonds ==
  [][ExchangeData => \A r \in Ranks : globalPairs[r] \subseteq globalPairs'[r]]_vars

=============================================================================
