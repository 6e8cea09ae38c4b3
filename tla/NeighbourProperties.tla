------------------------- MODULE NeighbourProperties -------------------------
(***************************************************************************)
(* Neighbour-distance property updates and neighbour bond removal of       *)
(* integrator/TopologyManager.cpp (spec 4.4, step 6).                      *)
(*                                                                         *)
(* Between two exchanges a rank queues requests: invokeNeighbourProperty-  *)
(* Change runs getNodesAtDistances on graph_ at once and queues <<root,    *)
(* distance, pid>> triples, invokeNeighbourBondRemove queues a root,       *)
(* invokeParticlePropertiesChange a pid, onTupleAdded/onTupleRemoved an    *)
(* edge.  exchangeData then runs removeNeighbourEdges for every gathered   *)
(* root on every rank, merges the triples into a map keyed by (root, pid)  *)
(* (throwing on two distances for one key), applies the edge edits to      *)
(* graph_, then updateParticlePropertiesAtDistance in key order and        *)
(* updateParticleProperties in pid order.  The molecule bookkeeping of the *)
(* edge edits is modelled in TopologyManager; here only their effect on    *)
(* graph_.  A particle is one copy: its real and ghost images get the same *)
(* updates on every rank.                                                  *)
(***************************************************************************)
EXTENDS Integers, FiniteSets, SequencesExt

CONSTANTS
  Ranks,       \* MPI ranks
  Pids,        \* particle ids
  Local,       \* rank -> pids lookupLocalParticle finds there (real or ghost)
  Real,        \* rank -> pids lookupRealParticle finds there
  InitGraph,   \* graph_ when the requests start
  InitProps,   \* pid -> [type, state]
  Edges,       \* the bonds the pair lists may add or remove
  NbRules,     \* registerNeighbourPropertyChange: [type, level, pp]
  BondRules,   \* registerNeighbourBondToRemove: [type, level, t1, t2]
  LocalRules,  \* registerLocalPropertyChange: new_type_pp_, type -> pp
  Types,       \* particle type ids
  MaxState,    \* the largest state the rules can produce
  MaxPending   \* bound on the requests queued between two exchanges

\* A TopologyParticleProperties: change_flag_ as a set of its bits, the
\* condition_ window [min_state_, max_state_) and the values to set.
\*   pp = [flags, cond, min, max, typeId, state, incr]

\* The elements of the finite set S in increasing order of the strict total
\* order less: SetToSortSeq, computed from each element's rank.
SortedBy(S, less(_, _)) ==
  [i \in 1..Cardinality(S) |->
     CHOOSE x \in S : Cardinality({y \in S : less(y, x)}) = i - 1]

Canon(a, b) == IF a <= b THEN <<a, b>> ELSE <<b, a>>
Adj(g, n) == {m \in Pids : Canon(n, m) \in g}

\* nb_distances_ and max_nb_distance_ after the registrations (both start
\* empty / 0 in the constructor).
NbDistances == {ru.level : ru \in NbRules}
MaxNbDistance == IF NbRules = {} THEN 0 ELSE Max(NbDistances)

\* edges_type_distance_pair_types_ holds both orders of every type pair;
\* max_bond_nb_distance_ is the largest level.
BondPairs(t, d) == UNION {{<<b.t1, b.t2>>, <<b.t2, b.t1>>} :
                          b \in {x \in BondRules : x.type = t /\ x.level = d}}
BondTypes == {b.type : b \in BondRules}
MaxBondNbDistance == IF BondRules = {} THEN 0 ELSE Max({b.level : b \in BondRules})

VARIABLES
  graph,         \* graph_, canonical pairs
  props,         \* pid -> [type, state] of the particle
  nbRequests,    \* nb_distance_particles_ triples <<root, d, pid>>
  bondRoots,     \* nb_edges_root_to_remove_
  propRequests,  \* new_local_particle_properties_
  newEdges,      \* newEdges_
  removedEdges,  \* removedEdges_
  isDirty,       \* is_dirty_
  fatal          \* "none" or the runtime_error that escaped exchangeData

\* exchangeData reads the buffers of the ranks only through the all_gather
\* and its set merge, and is_dirty_ only through the global OR, so each
\* buffer is the union of all ranks' buffers and isDirty the OR.  Ranks
\* remain in which particles a rank can look up (Local).

vars == <<graph, props, nbRequests, bondRoots, propRequests, newEdges,
          removedEdges, isDirty, fatal>>

-----------------------------------------------------------------------------
(* The breadth-first search of getNodesAtDistances and removeNeighbour-    *)
(* Edges: a FIFO queue, adjacency sets in ascending order, a node visited  *)
(* once at its first discovery, and expanded only if its distance is below *)
(* the limit.  The result is the set of discoveries [node, dist, parent].  *)

\* Fault model for NodesAtDistancesAgree: a node is expanded only below the
\* limit minus one, so the last registered distance is never reached.
RECURSIVE BFSLoopShort(_, _, _, _, _)
BFSLoopShort(g, maxd, Q, dist, found) ==
  IF Q = <<>> THEN found
  ELSE LET cur == Head(Q)
           nd == dist[cur] + 1
           fresh == SortedBy({n \in Adj(g, cur) : n \notin DOMAIN dist}, <)
       IN  BFSLoopShort(g, maxd,
                   Tail(Q) \o (IF nd < maxd - 1 THEN fresh ELSE <<>>),
                   dist @@ [n \in ToSet(fresh) |-> nd],
                   found \cup {[node |-> n, dist |-> nd, parent |-> cur] : n \in ToSet(fresh)})

RECURSIVE BFSLoop(_, _, _, _, _)
BFSLoop(g, maxd, Q, dist, found) ==
  IF Q = <<>> THEN found
  ELSE LET cur == Head(Q)
           nd == dist[cur] + 1
           fresh == SortedBy({n \in Adj(g, cur) : n \notin DOMAIN dist}, <)
       IN  BFSLoop(g, maxd,
                   Tail(Q) \o (IF nd < maxd THEN fresh ELSE <<>>),
                   dist @@ [n \in ToSet(fresh) |-> nd],
                   found \cup {[node |-> n, dist |-> nd, parent |-> cur] : n \in ToSet(fresh)})

Discoveries(g, root, maxd) == BFSLoop(g, maxd, <<root>>, root :> 0, {})

\* getNodesAtDistances(root): a triple for every node found at a registered
\* distance.
GetNodesAtDistances(g, root) ==
  {<<root, x.dist, x.node>> :
     x \in {y \in Discoveries(g, root, MaxNbDistance) : y.dist \in NbDistances}}

\* Fault model for NeighbourBondRemovalSound: the rule is looked up at the
\* distance of the current node (visitedDistance[current]), not new_distance.
RemoveNeighbourEdgesLevelOfParent(r, root) ==
  IF root \notin Local[r] \/ props[root].type \notin BondTypes THEN {}
  ELSE {Canon(x.node, x.parent) :
          x \in {y \in Discoveries(graph, root, MaxBondNbDistance) :
                   /\ {y.node, y.parent} \subseteq Local[r]
                   /\ <<props[y.parent].type, props[y.node].type>>
                        \in BondPairs(props[root].type, y.dist - 1)}}

\* removeNeighbourEdges(root) on rank r: the edge by which a node was found
\* at distance d, if both its ends are local on r and their types form a
\* pair registered for the root's type at d.
RemoveNeighbourEdges(r, root) ==
  IF root \notin Local[r] \/ props[root].type \notin BondTypes THEN {}
  ELSE {Canon(x.node, x.parent) :
          x \in {y \in Discoveries(graph, root, MaxBondNbDistance) :
                   /\ {y.node, y.parent} \subseteq Local[r]
                   /\ <<props[y.parent].type, props[y.node].type>>
                        \in BondPairs(props[root].type, y.dist)}}

-----------------------------------------------------------------------------
(* The graph queries of spec 4.4 (isPathExists, connectedComponents over   *)
(* plainBFS), on a graph_ whose keys are Pids.                             *)

\* Fault model for PathExistsAgrees: the target is looked for only among
\* nodes not visited yet.
RECURSIVE PathLoopFreshOnly(_, _, _, _)
PathLoopFreshOnly(g, b, Q, visited) ==
  IF Q = <<>> THEN FALSE
  ELSE LET adj == Adj(g, Head(Q)) IN
       IF b \in adj \ visited THEN TRUE
       ELSE PathLoopFreshOnly(g, b, Tail(Q) \o SortedBy(adj \ visited, <), visited \cup adj)

\* The loop of isPathExists: found_path is set when the scan of a dequeued
\* node's adjacency meets node2, visited or not, and stops both loops.
RECURSIVE PathLoop(_, _, _, _)
PathLoop(g, b, Q, visited) ==
  IF Q = <<>> THEN FALSE
  ELSE LET adj == Adj(g, Head(Q)) IN
       IF b \in adj THEN TRUE
       ELSE PathLoop(g, b, Tail(Q) \o SortedBy(adj \ visited, <), visited \cup adj)

IsPathExists(g, a, b) == PathLoop(g, b, <<a>>, {a})

\* plainBFS(g, root): the nodes of the returned subgraph.
RECURSIVE PlainBFS(_, _)
PlainBFS(g, S) ==
  LET N == S \cup UNION {Adj(g, n) : n \in S}
  IN  IF N = S THEN S ELSE PlainBFS(g, N)

\* Fault model for ComponentsAgree: the nodes of a component are not added
\* to seen.
RECURSIVE CCLoopNoSeen(_, _, _)
CCLoopNoSeen(g, ks, seen) ==
  IF ks = <<>> THEN <<>>
  ELSE IF Head(ks) \in seen THEN CCLoopNoSeen(g, Tail(ks), seen)
  ELSE <<PlainBFS(g, {Head(ks)})>> \o CCLoopNoSeen(g, Tail(ks), seen)

\* connectedComponents: for every key in order not seen yet, the subgraph
\* plainBFS finds from it; its nodes become seen.
RECURSIVE CCLoop(_, _, _)
CCLoop(g, ks, seen) ==
  IF ks = <<>> THEN <<>>
  ELSE IF Head(ks) \in seen THEN CCLoop(g, Tail(ks), seen)
  ELSE LET c == PlainBFS(g, {Head(ks)}) IN <<c>> \o CCLoop(g, Tail(ks), seen \cup c)

ConnectedComponents(g) == CCLoop(g, SortedBy(Pids, <), {})

-----------------------------------------------------------------------------
(* TopologyParticleProperties                                              *)

\* Fault model for NoFatalError: the window is closed at max_state_.
IsValidClosed(pp, p) == ~pp.cond \/ (pp.min <= p.state /\ p.state <= pp.max)

\* isValid: the state lies in the condition window, or there is no condition.
IsValid(pp, p) == ~pp.cond \/ (pp.min <= p.state /\ p.state < pp.max)

\* Fault model for TypeOK: the rule's own condition is not checked.
UpdateParticlePropsNoCond(pp, p) ==
  IF pp.flags # {}
  THEN LET s == IF "CHANGE_STATE" \in pp.flags THEN pp.state ELSE p.state
       IN  [type  |-> IF "CHANGE_TYPE" \in pp.flags THEN pp.typeId ELSE p.type,
            state |-> IF "INCR_STATE" \in pp.flags THEN s + pp.incr ELSE s]
  ELSE p

\* updateParticleProperties(p): type, then state, then the state increment.
UpdateParticleProps(pp, p) ==
  IF pp.flags # {} /\ IsValid(pp, p)
  THEN LET s == IF "CHANGE_STATE" \in pp.flags THEN pp.state ELSE p.state
       IN  [type  |-> IF "CHANGE_TYPE" \in pp.flags THEN pp.typeId ELSE p.type,
            state |-> IF "INCR_STATE" \in pp.flags THEN s + pp.incr ELSE s]
  ELSE p

\* updateParticlePropertiesAtDistance(pid, d) on the record S = [P, err]:
\* exactly one valid rule for the particle's type at d is applied; several
\* or none throw.
UpdateAtDistance(S, pid, d) ==
  LET p == S.P[pid]
      rules == {ru \in NbRules : ru.level = d /\ ru.type = p.type}
      valid == {ru \in rules : IsValid(ru.pp, p)}
  IN  IF S.err # "none" \/ rules = {} THEN S
      ELSE IF Cardinality(valid) > 1 THEN [S EXCEPT !.err = "multiple"]
      ELSE IF valid = {} THEN [S EXCEPT !.err = "nocorrect"]
      ELSE [S EXCEPT !.P[pid] = UpdateParticleProps((CHOOSE ru \in valid : TRUE).pp, p)]

\* TopologyManager::updateParticleProperties(pid): the rule of new_type_pp_
\* for the particle's type, if any.
UpdateLocal(S, pid) ==
  IF S.err # "none" \/ S.P[pid].type \notin DOMAIN LocalRules THEN S
  ELSE [S EXCEPT !.P[pid] = UpdateParticleProps(LocalRules[S.P[pid].type], S.P[pid])]


-----------------------------------------------------------------------------
(* Requests                                                                *)

Init ==
  /\ graph = InitGraph
  /\ props = InitProps
  /\ nbRequests = {}
  /\ bondRoots = {}
  /\ propRequests = {}
  /\ newEdges = {}
  /\ removedEdges = {}
  /\ isDirty = TRUE
  /\ fatal = "none"

\* The requests queued since the last exchange.
Pending ==
  {<<"nb", t[1]>> : t \in nbRequests} \cup {<<"bond", x>> : x \in bondRoots}
    \cup {<<"prop", x>> : x \in propRequests}
    \cup {<<"new", e>> : e \in newEdges} \cup {<<"rm", e>> : e \in removedEdges}

CanQueue == fatal = "none" /\ Cardinality(Pending) < MaxPending

\* invokeNeighbourPropertyChange(root) on rank r: the BFS runs now.
InvokeNeighbourPropertyChange(r, root) ==
  /\ CanQueue
  /\ root \in Local[r]
  /\ nbRequests' = nbRequests \cup GetNodesAtDistances(graph, root)
  /\ isDirty' = TRUE
  /\ UNCHANGED <<graph, props, bondRoots, propRequests, newEdges, removedEdges, fatal>>

\* Queued only if some bond rule is registered for the root's type.
InvokeNeighbourBondRemove(r, root) ==
  /\ CanQueue
  /\ root \in Local[r]
  /\ props[root].type \in BondTypes
  /\ bondRoots' = bondRoots \cup {root}
  /\ isDirty' = TRUE
  /\ UNCHANGED <<graph, props, nbRequests, propRequests, newEdges, removedEdges, fatal>>

InvokeParticlePropertiesChange(pid) ==
  /\ CanQueue
  /\ propRequests' = propRequests \cup {pid}
  /\ isDirty' = TRUE
  /\ UNCHANGED <<graph, props, nbRequests, bondRoots, newEdges, removedEdges, fatal>>

\* onTupleAdded: queued unless graph_ has the edge.
OnTupleAdded(e) ==
  /\ CanQueue
  /\ e \notin graph
  /\ newEdges' = newEdges \cup {e}
  /\ isDirty' = TRUE
  /\ UNCHANGED <<graph, props, nbRequests, bondRoots, propRequests, removedEdges, fatal>>

\* onTupleRemoved: queued only if graph_ has the edge.
OnTupleRemoved(e) ==
  /\ CanQueue
  /\ e \in graph
  /\ removedEdges' = removedEdges \cup {e}
  /\ isDirty' = TRUE
  /\ UNCHANGED <<graph, props, nbRequests, bondRoots, propRequests, newEdges, fatal>>

-----------------------------------------------------------------------------
(* exchangeData                                                            *)

LexLess(a, b) == a[1] < b[1] \/ (a[1] = b[1] /\ a[2] < b[2])

\* The end of exchangeData: every buffer is cleared and is_dirty_ reset.
ClearRequests ==
  /\ nbRequests' = {}
  /\ bondRoots' = {}
  /\ propRequests' = {}
  /\ newEdges' = {}
  /\ removedEdges' = {}
  /\ isDirty' = FALSE

\* The global OR of is_dirty_; removeNeighbourEdges for every gathered root
\* on every rank, into its removedEdges_; the merge of the triples into a
\* map keyed by (root, pid), which throws on a key with two distances; the
\* edge edits; the updates at distance in key order, then the local updates
\* in pid order; clearing the buffers.
ExchangeData ==
  LET removed == removedEdges \cup
                   UNION {RemoveNeighbourEdges(r, x) : r \in Ranks, x \in bondRoots}
      triples == nbRequests
      keys == {<<t[1], t[3]>> : t \in triples}
      DistOf(k) == CHOOSE d \in NbDistances : <<k[1], d, k[2]>> \in triples
      S1 == FoldLeft(LAMBDA S, k : UpdateAtDistance(S, k[2], DistOf(k)),
                     [P |-> props, err |-> "none"], SortedBy(keys, LexLess))
      S2 == FoldLeft(LAMBDA S, x : UpdateLocal(S, x),
                     S1, SortedBy(propRequests, <))
  IN
  /\ fatal = "none"
  /\ isDirty
  /\ IF Cardinality(keys) < Cardinality(triples)
     THEN /\ fatal' = "merge"
          /\ removedEdges' = removed
          /\ UNCHANGED <<graph, props, nbRequests, bondRoots, propRequests,
                         newEdges, isDirty>>
     ELSE /\ graph' = (graph \ removed) \cup newEdges
          /\ props' = S2.P
          /\ fatal' = S2.err
          /\ ClearRequests

Next ==
  \/ \E r \in Ranks, x \in Pids :
       InvokeNeighbourPropertyChange(r, x) \/ InvokeNeighbourBondRemove(r, x)
  \/ \E x \in Pids : InvokeParticlePropertiesChange(x)
  \/ \E e \in Edges : OnTupleAdded(e) \/ OnTupleRemoved(e)
  \/ ExchangeData

Spec == Init /\ [][Next]_vars

-----------------------------------------------------------------------------
(* Properties                                                              *)

TypeOK ==
  /\ graph \subseteq Edges \cup InitGraph
  /\ props \in [Pids -> [type : Types, state : 0..MaxState]]
  /\ nbRequests \subseteq Pids \X NbDistances \X Pids
  /\ bondRoots \subseteq Pids
  /\ propRequests \subseteq Pids
  /\ newEdges \cup removedEdges \subseteq Edges
  /\ isDirty \in BOOLEAN
  /\ fatal \in {"none", "merge", "multiple", "nocorrect"}

\* The hop distance from a to b in g by its definition: the least k with b
\* within k hops (-1 if b is not reachable).
RECURSIVE Ball(_, _, _)
Ball(g, S, k) == IF k = 0 THEN S ELSE Ball(g, S \cup UNION {Adj(g, n) : n \in S}, k - 1)

HopDistance(g, a, b) ==
  LET ks == {k \in 0..Cardinality(Pids) : b \in Ball(g, {a}, k)}
  IN  IF ks = {} THEN -1 ELSE Min(ks)

-----------------------------------------------------------------------------
(* The query hasNeighbourParticleProperty (Python                          *)
(* has_neighbour_particle_property), answered by each rank on its own.     *)

\* Its search loop: while the queue is not empty and the distance of the
\* node dequeued last is below depth, dequeue a node and give its unvisited
\* neighbours the next distance; those at depth are collected, those below
\* it queued.
RECURSIVE HasPropLoop(_, _, _, _, _, _)
HasPropLoop(g, depth, Q, dist, nd, found) ==
  IF Q = <<>> \/ nd >= depth THEN found
  ELSE LET cur == Head(Q)
           d == dist[cur] + 1
           fresh == SortedBy({n \in Adj(g, cur) : n \notin DOMAIN dist}, <)
       IN  HasPropLoop(g, depth,
                       Tail(Q) \o (IF d < depth THEN fresh ELSE <<>>),
                       dist @@ [n \in ToSet(fresh) |-> d], d,
                       found \cup (IF d = depth THEN ToSet(fresh) ELSE {}))

\* The answer of rank r: some particle found at depth is real there and of
\* the type of properties (its type_id_), and every such particle is
\* isValid; FALSE when none is found.
HasNeighbourParticleProperty(r, root, pp, depth) ==
  LET nb == HasPropLoop(graph, depth, <<root>>, (root :> 0), 0, {})
      M == {q \in nb \cap Real[r] : props[q].type = pp.typeId}
  IN  nb # {} /\ M # {} /\ \A q \in M : IsValid(pp, props[q])

\* getNodesAtDistances(root) returns, for every root and in every graph_
\* the tuple events and exchanges reach, exactly the particles whose hop
\* distance from the root (the radius of the first ball around the root
\* they lie in) is a registered distance, each with it: the queue, the visited map and the
\* new_distance < max_nb_distance_ cut of the loop lose no node and give
\* none a longer distance.  This is the graph_ of the request; exchangeData
\* applies the result after the edge edits of the same exchange (see
\* README, not modelled).
NodesAtDistancesAgree ==
  \A root \in Pids :
    LET B[k \in 0..MaxNbDistance] ==   \* the particles within k hops
          IF k = 0 THEN {root} ELSE B[k - 1] \cup UNION {Adj(graph, n) : n \in B[k - 1]}
    IN  GetNodesAtDistances(graph, root) =
          {t \in {root} \X NbDistances \X Pids :
             t[2] # 0 /\ t[3] \in B[t[2]] \ B[t[2] - 1]}

\* Besides the edges the pair lists removed, an exchange removes only edges
\* one hop apart at a level registered for the type of a requested root,
\* whose types form a registered pair (removeNeighbourEdges).
NeighbourBondRemovalSound ==
  [][ExchangeData =>
       \A e \in (graph \ graph') \ removedEdges :
         \E x \in bondRoots, b \in BondRules :
           /\ b.type = props[x].type
           /\ {HopDistance(graph, x, e[1]), HopDistance(graph, x, e[2])} = {b.level - 1, b.level}
           /\ {<<props[e[1]].type, props[e[2]].type>>,
               <<props[e[2]].type, props[e[1]].type>>} \cap {<<b.t1, b.t2>>} # {}]_vars

\* exchangeData never throws: no (root, pid) key meets two distances, and
\* with the registered rules every particle at a registered distance has
\* exactly one valid rule for its type, whatever the earlier updates did.
NoFatalError == fatal = "none"

\* The graphs graph_ can be: a subset of the initial and the listed bonds.
\* The pairs <<p, q>> such that q is reachable from p in graph g (p reaches
\* itself).
Reach(g) ==
  UNION {{<<p, q>> : q \in Ball(g, {p}, Cardinality(Pids))} : p \in Pids}

\* isPathExists(a, b) holds exactly when a walk of one or more bonds leads
\* from a to b (so isPathExists(a, a) exactly when a has a bond), in the
\* graph_ every rank holds after each tuple event and exchangeData.
PathExistsAgrees ==
  LET R == Reach(graph) IN
  \A a, b \in Pids :
    IsPathExists(graph, a, b) <=> \E n \in Adj(graph, a) : <<n, b>> \in R

\* connectedComponents lists every connected component of the current
\* graph_ exactly once, including the single particles without a bond.
ComponentsAgree ==
  LET cs == ConnectedComponents(graph)
      R == Reach(graph)
  IN  /\ ToSet(cs) = {{q \in Pids : <<p, q>> \in R} : p \in Pids}
      /\ Len(cs) = Cardinality(ToSet(cs))

\* has_neighbour_particle_property(root, properties, depth) holds exactly
\* when some particle at hop distance depth from root is real on the rank
\* and has the type of properties, and all such particles satisfy its
\* condition (what the name and the counter == 0 test say), in the
\* graph_ and the particle properties of every reachable state.
HasNeighbourPropertyAgrees ==
  \A r \in Ranks, root \in Pids, d \in 1..2, pp \in {ru.pp : ru \in NbRules} :
    LET M == {q \in Real[r] : HopDistance(graph, root, q) = d /\ props[q].type = pp.typeId}
    IN  HasNeighbourParticleProperty(r, root, pp, d) <=>
          (M # {} /\ \A q \in M : IsValid(pp, props[q]))

=============================================================================
