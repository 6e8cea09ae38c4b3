------------------------- MODULE DihedralGeneration -------------------------
(***************************************************************************)
(* The derived-tuple part of TopologyManager::exchangeData                 *)
(* (integrator/TopologyManager.cpp): removeAnglesDihedrals for the agreed  *)
(* removed edges, the graph update, and generateNewAnglesDihedrals for the *)
(* agreed new edges, which enumerates the angles and dihedrals through     *)
(* each new edge (generateAnglesDihedrals) and registers them with         *)
(* defineAngles / defineDihedrals in one FixedTripleList and one           *)
(* FixedQuadrupleList (registerTriple / registerQuadruple put a list under *)
(* both type orders, so with one list for every type the lookup always    *)
(* succeeds in the forward order).                                         *)
(*                                                                         *)
(* The graph is replicated, so every rank computes the same sets; each     *)
(* rank then adds what its own particles own.  Particles stay where they   *)
(* are (TupleLists covers migration) and all are within ghost reach.       *)
(***************************************************************************)
EXTENDS Integers, FiniteSets, Sequences, Bags, SequencesExt

CONSTANTS
  Ranks,       \* the MPI ranks
  Pids,        \* particle ids
  MaxEdits     \* bound on the edges removed plus added in one exchange

Pairs == {e \in Pids \X Pids : e[1] < e[2]}

VARIABLES
  loc,         \* pid -> rank where it is real
  graph,       \* graph_: the replicated bond graph, as canonical pairs
  triples,     \* rank -> bag of angles in the FixedTripleList multimap
  quads,       \* rank -> bag of dihedrals in the FixedQuadrupleList multimap
  lastNew,     \* global_new_edge of the last exchange
  lastQuads    \* the quadruplets set generateNewAnglesDihedrals built last

vars == <<loc, graph, triples, quads, lastNew, lastQuads>>

Nb(G, p) == {q \in Pids : <<p, q>> \in G \/ <<q, p>> \in G}

\* Fault model for DerivedTuplesSound: the "reverse order" lookup of iadd
\* compares with the tuple in its own order.
RevTSame(t) == t

\* The tuple in reverse order, as iadd looks it up.
RevT(t) == [i \in 1..Len(t) |-> t[Len(t) + 1 - i]]

LexLess(a, b) ==
  \E i \in 1..Len(a) : a[i] < b[i] /\ \A j \in 1..(i - 1) : a[j] = b[j]

\* The elements of a std::set in its order (selection by least element).
RECURSIVE InOrder(_)
InOrder(S) ==
  IF S = {} THEN <<>>
  ELSE LET m == CHOOSE x \in S : \A y \in S \ {x} : LexLess(x, y)
       IN  <<m>> \o InOrder(S \ {m})

\* Iteration over a std::set of tuples in its order, concatenating the
\* sequences f gives; a set of ids is ordered as the one-element tuples of
\* its ids.
ForEachTuple(S, f) ==
  FoldLeft(LAMBDA acc, x : acc \o f[x], <<>>, InOrder(S))

ForEach(S, f) ==
  FoldLeft(LAMBDA acc, t : acc \o f[t[1]], <<>>, InOrder({<<x>> : x \in S}))

-----------------------------------------------------------------------------
(* generateAnglesDihedrals(pid1, pid2): candidates <<tuple, check>>, the   *)
(* tuple being inserted unless check is already in the set.                *)

\* Fault model for TypeOK: the neighbour loop does not skip pid1 and pid2.
PartnersNoSkip(G, p, e) == Nb(G, p)

\* if (*it == pid1 || *it == pid2) continue;
Partners(G, p, e) == Nb(G, p) \ {e[1], e[2]}

\* Fault model for AnglesArePaths: the "pid2 pid1 <>" case is missing.
TripleCandsNb2Only(G, e) ==
  ForEach(Partners(G, e[2], e), [it \in Pids |-> << << <<e[1], e[2], it>>, <<it, e[2], e[1]>> >> >>])

\* The angles through e: "pid2 pid1 <>" then "pid1 pid2 <>".  The first case
\* checks <<it, pid2, pid1>>, which is not the reverse of what it inserts.
TripleCands(G, e) ==
  ForEach(Partners(G, e[1], e), [it \in Pids |-> << << <<e[2], e[1], it>>, <<it, e[2], e[1]>> >> >>])
  \o
  ForEach(Partners(G, e[2], e), [it \in Pids |-> << << <<e[1], e[2], it>>, <<it, e[2], e[1]>> >> >>])

\* The dihedrals through e: e first ("pid2 pid1 <> <>" and "pid1 pid2 <> <>"),
\* then e in the middle ("<> pid1 pid2 <>"); each checks the reverse.
QuadCandsOf(G, e) ==
  LET p1 == e[1]  p2 == e[2]
      ends(a, b) ==
        ForEach(Partners(G, a, e), [it \in Pids |->
          ForEach(Nb(G, it) \ {it, p1, p2}, [itt \in Pids |->
            << << <<b, a, it, itt>>, <<itt, it, a, b>> >> >>])])
  IN ends(p1, p2) \o ends(p2, p1) \o
     ForEach(Partners(G, p1, e), [it1 \in Pids |->
       ForEach(Nb(G, p2) \ {p1, p2, it1}, [it2 \in Pids |->
         << << <<it1, p1, p2, it2>>, <<it2, p2, p1, it1>> >> >>])])

\* Fault model for GeneratedQuadsOnce: insertion without the count check.
InsertUnchecked(S, c) == S \cup {c[1]}

\* if (set.count(check) == 0) set.insert(tuple);
Insert(S, c) == IF c[2] \in S THEN S ELSE S \cup {c[1]}

\* generateNewAnglesDihedrals: the loop over global_new_edge in set order.
NewTriplets(G, E) ==
  FoldLeft(Insert, {}, ForEachTuple(E, [e \in E |-> TripleCands(G, e)]))

NewQuadruplets(G, E) ==
  FoldLeft(Insert, {}, ForEachTuple(E, [e \in E |-> QuadCandsOf(G, e)]))

-----------------------------------------------------------------------------
(* Registration on the ranks                                               *)

\* FixedTripleList::iadd (the spec's contract) on rank r: the rank where
\* the middle particle is real adds the angle unless it or its reverse is
\* already under that key.
TripleIAdd(B, r, t) ==
  IF loc[t[2]] # r \/ t \in DOMAIN B \/ RevT(t) \in DOMAIN B THEN B
  ELSE B (+) SetToBag({t})

\* defineAngles on rank r: p2 is looked up as a real particle.
DefineAngles(B, r, S) ==
  FoldLeft(LAMBDA b, t : TripleIAdd(b, r, t), B, InOrder(S))

\* FixedQuadrupleList::iadd on rank r: only where pid2 is real, and not if
\* the quadruple is under key pid2 or its reverse under key pid3 here.
QuadIAdd(B, r, q) ==
  IF loc[q[2]] # r \/ q \in DOMAIN B \/ RevT(q) \in DOMAIN B THEN B
  ELSE B (+) SetToBag({q})

\* defineDihedrals on rank r: a quadruplet whose p1 is a ghost here is
\* skipped; otherwise it goes to iadd.
DefineDihedral(B, r, q) == IF loc[q[1]] # r THEN B ELSE QuadIAdd(B, r, q)

DefineDihedrals(B, r, S) ==
  FoldLeft(LAMBDA b, q : DefineDihedral(b, r, q), B, InOrder(S))

\* removeByBond: the tuple contains the bond between two neighbouring
\* members, in either order.
HasBond(t, b) == \E i \in 1..(Len(t) - 1) : {t[i], t[i + 1]} = {b[1], b[2]}

\* removeAnglesDihedrals: removeByBond of every list for every removed edge.
DropBonds(B, R) == [x \in {y \in DOMAIN B : ~\E b \in R : HasBond(y, b)} |-> B[x]]

-----------------------------------------------------------------------------
Init ==
  /\ loc \in [Pids -> Ranks]
  /\ graph = {}
  /\ triples = [r \in Ranks |-> EmptyBag]
  /\ quads = [r \in Ranks |-> EmptyBag]
  /\ lastNew = {}
  /\ lastQuads = {}

\* One exchangeData with the agreed global_remove_edge Rm and
\* global_new_edge Add: removeAnglesDihedrals(Rm), deleteEdge and newEdge
\* on graph_, then generateNewAnglesDihedrals(Add) over the new graph.
Exchange(Rm, Add) ==
  LET G == (graph \ Rm) \cup Add
      nt == NewTriplets(G, Add)
      nq == NewQuadruplets(G, Add)
  IN
  /\ graph' = G
  /\ triples' = [r \in Ranks |-> DefineAngles(DropBonds(triples[r], Rm), r, nt)]
  /\ quads' = [r \in Ranks |-> DefineDihedrals(DropBonds(quads[r], Rm), r, nq)]
  /\ lastNew' = Add
  /\ lastQuads' = nq
  /\ UNCHANGED loc

Next ==
  \E Rm \in SUBSET graph :
    \E Add \in SUBSET ((Pairs \ graph) \cup Rm) :
      /\ Cardinality(Rm) + Cardinality(Add) \in 1..MaxEdits
      /\ Exchange(Rm, Add)

Spec == Init /\ [][Next]_vars

-----------------------------------------------------------------------------
Injective(t) == \A i, j \in DOMAIN t : i # j => t[i] # t[j]

\* The simple paths of n particles in G, each in both directions.
Paths(G, n) ==
  {t \in [1..n -> Pids] : Injective(t) /\ \A i \in 1..(n - 1) : t[i + 1] \in Nb(G, t[i])}

\* How often the unordered tuple t is stored, over all ranks.
Stored(S, t) ==
  MapThenSumSet(LAMBDA r : CopiesIn(t, S[r]) + CopiesIn(RevT(t), S[r]), Ranks)

TypeOK ==
  /\ loc \in [Pids -> Ranks]
  /\ graph \subseteq Pairs
  /\ \A r \in Ranks : /\ IsABag(triples[r]) /\ IsABag(quads[r])
                     /\ \A t \in DOMAIN triples[r] : Len(t) = 3 /\ Injective(t)
                     /\ \A q \in DOMAIN quads[r] : Len(q) = 4 /\ Injective(q)
  /\ lastNew \subseteq Pairs

\* Every derived tuple is held at most once over all ranks, in either
\* order, and only while it is a path of the bond graph: iadd's duplicate
\* checks and removeByBond keep the lists free of doubles and of tuples
\* whose bond was removed, through every sequence of exchanges.
TuplesSound(S, n) ==
  /\ \A t \in Paths(graph, n) : Stored(S, t) <= 1
  /\ \A r \in Ranks : DOMAIN S[r] \subseteq Paths(graph, n)

DerivedTuplesSound == TuplesSound(triples, 3) /\ TuplesSound(quads, 4)

\* The quadruplets generateNewAnglesDihedrals builds from global_new_edge are
\* exactly the paths of four particles through a new edge, each in one of
\* its two orders, although every new edge is enumerated three ways and a
\* path with two new edges is met once per edge.
GeneratedQuadsOnce ==
  LET through == {q \in Paths(graph, 4) :
                    \E i \in 1..3 : <<q[i], q[i + 1]>> \in lastNew \/ <<q[i + 1], q[i]>> \in lastNew}
  IN  /\ lastQuads \subseteq through
      /\ \A q \in through : Cardinality({q, RevT(q)} \cap lastQuads) = 1

\* The spec (5, "Regenerate") says the angles implied by the new edges are
\* generated and registered: every path of three particles of the bond
\* graph is in the angle list on some rank.
AnglesComplete == \A t \in Paths(graph, 3) : Stored(triples, t) >= 1

\* Likewise for dihedrals, registered on the rank where the canonical
\* (second) member is real: every path of four particles of the bond graph
\* is in the dihedral list on some rank.
DihedralsComplete == \A q \in Paths(graph, 4) : Stored(quads, q) >= 1

====
