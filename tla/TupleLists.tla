----------------------------- MODULE TupleLists -----------------------------
(***************************************************************************)
(* The per-rank tuple stores that follow particles between ranks, all      *)
(* connected to the same storage signals:                                  *)
(*   - FixedQuadrupleList (FixedQuadrupleList.cpp): globalQuadruples, a    *)
(*     multimap keyed by the second member, and the force-loop list;       *)
(*   - FixedPairListAdress (FixedPairListAdress.cpp): globalPairs keyed by *)
(*     the lower id, and its force-loop list;                              *)
(*   - ParticleGroup (ParticleGroup.cpp): the group's pids and the map     *)
(*     `active` of those that are real here.                               *)
(* add is called from Python, removeByBond from TopologyManager; remove   *)
(* has no caller and is left out.  Integration composes these actions with *)
(* the integrator that calls them.                                         *)
(* A resort moves particles between ranks one hop at a time, each hop     *)
(* firing beforeSendParticles on the sender and afterRecvParticles on the *)
(* receiver, and ends with onParticlesChanged on every rank.              *)
(*                                                                         *)
(* Every particle is within ghost reach of every rank (two ranks that are  *)
(* each other's neighbour), so lookupLocalParticle always succeeds and the *)
(* "does not exist here" errors are not reachable; lookupRealParticle is   *)
(* loc[p] = r.  A multimap is a bag of tuples, so a duplicate shows.       *)
(***************************************************************************)
EXTENDS Integers, FiniteSets, Bags, FiniteSetsExt

CONSTANTS
  Ranks,       \* the MPI ranks
  Pids,        \* particle ids
  QuadCands,   \* quadruples Python may add or remove, <<pid1, pid2, pid3, pid4>>
  PairCands,   \* pairs Python may add to the AdResS list, <<pid1, pid2>>
  BondCands,   \* bonds removeByBond may be called with
  GroupCands,  \* pids Python may add to the group
  MaxPairs     \* bound on the AdResS pairs added in a behaviour

VARIABLES
  loc,         \* pid -> the rank where it is real
  phase,       \* "idle" (Python calls) or "resort" (inside decompose)
  quads,       \* rank -> bag of quadruples in globalQuadruples
  quadList,    \* rank -> bag of quadruples in the force-loop list
  pairs,       \* rank -> bag of pairs in globalPairs (AdResS)
  pairList,    \* rank -> bag of pairs in the AdResS force-loop list
  group,       \* ParticleGroup::particles (the same on every rank)
  active,      \* rank -> pids with an entry in ParticleGroup::active
  nullPtr,     \* rank -> pids whose active entry is still NULL
  added,       \* the quadruples add accepted and removeByBond did not drop
  addedPairs   \* the pairs the add calls accepted

vars == <<loc, phase, quads, quadList, pairs, pairList, group, active, nullPtr,
          added, addedPairs>>

RealOn(r) == {p \in Pids : loc[p] = r}

Rev(q) == <<q[4], q[3], q[2], q[1]>>

Sorted(pr) == IF pr[1] > pr[2] THEN <<pr[2], pr[1]>> ELSE pr

One(x) == SetToBag({x})

\* The bag B without the elements in the set S.
Without(B, S) == [x \in DOMAIN B \ S |-> B[x]]

-----------------------------------------------------------------------------
(* FixedQuadrupleList                                                      *)

\* add: the rank where pid2 is real looks for the quadruple under key pid2
\* and for its reverse under key pid3, both in its own multimap.
Found(r, q) == q \in DOMAIN quads[r] \/ Rev(q) \in DOMAIN quads[r]

\* Fault model for ForceListCoversStore: the quadruple goes into the
\* multimap only.
QuadAddGlobalOnly(q) ==
  /\ \E r \in Ranks :
       /\ loc[q[2]] = r
       /\ ~Found(r, q)
       /\ quads' = [quads EXCEPT ![r] = @ (+) One(q)]
       /\ UNCHANGED quadList
  /\ added' = added (+) One(q)

\* add(pid1, pid2, pid3, pid4), run on every rank.  Only the rank where
\* pid2 is real may add; it adds to the force-loop list and the multimap.
QuadAdd(q) ==
  /\ \E r \in Ranks :
       /\ loc[q[2]] = r
       /\ ~Found(r, q)
       /\ quads' = [quads EXCEPT ![r] = @ (+) One(q)]
       /\ quadList' = [quadList EXCEPT ![r] = @ (+) One(q)]
  /\ added' = added (+) One(q)

\* removeByBond(pid1, pid2): the three pairs of neighbouring members.
HasBond(q, b) ==
  \E i \in 1..3 : {q[i], q[i + 1]} = {b[1], b[2]}

\* updateParticlesStorage: the force-loop list is cleared and every entry of
\* globalQuadruples added again; p2 is looked up as a real particle and
\* p1, p3, p4 as local ones, which succeeds while the quadruples follow
\* their key (TuplesFollowKey) and every particle is within ghost reach.
QuadListRebuilt(Q, r) == Q[r]

\* TopologyManager::removeAnglesDihedrals for one removed edge:
\* removeByBond on every rank, then updateParticlesStorage rebuilds the
\* force-loop list from the multimap.
QuadRemoveByBond(b) ==
  LET gone(r) == {q \in DOMAIN quads[r] : HasBond(q, b)} IN
  /\ quads' = [r \in Ranks |-> Without(quads[r], gone(r))]
  /\ quadList' = [r \in Ranks |-> QuadListRebuilt(quads', r)]
  /\ added' = Without(added, {q \in DOMAIN added : HasBond(q, b)})

Keyed(B, p) == [q \in {x \in DOMAIN B : x[2] = p} |-> B[q]]

\* Fault model for QuadsConserved: the equal range is sent but not erased.
LeftAfterSendKept(B, p) == B

\* beforeSendParticles: globalQuadruples.erase(equalRange).
LeftAfterSend(B, p) == B (-) Keyed(B, p)

-----------------------------------------------------------------------------
(* FixedPairListAdress                                                     *)

\* add(pid1, pid2): swap so that pid1 < pid2; the rank where pid1 is real
\* adds the pair to its force-loop list and inserts it into globalPairs,
\* whether or not the pair is there already.
PairAdd(pr) ==
  LET sp == Sorted(pr) IN
  \E r \in Ranks :
    /\ loc[sp[1]] = r
    /\ BagCardinality(addedPairs) < MaxPairs
    /\ pairs' = [pairs EXCEPT ![r] = @ (+) One(sp)]
    /\ pairList' = [pairList EXCEPT ![r] = @ (+) One(sp)]
    /\ addedPairs' = addedPairs (+) One(sp)

\* onParticlesChanged: the force-loop list is cleared and every pair of
\* globalPairs added again; lookupAdrATParticle finds both ends, every
\* particle being within ghost reach, so the collective error check never
\* raises.
PairListRebuilt(r) == pairs[r]

\* beforeSendATParticles: the pairs keyed by a leaving particle.
PairsKeyed(B, p) == [x \in {y \in DOMAIN B : y[1] = p} |-> B[x]]

-----------------------------------------------------------------------------
(* ParticleGroup                                                           *)

\* add(pid): into particles on every rank, into active where it is real.
GroupAdd(p) ==
  /\ group' = group \cup {p}
  /\ active' = [r \in Ranks |-> IF loc[p] = r THEN active[r] \cup {p} ELSE active[r]]
  /\ UNCHANGED nullPtr

\* Fault model for GroupActiveIsLocal: afterRecvParticles ignores the
\* particles of the group.
ArrivedInGroupNone(p) == {}

\* Fault model for TypeOK: the particles.find check is dropped.
ArrivedAll(p) == {p}

\* afterRecvParticles: a group member that arrives gets a NULL entry.
ArrivedInGroup(p) == {p} \cap group

\* onParticlesChanged: every active pid is looked up again and the ones
\* that are not real here are erased.
GroupRebuilt(r) == active[r] \cap RealOn(r)

-----------------------------------------------------------------------------
Init ==
  /\ loc \in [Pids -> Ranks]
  /\ phase = "idle"
  /\ quads = [r \in Ranks |-> EmptyBag]
  /\ quadList = [r \in Ranks |-> EmptyBag]
  /\ pairs = [r \in Ranks |-> EmptyBag]
  /\ pairList = [r \in Ranks |-> EmptyBag]
  /\ group = {}
  /\ active = [r \in Ranks |-> {}]
  /\ nullPtr = [r \in Ranks |-> {}]
  /\ added = EmptyBag
  /\ addedPairs = EmptyBag

AddQuadruple(q) ==
  /\ phase = "idle"
  /\ QuadAdd(q)
  /\ UNCHANGED <<loc, phase, pairs, pairList, group, active, nullPtr, addedPairs>>

RemoveByBond(b) ==
  /\ phase = "idle"
  /\ QuadRemoveByBond(b)
  /\ UNCHANGED <<loc, phase, pairs, pairList, group, active, nullPtr, addedPairs>>

AddPair(pr) ==
  /\ phase = "idle"
  /\ PairAdd(pr)
  /\ UNCHANGED <<loc, phase, quads, quadList, group, active, nullPtr, added>>

AddToGroup(p) ==
  /\ phase = "idle"
  /\ GroupAdd(p)
  /\ UNCHANGED <<loc, phase, quads, quadList, pairs, pairList, added, addedPairs>>

\* Storage::decompose starts the resort.
StartResort ==
  /\ phase = "idle"
  /\ phase' = "resort"
  /\ UNCHANGED <<loc, quads, quadList, pairs, pairList, group, active, nullPtr,
                 added, addedPairs>>

\* One hop of particle p from its rank to rank s: every connected
\* beforeSendParticles on the sender packs into the message what it erases,
\* every afterRecvParticles on the receiver unpacks it.
Migrate(p, s) ==
  LET r == loc[p] IN
  /\ phase = "resort"
  /\ s # r
  /\ loc' = [loc EXCEPT ![p] = s]
  /\ quads' = [quads EXCEPT ![r] = LeftAfterSend(quads[r], p),
                            ![s] = @ (+) Keyed(quads[r], p)]
  /\ pairs' = [pairs EXCEPT ![r] = @ (-) PairsKeyed(pairs[r], p),
                            ![s] = @ (+) PairsKeyed(pairs[r], p)]
  /\ active' = [active EXCEPT ![r] = @ \ {p}, ![s] = @ \cup ArrivedInGroup(p)]
  /\ nullPtr' = [nullPtr EXCEPT ![r] = @ \ {p}, ![s] = @ \cup ArrivedInGroup(p)]
  /\ UNCHANGED <<phase, quadList, pairList, group, added, addedPairs>>

\* onParticlesChanged on every rank: both force-loop lists are rebuilt
\* from their multimaps; the group looks every active pid up again and
\* drops those that are not real here.
Rebuild ==
  /\ phase = "resort"
  /\ phase' = "idle"
  /\ quadList' = quads
  /\ pairList' = [r \in Ranks |-> PairListRebuilt(r)]
  /\ active' = [r \in Ranks |-> GroupRebuilt(r)]
  /\ nullPtr' = [r \in Ranks |-> {}]
  /\ UNCHANGED <<loc, quads, pairs, group, added, addedPairs>>

-----------------------------------------------------------------------------
TypeOK ==
  /\ loc \in [Pids -> Ranks]
  /\ phase \in {"idle", "resort"}
  /\ \A r \in Ranks : /\ IsABag(quads[r]) /\ BagToSet(quads[r]) \subseteq QuadCands
                     /\ IsABag(quadList[r]) /\ IsABag(pairs[r]) /\ IsABag(pairList[r])
  /\ group \subseteq GroupCands
  /\ active \in [Ranks -> SUBSET group]
  /\ nullPtr \in [Ranks -> SUBSET Pids]

Copies(B, x) == CopiesIn(x, B)

\* Migration never drops or duplicates a tuple: however often particles hop
\* during a resort, each quadruple (and AdResS pair) the add calls accepted
\* and no remove undid is held by exactly as many multimap entries, over
\* all ranks, as it was accepted (beforeSendParticles erases exactly what it
\* packs, afterRecvParticles inserts exactly what it reads).
QuadsConserved ==
  /\ \A q \in QuadCands :
       Copies(added, q) = MapThenSumSet(LAMBDA r : Copies(quads[r], q), Ranks)
  /\ \A pr \in {Sorted(x) : x \in PairCands} :
       Copies(addedPairs, pr) = MapThenSumSet(LAMBDA r : Copies(pairs[r], pr), Ranks)

ForceListCoversStore ==
  phase = "idle" => \A r \in Ranks : quads[r] \sqsubseteq quadList[r]

\* Between resorts ParticleGroup::active of every rank holds exactly the
\* group members real there, none with a NULL pointer, although
\* beforeSendParticles, afterRecvParticles and onParticlesChanged each see
\* only part of the move.
GroupActiveIsLocal ==
  phase = "idle" =>
    \A r \in Ranks : active[r] = group \cap RealOn(r) /\ nullPtr[r] = {}

\* The spec (4.3) asks add to be idempotent for the unordered tuple: a
\* quadruple and its reverse are never both stored.
QuadAddIdempotent ==
  \A q \in QuadCands :
    \A r1, r2 \in Ranks : ~(q \in DOMAIN quads[r1] /\ Rev(q) \in DOMAIN quads[r2])

====
