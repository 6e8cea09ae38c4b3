---------------------------- MODULE Integration ----------------------------
(***************************************************************************)
(* The integrator driving the tuple stores: VelocityVerlet::run is the     *)
(* only caller of storage.decompose (whose beforeSendParticles,            *)
(* afterRecvParticles and onParticlesChanged signals move the tuples of    *)
(* TupleLists), and FixedQuadrupleList::removeByBond is only reached from  *)
(* TopologyManager::exchangeData, a slot of aftIntV.  Python adds tuples   *)
(* and group members between run() calls, never during one.                *)
(***************************************************************************)
EXTENDS Integers

CONSTANTS
  Ranks, Pids, QuadCands, PairCands, BondCands, GroupCands, MaxPairs,
  SkinHalf, MoveFns, StepCounts, MaxRuns

VARIABLES
  loc, phase, quads, quadList, pairs, pairList, group, active, nullPtr,
  added, addedPairs,
  vvPc, resortFlag, maxDist, drift, nsteps, stepI, runs

TL == INSTANCE TupleLists
VV == INSTANCE VelocityVerlet

tlVars == <<loc, phase, quads, quadList, pairs, pairList, group, active, nullPtr,
            added, addedPairs>>
vvVars == <<vvPc, resortFlag, maxDist, drift, nsteps, stepI, runs>>
vars == <<tlVars, vvVars>>

-----------------------------------------------------------------------------
Init == TL!Init /\ VV!Init

\* add of FixedQuadrupleList, FixedPairListAdress or ParticleGroup, called
\* from Python while no run() is in progress.
PythonCall ==
  /\ VV!AllAt("idle")
  /\ \/ \E q \in QuadCands : TL!AddQuadruple(q)
     \/ \E pr \in PairCands : TL!AddPair(pr)
     \/ \E p \in GroupCands : TL!AddToGroup(p)
  /\ UNCHANGED vvVars

RunCall(n) == VV!Run(n) /\ UNCHANGED tlVars

\* storage.decompose(), called by run() at either resort point.
StartDecompose ==
  /\ VV!AllAt("resort0") \/ VV!AllAt("resort")
  /\ TL!StartResort
  /\ UNCHANGED vvVars

MigrateStep == \E p \in Pids, s \in Ranks : TL!Migrate(p, s) /\ UNCHANGED vvVars

\* decompose ends with onParticlesChanged, and run() resets maxDist and
\* resortFlag.
EndDecompose == TL!Rebuild /\ (VV!InitResort \/ VV!LoopResort)

\* A step's updateForces ... aftIntV, where exchangeData may remove the
\* dihedrals of a bond removed since the last exchange.
StepForces ==
  /\ VV!Forces
  /\ \/ UNCHANGED tlVars
     \/ \E b \in BondCands : TL!RemoveByBond(b)

Integrator ==
  \/ StartDecompose
  \/ EndDecompose
  \/ VV!Recalc /\ UNCHANGED tlVars
  \/ \E m \in MoveFns : VV!Integrate1(m) /\ UNCHANGED tlVars
  \/ StepForces
  \/ VV!Finish /\ UNCHANGED tlVars

Next ==
  \/ PythonCall
  \/ \E n \in StepCounts : RunCall(n)
  \/ MigrateStep
  \/ Integrator

\* run() makes progress once called; Python need not call anything, and a
\* single hop need not happen (decompose ends whatever hops were made).
Spec == Init /\ [][Next]_vars /\ WF_vars(Integrator)

-----------------------------------------------------------------------------
TypeOK == TL!TypeOK /\ VV!TypeOK

\* TupleLists' properties (see there) over the integrator's resorts and
\* exchanges: no tuple is lost or duplicated by migration,
QuadsConserved == TL!QuadsConserved

ForceListCoversStore == TL!ForceListCoversStore

\* and ParticleGroup::active holds exactly the members real on the rank.
GroupActiveIsLocal == TL!GroupActiveIsLocal

\* The spec's idempotent add (4.3), which FixedQuadrupleList::add breaks.
QuadAddIdempotent == TL!QuadAddIdempotent

\* VelocityVerlet's properties (see there): forces are only computed with
\* every particle within skin/2 of where decompose sorted it,
ForcesWithinSkin == VV!ForcesWithinSkin

\* and all ranks take the same branch at every collective call.
RanksInStep == VV!RanksInStep

====
