--------------------------- MODULE VelocityVerlet ---------------------------
(***************************************************************************)
(* VelocityVerlet::run (integrator/VelocityVerlet.cpp) on every MPI rank.  *)
(* Python calls run(nsteps) on all ranks; the program then goes through    *)
(* collective calls that every rank must reach in the same order:          *)
(* storage.decompose(), updateForces() (updateGhosts, the force loops,     *)
(* collectGhostForces), the all_reduce of integrate1 and the aftIntV slots *)
(* (TopologyManager::exchangeData).  Work between two collectives touches  *)
(* only the rank's own particles, so each collective, with the local work  *)
(* before it, is one step of all ranks.                                    *)
(*                                                                         *)
(* Distances are counted in units of the largest move a particle can make  *)
(* in one step.  integrate1 on a rank yields the largest move of its real  *)
(* particles (its sqrt(maxSqDist)).  drift[r] bounds how far a real        *)
(* particle of rank r can be from where it was at the last decompose, the  *)
(* position the cells and ghost layers were built for: each step adds at   *)
(* most the rank's largest move.  Values from Unsorted on stand for "not   *)
(* within reach", the state of particles Python placed before any resort.  *)
(***************************************************************************)
EXTENDS Integers, FiniteSets, FiniteSetsExt

CONSTANTS
  Ranks,       \* the MPI ranks
  SkinHalf,    \* 0.5 * system.getSkin(), in units of a step's largest move
  MoveFns,     \* the largest moves the ranks' integrate1 can measure in
               \* one step, as functions rank -> move
  StepCounts,  \* the nsteps Python may pass to run()
  MaxRuns      \* bound on the run() calls of a behaviour

ASSUME
  /\ SkinHalf \in Nat
  /\ MoveFns \subseteq [Ranks -> Nat] /\ MoveFns # {}
  /\ StepCounts \subseteq Nat /\ MaxRuns \in Nat

VARIABLES
  vvPc,        \* rank -> the point of run() the rank has reached
  resortFlag,  \* rank -> VelocityVerlet::resortFlag
  maxDist,     \* rank -> VelocityVerlet::maxDist
  drift,       \* rank -> bound on the distance of its particles from the last decompose
  nsteps,      \* the argument of the current run()
  stepI,       \* the loop counter i
  runs         \* run() calls made so far

vvVars == <<vvPc, resortFlag, maxDist, drift, nsteps, stepI, runs>>

Unsorted == SkinHalf + 1

MaxMove == Max({m[r] : m \in MoveFns, r \in Ranks})

\*  idle     between run() calls (Python)
\*  resort0  at the decompose before the first force computation
\*  recalc   at the updateForces before the loop
\*  loop     at the head of the for loop
\*  resort   at the decompose of a step
\*  forces   at the updateForces of a step
Labels == {"idle", "resort0", "recalc", "loop", "resort", "forces"}

AllAt(l) == \A r \in Ranks : vvPc[r] = l

-----------------------------------------------------------------------------
Init ==
  /\ vvPc = [r \in Ranks |-> "idle"]
  /\ resortFlag = [r \in Ranks |-> TRUE]
  /\ maxDist = [r \in Ranks |-> 0]
  /\ drift = [r \in Ranks |-> Unsorted]
  /\ nsteps = 0
  /\ stepI = 0
  /\ runs = 0

\* run(nsteps), up to the resort check before the first force computation:
\* only a rank whose resortFlag is set calls decompose.
Run(n) ==
  /\ AllAt("idle")
  /\ runs < MaxRuns
  /\ vvPc' = [r \in Ranks |-> IF resortFlag[r] THEN "resort0" ELSE "recalc"]
  /\ nsteps' = n
  /\ stepI' = 0
  /\ runs' = runs + 1
  /\ UNCHANGED <<resortFlag, maxDist, drift>>

\* storage.decompose(); maxDist = 0.0; resortFlag = false: every particle is
\* sorted into the cell of its current position.
Decomposed(l, next) ==
  /\ AllAt(l)
  /\ vvPc' = [r \in Ranks |-> next]
  /\ maxDist' = [r \in Ranks |-> 0]
  /\ resortFlag' = [r \in Ranks |-> FALSE]
  /\ drift' = [r \in Ranks |-> 0]
  /\ UNCHANGED <<nsteps, stepI, runs>>

\* The decompose at the start of run().
InitResort == Decomposed("resort0", "recalc")

\* recalc1, updateForces, recalc2: forces for the current positions.
Recalc ==
  /\ AllAt("recalc")
  /\ vvPc' = [r \in Ranks |-> "loop"]
  /\ UNCHANGED <<resortFlag, maxDist, drift, nsteps, stepI, runs>>

\* Fault model for RanksInStep: integrate1 returns the rank's own largest
\* move, without the all_reduce.
MoveLocal(m, r) == m[r]

\* mpi::all_reduce(..., maximum): every rank gets the largest move of all.
MoveReduced(m, r) == Max({m[s] : s \in Ranks})

\* Fault model for ForcesWithinSkin: maxDist = integrate1(), the move of
\* this step only.
AccumulatedLast(d, mv) == mv

\* maxDist += integrate1().
Accumulated(d, mv) == d + mv

\* One pass of the loop up to the resort check: befIntP, integrate1 (the
\* rank's particles move by at most m[r]), the all_reduce, aftIntP, and
\* "if (maxDist > skinHalf) resortFlag = true".  A rank whose flag is set
\* goes on to decompose, the others to updateForces.
Integrate1(m) ==
  LET md == [r \in Ranks |-> Accumulated(maxDist[r], MoveReduced(m, r))]
      fl == [r \in Ranks |-> resortFlag[r] \/ md[r] > SkinHalf]
  IN
  /\ AllAt("loop")
  /\ stepI < nsteps
  /\ maxDist' = md
  /\ resortFlag' = fl
  /\ drift' = [r \in Ranks |-> Min({drift[r] + m[r], Unsorted})]
  /\ vvPc' = [r \in Ranks |-> IF fl[r] THEN "resort" ELSE "forces"]
  /\ UNCHANGED <<nsteps, stepI, runs>>

\* The decompose of a step (nResorts and the timers are not modelled).
LoopResort == Decomposed("resort", "forces")

\* The ++i of the for loop.
StepNext(i) == i + 1

\* updateForces, befIntV, integrate2 (velocities and step++), aftIntV; the
\* aftIntV slots change no state of the integrator.
Forces ==
  /\ AllAt("forces")
  /\ vvPc' = [r \in Ranks |-> "loop"]
  /\ stepI' = StepNext(stepI)
  /\ UNCHANGED <<resortFlag, maxDist, drift, nsteps, runs>>

\* The loop ends after nsteps passes and run() returns to Python.
Finish ==
  /\ AllAt("loop")
  /\ stepI >= nsteps
  /\ vvPc' = [r \in Ranks |-> "idle"]
  /\ UNCHANGED <<resortFlag, maxDist, drift, nsteps, stepI, runs>>

\* Everything run() does once it was called.
Step ==
  \/ InitResort
  \/ Recalc
  \/ \E m \in MoveFns : Integrate1(m)
  \/ LoopResort
  \/ Forces
  \/ Finish

Next == (\E n \in StepCounts : Run(n)) \/ Step

\* Python is not bound to call run() again; a call that was made runs on.
Fairness == WF_vvVars(Step)

Spec == Init /\ [][Next]_vvVars /\ Fairness

-----------------------------------------------------------------------------
TypeOK ==
  /\ vvPc \in [Ranks -> Labels]
  /\ resortFlag \in [Ranks -> BOOLEAN]
  /\ maxDist \in [Ranks -> 0..(SkinHalf + MaxMove)]
  /\ drift \in [Ranks -> 0..Unsorted]
  /\ nsteps \in StepCounts \cup {0}
  /\ stepI \in 0..Max(StepCounts \cup {0})
  /\ runs \in 0..MaxRuns

\* Whenever a rank computes forces (updateForces before the loop or in a
\* step) no particle of it is farther than skin/2 from where it was sorted
\* at the last decompose, so the cells and ghost layers still hold every
\* pair within the cutoff: maxDist adds the largest move of every step
\* since the last resort, it survives from one run() to the next, and the
\* first run() sorts the particles Python placed.
ForcesWithinSkin ==
  \A r \in Ranks : vvPc[r] \in {"recalc", "forces"} => drift[r] <= SkinHalf

\* All ranks are always at the same point of run(): they decide alike
\* whether to call decompose, although each measured only its own
\* particles, so no rank waits in decompose's exchange while another is in
\* updateGhosts.
RanksInStep == \A r, s \in Ranks : vvPc[r] = vvPc[s]

====
