CONSTANTS
  r1 = r1
  r2 = r2
  r3 = r3
  Ranks <- MCRanks
  Pids <- MCPids
  QuadCands <- MCQuadCands
  PairCands <- MCPairCands
  BondCands <- MCBondCands
  GroupCands <- MCGroupCands
  MaxPairs = 2
  SkinHalf = 1
  MoveFns <- MCMoveFns
  StepCounts = {1}
  MaxRuns = 2
SPECIFICATION Spec
SYMMETRY MCSymmetry
INVARIANTS
  TypeOK
  QuadsConserved
  
  ForceListCoversStore
  GroupActiveIsLocal
  ForcesWithinSkin
  RanksInStep
