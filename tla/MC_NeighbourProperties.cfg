CONSTANTS
  r1 = r1
  r2 = r2
  Ranks <- MCRanks
  Pids <- MCPids
  Local <- MCLocal
  Real <- MCReal
  InitGraph <- MCInitGraph
  InitProps <- MCInitProps
  Edges <- MCEdges
  NbRules <- MCNbRules
  BondRules <- MCBondRules
  LocalRules <- MCLocalRules
  Types = {0, 1}
  MaxState = 1
  MaxPending = 2
SPECIFICATION Spec
INVARIANTS
  TypeOK
  NodesAtDistancesAgree
  NoFatalError
  PathExistsAgrees
  ComponentsAgree
PROPERTIES
  NeighbourBondRemovalSound
