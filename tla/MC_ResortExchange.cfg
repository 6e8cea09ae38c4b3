CONSTANTS
  Pids <- MCPids
  NaNPids <- MCNaNPids
  Grids <- MCGrids
  InitPos <- MCInitPos
  InitNode <- MCInitNode
SPECIFICATION Spec
CHECK_DEADLOCK FALSE
INVARIANTS
  TypeOK
  NoDeadlock
  ParticlesConserved
  BufferPairing
  ResortPlacesParticles
PROPERTIES
  ResortTerminates
