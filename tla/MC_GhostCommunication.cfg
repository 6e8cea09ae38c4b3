CONSTANTS
  GridSize <- MCGrid
  SizesModes = {TRUE, FALSE}
  None = None
SPECIFICATION Spec
CHECK_DEADLOCK FALSE
INVARIANTS
  TypeOK
  GhostsMirrorReals
  NoCrossedMessages
  ForcesCollected
PROPERTIES
  GhostCommTerminates
