CONSTANTS
  r1 = r1
  r2 = r2
  Ranks <- MCRanks
  Pids <- MCPids
  MaxEdits = 2
SPECIFICATION Spec
SYMMETRY MCSymmetry
INVARIANT
  DihedralsComplete
