CONSTANTS
  r1 = r1
  r2 = r2
  Ranks <- MCRanks
  Pids <- MCPids
  ResId <- MCResId
  Owner <- MCOwner
  InitBonds <- MCInitBonds
  MaxMolId <- MCMaxMolId
SPECIFICATION Spec
PROPERTY
  ExchangeKeepsStoredBonds
