SPECIFICATION FairSpec
CONSTANTS
  ana = ana
  beto = beto
  night = night
  Callers <- OneAgent
  Scans <- OneScan
  Operations <- MovesTriage
  Window <- Windows
  MaxCalls = 5
  Horizon = 3
PROPERTIES OverdueIsFlagged
