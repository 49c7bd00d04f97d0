SPECIFICATION Spec
CONSTANTS
  ana = ana
  beto = beto
  night = night
  Callers <- TwoHands
  Scans <- None
  Operations <- Moves
  Window <- Windows
  MaxCalls = 6
  Horizon = 1
INVARIANTS StatusIsTold StatusHasItsFacts DueKeepsPauses
