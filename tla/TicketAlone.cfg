SPECIFICATION Spec
CONSTANTS
  ana = ana
  beto = beto
  night = night
  Callers <- OneAgent
  Scans <- None
  Operations <- Everything
  Window <- Windows
  MaxCalls = 6
  Horizon = 1
INVARIANTS TypeOK ClockStopsOnlyWaiting NoSleepingAnswer
PROPERTIES OnlyLegalMoves
