SPECIFICATION Spec
CONSTANTS
  MaxTurns = 2
  MaxCalls = 2
  MaxBatch = 2
  KeepRecent = 2
  ContextMayOverflow = TRUE
  Interrupts = TRUE
  MaxRestarts = 1
  MaxFaults = 0
  Landings = {"none"}
INVARIANTS SameUpToBatchOrder CallsKeepResults
CHECK_DEADLOCK FALSE
