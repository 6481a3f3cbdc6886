SPECIFICATION Spec
CONSTANTS
  Inputs = {u1}
  Callers = {c1}
  Batches <- GatedBatches
  MaxToolCalls = 1
  MaxParallel = 2
  ContextMayOverflow = FALSE
  MaxFaults = 0
  NoTurn = NoTurn
INVARIANTS
  StoppedTurnNeverFinishes
CHECK_DEADLOCK FALSE
