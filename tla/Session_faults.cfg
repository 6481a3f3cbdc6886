SPECIFICATION FairSpec
CONSTANTS
  Inputs = {u1}
  Callers = {c1, c2}
  Batches <- PairBatches
  MaxToolCalls = 2
  MaxParallel = 2
  ContextMayOverflow = FALSE
  MaxFaults = 1
  NoTurn = NoTurn
PROPERTIES SessionReleased
CHECK_DEADLOCK FALSE
