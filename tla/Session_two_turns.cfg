SPECIFICATION FairSpec
CONSTANTS
  Inputs = {u1, u2}
  Callers = {c1}
  Batches <- GatedBatches
  MaxToolCalls = 1
  MaxParallel = 2
  ContextMayOverflow = FALSE
  MaxFaults = 0
  NoTurn = NoTurn
INVARIANTS SingleRunner AbortReasonIsOwn BarrierReturns
PROPERTIES NothingStartsAfterClose QueueServed
CHECK_DEADLOCK FALSE
