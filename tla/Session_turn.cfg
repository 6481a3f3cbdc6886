SPECIFICATION FairSpec
CONSTANTS
  Inputs = {u1}
  Callers = {c1}
  Batches <- MixedBatches
  MaxToolCalls = 3
  MaxParallel = 2
  ContextMayOverflow = TRUE
  MaxFaults = 0
  NoTurn = NoTurn
INVARIANTS LimitsRespected QuietWhenReleased
PROPERTIES CancelledTurnStops ImplementsSessionLog StartedTurnEnds CloseCompletes
CHECK_DEADLOCK FALSE
