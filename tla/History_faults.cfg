SPECIFICATION Spec
CONSTANTS
  MaxTurns = 2
  MaxCalls = 2
  MaxBatch = 2
  KeepRecent = 2
  ContextMayOverflow = FALSE
  Interrupts = TRUE
  MaxRestarts = 1
  MaxFaults = 2
  Landings = {"none", "part"}
INVARIANTS Resumable SeqFollowsLog LogKnowsConversation
CHECK_DEADLOCK FALSE
