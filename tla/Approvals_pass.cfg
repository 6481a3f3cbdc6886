SPECIFICATION FairSpec
CONSTANTS
  MaxTurns = 2
  MaxCalls = 3
INVARIANTS OnlyApprovedRun RequestsDecided InputLocked StatusFollowsLog
PROPERTIES RequestsEnd ShutdownEnds
CHECK_DEADLOCK FALSE
