SPECIFICATION Spec
CONSTANTS
  PathCount = 1
  Ignored = {}
  Syncs = {s1}
  Refreshes = {r1}
  Searches = {q}
  Edits = {"text", "revert"}
  MaxWrites = 2

PROPERTY MatchesAreCurrent
CHECK_DEADLOCK FALSE
