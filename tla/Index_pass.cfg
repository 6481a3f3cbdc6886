SPECIFICATION Spec
CONSTANTS
  PathCount = 2
  Ignored = {2}
  Syncs = {s1}
  Refreshes = {r1}
  Searches = {q}
  Edits = {"text", "binary", "large", "delete", "touch"}
  MaxWrites = 2
INVARIANTS FreshRowsAreCurrent
PROPERTIES MatchesAreCurrent SyncAgrees RefreshIsExact IndexersEnd
CHECK_DEADLOCK FALSE
