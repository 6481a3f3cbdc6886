SPECIFICATION Spec
CONSTANTS
  Calls = {c1}
  Backends = {"process", "seatbelt", "bubblewrap", "docker"}
  ServerCount = 2
  Starters = {"boot"}
  Closers = {"quit"}
  MaxPages = 1
  Modes = {"exec", "tui"}
INVARIANTS ResultIsFinal ToolsHaveServers StartIsWhole
PROPERTIES ClosedMeansClosed NothingHangs
