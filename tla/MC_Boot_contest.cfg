SPECIFICATION ContestSpec
CONSTANTS
  Procs = {p1, p2, p3}
  Bundles = {"A", "B"}
  Garbage = {}
  Truncated = {}
  Entries <- MCEntries
  Paths = {"server", "page"}
  Edits = {"edit"}
  MaxVersions = 1
  SchemaWrites = 2
  Faults = FALSE
  Crashes = FALSE
  PowerLosses = FALSE
  NoProc = NoProc
  NoBundle = NoBundle
PROPERTY SomeoneServes
CHECK_DEADLOCK FALSE
