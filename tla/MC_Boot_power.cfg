SPECIFICATION Spec
CONSTANTS
  Procs = {p1, p2}
  Bundles = {"A", "B", "T", "G"}
  Garbage = {"G"}
  Truncated = {"T"}
  Entries <- MCEntries
  Paths = {"server", "page"}
  Edits = {"edit"}
  MaxVersions = 1
  SchemaWrites = 1
  Faults = TRUE
  Crashes = TRUE
  PowerLosses = TRUE
  NoProc = NoProc
  NoBundle = NoBundle
INVARIANTS TypeOK AllOrNothing RunningIsApplied
PROPERTY ImplementsAssetStore
SYMMETRY Symmetry
