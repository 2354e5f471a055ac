SPECIFICATION Spec
CONSTANTS
  Ids = {1, 2}
  Vers = {1, 2, 3}
  LastVer = 3
  Paths = {p1, p2}
  Batches <- MCBatches
INVARIANTS TypeOK MetaInSync
