SPECIFICATION Spec
CONSTANTS
  Writers = {w1, w2}
  Paths = {p1, p2}
  Contents = {c1}
  MaxRows = 3
  Faults = TRUE
  NoCall = NoCall
INVARIANTS TypeOK VersionsContiguous MetaMirrorsLatest
