SPECIFICATION Spec
CONSTANTS
  Writers = {w1, w2}
  Paths = {p1, p2}
  Contents = {c1, c2}
  MaxRows = 3
  Faults = FALSE
  NoCall = NoCall
INVARIANT ReadsAgree
