SPECIFICATION Spec
CONSTANTS
  Apps <- MCParent
  NameRoom = 4
  HeaderSlots = 0
  Codes = {}
  Timeout = 1
  Step = 1
  MaxJobs = 0
  Depth = 0
INVARIANTS
  RelativeIsResolved
\* A request ends.
CHECK_DEADLOCK FALSE
