SPECIFICATION Spec
CONSTANTS
  Apps <- MCApps
  NameRoom = 4
  HeaderSlots = 2
  Codes = {200}
  Timeout = 2
  Step = 1
  MaxJobs = 1
  Depth = 2
INVARIANTS
  TypeOK LoadsWhatItMeans FirstSendWins JsonIsTyped HeadersFit
  HoldBound FullBudget NoJobLost
PROPERTIES
  ScriptEnds
\* A request ends.
CHECK_DEADLOCK FALSE
