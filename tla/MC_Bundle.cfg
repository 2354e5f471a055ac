SPECIFICATION Spec
CONSTANTS
  Content <- MCContent
  Unreadable <- MCUnreadable
  SourceMaps <- MCSourceMaps
  MaxFileSize = 2
  CommandLines <- MCCommandLines
  Sizes = {1, 3, 4}
  WrongBytes = {0, 1, 9}
INVARIANTS
  TypeOK RoundTrip Accounted TruncatedRefused CompleteAccepted Deterministic
\* The build and the migration end.
CHECK_DEADLOCK FALSE
