CONSTANTS
  a = a
  b = b
  Editors = {a, b}
  Elements = {x}
  Stamps = {1}
  Nobody = Nobody
  NoVersion = NoVersion
  None = None
  RevisionBound = 1
  LogBound = 3
  QueueBound = 1
  Presses <- MCPresses
SPECIFICATION FairSpec
INVARIANTS
  TypeOK
  BaseIsCovered
  MergedSavesKeepRivals
  AcknowledgedIsSaved
PROPERTIES
  ScenesNeverGoBack
  TabsCatchUp
CHECK_DEADLOCK FALSE
