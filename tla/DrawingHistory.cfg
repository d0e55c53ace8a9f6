CONSTANTS
  e1 = e1
  e2 = e2
  isDeleted = isDeleted
  link = link
  yes = yes
  no = no
  Absent = Absent
  NoKey = NoKey
  NoVersion = NoVersion
  None = None
  Elements = {e1, e2}
  Keys = {isDeleted}
  Values = {yes, no}
  Gone <- MCGone
  Handlers = {h1, h2}
  Bodies <- MCBodies
  Backups = {}
  KeyframeInterval = 2
  MaxPerDrawing = 2
  VersionBound = 3
  SnapshotBound = 3
SPECIFICATION Spec
SYMMETRY HandlerSymmetry
INVARIANTS
  TypeOK
  VersionNamesScene
  HistorySuffix
  NoHistoryWithoutDrawing
PROPERTIES
  VersionedSaveRecordsOverwritten
  RegisterSpec
