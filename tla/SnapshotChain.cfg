CONSTANTS
  e1 = e1
  e2 = e2
  isDeleted = isDeleted
  link = link
  yes = yes
  no = no
  Absent = Absent
  NoKey = NoKey
  NoVersion = NoVersion
  None = None
  Elements = {e1}
  Keys = {isDeleted, link}
  Values = {yes, no}
  Gone <- MCGone
  Handlers = {h1}
  Bodies <- MCOneElement
  Backups <- MCBackups
  KeyframeInterval = 3
  MaxPerDrawing = 3
  VersionBound = 5
  SnapshotBound = 5
SPECIFICATION Spec
SYMMETRY HandlerSymmetry
INVARIANTS
  KeyframeSpacing
  AnchoredRowsResolve
  FirstDeltaExact
  NothingSavedIsMissing
