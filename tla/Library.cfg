CONSTANTS
  draft = draft
  folder = folder
  Drawings = {draft, sheet}
  Collections = {folder}
  Trash = Trash
  All = All
  None = None
  Views = {All, Trash}
  Cached = {All, Trash}
  Handlers = {h}
  PurgeAge = 1
  Archives <- MCArchives
SPECIFICATION Spec
INVARIANTS
  StaleOnlyWhenRaced
  TimedOnlyInTrash
PROPERTY TrashIsPurged
