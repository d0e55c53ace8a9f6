CONSTANTS
  Drawings = {d, e}
  Collections = {k}
  Trash = Trash
  All = All
  None = None
  Views = {All, k, Trash}
  Cached = {}
  Handlers = {g, h}
  PurgeAge = 0
  Archives = {}
SPECIFICATION DashSpec
SYMMETRY DashSymmetry
CONSTRAINT StaleBound
INVARIANTS
  ShowsTheSelectedView
  ExactWhenAlone
