CONSTANTS
  Drawings = {d}
  FileIds = {f}
  Own = Own
  Other = Other
  Nothing = Nothing
  Handlers = {g, h}
  SnapBound = 1
SYMMETRY FilesSymmetry
SPECIFICATION FilesSpec
INVARIANTS
  VisibleImagesExist
CHECK_DEADLOCK FALSE
