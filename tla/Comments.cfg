CONSTANTS
  Tabs = {s, t}
  Users = {own, ann}
  Owner = own
  Nothing = Nothing
  CommentBound = 2
  ListLimit = 1
  Clicks = {p, q}
  DropBound = 1
SPECIFICATION MCSpec
SYMMETRY CommentsSymmetry
CHECK_DEADLOCK FALSE
INVARIANTS
  ExactUnlessMissed
  ThreadsAreWhole
