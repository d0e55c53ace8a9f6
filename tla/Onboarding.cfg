CONSTANTS
  People = {ann}
  Handlers = {g, h}
  Modes = {"local", "hybrid"}
  FirstUserAdmin = TRUE
  TTL = 1
  MaxAttempts = 1
  RestartBound = 1
SPECIFICATION FairSpec
INVARIANTS
  GuessesAreBounded
  KeptIsRecent
PROPERTY FirstAdminArrives
CHECK_DEADLOCK FALSE
