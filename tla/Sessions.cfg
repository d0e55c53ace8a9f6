CONSTANTS
  Accounts = {ann, ben}
  Browsers = {x}
  Handlers = {g, h}
  Patches <- Deactivation
  None = None
  TokenBound = 2
  PasswordBound = 1
SPECIFICATION Spec
SYMMETRY SessionSymmetry
INVARIANTS
  OneLiveTokenPerSession
  TypeOK
  OldPasswordsOpenNothing
PROPERTY SessionsStayDead
CHECK_DEADLOCK FALSE
