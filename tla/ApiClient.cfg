CONSTANTS
  Tabs = {t, u}
  Old = {t}
  Work = {v, w}
  None = None
  RequestBound = 2
  EventBound = 1
SPECIFICATION FairSpec
INVARIANTS
  SessionSurvives
  RefreshedOnce
  WritesPassCsrf
PROPERTY RequestsSettle
CHECK_DEADLOCK FALSE
