CONSTANTS
  Persons = {ann, ben}
  Addresses = {p, q}
  Accounts = {a}
  Browsers = {x, y}
  Handlers = {g, h}
  None = None
  GroupsGovern = TRUE
  MustVerify = TRUE
  Provisioning = TRUE
  FirstUserAdmin = TRUE
  FlowBound = 2
  ChangeBound = 1
SPECIFICATION Spec
SYMMETRY OidcSymmetry
CHECK_DEADLOCK FALSE
INVARIANTS
  AnswersItsOwnBrowser
  AdminsHaveGrounds
