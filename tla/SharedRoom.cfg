CONSTANTS
  Users = {own, ann}
  Owner = own
  Admins = {ann}
  Sockets = {s, t}
  Collections = {c}
  Guests = {ann, None}
  Calls = {g}
  Requests = {h}
  None = None
  TTL = 1
  CallBound = 1
  LinkBound = 1
  ChangeBound = 1
SPECIFICATION Spec
SYMMETRY SocketSymmetry
INVARIANTS
  RelaysAreAuthorized
  ListedUnlessReplaced
  GhostsJoinedLate
