SPECIFICATION Spec
CONSTANTS
  ann = ann  svc = svc
  staff = staff  admins = admins
  User = {ann, svc}
  TokenUser = {svc}
  SessionUser = {ann}
  Group = {staff, admins}
  Rule <- MCRule
  Route <- MCRoute
  MaxChanges = 2
  None = None
INVARIANTS
  AdmittedWasEntitled
  VerdictsAreTrue
  DenialNamesTheWayIn
CHECK_DEADLOCK FALSE
