SPECIFICATION Spec
CONSTANTS
  p = p
  q = q
  N = 3
  Key <- MCKey
  StoredPaper = {p, q}
  StoredKeys <- MCStoredKeys
  None = None
INVARIANTS
  TypeOK
  ParentsClimb
  GroupsAreConnected
  SharedKeySharesPaper
  SharedCitationIsMergedOrReported
PROPERTIES
  DedupTerminates
CHECK_DEADLOCK FALSE
