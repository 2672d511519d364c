SPECIFICATION Spec
CONSTANTS
  p = p
  q = q
  N = 3
  Key <- MCKey
  StoredPaper = {p, q}
  StoredKeys <- MCStoredKeys
  None = None
INVARIANTS
  ConflictingDoisStayApart
CHECK_DEADLOCK FALSE
