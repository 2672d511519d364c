SPECIFICATION Spec
CONSTANTS
  p = p
  q = q
  c = c
  d = d
  r = r
  Paper = {p, q}
  Client = {c, d}
  Reason = {r}
  ReasonOf <- MCOneReason
  None = None
  ManualReviewLanes = {"red"}
  MaxClock = 1
  MaxRequests = 2
  MaxScans = 1
INVARIANTS
  TypeOK
  LaneIsExplained
  GreenRowIsReleased
PROPERTIES
  DecisionsAreAudited
  ListIsComplete
SYMMETRY MCSymmetry
CHECK_DEADLOCK FALSE
