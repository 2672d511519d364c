SPECIFICATION Spec
CONSTANTS
  p = p
  q = q
  c = c
  d = d
  r = r
  Paper = {p}
  Client = {c, d}
  Reason = {r}
  ReasonOf <- MCOneReason
  None = None
  ManualReviewLanes = {"red"}
  MaxClock = 0
  MaxRequests = 1
  MaxScans = 1
PROPERTIES
  RedApprovalNeedsConsent
CHECK_DEADLOCK FALSE
