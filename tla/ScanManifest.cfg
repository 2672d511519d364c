SPECIFICATION FairSpec
CONSTANTS
  a = a
  b = b
  x = x
  u = u
  Path = {1, 2}
  Content = {a, b, x}
  ValidPdf = {a, b}
  RestrictedPath = {2}
  AmberPath = {1}
  SensitiveContent = {b}
  PathHint <- MCPathHint
  TextHint <- MCTextHint
  Unreadable = Unreadable
  ReadError = ReadError
  MissingPath = MissingPath
  Unstable = {u}
  None = None
  ManualReviewLanes = {"red"}
  MaxChanges = 2
  MaxCrashes = 1
INVARIANTS
  TypeOK
  CommittedOneRowPerPath
  CommittedAvailableIsClassified
  CommittedAvailableMatchesSnapshot
  CommittedPendingNotAvailable
PROPERTIES
  ManifestConverges
  ManifestStabilises
  QuietScanSettles
