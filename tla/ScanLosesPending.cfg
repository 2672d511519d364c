SPECIFICATION Spec
CONSTANTS
  a = a
  b = b
  x = x
  u = u
  Path = {1, 2}
  Content = {a, b, x}
  ValidPdf = {a, b}
  RestrictedPath = {}
  AmberPath = {}
  SensitiveContent = {b}
  PathHint <- MCPathHint
  TextHint <- MCTextHint
  Unreadable = Unreadable
  ReadError = ReadError
  MissingPath = MissingPath
  Unstable = {u}
  None = None
  ManualReviewLanes = {"red"}
  MaxChanges = 2
  MaxCrashes = 0
PROPERTIES
  UnreadableFilesArePending
