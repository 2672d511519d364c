SPECIFICATION FairSpec
CONSTANTS
  a = a
  b = b
  Path = {1, 2}
  Content = {a, b}
  ValidPdf = {a, b}
  RestrictedPath = {}
  AmberPath = {}
  SensitiveContent = {b}
  PathHint <- MCPathHint
  TextHint <- MCTextHint
  Unreadable = Unreadable
  ReadError = ReadError
  MissingPath = MissingPath
  Unstable = {u}
  None = None
  ManualReviewLanes = {"red"}
  Scanner = {s1, s2}
  MaxChanges = 1
  MaxCrashes = 1
INVARIANTS
  ConcurrentTypeOK
  OnlyRacesDoubleRows
  OnlyRacesHideChanges
  RacesClassify
  RacesKeepRetries
PROPERTIES
  UnracedPathsSettle
