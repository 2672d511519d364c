SPECIFICATION FairInboxSpec
CONSTANTS
  a = a
  x = x
  u = u
  Path = {1, 2}
  Content = {a, x}
  ValidPdf = {a}
  RestrictedPath = {}
  AmberPath = {}
  SensitiveContent = {}
  PathHint <- MCPathHint
  TextHint <- MCTextHint
  Unreadable = Unreadable
  ReadError = ReadError
  MissingPath = MissingPath
  Unstable = {u}
  None = None
  ManualReviewLanes = {"red"}
  MaxChanges = 1
  MaxCrashes = 1
  Importer = {m1, m2}
  InboxPath <- MCInboxPath
INVARIANTS
  InboxTypeOK
  InboxNamesContent
  EventsHaveFiles
  ScansSeeWholeImports
PROPERTIES
  ImportsBecomeAvailable
