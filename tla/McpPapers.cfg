SPECIFICATION FairMcpSpec
CONSTANTS
  Content = {1, 2}
  Instance = {1, 2}
  None = None
  NoText = {}
  ScanLanes <- MCOneLane
  MaxChanges = 2
  Query = {"query"}
  TitleHits <- MCTitleHits
  TextHits <- MCTextHits
  MaxLimit = 3
INVARIANTS
  McpTypeOK
  ArtifactIsTruthful
PROPERTIES
  QuietBuildIsExact
  IndexConverges
  RedTextStaysHidden
  RepliesConverge
  SearchesConverge
