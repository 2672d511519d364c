SPECIFICATION Spec
CONSTANTS
  Content = {1, 2}
  Instance = {1, 2}
  None = None
  NoText = {}
  ScanLanes <- MCAnyLane
  MaxChanges = 3
PROPERTIES
  RedIsNotEmbedded
