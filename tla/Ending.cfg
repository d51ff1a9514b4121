SPECIFICATION FairSpec
CONSTANTS
  None = None
PROPERTIES
  WorkEnds
  StorageSettles
  WindowsAnswer
CHECK_DEADLOCK FALSE
