SPECIFICATION FairSpec
CONSTANTS
  None = None
  Service = {a}
  Slices = 1
  MaxAttach = 2
  MaxQueue = 2
  MayRetry = FALSE
PROPERTIES
  VanishedIsRemoved
