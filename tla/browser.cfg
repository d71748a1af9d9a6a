SPECIFICATION FairSpec
CONSTANTS
  None = None
  Service = {a, b}
  Slices = 2
  MaxAttach = 4
  MaxQueue = 2
  MayRetry = TRUE
INVARIANTS
  TypeOK
  ViewOfLink
  DeafIsReported
  BoundedWait
PROPERTIES
  LossNoticed
  Discovered
