SPECIFICATION Spec
CONSTANTS
  MaxSignals = 3
  MayHang = TRUE
  UnlinkMayFail = TRUE
  None = None
INVARIANTS
  TypeOK
  NothingLeftBehind
PROPERTIES
  UsesGroup
  StopsFromLoop
CHECK_DEADLOCK FALSE
