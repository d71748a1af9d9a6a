SPECIFICATION ExampleSpec
CONSTANTS
  None = None
  Service = {a, b}
  Slices = 1
  MaxAttach = 3
  MaxQueue = 1
  MayRetry = FALSE
  MaxLookups = 2
  MaxSignals = 1
  MayHang = TRUE
INVARIANTS
  ClientCounted
PROPERTIES
  QuitStops
CHECK_DEADLOCK FALSE
