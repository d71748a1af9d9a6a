SPECIFICATION Spec
CONSTANTS
  a4 = a4
  b4 = b4
  a6 = a6
  n1 = n1
  n2 = n2
  None = None
  Name = {n1}
  Address = {a4, b4, a6}
  ProtoOf <- Protos
  Port = {0, 80, 8080}
  Txt = {t}
  Announced <- TwoEntries
  Settings <- OneSetting
  MaxAttach = 1
INVARIANTS
  PairAnnounced
CHECK_DEADLOCK FALSE
