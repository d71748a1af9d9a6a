SPECIFICATION FairSpec
CONSTANTS
  a4 = a4
  b4 = b4
  a6 = a6
  n1 = n1
  n2 = n2
  None = None
  Name = {n1, n2}
  Address = {a4, b4, a6}
  ProtoOf <- Protos
  Port = {0, 80, 8080}
  Txt = {t}
  Announced <- TwoNames
  Settings <- ThreeSettings
  MaxAttach = 2
INVARIANTS
  TypeOK
  LastAnswer
  AnswersTheAttach
  ClientKept
PROPERTIES
  Answered
CHECK_DEADLOCK FALSE
