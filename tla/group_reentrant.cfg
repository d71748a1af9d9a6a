SPECIFICATION FairSpec
CONSTANTS
  g1 = g1
  g2 = g2
  s1 = s1
  s2 = s2
  f1 = f1
  f2 = f2
  None = None
  GroupOf <- OneGroupOf
  FileOf <- OwnFiles
  Group = {g1}
  Service = {s1, s2}
  File = {f1, f2}
  Key = {path}
  Value = {slash}
  MaxDepth = 2
  ReloadMayFail = TRUE
  UnlinkMayFail = TRUE
  MayCrash = FALSE
INVARIANTS
  TypeOK
  CleanAtRest
  EstablishedOnDisk
PROPERTIES
  CallsEnd
  RegisteringEnds
