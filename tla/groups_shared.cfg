SPECIFICATION Spec
CONSTANTS
  g1 = g1
  g2 = g2
  s1 = s1
  s2 = s2
  f1 = f1
  f2 = f2
  None = None
  GroupOf <- TwoGroupsOf
  FileOf <- SharedFile
  Group = {g1, g2}
  Service = {s1, s2}
  File = {f1}
  Key = {path}
  Value = {slash}
  MaxDepth = 1
  ReloadMayFail = FALSE
  UnlinkMayFail = FALSE
  MayCrash = FALSE
INVARIANTS
  Tracked
  QuietInSync
PROPERTIES
  Publishes
