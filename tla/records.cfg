SPECIFICATION FairSpec
CONSTANTS
  NoLink = NoLink
  Browser = {b1, b2}
  i = i
  j = j
  m = m
  n = n
  Interface = {i, j}
  Name = {n, m}
  Question <- TwoQuestions
  MaxDepth = 2
  MaxStarts = 2
  MaxRecords = 2
  MaxLinks = 3
  MaxRefs = 3
INVARIANTS
  TypeOK
  StateSettled
  ReplyAlive
  NothingLeftOpen
  ClientHeld
  RecordOfQuery
PROPERTIES
  Disconnected
