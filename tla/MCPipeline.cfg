SPECIFICATION Spec
CONSTANTS
  s = s
  e = e
  m = m
  x = x
  h = h
  Groups <- StatusEventGroups
  HttpDevices = {h}
  Immediate = {s}
  Sinkless = {}
  BatchRows = 2
  PublishEnabled = FALSE
  MaxRows = 4
  MaxChunkRows = 3
  MaxQueue = 2
INVARIANTS
  EveryRowAccounted
  SubmittedInOrder
  NothingDueBetweenChunks
  ExitDrained
PROPERTIES
  ImplementsRowLog
CHECK_DEADLOCK FALSE
