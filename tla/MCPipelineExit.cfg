SPECIFICATION Spec
CONSTANTS
  s = s
  e = e
  m = m
  x = x
  h = h
  Groups <- StatusEventGroups
  HttpDevices = {}
  Immediate = {s}
  Sinkless = {}
  BatchRows = 2
  PublishEnabled = FALSE
  MaxRows = 2
  MaxChunkRows = 1
  MaxQueue = 2
INVARIANTS
  QueuedDataParsedAtExit
CHECK_DEADLOCK FALSE
