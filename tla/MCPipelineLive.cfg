SPECIFICATION FairSpec
CONSTANTS
  s = s
  e = e
  m = m
  x = x
  h = h
  Groups <- TwoEndpoints
  HttpDevices = {}
  Immediate = {s}
  Sinkless = {x}
  BatchRows = 2
  PublishEnabled = TRUE
  MaxRows = 2
  MaxChunkRows = 2
  MaxQueue = 1
PROPERTIES
  ShutdownCompletes
  RowsSettle
CHECK_DEADLOCK FALSE
