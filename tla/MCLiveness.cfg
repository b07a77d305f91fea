SPECIFICATION SuiteSpec
CONSTANTS
  Parts = {"loop", "queue", "tcp", "poller"}
  Peers = {p1}
  Happens = {"fin", "rst"}
  UserCalls = {"sendShutdown", "forceClose"}
  MaxConns = 2
  NFds = 1
  MaxRx = 1
  MaxSend = 1
  Threads = {t1, t2}
  Channels = {c1, c2}
  kEventListSize = 1
  MaxFunctors = 2
  MaxEvents = 2
  Budget = 3
  MaxBulk = 2
  MaxInner = 2
  Sessions = {s1, s2}
  PollFds = {1}
  TidLimit = 2
  MaxPush = 1
  invalid = invalid
PROPERTIES
  LoopProgress
  QueueProgress
  LinksProgress
CHECK_DEADLOCK FALSE
