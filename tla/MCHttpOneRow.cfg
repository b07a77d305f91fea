SPECIFICATION SuiteSpec
CONSTANTS
  Parts = {"http"}
  Peers = {p}
  Happens = {"fin", "rst", "stop"}
  UserCalls = {"send", "sendShutdown", "forceClose"}
  MaxConns = 2
  NFds = 2
  MaxRx = 2
  MaxSend = 1
  IngestPeers = {"p1", "p2", "p3", "p4"}
  IngestRx = 1
  Groups = {"g1", "g2", "g3"}
  Ingestable = {"g1", "g2"}
  Match <- MatchPeer
  nullptr = nullptr
  absent = absent
  Kind <- KindDef
  NULL = NULL
  Requests <- MoreDef
  Devices <- OnePeer
  NConns = 1
  Addrs = {1}
  MaxRequest = 12
  Sessions = {s1, s2}
  PollFds = {1, 2}
  TidLimit = 2
  MaxPush = 1
  invalid = invalid
  Base = 3
  CR = 1
  LF = 2
  Widths = {1, 2}
  Strings <- StringsDef
  MaxBytes = 3
  kCheapPrepend = 2
  kInitialSize = 2
INVARIANT
  OneRowPerRequest
CHECK_DEADLOCK FALSE
