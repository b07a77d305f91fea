SPECIFICATION SuiteSpec
CONSTANTS
  Parts = {"tcp", "ingest", "http", "json", "poller", "buffer"}
  Peers = {p}
  Happens = {"fin", "rst", "stop"}
  UserCalls = {"sendShutdown", "forceClose"}
  MaxConns = 2
  NFds = 2
  MaxRx = 2
  MaxSend = 1
  IngestPeers = {"p1", "p2", "p3", "p4"}
  IngestRx = 1
  Groups = {"g1", "g2", "g3"}
  Ingestable = {"g1", "g2"}
  Match <- MatchPeer
  nullptr = nullptr
  absent = absent
  Kind <- KindDef
  NULL = NULL
  Requests <- RequestsDef
  Devices <- DevicesDef
  NConns = 2
  Addrs = {1}
  MaxRequest = 9
  Sessions = {s1, s2}
  PollFds = {1, 2}
  TidLimit = 2
  MaxPush = 1
  invalid = invalid
  Base = 3
  CR = 1
  LF = 2
  Widths = {1, 2}
  Strings <- StringsDef
  MaxBytes = 3
  kCheapPrepend = 2
  kInitialSize = 2
INVARIANTS
  ConnectionsTracked
  OutputBeforeFin
  ChunksRouted
  RowsAreBodies
  BodyAsMeant
  LinksOwned
PROPERTY
  IsByteQueue
SYMMETRY Symmetric
CHECK_DEADLOCK FALSE
