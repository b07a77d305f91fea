SPECIFICATION SuiteSpec
CONSTANTS
  Parts = {"blocking", "implicit", "explicit", "implicit1", "explicit1", "hash", "walk", "token"}
  Threads = {t1, t2, t3}
  Budget = 3
  MaxBulk = 2
  MaxInner = 2
  Consumers = {t1, t2}
  Blocks = {b1, b2, b3}
  nullptr = nullptr
  BlockSize = 2
  IndexMod = 16
  InitialSlots = 2
  MaxHeaders = 2
  Starts = {14}
  MaxImplicit = 18
  ImplicitBulk = 2
  MaxExplicit = 4
  ExplicitBulk = 3
  Consumer1 = {t1}
  MaxImplicit1 = 21
  MaxExplicit1 = 18
  Ids = {h1, h2}
  HashOf <- Hashes
  MaxTables = 3
  MaxOwned = 2
  MaxExits = 3
  empty = empty
  reusable = reusable
  MaxProducers = 3
  MaxEnqueues = 1
  MaxPerToken = 1
  Quota = 2
  BulkMax = 2
  OffsetMod = 16
INVARIANTS
  PermitHasElement
  QuietIsExact
  ElementsKept
  ProducersOwned
  ShortMeansEmpty
PROPERTY
  SameProducer
SYMMETRY Symmetric
CHECK_DEADLOCK FALSE
