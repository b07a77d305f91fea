SPECIFICATION SuiteSpec
CONSTANTS
  Parts = {"frames", "responses", "fields", "database", "settings", "sums"}
  MaxSegments = 3
  Members <- SmallGroup
  kMaxFrame = 12
  kMaxStream = 20
  Wires <- MixedWires
  Specs <- AllSpecs
  kMaxResponse = 14
  kMaxResponses = 20
  Responses <- MixedResponses
  ByteBits = 2
  FieldTypes = {0, 1, 2, 3, 4, 5, 6, 7, 8, 9, 10}
  Databases <- DatabasesDef
  Rank <- RankDef
  U8 = 256
  U16 = 65536
  U32 = 1048576
  Legal = {"a", "b", "7", "_"}
  Digits = {"7"}
  Sections = {"etherdb", "server"}
  Keys = {"batchRows", "createTables", "db", "extraListenPorts", "port"}
  Texts <- TextsDef
  MaxLines = 3
  Settings <- SettingsDef
  MaxLen = 8
  Bytes = {1, 3}
  Offsets = {0, 1}
INVARIANTS
  FramesDecoded
  FramesAccounted
  ReadsInFrame
  ResponsesDecoded
  ResponsesAccounted
  StoredAsMeant
  ConfigAsWritten
  SumsAsDefined
CHECK_DEADLOCK FALSE
