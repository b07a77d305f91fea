SPECIFICATION SuiteSpec
CONSTANTS
  Parts = {"responses"}
  MaxSegments = 2
  Members <- SmallGroup
  kMaxFrame = 12
  kMaxStream = 20
  Wires <- MixedWires
  Specs <- MbapSpec
  kMaxResponse = 65536
  kMaxResponses = 262144
  Responses <- DeviceResponses
  ByteBits = 2
  FieldTypes = {0}
  Databases = {}
  Rank <- RankDef
  U8 = 256
  U16 = 65536
  U32 = 1048576
  Legal = {"a", "b", "7", "_"}
  Digits = {"7"}
  Sections = {"etherdb", "http"}
  Keys = {"batchRows", "createTables", "db"}
  Texts <- TextsDef
  MaxLines = 3
  Settings <- SettingsDef
  MaxLen = 8
  Bytes = {1, 3}
  Offsets = {0, 1}
INVARIANTS
  ResponsesDecoded
CHECK_DEADLOCK FALSE
