------------------------------ MODULE MCCodecs -------------------------------
(***************************************************************************)
(* From bytes to values for TLC: the settings (AdapterConfig), the devices  *)
(* and layouts of the configuration database (ConfigDB), the slicing of     *)
(* frames (FrameCodec) and of Modbus responses (ModbusCodec), over streams  *)
(* put together from segments, and the decoding and storing of a field      *)
(* (FieldCodec); and zlib's check values (Checksums), of small words and     *)
(* bytes.  A behaviour is one of one of the six.                            *)
(***************************************************************************)
EXTENDS FrameCodec, SequencesExt

CONSTANTS
  Parts,          \* of "frames", "responses", "fields", "database", "settings" and "sums"
  MaxSegments,    \* how many segments a stream of responses is made of
  Specs,          \* of ModbusCodec
  kMaxResponse,   \* kMaxFrame of ModbusCodec, and its kMaxStream
  kMaxResponses,
  Responses(_),   \* what a Modbus device with the configuration may send
  ByteBits,       \* of FieldCodec
  FieldTypes,     \* the field types looked at
  Databases, Rank(_), U8, U16, U32, Legal, Digits,        \* of ConfigDB
  Sections, Keys, Texts, MaxLines, Settings,         \* of AdapterConfig
  MaxLen, Bytes, Offsets      \* the buffers that are summed up: their length, bytes, places

VARIABLES
  part,           \* the component that moves
  spec, mWire, mSent, mBuf, mPos, mPhase, mRows, mFramed, refused, resyncs, frames,
  code, bytes, be, bits,  \* a field: its type, bytes, byte order, bit offset and length
  db, dbPhase, specs, devices, groups,
  exists, file, section, sections, cfg, configFile,
  summed, cut, place, start \* a buffer, where it is cut, its place, the sums before it

modbusVars == <<spec, mWire, mSent, mBuf, mPos, mPhase, mRows, mFramed, refused, resyncs, frames>>
fieldVars == <<code, bytes, be, bits>>
dbVars == <<db, dbPhase, specs, devices, groups>>
cfgVars == <<exists, file, section, sections, cfg, configFile>>
sums == <<summed, cut, place, start>>

M == INSTANCE ModbusCodec WITH
       wire <- mWire, sent <- mSent, buf <- mBuf, pos <- mPos, phase <- mPhase, rows <- mRows,
       framed <- mFramed, kMaxFrame <- kMaxResponse, kMaxStream <- kMaxResponses,
       Wires <- Responses
F == INSTANCE FieldCodec
D == INSTANCE ConfigDB WITH phase <- dbPhase
A == INSTANCE AdapterConfig
C == INSTANCE Checksums
       WITH BASE <- 7, NMAX <- 6, UNROLL <- 3, WORDBITS <- 7, BYTEBITS <- 2, CRCTERMS <- {0, 2, 3, 4}

\* The same modules without inputs, for the cells and texts the inputs are made of.
Cells == INSTANCE ConfigDB WITH phase <- dbPhase, Databases <- {}
Lines == INSTANCE AdapterConfig WITH Texts <- {}, Settings <- {}

ASSUME M!ModbusCodecAssumption

-----------------------------------------------------------------------------
\* A segment: bytes, the rows it carries, and whether it is clean.
Good(b, r)  == [bytes |-> b, rows |-> r, clean |-> TRUE]
Dirty(b)    == [bytes |-> b, rows |-> <<>>, clean |-> FALSE]

Join(x, y) == [bytes |-> x.bytes \o y.bytes, rows |-> x.rows \o y.rows,
               clean |-> x.clean /\ y.clean]

Streams(segments, most) ==
  UNION {{FoldLeft(Join, Good(<<>>, <<>>), w) : w \in [1 .. n -> segments]} : n \in 1 .. most}

(* Frames.                                                                 *)

\* A status device with records of 2 bytes; an event device with delimiters 9
\* and 8 and records of 1 byte; an event device whose frame carries one record
\* of any length of at least 2; a member without fields; records larger and
\* smaller than the fields need.
SmallGroup ==
  << [frameType |-> 1, frameLen |-> 2, startFlag |-> 7, endFlag |-> 7,
      isEvent |-> FALSE, payloadMin |-> 2],
     [frameType |-> 2, frameLen |-> 1, startFlag |-> 9, endFlag |-> 8,
      isEvent |-> TRUE, payloadMin |-> 1],
     [frameType |-> 3, frameLen |-> 0, startFlag |-> 0, endFlag |-> 0,
      isEvent |-> TRUE, payloadMin |-> 2],
     [frameType |-> 4, frameLen |-> 1, startFlag |-> 0, endFlag |-> 0,
      isEvent |-> TRUE, payloadMin |-> 0],
     [frameType |-> 5, frameLen |-> 3, startFlag |-> 0, endFlag |-> 0,
      isEvent |-> TRUE, payloadMin |-> 1],
     [frameType |-> 6, frameLen |-> 1, startFlag |-> 0, endFlag |-> 0,
      isEvent |-> TRUE, payloadMin |-> 2] >>

Row(i, data) == [dev |-> i, data |-> data]

CleanSegments ==
  { Good(<<1, 0, 2, 0, 0, 0, 1, 2>>, <<Row(1, <<1, 2>>)>>),
    Good(<<1, 5, 4, 0, 0, 0, 2, 9, 1, 1>>, <<Row(1, <<2, 9>>), Row(1, <<1, 1>>)>>),
    Good(<<1, 0, 0, 0, 3, 0, 2, 2>>, <<Row(1, <<2, 2>>)>>),
    Good(<<2, 9, 2, 0, 0, 0, 1, 2, 8>>, <<Row(2, <<1>>), Row(2, <<2>>)>>),
    Good(<<3, 0, 3, 0, 0, 0, 1, 2, 9>>, <<Row(3, <<1, 2>>)>>),
    Good(<<0, 9, 0>>, <<>>) }

DirtySegments ==
  { Dirty(<<2, 9, 1, 0, 0, 0, 5, 5>>),   \* wrong trailing delimiter
    Dirty(<<2, 0, 1, 0>>),               \* wrong leading delimiter
    Dirty(<<1, 0, 1, 0, 0, 0, 1>>),      \* a payload shorter than the fields
    Dirty(<<1, 0, 7, 0, 1>>),            \* longer than a frame may be
    Dirty(<<4, 0, 2, 0, 0>>),            \* a member without fields
    Dirty(<<1, 0, 5, 0, 0, 0, 1, 2, 1, 2, 3>>), \* not a whole number of records
    Dirty(<<5, 0, 1, 0, 0, 0, 1>>),      \* less than one record
    Dirty(<<6, 0, 2, 0, 0, 0, 1, 1>>) }  \* the fields do not fit a record

\* Any two segments, and a damaged one between two clean ones.
MixedWires ==
  Streams(CleanSegments \cup DirtySegments, 2)
    \cup {Join(Join(x, y), z) : x \in CleanSegments, y \in DirtySegments, z \in CleanSegments}

(* Modbus responses.                                                       *)

IsMbap(s) == s.hdr \in {7, 9}

\* What follows the six bytes that every MBAP response starts with.
Body(s, regs) == (IF s.hdr = 9 THEN <<1, 3, Len(regs)>> ELSE <<1>>) \o regs

Response(s, tid, regs) ==
  CASE IsMbap(s)   -> <<0, tid, 0, 0, 0, Len(Body(s, regs))>> \o Body(s, regs)
    [] s.hdr = 2 -> <<3, Len(regs)>> \o regs
    [] OTHER     -> regs

\* An MBAP exception response: the function code with its top bit, one code.
Exception == <<0, 5, 0, 0, 0, 3, 1, 131, 2>>

MbapSegments(s) ==
  { Good(Response(s, 1, <<0, 0>>), <<<<0, 0>>>>),
    Good(Response(s, 2, <<7, 0, 0>>), <<<<7, 0>>>>),
    Good(<<6, 1>>, <<>>),                  \* noise without a zero byte
    Dirty(<<0, 3, 0>>), Dirty(<<0>>),      \* noise, and a response cut short
    Dirty(<<0, 4, 0, 0, 0, 0>>),           \* no length
    Dirty(<<0, 4, 0, 0, 0, 2, 1, 3>>),     \* shorter than the fields need
    Dirty(<<0, 4, 0, 0, 0, 14, 1>>) }      \* longer than a frame may be

FixedSegments(s) ==
  { Good(Response(s, 1, <<1, 2>>), <<<<1, 2>>>>),
    Good(Response(s, 1, <<0, 0>>), <<<<0, 0>>>>), Dirty(<<9>>) }

MixedResponses(s) == Streams(IF IsMbap(s) THEN MbapSegments(s) ELSE FixedSegments(s), MaxSegments)

\* Responses and exception responses, both of which a device sends by itself.
DeviceResponses(s) ==
  Streams({Good(Response(s, 1, <<1, 2>>), <<<<1, 2>>>>), Good(Exception, <<>>)}, MaxSegments)

AllSpecs   == {[hdr |-> h, need |-> 2] : h \in {0, 2, 7, 9, 4}}
                \cup {[hdr |-> 2, need |-> 0], [hdr |-> 2, need |-> 13]}
MbapSpec   == {[hdr |-> 9, need |-> 2]}

(* Tables of three device rows over two ips, two source ports and none, two   *)
(* protocols and two listening ports; header and field rows with missing,     *)
(* textual and out-of-range numbers.                                          *)

DeviceNames == <<<<"a">>, <<"b", "-">>, <<"7">>>>
RankDef(name) == CHOOSE r \in 1 .. 4 : name = <<<<"a">>, <<"b", "_">>, <<"_", "7">>, <<"b", "_", "_">>>>[r]

HeaderRow(pid, ft) == [pid |-> pid, frameType |-> ft, startAddr |-> Cells!NumText(5), addrNum |-> Cells!Null]
FieldRow(pid, type, off, bo, bl) ==
  [pid |-> pid, name |-> <<"x">>, type |-> type, byteOffset |-> off, bitOffset |-> bo, bitLen |-> bl]
Proto(n) == [paren |-> n, lead |-> -1]
DeviceRow(name, ip, port, proto, lport, pid) ==
  [deviceId |-> name, ip |-> ip, devicePort |-> port, connProto |-> proto,
   localServerPort |-> lport, pid |-> pid]

HeaderRows == <<HeaderRow(Cells!Num(1), Cells!Num(1)), HeaderRow(Cells!NumText(2), Cells!NumText(2)), HeaderRow(Cells!Junk, Cells!Num(3))>>
DeviceRows(k) ==
  {DeviceRow(DeviceNames[k], ip, port, Proto(p), Cells!Num(lp), pid) :
     ip \in {"i", "j"}, port \in {Cells!Null, Cells!Num(1), Cells!NumText(2)}, p \in {1, 3},
     lp \in {3, 4}, pid \in {Cells!Num(1), Cells!Num(2)}}
Routing == {[schema |-> "new", headers |-> HeaderRows, fields |-> <<>>, devices |-> <<a, b, c>>] :
              a \in {r \in DeviceRows(1) : r.ip = "i"}, b \in DeviceRows(2),
              c \in {r \in DeviceRows(3) : r.ip = "i" /\ r.localServerPort = Cells!Num(3)}}

Layouts ==
  {[schema |-> s, headers |-> HeaderRows, devices |-> <<>>,
    fields |-> <<FieldRow(Cells!Num(1), t, off, bo, bl), FieldRow(pid, Cells!Num(3), Cells!Num(2), Cells!Null, Cells!Null)>>] :
     s \in {"new", "legacy", "minimal", "missing"}, pid \in {Cells!Num(1), Cells!Num(7), Cells!Junk}, t \in {Cells!Num(0), Cells!NumText(7), Cells!Num(11)},
     off \in {Cells!Num(0), Cells!NumText(9), Cells!Junk, Cells!Num(U32 - 1), Cells!Num(-2)}, bo \in {Cells!Null, Cells!Num(4), Cells!Num(7), Cells!Num(U8 + 1)}, bl \in {Cells!Null, Cells!Num(4), Cells!Num(9), Cells!Num(U8)}}
Odd ==
  {[schema |-> "new", headers |-> <<>>, fields |-> <<>>,
    devices |-> <<DeviceRow(n, ip, Cells!Num(U16 + 1), p, Cells!Null, Cells!Null), DeviceRow(<<"a">>, "i", Cells!Null, Proto(2), Cells!Num(3), Cells!Num(1))>>] :
     n \in {<<>>, <<"b", "-">>, <<"7">>}, ip \in {"", "i"},
     p \in {[paren |-> -1, lead |-> 2], [paren |-> 0, lead |-> -1]}}

DatabasesDef == Routing \cup Layouts \cup Odd

(* Files of up to three lines over two sections that share a key.             *)

\* "20", " 7, 0,70000,9" and "70000": items that are no ports are between and at the end.
TextsDef == {Lines!Empty, Lines!Value("Yes", "yes", 0, <<0>>), Lines!Value("20", "20", 20, <<20>>),
             Lines!Value("list", "list", 7, <<7, 0, 70000, 9>>), Lines!Value("70000", "70000", 70000, <<70000>>)}
SettingsDef == {
  [section |-> "etherdb", key |-> "port", kind |-> "port", default |-> Lines!Num(7), least |-> 0],
  [section |-> "http", key |-> "port", kind |-> "port", default |-> Lines!Num(0), least |-> 0],
  [section |-> "etherdb", key |-> "batchRows", kind |-> "int", default |-> Lines!Num(40), least |-> 1],
  [section |-> "server", key |-> "extraListenPorts", kind |-> "ports", default |-> Lines!Num(0), least |-> 0],
  [section |-> "etherdb", key |-> "createTables", kind |-> "bool", default |-> Lines!Num(1), least |-> 0],
  [section |-> "etherdb", key |-> "db", kind |-> "string", default |-> Lines!Value("adapter", "adapter", 0, <<>>), least |-> 0]}

-----------------------------------------------------------------------------
FramesAtRest ==
  /\ wire = Good(<<>>, <<>>) /\ sent = 0 /\ buf = <<>> /\ pos = 0 /\ phase = "idle"
  /\ rows = <<>> /\ framed = 0 /\ st = [c \in Counters |-> 0]

ResponsesAtRest ==
  /\ spec = [hdr |-> 9, need |-> 2] /\ mWire = Good(<<>>, <<>>) /\ mSent = 0 /\ mBuf = <<>>
  /\ mPos = 0 /\ mPhase = "idle" /\ mRows = <<>> /\ mFramed = 0 /\ refused = 0
  /\ resyncs = 0 /\ frames = 0

\* All values of up to four bytes, and the 8-byte ones made of 0, 2 and 3.
FieldInit ==
  /\ code \in FieldTypes /\ be \in BOOLEAN /\ bits = <<0, 0>>
  /\ bytes \in [1 .. F!RawSize(code) -> IF F!RawSize(code) = 8 THEN {0, 2, 3} ELSE 0 .. F!Byte - 1]

FieldAtRest == code = 0 /\ bytes = <<0>> /\ be = FALSE /\ bits = <<0, 0>>

\* A bit range of the field.
Extract ==
  /\ bits = <<0, 0>> /\ F!RawSize(code) < 8
  /\ \E o \in 0 .. ByteBits * F!RawSize(code) - 1, n \in 1 .. ByteBits * F!RawSize(code) :
       o + n <= ByteBits * F!RawSize(code) /\ bits' = <<o, n>>
  /\ UNCHANGED <<code, bytes, be>>

DatabaseAtRest ==
  db = <<>> /\ dbPhase = "ready" /\ specs = <<>> /\ devices = <<>> /\ groups = <<>>

SettingsAtRest ==
  /\ exists = FALSE /\ file = <<>> /\ section = "default" /\ sections = {} /\ cfg = A!Defaults
  /\ configFile = ""

SumsInit ==
  /\ summed = <<>> /\ cut = 0
  /\ place \in Offsets
  /\ start \in {<<1, 0>>, <<6, 6>>}
SumsAtRest == summed = <<>> /\ cut = 0 /\ place = 0 /\ start = <<1, 0>>

\* A longer buffer, a later cut, or another buffer.
Longer == Len(summed) < MaxLen /\ \E byte \in Bytes : summed' = Append(summed, byte) /\ UNCHANGED <<cut, place, start>>
Later == cut < Len(summed) /\ cut' = cut + 1 /\ UNCHANGED <<summed, place, start>>
Another == Len(summed) = MaxLen /\ cut = MaxLen /\ summed' = <<>> /\ cut' = 0 /\ UNCHANGED <<place, start>>
SumsNext == Longer \/ Later \/ Another

SuiteInit ==
  /\ part \in Parts
  /\ IF part = "frames" THEN Init ELSE FramesAtRest
  /\ IF part = "responses" THEN M!Init ELSE ResponsesAtRest
  /\ IF part = "fields" THEN FieldInit ELSE FieldAtRest
  /\ IF part = "database" THEN D!Init ELSE DatabaseAtRest
  /\ IF part = "settings" THEN A!Init ELSE SettingsAtRest
  /\ IF part = "sums" THEN SumsInit ELSE SumsAtRest

SuiteNext ==
  \/ part = "frames" /\ Next /\ UNCHANGED <<part, modbusVars, fieldVars, dbVars, cfgVars, sums>>
  \/ part = "responses" /\ M!Next /\ UNCHANGED <<part, vars, fieldVars, dbVars, cfgVars, sums>>
  \/ part = "fields" /\ Extract /\ UNCHANGED <<part, vars, modbusVars, dbVars, cfgVars, sums>>
  \/ part = "database" /\ D!Next /\ UNCHANGED <<part, vars, modbusVars, fieldVars, cfgVars, sums>>
  \/ part = "settings" /\ A!Next /\ UNCHANGED <<part, vars, modbusVars, fieldVars, dbVars, sums>>
  \/ part = "sums" /\ SumsNext /\ UNCHANGED <<part, vars, modbusVars, fieldVars, dbVars, cfgVars>>

SuiteSpec == SuiteInit /\ [][SuiteNext]_<<part, vars, modbusVars, fieldVars, dbVars, cfgVars, sums>>

-----------------------------------------------------------------------------
\* FrameCodec::feed: the rows and the bytes kept do not depend on how TCP cut the
\* stream, and the frames of a clean stream are all decoded, record by record.
FramesDecoded == part = "frames" => SegmentationIrrelevant /\ CleanStreamDecoded

\* FrameCodec::feedModbus: the same of the responses of a Modbus device, also
\* when TCP cuts through a protocol id.
ResponsesDecoded == part = "responses" => M!SegmentationIrrelevant /\ M!ResponsesDecoded

\* FrameCodec::feedModbus: every byte is accounted for by the counters, and less
\* than one frame is buffered between calls, but for a fixed response that is longer
\* than a frame may be: then the whole stream is.
ResponsesAccounted == part = "responses" => M!ResponsesAccounted

Looked == part = "fields" /\ (F!Kind(code) \in {"IntSigned", "IntUnsigned"} \/ bits = <<0, 0>>)
Stored == F!StoreCell(code, F!DecodeCell(code, bytes, bits[1], bits[2], be))
Meant == F!Meant(code, bytes, bits[1], bits[2], be)

\* The value in the database is the value the device means by its bytes: byte order, sign,
\* bit range and column type agree, for all field types.  The one exception is a UINT64 of
\* 2^63 or more, which has no wider signed type to go to and is stored less 2^64, against
\* "widened to the next signed type so no value can overflow the column" (ConfigDB.cpp:159).
StoredAsMeant ==
  Looked => Stored = IF code = 10 /\ 2 * Meant[1] >= F!Width(8) THEN <<Meant[1] - F!Width(8)>> ELSE Meant

\* A peer and an http request are routed as device_table says, whatever the order of
\* its rows; layouts fit the frames they require; names are identifiers; and a setting
\* has the value of the last line for it.
ConfigAsWritten ==
  /\ part = "database" => D!MatchAsDocumented /\ D!RowOrderIrrelevant /\ D!HttpMatchIsHttp
                          /\ D!LayoutFits /\ D!NamesAreIdentifiers
  /\ part = "settings" => A!SettingIsLastLine

First == SubSeq(summed, 1, cut)
Second == SubSeq(summed, cut + 1, Len(summed))

\* adler32, which puts the modulo off for as long as the sums are sure to fit,
\* yields the sums that are reduced after every byte.
AdlerAsDefined ==
  C!adler32_z(start, summed) =
    LET s[i \in 0..Len(summed)] ==
          IF i = 0 THEN start
          ELSE LET r == s[i - 1]
                   sum == (r[1] + summed[i]) % 7
               IN <<sum, (r[2] + sum) % 7>>
    IN s[Len(summed)]

\* adler32_combine yields the value of two buffers in a row.
AdlerCombines ==
  C!adler32_combine_(C!adler32_z(C!adler32_init, First), C!adler32_z(C!adler32_init, Second), Len(Second))
    = C!adler32_z(C!adler32_init, summed)

\* The word-wise CRC of either byte order, wherever the buffer lies and however
\* it is cut, is the shift register's, fed with one bit after the other.
CrcAsDefined ==
  LET fed == [i \in 1..(2 * Len(summed)) |-> (summed[((i - 1) \div 2) + 1] \div 2^((i - 1) % 2)) % 2]
      reg[i \in 0..Len(fed)] ==
        IF i = 0 THEN C!Not(C!Zero)
        ELSE LET r == reg[i - 1] IN C!ShiftOut([r EXCEPT ![1] = (@ + fed[i]) % 2])
      crc == C!Not(reg[Len(fed)])
  IN /\ C!crc32_little(C!crc32_little(C!crc32_init, First, place), Second, (place + cut) % 4) = crc
     /\ C!crc32_big(C!crc32_big(C!crc32_init, First, place), Second, (place + cut) % 4) = crc

\* crc32_combine yields the value of two buffers in a row.
CrcCombines ==
  C!crc32_combine_(C!crc32_little(C!crc32_init, First, 0), C!crc32_little(C!crc32_init, Second, 0), Len(Second))
    = C!crc32_little(C!crc32_init, summed, 0)

\* The check values, summed up by words and with late modulos, in either byte
\* order, of a buffer cut in two anywhere, and combined from two, are the ones
\* that the definitions give byte by byte and bit by bit.
SumsAsDefined == part = "sums" => AdlerAsDefined /\ AdlerCombines /\ CrcAsDefined /\ CrcCombines
=============================================================================
