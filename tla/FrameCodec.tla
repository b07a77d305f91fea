----------------------------- MODULE FrameCodec -----------------------------
(***************************************************************************)
(* FrameCodec::feed: slicing the byte stream of one endpoint into frames   *)
(* and records, for a peer whose bytes TCP delivers in arbitrary pieces.    *)
(*                                                                         *)
(*   frame = frameType, flag, frameLen (2 bytes, little endian),            *)
(*           sequenceId (2 bytes), payload, optional trailing delimiter     *)
(*                                                                         *)
(* A row stands for the bytes its fields are decoded from.  One action is   *)
(* one iteration of the slicing loop.                                       *)
(***************************************************************************)
EXTENDS Naturals, Sequences, WellFoundedInduction, TLAPS

CONSTANTS
  Members,     \* the endpoint's group: a sequence of devices, status first
  kMaxFrame,   \* 64 * 1024 in the code
  kMaxStream,  \* 256 * 1024 in the code
  Wires        \* what peers may send: the bytes, the rows of the well-formed
               \* frames in them, and whether there is nothing else in them
               \* but bytes that are no member's frame type

kHeaderSize == 6

Byte == 0 .. 255

\* A device: what its FrameSpec and its place in the group say about framing.
\* payloadMin is max(byteOffset + size) of its fields, 0 when it has none.
Device == [frameType : Nat, frameLen : Nat, startFlag : Byte, endFlag : Byte,
           isEvent : BOOLEAN, payloadMin : Nat]

ASSUME FrameCodecAssumption ==
  /\ Members \in Seq(Device)
  /\ kMaxFrame \in Nat /\ kHeaderSize < kMaxFrame
  /\ kMaxStream \in Nat /\ kMaxFrame <= kMaxStream
  /\ \A w \in Wires : w.bytes \in Seq(Byte)

VARIABLES
  wire,    \* what the peer sends in this behaviour
  sent,    \* how much of it has been received
  buf,     \* DeviceStream::buf
  pos,     \* feed's position in buf
  phase,   \* feed is in its loop, or not running
  rows,    \* the rows pushed into the sink
  framed,  \* history: bytes consumed as frames
  st       \* the counters of DeviceStream

vars == <<wire, sent, buf, pos, phase, rows, framed, st>>

Counters == {"frames", "resyncs", "badFrames", "flagMiss", "unknownType"}

Count(s, c) == [x \in Counters |-> IF x \in c THEN s[x] + 1 ELSE s[x]]

-----------------------------------------------------------------------------
\* The header at offset p of the bytes b.

FrameType(b, p) == b[p + 1]
Flag(b, p)      == b[p + 2]
FrameLen(b, p)  == b[p + 3] + 256 * b[p + 4]

\* DeviceGroup::byFrameType: the first member with the frame type, 0 if none.
ByFrameType(t) ==
  LET S == {i \in DOMAIN Members : Members[i].frameType = t}
  IN  IF S = {} THEN 0 ELSE CHOOSE i \in S : \A j \in S : i <= j

DevAt(b, p) == ByFrameType(FrameType(b, p))

LeadFlag(d)  == IF d.isEvent THEN d.startFlag ELSE 0
TrailFlag(d) == IF d.isEvent THEN d.endFlag ELSE 0

\* The header's length, 0 meaning one configured record.
PayloadBytes(d, b, p) == IF FrameLen(b, p) # 0 THEN FrameLen(b, p) ELSE d.frameLen

TailBytes(d) == IF TrailFlag(d) # 0 THEN 1 ELSE 0

FrameBytes(d, b, p) == kHeaderSize + PayloadBytes(d, b, p) + TailBytes(d)

\* What the loop does with offset p, in the order of its tests.
Verdict(b, p) ==
  LET d == Members[DevAt(b, p)]
  IN  IF Len(b) - p < kHeaderSize THEN "wait"
      ELSE IF DevAt(b, p) = 0 THEN "unknownType"
      ELSE IF d.payloadMin = 0 THEN "noFields"
      ELSE IF LeadFlag(d) # 0 /\ Flag(b, p) # LeadFlag(d) THEN "flagMiss"
      ELSE IF PayloadBytes(d, b, p) = 0 \/ PayloadBytes(d, b, p) < d.payloadMin
           THEN "badLength"
      ELSE IF FrameBytes(d, b, p) > kMaxFrame THEN "tooLong"
      ELSE IF Len(b) - p < FrameBytes(d, b, p) THEN "wait"
      ELSE "frame"

-----------------------------------------------------------------------------
\* The records of the frame at p.

RecordBytes(d, b, p) == IF d.frameLen > 0 THEN d.frameLen ELSE PayloadBytes(d, b, p)

\* Mutant: the remainder counts as a record.
RecordsRoundUp(d, b, p) ==
  (PayloadBytes(d, b, p) + RecordBytes(d, b, p) - 1) \div RecordBytes(d, b, p)

Records(d, b, p) ==
  IF PayloadBytes(d, b, p) % RecordBytes(d, b, p) = 0
  THEN PayloadBytes(d, b, p) \div RecordBytes(d, b, p)
  ELSE 1

\* decodePayload: the fields fit the record.
Decodes(d, b, p) == d.payloadMin <= RecordBytes(d, b, p)

\* The bytes the fields of record k are read from; k counts from 0.
RecordRow(b, p, k) ==
  LET i    == DevAt(b, p)
      from == p + kHeaderSize + k * RecordBytes(Members[i], b, p)
  IN  [dev |-> i, data |-> SubSeq(b, from + 1, from + Members[i].payloadMin)]

FrameRows(b, p) ==
  LET d == Members[DevAt(b, p)]
  IN  IF Decodes(d, b, p)
      THEN [k \in 1 .. Records(d, b, p) |-> RecordRow(b, p, k - 1)]
      ELSE <<>>

\* The counters of a complete frame: a wrong trailing delimiter is only counted.
FrameCounters(b, p) ==
  LET d == Members[DevAt(b, p)]
  IN  {IF Decodes(d, b, p) THEN "frames" ELSE "badFrames"}
        \cup (IF TailBytes(d) = 1 /\ b[p + FrameBytes(d, b, p)] # TrailFlag(d)
              THEN {"flagMiss"} ELSE {})

\* Mutant: a delimiter that does not match is counted only as such.
SkipCountersFlag(v) == IF v = "flagMiss" THEN {v} ELSE {"resyncs", v} \cap Counters

SkipCounters(v) == {"resyncs"} \cup ({v} \cap {"unknownType", "flagMiss"})

-----------------------------------------------------------------------------
\* The slicing loop.

Init ==
  /\ wire \in Wires /\ sent = 0
  /\ buf = <<>> /\ pos = 0 /\ phase = "idle"
  /\ rows = <<>> /\ framed = 0
  /\ st = [c \in Counters |-> 0]

\* feed is called with the next k bytes.
Feed(k) ==
  /\ phase = "idle"
  /\ sent + k <= Len(wire.bytes)
  /\ sent' = sent + k
  /\ buf' = buf \o SubSeq(wire.bytes, sent + 1, sent + k)
  /\ pos' = 0
  /\ phase' = "slice"
  /\ UNCHANGED <<wire, rows, framed, st>>

\* No frame starts here: resynchronise one byte further on.
Skip(v) ==
  /\ phase = "slice" /\ Verdict(buf, pos) = v
  /\ pos' = pos + 1
  /\ st' = Count(st, SkipCounters(v))
  /\ UNCHANGED <<wire, sent, buf, phase, rows, framed>>

\* A complete frame.
SliceFrame ==
  /\ phase = "slice" /\ Verdict(buf, pos) = "frame"
  /\ rows' = rows \o FrameRows(buf, pos)
  /\ st' = Count(st, FrameCounters(buf, pos))
  /\ LET size == FrameBytes(Members[DevAt(buf, pos)], buf, pos)
     IN  pos' = pos + size /\ framed' = framed + size
  /\ UNCHANGED <<wire, sent, buf, phase>>

\* Mutant: the loop's end drops the incomplete frame as well.
CompactDropsRest ==
  /\ phase = "slice" /\ Verdict(buf, pos) = "wait"
  /\ buf' = <<>> /\ pos' = 0
  /\ phase' = "idle"
  /\ UNCHANGED <<wire, sent, rows, framed, st>>

\* The loop ends: drop what was consumed, cap the rest, return.
Compact ==
  /\ phase = "slice" /\ Verdict(buf, pos) = "wait"
  /\ LET rest == SubSeq(buf, pos + 1, Len(buf))
         over == Len(rest) > kMaxStream
     IN  /\ buf' = IF over THEN SubSeq(rest, Len(rest) - kMaxStream + 1, Len(rest))
                           ELSE rest
         /\ st' = IF over THEN Count(st, {"resyncs"}) ELSE st
  /\ pos' = 0
  /\ phase' = "idle"
  /\ UNCHANGED <<wire, sent, rows, framed>>

SkipVerdicts == {"unknownType", "noFields", "flagMiss", "badLength", "tooLong"}

Next ==
  \/ \E k \in 1 .. Len(wire.bytes) : Feed(k)
  \/ \E v \in SkipVerdicts : Skip(v)
  \/ SliceFrame
  \/ Compact

Spec == Init /\ [][Next]_vars

-----------------------------------------------------------------------------
\* Properties.

TypeOK ==
  /\ wire \in Wires
  /\ sent \in 0 .. Len(wire.bytes)
  /\ buf \in Seq(Byte)
  /\ pos \in 0 .. Len(buf)
  /\ phase \in {"idle", "slice"}
  /\ framed \in Nat
  /\ st \in [Counters -> Nat]

\* What feed would make of the bytes b in a single call.
Parse(b) ==
  LET f[p \in 0 .. Len(b)] ==
        CASE Verdict(b, p) = "wait"  -> [rest |-> p, rows |-> <<>>]
          [] Verdict(b, p) = "frame" ->
               LET g == f[p + FrameBytes(Members[DevAt(b, p)], b, p)]
               IN  [rest |-> g.rest, rows |-> FrameRows(b, p) \o g.rows]
          [] OTHER -> f[p + 1]
  IN  f[0]

\* The rows, and the bytes kept for the next call, do not depend on how TCP cut
\* the stream: between calls they are those of one call with all the bytes.
SegmentationIrrelevant ==
  phase = "idle" =>
    LET whole == SubSeq(wire.bytes, 1, sent)
    IN  /\ rows = Parse(whole).rows
        /\ buf = SubSeq(whole, Parse(whole).rest + 1, sent)

\* Well-formed frames are all decoded, in order and record by record, when the
\* stream holds nothing else than bytes that are no frame type.
CleanStreamDecoded ==
  wire.clean /\ phase = "idle" /\ sent = Len(wire.bytes) => rows = wire.rows

\* Every byte received was consumed by a frame, counted in resyncs ("bytes
\* dropped while re-synchronizing"), or is still in the buffer.
BytesAccounted ==
  sent = framed + st["resyncs"] + (Len(buf) - pos)

\* Between calls less than one frame is buffered, so the 256 KiB cap is never
\* what keeps the stream bounded.
BufferBounded == phase = "idle" => Len(buf) < kMaxFrame

\* feed loses no byte without counting it, and does not pile bytes up.
FramesAccounted == BytesAccounted /\ BufferBounded

\* The decoder reads no byte outside the payload of the frame being sliced.
ReadsInFrame ==
  phase = "slice" /\ Verdict(buf, pos) = "frame" =>
    LET d == Members[DevAt(buf, pos)]
    IN  Decodes(d, buf, pos) =>
          \A k \in 0 .. Records(d, buf, pos) - 1 :
            k * RecordBytes(d, buf, pos) + d.payloadMin <= PayloadBytes(d, buf, pos)

-----------------------------------------------------------------------------
(* Proofs, for every group of devices, every stream and every way of cutting *)
(* it.                                                                       *)

\* The first of some positions.
LEMMA FirstOf ==
  ASSUME NEW S \in SUBSET Nat, S # {}
  PROVE  \E i \in S : \A j \in S : i <= j
<1> DEFINE R == OpToRel(<, Nat)
<1>1. \E i \in S : \A j \in S : ~ (<<j, i>> \in R)
  BY NatLessThanWellFounded, WFMin, Zenon
<1>2. \A i, j \in Nat : j < i => <<j, i>> \in R
  BY DEF OpToRel
<1> HIDE DEF R
<1>3. PICK i \in S : \A j \in S : ~ (<<j, i>> \in R)
  BY <1>1
<1>4. \A j \in S : ~ (j < i)
  BY <1>2, <1>3, Zenon
<1>5. \A j \in S : i <= j
  BY <1>4
<1> QED
  BY <1>5

\* byFrameType finds a member or nothing.
LEMMA MemberFound ==
  ASSUME NEW t, ByFrameType(t) # 0
  PROVE  Members[ByFrameType(t)] \in Device
<1> DEFINE S == {i \in DOMAIN Members : Members[i].frameType = t}
<1>1. S # {}
  BY DEF ByFrameType
<1>2. S \in SUBSET Nat /\ \A i \in S : i \in DOMAIN Members
  BY FrameCodecAssumption
<1>3. \E i \in S : \A j \in S : i <= j
  BY <1>1, <1>2, FirstOf, Zenon
<1>4. ByFrameType(t) = CHOOSE i \in S : \A j \in S : i <= j
  BY <1>1, Zenon DEF ByFrameType
<1>5. ByFrameType(t) \in S
  BY <1>3, <1>4
<1> QED
  BY <1>2, <1>5, FrameCodecAssumption

\* A byte is a number.
LEMMA BytesAreNat == \A x \in Byte : x \in Nat
  BY DEF Byte

\* A header that is all there holds a length.
LEMMA LengthType ==
  ASSUME NEW b \in Seq(Byte), NEW p \in 0 .. Len(b), ~(Len(b) - p < kHeaderSize)
  PROVE  FrameLen(b, p) \in Nat
<1>1. p + 3 \in 1 .. Len(b) /\ p + 4 \in 1 .. Len(b)
  BY DEF kHeaderSize
<1>2. b[p + 3] \in Byte /\ b[p + 4] \in Byte
  BY <1>1
<1>3. b[p + 3] \in Nat /\ b[p + 4] \in Nat
  BY <1>2, BytesAreNat, Zenon
<1>4. \A x, y \in Nat : x + 256 * y \in Nat
  OBVIOUS
<1> QED
  BY <1>3, <1>4, Zenon DEF FrameLen

\* Where the loop stops, less than one frame is left.
LEMMA WaitIsShort ==
  ASSUME NEW b \in Seq(Byte), NEW p \in 0 .. Len(b), Verdict(b, p) = "wait"
  PROVE  Len(b) - p < kMaxFrame
<1>1. CASE Len(b) - p < kHeaderSize
  BY <1>1, FrameCodecAssumption DEF kHeaderSize
<1>2. CASE ~(Len(b) - p < kHeaderSize)
  <2> DEFINE d == Members[DevAt(b, p)]
             size == FrameBytes(d, b, p)
  <2>1. DevAt(b, p) # 0
    BY <1>2 DEF Verdict
  <2>2. ~(size > kMaxFrame) /\ Len(b) - p < size
    BY <1>2, <2>1 DEF Verdict
  <2>3. d \in Device
    BY <2>1, MemberFound DEF DevAt
  <2>4. FrameLen(b, p) \in Nat
    BY <1>2, LengthType
  <2>5. size \in Nat
    BY <2>3, <2>4 DEF FrameBytes, PayloadBytes, TailBytes, kHeaderSize, Device
  <2> HIDE DEF size, d
  <2> QED
    BY <2>2, <2>5, FrameCodecAssumption
<1> QED
  BY <1>1, <1>2

\* A frame is sliced only when it is all there and its fields fit its payload.
LEMMA FrameIsThere ==
  ASSUME NEW b \in Seq(Byte), NEW p \in 0 .. Len(b), Verdict(b, p) = "frame"
  PROVE  LET d == Members[DevAt(b, p)]
         IN  /\ d \in Device
             /\ FrameBytes(d, b, p) \in Nat
             /\ p + FrameBytes(d, b, p) <= Len(b)
             /\ PayloadBytes(d, b, p) \in Nat
             /\ PayloadBytes(d, b, p) # 0
             /\ d.payloadMin <= PayloadBytes(d, b, p)
<1> DEFINE d == Members[DevAt(b, p)]
           size == FrameBytes(d, b, p)
           payload == PayloadBytes(d, b, p)
<1>1. ~(Len(b) - p < kHeaderSize) /\ DevAt(b, p) # 0
  BY DEF Verdict
<1>2. payload # 0 /\ ~(payload < d.payloadMin) /\ ~(Len(b) - p < size)
  BY <1>1 DEF Verdict
<1>3. d \in Device
  BY <1>1, MemberFound DEF DevAt
<1>4. FrameLen(b, p) \in Nat
  BY <1>1, LengthType
<1>5. payload \in Nat /\ d.payloadMin \in Nat
  BY <1>3, <1>4 DEF PayloadBytes, Device
<1>6. size \in Nat
  BY <1>5 DEF FrameBytes, TailBytes, kHeaderSize
<1>7. p + size <= Len(b) /\ d.payloadMin <= payload
  <2> HIDE DEF size, payload, d
  <2> QED
    BY <1>2, <1>5, <1>6
<1> QED
  BY <1>2, <1>3, <1>5, <1>6, <1>7

\* Resynchronising moves within the bytes received.
LEMMA SkipHasByte ==
  ASSUME NEW b \in Seq(Byte), NEW p \in 0 .. Len(b), Verdict(b, p) \in SkipVerdicts
  PROVE  p + 1 <= Len(b)
<1>1. ~(Len(b) - p < kHeaderSize)
  BY DEF Verdict, SkipVerdicts
<1> QED
  BY <1>1 DEF kHeaderSize

\* The records of a frame lie in its payload: m is payloadMin, r the size of a
\* record, q the payload, n the number of records.
LEMMA RecordsInPayload ==
  ASSUME NEW m \in Nat, NEW r \in Nat, NEW q \in Nat, NEW k \in Nat,
         m <= r, m <= q, r > 0,
         k < (IF q % r = 0 THEN q \div r ELSE 1)
  PROVE  k * r + m <= q
<1>1. CASE q % r = 0
  <2>1. q = r * (q \div r) /\ q \div r \in Nat
    BY <1>1, SMTT(30)
  <2>2. \A n \in Nat : k < n => k * r + r <= n * r
    BY SMTT(30)
  <2>3. PICK n \in Nat : n = q \div r
    BY <2>1
  <2>4. k * r + r <= n * r /\ n * r = q
    BY <1>1, <2>1, <2>2, <2>3, SMTT(30)
  <2>5. k * r \in Nat
    BY SMTT(30)
  <2> QED
    BY <2>4, <2>5
<1>2. CASE q % r # 0
  <2>1. k = 0
    BY <1>2
  <2> QED
    BY <2>1
<1> QED
  BY <1>1, <1>2

-----------------------------------------------------------------------------
\* The inductive invariant: the types, where the bytes are, and how many are
\* left between calls.  The cap of Compact drops bytes that BytesAccounted does
\* not count, so the bound and the account are proved together.
Inv ==
  /\ TypeOK /\ BytesAccounted /\ BufferBounded
  /\ phase = "idle" => pos = 0

\* Counting keeps the counters' type and adds one to what is counted.
LEMMA CountType ==
  ASSUME NEW s \in [Counters -> Nat], NEW c
  PROVE  /\ Count(s, c) \in [Counters -> Nat]
         /\ "resyncs" \in c => Count(s, c)["resyncs"] = s["resyncs"] + 1
         /\ "resyncs" \notin c => Count(s, c)["resyncs"] = s["resyncs"]
  BY DEF Count, Counters

\* Received bytes are appended.
LEMMA Appended ==
  ASSUME NEW s \in Seq(Byte), NEW t \in Seq(Byte), NEW i \in Nat, NEW k \in Nat,
         i + k <= Len(t)
  PROVE  /\ s \o SubSeq(t, i + 1, i + k) \in Seq(Byte)
         /\ Len(s \o SubSeq(t, i + 1, i + k)) = Len(s) + k
<1>1. /\ SubSeq(t, i + 1, i + k) \in Seq(Byte)
      /\ Len(SubSeq(t, i + 1, i + k)) = k
  OBVIOUS
<1> QED
  BY <1>1

\* Consumed bytes are dropped.
LEMMA RestOf ==
  ASSUME NEW s \in Seq(Byte), NEW p \in 0 .. Len(s)
  PROVE  /\ SubSeq(s, p + 1, Len(s)) \in Seq(Byte)
         /\ Len(SubSeq(s, p + 1, Len(s))) = Len(s) - p
  OBVIOUS

\* Every step of feed keeps the invariant.
LEMMA InvStep ==
  ASSUME Inv, [Next]_vars
  PROVE  Inv'
<1> DEFINE bytes == wire.bytes
           resyncs == st["resyncs"]
<1>t. /\ wire \in Wires /\ bytes \in Seq(Byte)
      /\ sent \in 0 .. Len(bytes)
      /\ buf \in Seq(Byte) /\ pos \in 0 .. Len(buf)
      /\ phase \in {"idle", "slice"}
      /\ framed \in Nat /\ st \in [Counters -> Nat] /\ resyncs \in Nat
  BY FrameCodecAssumption DEF Inv, TypeOK, Counters
<1>b. sent = framed + resyncs + (Len(buf) - pos)
  BY DEF Inv, BytesAccounted
<1>i. phase = "idle" => pos = 0
  BY DEF Inv
<1>1. ASSUME NEW k \in 1 .. Len(bytes), Feed(k)
      PROVE  Inv'
  <2> DEFINE more == buf \o SubSeq(bytes, sent + 1, sent + k)
  <2>1. /\ phase = "idle" /\ sent + k <= Len(bytes)
        /\ sent' = sent + k /\ buf' = more /\ pos' = 0 /\ phase' = "slice"
        /\ wire' = wire /\ framed' = framed /\ st' = st
    BY <1>1 DEF Feed
  <2> HIDE DEF bytes, resyncs
  <2>2. more \in Seq(Byte) /\ Len(more) = Len(buf) + k
    BY <1>t, <2>1, Appended
  <2> HIDE DEF more
  <2>3. /\ sent' \in 0 .. Len(bytes) /\ buf' \in Seq(Byte) /\ pos' \in 0 .. Len(buf')
        /\ sent' = framed' + resyncs + (Len(buf') - pos')
    BY <1>t, <1>b, <1>i, <2>1, <2>2
  <2> QED
    BY <1>t, <2>1, <2>3 DEF Inv, TypeOK, BytesAccounted, BufferBounded, bytes, resyncs
<1>2. ASSUME NEW v \in SkipVerdicts, Skip(v)
      PROVE  Inv'
  <2>1. /\ phase = "slice" /\ Verdict(buf, pos) \in SkipVerdicts
        /\ pos' = pos + 1 /\ st' = Count(st, SkipCounters(v)) /\ phase' = phase
        /\ wire' = wire /\ sent' = sent /\ buf' = buf /\ framed' = framed
    BY <1>2 DEF Skip
  <2>2. pos + 1 <= Len(buf)
    BY <1>t, <2>1, SkipHasByte
  <2>3. st' \in [Counters -> Nat] /\ st'["resyncs"] = resyncs + 1
    BY <1>t, <2>1, CountType, SMTT(30) DEF SkipCounters
  <2> HIDE DEF bytes, resyncs
  <2>4. /\ pos' \in 0 .. Len(buf')
        /\ sent' = framed' + (resyncs + 1) + (Len(buf') - pos')
    BY <1>t, <1>b, <2>1, <2>2
  <2> QED
    BY <1>t, <2>1, <2>3, <2>4 DEF Inv, TypeOK, BytesAccounted, BufferBounded, bytes
<1>3. CASE SliceFrame
  <2> DEFINE size == FrameBytes(Members[DevAt(buf, pos)], buf, pos)
  <2>1. /\ phase = "slice" /\ Verdict(buf, pos) = "frame"
        /\ pos' = pos + size /\ framed' = framed + size /\ phase' = phase
        /\ st' = Count(st, FrameCounters(buf, pos))
        /\ wire' = wire /\ sent' = sent /\ buf' = buf
    BY <1>3 DEF SliceFrame
  <2>2. size \in Nat /\ pos + size <= Len(buf)
    BY <1>t, <2>1, FrameIsThere
  <2>3. st' \in [Counters -> Nat] /\ st'["resyncs"] = resyncs
    BY <1>t, <2>1, CountType, Zenon DEF FrameCounters
  <2> HIDE DEF bytes, resyncs, size
  <2>4. /\ pos' \in 0 .. Len(buf') /\ framed' \in Nat
        /\ sent' = framed' + resyncs + (Len(buf') - pos')
    BY <1>t, <1>b, <2>1, <2>2
  <2> QED
    BY <1>t, <2>1, <2>3, <2>4 DEF Inv, TypeOK, BytesAccounted, BufferBounded, bytes
<1>4. CASE Compact
  <2> DEFINE rest == SubSeq(buf, pos + 1, Len(buf))
  <2>1. rest \in Seq(Byte) /\ Len(rest) = Len(buf) - pos
    BY <1>t, RestOf
  <2>2. Len(rest) < kMaxFrame /\ ~(Len(rest) > kMaxStream)
    <3>1. Len(rest) < kMaxFrame
      BY <1>t, <1>4, <2>1, WaitIsShort DEF Compact
    <3> HIDE DEF rest
    <3> QED
      BY <2>1, <3>1, FrameCodecAssumption
  <2>3. /\ buf' = rest /\ st' = st /\ pos' = 0 /\ phase' = "idle"
        /\ wire' = wire /\ sent' = sent /\ framed' = framed
    BY <1>4, <2>2, Zenon DEF Compact
  <2> HIDE DEF bytes, resyncs, rest
  <2>4. /\ pos' \in 0 .. Len(buf')
        /\ sent' = framed' + resyncs + (Len(buf') - pos')
    BY <1>t, <1>b, <2>1, <2>3
  <2> QED
    BY <1>t, <2>1, <2>2, <2>3, <2>4
    DEF Inv, TypeOK, BytesAccounted, BufferBounded, bytes, resyncs
<1>5. CASE UNCHANGED vars
  BY <1>5 DEF vars, Inv, TypeOK, BytesAccounted, BufferBounded
<1> QED
  BY <1>1, <1>2, <1>3, <1>4, <1>5 DEF Next

\* The invariant holds throughout.
LEMMA Invariance == Spec => []Inv
<1>1. Init => Inv
  BY FrameCodecAssumption
  DEF Init, Inv, TypeOK, BytesAccounted, BufferBounded, Counters, kHeaderSize
<1>2. Inv /\ [Next]_vars => Inv'
  BY InvStep
<1> QED
  BY <1>1, <1>2, PTL DEF Spec

\* Every byte feed receives is in a frame, counted in resyncs, or buffered, and
\* between two calls less than kMaxFrame bytes are buffered, whatever the peer
\* sends: the cap on the buffer at the end of feed is never reached.
THEOREM FramesAreAccounted == Spec => []FramesAccounted
<1>1. Inv => FramesAccounted
  BY DEF Inv, FramesAccounted
<1> QED
  BY <1>1, Invariance, PTL

\* decodePayload reads inside the payload of the frame feed hands it, for every
\* record size, payload size and field layout.
THEOREM ReadsStayInFrame == Spec => []ReadsInFrame
<1>1. Inv => ReadsInFrame
  <2> SUFFICES ASSUME Inv, Verdict(buf, pos) = "frame",
                      Decodes(Members[DevAt(buf, pos)], buf, pos),
                      NEW k \in 0 .. Records(Members[DevAt(buf, pos)], buf, pos) - 1
               PROVE  k * RecordBytes(Members[DevAt(buf, pos)], buf, pos)
                        + Members[DevAt(buf, pos)].payloadMin
                      <= PayloadBytes(Members[DevAt(buf, pos)], buf, pos)
    BY DEF ReadsInFrame
  <2> DEFINE d == Members[DevAt(buf, pos)]
             r == RecordBytes(d, buf, pos)
             q == PayloadBytes(d, buf, pos)
             m == d.payloadMin
  <2>1. buf \in Seq(Byte) /\ pos \in 0 .. Len(buf)
    BY DEF Inv, TypeOK
  <2>2. d \in Device /\ q \in Nat /\ q # 0 /\ m <= q
    BY <2>1, FrameIsThere
  <2>3. m \in Nat /\ d.frameLen \in Nat
    BY <2>2 DEF Device
  <2>4. r = IF d.frameLen > 0 THEN d.frameLen ELSE q
    BY DEF RecordBytes
  <2>5. m <= r
    BY DEF Decodes
  <2>6. k \in 0 .. (IF q % r = 0 THEN q \div r ELSE 1) - 1
    BY DEF Records
  <2> HIDE DEF d, r, q, m
  <2>7. r \in Nat /\ r > 0
    BY <2>2, <2>3, <2>4
  <2>8. q % r \in Nat /\ q \div r \in Nat
    BY <2>2, <2>7
  <2>9. k \in Nat /\ k < (IF q % r = 0 THEN q \div r ELSE 1)
    BY <2>6, <2>8
  <2>10. k * r + m <= q
    BY <2>2, <2>3, <2>5, <2>7, <2>9, RecordsInPayload
  <2> QED
    BY <2>10 DEF d, r, q, m
<1> QED
  BY <1>1, Invariance, PTL

=============================================================================
