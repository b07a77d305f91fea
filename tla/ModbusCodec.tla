---------------------------- MODULE ModbusCodec -----------------------------
(***************************************************************************)
(* FrameCodec::feedModbus: slicing the register-read responses of one       *)
(* Modbus device.  The length of the response header is configured:         *)
(*   9  tid 2, pid 2, len 2, unit, funCode, byteCount, then registers       *)
(*   7  tid 2, pid 2, len 2, unit, then registers                           *)
(*   2  funCode, byteCount, then registers of the configured length         *)
(*   0  registers of the configured length                                  *)
(* As in FrameCodec, a row is the bytes its fields are decoded from and one  *)
(* action is one iteration of the loop.  decodePayload cannot fail here: the  *)
(* loop has checked that the payload holds the fields.  badFrames, which then *)
(* only counts the calls a configuration refuses, is left out.               *)
(***************************************************************************)
EXTENDS Naturals, Sequences, WellFoundedInduction, TLAPS

CONSTANTS
  Specs,       \* configurations: [hdr, need], need = payloadMin, 0 = no fields
  kMaxFrame,   \* 64 * 1024 in the code
  kMaxStream,  \* 256 * 1024 in the code
  Wires(_)     \* what a device with the configuration may send: its bytes, the
               \* rows of its responses, and whether it is only responses and
               \* bytes that are not 0

Byte == 0 .. 255

ModbusHeaderLens == {0, 2, 7, 9}

\* What the code fixes about the constants.
ModbusCodecAssumption ==
  /\ Specs \subseteq [hdr : Nat, need : Nat]
  /\ kMaxFrame \in Nat /\ 6 < kMaxFrame
  /\ kMaxStream \in Nat /\ kMaxFrame <= kMaxStream
  /\ \A s \in Specs : \A w \in Wires(s) : w.bytes \in Seq(Byte)

VARIABLES
  spec,    \* the device's configuration
  wire,    \* what the device sends in this behaviour
  sent,    \* how much of it has been received
  buf,     \* DeviceStream::buf
  pos,     \* feedModbus's position in buf
  phase,   \* feedModbus is in its loop, or not running
  rows,    \* the rows pushed into the sink
  framed,  \* history: bytes consumed as responses
  refused, \* history: bytes not taken because of the configuration
  resyncs, \* DeviceStream::resyncs
  frames   \* DeviceStream::frames

vars == <<spec, wire, sent, buf, pos, phase, rows, framed, refused, resyncs, frames>>

-----------------------------------------------------------------------------
\* The configuration is one feedModbus can slice with.
Usable(s) == s.need > 0 /\ s.hdr \in ModbusHeaderLens

Mbap(s) == s.hdr \in {7, 9}

\* The first offset from p on with protocol id 0, if any.
SyncAt(b, p) == {q \in p .. Len(b) : q + 4 <= Len(b) /\ b[q + 3] = 0 /\ b[q + 4] = 0}
FirstSync(b, p) == CHOOSE q \in SyncAt(b, p) : \A r \in SyncAt(b, p) : q <= r

MbapTotal(b, q) == 6 + 256 * b[q + 5] + b[q + 6]

\* Mutant: only the last two bytes are kept when there is no candidate.
AtKeepsTwo(s, b, p) ==
  IF ~Mbap(s) THEN p
  ELSE IF SyncAt(b, p) # {} THEN FirstSync(b, p)
  ELSE IF Len(b) - p > 2 THEN Len(b) - 2 ELSE p

\* Where the loop stands when it is at p: for a response with an MBAP header the
\* next candidate, or the last three bytes when there is none.
At(s, b, p) ==
  IF ~Mbap(s) THEN p
  ELSE IF SyncAt(b, p) # {} THEN FirstSync(b, p)
  ELSE IF Len(b) - p > 3 THEN Len(b) - 3 ELSE p

Total(s, b, q) == IF Mbap(s) THEN MbapTotal(b, q) ELSE s.hdr + s.need

\* What the loop does there, in the order of its tests.
MbapVerdict(s, b, q) ==
  IF SyncAt(b, q) = {} \/ Len(b) - q < 6 THEN "wait"
  ELSE IF MbapTotal(b, q) < 7 THEN "noLength"
  ELSE IF MbapTotal(b, q) > kMaxFrame \/ MbapTotal(b, q) < s.hdr THEN "badLength"
  ELSE IF Len(b) - q < MbapTotal(b, q) THEN "wait"
  ELSE IF MbapTotal(b, q) - s.hdr < s.need THEN "tooShort"
  ELSE "frame"

FixedVerdict(s, b, q) ==
  IF s.hdr + s.need > kMaxFrame THEN "giveUp"
  ELSE IF Len(b) - q < s.hdr + s.need THEN "wait"
  ELSE "frame"

Verdict(s, b, q) == IF Mbap(s) THEN MbapVerdict(s, b, q) ELSE FixedVerdict(s, b, q)

\* The bytes the fields are read from.
ResponseRow(s, b, q) == SubSeq(b, q + s.hdr + 1, q + s.hdr + s.need)

-----------------------------------------------------------------------------
Init ==
  /\ spec \in Specs /\ wire \in Wires(spec) /\ sent = 0
  /\ buf = <<>> /\ pos = 0 /\ phase = "idle"
  /\ rows = <<>> /\ framed = 0 /\ refused = 0
  /\ resyncs = 0 /\ frames = 0

\* feedModbus is called with the next k bytes.
Feed(k) ==
  /\ phase = "idle"
  /\ sent + k <= Len(wire.bytes)
  /\ sent' = sent + k
  /\ IF Usable(spec)
     THEN /\ buf' = buf \o SubSeq(wire.bytes, sent + 1, sent + k)
          /\ phase' = "slice"
          /\ UNCHANGED refused
     ELSE /\ refused' = refused + k
          /\ UNCHANGED <<buf, phase>>
  /\ pos' = 0
  /\ UNCHANGED <<spec, wire, rows, framed, resyncs, frames>>

\* No response starts at the candidate: go on one byte further.
Skip(v) ==
  LET q == At(spec, buf, pos)
  IN  /\ phase = "slice" /\ Verdict(spec, buf, q) = v
      /\ pos' = q + 1
      /\ resyncs' = resyncs + (q - pos) + 1
      /\ UNCHANGED <<spec, wire, sent, buf, phase, rows, framed, refused, frames>>

\* Mutant: the bytes before the candidate are not counted as dropped.
SliceResponseUncounted ==
  LET q == At(spec, buf, pos)
  IN  /\ phase = "slice" /\ Verdict(spec, buf, q) = "frame"
      /\ rows' = Append(rows, ResponseRow(spec, buf, q))
      /\ frames' = frames + 1
      /\ pos' = q + Total(spec, buf, q)
      /\ framed' = framed + Total(spec, buf, q)
      /\ UNCHANGED <<spec, wire, sent, buf, phase, refused, resyncs>>

\* A complete response.
SliceResponse ==
  LET q == At(spec, buf, pos)
  IN  /\ phase = "slice" /\ Verdict(spec, buf, q) = "frame"
      /\ resyncs' = resyncs + (q - pos)
      /\ rows' = Append(rows, ResponseRow(spec, buf, q))
      /\ frames' = frames + 1
      /\ pos' = q + Total(spec, buf, q)
      /\ framed' = framed + Total(spec, buf, q)
      /\ UNCHANGED <<spec, wire, sent, buf, phase, refused>>

\* The loop ends: drop what was consumed, cap the rest, return.
Compact ==
  LET q    == At(spec, buf, pos)
      rest == SubSeq(buf, q + 1, Len(buf))
      over == Len(rest) > kMaxStream
  IN  /\ phase = "slice" /\ Verdict(spec, buf, q) = "wait"
      /\ buf' = IF over THEN SubSeq(rest, Len(rest) - kMaxStream + 1, Len(rest)) ELSE rest
      /\ resyncs' = resyncs + (q - pos) + (IF over THEN 1 ELSE 0)
      /\ pos' = 0
      /\ phase' = "idle"
      /\ UNCHANGED <<spec, wire, sent, rows, framed, refused, frames>>

\* A response longer than a frame may be: return without touching the buffer.
GiveUp ==
  /\ phase = "slice" /\ Verdict(spec, buf, At(spec, buf, pos)) = "giveUp"
  /\ pos' = 0
  /\ phase' = "idle"
  /\ UNCHANGED <<spec, wire, sent, buf, rows, framed, refused, resyncs, frames>>

SkipVerdicts == {"noLength", "badLength", "tooShort"}

Next ==
  \/ \E k \in 1 .. Len(wire.bytes) : Feed(k)
  \/ \E v \in SkipVerdicts : Skip(v)
  \/ SliceResponse
  \/ Compact
  \/ GiveUp

Spec == Init /\ [][Next]_vars

-----------------------------------------------------------------------------
\* Properties.

TypeOK ==
  /\ spec \in Specs
  /\ wire \in Wires(spec)
  /\ sent \in 0 .. Len(wire.bytes)
  /\ buf \in Seq(Byte)
  /\ pos \in 0 .. Len(buf)
  /\ phase \in {"idle", "slice"}
  /\ framed \in Nat /\ refused \in Nat /\ resyncs \in Nat /\ frames \in Nat

\* What feedModbus would make of the bytes b in a single call.
Parse(s, b) ==
  LET f[p \in 0 .. Len(b)] ==
        LET q == At(s, b, p)
        IN  CASE Verdict(s, b, q) = "wait"  -> [rest |-> q, rows |-> <<>>]
              [] Verdict(s, b, q) = "frame" ->
                   LET g == f[q + Total(s, b, q)]
                   IN  [rest |-> g.rest, rows |-> <<ResponseRow(s, b, q)>> \o g.rows]
              [] OTHER -> f[q + 1]
  IN  f[0]

\* A configuration that feedModbus neither refuses nor gives up on, and one whose
\* fixed response is longer than a frame may be: "configuration problem".
Sliceable(s) == Usable(s) /\ (~Mbap(s) => s.hdr + s.need <= kMaxFrame)
Oversized(s) == Usable(s) /\ ~Sliceable(s)

\* The rows, and the bytes kept for the next call, do not depend on how TCP cut
\* the responses: not even when it cuts through a protocol id.
SegmentationIrrelevant ==
  phase = "idle" /\ Sliceable(spec) =>
    LET whole == SubSeq(wire.bytes, 1, sent)
    IN  /\ rows = Parse(spec, whole).rows
        /\ buf = SubSeq(whole, Parse(spec, whole).rest + 1, sent)

\* All responses are decoded when there is nothing between them but bytes that
\* cannot be taken for a protocol id.
ResponsesDecoded ==
  Sliceable(spec) /\ wire.clean /\ phase = "idle" /\ sent = Len(wire.bytes)
    => rows = wire.rows

\* Every byte received was refused, consumed by a response, counted in resyncs,
\* or is still in the buffer.
ResponseBytesAccounted ==
  sent = refused + framed + resyncs + (Len(buf) - pos)

\* How much is buffered, for each of the three kinds of configuration: nothing when
\* feedModbus refuses it; less than one frame between calls when it slices with it; and
\* with an oversized one every byte ever received, since the loop then returns in front
\* of the compaction and of the cap, and the buffer grows with the stream.
ResponseBufferSize ==
  /\ ~Usable(spec) => Len(buf) = 0
  /\ phase = "idle" /\ Sliceable(spec) => Len(buf) < kMaxFrame
  /\ Oversized(spec) => Len(buf) = sent /\ frames = 0

\* feedModbus loses no byte without counting it, and piles bytes up only with a
\* configuration it never slices with.
ResponsesAccounted == ResponseBytesAccounted /\ ResponseBufferSize

\* Why: a call starts at the head of the buffer, only a usable configuration gets as
\* far as the loop, and one that feedModbus gives up on never leaves the head.
SliceInv ==
  /\ TypeOK /\ ResponsesAccounted
  /\ phase = "idle" => pos = 0
  /\ phase = "slice" => Usable(spec)
  /\ Oversized(spec) => pos = 0

-----------------------------------------------------------------------------
\* Proofs, for every configuration, every stream and every way of cutting it.

\* A configuration feedModbus is called with.
ModbusSpec == [hdr : Nat, need : Nat]

\* The first of some positions.
LEMMA FirstPosition ==
  ASSUME NEW S \in SUBSET Nat, S # {}
  PROVE  \E i \in S : \A j \in S : i <= j
<1> DEFINE R == OpToRel(<, Nat)
<1>1. \E i \in S : \A j \in S : ~ (<<j, i>> \in R)
  BY NatLessThanWellFounded, WFMin, Zenon
<1>2. \A i, j \in Nat : j < i => <<j, i>> \in R
  BY DEF OpToRel
<1> HIDE DEF R
<1>3. PICK i \in S : \A j \in S : ~ (<<j, i>> \in R)
  BY <1>1
<1>4. \A j \in S : ~ (j < i)
  BY <1>2, <1>3, Zenon
<1> QED
  BY <1>4

\* The candidate is one of the offsets with protocol id 0.
LEMMA SyncFound ==
  ASSUME NEW b \in Seq(Byte), NEW p \in Nat, SyncAt(b, p) # {}
  PROVE  FirstSync(b, p) \in SyncAt(b, p)
<1> DEFINE S == SyncAt(b, p)
<1>1. S \in SUBSET Nat
  BY DEF SyncAt
<1>2. FirstSync(b, p) = CHOOSE q \in S : \A r \in S : q <= r
  BY DEF FirstSync
<1> HIDE DEF S
<1>3. \E q \in S : \A r \in S : q <= r
  BY <1>1, FirstPosition DEF S
<1>4. FirstSync(b, p) \in S
  BY <1>2, <1>3
<1> QED
  BY <1>4 DEF S

\* The loop goes forward, within the buffer, and without a candidate it stands at
\* most three bytes before the end.
LEMMA WhereItStands ==
  ASSUME NEW s \in ModbusSpec, NEW b \in Seq(Byte), NEW p \in 0 .. Len(b)
  PROVE  /\ At(s, b, p) \in p .. Len(b)
         /\ Mbap(s) /\ SyncAt(b, At(s, b, p)) = {} => Len(b) - At(s, b, p) <= 3
         /\ ~Mbap(s) => At(s, b, p) = p
<1>1. CASE ~Mbap(s)
  BY <1>1 DEF At
<1>2. CASE Mbap(s) /\ SyncAt(b, p) # {}
  <2> DEFINE q == FirstSync(b, p)
  <2>1. At(s, b, p) = q
    BY <1>2 DEF At
  <2>2. q \in SyncAt(b, p)
    BY <1>2, SyncFound
  <2> HIDE DEF q
  <2>3. q \in p .. Len(b) /\ q \in SyncAt(b, q)
    BY <2>2 DEF SyncAt
  <2> QED
    BY <1>2, <2>1, <2>3
<1>3. CASE Mbap(s) /\ SyncAt(b, p) = {}
  BY <1>3 DEF At
<1> QED
  BY <1>1, <1>2, <1>3

\* A byte is a number.
LEMMA BytesAreNat == \A x \in Byte : x \in Nat
  BY DEF Byte

\* A header that is all there holds a length.
LEMMA TotalType ==
  ASSUME NEW b \in Seq(Byte), NEW q \in 0 .. Len(b), ~(Len(b) - q < 6)
  PROVE  MbapTotal(b, q) \in Nat
<1>1. q + 5 \in 1 .. Len(b) /\ q + 6 \in 1 .. Len(b)
  OBVIOUS
<1>2. b[q + 5] \in Byte /\ b[q + 6] \in Byte
  BY <1>1
<1>3. b[q + 5] \in Nat /\ b[q + 6] \in Nat
  BY <1>2, BytesAreNat, Zenon
<1>4. \A x, y \in Nat : 6 + 256 * x + y \in Nat
  OBVIOUS
<1> QED
  BY <1>3, <1>4, Zenon DEF MbapTotal

\* Where the loop stops, less than one frame is left.
LEMMA WaitIsShort ==
  ASSUME ModbusCodecAssumption, NEW s \in ModbusSpec, NEW b \in Seq(Byte), NEW q \in 0 .. Len(b),
         Mbap(s) /\ SyncAt(b, q) = {} => Len(b) - q <= 3, Verdict(s, b, q) = "wait"
  PROVE  Len(b) - q < kMaxFrame
<1>k. kMaxFrame \in Nat /\ 6 < kMaxFrame
  BY DEF ModbusCodecAssumption
<1>1. CASE ~Mbap(s)
  <2>1. ~(s.hdr + s.need > kMaxFrame) /\ Len(b) - q < s.hdr + s.need
    BY <1>1 DEF Verdict, FixedVerdict
  <2>2. s.hdr \in Nat /\ s.need \in Nat
    BY DEF ModbusSpec
  <2> QED
    BY <1>k, <2>1, <2>2
<1>2. CASE Mbap(s)
  <2>1. CASE SyncAt(b, q) = {} \/ Len(b) - q < 6
    BY <1>k, <1>2, <2>1
  <2>2. CASE ~(SyncAt(b, q) = {} \/ Len(b) - q < 6)
    <3> DEFINE n == MbapTotal(b, q)
    <3>1. n \in Nat
      BY <2>2, TotalType
    <3>2. ~(n > kMaxFrame) /\ Len(b) - q < n
      BY <1>2, <2>2 DEF Verdict, MbapVerdict
    <3> HIDE DEF n
    <3> QED
      BY <1>k, <3>1, <3>2
  <2> QED
    BY <2>1, <2>2
<1> QED
  BY <1>1, <1>2

\* A response is sliced only when it is all there.
LEMMA ResponseIsThere ==
  ASSUME NEW s \in ModbusSpec, NEW b \in Seq(Byte), NEW q \in 0 .. Len(b),
         Verdict(s, b, q) = "frame"
  PROVE  Total(s, b, q) \in Nat /\ q + Total(s, b, q) <= Len(b)
<1>1. CASE ~Mbap(s)
  <2>1. ~(Len(b) - q < s.hdr + s.need) /\ Total(s, b, q) = s.hdr + s.need
    BY <1>1 DEF Verdict, FixedVerdict, Total
  <2>2. s.hdr \in Nat /\ s.need \in Nat
    BY DEF ModbusSpec
  <2> QED
    BY <2>1, <2>2
<1>2. CASE Mbap(s)
  <2> DEFINE n == MbapTotal(b, q)
  <2>1. ~(Len(b) - q < 6) /\ ~(Len(b) - q < n) /\ Total(s, b, q) = n
    BY <1>2 DEF Verdict, MbapVerdict, Total
  <2>2. n \in Nat
    BY <2>1, TotalType
  <2> HIDE DEF n
  <2> QED
    BY <2>1, <2>2
<1> QED
  BY <1>1, <1>2

\* Resynchronising moves within the bytes received.
LEMMA SkipHasByte ==
  ASSUME NEW s \in ModbusSpec, NEW b \in Seq(Byte), NEW q \in 0 .. Len(b),
         Verdict(s, b, q) \in SkipVerdicts
  PROVE  q + 1 <= Len(b) /\ Mbap(s)
<1>1. Mbap(s) /\ ~(Len(b) - q < 6)
  BY DEF Verdict, MbapVerdict, FixedVerdict, SkipVerdicts
<1> QED
  BY <1>1

\* Received bytes are appended.
LEMMA Appended ==
  ASSUME NEW s \in Seq(Byte), NEW t \in Seq(Byte), NEW i \in Nat, NEW k \in Nat,
         i + k <= Len(t)
  PROVE  /\ s \o SubSeq(t, i + 1, i + k) \in Seq(Byte)
         /\ Len(s \o SubSeq(t, i + 1, i + k)) = Len(s) + k
<1>1. /\ SubSeq(t, i + 1, i + k) \in Seq(Byte)
      /\ Len(SubSeq(t, i + 1, i + k)) = k
  OBVIOUS
<1> QED
  BY <1>1

\* Consumed bytes are dropped.
LEMMA RestOf ==
  ASSUME NEW s \in Seq(Byte), NEW p \in 0 .. Len(s)
  PROVE  /\ SubSeq(s, p + 1, Len(s)) \in Seq(Byte)
         /\ Len(SubSeq(s, p + 1, Len(s))) = Len(s) - p
  OBVIOUS

\* Every step of feedModbus keeps the invariant.
LEMMA SliceStep ==
  ASSUME ModbusCodecAssumption, SliceInv, [Next]_vars
  PROVE  SliceInv'
<1> USE DEF ResponsesAccounted
<1> DEFINE bytes == wire.bytes
           q == At(spec, buf, pos)
<1>t. /\ spec \in Specs /\ wire \in Wires(spec) /\ bytes \in Seq(Byte)
      /\ sent \in 0 .. Len(bytes)
      /\ buf \in Seq(Byte) /\ pos \in 0 .. Len(buf)
      /\ phase \in {"idle", "slice"}
      /\ framed \in Nat /\ refused \in Nat /\ resyncs \in Nat /\ frames \in Nat
  BY DEF ModbusCodecAssumption, SliceInv, TypeOK
<1>s. spec \in ModbusSpec
  BY <1>t DEF ModbusCodecAssumption, ModbusSpec
<1>b. sent = refused + framed + resyncs + (Len(buf) - pos)
  BY DEF SliceInv, ResponseBytesAccounted
<1>i. /\ phase = "idle" => pos = 0
      /\ phase = "slice" => Usable(spec)
      /\ phase = "idle" /\ Sliceable(spec) => Len(buf) < kMaxFrame
  BY DEF SliceInv, ResponseBufferSize
<1>o. /\ ~Usable(spec) => Len(buf) = 0
      /\ Oversized(spec) => Len(buf) = sent /\ frames = 0 /\ pos = 0
  BY DEF SliceInv, ResponseBufferSize
<1>k. /\ Sliceable(spec) => Usable(spec) /\ ~Oversized(spec)
      /\ ~Sliceable(spec) /\ Usable(spec) => Oversized(spec)
      /\ Oversized(spec) => Usable(spec) /\ ~Sliceable(spec)
  BY DEF Sliceable, Oversized
<1>q. /\ q \in pos .. Len(buf) /\ q \in 0 .. Len(buf)
      /\ Mbap(spec) /\ SyncAt(buf, q) = {} => Len(buf) - q <= 3
      /\ ~Mbap(spec) => q = pos
  BY <1>t, <1>s, WhereItStands
<1>u. Usable(spec) /\ ~Sliceable(spec) => ~Mbap(spec) /\ spec.hdr + spec.need > kMaxFrame
  <2>1. spec.hdr \in Nat /\ spec.need \in Nat /\ kMaxFrame \in Nat
    BY <1>s DEF ModbusSpec, ModbusCodecAssumption
  <2> QED
    BY <2>1 DEF Sliceable
<1>1. ASSUME NEW k \in 1 .. Len(bytes), Feed(k)
      PROVE  SliceInv'
  <2> DEFINE more == buf \o SubSeq(bytes, sent + 1, sent + k)
  <2>1. /\ phase = "idle" /\ sent + k <= Len(bytes) /\ sent' = sent + k /\ pos' = 0
        /\ spec' = spec /\ wire' = wire /\ framed' = framed /\ resyncs' = resyncs
        /\ frames' = frames
    BY <1>1 DEF Feed
  <2>2. CASE Usable(spec)
    <3>1. buf' = more /\ phase' = "slice" /\ refused' = refused
      BY <1>1, <2>2, Zenon DEF Feed
    <3> HIDE DEF bytes, q
    <3>2. more \in Seq(Byte) /\ Len(more) = Len(buf) + k
      BY <1>t, <2>1, Appended
    <3> HIDE DEF more
    <3>3. /\ sent' \in 0 .. Len(bytes) /\ buf' \in Seq(Byte) /\ pos' \in 0 .. Len(buf')
          /\ sent' = refused' + framed' + resyncs' + (Len(buf') - pos')
      BY <1>t, <1>b, <1>i, <2>1, <3>1, <3>2
    <3>4. Oversized(spec') => Len(buf') = sent' /\ frames' = 0
      BY <1>t, <1>o, <2>1, <3>1, <3>2
    <3>5. ResponseBufferSize'
      BY <2>1, <2>2, <3>1, <3>4 DEF ResponseBufferSize
    <3> QED
      BY <1>t, <2>1, <2>2, <3>1, <3>3, <3>5
      DEF SliceInv, TypeOK, ResponseBytesAccounted, bytes
  <2>3. CASE ~Usable(spec)
    <3>1. buf' = buf /\ phase' = "idle" /\ refused' = refused + k
      BY <1>1, <2>1, <2>3 DEF Feed
    <3> HIDE DEF bytes, q
    <3>2. /\ sent' \in 0 .. Len(bytes) /\ pos' \in 0 .. Len(buf') /\ refused' \in Nat
          /\ sent' = refused' + framed' + resyncs' + (Len(buf') - pos')
      BY <1>t, <1>b, <1>i, <2>1, <3>1
    <3>3. ResponseBufferSize'
      BY <1>k, <1>o, <2>1, <2>3, <3>1 DEF ResponseBufferSize
    <3> QED
      BY <1>t, <2>1, <2>3, <3>1, <3>2, <3>3
      DEF SliceInv, TypeOK, ResponseBytesAccounted, bytes
  <2> QED
    BY <2>2, <2>3
<1>2. ASSUME NEW v \in SkipVerdicts, Skip(v)
      PROVE  SliceInv'
  <2>1. /\ phase = "slice" /\ Verdict(spec, buf, q) \in SkipVerdicts
        /\ pos' = q + 1 /\ resyncs' = resyncs + (q - pos) + 1 /\ phase' = phase
        /\ spec' = spec /\ wire' = wire /\ sent' = sent /\ buf' = buf
        /\ framed' = framed /\ refused' = refused /\ frames' = frames
    BY <1>2 DEF Skip
  <2> HIDE DEF bytes, q
  <2>2. q + 1 <= Len(buf) /\ Mbap(spec)
    BY <1>s, <1>t, <1>q, <2>1, SkipHasByte
  <2>3. Sliceable(spec)
    BY <1>i, <1>u, <2>1, <2>2
  <2>4. /\ pos' \in 0 .. Len(buf') /\ resyncs' \in Nat
        /\ sent' = refused' + framed' + resyncs' + (Len(buf') - pos')
    BY <1>t, <1>b, <1>q, <2>1, <2>2
  <2>5. ResponseBufferSize'
    BY <1>k, <2>1, <2>3 DEF ResponseBufferSize
  <2> QED
    BY <1>t, <1>i, <1>k, <2>1, <2>3, <2>4, <2>5
    DEF SliceInv, TypeOK, ResponseBytesAccounted, bytes
<1>3. CASE SliceResponse
  <2> DEFINE n == Total(spec, buf, q)
  <2>1. /\ phase = "slice" /\ Verdict(spec, buf, q) = "frame"
        /\ pos' = q + n /\ framed' = framed + n /\ resyncs' = resyncs + (q - pos)
        /\ frames' = frames + 1 /\ phase' = phase
        /\ spec' = spec /\ wire' = wire /\ sent' = sent /\ buf' = buf /\ refused' = refused
    BY <1>3 DEF SliceResponse
  <2>2. Sliceable(spec)
    BY <1>i, <1>u, <2>1 DEF Verdict, FixedVerdict
  <2> HIDE DEF bytes, q
  <2>3. n \in Nat /\ q + n <= Len(buf)
    BY <1>s, <1>t, <1>q, <2>1, ResponseIsThere
  <2> HIDE DEF n
  <2>4. /\ pos' \in 0 .. Len(buf') /\ framed' \in Nat /\ resyncs' \in Nat /\ frames' \in Nat
        /\ sent' = refused' + framed' + resyncs' + (Len(buf') - pos')
    BY <1>t, <1>b, <1>q, <2>1, <2>3
  <2>5. ResponseBufferSize'
    BY <1>k, <2>1, <2>2 DEF ResponseBufferSize
  <2> QED
    BY <1>t, <1>i, <1>k, <2>1, <2>2, <2>4, <2>5
    DEF SliceInv, TypeOK, ResponseBytesAccounted, bytes
<1>4. CASE Compact
  <2> DEFINE rest == SubSeq(buf, q + 1, Len(buf))
  <2>1. phase = "slice" /\ Verdict(spec, buf, q) = "wait"
    BY <1>4 DEF Compact
  <2>2. rest \in Seq(Byte) /\ Len(rest) = Len(buf) - q
    <3> HIDE DEF q
    <3> QED
      BY <1>t, <1>q, RestOf
  <2>3. Len(rest) < kMaxFrame /\ ~(Len(rest) > kMaxStream)
    <3>1. Len(buf) - q < kMaxFrame
      <4> HIDE DEF q
      <4> QED
        BY <1>s, <1>t, <1>q, <2>1, WaitIsShort
    <3> HIDE DEF rest, q
    <3> QED
      BY <2>2, <3>1 DEF ModbusCodecAssumption
  <2>4. /\ buf' = rest /\ resyncs' = resyncs + (q - pos) + 0 /\ pos' = 0 /\ phase' = "idle"
        /\ spec' = spec /\ wire' = wire /\ sent' = sent
        /\ framed' = framed /\ refused' = refused /\ frames' = frames
    BY <1>4, <2>3, Zenon DEF Compact
  <2> HIDE DEF bytes, q, rest
  <2>5. /\ pos' \in 0 .. Len(buf') /\ resyncs' \in Nat
        /\ sent' = refused' + framed' + resyncs' + (Len(buf') - pos')
    BY <1>t, <1>b, <1>q, <2>2, <2>4
  <2>6. Sliceable(spec)
    BY <1>i, <1>u, <2>1 DEF Verdict, FixedVerdict
  <2>7. ResponseBufferSize'
    BY <1>k, <2>3, <2>4, <2>6 DEF ResponseBufferSize
  <2> QED
    BY <1>t, <1>k, <2>2, <2>4, <2>5, <2>6, <2>7, SMTT(30)
    DEF SliceInv, TypeOK, ResponseBytesAccounted, bytes
<1>5. CASE GiveUp
  <2>1. /\ phase = "slice" /\ Verdict(spec, buf, q) = "giveUp" /\ pos' = 0 /\ phase' = "idle"
        /\ spec' = spec /\ wire' = wire /\ sent' = sent /\ buf' = buf /\ framed' = framed
        /\ refused' = refused /\ resyncs' = resyncs /\ frames' = frames
    BY <1>5 DEF GiveUp
  <2>2. ~Mbap(spec) /\ spec.hdr + spec.need > kMaxFrame
    BY <2>1 DEF Verdict, MbapVerdict, FixedVerdict
  <2>3. ~Sliceable(spec)
    <3>1. spec.hdr \in Nat /\ spec.need \in Nat /\ kMaxFrame \in Nat
      BY <1>s DEF ModbusSpec, ModbusCodecAssumption
    <3> QED
      BY <2>2, <3>1 DEF Sliceable
  <2>4. Oversized(spec) /\ pos = 0
    BY <1>i, <1>k, <1>o, <2>1, <2>3
  <2>5. ResponseBufferSize'
    BY <1>k, <1>o, <2>1, <2>4 DEF ResponseBufferSize
  <2> QED
    BY <1>t, <1>b, <2>1, <2>4, <2>5
    DEF SliceInv, TypeOK, ResponseBytesAccounted
<1>6. CASE UNCHANGED vars
  BY <1>6 DEF vars, SliceInv, TypeOK, ResponseBytesAccounted, ResponseBufferSize
<1> QED
  BY <1>1, <1>2, <1>3, <1>4, <1>5, <1>6 DEF Next

\* Every byte feedModbus receives was refused with its configuration, is in a response,
\* counted in resyncs, or buffered, for every header length, register count and stream.
\* With a configuration it slices with, less than kMaxFrame bytes are buffered between
\* two calls and the cap at the end of feedModbus is never reached; with a fixed response
\* longer than kMaxFrame the cap is never reached either, because feedModbus returns in
\* front of it, and the buffer holds the whole stream.
THEOREM ResponsesAreAccounted ==
  ASSUME ModbusCodecAssumption PROVE Spec => []ResponsesAccounted
<1>1. Init => SliceInv
  BY DEF Init, SliceInv, TypeOK, ResponsesAccounted, ResponseBytesAccounted,
         ResponseBufferSize, ModbusCodecAssumption
<1>2. SliceInv /\ [Next]_vars => SliceInv'
  BY SliceStep
<1>3. SliceInv => ResponsesAccounted
  BY DEF SliceInv
<1> QED
  BY <1>1, <1>2, <1>3, PTL DEF Spec
=============================================================================
