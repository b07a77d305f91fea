----------------------------- MODULE FieldCodec -----------------------------
(***************************************************************************)
(* From the bytes of a field to a column of EtherDB: the value decoding of *)
(* FrameCodec.cpp, the column types materializeField of ConfigDB.cpp gives *)
(* the field types, and the narrowing of EtherDBWriter::writeBatch.  A     *)
(* byte has ByteBits bits (8 in the code).  A floating-point value is the  *)
(* sequence of its bytes, least significant first.                         *)
(***************************************************************************)
EXTENDS Integers, Sequences, FiniteSetsExt, SequencesExt

CONSTANT ByteBits

Byte == 2 ^ ByteBits
Width(size) == 2 ^ (ByteBits * size)          \* of an unsigned integer of so many bytes

\* A conversion to a signed integer of so many bytes.
ToSigned(v, size) ==
  LET u == v % Width(size) IN IF 2 * u >= Width(size) THEN u - Width(size) ELSE u

\* mapFieldType
Kind(code) ==
  CASE code = 0 -> "Bool" [] code \in {1, 2, 5, 9} -> "IntSigned" [] code = 3 -> "Float32"
    [] code = 4 -> "Float64" [] code \in {6, 7, 8, 10} -> "IntUnsigned"
RawSize(code) ==
  CASE code \in {0, 5, 6} -> 1 [] code \in {1, 7} -> 2 [] code \in {2, 3, 8} -> 4 [] code \in {4, 9, 10} -> 8

\* Mutant: an unsigned integer gets the column of its own size.
OutSizeNarrow(code) == RawSize(code)

\* materializeField: unsigned integers are widened.
OutSize(code) ==
  IF Kind(code) # "IntUnsigned" THEN RawSize(code)
  ELSE CASE RawSize(code) = 1 -> 2 [] RawSize(code) = 2 -> 4 [] OTHER -> 8

-----------------------------------------------------------------------------
LoadRaw(p, be) == FoldLeft(LAMBDA v, b : v * Byte + b, 0, IF be THEN p ELSE Reverse(p))

\* (v ^ m) - m with m the sign bit.
SignExtend(v, bits) ==
  LET m == 2 ^ (bits - 1)
      flipped == IF (v \div m) % 2 = 1 THEN v - m ELSE v + m
  IN flipped - m

\* (int64_t) of an unsigned value wraps.
DecodeInt(code, p, bitOffset, bitLen, be) ==
  LET v == LoadRaw(p, be)
      bits == (v \div (2 ^ bitOffset)) % (2 ^ bitLen)
  IN IF bitLen > 0
     THEN IF Kind(code) = "IntSigned" THEN SignExtend(bits, bitLen) ELSE ToSigned(bits, 8)
     ELSE IF Kind(code) = "IntSigned" THEN SignExtend(v, RawSize(code) * ByteBits) ELSE ToSigned(v, 8)

\* loadFloat32, loadFloat64: the bytes of a big-endian value are reversed.
LoadFloat(p, be) == IF be THEN Reverse(p) ELSE p

\* decodePayload: the cell of a field, an integer or the bytes of a float.
DecodeCell(code, p, bitOffset, bitLen, be) ==
  CASE Kind(code) \in {"Float32", "Float64"} -> LoadFloat(p, be)
    [] Kind(code) = "Bool" -> <<IF LoadRaw(p, be) # 0 THEN 1 ELSE 0>>
    [] OTHER -> <<DecodeInt(code, p, bitOffset, bitLen, be)>>

\* writeBatch: an integer cell is narrowed to the column; a float keeps its size.
StoreCell(code, cell) ==
  IF Kind(code) \in {"Float32", "Float64"} THEN cell ELSE <<ToSigned(cell[1], OutSize(code))>>
-----------------------------------------------------------------------------
(* The value a device means by the bytes of a field, bit by bit.              *)
LittleEndian(p, be) == [i \in DOMAIN p |-> IF be THEN p[Len(p) + 1 - i] ELSE p[i]]
Bit(p, k) == (p[k \div ByteBits + 1] \div (2 ^ (k % ByteBits))) % 2
Meant(code, p0, bitOffset, bitLen, be) ==
  LET p == LittleEndian(p0, be)
      n == IF bitLen > 0 THEN bitLen ELSE ByteBits * RawSize(code)
      sum(m) == MapThenSumSet(LAMBDA k : Bit(p, bitOffset + k) * 2 ^ k, 0 .. m - 1)
      low(m) == IF m = 0 THEN 0 ELSE sum(m)
  IN CASE Kind(code) \in {"Float32", "Float64"} -> p
       [] Kind(code) = "Bool" -> <<IF \E i \in DOMAIN p : p[i] # 0 THEN 1 ELSE 0>>
       [] Kind(code) = "IntSigned" -> <<low(n - 1) - Bit(p, bitOffset + n - 1) * 2 ^ (n - 1)>>
       [] OTHER -> <<low(n)>>
=============================================================================
