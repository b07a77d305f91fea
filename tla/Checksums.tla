------------------------------ MODULE Checksums ------------------------------
(***************************************************************************)
(* zlib's check values (base/zlib/adler32, crc32).  A word of the CRC is    *)
(* the sequence of its bits, the lowest first; an Adler value is the pair   *)
(* of its sums.                                                             *)
(***************************************************************************)
EXTENDS Naturals, Sequences, SequencesExt

CONSTANTS
  BASE,       \* the modulus of the sums (65521)
  NMAX,       \* the bytes summed up before a modulo is due (5552)
  UNROLL,     \* the bytes of one unrolled round (16); fewer are a short buffer
  WORDBITS,   \* the width the sums are kept in (32)
  BYTEBITS,   \* the bits of a byte (8); a word of the CRC has four bytes
  CRCTERMS    \* the terms of the CRC's polynomial but the highest

Byte == 0..(2^BYTEBITS - 1)

-----------------------------------------------------------------------------
(* adler32.c                                                                *)

Word(n) == n % 2^WORDBITS

\* The sums after the bytes of buf, with no modulo.
DO(a, buf) ==
  LET sum[i \in 0..Len(buf)] ==
        IF i = 0 THEN a
        ELSE LET r == sum[i - 1]
                 s == Word(r[1] + buf[i])
             IN <<s, Word(r[2] + s)>>
  IN sum[Len(buf)]

Less(n) == IF n >= BASE THEN n - BASE ELSE n
MOD(a) == <<a[1] % BASE, a[2] % BASE>>

\* Mutant of NmaxBlocks: a block is one unrolled round too long.
NmaxBlocksLong(a, buf) ==
  LET n == Len(buf) \div (NMAX + UNROLL)
      size == NMAX + UNROLL
      sum[i \in 0..n] ==
        IF i = 0 THEN a ELSE MOD(DO(sum[i - 1], SubSeq(buf, (i - 1) * size + 1, i * size)))
  IN <<sum[n], SubSeq(buf, n * size + 1, Len(buf))>>

\* The blocks of NMAX bytes: the sums after them and the bytes that are left.
NmaxBlocks(a, buf) ==
  LET n == Len(buf) \div NMAX
      sum[i \in 0..n] ==
        IF i = 0 THEN a ELSE MOD(DO(sum[i - 1], SubSeq(buf, (i - 1) * NMAX + 1, i * NMAX)))
  IN <<sum[n], SubSeq(buf, n * NMAX + 1, Len(buf))>>

adler32_z(a, buf) ==
  LET one == Less(a[1] + buf[1])
      short == DO(a, buf)
      blocks == NmaxBlocks(a, buf)
  IN IF Len(buf) = 1 THEN <<one, Less(a[2] + one)>>
     ELSE IF Len(buf) < UNROLL THEN <<Less(short[1]), short[2] % BASE>>
     ELSE IF blocks[2] = <<>> THEN blocks[1]
     ELSE MOD(DO(blocks[1], blocks[2]))

adler32_init == <<1, 0>>

\* The value of two buffers from the values of each and the second's length.
adler32_combine_(a1, a2, len2) ==
  LET rem == len2 % BASE
      sum1 == a1[1] + a2[1] + BASE - 1
      sum2 == ((rem * a1[1]) % BASE) + a1[2] + a2[2] + BASE - rem
      half == IF sum2 >= 2 * BASE THEN sum2 - 2 * BASE ELSE sum2
  IN <<Less(Less(sum1)), Less(half)>>

-----------------------------------------------------------------------------
(* crc32.c                                                                  *)

GF2_DIM == 4 * BYTEBITS
Xor(a, b) == [i \in 1..GF2_DIM |-> (a[i] + b[i]) % 2]
Not(a) == [i \in 1..GF2_DIM |-> 1 - a[i]]
Zero == [i \in 1..GF2_DIM |-> 0]
Right(a, n) == [i \in 1..GF2_DIM |-> IF i + n <= GF2_DIM THEN a[i + n] ELSE 0]
Left4(a, n) == [i \in 1..GF2_DIM |-> IF i > n THEN a[i - n] ELSE 0]
ToWord(n) == [i \in 1..GF2_DIM |-> IF i <= BYTEBITS THEN (n \div 2^(i - 1)) % 2 ELSE 0]

\* The k-th byte of a word, the lowest is 0.
ByteOf(a, k) ==
  LET v[i \in 0..BYTEBITS] ==
        IF i = 0 THEN 0 ELSE v[i - 1] + 2^(i - 1) * a[k * BYTEBITS + i]
  IN v[BYTEBITS]
ZSWAP32(a) == [i \in 1..GF2_DIM |->
                 a[(3 - ((i - 1) \div BYTEBITS)) * BYTEBITS + ((i - 1) % BYTEBITS) + 1]]

poly == [i \in 1..GF2_DIM |-> IF (GF2_DIM - i) \in CRCTERMS THEN 1 ELSE 0]

\* The register after one bit.
ShiftOut(c) == IF c[1] = 1 THEN Xor(poly, Right(c, 1)) ELSE Right(c, 1)

\* crc_table[0] to [3]: a byte followed by no, one, two and three zero bytes;
\* crc_table[4] to [7]: their bytes reversed.
make_crc_table ==
  LET first == [n \in Byte |->
                  LET c[k \in 0..BYTEBITS] == IF k = 0 THEN ToWord(n) ELSE ShiftOut(c[k - 1])
                  IN c[BYTEBITS]]
      Next0(c) == Xor(first[ByteOf(c, 0)], Right(c, BYTEBITS))
      row[k \in 0..3] ==
        IF k = 0 THEN first ELSE LET r == row[k - 1] IN [n \in Byte |-> Next0(r[n])]
  IN [k \in 0..7 |-> IF k < 4 THEN row[k] ELSE [n \in Byte |-> ZSWAP32(row[k - 4][n])]]
crc_table == make_crc_table

DO1(c, b) == Xor(crc_table[0][ByteOf(Xor(c, ToWord(b)), 0)], Right(c, BYTEBITS))

\* Four bytes of the buffer as a word of a machine of the given byte order.
Load4(buf, i, little) ==
  [j \in 1..GF2_DIM |->
     LET k == (j - 1) \div BYTEBITS
     IN ToWord(buf[IF little THEN i + k ELSE i + 3 - k])[((j - 1) % BYTEBITS) + 1]]

\* The bytes of c looked up in four rows of the table, the lowest first.
InRows(table, c, i, j, k, l) ==
  Xor(Xor(table[i][ByteOf(c, 0)], table[j][ByteOf(c, 1)]),
      Xor(table[k][ByteOf(c, 2)], table[l][ByteOf(c, 3)]))
DOLIT4(c, w) == InRows(crc_table, Xor(c, w), 3, 2, 1, 0)
DOBIG4(c, w) == InRows(crc_table, Xor(c, w), 4, 5, 6, 7)
DOBIG1(c, b) == Xor(crc_table[4][ByteOf(Xor(Right(c, 3 * BYTEBITS), ToWord(b)), 0)], Left4(c, BYTEBITS))

\* The buffer starts off bytes past a word's boundary: bytes up to the next
\* boundary, words while there are four bytes, and the bytes that are left.
ByWords(c0, buf, off, little) ==
  LET lead == IF off = 0 THEN 0 ELSE IF 4 - off < Len(buf) THEN 4 - off ELSE Len(buf)
      words == (Len(buf) - lead) \div 4
      One(c, b) == IF little THEN DO1(c, b) ELSE DOBIG1(c, b)
      Four(c, w) == IF little THEN DOLIT4(c, w) ELSE DOBIG4(c, w)
      head == FoldLeft(One, c0, SubSeq(buf, 1, lead))
      body[i \in 0..words] ==
        IF i = 0 THEN head ELSE Four(body[i - 1], Load4(buf, lead + 4 * (i - 1) + 1, little))
  IN FoldLeft(One, body[words], SubSeq(buf, lead + 4 * words + 1, Len(buf)))

crc32_little(crc, buf, off) == Not(ByWords(Not(crc), buf, off, TRUE))
crc32_big(crc, buf, off) == ZSWAP32(Not(ByWords(Not(ZSWAP32(crc)), buf, off, FALSE)))
crc32_init == Zero

gf2_matrix_times(mat, vec) ==
  LET sum[i \in 0..GF2_DIM] ==
        IF i = 0 THEN Zero
        ELSE LET r == sum[i - 1] IN IF vec[i] = 1 THEN Xor(r, mat[i]) ELSE r
  IN sum[GF2_DIM]
gf2_matrix_square(mat) == [n \in 1..GF2_DIM |-> gf2_matrix_times(mat, mat[n])]

\* The operator for one zero bit.
ZeroBit == [n \in 1..GF2_DIM |-> IF n = 1 THEN poly ELSE Left4(ToWord(1), n - 2)]
\* The operator for one zero byte: squared for two, four, ... bits.
ZeroByte ==
  LET op[k \in 0..BYTEBITS] ==
        IF k = 0 THEN ZeroBit
        ELSE IF 2^k <= BYTEBITS THEN gf2_matrix_square(op[k - 1]) ELSE op[k - 1]
  IN op[BYTEBITS]

\* The value of two buffers: the first's followed by len2 zero bytes, and the
\* second's.
crc32_combine_(crc1, crc2, len2) ==
  LET run[k \in 0..len2] ==   \* after k bits of len2: crc1 and the operator
        IF k = 0 THEN <<crc1, ZeroByte>>
        ELSE LET r == run[k - 1]
             IN IF 2^(k - 1) > len2 THEN r
                ELSE <<IF (len2 \div 2^(k - 1)) % 2 = 1 THEN gf2_matrix_times(r[2], r[1]) ELSE r[1],
                       gf2_matrix_square(r[2])>>
  IN IF len2 <= 0 THEN crc1 ELSE Xor(run[len2][1], crc2)
=============================================================================
