---------------------------- MODULE InflateTable ----------------------------
(***************************************************************************)
(* zlib's inflate_table (base/zlib/inftrees): from the code lengths of the  *)
(* symbols to the tables with which inflate looks up a Huffman code, a root *)
(* table indexed by the next bits of the stream and sub-tables for the      *)
(* codes that are longer.  Codes are read with their first bit lowest.      *)
(***************************************************************************)
EXTENDS Integers, Sequences, FiniteSets, TLC

CONSTANTS
  MAXBITS,                    \* the longest code (15)
  ENOUGH_LENS, ENOUGH_DISTS   \* the room for each kind of table

\* An entry of a table.
Code(op, bits, val) == <<op, bits, val>>
Op(e) == e[1]
Bits(e) == e[2]
Val(e) == e[3]
InvalidCode == 64
EndOfBlock == 96

lbase == <<3, 4, 5, 6, 7, 8, 9, 10, 11, 13, 15, 17, 19, 23, 27, 31,
           35, 43, 51, 59, 67, 83, 99, 115, 131, 163, 195, 227, 258, 0, 0>>
lext == <<16, 16, 16, 16, 16, 16, 16, 16, 17, 17, 17, 17, 18, 18, 18, 18,
          19, 19, 19, 19, 20, 20, 20, 20, 21, 21, 21, 21, 16, 77, 202>>
dbase == <<1, 2, 3, 4, 5, 7, 9, 13, 17, 25, 33, 49, 65, 97, 129, 193,
           257, 385, 513, 769, 1025, 1537, 2049, 3073, 4097, 6145,
           8193, 12289, 16385, 24577, 0, 0>>
dext == <<16, 16, 16, 16, 17, 17, 18, 18, 19, 19, 20, 20, 21, 21, 22, 22,
          23, 23, 24, 24, 25, 25, 26, 26, 27, 27, 28, 28, 29, 29, 64, 64>>

\* The entry of a symbol, but for its bits: a literal, a length or a distance
\* with extra bits, or the end of the block.
Entry(type, sym, bits) ==
  CASE type = "CODES"               -> Code(0, bits, sym)
    [] type = "LENS" /\ sym < 256   -> Code(0, bits, sym)
    [] type = "LENS" /\ sym = 256   -> Code(EndOfBlock, bits, 0)
    [] type = "LENS" /\ sym > 256   -> Code(lext[sym - 256], bits, lbase[sym - 256])
    [] type = "DISTS"               -> Code(dext[sym + 1], bits, dbase[sym + 1])

-----------------------------------------------------------------------------
(* lens is a sequence: symbol s has length lens[s + 1], 0 for none.         *)

Count(lens) == [l \in 0..MAXBITS |-> Cardinality({i \in DOMAIN lens : lens[i] = l})]

LongestOf(count) == CHOOSE m \in 0..MAXBITS :
                      /\ m = 0 \/ count[m] # 0
                      /\ \A l \in 1..MAXBITS : l > m => count[l] = 0
ShortestOf(count) == CHOOSE m \in 1..MAXBITS :
                       count[m] # 0 /\ \A l \in 1..MAXBITS : l < m => count[l] = 0

\* The codes of MAXBITS bits left over; negative when there are too many codes.
Left(count) ==
  LET left[l \in 0..MAXBITS] ==
        IF l = 0 THEN 1
        ELSE LET r == left[l - 1] IN IF r < 0 THEN r ELSE 2 * r - count[l]
  IN left[MAXBITS]

\* work: the symbols sorted by length, and by symbol within a length.
Work(lens) ==
  LET syms == [i \in 1..Len(lens) |-> i - 1]
      run[l \in 0..MAXBITS] ==
        IF l = 0 THEN <<>> ELSE run[l - 1] \o SelectSeq(syms, LAMBDA s : lens[s + 1] = l)
  IN run[MAXBITS]

\* The backwards increment of a code of len bits.
NextHuff(huff, len) ==
  LET zeros == {b \in 0..(len - 1) : (huff \div 2^b) % 2 = 0}
  IN IF zeros = {} THEN 0
     ELSE LET b == CHOOSE b \in zeros : \A c \in zeros : c <= b
          IN (huff % 2^b) + 2^b

\* The index bits of a sub-table, from the codes still to enter.
SubTableBits(count, len, drop, max) ==
  LET RECURSIVE Grow(_, _)
      Grow(curr, left) ==
        IF curr + drop >= max THEN curr
        ELSE IF left - count[curr + drop] <= 0 THEN curr
        ELSE Grow(curr + 1, 2 * (left - count[curr + drop]))
  IN Grow(len - drop, 2^(len - drop))

Enough(type, used) ==
  /\ type = "LENS" => used <= ENOUGH_LENS
  /\ type = "DISTS" => used <= ENOUGH_DISTS

\* The table with an entry at all indices whose low bits are those of the code.
Replicate(table, next, huff, drop, len, curr, e) ==
  [i \in DOMAIN table \cup next..(next + 2^curr - 1) |->
     IF i >= next /\ i < next + 2^curr /\ (i - next) % 2^(len - drop) = huff \div 2^drop THEN e
     ELSE IF i \in DOMAIN table THEN table[i] ELSE Code(InvalidCode, 0, 0)]

\* One round of the large loop: the symbol work[sym + 1] of the state t.
FillStep(type, lens, work, max, root, t) ==
  LET sym == t.sym + 1
      next == t.next + 2^t.curr
      Opened(u, low, curr) ==        \* a sub-table for the codes that start with low
        [u EXCEPT !.drop = root, !.next = next, !.curr = curr, !.used = @ + 2^curr, !.low = low,
                  !.full = ~Enough(type, t.used + 2^curr),
                  !.table = [@ EXCEPT ![low] = Code(curr, root, next)]]
      Entered(table, huff, count, len) ==
        [t EXCEPT !.table = table, !.huff = huff, !.sym = sym, !.len = len, !.count = count]
      GoOn(u, low) ==
        IF u.len > root /\ low # t.low
        THEN Opened(u, low, SubTableBits(u.count, u.len, root, max)) ELSE u
      With(u) == GoOn(u, u.huff % 2^root)
      Round(table, huff, count) ==
        IF count[t.len] = 0 /\ t.len = max
        THEN [t EXCEPT !.table = table, !.huff = huff, !.sym = sym, !.done = TRUE]
        ELSE With(Entered(table, huff, count,
                          IF count[t.len] = 0 THEN lens[work[sym + 1] + 1] ELSE t.len))
  IN Round(Replicate(t.table, t.next, t.huff, t.drop, t.len, t.curr,
                     Entry(type, work[t.sym + 1], t.len - t.drop)),
           NextHuff(t.huff, t.len), [t.count EXCEPT ![t.len] = @ - 1])

RECURSIVE Fill(_, _, _, _, _, _)
Fill(type, lens, work, max, root, t) ==
  IF t.done \/ t.full THEN t
  ELSE Fill(type, lens, work, max, root, FillStep(type, lens, work, max, root, t))

\* The entry left over by the one incomplete code that is let through.
FillRest(t) ==
  IF t.huff = 0 THEN t.table
  ELSE [t.table EXCEPT ![t.next + t.huff] = Code(InvalidCode, t.len - t.drop, 0)]

\* Too many codes, or too few but for a single code of one bit.
Refused(type, count) ==
  Left(count) < 0 \/ (Left(count) > 0 /\ (type = "CODES" \/ LongestOf(count) # 1))

\* ret as in the code; the table, a function of its indices; and its root's bits.
inflate_table(type, lens, bits) ==
  LET Built(root, t) ==
        IF t.full THEN [ret |-> 1, bits |-> bits, table |-> <<>>]
        ELSE [ret |-> 0, bits |-> root, table |-> FillRest(t)]
      Start(count, min, root) ==
        [table |-> <<>>, next |-> 0, huff |-> 0, drop |-> 0, len |-> min, curr |-> root,
         sym |-> 0, count |-> count, low |-> 0 - 1, used |-> 2^root, done |-> FALSE,
         full |-> ~Enough(type, 2^root)]
      Rooted(count, max, min, root) ==
        Built(root, Fill(type, lens, Work(lens), max, root, Start(count, min, root)))
      Asked(count, max, min, asked) == Rooted(count, max, min, IF asked < min THEN min ELSE asked)
      Counted(count, max) ==
        IF max = 0 THEN [ret |-> 0, bits |-> 1, table |-> [i \in 0..1 |-> Code(InvalidCode, 1, 0)]]
        ELSE IF Refused(type, count) THEN [ret |-> 0 - 1, bits |-> bits, table |-> <<>>]
        ELSE Asked(count, max, ShortestOf(count), IF bits > max THEN max ELSE bits)
      Of(count) == Counted(count, LongestOf(count))
  IN Of(Count(lens))

-----------------------------------------------------------------------------
\* A look-up with the bits w of the stream: the entry found, with the bits of
\* the code it stands for.
IsSubTable(type, e) == Op(e) < 16 /\ (type = "DISTS" \/ Op(e) # 0)
LookUp(type, t, w) ==
  LET Second(e, s) == Code(Op(s), Bits(e) + Bits(s), Val(s))
      First(e) == IF IsSubTable(type, e)
                  THEN Second(e, t.table[Val(e) + ((w \div 2^Bits(e)) % 2^Op(e))]) ELSE e
  IN First(t.table[w % 2^t.bits])
=============================================================================
