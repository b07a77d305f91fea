---------------------------- MODULE DeflateBlocks ----------------------------
(***************************************************************************)
(* How zlib's deflate sends a block (base/zlib/trees): the literals and     *)
(* matches collected by _tr_tally are sent by _tr_flush_block stored, with  *)
(* the static codes, or with Huffman codes built from the frequencies of    *)
(* the block's symbols, which then go before them.  An item is a literal    *)
(* <<byte>> or a match <<length, distance>>.                                *)
(*                                                                          *)
(* The sender s: items (l_buf and d_buf), ltree and dtree the frequencies   *)
(* counted, pending the bytes out, bi the bits of bi_buf, and the debug     *)
(* build's compressed_len, the bits that the costs say were sent.           *)
(* Functions of symbols start at 0; bits are sequences, the first to be     *)
(* sent first.                                                              *)
(***************************************************************************)
EXTENDS Integers, Sequences, FiniteSets, FiniteSetsExt, SequencesExt, TLC

CONSTANTS
  MAX_BITS,               \* the longest code (15)
  lit_bufsize             \* room for the items of a block

Numbers(n) == [i \in 1..n |-> i - 1]
Largest(S) == CHOOSE x \in S : \A y \in S : y <= x
Smallest(S) == CHOOSE x \in S : \A y \in S : x <= y

\* The sum of f over a set of numbers.
RECURSIVE SumIn(_, _, _)
SumIn(f, lo, hi) ==
  IF lo = hi THEN IF lo \in DOMAIN f THEN f[lo] ELSE 0
  ELSE SumIn(f, lo, (lo + hi) \div 2) + SumIn(f, (lo + hi) \div 2 + 1, hi)
SumOf(S, f(_)) == IF S = {} THEN 0 ELSE SumIn([x \in S |-> f(x)], Smallest(S), Largest(S))

-----------------------------------------------------------------------------
(* The heap: t.heap holds nodes, t.freq and t.depth belong to the nodes.    *)

smaller(t, n, m) ==
  t.freq[n] < t.freq[m] \/ (t.freq[n] = t.freq[m] /\ t.depth[n] <= t.depth[m])

\* The node v moves down from place k.
RECURSIVE MoveDown(_, _, _)
MoveDown(t, v, k) ==
  LET len == Len(t.heap)
      j == IF 2 * k < len /\ smaller(t, t.heap[2 * k + 1], t.heap[2 * k]) THEN 2 * k + 1 ELSE 2 * k
  IN IF 2 * k > len \/ smaller(t, v, t.heap[j])
     THEN [t EXCEPT !.heap[k] = v]
     ELSE MoveDown([t EXCEPT !.heap[k] = t.heap[j]], v, j)
pqdownheap(t, k) == MoveDown(t, t.heap[k], k)

\* The heap without its smallest node.
pqremove(t) ==
  LET len == Len(t.heap)
  IN pqdownheap([t EXCEPT !.heap = SubSeq([@ EXCEPT ![1] = t.heap[len]], 1, len - 1)], 1)

-----------------------------------------------------------------------------
(* build_tree.                                                              *)

\* The least number of codes is two: symbols are added that do not occur.
RECURSIVE AddCodes(_)
AddCodes(t) ==
  IF Len(t.heap) >= 2 THEN t
  ELSE LET node == IF t.max_code < 2 THEN t.max_code + 1 ELSE 0
       IN AddCodes([t EXCEPT !.heap = Append(@, node), !.freq = (node :> 1) @@ @, !.depth = (node :> 0) @@ @,
                             !.forced = @ \cup {node}, !.max_code = IF @ < 2 THEN node ELSE @])

Start(freq, elems) ==
  LET Heaped(t, half) ==
        LET heaped[i \in 0..half] == IF i = 0 THEN t ELSE LET r == heaped[i - 1] IN pqdownheap(r, half - i + 1)
        IN heaped[half]
      With(t) == Heaped(t, Len(t.heap) \div 2)
      Used(used) ==
        AddCodes([freq |-> [n \in ToSet(used) |-> freq[n]], depth |-> [n \in ToSet(used) |-> 0], dad |-> <<>>,
                  heap |-> used, max_code |-> IF used = <<>> THEN 0 - 1 ELSE used[Len(used)],
                  sorted |-> <<>>, forced |-> {}])
  IN With(Used(SelectSeq(Numbers(elems), LAMBDA n : freq[n] # 0)))

\* The two least frequent nodes get a father, until one is left; t.sorted
\* lists the nodes by falling frequency.
RECURSIVE Combine(_, _)
Combine(t, node) ==
  LET deeper(n, m) == IF t.depth[n] >= t.depth[m] THEN t.depth[n] ELSE t.depth[m]
      Father(r, n, m) ==
        [r EXCEPT !.sorted = <<m, n>> \o @, !.freq = (node :> t.freq[n] + t.freq[m]) @@ @,
                  !.depth = (node :> deeper(n, m) + 1) @@ @,
                  !.dad = (n :> node) @@ (m :> node) @@ @, !.heap[1] = node]
      Removed(r) == Combine(pqdownheap(Father(r, t.heap[1], r.heap[1]), 1), node + 1)
  IN IF Len(t.heap) < 2 THEN [t EXCEPT !.sorted = <<t.heap[1]>> \o @] ELSE Removed(pqremove(t))

\* The lengths in the tree, none above max_length, and how many of the nodes
\* would be above it.
RECURSIVE DepthOf(_, _)
DepthOf(dad, x) == IF x \in DOMAIN dad THEN DepthOf(dad, dad[x]) + 1 ELSE 0
TreeLengths(t, max_length) ==
  LET depth == [x \in DOMAIN t.freq |-> DepthOf(t.dad, x)]
  IN [len |-> [x \in DOMAIN depth |-> IF depth[x] > max_length THEN max_length ELSE depth[x]],
      overflow |-> Cardinality({x \in DOMAIN depth : depth[x] > max_length})]

\* A leaf goes down a level and takes one that is too deep as its brother.
RECURSIVE MoveLeaves(_, _, _)
MoveLeaves(count, overflow, max_length) ==
  IF overflow <= 0 THEN count
  ELSE LET bits == Largest({b \in 1..(max_length - 1) : count[b] # 0})
           moved == [[count EXCEPT ![bits] = @ - 1] EXCEPT ![bits + 1] = @ + 2]
       IN MoveLeaves([moved EXCEPT ![max_length] = @ - 1], overflow - 2, max_length)

\* The lengths by the counts: the longest for the least frequent leaves.
Reassign(t, len, count, max_length) ==
  LET leaves == SelectSeq(t.sorted, LAMBDA x : x <= t.max_code)
      n == Len(leaves)
      \* how many leaves have a length of at least b
      from(b) == SumOf(b..max_length, LAMBDA l : count[l])
      place(x) == CHOOSE i \in 1..n : leaves[n - i + 1] = x
  IN [x \in DOMAIN len |->
        IF \E i \in 1..n : leaves[i] = x
        THEN Largest({b \in 1..max_length : from(b) >= place(x)}) ELSE len[x]]

gen_bitlen(t, max_length) ==
  LET CountOf(len) ==
        [b \in 0..MAX_BITS |-> Cardinality({x \in DOMAIN len : x <= t.max_code /\ len[x] = b})]
      Fixed(len, count) == [len |-> Reassign(t, len, count, max_length), count |-> count]
      With(r, count) == IF r.overflow = 0 THEN [len |-> r.len, count |-> count]
                        ELSE Fixed(r.len, MoveLeaves(count, r.overflow, max_length))
      Of(r) == With(r, CountOf(r.len))
  IN Of(TreeLengths(t, max_length))

\* The codes of the symbols in len, with their bits as they are sent: the
\* highest first.
gen_codes(len, count) ==
  LET next[b \in 0..MAX_BITS] == IF b = 0 THEN 0 ELSE LET r == next[b - 1] IN
                                   2 * (r + (IF b = 1 THEN 0 ELSE count[b - 1]))
      before(n) == Cardinality({m \in DOMAIN len : m < n /\ len[m] = len[n]})
  IN [n \in DOMAIN len |->
        LET code == next[len[n]] + before(n) IN [i \in 1..len[n] |-> (code \div 2^(len[n] - i)) % 2]]

\* The lengths and codes, and what the block's data costs with them: opt, or
\* static with the lengths stree.
build_tree(freq, elems, max_length, xbits, stree) ==
  LET Result(t, used, len, count) ==
        [len |-> [n \in 0..(elems - 1) |-> IF n \in used THEN len[n] ELSE 0],
         code |-> gen_codes(len, count), max_code |-> t.max_code, forced |-> t.forced,
         opt |-> SumOf(used, LAMBDA n : t.freq[n] * (len[n] + xbits[n])) - Cardinality(t.forced),
         static |-> IF stree = <<>> THEN 0
                    ELSE SumOf(used, LAMBDA n : t.freq[n] * (stree[n] + xbits[n]))
                           - SumOf(t.forced, LAMBDA n : stree[n])]
      Used(t, g, used) == Result(t, used, [n \in used |-> g.len[n]], g.count)
      Sized(t, g) == Used(t, g, {n \in DOMAIN g.len : n <= t.max_code})
      Of(t) == Sized(t, gen_bitlen(t, max_length))
  IN Of(Combine(Start(freq, elems), elems))

-----------------------------------------------------------------------------
(* A block. *)

LITERALS == 256
END_BLOCK == 256
L_CODES == 286
D_CODES == 30
BL_CODES == 19
MAX_BL_BITS == 7
Buf_size == 16

extra_lbits == [c \in 0..28 |-> IF c < 8 \/ c = 28 THEN 0 ELSE c \div 4 - 1]
extra_dbits == [c \in 0..29 |-> IF c < 4 THEN 0 ELSE c \div 2 - 1]
extra_blbits == [c \in 0..18 |-> CASE c = 16 -> 2 [] c = 17 -> 3 [] c = 18 -> 7 [] OTHER -> 0]
bl_order == <<16, 17, 18, 0, 8, 7, 9, 6, 10, 5, 11, 4, 12, 3, 13, 2, 14, 1, 15>>

\* The codes' first lengths (less 3) and distances (less 1).
base_length == [c \in 0..28 |-> IF c = 28 THEN 0 ELSE SumOf(0..(c - 1), LAMBDA d : 2^extra_lbits[d])]
base_dist == [c \in 0..29 |-> SumOf(0..(c - 1), LAMBDA d : 2^extra_dbits[d])]
length_code(lc) == IF lc = 255 THEN 28 ELSE Largest({c \in 0..27 : base_length[c] <= lc})
d_code(dist) == Largest({c \in 0..29 : base_dist[c] <= dist})

static_llen == [n \in 0..287 |-> IF n <= 143 THEN 8 ELSE IF n <= 255 THEN 9 ELSE IF n <= 279 THEN 7 ELSE 8]
static_ltree ==
  [len |-> static_llen,
   code |-> gen_codes(static_llen,
              [b \in 0..MAX_BITS |-> Cardinality({n \in 0..287 : static_llen[n] = b})])]
static_dtree ==
  [len |-> [n \in 0..29 |-> 5], code |-> [n \in 0..29 |-> [i \in 1..5 |-> (n \div 2^(5 - i)) % 2]]]

\* The extra bits of a symbol of each alphabet.
LExtra == [n \in 0..(L_CODES - 1) |-> IF n <= LITERALS THEN 0 ELSE extra_lbits[n - LITERALS - 1]]

-----------------------------------------------------------------------------
(* The bit buffer.                                                          *)

LowBits(v, n) == [i \in 1..n |-> (v \div 2^(i - 1)) % 2]
OctetOf(bits) == SumOf(1..Len(bits), LAMBDA i : bits[i] * 2^(i - 1))
put_short(s, bits) == [s EXCEPT !.pending = @ \o <<OctetOf(SubSeq(bits, 1, 8)), OctetOf(SubSeq(bits, 9, 16))>>]

\* A list of sequences as one.
RECURSIVE Flat(_)
Flat(list) ==
  LET n == Len(list)
      half == n \div 2
  IN IF n = 0 THEN <<>> ELSE IF n = 1 THEN list[1]
     ELSE Flat(SubSeq(list, 1, half)) \o Flat(SubSeq(list, half + 1, n))

\* The values sent one after the other: whenever they exceed the buffer, its 16
\* bits go out.
send_bits(s, bits) ==
  LET all == s.bi \o bits
      shorts == (Len(all) - 1) \div Buf_size
  IN [s EXCEPT !.pending = @ \o [i \in 1..(2 * shorts) |-> OctetOf(SubSeq(all, 8 * i - 7, 8 * i))],
               !.bi = SubSeq(all, Buf_size * shorts + 1, Len(all))]
SendAll(s, list) == send_bits(s, Flat(list))

bi_flush(s) ==
  IF Len(s.bi) = 16 THEN [put_short(s, s.bi) EXCEPT !.bi = <<>>]
  ELSE IF Len(s.bi) >= 8
  THEN [s EXCEPT !.pending = Append(@, OctetOf(SubSeq(s.bi, 1, 8))), !.bi = SubSeq(@, 9, Len(@))]
  ELSE s

bi_windup(s) ==
  [s EXCEPT !.pending = @ \o (IF Len(s.bi) > 8 THEN <<OctetOf(SubSeq(s.bi, 1, 8)), OctetOf(SubSeq(s.bi, 9, Len(s.bi)))>>
                              ELSE IF Len(s.bi) > 0 THEN <<OctetOf(s.bi)>> ELSE <<>>),
            !.bi = <<>>]

-----------------------------------------------------------------------------
(* The lengths of a code are sent in runs.  lens is a function from 0.      *)

\* Mutant of MaxCount: a run that goes on may be one longer.
MaxCountOver(cur, next) == IF next = 0 THEN 138 ELSE 7

\* How long a run of next may be after cur, and from where a repeat pays.
MaxCount(cur, next) == IF next = 0 THEN 138 ELSE IF cur = next THEN 6 ELSE 7
MinCount(cur, next) == IF next = 0 THEN 3 ELSE IF cur = next THEN 3 ELSE 4

\* The runs as the loops of scan_tree and send_tree find them: each a length,
\* how often, the length before, and the least count for a repeat.
RECURSIVE RunsFrom(_, _, _, _)
RunsFrom(lens, max_code, n, prev) ==
  IF n > max_code THEN <<>>
  ELSE LET cur == lens[n]
           max == MaxCount(prev, cur)
           ends == {k \in 1..(max - 1) : n + k > max_code \/ lens[n + k] # cur}
           count == IF ends = {} THEN max ELSE Smallest(ends)
       IN <<[len |-> cur, count |-> count, prev |-> prev, min |-> MinCount(prev, cur)]>>
            \o RunsFrom(lens, max_code, n + count, cur)
RunsOf(lens, max_code) == RunsFrom(lens, max_code, 0, 0 - 1)

\* scan_tree: how often it counts the code c of the length alphabet.
ScanRun(r, c) ==
  IF r.count < r.min THEN IF c = r.len THEN r.count ELSE 0
  ELSE IF r.len # 0 THEN IF c = 16 \/ (c = r.len /\ r.len # r.prev) THEN 1 ELSE 0
  ELSE IF c = (IF r.count <= 10 THEN 17 ELSE 18) THEN 1 ELSE 0
scan_tree(runs, c) == SumOf(DOMAIN runs, LAMBDA i : ScanRun(runs[i], c))

\* send_tree: the codes of a run, each with the value of its extra bits.
SendRun(r) ==
  IF r.count < r.min THEN [i \in 1..r.count |-> <<r.len, 0>>]
  ELSE IF r.len # 0 /\ r.len # r.prev THEN << <<r.len, 0>>, <<16, r.count - 1 - 3>> >>
  ELSE IF r.len # 0 THEN << <<16, r.count - 3>> >>
  ELSE IF r.count <= 10 THEN << <<17, r.count - 3>> >>
  ELSE << <<18, r.count - 11>> >>
SentRuns(runs) == Flat([i \in 1..Len(runs) |-> SendRun(runs[i])])
send_tree(s, runs, bl) ==
  LET sent == SentRuns(runs)
  IN SendAll(s, [i \in 1..Len(sent) |-> bl.code[sent[i][1]] \o LowBits(sent[i][2], extra_blbits[sent[i][1]])])

-----------------------------------------------------------------------------
(* Blocks.                                                                  *)

NoItems == [items |-> <<>>, ltree |-> [n \in {END_BLOCK} |-> 1], dtree |-> <<>>]
init_block(s) == NoItems @@ s
tr_init == init_block([pending |-> <<>>, bi |-> <<>>, compressed_len |-> 0])

FreqOf(tree, n) == IF n \in DOMAIN tree THEN tree[n] ELSE 0
Counted(tree, syms) ==
  [n \in DOMAIN tree \cup ToSet(syms) |-> FreqOf(tree, n) + Cardinality({i \in DOMAIN syms : syms[i] = n})]

\* The symbols of an item.
LSymbol(item) == IF Len(item) = 1 THEN item[1] ELSE length_code(item[1] - 3) + LITERALS + 1
DSymbol(item) == d_code(item[2] - 1)

\* The items are kept and their symbols counted.
tr_tally(s, items) ==
  LET matches == SelectSeq(items, LAMBDA it : Len(it) = 2)
  IN [s EXCEPT !.items = @ \o items,
               !.ltree = Counted(@, [i \in 1..Len(items) |-> LSymbol(items[i])]),
               !.dtree = Counted(@, [i \in 1..Len(matches) |-> DSymbol(matches[i])])]
\* The caller ends the block with the item that fills the buffer.
HasRoom(s, items) == Len(s.items) + Len(items) <= lit_bufsize - 1

\* The codes and extra bits of an item.
ItemBits(item, l, d) ==
  IF Len(item) = 1 THEN l.code[item[1]]
  ELSE LET lc == item[1] - 3
           c == length_code(lc)
           dist == item[2] - 1
           e == d_code(dist)
       IN l.code[c + LITERALS + 1] \o LowBits(lc - base_length[c], extra_lbits[c])
            \o d.code[e] \o LowBits(dist - base_dist[e], extra_dbits[e])
compress_block(s, l, d) ==
  SendAll(s, [i \in 1..Len(s.items) |-> ItemBits(s.items[i], l, d)] \o <<l.code[END_BLOCK]>>)

tr_stored_block(s, bytes, last) ==
  LET t == bi_windup(send_bits(s, <<last, 0, 0>>))
      n == Len(bytes)
      u == put_short(put_short(t, LowBits(n, 16)), LowBits(65535 - n, 16))
  IN [u EXCEPT !.pending = @ \o bytes, !.compressed_len = ((@ + 3 + 7) \div 8) * 8 + (n + 4) * 8]

\* An empty static block.
tr_align(s) ==
  bi_flush(SendAll([s EXCEPT !.compressed_len = @ + 10], <<<<0, 1, 0>>, static_ltree.code[END_BLOCK]>>))

\* The trees of the block: both codes, the code of their lengths, how many of
\* its lengths are sent, and the costs opt_len and static_len.
Trees(s) ==
  LET All(l, d, bl, lruns, druns, blcodes) ==
        [l |-> l, d |-> d, bl |-> bl, lruns |-> lruns, druns |-> druns, blcodes |-> blcodes,
         opt_len |-> l.opt + d.opt + bl.opt + 3 * blcodes + 5 + 5 + 4, static_len |-> l.static + d.static]
      WithLengths(l, d, bl, lruns, druns) ==
        All(l, d, bl, lruns, druns, Largest({3} \cup {i \in 4..BL_CODES : bl.len[bl_order[i]] # 0}))
      WithRuns(l, d, lruns, druns) ==
        WithLengths(l, d, build_tree([c \in 0..(BL_CODES - 1) |-> scan_tree(lruns, c) + scan_tree(druns, c)],
                                     BL_CODES, MAX_BL_BITS, extra_blbits, <<>>), lruns, druns)
      WithCodes(l, d) == WithRuns(l, d, RunsOf(l.len, l.max_code), RunsOf(d.len, d.max_code))
  IN WithCodes(
       build_tree([n \in 0..(L_CODES - 1) |-> FreqOf(s.ltree, n)], L_CODES, MAX_BITS, LExtra, static_llen),
       build_tree([n \in 0..(D_CODES - 1) |-> FreqOf(s.dtree, n)], D_CODES, MAX_BITS, extra_dbits, static_dtree.len))

send_all_trees(s, t) ==
  LET counts == <<LowBits(t.l.max_code + 1 - 257, 5), LowBits(t.d.max_code + 1 - 1, 5), LowBits(t.blcodes - 4, 4)>>
      lens == [i \in 1..t.blcodes |-> LowBits(t.bl.len[bl_order[i]], 3)]
  IN send_tree(send_tree(SendAll(s, counts \o lens), t.lruns, t.bl), t.druns, t.bl)

\* Bytes for so many bits after the three of the block's type.
InBytes(bits) == (bits + 3 + 7) \div 8

\* How the block is sent: by the smallest of the three.  With level 0 it is
\* stored, and the trees are not built.
Choice(level, fixed, t, stored_len, hasBuf) ==
  LET static_lenb == InBytes(t.static_len)
      opt_lenb == IF static_lenb <= InBytes(t.opt_len) THEN static_lenb ELSE InBytes(t.opt_len)
  IN IF level = 0 \/ (stored_len + 4 <= opt_lenb /\ hasBuf) THEN "STORED_BLOCK"
     ELSE IF fixed \/ static_lenb = opt_lenb THEN "STATIC_TREES" ELSE "DYN_TREES"

SendBlock(s, t, choice, bytes, last) ==
  LET costs(bits) == [s EXCEPT !.compressed_len = @ + 3 + bits]
  IN CASE choice = "STORED_BLOCK" -> tr_stored_block(s, bytes, last)
       [] choice = "STATIC_TREES" ->
            compress_block(send_bits(costs(t.static_len), <<last, 1, 0>>), static_ltree, static_dtree)
       [] choice = "DYN_TREES" ->
            compress_block(send_all_trees(send_bits(costs(t.opt_len), <<last, 0, 1>>), t), t.l, t.d)

\* bytes is the text of the block; the caller has it in its window unless it
\* is too old.
tr_flush_block(s, level, fixed, bytes, hasBuf, last) ==
  LET Sent(t) == init_block(SendBlock(s, t, Choice(level, fixed, t, Len(bytes), hasBuf), bytes, last))
      Ended(sent) == IF last = 1 THEN bi_windup(sent) ELSE sent
  IN Ended(Sent(Trees(s)))
=============================================================================
