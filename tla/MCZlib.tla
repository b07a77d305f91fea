-------------------------------- MODULE MCZlib --------------------------------
(***************************************************************************)
(* The zlib that the adapter carries.  Each behaviour is of one part:       *)
(*   streams  streams of every kind of block and container, right and wrong *)
(*   long     long matches, with the real limits of inflate_fast            *)
(*   window   all short sequences of items over a window of four bytes      *)
(*   sync     broken streams in which the caller looks for a place to resume*)
(*   send     the blocks that deflate sends (DeflateBlocks) are read by      *)
(*            inflate (Inflate); the part of deflate that finds matches hands *)
(*            over chunks of items and decides when a block ends             *)
(***************************************************************************)
EXTENDS Inflate, DeflateBlocks

CONSTANTS
  Parts,
  Chunks,      \* the lists of items handed over at once; matches stay within one
  MaxChunks, MaxMarks,
  Levels, FixedOnly,  \* the levels in use, 0 to store; whether the strategy is Z_FIXED
  TooOld       \* whether a block's text may have left the window: BOOLEAN or {FALSE}

VARIABLES
  sender,      \* the sender's state, as in DeflateBlocks
  blockStart,  \* where in the text the block begins
  chunks,      \* the chunks handed over
  marks        \* the flushes asked for between blocks

allvars == <<sender, blockStart, chunks, marks, vars>>
Sending == input.bytes = <<>>
Written == input.out
BlockWritten == SubSeq(Written, blockStart + 1, Len(Written))
\* The text of a chunk: its literals, and what each match repeats.
RECURSIVE TextFrom(_, _)
TextFrom(text, items) ==
  LET at == {i \in 1..Len(items) : Len(items[i]) = 2}
      n == CHOOSE i \in at : \A j \in at : i <= j
      literals(k) == text \o [i \in 1..k |-> items[i][1]]
      copied(t, len, dist) == t \o [k \in 1..len |-> t[Len(t) - dist + ((k - 1) % dist) + 1]]
  IN IF at = {} THEN literals(Len(items))
     ELSE TextFrom(copied(literals(n - 1), items[n][1], items[n][2]), SubSeq(items, n + 1, Len(items)))
TextOf(chunk) == TextFrom(<<>>, chunk)

RoundInit ==
  /\ Init
  /\ sender = tr_init /\ blockStart = 0 /\ chunks = 0 /\ marks = 0

\* deflate adds to the block.
Tally(chunk) ==
  /\ Sending
  /\ chunks < MaxChunks /\ HasRoom(sender, chunk)
  /\ sender' = tr_tally(sender, chunk) /\ chunks' = chunks + 1
  /\ input' = [input EXCEPT !.out = @ \o TextOf(chunk)]
  /\ UNCHANGED <<blockStart, marks, st, strm, call, output>>

\* deflate ends the block; with the last one the stream is complete.
Flush(level, hasBuf, last) ==
  /\ Sending /\ (sender.items # <<>> \/ last = 1) /\ (level = 0 => hasBuf)
  /\ \E s \in {tr_flush_block(sender, level, FixedOnly, BlockWritten, hasBuf, last)} :
        /\ sender' = s
        /\ input' = IF last = 1 THEN [input EXCEPT !.bytes = s.pending, !.used = Len(s.pending)] ELSE input
  /\ blockStart' = Len(Written)
  /\ UNCHANGED <<chunks, marks, st, strm, call, output>>

\* deflate is asked to flush: an empty block, or the full bytes of the buffer.
Mark ==
  /\ Sending /\ sender.items = <<>> /\ marks < MaxMarks
  /\ marks' = marks + 1
  /\ sender' \in {tr_align(sender), tr_stored_block(sender, <<>>, 0), bi_flush(sender)}
  /\ UNCHANGED <<blockStart, chunks, vars>>

Read ==
  /\ ~Sending
  /\ Next
  /\ UNCHANGED <<sender, blockStart, chunks, marks>>

RoundStep ==
  \/ \E chunk \in Chunks : Tally(chunk)
  \/ \E level \in Levels, old \in TooOld, last \in {0, 1} : Flush(level, ~old, last)
  \/ Mark
  \/ Read
-----------------------------------------------------------------------------
(* Properties.                                                              *)

\* "bad compressed size" (the assertion of _tr_flush_block): the costs by which
\* a block is chosen are the bits that are really sent, trees included.
SentAsCosted == Sending => sender.compressed_len = 8 * Len(sender.pending) + Len(sender.bi)

SentBits(s) == 8 * Len(s.pending) + Len(s.bi)
\* The reader gives out the text: nothing that deflate sends is refused.
ReadAsWritten ==
  ~Sending => /\ Prefix(output, Written) /\ st.mode # "BAD"
              /\ st.mode = "DONE" => output = Written /\ strm.next_in = Len(sender.pending)

-----------------------------------------------------------------------------
(* Streams: the deflate format's own definition of what a list of blocks is *)
(* encoded as, and of what it means.  A block is a list of bytes to store,  *)
(* or of literals <<b>> and matches <<length, distance>> under a fixed or a *)
(* given code.                                                              *)

Concat(seqs) == FoldLeft(LAMBDA a, b : a \o b, <<>>, seqs)

\* The canonical code of a symbol, its highest bit first.
Coded(lens, s) ==
  LET l == lens[s + 1]
      of(b) == Cardinality({u \in 1..Len(lens) : lens[u] = b})
      first[b \in 1..15] == IF b = 1 THEN 0 ELSE LET r == first[b - 1] IN 2 * (r + of(b - 1))
      code == first[l] + Cardinality({u \in 1..s : lens[u] = l})
  IN [i \in 1..l |-> (code \div 2^(l - i)) % 2]

\* The symbol of a length or a distance, and its extra bits.
SymbolIn(base, n) == CHOOSE i \in 1..Len(base) :
                       base[i] <= n /\ base[i] > 0 /\ \A j \in 1..Len(base) : base[j] <= n => base[j] <= base[i]
Coding(lens, dists, item) ==
  IF Len(item) = 1 THEN Coded(lens, item[1])
  ELSE LET l == SymbolIn(lbase, item[1])
           d == SymbolIn(dbase, item[2])
       IN Coded(lens, 256 + l) \o BitsOf(item[1] - lbase[l], lext[l] - 16)
            \o Coded(dists, d - 1) \o BitsOf(item[2] - dbase[d], dext[d] - 16)

FixedL == [i \in 1..288 |-> IF i <= 144 THEN 8 ELSE IF i <= 256 THEN 9 ELSE IF i <= 280 THEN 7 ELSE 8]
FixedD == [i \in 1..32 |-> 5]
Codings(lens, dists, items) == Concat([i \in 1..Len(items) |-> Coding(lens, dists, items[i])])

\* The bits of a block after the bits so far.
BlockBits(so, b, last) ==
  LET head == <<IF last THEN 1 ELSE 0>> \o BitsOf(b.kind, 2)
      pad == (8 - ((Len(so) + 3) % 8)) % 8
  IN CASE b.kind = 0 ->
            so \o head \o [i \in 1..pad |-> 0] \o BitsOf(Len(b.items), 16) \o BitsOf(65535 - Len(b.items), 16)
               \o Concat([i \in 1..Len(b.items) |-> BitsOf(b.items[i], 8)])
       [] b.kind = 1 -> so \o head \o Codings(FixedL, FixedD, b.items) \o Coded(FixedL, 256)
       [] b.kind = 2 -> so \o head \o b.header \o Codings(b.lens, b.dists, b.items) \o Coded(b.lens, 256)
       [] b.kind = 3 -> so \o head \o b.items
StreamBits(blocks) ==
  LET run[i \in 0..Len(blocks)] ==
        IF i = 0 THEN <<>>
        ELSE LET r == run[i - 1] IN BlockBits(r, blocks[i], i = Len(blocks))
  IN run[Len(blocks)]
ToBytes(bits) ==
  LET full == bits \o [i \in 1..((8 - (Len(bits) % 8)) % 8) |-> 0]
  IN HeldBytes(full)

Stored_(bytes) == [kind |-> 0, items |-> bytes]
Fixed(items) == [kind |-> 1, items |-> items]
Raw(bits) == [kind |-> 3, items |-> bits]

\* What the blocks mean after the dictionary.
Meaning(blocks, dict) ==
  LET items == Concat([i \in 1..Len(blocks) |->
                 IF blocks[i].kind = 0 THEN [j \in 1..Len(blocks[i].items) |-> <<blocks[i].items[j]>>]
                 ELSE IF blocks[i].kind = 3 THEN <<>> ELSE blocks[i].items])
      hist[i \in 0..Len(items)] ==
        IF i = 0 THEN dict
        ELSE LET r == hist[i - 1]
                 it == items[i]
             IN r \o (IF Len(it) = 1 THEN it ELSE [k \in 1..it[1] |-> r[Len(r) - it[2] + ((k - 1) % it[2]) + 1]])
  IN SubSeq(hist[Len(items)], Len(dict) + 1, Len(hist[Len(items)]))

-----------------------------------------------------------------------------
(* A dynamic block's header: 'a', the end of the block, length 3 and the    *)
(* distances 1 to 4, with repeats of every kind, one of them across the two *)
(* alphabets.                                                               *)
ClLens == [i \in 1..19 |-> CASE i \in {2, 3, 19} -> 2 [] i \in {17, 18} -> 3 [] OTHER -> 0]
DynL == [i \in 1..258 |-> CASE i = 98 -> 1 [] i \in {257, 258} -> 2 [] OTHER -> 0]
DynD == <<2, 2, 2, 2>>
ClBits(list) ==
  Concat([i \in 1..Len(list) |->
    Coded(ClLens, list[i][1]) \o BitsOf(list[i][2], RepeatBits(list[i][1]))])
DynHeader(nlen, ndist, list) ==
  BitsOf(nlen - 257, 5) \o BitsOf(ndist - 1, 5) \o BitsOf(14, 4)
    \o Concat([i \in 1..18 |-> BitsOf(ClLens[order[i] + 1], 3)]) \o ClBits(list)
DynRuns == << <<18, 86>>, <<1, 0>>, <<18, 127>>, <<17, 7>>, <<17, 7>>, <<2, 0>>, <<16, 1>>, <<2, 0>> >>
Dynamic(items) ==
  [kind |-> 2, items |-> items, lens |-> DynL, dists |-> DynD, header |-> DynHeader(258, 4, DynRuns)]

-----------------------------------------------------------------------------
(* Containers.                                                              *)
BigEndian(bits) == HeldBytes(ZSWAP32(bits))
ZlibHead == <<8, 29>>          \* a window of 256 bytes
ZlibDictHead == <<8, 60>>
Input(wrap, wbits, bytes, out, ok) ==
  [wrap |-> wrap, wbits |-> wbits, bytes |-> bytes, out |-> out, ok |-> ok, prime |-> <<>>,
   dicts |-> {}, used |-> Len(bytes), found |-> Len(bytes) + 1, resumed |-> <<>>]
RawInput(wbits, blocks) == Input({}, wbits, ToBytes(StreamBits(blocks)), Meaning(blocks, <<>>), TRUE)
AdlerBytes(out) == BigEndian(Adler(adler32_z(adler32_init, out)))
ZlibBytes(blocks) == ZlibHead \o ToBytes(StreamBits(blocks)) \o AdlerBytes(Meaning(blocks, <<>>))
ZlibInput(blocks) == Input({"zlib", "check"}, 8, ZlibBytes(blocks), Meaning(blocks, <<>>), TRUE)
GzHead(flags) == <<31, 139, 8, flags, 1, 2, 3, 4, 0, 3>>
Trailer(out) == HeldBytes(crc32_little(crc32_init, out, 0)) \o HeldBytes(BitsOf(Len(out), 32))
GzInput(flags, fields, blocks) ==
  LET head == GzHead(flags) \o fields
      crc == IF HasBit(flags, 2) THEN SubSeq(HeldBytes(crc32_little(crc32_init, head, 0)), 1, 2) ELSE <<>>
      Of_(out) == Input({"gzip", "check"}, 8, head \o crc \o ToBytes(StreamBits(blocks)) \o Trailer(out), out, TRUE)
  IN Of_(Meaning(blocks, <<>>))
\* A stream in which decoding must stop, after out.
Broken(in, bytes, out) == [in EXCEPT !.bytes = bytes, !.out = out, !.ok = FALSE]
\* The stream is followed by other bytes.
Followed(in) == [in EXCEPT !.bytes = @ \o <<1, 2, 3, 4, 5, 6, 7, 8>>]

-----------------------------------------------------------------------------
(* The streams that are read. *)

MCTerms == {0, 1, 2, 4, 5, 7, 8, 10, 11, 12, 16, 22, 23, 26}

a == <<97>>
b == <<98>>
Short == Fixed(<<a, b, <<4, 2>>, a>>)
ShortOut == Meaning(<<Short>>, <<>>)
Wrong(blocks, out) == Broken(RawInput(8, <<>>), ToBytes(StreamBits(blocks)), out)

\* A length and a distance symbol that stand for nothing, in a fixed block.
Symbols(bits) == ToBytes(<<1, 1, 0>> \o Coded(FixedL, 97) \o bits \o [i \in 1..50 |-> 0])
\* A dynamic block whose header is the given one.
Headed(header) == ToBytes(<<1, 0, 1>> \o header \o [i \in 1..50 |-> 0])

RawInputs == {
  Followed(RawInput(8, <<Short>>)),
  RawInput(8, <<Stored_(<<1, 2, 3>>), Stored_(<<>>), Short>>),
  Followed(RawInput(8, <<Dynamic(<<a, <<3, 1>>, a, <<3, 4>>>>), Stored_(<<9>>)>>)),
  \* the first byte of the stream has five bits of something else
  LET bits == StreamBits(<<Short>>)
      in == RawInput(8, <<Short>>)
      bytes == ToBytes(SubSeq(bits, 4, Len(bits)))
  IN [in EXCEPT !.prime = SubSeq(bits, 1, 3), !.bytes = bytes, !.used = Len(bytes)],
  Wrong(<<Short, Raw([i \in 1..60 |-> 1])>>, ShortOut),
  Wrong(<<Fixed(<<a, <<3, 1>>, <<5, 5>>, a, b, a, b, a, b>>)>>, <<97, 97, 97, 97>>) }

WrongInputs ==
  LET In(bytes, out) == Broken(RawInput(8, <<>>), bytes, out)
      stored == ToBytes(StreamBits(<<Stored_(<<1, 2, 3>>)>>))
  IN { In([stored EXCEPT ![2] = 4], <<>>),
       In(Symbols(Coded(FixedL, 286)), <<97>>),
       In(Symbols(Coded(FixedL, 257) \o Coded(FixedD, 30)), <<97>>),
       In(Headed(DynHeader(287, 4, DynRuns)), <<>>),
       In(Headed(DynHeader(258, 4, << <<16, 0>> >> \o DynRuns)), <<>>),
       In(Headed(DynHeader(258, 3, DynRuns)), <<>>),
       In(Headed(DynHeader(258, 4, SubSeq(DynRuns, 1, 7) \o << <<16, 3>> >>)), <<>>),
       In(Headed(DynHeader(257, 4, << <<18, 127>>, <<18, 107>>, <<2, 0>>, <<2, 0>>, <<2, 0>>, <<2, 0>>, <<2, 0>>, <<2, 0>> >>)), <<>>),
       In(Headed(BitsOf(1, 5) \o BitsOf(3, 5) \o BitsOf(0, 4) \o BitsOf(1, 3) \o [i \in 1..20 |-> 0]), <<>>) }

Whole == ZlibInput(<<Short, Stored_(<<5>>)>>)
DictBlocks == <<Fixed(<<<<4, 3>>, a, b, <<5, 6>>>>)>>
Dictionary == <<1, 2, 3, 4, 5>>
DictInput ==
  LET Of_(bytes, out) ==
        [Input({"zlib", "check"}, 8, bytes, out, TRUE) EXCEPT !.dicts = {Dictionary, <<1>>}]
      With(out) == Of_(ZlibDictHead \o AdlerBytes(Dictionary) \o ToBytes(StreamBits(DictBlocks))
                         \o AdlerBytes(out), out)
  IN With(Meaning(DictBlocks, Dictionary))

Gzip == GzInput(30, <<1, 0, 65>> \o <<70, 0>> \o <<0>>, <<Short>>)
\* A stream whose i-th byte is another one.
Damaged(in, i, byte, out) == Broken(in, [in.bytes EXCEPT ![i] = byte], out)
Beheaded(in, head) == Broken(in, head \o SubSeq(in.bytes, 3, Len(in.bytes)), <<>>)
ZlibInputs(in, n) ==
  {Followed(in), [in EXCEPT !.wbits = 0], Damaged(in, n, (in.bytes[n] + 1) % 256, in.out),
   Beheaded(in, <<8, 30>>), Beheaded(in, <<24, 25>>), Beheaded(in, <<9, 28>>)}
GzipInputs(in, n) ==
  {Followed(in), Damaged(in, 13, 70, <<>>), Damaged(in, n, 1, in.out),
   Damaged(in, n - 4, (in.bytes[n - 4] + 1) % 256, in.out), Damaged(in, 4, 62, <<>>)}
Every(F(_, _), in) == F(in, Len(in.bytes))
ContainerInputs ==
  Every(ZlibInputs, Whole) \cup Every(GzipInputs, Gzip)
    \cup {[GzInput(0, <<>>, <<Short>>) EXCEPT !.wrap = {"zlib", "gzip", "check"}, !.wbits = 8]}
DictInputs == {DictInput}

\* Long matches, with the real sizes of inflate_fast and a window of 256.
LongInputs == {
  Followed(RawInput(8, <<Fixed(<<a, b, <<258, 2>>, b, <<30, 200>>, a, <<258, 100>>, a, b>>)>>)),
  Followed(RawInput(8, <<Fixed(<<<<1>>, <<2>>, <<3>>, <<100, 3>>, <<9>>, <<150, 101>>, <<8>>, <<258, 255>>>>), Short>>)) }

\* Windows of four bytes: all short sequences of literals and matches.
Items == {<<5>>, <<3, 1>>, <<3, 3>>, <<4, 4>>, <<6, 4>>, <<4, 2>>}
WindowInputs ==
  {Followed(RawInput(2, <<Fixed(<<<<1>>, <<2>>, <<3>>, <<4>>>> \o script)>>)) : script \in [1..3 -> Items]}


\* Bytes that cannot be decoded, what is taken for the pattern, and a block.
Lost(in, bytes, pattern) ==
  LET Of_(all) == [in EXCEPT !.bytes = all, !.out = <<>>, !.ok = FALSE, !.resumed = in.out, !.used = Len(all),
                             !.found = Len(bytes) + 4]
  IN Of_(bytes \o pattern \o in.bytes)
Pattern == <<0, 0, 255, 255>>

\* A dynamic block whose first code length is a repeat, at a byte's beginning
\* and seven bits long: its two extra bits are the eighth and one of the next
\* byte, which stays in the bit buffer behind the eighth.
OddLens == [i \in 1..19 |-> CASE i = 18 -> 1 [] i = 19 -> 2 [] i = 1 -> 3 [] i = 9 -> 4 [] i = 8 -> 5
                              [] i = 10 -> 6 [] i \in {7, 17} -> 7 [] OTHER -> 0]
OddHead(eighth) ==
  ToBytes(<<1, 0, 1>> \o BitsOf(0, 10) \o BitsOf(13 - 4, 4)
            \o Concat([i \in 1..13 |-> BitsOf(OddLens[order[i] + 1], 3)]) \o Coded(OddLens, 16) \o <<eighth>>)

SyncInputs ==
  LET in == RawInput(8, <<Short>>) IN
  {Lost(in, bytes, Pattern) :
     bytes \in {<<7, 1, 2>>, <<7, 0>>, <<7, 0, 0, 255>>, <<7, 0, 255, 0, 0, 0>>, <<1, 5>>,
                <<1, 6, 5>>, <<1, 6>>, <<1, 7, 0, 0, 255, 0>>,
                OddHead(0), OddHead(1) \o <<9>>, OddHead(1) \o Pattern}}
  \cup {Lost(in, OddHead(0), <<64, 0, 255, 255>>)}

-----------------------------------------------------------------------------
(* Chunks that make each way of sending a block the smallest, with codes of *)
(* many lengths, runs of lengths, and lengths and distances with extra bits.*)

Nothing == {[Input({}, 8, <<>>, <<>>, TRUE) EXCEPT !.found = 0]}

Times(n, byte) == [i \in 1..n |-> <<byte>>]
Each(from, to) == [i \in 1..(to - from + 1) |-> <<from + i - 1>>]
Pair == Times(1, 97) \o Times(1, 200)
Skewed == Times(34, 97) \o Times(21, 98) \o Times(13, 99) \o Times(8, 100) \o Times(5, 101)
            \o Times(3, 110) \o Times(2, 120) \o Times(1, 0) \o Times(1, 255)
Matches == Times(1, 97) \o << <<3, 1>>, <<258, 2>>, <<10, 1>>, <<11, 5>>, <<257, 97>>, <<130, 193>>, <<3, 1>> >>
TwoBack == Times(6, 98) \o [i \in 1..12 |-> <<4, 2>>]
Spread == Each(130, 160)
MCChunks == {Pair, Skewed, Matches, TwoBack, Spread}

-----------------------------------------------------------------------------
(* The streams and the callers of each part. *)

Of(kind, inputs) == {[k \in DOMAIN in \cup {"kind"} |-> IF k = "kind" THEN kind ELSE in[k]] : in \in inputs}
PartInputs ==
  UNION {Of("streams", RawInputs \cup WrongInputs \cup ContainerInputs \cup DictInputs), Of("long", LongInputs),
         Of("window", WindowInputs), Of("sync", SyncInputs), Of("send", Nothing)}
PartAvailIn == "streams" :> {0, 1, 2, 50} @@ "long" :> {3, 7, 50} @@ "window" :> {2, 50}
                 @@ "sync" :> {1, 2, 50} @@ "send" :> {2000}
PartAvailOut == "streams" :> {0, 1, 3, 300} @@ "long" :> {64, 258, 300} @@ "window" :> {1, 2, 6, 12}
                 @@ "sync" :> {1, 300} @@ "send" :> {3000}
PartFlushes == "streams" :> {"NO_FLUSH", "TREES"} @@ "long" :> {"NO_FLUSH", "BLOCK"}
                 @@ [kind \in {"window", "sync", "send"} |-> {"NO_FLUSH"}]
PartFastOut == "window" :> 6 @@ [kind \in {"streams", "long", "sync", "send"} |-> 258]
PartMaySync == "sync" :> {"BAD", "SYNC"} @@ [kind \in {"streams", "long", "window", "send"} |-> {}]
PartMayFail == "streams" :> TRUE @@ [kind \in {"long", "window", "sync", "send"} |-> FALSE]

-----------------------------------------------------------------------------
part == input.kind

SuiteInit == RoundInit /\ part \in Parts

\* Only in the part send is there a stream still to be sent.
SuiteSpec == SuiteInit /\ [][RoundStep]_allvars

-----------------------------------------------------------------------------
(* Properties.                                                              *)

\* Inflate, however the stream and the room for its output are cut, puts out
\* what the blocks mean and no other byte, reports the end and errors exactly
\* where they are, stops right behind the stream's last byte, keeps the tail of
\* the output in its window and each byte of it once in its totals and check
\* value; and inflateSync resumes right behind the first pattern, but for one
\* that begins in a byte held behind an odd number of bits.
StreamsDecoded ==
  /\ part \in {"streams", "long", "window"} => DecodesAsMeant
  /\ part \in {"streams", "window"} => ConsumedExactly /\ WindowIsTail
  /\ part = "streams" => TotalsExact
  /\ part = "sync" => SyncResumes

\* Inflate reads the blocks that deflate sends as the text they were made of,
\* and deflate's costs of a block, by which it chooses how to send it, are the
\* bits that are sent.
BlocksAgree == part = "send" => SentAsCosted /\ ReadAsWritten

=============================================================================
