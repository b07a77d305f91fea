------------------------------- MODULE Inflate -------------------------------
(***************************************************************************)
(* zlib's inflate (base/zlib/inflate, inffast): the state machine that      *)
(* decodes a stream which comes, and whose output goes, in pieces of any    *)
(* size.  The bit buffer is the sequence of its bits, the first to be read  *)
(* first.  state->head is null: nothing calls inflateGetHeader.             *)
(***************************************************************************)
EXTENDS Integers, Sequences, FiniteSets, InflateTable, Checksums

CONSTANTS
  Inputs,            \* the streams: bytes, wrap, wbits, prime (bits), dict, kind, ...
  FAST_IN,           \* the input that inflate_fast wants to have (6)
  \* For each kind of stream:
  FAST_OUT,          \* the room it wants to have (258, or the longest match)
  AvailIn, AvailOut, \* the sizes of the pieces the caller offers
  Flushes,           \* the values of flush it calls with
  MaySync,           \* the modes in which it looks for a synchronisation point
  MayFail            \* whether the window's memory may be refused

VARIABLES
  input,     \* the stream that is decoded
  st,        \* struct inflate_state
  strm,      \* next_in, total_in and total_out of the z_stream
  call,      \* the call of inflate: pc, have, left, beg, in, flush, ret
  output     \* all the bytes put out

vars == <<input, st, strm, call, output>>

Unset == 0 - 1     \* a byte of the window that was never written

-----------------------------------------------------------------------------
(* Bits and bytes.                                                          *)

Least(m, n) == IF m < n THEN m ELSE n
BitsOf(v, n) == [i \in 1..n |-> IF i > 30 THEN 0 ELSE (v \div 2^(i - 1)) % 2]   \* v < 2^30
BITS(h, n) ==
  LET v[i \in 0..n] ==
        IF i = 0 THEN 0
        ELSE LET r == v[i - 1] IN IF i <= Len(h) THEN r + 2^(i - 1) * h[i] ELSE r
  IN v[n]
DROPBITS(h, n) == SubSeq(h, n + 1, Len(h))
ByteAligned(h) == DROPBITS(h, Len(h) % 8)
HeldBytes(h) == [i \in 1..(Len(h) \div 8) |-> BITS(SubSeq(h, 8 * i - 7, 8 * i), 8)]
ByteBits == [b \in 0..255 |-> BitsOf(b, 8)]

\* The bit buffer after k more bytes of the input.
PullFrom(h, next, k) ==
  LET run[i \in 0..k] == IF i = 0 THEN h ELSE run[i - 1] \o ByteBits[input.bytes[next + i]]
  IN run[k]
Held(k) == PullFrom(st.hold, strm.next_in, k)

\* The bytes to pull before Ready holds of the bit buffer, one too many when
\* the input does not have them.
Fewest(enough, none) == IF enough = {} THEN none ELSE CHOOSE k \in enough : \A l \in enough : k <= l
Need(Ready(_)) == Fewest({k \in 0..Least(call.have, 4) : Ready(Held(k))}, call.have + 1)

HasBit(op, b) == (op \div b) % 2 = 1
FixedLens == inflate_table("LENS", [i \in 1..288 |-> IF i <= 144 THEN 8 ELSE IF i <= 256 THEN 9
                                                     ELSE IF i <= 280 THEN 7 ELSE 8], 9)
FixedDists == inflate_table("DISTS", [i \in 1..32 |-> 5], 5)
LenCode == IF st.lencode = <<>> THEN FixedLens ELSE st.lencode[1]
DistCode == IF st.distcode = <<>> THEN FixedDists ELSE st.distcode[1]
order == <<16, 17, 18, 0, 8, 7, 9, 6, 10, 5, 11, 4, 12, 3, 13, 2, 14, 1, 15>>

-----------------------------------------------------------------------------
(* The steps of inflate's switch, each from a state to the next one; the    *)
(* bits they ask for are in s.hold.                                         *)

Bad(s) == [s EXCEPT !.mode = "BAD"]
Goto(s, mode) == [s EXCEPT !.mode = mode]
Adler(a) == BitsOf(a[1], 16) \o BitsOf(a[2], 16)
AdlerOf(check) == <<BITS(check, 16), BITS(DROPBITS(check, 16), 16)>>
Validates(s) == "check" \in s.wrap
UPDATE(s, buf) ==
  IF s.flags # {} THEN crc32_little(s.check, buf, 0) ELSE Adler(adler32_z(AdlerOf(s.check), buf))
\* The header's own check goes over the bytes of the header.
HeaderCrc(s, buf) ==
  IF "hcrc" \in s.flags /\ Validates(s) THEN [s EXCEPT !.check = crc32_little(@, buf, 0)] ELSE s
INITBITS(s) == [s EXCEPT !.hold = <<>>]
CrcHold(s) == INITBITS(HeaderCrc(s, HeldBytes(s.hold)))

ZlibHead_(s, h, len, wbits) ==
  IF "zlib" \notin s.wrap \/ (h[1] * 256 + h[2]) % 31 # 0 THEN Bad([s EXCEPT !.flags = {}])
  ELSE IF h[1] % 16 # 8 THEN Bad([s EXCEPT !.flags = {}])
  ELSE IF len > 15 \/ len > wbits THEN Bad([s EXCEPT !.flags = {}, !.wbits = wbits])
  ELSE [INITBITS(s) EXCEPT !.flags = {}, !.wbits = wbits, !.check = Adler(adler32_init),
                           !.mode = IF HasBit(h[2], 32) THEN "DICTID" ELSE "TYPE"]
HEAD(s) ==
  LET Zlib(h, len) == ZlibHead_(s, h, len, IF s.wbits = 0 THEN len ELSE s.wbits)
      Of(h) ==
        IF s.wrap = {} THEN Goto(s, "TYPEDO")
        ELSE IF "gzip" \in s.wrap /\ h = <<31, 139>>
        THEN [INITBITS(s) EXCEPT !.mode = "FLAGS", !.check = crc32_little(crc32_init, h, 0),
                                 !.wbits = IF @ = 0 THEN 15 ELSE @]
        ELSE Zlib(h, BITS(DROPBITS(s.hold, 4), 4) + 8)
  IN Of(HeldBytes(s.hold))

FLAGS(s) ==
  LET names == <<"text", "hcrc", "extra", "name", "comment">>
      With(h, t) == IF h[1] # 8 \/ h[2] >= 32 THEN Bad(t) ELSE Goto(CrcHold(t), "TIME")
      Of(h) == With(h, [s EXCEPT !.flags =
                          {"gzip"} \cup {names[i] : i \in {j \in 1..5 : HasBit(h[2], 2^(j - 1))}}])
  IN Of(HeldBytes(s.hold))
TIME(s) == Goto(CrcHold(s), "OS")
OS(s) == Goto(CrcHold(s), "EXLEN")
EXLEN(s) ==
  IF "extra" \notin s.flags THEN Goto(s, "EXTRA")
  ELSE Goto(CrcHold([s EXCEPT !.length = BITS(s.hold, 16)]), "EXTRA")
HCRC(s) ==
  IF "hcrc" \in s.flags /\ Validates(s) /\ s.hold # SubSeq(s.check, 1, 16) THEN Bad(s)
  ELSE [(IF "hcrc" \in s.flags THEN INITBITS(s) ELSE s)
          EXCEPT !.check = crc32_init, !.mode = "TYPE"]

DICTID(s) == Goto(INITBITS([s EXCEPT !.check = ZSWAP32(s.hold)]), "DICT")

TYPEDO(s) ==
  LET t == [s EXCEPT !.last = BITS(s.hold, 1) = 1, !.hold = DROPBITS(@, 3)]
      kind == BITS(DROPBITS(s.hold, 1), 2)
  IN IF s.last THEN Goto([s EXCEPT !.hold = ByteAligned(@)], "CHECK")
     ELSE CASE kind = 0 -> Goto([t EXCEPT !.hold = ByteAligned(@)], "STORED")
            [] kind = 1 -> [t EXCEPT !.mode = "LEN_", !.lencode = <<>>, !.distcode = <<>>]
            [] kind = 2 -> Goto(t, "TABLE")
            [] kind = 3 -> Bad(t)

STORED(s) ==
  LET len == BITS(s.hold, 16)
  IN IF len + BITS(DROPBITS(s.hold, 16), 16) # 65535 THEN Bad(s)
     ELSE [INITBITS(s) EXCEPT !.length = len, !.mode = "COPY_"]

TABLE(s) ==
  LET t == [s EXCEPT !.nlen = BITS(s.hold, 5) + 257, !.ndist = BITS(DROPBITS(s.hold, 5), 5) + 1,
                     !.ncode = BITS(DROPBITS(s.hold, 10), 4) + 4, !.hold = DROPBITS(@, 14)]
  IN IF t.nlen > 286 \/ t.ndist > 30 THEN Bad(t)
     ELSE [t EXCEPT !.have = 0, !.lens = [i \in 1..19 |-> 0], !.mode = "LENLENS"]

\* One length of the code in which the lengths come, or their end.
LENLENS(s) ==
  LET Made(t) == IF t.ret # 0 THEN Bad([s EXCEPT !.lens = <<>>])
                 ELSE [s EXCEPT !.lencode = <<t>>, !.lens = <<>>, !.have = 0, !.mode = "CODELENS"]
  IN IF s.have < s.ncode
     THEN [s EXCEPT !.lens[order[s.have + 1] + 1] = BITS(s.hold, 3), !.have = @ + 1,
                    !.hold = DROPBITS(@, 3)]
     ELSE Made(inflate_table("CODES", s.lens, 7))

RepeatBits(val) == CASE val < 16 -> 0 [] val = 16 -> 2 [] val = 17 -> 3 [] val = 18 -> 7

\* One of the lengths, or a run of them.
CodeLen(s) ==
  LET Repeat(t, n, len, copy) ==
        IF n # 0 /\ Len(s.lens) + copy > s.nlen + s.ndist THEN Bad(t)
        ELSE [t EXCEPT !.lens = @ \o [i \in 1..copy |-> len]]
      With(here, n, x) ==
        IF n = 2 /\ s.lens = <<>> THEN Bad([s EXCEPT !.hold = DROPBITS(@, Bits(here))])
        ELSE Repeat([s EXCEPT !.hold = DROPBITS(@, Bits(here) + n)], n,
                    IF n = 0 THEN Val(here) ELSE IF n = 2 THEN s.lens[Len(s.lens)] ELSE 0,
                    IF n = 0 THEN 1 ELSE IF n = 7 THEN 11 + x ELSE 3 + x)
      Extra_(here, n) == With(here, n, BITS(DROPBITS(s.hold, Bits(here)), n))
      Of(here) == Extra_(here, RepeatBits(Val(here)))
  IN Of(LookUp("CODES", s.lencode[1], BITS(s.hold, 7)))

CODELENS(s) ==
  LET Made(lens, dists) ==
        IF s.lens[257] = 0 \/ lens.ret # 0 \/ dists.ret # 0 THEN Bad([s EXCEPT !.lens = <<>>])
        ELSE [s EXCEPT !.lencode = <<lens>>, !.distcode = <<dists>>, !.lens = <<>>, !.mode = "LEN_"]
  IN IF Len(s.lens) < s.nlen + s.ndist THEN CodeLen(s)
     ELSE Made(inflate_table("LENS", SubSeq(s.lens, 1, s.nlen), 9),
               inflate_table("DISTS", SubSeq(s.lens, s.nlen + 1, s.nlen + s.ndist), 6))

\* The slow decoding of one literal or length, or the end of the block.
LEN(s) ==
  LET With(op, t) ==
        CASE op = 0         -> Goto(t, "LIT")
          [] HasBit(op, 32) -> Goto(t, "TYPE")
          [] HasBit(op, 64) /\ ~HasBit(op, 32) -> Bad(t)
          [] OTHER          -> [t EXCEPT !.extra = op % 16, !.mode = "LENEXT"]
      Of(here) == With(Op(here), [s EXCEPT !.hold = DROPBITS(@, Bits(here)), !.length = Val(here)])
  IN Of(LookUp("LENS", LenCode, BITS(s.hold, 15)))
LENEXT(s) ==
  [s EXCEPT !.length = @ + BITS(s.hold, s.extra), !.hold = DROPBITS(@, s.extra), !.mode = "DIST"]
DIST(s) ==
  LET With(here, t) ==
        IF HasBit(Op(here), 64) THEN Bad(t)
        ELSE [t EXCEPT !.offset = Val(here), !.extra = Op(here) % 16, !.mode = "DISTEXT"]
      Of(here) == With(here, [s EXCEPT !.hold = DROPBITS(@, Bits(here))])
  IN Of(LookUp("DISTS", DistCode, BITS(s.hold, 15)))
DISTEXT(s) ==
  [s EXCEPT !.offset = @ + BITS(s.hold, s.extra), !.hold = DROPBITS(@, s.extra), !.mode = "MATCH"]

\* The gzip trailer's length.
LENGTH(s) ==
  IF s.wrap = {} \/ s.flags = {} THEN Goto(s, "DONE")
  ELSE IF s.hold # BitsOf(s.total, 32) THEN Bad(s)
  ELSE Goto(INITBITS(s), "DONE")

-----------------------------------------------------------------------------
(* The window.                                                              *)

LastOf(seq, n) == SubSeq(seq, Len(seq) - n + 1, Len(seq))

\* The window after the bytes buf: a circular buffer, whose size is 0 until
\* it is first used.
updatewindow(s, buf) ==
  LET w == IF s.wsize = 0
           THEN [s EXCEPT !.wsize = 2^s.wbits, !.wnext = 0, !.whave = 0,
                          !.window = [i \in 0..(2^s.wbits - 1) |-> Unset]]
           ELSE s
      dist == Least(w.wsize - w.wnext, Len(buf))
      rest == Len(buf) - dist
  IN IF Len(buf) >= w.wsize
     THEN [w EXCEPT !.window = [i \in 0..(w.wsize - 1) |-> LastOf(buf, w.wsize)[i + 1]],
                    !.wnext = 0, !.whave = w.wsize]
     ELSE [w EXCEPT !.window = [i \in 0..(w.wsize - 1) |->
                                  IF i < rest THEN buf[dist + i + 1]
                                  ELSE IF i >= w.wnext /\ i < w.wnext + dist THEN buf[i - w.wnext + 1]
                                  ELSE @[i]],
                    !.wnext = IF rest > 0 THEN rest ELSE IF @ + dist = w.wsize THEN 0 ELSE @ + dist,
                    !.whave = IF rest > 0 THEN w.wsize ELSE IF @ < w.wsize THEN @ + dist ELSE @]

WindowBytes(from, n) == [i \in 1..n |-> st.window[from + i - 1]]
\* n bytes from dist bytes back, those that the copy itself puts out included.
FromOutput(out, dist, n) == [i \in 1..n |-> out[Len(out) - dist + ((i - 1) % dist) + 1]]
Produced == Len(output) - call.beg

\* The bytes that one round of MATCH copies: from the window, up to its end,
\* or from the output of this call.
MatchBytes ==
  LET far == st.offset - Produced
      n == IF far > st.wnext THEN far - st.wnext ELSE far
      from == IF far > st.wnext THEN st.wsize - n ELSE st.wnext - n
  IN IF far > 0 THEN WindowBytes(from, Least(Least(n, st.length), call.left))
     ELSE FromOutput(output, st.offset, Least(st.length, call.left))

\* Mutant of FastMatch: the copy goes on behind the end of the window's data, not at its start.
FastMatchNoWrap(len, dist) ==
  LET far == dist - Produced
      ends == Least(far - st.wnext, len)
      window == IF far <= 0 THEN <<>>
                ELSE IF st.wnext = 0 THEN WindowBytes(st.wsize - far, Least(far, len))
                ELSE IF st.wnext < far
                THEN WindowBytes(st.wsize + st.wnext - far, ends)
                       \o WindowBytes(st.wnext, Least(st.wnext, len - ends))
                ELSE WindowBytes(st.wnext - far, Least(far, len))
  IN window \o FromOutput(output \o window, dist, len - Len(window))

\* The bytes of a match in inflate_fast, which copies all of them: the end of
\* the window, its start, and the output.
FastMatch(len, dist) ==
  LET far == dist - Produced
      ends == Least(far - st.wnext, len)
      window == IF far <= 0 THEN <<>>
                ELSE IF st.wnext = 0 THEN WindowBytes(st.wsize - far, Least(far, len))
                ELSE IF st.wnext < far
                THEN WindowBytes(st.wsize + st.wnext - far, ends)
                       \o WindowBytes(0, Least(st.wnext, len - ends))
                ELSE WindowBytes(st.wnext - far, Least(far, len))
  IN window \o FromOutput(output \o window, dist, len - Len(window))

-----------------------------------------------------------------------------
(* inflate.                                                                 *)

inflateReset(s) ==
  [s EXCEPT !.wsize = 0, !.whave = 0, !.wnext = 0, !.window = <<>>, !.total = 0, !.mode = "HEAD",
            !.last = FALSE, !.havedict = FALSE, !.hold = <<>>, !.lencode = <<>>, !.distcode = <<>>]

inflateInit2(wrap, wbits) ==
  inflateReset([mode |-> "HEAD", last |-> FALSE, wrap |-> wrap, wbits |-> wbits, havedict |-> FALSE,
                flags |-> {}, check |-> crc32_init, total |-> 0, hold |-> <<>>, length |-> 0,
                offset |-> 0, extra |-> 0, nlen |-> 0, ndist |-> 0, ncode |-> 0, have |-> 0,
                lens |-> <<>>, lencode |-> <<>>, distcode |-> <<>>, wsize |-> 0, whave |-> 0,
                wnext |-> 0, window |-> <<>>])

\* Bits that come before the first byte of the input.
inflatePrime(s, bits) == [s EXCEPT !.hold = @ \o bits]

Init ==
  /\ input \in Inputs
  /\ st = inflatePrime(inflateInit2(input.wrap, input.wbits), input.prime)
  /\ strm = [next_in |-> 0, total_in |-> 0, total_out |-> 0]
  /\ call = [pc |-> "idle", have |-> 0, left |-> 0, beg |-> 0, in |-> 0, flush |-> "NO_FLUSH", ret |-> "OK"]
  /\ output = <<>>

Remaining == Len(input.bytes) - strm.next_in
\* The caller offers the next n bytes of the input and room for m bytes; it
\* has given the dictionary if it was told to.
Call(n, m, flush) ==
  /\ call.pc = "idle"
  /\ st.mode = "DICT" => st.havedict
  /\ call' = [pc |-> "run", have |-> Least(n, Remaining), left |-> m, beg |-> Len(output),
               in |-> Least(n, Remaining), flush |-> flush, ret |-> "OK"]
  /\ st' = IF st.mode = "TYPE" THEN Goto(st, "TYPEDO") ELSE st
  /\ UNCHANGED <<input, strm, output>>

Go(mode) == call.pc = "run" /\ st.mode = mode

\* The input runs out: its bytes are kept in the bit buffer.
Starve ==
  /\ st' = [st EXCEPT !.hold = Held(call.have)]
  /\ strm' = [strm EXCEPT !.next_in = @ + call.have]
  /\ call' = [call EXCEPT !.have = 0, !.pc = "leave"]
  /\ UNCHANGED <<input, output>>

\* A step of the switch that asks for bits and changes nothing but the state.
Step(mode, Ready(_), Do(_)) ==
  LET Pull(k) ==
        IF k > call.have THEN Starve
        ELSE /\ st' = Do([st EXCEPT !.hold = Held(k)])
             /\ strm' = [strm EXCEPT !.next_in = @ + k]
             /\ call' = [call EXCEPT !.have = @ - k,
                                     !.pc = IF call.flush = "TREES" /\ st'.mode \in {"LEN_", "COPY_"}
                                            THEN "leave" ELSE @]
             /\ UNCHANGED <<input, output>>
  IN Go(mode) /\ \E k \in {Need(Ready)} : Pull(k)

Bits16(h) == Len(h) >= 16
Header == Step("HEAD", LAMBDA h : st.wrap = {} \/ Bits16(h), HEAD)
Flags == Step("FLAGS", Bits16, FLAGS)
Time == Step("TIME", LAMBDA h : Len(h) >= 32, TIME)
Os == Step("OS", Bits16, OS)
ExLen == Step("EXLEN", LAMBDA h : "extra" \notin st.flags \/ Bits16(h), EXLEN)
Hcrc == Step("HCRC", LAMBDA h : "hcrc" \notin st.flags \/ Bits16(h), HCRC)
DictId == Step("DICTID", LAMBDA h : Len(h) >= 32, DICTID)
TypeDo == Step("TYPEDO", LAMBDA h : st.last \/ Len(h) >= 3, TYPEDO)
Stored == Step("STORED", LAMBDA h : Len(h) >= 32, STORED)
Table == Step("TABLE", LAMBDA h : Len(h) >= 14, TABLE)
LenLens == Step("LENLENS", LAMBDA h : st.have >= st.ncode \/ Len(h) >= 3, LENLENS)
CodeLens ==
  LET Fits(here, h) == Bits(here) + RepeatBits(Val(here)) <= Len(h)
  IN Step("CODELENS", LAMBDA h : \/ Len(st.lens) >= st.nlen + st.ndist
                                 \/ Fits(LookUp("CODES", st.lencode[1], BITS(h, 7)), h), CODELENS)
LenStart == Step("LEN_", LAMBDA h : TRUE, LAMBDA s : Goto(s, "LEN"))
LenSlow ==
  /\ ~(call.have >= FAST_IN /\ call.left >= FAST_OUT[input.kind])
  /\ Step("LEN", LAMBDA h : Bits(LookUp("LENS", LenCode, BITS(h, 15))) <= Len(h), LEN)
LenExt == Step("LENEXT", LAMBDA h : Len(h) >= st.extra, LENEXT)
Dist == Step("DIST", LAMBDA h : Bits(LookUp("DISTS", DistCode, BITS(h, 15))) <= Len(h), DIST)
DistExt == Step("DISTEXT", LAMBDA h : Len(h) >= st.extra, DISTEXT)
Length == Step("LENGTH", LAMBDA h : st.wrap = {} \/ st.flags = {} \/ Len(h) >= 32, LENGTH)
CopyStart == Step("COPY_", LAMBDA h : TRUE, LAMBDA s : Goto(s, "COPY"))

\* A step that takes bytes as they are: n bytes of the input.
TakeBytes(n) == /\ strm' = [strm EXCEPT !.next_in = @ + n] /\ UNCHANGED input
NextBytes(n) == SubSeq(input.bytes, strm.next_in + 1, strm.next_in + n)

\* Takes n bytes of a field of the header, of which more is to come or not.
Field(n, more, s) ==
  /\ st' = s
  /\ call' = [call EXCEPT !.have = @ - n, !.pc = IF more THEN "leave" ELSE @]
  /\ TakeBytes(n)
  /\ UNCHANGED output
Extra ==
  LET Take(n, more) ==
        Field(n, more, [HeaderCrc(st, NextBytes(n)) EXCEPT !.length = IF more THEN @ - n ELSE 0,
                                                            !.mode = IF more THEN @ ELSE "NAME"])
  IN /\ Go("EXTRA")
     /\ \E n \in {IF "extra" \in st.flags THEN Least(st.length, call.have) ELSE 0} :
          Take(n, "extra" \in st.flags /\ st.length > n)

\* A text of the header that ends with a zero byte.
Text(mode, flag, next) ==
  LET Take(n, more) ==
        Field(n, more, [HeaderCrc(st, NextBytes(n)) EXCEPT !.mode = IF more THEN @ ELSE next])
  IN /\ Go(mode)
     /\ \E zeros \in {{i \in 1..call.have : input.bytes[strm.next_in + i] = 0}} :
          Take(IF flag \in st.flags THEN Fewest(zeros, call.have) ELSE 0, flag \in st.flags /\ zeros = {})
Name == Text("NAME", "name", "COMMENT")
Comment == Text("COMMENT", "comment", "HCRC")

\* inflate returns at once when it wants the dictionary.
Dict ==
  /\ Go("DICT")
  /\ IF st.havedict
     THEN st' = [st EXCEPT !.check = Adler(adler32_init), !.mode = "TYPE"] /\ UNCHANGED call
     ELSE call' = [call EXCEPT !.pc = "idle", !.ret = "NEED_DICT"] /\ UNCHANGED st
  /\ UNCHANGED <<input, strm, output>>

Type ==
  /\ Go("TYPE")
  /\ IF call.flush \in {"BLOCK", "TREES"}
     THEN call' = [call EXCEPT !.pc = "leave"] /\ UNCHANGED st
     ELSE st' = Goto(st, "TYPEDO") /\ UNCHANGED call
  /\ UNCHANGED <<input, strm, output>>

Copy ==
  /\ Go("COPY")
  /\ LET n == Least(st.length, Least(call.have, call.left))
     IN /\ st' = IF st.length = 0 THEN Goto(st, "TYPE") ELSE [st EXCEPT !.length = @ - n]
        /\ call' = [call EXCEPT !.have = @ - n, !.left = @ - n,
                                !.pc = IF st.length > 0 /\ n = 0 THEN "leave" ELSE @]
        /\ output' = output \o NextBytes(n)
        /\ TakeBytes(n)

\* Bytes are put out if there is room.
Put(bytes, s) ==
  /\ IF call.left = 0
     THEN call' = [call EXCEPT !.pc = "leave"] /\ UNCHANGED <<st, output>>
     ELSE /\ call' = [call EXCEPT !.left = @ - Len(bytes)]
          /\ output' = output \o bytes
          /\ st' = s
  /\ UNCHANGED <<input, strm>>
Lit == Go("LIT") /\ Put(<<st.length>>, Goto(st, "LEN"))
Match ==
  /\ Go("MATCH")
  /\ IF st.offset - Produced > st.whave
     THEN Put(<<>>, Bad(st))
     ELSE LET bytes == MatchBytes
          IN Put(bytes, [st EXCEPT !.length = @ - Len(bytes),
                                   !.mode = IF st.length = Len(bytes) THEN "LEN" ELSE @])

-----------------------------------------------------------------------------
(* inflate_fast: a bit buffer p.hold and a place in the input p.next.       *)

Refill(p, n, k) ==
  IF Len(p.hold) < n THEN [hold |-> PullFrom(p.hold, p.next, k), next |-> p.next + k] ELSE p
Drop(p, n) == [p EXCEPT !.hold = DROPBITS(@, n)]

\* The whole bytes that were not used are given back.
Unused(p) ==
  LET n == Len(p.hold) \div 8 IN [hold |-> SubSeq(p.hold, 1, Len(p.hold) - 8 * n), next |-> p.next - n]

\* One round of the loop: the bit buffer, the mode and the bytes put out.
FastRound ==
  LET Result(p, mode, bytes) == [p |-> p, mode |-> mode, bytes |-> bytes]
      Copied(p, n, d) == IF d - Produced > st.whave THEN Result(p, "BAD", <<>>)
                         ELSE Result(p, "LEN", FastMatch(n, d))
      DistExtra(p, n, from, x) == Copied(Drop(p, x), n, from + BITS(p.hold, x))
      Distance(p, n, dist) ==
        IF ~HasBit(Op(dist), 16) THEN Result(Drop(p, Bits(dist)), "BAD", <<>>)
        ELSE DistExtra(Refill(Refill(Drop(p, Bits(dist)), Op(dist) % 16, 1), Op(dist) % 16, 1),
                       n, Val(dist), Op(dist) % 16)
      Decoded(p, n) == Distance(p, n, LookUp("DISTS", DistCode, BITS(p.hold, 15)))
      LenExtra(p, from, x) == Decoded(Refill(Drop(p, x), 15, 2), from + BITS(p.hold, x))
      Literal(p, len) ==           \* p is behind the code len
        IF Op(len) = 0 THEN Result(p, "LEN", <<Val(len)>>)
        ELSE IF ~HasBit(Op(len), 16) THEN Result(p, IF HasBit(Op(len), 32) THEN "TYPE" ELSE "BAD", <<>>)
        ELSE LenExtra(Refill(p, Op(len) % 16, 1), Val(len), Op(len) % 16)
      Behind(p, len) == Literal(Drop(p, Bits(len)), len)
      From(p) == Behind(p, LookUp("LENS", LenCode, BITS(p.hold, 15)))
  IN From(Refill([hold |-> st.hold, next |-> strm.next_in], 15, 2))

inflate_fast ==
  LET Room(have, left) == have >= FAST_IN /\ left >= FAST_OUT[input.kind]
      Have(p) == call.have - (p.next - strm.next_in)
      Leaves(r, again, left, p) ==
        /\ st' = [st EXCEPT !.hold = p.hold, !.mode = r.mode]
        /\ strm' = [strm EXCEPT !.next_in = p.next]
        /\ call' = [call EXCEPT !.have = Have(p), !.left = left, !.pc = IF again THEN "fast" ELSE "run"]
        /\ output' = output \o r.bytes
        /\ UNCHANGED input
      Ends(r, again, left) == Leaves(r, again, left, IF again THEN r.p ELSE Unused(r.p))
      Round(r, left) == Ends(r, r.mode = "LEN" /\ Room(Have(r.p), left), left)
  IN /\ call.pc = "fast" \/ (Go("LEN") /\ Room(call.have, call.left))
     /\ \E r \in {FastRound} : Round(r, call.left - Len(r.bytes))

-----------------------------------------------------------------------------
(* The end of the stream and of the call.                                   *)

\* The bytes of this call are accounted for before their check is compared.
Accounted(s, bytes) ==
  [s EXCEPT !.total = @ + Len(bytes),
            !.check = IF Validates(s) /\ bytes # <<>> THEN UPDATE(s, bytes) ELSE @]
Check ==
  LET Compared(t, sent) ==
        IF Validates(st) /\ sent # t.check THEN Bad(t) ELSE Goto(INITBITS(t), "LENGTH")
      Pull(k) ==
        IF k > call.have THEN Starve
        ELSE IF st.wrap = {} THEN st' = Goto(st, "LENGTH") /\ UNCHANGED <<input, strm, call, output>>
        ELSE /\ strm' = [strm EXCEPT !.next_in = @ + k, !.total_out = @ + Produced]
             /\ call' = [call EXCEPT !.have = @ - k, !.beg = Len(output)]
             /\ st' = Compared([Accounted(st, LastOf(output, Produced)) EXCEPT !.hold = Held(k)],
                               IF st.flags # {} THEN Held(k) ELSE ZSWAP32(Held(k)))
             /\ UNCHANGED <<input, output>>
  IN Go("CHECK") /\ \E k \in {Need(LAMBDA h : st.wrap = {} \/ Len(h) >= 32)} : Pull(k)

Finished ==
  /\ call.pc = "run" /\ st.mode \in {"DONE", "BAD"}
  /\ call' = [call EXCEPT !.pc = "leave", !.ret = IF st.mode = "DONE" THEN "STREAM_END" ELSE "DATA_ERROR"]
  /\ UNCHANGED <<input, st, strm, output>>

Refused_ ==
  /\ call.pc = "run" /\ st.mode \in {"MEM", "SYNC"}
  /\ call' = [call EXCEPT !.pc = "idle", !.ret = IF st.mode = "MEM" THEN "MEM_ERROR" ELSE "STREAM_ERROR"]
  /\ UNCHANGED <<input, st, strm, output>>

\* Whether the output of the call goes to the window.
KeepsWindow ==
  \/ st.wsize # 0
  \/ Produced > 0 /\ st.mode # "BAD" /\ (st.mode \notin {"CHECK", "LENGTH", "DONE"} \/ call.flush # "FINISH")

inf_leave ==
  LET Kept(t) == IF KeepsWindow THEN updatewindow(t, LastOf(output, Produced)) ELSE t
      used == call.in - call.have
      idle == (used = 0 /\ Produced = 0) \/ call.flush = "FINISH"
  IN /\ call.pc = "leave"
     /\ st' = Kept(Accounted(st, LastOf(output, Produced)))
     /\ strm' = [strm EXCEPT !.total_in = @ + used, !.total_out = @ + Produced]
     /\ call' = [call EXCEPT !.pc = "idle", !.ret = IF idle /\ @ = "OK" THEN "BUF_ERROR" ELSE @]
     /\ UNCHANGED <<input, output>>

\* There is no memory for the window: the totals stay as they were.
NoMemory ==
  /\ MayFail[input.kind] /\ call.pc = "leave" /\ KeepsWindow /\ st.wsize = 0
  /\ st' = Goto(st, "MEM")
  /\ call' = [call EXCEPT !.pc = "idle", !.ret = "MEM_ERROR"]
  /\ UNCHANGED <<input, strm, output>>

\* A dictionary is set when it is asked for, or before a raw stream.
inflateSetDictionary(dict) ==
  /\ call.pc = "idle" /\ ~st.havedict
  /\ st.mode = "DICT" \/ (st.wrap = {} /\ st.mode = "HEAD")
  /\ IF st.mode = "DICT" /\ Adler(adler32_z(adler32_init, dict)) # st.check
     THEN call' = [call EXCEPT !.ret = "DATA_ERROR"] /\ UNCHANGED st
     ELSE st' = [updatewindow(st, dict) EXCEPT !.havedict = TRUE] /\ call' = [call EXCEPT !.ret = "OK"]
  /\ UNCHANGED <<input, strm, output>>

\* What inflateGetDictionary yields.
inflateGetDictionary ==
  IF st.whave = 0 THEN <<>>
  ELSE WindowBytes(st.wnext, st.whave - st.wnext) \o WindowBytes(0, st.wnext)

\* The bytes of the pattern 0 0 255 255 found so far, and the bytes looked at.
syncsearch(have, buf) ==
  LET run[i \in 0..Len(buf)] ==
        IF i = 0 THEN <<have, 0>>
        ELSE LET r == run[i - 1]
                 got == r[1]
             IN IF got = 4 THEN r
                ELSE <<IF buf[i] = (IF got < 2 THEN 0 ELSE 255) THEN got + 1
                       ELSE IF buf[i] # 0 THEN 0 ELSE 4 - got, i>>
  IN run[Len(buf)]

\* hold <<= bits & 7, and the partial byte is taken off the number of bits.
SyncBytes(hold) ==
  LET odd == Len(hold) % 8
      shifted == SubSeq([i \in 1..odd |-> 0] \o hold, 1, Len(hold) - odd)
  IN HeldBytes(shifted)

inflateSync(n) ==
  /\ call.pc = "idle" /\ st.mode \in MaySync[input.kind]
  /\ LET avail == Least(n, Remaining)
         first == IF st.mode # "SYNC" THEN syncsearch(0, SyncBytes(st.hold))[1] ELSE st.have
         r == syncsearch(first, NextBytes(avail))
         t == [st EXCEPT !.mode = "SYNC", !.hold = <<>>, !.have = r[1]]
     IN IF avail = 0 /\ Len(st.hold) < 8 THEN call' = [call EXCEPT !.ret = "BUF_ERROR"] /\ UNCHANGED <<st, strm>>
        ELSE /\ strm' = [strm EXCEPT !.next_in = @ + r[2], !.total_in = @ + r[2]]
             /\ st' = IF r[1] # 4 THEN t ELSE Goto(inflateReset(t), "TYPE")
             /\ call' = [call EXCEPT !.ret = IF r[1] # 4 THEN "DATA_ERROR" ELSE "OK"]
  /\ UNCHANGED <<input, output>>

-----------------------------------------------------------------------------
Decode ==
  \/ Header \/ Flags \/ Time \/ Os \/ ExLen \/ Extra \/ Name \/ Comment \/ Hcrc \/ DictId \/ Dict
  \/ Type \/ TypeDo \/ Stored \/ CopyStart \/ Copy \/ Table \/ LenLens \/ CodeLens
  \/ LenStart \/ LenSlow \/ inflate_fast \/ LenExt \/ Dist \/ DistExt \/ Match \/ Lit
  \/ Check \/ Length \/ Finished \/ Refused_ \/ inf_leave \/ NoMemory
Next ==
  \/ Decode
  \/ \E n \in AvailIn[input.kind], m \in AvailOut[input.kind], flush \in Flushes[input.kind] : Call(n, m, flush)
  \/ \E dict \in input.dicts : inflateSetDictionary(dict)
  \/ \E n \in AvailIn[input.kind] : inflateSync(n)
Spec == Init /\ [][Next]_vars
\* The caller goes on calling and the calls go on: steps never end.  Some step
\* is always possible, so that this is weak fairness of Next.
FairSpec == Spec /\ []<><<TRUE>>_vars

-----------------------------------------------------------------------------
(* Properties.                                                              *)

History == (IF st.havedict THEN CHOOSE dict \in input.dicts : \A d \in input.dicts : Len(d) <= Len(dict)
            ELSE <<>>) \o output
Decoding == st.mode \notin {"CHECK", "LENGTH", "DONE", "BAD", "MEM", "SYNC"}
Prefix(a, b) == Len(a) <= Len(b) /\ a = SubSeq(b, 1, Len(a))

\* However the stream and the room for its output are cut, and whichever of
\* the slow and the fast decoder gets at which part of it, inflate puts out
\* what the blocks mean and no other byte; it reports the end of a stream
\* exactly when all of it is out, and an error exactly where the stream is
\* wrong.
DecodesAsMeant ==
  /\ Prefix(output, input.out)
  /\ st.mode = "DONE" => input.ok /\ output = input.out
  /\ st.mode = "BAD" => ~input.ok /\ output = input.out
  /\ call.pc = "idle" =>
       /\ call.ret = "STREAM_END" => st.mode = "DONE"
       /\ call.ret = "DATA_ERROR" => st.mode \in {"BAD", "DICT"}

\* At the end of the stream the input stands right behind its last byte, for
\* whoever reads on there: the bytes that inflate_fast took ahead are back.
ConsumedExactly == st.mode = "DONE" => strm.next_in = input.used

\* Between two calls the window holds the last bytes of the dictionary and of
\* the output, as many as it has room for, in their order.
WindowIsTail ==
  call.pc = "idle" /\ Decoding =>
    inflateGetDictionary = LastOf(History, Least(Len(History), 2^st.wbits))

\* Between two calls total_out and the check value account for each byte of
\* the output once, whether the trailer was reached or not.
TotalsExact ==
  call.pc = "idle" /\ st.mode \notin {"MEM", "SYNC"} =>
    /\ strm.total_out = Len(output) /\ st.total = Len(output)
    /\ Validates(st) /\ Decoding /\ output # <<>> => st.check = UPDATE([st EXCEPT !.check =
         IF st.flags = {} THEN Adler(adler32_init) ELSE crc32_init], output)

\* inflateSync, called as often as it takes, skips to right behind the first
\* pattern 0 0 255 255 that was not decoded yet, and decoding resumes there:
\* nothing is put out but what comes before the error and after the pattern.
\* A byte held behind an odd number of bits is searched as what shifting the
\* bits up, not down, makes of it: a pattern that begins in it is missed when
\* that is not 0, and 0 255 255 behind it is taken for one when it is.
SyncResumes ==
  /\ st.mode = "SYNC" => strm.next_in < input.found
  /\ Prefix(output, input.out \o input.resumed)
  /\ st.mode = "DONE" => output = input.out \o input.resumed

=============================================================================
