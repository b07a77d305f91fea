------------------------------- MODULE Buffer -------------------------------
(***************************************************************************)
(* net/Buffer: a vector with room in front of the bytes, a reader and a     *)
(* writer index, numbers in network byte order at both ends and searches    *)
(* for line ends.  Calls keep the preconditions the code asserts.           *)
(***************************************************************************)
EXTENDS Integers, Sequences

CONSTANTS
  Base, CR, LF, Widths, Strings, MaxBytes,   \* as in ByteQueue
  kCheapPrepend, kInitialSize

VARIABLES
  buf,   \* _buffer, whose element i is buf[i + 1]
  rd,    \* _readerIndex
  wr,    \* _writerIndex
  out    \* what the last call returned

vars == <<buf, rd, wr, out>>

Zeros(n) == [i \in 1..n |-> 0]
readable(b) == b.wr - b.rd
writable(b) == Len(b.buf) - b.wr
Now == [buf |-> buf, rd |-> rd, wr |-> wr]
NewBuffer == [buf |-> Zeros(kCheapPrepend + kInitialSize), rd |-> kCheapPrepend, wr |-> kCheapPrepend]

\* std::copy of the elements from..to-1 of src to place at of dst.
Copy(src, from, to, dst, at) ==
  [i \in 1..Len(dst) |-> IF i - 1 \in at..(at + to - from - 1) THEN src[from + (i - at)] ELSE dst[i]]

\* toStringPiece.
Peek(b) == SubSeq(b.buf, b.rd + 1, b.wr)

Become(b) == buf' = b.buf /\ rd' = b.rd /\ wr' = b.wr

-----------------------------------------------------------------------------
\* A larger vector, or the bytes moved to the front.
makeSpace(b, len) ==
  IF writable(b) + b.rd < len + kCheapPrepend
  THEN [buf |-> Copy(b.buf, b.rd, b.wr, Zeros(len + readable(b) + kCheapPrepend), kCheapPrepend),
        rd |-> kCheapPrepend, wr |-> kCheapPrepend + readable(b)]
  ELSE [buf |-> Copy(b.buf, b.rd, b.wr, b.buf, kCheapPrepend),
        rd |-> kCheapPrepend, wr |-> kCheapPrepend + readable(b)]

ensureWritableBytes(b, len) == IF writable(b) < len THEN makeSpace(b, len) ELSE b

append(b, s) ==
  LET e == ensureWritableBytes(b, Len(s))
  IN [e EXCEPT !.buf = Copy(s, 0, Len(s), e.buf, e.wr), !.wr = @ + Len(s)]

prepend(b, s) ==
  [b EXCEPT !.buf = Copy(s, 0, Len(s), b.buf, b.rd - Len(s)), !.rd = @ - Len(s)]

retrieveAll(b) == [b EXCEPT !.rd = kCheapPrepend, !.wr = kCheapPrepend]
retrieve(b, len) == IF len < readable(b) THEN [b EXCEPT !.rd = @ + len] ELSE retrieveAll(b)

\* A number of w bytes as a little-endian host stores and loads it.
Stored(x, w) == [i \in 1..w |-> (x \div Base^(i - 1)) % Base]
Loaded(s) == LET v[i \in 0..Len(s)] == IF i = 0 THEN 0 ELSE v[i - 1] + s[i] * Base^(i - 1) IN v[Len(s)]

\* The bytes in the other order, by shifts and masks.
flipBytes(x, w) ==
  LET v[i \in 0..w] == IF i = 0 THEN 0
                       ELSE v[i - 1] + ((x \div Base^(w - i)) % Base) * Base^(i - 1)
  IN v[w]

toNetwork(x, w) == Stored(flipBytes(x, w), w)
fromNetwork(s) == flipBytes(Loaded(s), Len(s))

-----------------------------------------------------------------------------
(* The calls.                                                              *)

Fits(s) == readable(Now) + Len(s) <= MaxBytes

AppendBytes(s) == Fits(s) /\ Become(append(Now, s)) /\ out' = <<>>
appendInt == \E w \in Widths : \E x \in 0..(Base^w - 1) : AppendBytes(toNetwork(x, w))
prependInt ==
  \E w \in Widths : \E x \in 0..(Base^w - 1) :
    /\ w <= rd
    /\ Fits(Zeros(w))
    /\ Become(prepend(Now, toNetwork(x, w)))
    /\ out' = <<>>
retrieveAsString ==
  \E n \in 0..readable(Now) : out' = SubSeq(Peek(Now), 1, n) /\ Become(retrieve(Now, n))
readInt ==
  \E w \in Widths :
    /\ w <= readable(Now)
    /\ out' = <<fromNetwork(SubSeq(buf, rd + 1, rd + w))>>
    /\ Become(retrieve(Now, w))
unwrite == \E n \in 0..readable(Now) : wr' = wr - n /\ out' = <<>> /\ UNCHANGED <<buf, rd>>

\* The first place up to the writer index at which Is holds, from the first byte.
Found(S) == IF S = {} THEN <<>> ELSE <<(CHOOSE i \in S : \A j \in S : i <= j) - rd>>

\* Mutant of findCRLF: the byte after the last is looked at.
findCRLFPast ==
  /\ out' = Found({i \in rd..(wr - 1) : buf[i + 1] = CR /\ i + 2 <= Len(buf) /\ buf[i + 2] = LF})
  /\ UNCHANGED <<buf, rd, wr>>

findCRLF ==
  /\ out' = Found({i \in rd..(wr - 2) : buf[i + 1] = CR /\ buf[i + 2] = LF})
  /\ UNCHANGED <<buf, rd, wr>>
findEOL ==
  /\ out' = Found({i \in rd..(wr - 1) : buf[i + 1] = LF})
  /\ UNCHANGED <<buf, rd, wr>>

\* Another buffer with room in reserve takes the bytes and the place of this one.
shrink ==
  \E reserve \in 0..1 :
    /\ Become(append(ensureWritableBytes(NewBuffer, readable(Now) + reserve), Peek(Now)))
    /\ out' = <<>>

-----------------------------------------------------------------------------
Init == buf = NewBuffer.buf /\ rd = NewBuffer.rd /\ wr = NewBuffer.wr /\ out = <<>>
Next == \/ \E s \in Strings : AppendBytes(s)
        \/ appendInt \/ prependInt \/ retrieveAsString \/ readInt \/ unwrite
        \/ findCRLF \/ findEOL \/ shrink
Spec == Init /\ [][Next]_vars

-----------------------------------------------------------------------------
\* The indices stay in the vector, and in order.
TypeOK == 0 <= rd /\ rd <= wr /\ wr <= Len(buf)

Queue == INSTANCE ByteQueue WITH content <- Peek(Now)

\* Whatever is appended, prepended, taken back, searched and read, and however
\* the vector is moved and grown, the buffer is a queue of bytes.
IsByteQueue == Queue!Spec
=============================================================================
