----------------------------- MODULE HttpIngest -----------------------------
(***************************************************************************)
(* The HTTP server of the adapter (HttpIngest.cpp) over connections that   *)
(* deliver a request in segments of any size.  A request is a sequence of  *)
(* items: the request line, header lines, the blank line, and the tokens   *)
(* of the body.  The state of a connection is kept under the address of    *)
(* its TcpConnection, and addresses are reused.                            *)
(*                                                                         *)
(* parseJsonFields: the body of a POST, a flat JSON object, fills the cells *)
(* of a row.  The body is a sequence of lexical tokens; numbers are given   *)
(* in tenths, so that rounding to an integer column shows.  parseString is  *)
(* modelled on characters of its own.                                       *)
(***************************************************************************)
EXTENDS Integers, Sequences, FiniteSets, SequencesExt

CONSTANTS
  Kind,         \* field name -> "double", "bool" or "int"
  NULL,
  Requests,     \* the streams a client may send
  Devices,      \* peer -> "none" (unknown), "bare" (no field layout), "dev"
  NConns,       \* connections
  Addrs,        \* addresses of TcpConnection objects
  MaxRequest,   \* kMaxRequest, in items
  nullptr

VARIABLES
  conn,         \* connection -> [peer, state, addr, stream, got, resp]
  conns,        \* _conns: address -> nullptr or [buf, headerParsed, contentLen]
  rows          \* connection -> rows it put on the write queue

vars == <<conn, conns, rows>>

-----------------------------------------------------------------------------
(* parseJsonFields.                                                        *)

Fields == DOMAIN Kind

Token(t, s, n) == [t |-> t, s |-> s, n |-> n]
P(c) == Token("punct", c, 0)
Str(s) == Token("str", s, 0)
Num(n) == Token("num", "", n)
Lit(l) == Token("lit", l, 0)
WS  == Token("ws", "", 0)
Bad == Token("bad", "", 0)       \* starts no token, or a string without end

-----------------------------------------------------------------------------
Tok(b, i) == IF i \in DOMAIN b THEN b[i] ELSE Bad

RECURSIVE SkipWs(_, _)
SkipWs(b, i) == IF Tok(b, i) = WS THEN SkipWs(b, i + 1) ELSE i

\* std::llround of n tenths: halves go away from zero.
Llround(n) == IF n >= 0 THEN (n + 5) \div 10 ELSE -((5 - n) \div 10)

\* What a number leaves in a cell of the field's type.
Store(kind, n) ==
  CASE kind = "double" -> n
    [] kind = "bool"   -> IF n # 0 THEN 1 ELSE 0
    [] kind = "int"    -> Llround(n)

\* The cell of a member: a number, true or false is stored, null and a string
\* make it NULL; a key that is no field is ignored.
Cell(cells, key, v) ==
  IF key \notin Fields THEN cells
  ELSE [cells EXCEPT ![key] =
          IF v = Lit("null") \/ v.t = "str" THEN NULL
          ELSE Store(Kind[key], IF v.t = "num" THEN v.n ELSE IF v = Lit("true") THEN 10 ELSE 0)]

Syntax == [matched |-> -1, cells |-> <<>>]

RECURSIVE Members(_, _, _, _)
Members(b, i0, cells, matched) ==
  LET i == SkipWs(b, i0)
      j == SkipWs(b, i + 1)
      k == SkipWs(b, j + 1)
      l == SkipWs(b, k + 1)
      c == Cell(cells, Tok(b, i).s, Tok(b, k))
      m == IF Tok(b, i).s \in Fields THEN matched + 1 ELSE matched
  IN IF Tok(b, i).t # "str" \/ Tok(b, j) # P(":") \/ Tok(b, k).t \notin {"str", "num", "lit"}
     THEN Syntax
     ELSE IF Tok(b, l) = P(",") THEN Members(b, l + 1, c, m)
     ELSE IF Tok(b, l) = P("}") THEN [matched |-> m, cells |-> c]
     ELSE Syntax

ParseJsonFields(b) ==
  LET i == SkipWs(b, 1)
      none == [f \in Fields |-> NULL]
  IN IF Tok(b, i) # P("{") THEN Syntax
     ELSE IF Tok(b, SkipWs(b, i + 1)) = P("}") THEN [matched |-> 0, cells |-> none]
     ELSE Members(b, i + 1, none, 0)

-----------------------------------------------------------------------------
(* parseString: from an opening quote at i; [ok, out, i].                     *)
Escaped(e) == IF e = "n" THEN "LF" ELSE IF e = "t" THEN "TAB" ELSE IF e = "r" THEN "CR" ELSE e

RECURSIVE StringRest(_, _, _)
StringRest(s, i, out) ==
  IF i > Len(s) THEN [ok |-> FALSE, out |-> out, i |-> i]
  ELSE IF s[i] = "\\" THEN IF i + 1 > Len(s) THEN [ok |-> FALSE, out |-> out, i |-> i + 1]
                           ELSE StringRest(s, i + 2, Append(out, Escaped(s[i + 1])))
  ELSE IF s[i] = "\"" THEN [ok |-> TRUE, out |-> out, i |-> i + 1]
  ELSE StringRest(s, i + 1, Append(out, s[i]))

\* Mutant: a quote ends the string even after a backslash.
ParseStringNaive(s) ==
  IF s = <<>> \/ s[1] # "\"" THEN [ok |-> FALSE, out |-> <<>>, i |-> 1]
  ELSE LET q == {k \in 2 .. Len(s) : s[k] = "\""}
       IN IF q = {} THEN [ok |-> FALSE, out |-> <<>>, i |-> Len(s) + 1]
          ELSE LET e == CHOOSE k \in q : \A m \in q : k <= m
               IN [ok |-> TRUE, out |-> SubSeq(s, 2, e - 1), i |-> e + 1]

ParseString(s) ==
  IF s = <<>> \/ s[1] # "\"" THEN [ok |-> FALSE, out |-> <<>>, i |-> 1]
  ELSE StringRest(s, 2, <<>>)

-----------------------------------------------------------------------------
Conns == 1 .. NConns
Line(method) == Token("line", method, 0)
CL(n) == Token("cl", "", n)           \* Content-Length: n
Hdr == Token("hdr", "", 0)
End == Token("end", "", 0)            \* CR LF CR LF
ConnState == [buf |-> <<>>, headerParsed |-> FALSE, contentLen |-> 0]

Init ==
  /\ conn = [c \in Conns |-> [peer |-> nullptr, state |-> "kConnecting", addr |-> nullptr,
                             stream |-> <<>>, got |-> 0, resp |-> <<>>]]
  /\ conns = [a \in Addrs |-> nullptr]
  /\ rows = [c \in Conns |-> <<>>]

-----------------------------------------------------------------------------
\* onConnection of a connection that is up.
OnConnection(c, a) ==
  /\ conns' = [conns EXCEPT ![a] = ConnState]

\* A client connects, from a peer address and with what it will send; connections
\* are numbered as they are accepted.
Up(c) ==
  /\ conn[c].state = "kConnecting" /\ \A d \in 1 .. c - 1 : conn[d].state # "kConnecting"
  /\ \E a \in Addrs \ {conn[d].addr : d \in Conns}, p \in DOMAIN Devices, s \in Requests :
       /\ conn' = [conn EXCEPT ![c].state = "kConnected", ![c].addr = a, ![c].peer = p, ![c].stream = s]
       /\ OnConnection(c, a)
  /\ UNCHANGED rows

\* The connection goes down, for onConnection to forget it; its object lives until
\* the loop has run the functor that destroys it.  After a reset the event that
\* closed it still reads once.
Down(c) ==
  /\ conn[c].state \in {"kConnected", "kDisconnecting"}
  /\ conn' = [conn EXCEPT ![c].state = "kDisconnected"]
  /\ conns' = [conns EXCEPT ![conn[c].addr] = nullptr]
  /\ UNCHANGED rows

Freed(c) ==
  /\ conn[c].state \in {"kDisconnected", "destroyed"} /\ conn[c].addr # nullptr
  /\ conn' = [conn EXCEPT ![c].addr = nullptr, ![c].state = "destroyed"]
  /\ UNCHANGED <<conns, rows>>

\* parseHeaderBlock: the last Content-Length counts, 0 if there is none.
ParseHeaderBlock(head) ==
  LET cls == {i \in DOMAIN head : head[i].t = "cl"}
  IN [ok |-> Len(head) > 1,      \* without a header line there is no CRLF to find
      method |-> IF head = <<>> THEN "" ELSE head[1].s,
      contentLen |-> IF cls = {} THEN 0 ELSE head[CHOOSE i \in cls : \A j \in cls : i >= j].n]

HdrEnd(buf) == SelectInSeq(buf, LAMBDA x : x = End)

Reject(code) == [code |-> code, row |-> <<>>]

\* handleRequest: what is answered, and the row if there is one.
HandleRequest(peer, body) ==
  IF Devices[peer] = "none" THEN Reject(404)
  ELSE IF Devices[peer] = "bare" THEN Reject(400)
  ELSE LET r == ParseJsonFields(body)
       IN IF r.matched < 0 THEN Reject(400) ELSE [code |-> 200, row |-> <<r.cells>>]

Wait == Reject(0)

TakeBody(peer, st) ==
  IF Len(st.buf) < st.contentLen THEN Wait
  ELSE HandleRequest(peer, SubSeq(st.buf, 1, st.contentLen))

\* Mutant: the header is looked for in each segment anew.
OnMessageForgets(peer, st0, seg) ==
  LET st == [st0 EXCEPT !.buf = IF st0.headerParsed THEN @ \o seg ELSE seg]
      e  == HdrEnd(st.buf)
      h  == ParseHeaderBlock(SubSeq(st.buf, 1, e - 1))
  IN IF Len(st.buf) > MaxRequest THEN [st |-> st, r |-> Reject(413)]
     ELSE IF st.headerParsed THEN [st |-> st, r |-> TakeBody(peer, st)]
     ELSE IF e = 0 THEN [st |-> st, r |-> Wait]
     ELSE IF ~h.ok THEN [st |-> st, r |-> Reject(400)]
     ELSE IF h.method # "POST" THEN [st |-> st, r |-> Reject(405)]
     ELSE LET p == [buf |-> SubSeq(st.buf, e + 1, Len(st.buf)), headerParsed |-> TRUE,
                    contentLen |-> h.contentLen]
          IN [st |-> p, r |-> TakeBody(peer, p)]

\* onMessage: the connection's state after segment seg, and what to answer.
OnMessage(peer, st0, seg) ==
  LET st == [st0 EXCEPT !.buf = @ \o seg]
      e  == HdrEnd(st.buf)
      h  == ParseHeaderBlock(SubSeq(st.buf, 1, e - 1))
  IN IF Len(st.buf) > MaxRequest THEN [st |-> st, r |-> Reject(413)]
     ELSE IF st.headerParsed THEN [st |-> st, r |-> TakeBody(peer, st)]
     ELSE IF e = 0 THEN [st |-> st, r |-> Wait]
     ELSE IF ~h.ok THEN [st |-> st, r |-> Reject(400)]
     ELSE IF h.method # "POST" THEN [st |-> st, r |-> Reject(405)]
     ELSE LET p == [buf |-> SubSeq(st.buf, e + 1, Len(st.buf)), headerParsed |-> TRUE,
                    contentLen |-> h.contentLen]
          IN [st |-> p, r |-> TakeBody(peer, p)]

\* sendResponse: send does nothing unless the connection is connected, and shutdown
\* makes it disconnecting.
SendResponse(x, code) ==
  IF code = 0 \/ x.state # "kConnected" THEN x
  ELSE [x EXCEPT !.state = "kDisconnecting", !.resp = Append(@, code)]

\* The loop reads n items.
Message(c, n) ==
  /\ conn[c].state \in {"kConnected", "kDisconnecting", "kDisconnected"}
  /\ n <= Len(conn[c].stream) - conn[c].got
  /\ LET a   == conn[c].addr
         st  == IF conns[a] = nullptr THEN ConnState ELSE conns[a]
         seg == SubSeq(conn[c].stream, conn[c].got + 1, conn[c].got + n)
         o   == OnMessage(conn[c].peer, st, seg)
     IN /\ conns' = [conns EXCEPT ![a] = o.st]
        /\ conn' = [conn EXCEPT ![c] = SendResponse(
             [@ EXCEPT !.got = @ + n, !.state = IF @ = "kDisconnected" THEN "destroyed" ELSE @], o.r.code)]
        /\ rows' = [rows EXCEPT ![c] = @ \o o.r.row]

Next ==
  \E c \in Conns : Up(c) \/ Down(c) \/ Freed(c) \/ \E n \in 1 .. Len(conn[c].stream) : Message(c, n)

Spec == Init /\ [][Next]_vars
-----------------------------------------------------------------------------
(* The answer a stream deserves, read as a whole.                             *)
Deserved(peer, s) ==
  LET e == HdrEnd(s)
      h == ParseHeaderBlock(SubSeq(s, 1, e - 1))
      body == SubSeq(s, e + 1, Len(s))
  IN IF e = 0 THEN Wait
     ELSE IF ~h.ok THEN Reject(400)
     ELSE IF h.method # "POST" THEN Reject(405)
     ELSE IF Len(body) < h.contentLen THEN Wait
     ELSE HandleRequest(peer, SubSeq(body, 1, h.contentLen))

Received(c) == SubSeq(conn[c].stream, 1, conn[c].got)

\* However a request is cut into segments, and whatever connection had the address
\* before, a client has its answer as soon as its request is complete, and it is the
\* answer to the bytes it sent (requests within kMaxRequest).
AnswerFollowsStream ==
  \A c \in Conns : conn[c].state \in {"kConnected", "kDisconnecting"} /\ conn[c].got <= MaxRequest =>
    conn[c].resp = IF Deserved(conn[c].peer, Received(c)) = Wait THEN <<>>
                   ELSE <<Deserved(conn[c].peer,
                     CHOOSE p \in {SubSeq(Received(c), 1, n) : n \in 0 .. conn[c].got} :
                       /\ Deserved(conn[c].peer, p) # Wait
                       /\ \A n \in 0 .. Len(p) - 1 : Deserved(conn[c].peer, SubSeq(p, 1, n)) = Wait).code>>

\* Every row on the write queue is the body of a complete request of its own
\* connection: no row is made of a part of a body, of bytes after it, or of another
\* client's bytes.
RowsAreBodies ==
  \A c \in Conns : \A i \in DOMAIN rows[c] :
    \E from \in 0 .. conn[c].got :
      <<rows[c][i]>> = Deserved(conn[c].peer, SubSeq(conn[c].stream, from + 1, conn[c].got)).row

\* One row per answered request: the server says "connection: close"
\* (HttpIngest.cpp:249), so a connection carries one request.
OneRowPerRequest == \A c \in Conns : Len(rows[c]) <= 1

=============================================================================
