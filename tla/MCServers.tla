----------------------------- MODULE MCServers ------------------------------
(***************************************************************************)
(* What talks to devices and clients, for TLC: TcpServer, IngestServer on   *)
(* top of it, HttpIngest with its JSON parser, ModbusPoller and Buffer.  A  *)
(* behaviour is one of one of these; the others stay in their initial       *)
(* states.                                                                  *)
(***************************************************************************)
EXTENDS TcpServer, SequencesExt, TLC

CONSTANTS
  Parts,     \* of "tcp", "ingest", "http", "json", "poller" and "buffer"
  IngestPeers, IngestRx, Groups, Ingestable, Match(_), nullptr, absent,   \* of IngestServer
  Kind, NULL, Requests, Devices, NConns, Addrs, MaxRequest,     \* of HttpIngest
  Sessions, PollFds, TidLimit, MaxPush, invalid,                \* of ModbusPoller
  Base, CR, LF, Widths, Strings, MaxBytes, kCheapPrepend, kInitialSize \* of Buffer

VARIABLES
  part,                                                    \* the component that moves
  iPhase, iSock, iConn, iChan, iActive, iQueue, iFunctors, iLog, addr, group, chunks,
  hConn, conns, rows,
  body, chars,                                             \* inputs of the JSON parser
  running, main, shut, pc, fd, mx, my, tid, req, owner, inbox,
  buf, rd, wr, out

ingestVars == <<iPhase, iSock, iConn, iChan, iActive, iQueue, iFunctors, iLog, addr, group, chunks>>
httpVars == <<hConn, conns, rows>>
jsonVars == <<body, chars>>
pollerVars == <<running, main, shut, pc, fd, mx, my, tid, req, owner, inbox>>
bufferVars == <<buf, rd, wr, out>>

I == INSTANCE IngestServer WITH
       phase <- iPhase, sock <- iSock, conn <- iConn, chan <- iChan, active <- iActive,
       queue <- iQueue, functors <- iFunctors, log <- iLog,
       Peers <- IngestPeers, MaxRx <- IngestRx, UserCalls <- {"none"}
H == INSTANCE HttpIngest WITH conn <- hConn
\* HttpIngest without inputs, for the tokens the inputs are made of.
Tok == INSTANCE HttpIngest WITH conn <- hConn, Requests <- {}
P == INSTANCE ModbusPoller WITH Fds <- PollFds
B == INSTANCE Buffer

ASSUME I!IngestAssumption
ASSUME P!PollerAssumption

-----------------------------------------------------------------------------
(* Peers of two groups that can be ingested, of one that cannot, of none.    *)
MatchPeer(p) == CASE p = "p1" -> "g1" [] p = "p2" -> "g2" [] p = "p3" -> "g3" [] OTHER -> nullptr

(* Requests that are complete, too long, wrong in the method, the header or   *)
(* the body, and followed by more bytes.                                      *)
KindDef == [d |-> "double", b |-> "bool", i |-> "int"]
DevicesDef == [known |-> "dev", bare |-> "bare", other |-> "none"]
OnePeer == [known |-> "dev"]

Body == <<Tok!P("{"), Tok!Str("i"), Tok!P(":"), Tok!Num(25), Tok!P("}")>>
Post(n, b) == <<Tok!Line("POST"), Tok!CL(n), Tok!End>> \o b
RequestsDef ==
  { Post(5, Body) \o <<Tok!WS>>,                      \* a line end after the body
    Post(0, <<>>) \o Post(5, Body),                   \* two requests in one stream
    <<Tok!Line("POST"), Tok!CL(9), Tok!CL(5), Tok!End>> \o Body, \* the last length counts
    <<Tok!Line("POST"), Tok!End>> \o Body,            \* no header line
    <<Tok!Line("GET"), Tok!Hdr, Tok!End>>,
    Post(8, Body \o <<Tok!WS, Tok!WS>>) }             \* longer than the cap
MoreDef == {Post(5, Body) \o <<Tok!WS>>}

(* JSON objects of up to two members, and every string of up to six           *)
(* characters.                                                                *)
Keys == {"d", "b", "i", "x"}
Values == {H!Num(25), H!Num(-5), H!Num(0), H!Num(4), H!Lit("null"), H!Lit("true"), H!Lit("false"), H!Str("d")}
Member(k, v) == <<H!Str(k), H!P(":"), v>>
Objects1 == {<<H!P("{")>> \o Member(k, v) \o <<H!P("}")>> : k \in Keys, v \in Values}
Objects2 == {<<H!P("{")>> \o Member(k, v) \o <<H!P(",")>> \o Member(l, w) \o <<H!P("}")>> :
               k \in {"d", "i"}, v \in {H!Num(25), H!Lit("null")}, l \in Keys, w \in Values}
Sentences == {<<H!P("{"), H!P("}")>>} \cup Objects1 \cup Objects2

Tokens == {H!P("{"), H!P("}"), H!P(","), H!P(":"), H!WS, H!Bad, H!Num(4), H!Str("d"), H!Lit("null")}
Chars == {"\"", "\\", "n", "a"}

Symmetric == Permutations(Sessions)

StringsDef == {<<1, 2>>, <<2, 0, 1>>}

-----------------------------------------------------------------------------
HttpAtRest ==
  hConn = [c \in 1 .. NConns |-> <<>>] /\ conns = <<>> /\ rows = [c \in 1 .. NConns |-> <<>>]

JsonAtRest == body = <<H!P("{"), H!P("}")>> /\ chars = <<>>

SuiteInit ==
  /\ part \in Parts /\ Init /\ I!IInit /\ P!Init /\ B!Init
  /\ IF part = "http" THEN H!Init ELSE HttpAtRest
  /\ IF part = "json" THEN body \in Sentences /\ chars = <<>> ELSE JsonAtRest

\* One edit: a token inserted, replaced or deleted.
Edit ==
  /\ body \in Sentences
  /\ \/ \E i \in 0 .. Len(body), t \in Tokens : body' = SubSeq(body, 1, i) \o <<t>> \o SubSeq(body, i + 1, Len(body))
     \/ \E i \in DOMAIN body, t \in Tokens : body' = [body EXCEPT ![i] = t]
     \/ \E i \in DOMAIN body : body' = RemoveAt(body, i)
  /\ UNCHANGED chars

Extend ==
  /\ body = <<H!P("{"), H!P("}")>> /\ Len(chars) < 6
  /\ \E c \in Chars : chars' = Append(chars, c)
  /\ UNCHANGED body

SuiteNext ==
  \/ part = "tcp" /\ Next
     /\ UNCHANGED <<part, ingestVars, httpVars, jsonVars, pollerVars, bufferVars>>
  \/ part = "ingest" /\ I!INext
     /\ UNCHANGED <<part, vars, httpVars, jsonVars, pollerVars, bufferVars>>
  \/ part = "http" /\ H!Next
     /\ UNCHANGED <<part, vars, ingestVars, jsonVars, pollerVars, bufferVars>>
  \/ part = "json" /\ (Edit \/ Extend)
     /\ UNCHANGED <<part, vars, ingestVars, httpVars, pollerVars, bufferVars>>
  \/ part = "poller" /\ P!Next
     /\ UNCHANGED <<part, vars, ingestVars, httpVars, jsonVars, bufferVars>>
  \/ part = "buffer" /\ B!Next
     /\ UNCHANGED <<part, vars, ingestVars, httpVars, jsonVars, pollerVars>>

SuiteSpec ==
  SuiteInit /\ [][SuiteNext]_<<part, vars, ingestVars, httpVars, jsonVars, pollerVars, bufferVars>>

-----------------------------------------------------------------------------
(* The reference: without white space, the body is an object of n members,    *)
(* followed by anything.                                                      *)
Plain == SelectSeq(body, LAMBDA t : t # H!WS)
IsObject(n) ==
  /\ Len(Plain) >= 4 * n + 1 /\ Plain[1] = H!P("{") /\ Plain[4 * n + 1] = H!P("}")
  /\ \A m \in 1 .. n :
       /\ Plain[4 * m - 2].t = "str" /\ Plain[4 * m - 1] = H!P(":")
       /\ Plain[4 * m].t \in {"str", "num", "lit"}
       /\ m < n => Plain[4 * m + 1] = H!P(",")
ObjectSizes == {n \in 1 .. 4 : IsObject(n)}
Empty == Len(Plain) >= 2 /\ Plain[1] = H!P("{") /\ Plain[2] = H!P("}")
Key(m) == Plain[4 * m - 2].s
Val(m) == Plain[4 * m]
Largest(S) == CHOOSE n \in S : \A m \in S : m <= n
LastOf(n, f) == Largest({m \in 1 .. n : Key(m) = f})

\* parseJsonFields accepts a flat JSON object, white space between tokens or not, and
\* nothing else; its result is the number of members that name a field.
AcceptsFlatObjects ==
  H!ParseJsonFields(body).matched =
    IF Empty THEN 0 ELSE IF ObjectSizes = {} THEN -1
    ELSE Cardinality({m \in 1 .. Largest(ObjectSizes) : Key(m) \in H!Fields})

\* The cell of a field holds the last value the object gives it, and is NULL when the
\* field is missing, null or a string ("Missing keys become NULL cells", HttpIngest.h).
LastValueStored ==
  H!ParseJsonFields(body).matched > 0 =>
    LET n == Largest(ObjectSizes) IN
    \A f \in H!Fields : H!ParseJsonFields(body).cells[f] =
      IF (\A m \in 1 .. n : Key(m) # f) \/ Val(LastOf(n, f)).t = "str" \/ Val(LastOf(n, f)) = H!Lit("null") THEN NULL
      ELSE LET v == IF Val(LastOf(n, f)).t = "num" THEN Val(LastOf(n, f)).n
                    ELSE IF Val(LastOf(n, f)) = H!Lit("true") THEN 10 ELSE 0
           IN CASE Kind[f] = "double" -> v
                [] Kind[f] = "bool" -> IF v = 0 THEN 0 ELSE 1
                [] Kind[f] = "int" -> CHOOSE z \in -10 .. 10 :
                     /\ 2 * (10 * z - v) \in -10 .. 10
                     /\ 2 * (10 * z - v) = 10 => v >= 0
                     /\ 2 * (10 * z - v) = -10 => v < 0

\* A string ends at the first quote that an even number of backslashes precedes, and
\* not before: an escaped quote is part of it.
StringEndsAtBareQuote ==
  LET r == H!ParseString(chars)
      before(k) == {j \in 2 .. k - 1 : \A m \in j .. k - 1 : chars[m] = "\\"}
      bare == {k \in 2 .. Len(chars) : chars[k] = "\"" /\ Cardinality(before(k)) % 2 = 0}
  IN chars # <<>> /\ chars[1] = "\"" =>
       /\ r.ok <=> bare # {}
       /\ r.ok => r.i - 1 \in bare /\ \A k \in bare : r.i - 1 <= k

-----------------------------------------------------------------------------
\* IngestServer: each message of a peer that can be ingested is queued once, for
\* the group of that peer, also when addresses are used again.
ChunksRouted == part = "ingest" => I!RoutedByPeer /\ I!EveryMessageQueued

\* HttpIngest: a client has the answer to its own request when that is complete,
\* and every row is the body of a request of the same connection.
RowsAreBodies == part = "http" => H!AnswerFollowsStream /\ H!RowsAreBodies

\* HttpIngest: one row per answered request, as "connection: close" says.
OneRowPerRequest == part = "http" => H!OneRowPerRequest

\* parseJsonFields: flat objects are accepted and nothing else, the last value of
\* a field is stored, and a string ends at its first bare quote.
BodyAsMeant == part = "json" => AcceptsFlatObjects /\ LastValueStored /\ StringEndsAtBareQuote

\* ModbusPoller: a session's descriptor is its own open socket, and after stop()
\* nothing is open.
LinksOwned == part = "poller" => P!LinksOwned

\* Buffer: whatever is appended, prepended, taken back, searched and read, and
\* however the vector is moved and grown, the buffer is a queue of bytes.
IsByteQueue == B!Queue!Init /\ [][part # "buffer" \/ B!Queue!Next]_(B!Queue!vars)
=============================================================================
