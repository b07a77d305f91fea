----------------------------- MODULE HttpParser -----------------------------
(***************************************************************************)
(* The HTTP server's view of a connection (net/http/HttpParser.cpp and     *)
(* HttpServer::doMessage): the callbacks of the streaming parser fill one  *)
(* request, and when a read has completed one it is handled and the parser *)
(* is dropped.  The requests it should see are those of HttpStream's       *)
(* dialogues.                                                              *)
(***************************************************************************)
EXTENDS HttpStream, StringOps, TLC

CONSTANT Talks    \* the dialogues the server takes part in

VARIABLES
  reading,    \* doMessage is in parser->parser(buf)
  served,     \* the requests handed to handleRequest
  forced,     \* conn->forceClose() was called
  torn        \* history: the message in which a read ended inside the URL or a header, and which

serverVars == <<vars, reading, served, forced, torn>>

-----------------------------------------------------------------------------
(* URL encoding.  '%' is only decoded where two hexadecimal digits follow: *)
(* the assertions of the code are its precondition.                        *)

HexChars == "0123456789ABCDEF"
ToHex(x) == CharAt(HexChars, x + 1)

FromHex(c) == CodeOf[c] - (CASE c \in Uppers -> 65 - 10
                             [] c \in Lowers -> 97 - 10
                             [] IsNum(c) -> 48)

UrlEncode(str) ==
  LET Coding(c) == CASE isAlphaNumeric(c) \/ c \in {"-", "_", ".", "~"} -> c
                     [] c = " " -> "+"
                     [] OTHER -> "%" \o ToHex(CodeOf[c] \div 16) \o ToHex(CodeOf[c] % 16)
      run[i \in 0..Len(str)] ==
        IF i = 0 THEN "" ELSE LET r == run[i - 1] IN r \o Coding(CharAt(str, i))
  IN  run[Len(str)]

\* run[i]: what is decoded from byte i on.
UrlDecode(str) ==
  LET run[i \in 1..(Len(str) + 1)] ==
        IF i > Len(str) THEN ""
        ELSE CASE CharAt(str, i) = "+" -> LET r == run[i + 1] IN " " \o r
               [] CharAt(str, i) = "%" ->
                    LET r == run[i + 3]
                    IN  CharOf((FromHex(CharAt(str, i + 1)) * 16) + FromHex(CharAt(str, i + 2))) \o r
               [] OTHER -> LET r == run[i + 1] IN CharAt(str, i) \o r
  IN  run[1]

-----------------------------------------------------------------------------
(* The callbacks.  A map is a function on the keys it has.                 *)

NoMap == << >>
NewParser ==
  [status |-> "PARSERING", fild |-> 0, head |-> "", method |-> "", version |-> "", url |-> "",
   body |-> "", session |-> "", length |-> 0, params |-> NoMap, heads |-> NoMap, cookies |-> <<>>]

Failed(a) == [a EXCEPT !.status = "PARSERERROR"]
Insert(map, key, value) == (key :> value) @@ map
Key(text) == toLower(trim(text))

\* The loop over "k=v" pieces, split: an ill-formed one ends it with an error.
ParamPairs(a, pairs) ==
  LET bad == {i \in DOMAIN pairs : Len(pairs[i]) \notin 1..2}
      last == IF bad = {} THEN Len(pairs) ELSE (CHOOSE i \in bad : \A j \in bad : i <= j) - 1
      Take(map, param) == Insert(map, Key(UrlDecode(param[1])),
                                 IF Len(param) = 2 THEN trim(UrlDecode(param[2])) ELSE "")
  IN  [a EXCEPT !.params = FoldLeft(Take, @, SubSeq(pairs, 1, last)),
                !.status = IF bad = {} THEN @ ELSE "PARSERERROR"]
Params(a, pieces) == ParamPairs(a, [i \in DOMAIN pieces |-> split(pieces[i], "=", FALSE)])

OnUrlCallback(a, text) ==
  LET Taken(lines) ==
        IF Len(lines) \notin 1..2 THEN Failed(a)
        ELSE Params([a EXCEPT !.url = UrlDecode(lines[1])],
                    IF Len(lines) = 2 THEN split(lines[2], "&", FALSE) ELSE <<>>)
  IN  Taken(split(text, "?", FALSE))

OnHeaderFieldCallback(a, text) ==
  IF a.fild = 1 THEN Failed(a) ELSE [a EXCEPT !.fild = 1, !.head = text]

\* The cookies of a Cookie header; the one named amid is the session's id.
Cookies(a, value) ==
  LET Add(b, name, text, hasText) ==
        [b EXCEPT !.cookies = Append(@, <<name, text>>),
                  !.session = IF hasText /\ name = "amid" THEN text ELSE @]
      Take(b, param) == IF param = <<>> THEN b
                        ELSE Add(b, Key(param[1]), IF Len(param) >= 2 THEN Key(param[2]) ELSE "",
                                 Len(param) >= 2)
      Split(b, piece) == Take(b, split(piece, "=", FALSE))
  IN  FoldLeft(Split, a, split(value, ";", FALSE))

atoi(text) == LET run[i \in 0..Len(text)] ==
                    IF i = 0 THEN 0 ELSE LET r == run[i - 1] IN (10 * r) + Digit(CharAt(text, i))
              IN  run[Len(text)]

OnHeaderValueCallback(a, text) ==
  LET Taken(b, key, value) ==
        CASE key = "cookie" -> Cookies(b, value)
          [] key = "content-length" -> [b EXCEPT !.length = atoi(value)]
          [] OTHER -> b
      With(key, value) == Taken([a EXCEPT !.fild = 2, !.heads = Insert(@, key, value)], key, value)
  IN  IF a.fild # 1 THEN Failed(a) ELSE With(Key(a.head), Key(text))

Numeral(n) == CharAt("0123456789", n + 1)
OnHeadersCompleteCallback(a, q) ==
  [a EXCEPT !.method = q.method,
            !.version = "HTTP/" \o Numeral(q.major) \o "." \o Numeral(q.minor)]

OnMessageCompleteCallback(a) ==
  LET b == [a EXCEPT !.status = "PARSERED"]
  IN  CASE a.status = "PARSERERROR" \/ Len(a.body) < a.length -> a
        [] a.status # "PARSERERROR" /\ Len(a.body) >= a.length ->
             IF a.method = "POST" THEN Params(b, split(a.body, "&", FALSE)) ELSE b

\* Mutant of OnCallback: a later piece of a body replaces the earlier one.
BodyReplaced(a, q, cb, text) ==
  {[app |-> IF cb = "body" THEN [a EXCEPT !.body = text]
            ELSE IF cb = "url" THEN OnUrlCallback(a, text)
            ELSE IF cb = "header_field" THEN OnHeaderFieldCallback(a, text)
            ELSE IF cb = "header_value" THEN OnHeaderValueCallback(a, text)
            ELSE IF cb = "headers_complete" THEN OnHeadersCompleteCallback(a, q)
            ELSE IF cb = "message_complete" THEN OnMessageCompleteCallback(a)
            ELSE a,
    rc |-> 0, paused |-> FALSE]}

\* No callback of HttpParser fails or pauses.
OnCallback(a, q, cb, text) ==
  {[app |-> CASE cb = "url" -> OnUrlCallback(a, text)
              [] cb = "header_field" -> OnHeaderFieldCallback(a, text)
              [] cb = "header_value" -> OnHeaderValueCallback(a, text)
              [] cb = "headers_complete" -> OnHeadersCompleteCallback(a, q)
              [] cb = "body" -> [a EXCEPT !.body = @ \o text]
              [] cb = "message_complete" -> OnMessageCompleteCallback(a)
              [] OTHER -> a,
    rc |-> 0, paused |-> FALSE]}

-----------------------------------------------------------------------------
(* The pieces in which a dialogue is read.                                 *)

\* The bytes before the k-th message, and those of its URL and headers.
Before(d, k) == Len(Join([i \in 1..(k - 1) |-> Text(d.messages[i])]))
UrlBytes(d, k) ==
  LET m == d.messages[k]
      from == Before(d, k) + Len(m.method) + 1
  IN  (from + 1)..(from + Len(m.url))
HeaderBytes(d, k) ==
  LET m == d.messages[k]
      From(h) == Before(d, k) + Len(StartLine(m)) + Len(Join([i \in 1..(h - 1) |-> HeaderText(m.headers[i])]))
      Name(h) == (From(h) + 1)..(From(h) + Len(m.headers[h].name))
      Value(h) == LET v == From(h) + Len(m.headers[h].name \o ": ") IN (v + 1)..(v + Len(m.headers[h].value))
  IN  UNION {Name(h) \cup Value(h) : h \in DOMAIN m.headers}

TearsOf(D) ==
  LET Of(d) == {[message |-> k, kind |-> "url", bytes |-> UrlBytes(d, k)] : k \in DOMAIN d.messages}
               \cup {[message |-> k, kind |-> "header", bytes |-> HeaderBytes(d, k)] : k \in DOMAIN d.messages}
  IN  [t \in {WireText(d) : d \in D} |-> Of(CHOOSE d \in D : WireText(d) = t)]
Tears == TearsOf(Talks)

\* The reads that may come next: bytes of one message, since the client waits
\* for the answer before it sends another.  No read ends inside an escape,
\* which is the precondition of UrlDecode.
PiecesOf(D) ==
  LET Ends(d) == {Before(d, k + 1) : k \in DOMAIN d.messages}
      Whole(t, n) == CharAt(t, n) # "%" /\ (n = 1 \/ CharAt(t, n - 1) # "%")
      From(t, p, ends) == {n + 1 : n \in {n \in p..Len(t) : Whole(t, n) /\ ~\E e \in ends : p <= e /\ e < n}}
      Reads(t, ends) == [p \in 1..Len(t) |-> From(t, p, ends)]
  IN  [t \in {WireText(d) : d \in D} |-> Reads(t, Ends(CHOOSE d \in D : WireText(d) = t))]
Pieces == PiecesOf(Talks)

-----------------------------------------------------------------------------
(* HttpServer::doMessage.                                                  *)

\* The ids of the sessions: HttpSession leaves the id empty on POSIX.
SessionIds == {""}

\* The id a request keeps: that of a cookie, if there is such a session.
KeptSession(a) == IF a.session \in SessionIds THEN a.session ELSE ""

Request(a) == [method |-> a.method, version |-> a.version, url |-> a.url, body |-> a.body,
               session |-> KeptSession(a), params |-> a.params, headers |-> a.heads,
               cookies |-> a.cookies]

\* Where a read that ends behind byte n ends inside a URL or a header of the stream.
Tear(n) == LET T == {x \in Tears[input] : n \in x.bytes}
           IN  IF T = {} THEN <<>> ELSE LET x == CHOOSE x \in T : TRUE IN <<x.message, x.kind>>

\* The read ended before byte n; what an upgrade left unread is in it again.
\* Bound: one read of a connection ends inside a URL or a header.
doMessage(n) ==
  /\ ~reading
  /\ ~forced
  /\ torn = <<>> \/ Tear(n - 1) = <<>>
  /\ Execute(n)
  /\ reading' = TRUE
  /\ torn' = IF torn = <<>> THEN Tear(n - 1) ELSE torn
  /\ UNCHANGED <<served, forced>>

Parse == (Byte \/ Again \/ FieldLoop \/ ValueLoop \/ Flush) /\ UNCHANGED <<reading, served, forced, torn>>

\* What doMessage does with the status that parser->parser(buf) returns.
Returned ==
  /\ reading
  /\ at = "call"
  /\ reading' = FALSE
  /\ LET status == IF parser.errno # "OK" THEN "PARSERERROR" ELSE app.status
     IN  CASE status = "PARSERING" -> UNCHANGED <<parser, app, served, forced>>
           [] status = "PARSERERROR" -> forced' = TRUE /\ UNCHANGED <<parser, app, served>>
           [] status = "PARSERED" -> /\ served' = Append(served, Request(app))
                                     /\ parser' = http_parser_init("request")
                                     /\ app' = NewParser
                                     /\ UNCHANGED forced
  /\ UNCHANGED <<input, at, pos, stop, marks, start, torn>>

Finished == /\ ~reading
            /\ at = "call"
            /\ forced \/ pos > Len(input)
            /\ UNCHANGED serverVars

ServerInit(i) == Connected(i, NewParser) /\ reading = FALSE /\ served = <<>> /\ forced = FALSE
                 /\ torn = <<>>

ServerNext ==
  \/ (pos <= Len(input) /\ \E n \in Pieces[input][pos] : doMessage(n))
  \/ Parse
  \/ Returned
  \/ Finished

-----------------------------------------------------------------------------
(* HttpRequest: what a servlet asks of a request, by any spelling of a key. *)

\* The value of the key in the map; None if it has none.
Found(map, k) == IF k # "" /\ k \in DOMAIN map THEN map[k] ELSE None
Lookup(map, key) == Found(map, Key(key))

OrEmpty(v) == IF v = None THEN "" ELSE v
getHeader(r, key) == OrEmpty(Lookup(r.headers, key))
hasHeader(r, key) == Lookup(r.headers, key) # None
getParam(r, key)  == OrEmpty(Lookup(r.params, key))
hasParam(r, key)  == Lookup(r.params, key) # None

\* The first cookie of that name.
CookieNamed(cookies, k) ==
  LET C == {i \in DOMAIN cookies : k # "" /\ cookies[i][1] = k}
  IN  IF C = {} THEN None ELSE cookies[CHOOSE i \in C : \A j \in C : i <= j][2]
getCookie(r, key) == CookieNamed(r.cookies, Key(key))
hasCookie(r, key) == getCookie(r, key) # None

-----------------------------------------------------------------------------
(* Properties.                                                             *)

\* The requests handled are the requests sent, in order: the method, the
\* decoded path and parameters, every header and cookie and the body, with
\* names without regard to case, whatever pieces they came in.  HttpParser
\* does not append the pieces of a string (http_parser.h asks its users to):
\* of a URL that came in two it keeps the last, and takes a second piece of a
\* header for an error, so that the request is not handled.
RequestsAsSent(d) ==
  /\ Len(served) <= Len(d.messages)
  /\ \A i \in DOMAIN served :
       LET m == d.messages[i].meant IN
       /\ torn # <<i, "header">>
       /\ served[i] = IF torn = <<i, "url">> THEN [m EXCEPT !.url = served[i].url, !.params = served[i].params]
                      ELSE m

\* When all bytes were read the connection is open and no request is left,
\* or a piece of a URL or of a header made the server close it; nothing else
\* does.
EveryRequestServed(d) ==
  /\ forced => torn # <<>>
  /\ (~reading /\ at = "call" /\ pos > Len(input)) =>
       /\ forced \/ Len(served) = Len(d.messages)
       /\ torn # <<>> /\ torn[2] = "header" => forced

\* A servlet finds every header, parameter and cookie of the request under
\* the name it was sent with, however that is spelled, and none that was not
\* sent.
Finds(r, m) ==
  /\ \A h \in DOMAIN m.headers :
       /\ hasHeader(r, m.headers[h].name)
       /\ getHeader(r, " " \o m.headers[h].name) = toLower(m.headers[h].value)
  /\ \A p \in DOMAIN m.pairs : hasParam(r, m.pairs[p][1])
  /\ \A p \in DOMAIN m.pairs :
       (\A q \in (p + 1)..Len(m.pairs) : toLower(m.pairs[q][1]) # toLower(m.pairs[p][1]))
         => getParam(r, m.pairs[p][1]) = m.pairs[p][2]
  /\ \A c \in DOMAIN m.meant.cookies :
       getCookie(r, toUpper(m.meant.cookies[c][1])) = m.meant.cookies[c][2]
  /\ ~hasHeader(r, "absent") /\ ~hasParam(r, "") /\ ~hasCookie(r, "absent")
LookupsFind(d) == \A i \in DOMAIN served : torn # <<i, "url">> => Finds(served[i], d.messages[i])

\* What the server makes of the dialogue d.
ServedAsSent(d) == RequestsAsSent(d) /\ EveryRequestServed(d) /\ LookupsFind(d)
=============================================================================
