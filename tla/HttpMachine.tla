---------------------------- MODULE HttpMachine ----------------------------
(***************************************************************************)
(* The streaming HTTP parser (net/http/http_parser.c).                     *)
(*                                                                         *)
(* http_parser_execute is handed the bytes of a connection piece by piece. *)
(* One step here is one `case' of its switch: one byte of the outer loop,  *)
(* one byte of an inner loop over a header field or value, or one jump to  *)
(* the label `reexecute'.  Where the pieces are cut is chosen anew at      *)
(* every call, and a callback may pause the parser or fail, so that what   *)
(* is checked does not depend on how the bytes arrived.                    *)
(***************************************************************************)
EXTENDS HttpUrl, FiniteSets

CONSTANTS
  MaxHeaderSize,      \* HTTP_MAX_HEADER_SIZE
  NoLength,           \* ULLONG_MAX, scaled
  React(_, _, _, _)   \* what it makes of a callback: a set of [app, rc, paused]

VARIABLES
  input,    \* the bytes of the connection
  parser,   \* struct http_parser
  at,       \* where http_parser_execute is; "call" when it is not running
  pos,      \* p: the next byte
  stop,     \* data + len
  marks,    \* the five mark pointers; 0 is NULL
  start,    \* where the running inner loop began
  app       \* what the callbacks have told the application

vars == <<input, parser, at, pos, stop, marks, start, app>>

-----------------------------------------------------------------------------
(* Tables.                                                                 *)

Methods ==
  {"DELETE", "GET", "HEAD", "POST", "PUT", "CONNECT", "OPTIONS", "TRACE", "COPY", "LOCK",
   "MKCOL", "MOVE", "PROPFIND", "PROPPATCH", "SEARCH", "UNLOCK", "BIND", "REBIND", "UNBIND",
   "ACL", "REPORT", "MKACTIVITY", "CHECKOUT", "MERGE", "M-SEARCH", "NOTIFY", "SUBSCRIBE",
   "UNSUBSCRIBE", "PATCH", "PURGE", "MKCALENDAR", "LINK", "UNLINK", "SOURCE"}

\* The method guessed from a first letter, and the switches of s_req_method:
\* a method guessed from its first letter is revised at a later one.
MethodOf == [A |-> "ACL", B |-> "BIND", C |-> "CONNECT", D |-> "DELETE", G |-> "GET",
             H |-> "HEAD", L |-> "LOCK", M |-> "MKCOL", N |-> "NOTIFY", O |-> "OPTIONS",
             P |-> "POST", R |-> "REPORT", S |-> "SUBSCRIBE", T |-> "TRACE", U |-> "UNLOCK"]

MethodSwitch ==
  { <<"POST", 1, "U", "PUT">>, <<"POST", 1, "A", "PATCH">>, <<"POST", 1, "R", "PROPFIND">>,
    <<"PUT", 2, "R", "PURGE">>, <<"CONNECT", 1, "H", "CHECKOUT">>, <<"CONNECT", 2, "P", "COPY">>,
    <<"MKCOL", 1, "O", "MOVE">>, <<"MKCOL", 1, "E", "MERGE">>, <<"MKCOL", 1, "-", "M-SEARCH">>,
    <<"MKCOL", 2, "A", "MKACTIVITY">>, <<"MKCOL", 3, "A", "MKCALENDAR">>,
    <<"SUBSCRIBE", 1, "E", "SEARCH">>, <<"SUBSCRIBE", 1, "O", "SOURCE">>,
    <<"REPORT", 2, "B", "REBIND">>, <<"PROPFIND", 4, "P", "PROPPATCH">>,
    <<"LOCK", 1, "I", "LINK">>, <<"UNLOCK", 2, "S", "UNSUBSCRIBE">>,
    <<"UNLOCK", 2, "B", "UNBIND">>, <<"UNLOCK", 3, "I", "UNLINK">> }

\* Header states that match a name or a value against a word, the word, the
\* state at its end, and the state at a mismatch.
Matching ==
  [ h_matching_connection        |-> <<"connection", "h_connection", "h_general">>,
    h_matching_proxy_connection  |-> <<"proxy-connection", "h_connection", "h_general">>,
    h_matching_content_length    |-> <<"content-length", "h_content_length", "h_general">>,
    h_matching_transfer_encoding |-> <<"transfer-encoding", "h_transfer_encoding", "h_general">>,
    h_matching_upgrade           |-> <<"upgrade", "h_upgrade", "h_general">>,
    h_matching_transfer_encoding_chunked |->
        <<"chunked", "h_transfer_encoding_chunked", "h_general">>,
    h_matching_connection_keep_alive |->
        <<"keep-alive", "h_connection_keep_alive", "h_matching_connection_token">>,
    h_matching_connection_close |->
        <<"close", "h_connection_close", "h_matching_connection_token">>,
    h_matching_connection_upgrade |->
        <<"upgrade", "h_connection_upgrade", "h_matching_connection_token">> ]

\* The next character c of the word is compared at index + 1.  An index past
\* the word reads its terminating NUL, which no character equals.
Match(q, c) ==
  LET i == q.index + 1
      word == Matching[q.hstate][1]
  IN  [q EXCEPT !.index = i,
                !.hstate = IF i >= Len(word) \/ c # CharAt(word, i + 1)
                           THEN Matching[q.hstate][3]
                           ELSE IF i = Len(word) - 1 THEN Matching[q.hstate][2] ELSE @]

\* The flag a finished header leaves, by its header state.
HeaderFlag ==
  [ h_connection_keep_alive     |-> "CONNECTION_KEEP_ALIVE",
    h_connection_close          |-> "CONNECTION_CLOSE",
    h_connection_upgrade        |-> "CONNECTION_UPGRADE",
    h_transfer_encoding_chunked |-> "CHUNKED" ]

Flagged(q) == IF q.hstate \in DOMAIN HeaderFlag
              THEN [q EXCEPT !.flags = @ \cup {HeaderFlag[q.hstate]}] ELSE q

-----------------------------------------------------------------------------
(* The questions http_parser.h lets a callback ask.                        *)

http_message_needs_eof(q) ==
  /\ q.type # "request"
  /\ q.status \div 100 # 1
  /\ q.status \notin {204, 304}
  /\ "SKIPBODY" \notin q.flags
  /\ "CHUNKED" \notin q.flags
  /\ q.length = NoLength

http_should_keep_alive(q) ==
  /\ IF q.major > 0 /\ q.minor > 0 THEN "CONNECTION_CLOSE" \notin q.flags
                                   ELSE "CONNECTION_KEEP_ALIVE" \in q.flags
  /\ ~http_message_needs_eof(q)

StartState(type) == CASE type = "request"  -> "s_start_req"
                      [] type = "response" -> "s_start_res"
                      [] type = "both"     -> "s_start_req_or_res"

\* start_state: after its first message a parser of both types has one.
NewMessage(q) ==
  [q EXCEPT !.state = IF ~http_should_keep_alive(q) THEN "s_dead"
                      ELSE IF q.type = "request" THEN "s_start_req" ELSE "s_start_res"]

BodyStates == {"s_chunk_data", "s_chunk_data_almost_done", "s_chunk_data_done",
               "s_body_identity", "s_body_identity_eof", "s_message_done"}

ParsingHeader(s) == s \notin BodyStates

http_parser_init(type) ==
  [type |-> type, flags |-> {}, state |-> StartState(type), hstate |-> "h_general",
   index |-> 0, nread |-> 0, length |-> 0, major |-> 0, minor |-> 0, status |-> 0,
   method |-> "DELETE", errno |-> "OK", upgrade |-> FALSE]

-----------------------------------------------------------------------------
(* Control: the ways a case of the switch ends.                            *)

Marks == {"header_field", "header_value", "url", "body", "status"}
NoMarks == [f \in Marks |-> 0]
Mark(f) == IF marks[f] = 0 THEN [marks EXCEPT ![f] = pos] ELSE marks
Unmark(f) == [marks EXCEPT ![f] = 0]

\* What a case of the switch comes to: the parser, the label, byte and marks
\* execution goes on with, and the callback it makes first, if any.
Go(q, l, n, m) == [q |-> q, at |-> l, pos |-> n, marks |-> m, call |-> <<>>]

\* RETURN with the bytes before n consumed.
Return(q, n) == Go(q, "call", n, NoMarks)

Error(q, e) == Return([q EXCEPT !.errno = e], pos)

\* Into the loop l over a header field or value, which begins at p.
Enter(q, l) == Go(q, l, pos, marks)

Break(q, m)     == Go(q, "byte", pos + 1, m)
Reexecute(q, m) == Go(q, "reexecute", pos, m)

\* A callback cb with the text, after which execution goes on as `then' says;
\* one that fails or pauses ends the call with the bytes before n consumed.
Callback(q, cb, text, n, then) ==
  [then EXCEPT !.call = <<[q |-> q, cb |-> cb, text |-> text, n |-> n]>>]

\* CALLBACK_NOTIFY, with what follows it in the case: at the next byte.
Notify(q, cb) == Callback(q, cb, "", pos + 1, Break(q, marks))

\* CALLBACK_DATA for mark f: the text ends before p; then the next byte.
Data(q, f) == IF marks[f] = 0 THEN Break(q, marks)
              ELSE Callback(q, f, SubSeq(input, marks[f], pos - 1), pos + 1, Break(q, Unmark(f)))

\* A callback for mark f that leaves byte n to be looked at again.
DataAgain(q, f, text, n) == Callback(q, f, text, n, Go(q, "reexecute", n, Unmark(f)))

\* on_headers_complete may also answer that no body follows (1), or that
\* neither a body nor further messages do (2); any other answer but 0 is an error.
Fails(cb, rc) == IF cb = "headers_complete" THEN rc \notin 0..2 ELSE rc # 0
Replied(q, cb, rc) ==
  IF cb # "headers_complete" THEN q
  ELSE [q EXCEPT !.upgrade = @ \/ rc = 2, !.flags = IF rc = 0 THEN @ ELSE @ \cup {"SKIPBODY"}]

\* What is left of e once its callback c has been answered by r.
After(e, c, r) ==
  CASE Fails(c.cb, r.rc) -> Return([c.q EXCEPT !.errno = "CB"], c.n)
    [] ~Fails(c.cb, r.rc) /\ r.paused ->
         Return([Replied(c.q, c.cb, r.rc) EXCEPT !.errno = "PAUSED"], c.n)
    [] OTHER -> [e EXCEPT !.q = Replied(@, c.cb, r.rc)]

Arrive(e) ==
  /\ parser' = e.q
  /\ pos' = e.pos
  /\ at' = e.at
  /\ marks' = e.marks
  /\ stop' = IF e.at = "call" THEN 0 ELSE stop
  /\ start' = IF e.at \notin {"field", "value"} THEN 0 ELSE IF e.at = at THEN start ELSE pos

Perform(e) ==
  /\ IF e.call = <<>> THEN Arrive(e) /\ UNCHANGED app
     ELSE \E c \in {e.call[1]} : \E r \in React(app, c.q, c.cb, c.text) :
            Arrive(After(e, c, r)) /\ app' = r.app
  /\ UNCHANGED input

\* COUNT_HEADER_SIZE(n), then as Then says.
Count(q, n, Then(_)) ==
  LET k == [q EXCEPT !.nread = @ + n]
  IN  IF k.nread > MaxHeaderSize THEN Error(k, "HEADER_OVERFLOW") ELSE Then(k)

-----------------------------------------------------------------------------
(* The start line.  Every operator is one case of the switch: q is the     *)
(* parser and ch the byte at p.                                            *)

S_dead(q, ch) == IF ch \in {CR, LF} THEN Break(q, marks) ELSE Error(q, "CLOSED_CONNECTION")

Fresh(q) == [q EXCEPT !.flags = {}, !.length = NoLength]

S_start_req_or_res(q, ch) ==
  CASE ch \in {CR, LF} -> Break(q, marks)
    [] ch = "H" -> Notify([Fresh(q) EXCEPT !.state = "s_res_or_resp_H"], "message_begin")
    [] OTHER -> Reexecute([Fresh(q) EXCEPT !.type = "request", !.state = "s_start_req"], marks)

S_res_or_resp_H(q, ch) ==
  CASE ch = "T" -> Break([q EXCEPT !.type = "response", !.state = "s_res_HT"], marks)
    [] ch = "E" -> Break([q EXCEPT !.type = "request", !.method = "HEAD", !.index = 2,
                                   !.state = "s_req_method"], marks)
    [] OTHER -> Error(q, "INVALID_CONSTANT")

S_start_res(q, ch) ==
  CASE ch = "H" -> Notify([Fresh(q) EXCEPT !.state = "s_res_H"], "message_begin")
    [] ch \in {CR, LF} -> Notify(Fresh(q), "message_begin")
    [] OTHER -> Error(Fresh(q), "INVALID_CONSTANT")

\* States that wait for one character of HTTP/x.y, the state after it, and
\* the error if another one comes.
Expecting ==
  [ s_res_H |-> <<"T", "s_res_HT", "STRICT">>,
    s_res_HT |-> <<"T", "s_res_HTT", "STRICT">>,
    s_res_HTT |-> <<"P", "s_res_HTTP", "STRICT">>,
    s_res_HTTP |-> <<"/", "s_res_http_major", "STRICT">>,
    s_res_http_dot |-> <<".", "s_res_http_minor", "INVALID_VERSION">>,
    s_res_http_end |-> <<" ", "s_res_first_status_code", "INVALID_VERSION">>,
    s_req_http_H |-> <<"T", "s_req_http_HT", "STRICT">>,
    s_req_http_HT |-> <<"T", "s_req_http_HTT", "STRICT">>,
    s_req_http_HTT |-> <<"P", "s_req_http_HTTP", "STRICT">>,
    s_req_http_HTTP |-> <<"/", "s_req_http_major", "STRICT">>,
    s_req_http_dot |-> <<".", "s_req_http_minor", "INVALID_VERSION">> ]

S_expecting(q, ch) ==
  IF ch = Expecting[q.state][1] THEN Break([q EXCEPT !.state = Expecting[q.state][2]], marks)
  ELSE Error(q, Expecting[q.state][3])

S_http_major(q, ch) ==
  IF IsNum(ch)
  THEN Break([q EXCEPT !.major = Digit(ch),
                       !.state = IF @ = "s_res_http_major" THEN "s_res_http_dot"
                                                           ELSE "s_req_http_dot"], marks)
  ELSE Error(q, "INVALID_VERSION")

S_http_minor(q, ch) ==
  IF IsNum(ch)
  THEN Break([q EXCEPT !.minor = Digit(ch),
                       !.state = IF @ = "s_res_http_minor" THEN "s_res_http_end"
                                                           ELSE "s_req_http_end"], marks)
  ELSE Error(q, "INVALID_VERSION")

S_res_first_status_code(q, ch) ==
  CASE IsNum(ch) -> Break([q EXCEPT !.status = Digit(ch), !.state = "s_res_status_code"], marks)
    [] ch = " "  -> Break(q, marks)
    [] OTHER     -> Error(q, "INVALID_STATUS")

S_res_status_code(q, ch) ==
  LET status == 10 * q.status + Digit(ch)
  IN  CASE ch = " " -> Break([q EXCEPT !.state = "s_res_status_start"], marks)
        [] ch \in {CR, LF} -> Reexecute([q EXCEPT !.state = "s_res_status_start"], marks)
        [] IsNum(ch) /\ status <= 999 -> Break([q EXCEPT !.status = status], marks)
        [] OTHER -> Error(q, "INVALID_STATUS")

S_res_status_start(q, ch) ==
  LET k == [q EXCEPT !.state = "s_res_status", !.index = 0]
  IN  IF ch \in {CR, LF} THEN Reexecute(k, Mark("status")) ELSE Break(k, Mark("status"))

S_res_status(q, ch) ==
  CASE ch = CR -> Data([q EXCEPT !.state = "s_res_line_almost_done"], "status")
    [] ch = LF -> Data([q EXCEPT !.state = "s_header_field_start"], "status")
    [] OTHER   -> Break(q, marks)

\* s_res_line_almost_done and s_req_line_almost_done.
S_line_almost_done(q, ch) ==
  IF ch = LF THEN Break([q EXCEPT !.state = "s_header_field_start"], marks)
  ELSE Error(q, IF q.state = "s_res_line_almost_done" THEN "STRICT" ELSE "LF_EXPECTED")

S_start_req(q, ch) ==
  CASE ch \in {CR, LF} -> Break(q, marks)
    [] ch \in DOMAIN MethodOf ->
         Notify([Fresh(q) EXCEPT !.method = MethodOf[ch], !.index = 1,
                                 !.state = "s_req_method"], "message_begin")
    [] OTHER -> Error(Fresh(q), "INVALID_METHOD")

S_req_method(q, ch) ==
  LET i == q.index
      next == [q EXCEPT !.index = i + 1]
      to == {t \in MethodSwitch : t[1] = q.method /\ t[2] = i /\ t[3] = ch}
  IN  CASE ch = " " /\ i = Len(q.method) ->
             Break([next EXCEPT !.state = "s_req_spaces_before_url"], marks)
        [] i < Len(q.method) /\ ch = CharAt(q.method, i + 1) -> Break(next, marks)
        [] ~(i < Len(q.method) /\ ch = CharAt(q.method, i + 1)) /\ to # {} ->
             Break([next EXCEPT !.method = (CHOOSE t \in to : TRUE)[4]], marks)
        [] OTHER -> Error(q, "INVALID_METHOD")

Url(q, ch, m) ==
  LET s == parse_url_char(q.state, ch)
  IN  IF s = "s_dead" THEN Error([q EXCEPT !.state = s], "INVALID_URL")
      ELSE Break([q EXCEPT !.state = s], m)

S_req_spaces_before_url(q, ch) ==
  IF ch = " " THEN Break(q, marks)
  ELSE Url(IF q.method = "CONNECT" THEN [q EXCEPT !.state = "s_req_server_start"] ELSE q,
           ch, Mark("url"))

S_url(q, ch) ==
  CASE ch \notin {" ", CR, LF} -> Url(q, ch, marks)
    [] q.state \notin UrlEnds -> Error(q, "INVALID_URL")
    [] ch = " " -> Data([q EXCEPT !.state = "s_req_http_start"], "url")
    [] OTHER -> Data([q EXCEPT !.major = 0, !.minor = 9,
                               !.state = IF ch = CR THEN "s_req_line_almost_done"
                                                    ELSE "s_header_field_start"], "url")

S_req_http_start(q, ch) ==
  CASE ch = "H" -> Break([q EXCEPT !.state = "s_req_http_H"], marks)
    [] ch = " " -> Break(q, marks)
    [] OTHER    -> Error(q, "INVALID_CONSTANT")

S_req_http_end(q, ch) ==
  CASE ch = CR -> Break([q EXCEPT !.state = "s_req_line_almost_done"], marks)
    [] ch = LF -> Break([q EXCEPT !.state = "s_header_field_start"], marks)
    [] OTHER   -> Error(q, "INVALID_VERSION")

-----------------------------------------------------------------------------
(* Headers.                                                                *)

S_header_field_start(q, ch) ==
  LET c == Token(ch)
  IN  CASE ch = CR -> Break([q EXCEPT !.state = "s_headers_almost_done"], marks)
        [] ch = LF -> Reexecute([q EXCEPT !.state = "s_headers_almost_done"], marks)
        [] ch \notin {CR, LF} /\ c = "" -> Error(q, "INVALID_HEADER_TOKEN")
        [] OTHER ->
             Break([q EXCEPT !.index = 0, !.state = "s_header_field",
                             !.hstate = CASE c = "c" -> "h_C"
                                          [] c = "p" -> "h_matching_proxy_connection"
                                          [] c = "t" -> "h_matching_transfer_encoding"
                                          [] c = "u" -> "h_matching_upgrade"
                                          [] OTHER   -> "h_general"],
                   Mark("header_field"))

\* One token character c of a header field's name.
FieldChar(q, c) ==
  LET To(h) == [q EXCEPT !.index = @ + 1, !.hstate = h]
  IN  CASE q.hstate = "h_general" -> q
        [] q.hstate = "h_C"   -> To(IF c = "o" THEN "h_CO" ELSE "h_general")
        [] q.hstate = "h_CO"  -> To(IF c = "n" THEN "h_CON" ELSE "h_general")
        [] q.hstate = "h_CON" -> To(CASE c = "n" -> "h_matching_connection"
                                      [] c = "t" -> "h_matching_content_length"
                                      [] OTHER   -> "h_general")
        [] q.hstate \in DOMAIN Matching -> Match(q, c)
        [] OTHER -> [q EXCEPT !.hstate = "h_general"]

\* The loop of s_header_field, one character at a time.
FieldLoop ==
  LET ch == CharAt(input, pos)
      Ended(k)   == Go(k, "byte", pos, marks)
      Stopped(k) == IF ch = ":" THEN Data([k EXCEPT !.state = "s_header_value_discard_ws"],
                                          "header_field")
                                ELSE Error(k, "INVALID_HEADER_TOKEN")
  IN  /\ at = "field"
      /\ Perform(CASE pos = stop -> Count(parser, pos - start, Ended)
                   [] pos < stop /\ Token(ch) # "" ->
                        Go(FieldChar(parser, Token(ch)), "field", pos + 1, marks)
                   [] OTHER -> Count(parser, pos - start, Stopped))

S_header_value_start(q, ch) ==
  LET k == [q EXCEPT !.state = "s_header_value", !.index = 0]
      c == Lower(ch)
      To(h) == Break([k EXCEPT !.hstate = h], Mark("header_value"))
  IN  CASE q.hstate = "h_upgrade" ->
             Break([k EXCEPT !.flags = @ \cup {"UPGRADE"}, !.hstate = "h_general"],
                   Mark("header_value"))
        [] q.hstate = "h_transfer_encoding" ->
             To(IF c = "c" THEN "h_matching_transfer_encoding_chunked" ELSE "h_general")
        [] q.hstate = "h_content_length" ->
             IF ~IsNum(ch) THEN Error(k, "INVALID_CONTENT_LENGTH")
             ELSE IF "CONTENTLENGTH" \in q.flags THEN Error(k, "UNEXPECTED_CONTENT_LENGTH")
             ELSE Break([k EXCEPT !.flags = @ \cup {"CONTENTLENGTH"}, !.length = Digit(ch),
                                  !.hstate = "h_content_length_num"], Mark("header_value"))
        [] q.hstate = "h_connection" ->
             To(CASE c = "k" -> "h_matching_connection_keep_alive"
                  [] c = "c" -> "h_matching_connection_close"
                  [] c = "u" -> "h_matching_connection_upgrade"
                  [] OTHER   -> "h_matching_connection_token")
        [] q.hstate = "h_matching_connection_token_start" -> To(q.hstate)
        [] OTHER -> To("h_general")

S_header_value_discard_ws(q, ch) ==
  CASE ch \in {" ", "\t"} -> Break(q, marks)
    [] ch = CR -> Break([q EXCEPT !.state = "s_header_value_discard_ws_almost_done"], marks)
    [] ch = LF -> Break([q EXCEPT !.state = "s_header_value_discard_lws"], marks)
    [] OTHER   -> S_header_value_start(q, ch)

\* What a content-length digit, or a space, makes of the length so far.
LengthChar(q, ch) ==
  CASE ch = " " -> [q EXCEPT !.hstate = "h_content_length_ws"]
    [] IsNum(ch) /\ q.length <= (NoLength - 10) \div 10 ->
         [q EXCEPT !.length = 10 * @ + Digit(ch)]
    [] OTHER -> [q EXCEPT !.errno = "INVALID_CONTENT_LENGTH"]

\* One character of a header's value in a state other than h_general.
ValueChar(q, ch) ==
  LET c == Lower(ch)
      To(h) == [q EXCEPT !.hstate = h]
  IN  CASE q.hstate = "h_content_length_num" -> LengthChar(q, ch)
        [] q.hstate = "h_content_length_ws" ->
             IF ch = " " THEN q ELSE [q EXCEPT !.errno = "INVALID_CONTENT_LENGTH"]
        [] q.hstate = "h_matching_connection_token_start" ->
             CASE c = "k" -> To("h_matching_connection_keep_alive")
               [] c = "c" -> To("h_matching_connection_close")
               [] c = "u" -> To("h_matching_connection_upgrade")
               [] c \notin {"k", "c", "u"} /\ Token(c) # "" -> To("h_matching_connection_token")
               [] c \in {" ", "\t"} -> q
               [] OTHER -> To("h_general")
        [] q.hstate \in DOMAIN Matching -> Match(q, c)
        [] q.hstate = "h_matching_connection_token" ->
             IF ch = "," THEN [q EXCEPT !.hstate = "h_matching_connection_token_start",
                                        !.index = 0]
             ELSE q
        [] q.hstate = "h_transfer_encoding_chunked" -> IF ch = " " THEN q ELSE To("h_general")
        [] q.hstate \in {"h_connection_keep_alive", "h_connection_close", "h_connection_upgrade"} ->
             CASE ch = "," -> [Flagged(q) EXCEPT !.hstate = "h_matching_connection_token_start",
                                                 !.index = 0]
               [] ch = " " -> q
               [] OTHER    -> To("h_matching_connection_token")

\* Where the skip over a value nobody looks into ends: at the first line end
\* memchr finds in the piece, or behind the piece.
LineEnd ==
  LET limit == IF stop - pos < MaxHeaderSize THEN stop - pos ELSE MaxHeaderSize
      ends == {i \in pos..(pos + limit - 1) : CharAt(input, i) \in {CR, LF}}
  IN  IF ends = {} THEN stop ELSE CHOOSE i \in ends : \A j \in ends : i <= j

\* Of the characters of a TLA+ string only the form feed may not stand in a header.
IS_HEADER_CHAR(ch) == ch # "\f"

\* The loop of s_header_value, one character, or one skip, at a time.
ValueLoop ==
  LET ch == CharAt(input, pos)
      text == SubSeq(input, marks["header_value"], pos - 1)
      done == [parser EXCEPT !.state = "s_header_almost_done"]
      Ended(k)   == Go(k, "byte", pos, marks)
      Line(k)    == DataAgain(k, "header_value", text, pos)
      Counted(k) == IF k.nread > MaxHeaderSize THEN Error(k, "HEADER_OVERFLOW")
                    ELSE Break(k, Unmark("header_value"))
      Looked(q)  == IF q.errno = "OK" THEN Go(q, "value", pos + 1, marks) ELSE Error(q, q.errno)
  IN  /\ at = "value"
      /\ Perform(CASE pos = stop -> Count(parser, pos - start, Ended)
                   [] pos < stop /\ ch = CR ->
                        Callback(done, "header_value", text, pos + 1,
                                 Counted([done EXCEPT !.nread = @ + (pos - start)]))
                   [] pos < stop /\ ch = LF -> Count(done, pos - start, Line)
                   [] pos < stop /\ ~IS_HEADER_CHAR(ch) -> Error(parser, "INVALID_HEADER_TOKEN")
                   [] pos < stop /\ ch \notin {CR, LF} /\ IS_HEADER_CHAR(ch) /\ parser.hstate = "h_general" ->
                        Go(parser, "value", LineEnd, marks)
                   [] OTHER -> Looked(ValueChar(parser, ch)))

S_header_almost_done(q, ch) ==
  IF ch = LF THEN Break([q EXCEPT !.state = "s_header_value_lws"], marks)
  ELSE Error(q, "LF_EXPECTED")

S_header_value_lws(q, ch) ==
  IF ch \in {" ", "\t"} THEN Reexecute([q EXCEPT !.state = "s_header_value_start"], marks)
  ELSE Reexecute([Flagged(q) EXCEPT !.state = "s_header_field_start"], marks)

S_header_value_discard_ws_almost_done(q, ch) ==
  IF ch = LF THEN Break([q EXCEPT !.state = "s_header_value_discard_lws"], marks)
  ELSE Error(q, "STRICT")

\* An empty value: the callback is given no bytes.
S_header_value_discard_lws(q, ch) ==
  IF ch \in {" ", "\t"} THEN Break([q EXCEPT !.state = "s_header_value_discard_ws"], marks)
  ELSE DataAgain([Flagged(q) EXCEPT !.state = "s_header_field_start"], "header_value", "", pos)

-----------------------------------------------------------------------------
(* The end of the headers, and the body.                                   *)

S_headers_almost_done(q, ch) ==
  LET k == [q EXCEPT !.state = "s_headers_done",
                     !.upgrade = IF {"UPGRADE", "CONNECTION_UPGRADE"} \subseteq q.flags
                                 THEN q.type = "request" \/ q.status = 101
                                 ELSE q.method = "CONNECT"]
      Told(j, cb) == Callback(j, cb, "", pos, Reexecute(j, marks))
  IN  IF ch # LF THEN Error(q, "STRICT")
      ELSE IF "TRAILING" \in q.flags THEN Told([q EXCEPT !.state = "s_message_done"], "chunk_complete")
      ELSE IF {"CHUNKED", "CONTENTLENGTH"} \subseteq q.flags
      THEN Error(q, "UNEXPECTED_CONTENT_LENGTH")
      ELSE Told(k, "headers_complete")

\* The message is complete at the current byte; the call ends there if the
\* rest of the connection is another protocol's.
Complete(q, leaves) ==
  Callback(q, "message_complete", "", pos + 1,
           IF leaves THEN Return(q, pos + 1) ELSE Break(q, marks))

S_headers_done(q, ch) ==
  LET k == [q EXCEPT !.nread = 0]
      hasBody == "CHUNKED" \in q.flags \/ q.length \notin {0, NoLength}
      leaves == /\ q.upgrade
                /\ q.method = "CONNECT" \/ "SKIPBODY" \in q.flags \/ ~hasBody
      To(s) == Break([k EXCEPT !.state = s], marks)
  IN  CASE ch # LF -> Error(q, "STRICT")
        [] ch = LF /\ \/ leaves \/ "SKIPBODY" \in q.flags
                      \/ /\ "CHUNKED" \notin q.flags
                         /\ q.length = 0 \/ (q.length = NoLength /\ ~http_message_needs_eof(q)) ->
             Complete(NewMessage(k), leaves)
        [] OTHER -> To(CASE "CHUNKED" \in q.flags -> "s_chunk_size_start"
                         [] "CHUNKED" \notin q.flags /\ q.length # NoLength -> "s_body_identity"
                         [] OTHER -> "s_body_identity_eof")

S_body_identity(q, ch) ==
  LET n == IF q.length < stop - pos THEN q.length ELSE stop - pos
      k == [q EXCEPT !.length = @ - n]
      m == Mark("body")
  IN  IF k.length = 0
      THEN DataAgain([k EXCEPT !.state = "s_message_done"], "body",
                     SubSeq(input, m["body"], pos + n - 1), pos + n - 1)
      ELSE Go(k, "byte", pos + n, m)

S_body_identity_eof(q, ch) == Go(q, "byte", stop, Mark("body"))

S_message_done(q, ch) == Complete(NewMessage(q), q.upgrade)

S_chunk_size_start(q, ch) ==
  IF Unhex(ch) = 16 THEN Error(q, "INVALID_CHUNK_SIZE")
  ELSE Break([q EXCEPT !.length = Unhex(ch), !.state = "s_chunk_size"], marks)

S_chunk_size(q, ch) ==
  CASE ch = CR -> Break([q EXCEPT !.state = "s_chunk_size_almost_done"], marks)
    [] Unhex(ch) < 16 -> IF q.length > (NoLength - 16) \div 16
                         THEN Error(q, "INVALID_CONTENT_LENGTH")
                         ELSE Break([q EXCEPT !.length = 16 * @ + Unhex(ch)], marks)
    [] ch \in {";", " "} -> Break([q EXCEPT !.state = "s_chunk_parameters"], marks)
    [] OTHER -> Error(q, "INVALID_CHUNK_SIZE")

S_chunk_parameters(q, ch) ==
  Break(IF ch = CR THEN [q EXCEPT !.state = "s_chunk_size_almost_done"] ELSE q, marks)

S_chunk_size_almost_done(q, ch) ==
  IF ch # LF THEN Error(q, "STRICT")
  ELSE Notify(IF q.length = 0
              THEN [q EXCEPT !.nread = 0, !.flags = @ \cup {"TRAILING"},
                             !.state = "s_header_field_start"]
              ELSE [q EXCEPT !.nread = 0, !.state = "s_chunk_data"], "chunk_header")

S_chunk_data(q, ch) ==
  LET n == IF q.length < stop - pos THEN q.length ELSE stop - pos
  IN  Go([q EXCEPT !.length = @ - n,
                   !.state = IF q.length = n THEN "s_chunk_data_almost_done" ELSE @],
         "byte", pos + n, Mark("body"))

S_chunk_data_almost_done(q, ch) ==
  IF ch # CR THEN Error(q, "STRICT")
  ELSE Data([q EXCEPT !.state = "s_chunk_data_done"], "body")

S_chunk_data_done(q, ch) ==
  IF ch # LF THEN Error(q, "STRICT")
  ELSE Notify([q EXCEPT !.nread = 0, !.state = "s_chunk_size_start"], "chunk_complete")

-----------------------------------------------------------------------------
(* http_parser_execute.                                                    *)

\* The case of the switch for the state of q.
Switch(q) ==
  LET ch == CharAt(input, pos)
      s == q.state
  IN  CASE s = "s_dead" -> S_dead(q, ch)
        [] s = "s_start_req_or_res" -> S_start_req_or_res(q, ch)
        [] s = "s_res_or_resp_H" -> S_res_or_resp_H(q, ch)
        [] s = "s_start_res" -> S_start_res(q, ch)
        [] s \in DOMAIN Expecting -> S_expecting(q, ch)
        [] s \in {"s_res_http_major", "s_req_http_major"} -> S_http_major(q, ch)
        [] s \in {"s_res_http_minor", "s_req_http_minor"} -> S_http_minor(q, ch)
        [] s = "s_res_first_status_code" -> S_res_first_status_code(q, ch)
        [] s = "s_res_status_code" -> S_res_status_code(q, ch)
        [] s = "s_res_status_start" -> S_res_status_start(q, ch)
        [] s = "s_res_status" -> S_res_status(q, ch)
        [] s \in {"s_res_line_almost_done", "s_req_line_almost_done"} -> S_line_almost_done(q, ch)
        [] s = "s_start_req" -> S_start_req(q, ch)
        [] s = "s_req_method" -> S_req_method(q, ch)
        [] s = "s_req_spaces_before_url" -> S_req_spaces_before_url(q, ch)
        [] s \in UrlStates -> S_url(q, ch)
        [] s = "s_req_http_start" -> S_req_http_start(q, ch)
        [] s = "s_req_http_end" -> S_req_http_end(q, ch)
        [] s = "s_header_field_start" -> S_header_field_start(q, ch)
        [] s = "s_header_value_discard_ws" -> S_header_value_discard_ws(q, ch)
        [] s = "s_header_value_start" -> S_header_value_start(q, ch)
        [] s = "s_header_almost_done" -> S_header_almost_done(q, ch)
        [] s = "s_header_value_lws" -> S_header_value_lws(q, ch)
        [] s = "s_header_value_discard_ws_almost_done" ->
             S_header_value_discard_ws_almost_done(q, ch)
        [] s = "s_header_value_discard_lws" -> S_header_value_discard_lws(q, ch)
        [] s = "s_headers_almost_done" -> S_headers_almost_done(q, ch)
        [] s = "s_headers_done" -> S_headers_done(q, ch)
        [] s = "s_body_identity" -> S_body_identity(q, ch)
        [] s = "s_body_identity_eof" -> S_body_identity_eof(q, ch)
        [] s = "s_message_done" -> S_message_done(q, ch)
        [] s = "s_chunk_size_start" -> S_chunk_size_start(q, ch)
        [] s = "s_chunk_size" -> S_chunk_size(q, ch)
        [] s = "s_chunk_parameters" -> S_chunk_parameters(q, ch)
        [] s = "s_chunk_size_almost_done" -> S_chunk_size_almost_done(q, ch)
        [] s = "s_chunk_data" -> S_chunk_data(q, ch)
        [] s = "s_chunk_data_almost_done" -> S_chunk_data_almost_done(q, ch)
        [] s = "s_chunk_data_done" -> S_chunk_data_done(q, ch)
        [] s = "s_header_field" -> Enter(q, "field")
        [] s = "s_header_value" -> Enter(q, "value")

\* The rest of the connection is another protocol's: the parser left it.
Upgraded == parser.upgrade /\ parser.state \in {"s_start_req", "s_start_res", "s_dead"}

\* A call with the bytes up to, and without, n.  A field, value, URL or
\* status that the last piece broke off goes on at the first byte.
Execute(n) ==
  /\ at = "call"
  /\ parser.errno = "OK"
  /\ ~Upgraded
  /\ stop' = n
  /\ at' = "byte"
  /\ marks' = [NoMarks EXCEPT
       !["header_field"] = IF parser.state = "s_header_field" THEN pos ELSE 0,
       !["header_value"] = IF parser.state = "s_header_value" THEN pos ELSE 0,
       !["url"]          = IF parser.state \in UrlStates THEN pos ELSE 0,
       !["status"]       = IF parser.state = "s_res_status" THEN pos ELSE 0]
  /\ UNCHANGED <<input, parser, pos, start, app>>

\* The head of the loop: a header byte is counted before it is looked at.
Byte ==
  /\ at = "byte"
  /\ pos < stop
  /\ Perform(Count(parser, IF ParsingHeader(parser.state) THEN 1 ELSE 0, Switch))

Again == at = "reexecute" /\ Perform(Switch(parser))

\* The piece is used up: the marks left get their callbacks.
Flush ==
  LET order == <<"header_field", "header_value", "url", "body", "status">>
      left == {i \in 1..5 : marks[order[i]] # 0}
      f == order[CHOOSE i \in left : \A j \in left : i <= j]
  IN  /\ at = "byte"
      /\ pos = stop
      /\ Perform(IF left = {} THEN Return(parser, pos)
                 ELSE Callback(parser, f, SubSeq(input, marks[f], pos - 1), pos,
                               Go(parser, "byte", pos, Unmark(f))))

\* http_parser_pause(parser, 0), called by the application some time later.
Resume ==
  /\ at = "call"
  /\ parser.errno = "PAUSED"
  /\ parser' = [parser EXCEPT !.errno = "OK"]
  /\ UNCHANGED <<input, at, pos, stop, marks, start, app>>

\* A call with no bytes: the connection has ended, here or cut short.
Eof ==
  /\ at = "call"
  /\ parser.errno = "OK"
  /\ ~Upgraded
  /\ at' = "closed"
  /\ CASE parser.state = "s_body_identity_eof" ->
            \E r \in React(app, parser, "message_complete", "") :
              /\ app' = r.app
              /\ parser' = [parser EXCEPT !.errno = IF r.rc # 0 THEN "CB" ELSE @]
       [] parser.state \in {"s_dead", "s_start_req_or_res", "s_start_res", "s_start_req"} ->
            UNCHANGED <<parser, app>>
       [] OTHER -> parser' = [parser EXCEPT !.errno = "INVALID_EOF_STATE"] /\ UNCHANGED app
  /\ UNCHANGED <<input, pos, stop, marks, start>>

\* Nothing more is parsed after the end, an error or an upgrade.
Over == at = "closed" \/ (at = "call" /\ (Upgraded \/ parser.errno \notin {"OK", "PAUSED"}))
Rest == Over /\ UNCHANGED vars

\* A connection on which the bytes i.text come, and a parser for the type i.type; the
\* application has heard `nothing` at first.
Connected(i, nothing) ==
  /\ input = i.text /\ parser = http_parser_init(i.type)
  /\ at = "call"
  /\ pos = 1
  /\ stop = 0
  /\ marks = NoMarks
  /\ start = 0
  /\ app = nothing

Next ==
  \/ \E n \in (pos + 1)..(Len(input) + 1) : Execute(n)
  \/ Byte
  \/ Again
  \/ FieldLoop
  \/ ValueLoop
  \/ Flush
  \/ Resume
  \/ Eof
  \/ Rest
=============================================================================
