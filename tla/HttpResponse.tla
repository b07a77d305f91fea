---------------------------- MODULE HttpResponse ----------------------------
(***************************************************************************)
(* The answers of the HTTP server (net/http/HttpResponse, HttpServlet and  *)
(* FileServlet): a servlet fills a response and flushes it, and a client   *)
(* reads what was sent with the streaming parser.  This is the build for   *)
(* POSIX systems, in which sessions have no id and FileServlet no file.    *)
(***************************************************************************)
EXTENDS HttpStream

CONSTANTS
  Statuses, Names, Texts, \* what a servlet puts into a response
  Versions,               \* the protocols of requests
  MaxOps                  \* bound: calls a servlet makes before the flush

VARIABLES
  resp,     \* HttpResponse
  ops,      \* calls made
  request,  \* its method, protocol, whether it is to keep the connection, whether it has a session
  flushCb,  \* HttpResponse::_flushCb is set
  phase     \* "new", "servlet", "sent" or "closed"

answerVars == <<vars, resp, ops, request, flushCb, phase>>

Reasons ==
  { <<100, "Continue">>, <<101, "Switching Protocols">>, <<200, "OK">>, <<201, "Created">>,
    <<202, "Accepted">>, <<203, "Non-Authoritative Information">>, <<204, "No Content">>,
    <<205, "Reset Content">>, <<206, "Partial Content">>, <<300, "Multiple Choices">>,
    <<301, "Moved Permanently">>, <<302, "Found">>, <<303, "See Other">>, <<304, "Not Modified">>,
    <<305, "Use Proxy">>, <<307, "Temporary Redirect">>, <<400, "Bad Request">>,
    <<401, "Unauthorized">>, <<402, "Payment Required">>, <<403, "Forbidden">>,
    <<404, "Not Found">>, <<405, "Method Not Allowed">>, <<406, "Not Acceptable">>,
    <<407, "Proxy Authentication Required">>, <<408, "Request Time-out">>, <<409, "Conflict">>,
    <<410, "Gone">>, <<411, "Length Required">>, <<412, "Precondition Failed">>,
    <<413, "Request Entity Too Large">>, <<414, "Request-URI Too Large">>,
    <<415, "Unsupported Media Type">>, <<416, "Requested Range Not Satisfiable">>,
    <<417, "Expectation Failed">>, <<500, "Internal Server Error">>, <<501, "Not Implemented">>,
    <<502, "Bad Gateway">>, <<503, "Service Unavailable">>, <<504, "Gateway Time-out">>,
    <<505, "HTTP Version not supported">> }

getReasonForStatus(status) ==
  IF \E r \in Reasons : r[1] = status THEN (CHOOSE r \in Reasons : r[1] = status)[2] ELSE "???"

-----------------------------------------------------------------------------
(* Filling a response.                                                     *)

NewResponse == [status |-> 200, heads |-> << >>, cookies |-> <<>>, body |-> ""]

SetHeader(r, name, value) == [r EXCEPT !.heads = (name :> value) @@ @]
SetIntHeader(r, name, n) == SetHeader(r, name, ToString(n))
CookieText(c) == IF c[1] = "" \/ c[2] = "" THEN "" ELSE c[1] \o "=" \o c[2] \o ";"

Reset == NewResponse
send404(r) == [r EXCEPT !.status = 404, !.body = @ \o "Not Found"]

-----------------------------------------------------------------------------
(* flush: what is sent.                                                    *)

\* The response as it is when it is sent.
Final(r) ==
  LET kept == IF request.alive THEN SetHeader(r, "Connection", "Keep-Alive") ELSE r
      full == SetIntHeader(kept, "Content-Length", Len(r.body))
  IN  IF request.session THEN [full EXCEPT !.cookies = Append(@, <<"amid", "">>)] ELSE full

\* The header lines; the code's order is that of the names.
HeaderLines(f) ==
  FoldSet(LAMBDA n, acc : acc \o n \o ":" \o f.heads[n] \o "\r\n", "", DOMAIN f.heads)

\* Mutant of defaultflush: the line of a cookie is not ended.
FlushNoBreak(f) ==
  request.version \o " " \o ToString(f.status) \o " " \o getReasonForStatus(f.status) \o "\r\n"
  \o HeaderLines(f)
  \o Join([i \in DOMAIN f.cookies |-> "Set-Cookie:" \o CookieText(f.cookies[i])])
  \o "\r\n" \o f.body

defaultflush(f) ==
  request.version \o " " \o ToString(f.status) \o " " \o getReasonForStatus(f.status) \o "\r\n"
  \o HeaderLines(f)
  \o Join([i \in DOMAIN f.cookies |-> "Set-Cookie:" \o CookieText(f.cookies[i]) \o "\r\n"])
  \o "\r\n" \o f.body

-----------------------------------------------------------------------------
(* The servlet, and then the client.                                       *)

Call(r) == /\ phase = "servlet"
           /\ ops < MaxOps
           /\ resp' = r
           /\ ops' = ops + 1
           /\ UNCHANGED <<vars, phase>>

\* The assumption on servlets: a body is only put into an answer that may
\* have one.
MayHaveBody(r) == r.status >= 200 /\ r.status \notin {204, 304}

\* A call that only changes the response.
Fill(r) == Call(r) /\ UNCHANGED <<request, flushCb>>

setStatus(s) == (resp.body = "" \/ MayHaveBody([resp EXCEPT !.status = s]))
                /\ Fill([resp EXCEPT !.status = s])
setHeader(n, v) == Fill(SetHeader(resp, n, v))
addCookie(n, v) == Fill([resp EXCEPT !.cookies = Append(@, <<n, v>>)])
append(text) == MayHaveBody(resp) /\ Fill([resp EXCEPT !.body = @ \o text])
setBody(text) == MayHaveBody(resp) /\ Fill([resp EXCEPT !.body = text])
reset == Fill(Reset)
setFlushCallback == Call(resp) /\ flushCb' = TRUE /\ UNCHANGED request
getSession == Call(resp) /\ request' = [request EXCEPT !.session = TRUE] /\ UNCHANGED flushCb

\* Nothing is sent when the connection is gone, and by a callback only what
\* it sends itself, which is what defaultflush sends or nothing.
Flushed(r, callback) ==
  /\ phase' = "sent"
  /\ \/ resp' = r /\ UNCHANGED vars
     \/ /\ resp' = Final(r)
        /\ input' = defaultflush(Final(r))
        /\ parser' = http_parser_init("response")
        /\ UNCHANGED <<at, pos, stop, marks, start, app>>
  /\ flushCb' = callback
  /\ UNCHANGED <<ops, request>>

flush == phase = "servlet" /\ Flushed(resp, flushCb)

\* Only GET and POST are answered; the connection is closed for the others.
handRequest(r, Answered) ==
  IF request.method \in {"GET", "POST"} THEN Answered
  ELSE phase' = "closed" /\ resp' = r /\ flushCb' = FALSE /\ UNCHANGED <<vars, ops, request>>

\* FileServlet: checkPath looks for the empty path, which no file has.
checkPath == ""
FileGet(r) == checkPath = "" /\ Flushed(send404(r), FALSE)

\* The servlet of the URL, or FileServlet if it has none.
handleRequest(r) ==
  \/ handRequest(r, phase' = "servlet" /\ resp' = r /\ flushCb' = FALSE
                    /\ UNCHANGED <<vars, ops, request>>)
  \/ handRequest(r, FileGet(r))

doRequest == phase = "new" /\ handleRequest(resp)

\* The body and the callback go, the rest stays, and another URL's servlet goes on.
forward == /\ phase = "servlet"
           /\ handleRequest([resp EXCEPT !.body = ""])

Client == /\ phase = "sent"
          /\ \/ pos <= Len(input) /\ Execute(Len(input) + 1)
             \/ Byte \/ Again \/ FieldLoop \/ ValueLoop \/ Flush
          /\ UNCHANGED <<resp, ops, request, flushCb, phase>>

Heard(a, q, cb, text) == {[app |-> Hear(a, q, cb, text), rc |-> 0, paused |-> FALSE]}

Done == phase = "sent" /\ at = "call" /\ (pos > Len(input) \/ parser.errno # "OK" \/ Upgraded)
Stay == (Done \/ phase = "closed") /\ UNCHANGED answerVars

AnswerInit == /\ Connected([type |-> "response", text |-> ""], NothingHeard)
              /\ resp = NewResponse
              /\ ops = 0
              /\ request \in [method : {"GET", "POST", "HEAD"}, version : Versions,
                             alive : BOOLEAN, session : {FALSE}]
              /\ flushCb = FALSE
              /\ phase = "new"
AnswerNext ==
  \/ doRequest
  \/ \E s \in Statuses : setStatus(s)
  \/ \E n \in Names, v \in Texts : setHeader(n, v)
  \/ \E n \in Names, v \in Texts : addCookie(n, v)
  \/ \E t \in Texts : append(t) \/ setBody(t)
  \/ reset
  \/ setFlushCallback
  \/ getSession
  \/ flush
  \/ forward
  \/ Client
  \/ Stay
-----------------------------------------------------------------------------
\* The pairs of header field and value a client heard, and the texts of cb.
HeardHeaders == {<<app[i].text, app[i + 1].text>> : i \in {i \in DOMAIN app : app[i].cb = "header_field"}}
HeardText(cb) == Join([i \in DOMAIN app |-> IF app[i].cb = cb THEN app[i].text ELSE ""])

\* A client reads the answer as the servlet left it: one message in the
\* request's protocol, the status and its reason, each header with its last
\* value, each cookie and that of the session, a length that is the body's,
\* and the whole body.  The connection may carry another request, except
\* that of an older client that did not ask for it.
AnswerHeard ==
  (Done /\ input # "") =>
    /\ parser.errno = "OK"
    /\ pos = Len(input) + 1
    /\ parser.state = IF request.version = "HTTP/1.1" \/ request.alive THEN "s_start_res" ELSE "s_dead"
    /\ Cardinality({i \in DOMAIN app : app[i].cb = "message_complete"}) = 1
    /\ \E i \in DOMAIN app :
         /\ app[i].cb = "headers_complete"
         /\ app[i].info[2] = resp.status
         /\ "HTTP/" \o ToString(app[i].info[3][1]) \o "." \o ToString(app[i].info[3][2]) = request.version
    /\ HeardText("status") = getReasonForStatus(resp.status)
    /\ HeardHeaders = {<<n, resp.heads[n]>> : n \in DOMAIN resp.heads}
                      \cup {<<"Set-Cookie", CookieText(resp.cookies[i])>> : i \in DOMAIN resp.cookies}
    /\ HeardText("body") = resp.body
=============================================================================
