------------------------------- MODULE MCHttp -------------------------------
(***************************************************************************)
(* The HTTP library, for TLC: the streaming parser between a peer that     *)
(* sends well-formed messages in any pieces and a user that may pause it;  *)
(* the server that makes requests of its callbacks; the answers, read back *)
(* by a client; URLs; and the string helpers.  A behaviour is one of one   *)
(* of these; the others stay in their initial states.                      *)
(***************************************************************************)
EXTENDS HttpParser, HttpResponse

CONSTANTS
  Parts,            \* of "stream", "server", "answer", "url" and "string"
  UrlLen,           \* length of the URL strings
  Letters, WordLen  \* letters and length of the other strings

VARIABLES
  part,                            \* the component that moves
  written, url, connect, result,   \* http_parser_parse_url: its arguments and result
  word, key, other, offset         \* arguments of the string helpers
urlVars == <<written, url, connect, result>>
wordVars == <<word, key, other, offset>>

-----------------------------------------------------------------------------
(* Dialogues for the streaming parser.                                     *)

Message(type) ==
  [type |-> type, lead |-> "", method |-> "DELETE", url |-> "", version |-> " HTTP/1.1",
   digits |-> <<1, 1>>, eol |-> "\r\n", headers |-> <<>>, chunks |-> <<>>, trailers |-> <<>>,
   body |-> "", status |-> 0, code |-> "", reason |-> "", phrase |-> "", skip |-> FALSE,
   upgrade |-> FALSE, ends |-> "length"]

Req(verb, target, headers, body) ==
  [Message("request") EXCEPT !.method = verb, !.url = target, !.headers = headers, !.body = body]

Response(status, code, phrase, headers, body) ==
  [Message("response") EXCEPT !.version = "HTTP/1.1 ", !.status = status, !.code = code,
     !.reason = " " \o phrase, !.phrase = phrase, !.headers = headers, !.body = body]

Chunk(size, ext, data) == [size |-> size, ext |-> ext, data |-> data]
Talk(type, messages, rest) == [type |-> type, messages |-> messages, rest |-> rest]

Alive == Tokens("Connection", "keep-alive", "keep-alive", {"keep-alive"})
Close     == Tokens("connection", "Close", "Close", {"close"})

Simple == Req("GET", "/a?b#c", <<Header("Host", "h"), Wired("X", ":\r\n", "")>>, "")
Posted == Req("POST", "/p", <<Header("Content-Length", "12")>>, "abcdefghijkl")
EmptyPut  == [Req("PUT", "*", <<Alive, Header("Content-Length", "0")>>, "")
             EXCEPT !.version = " HTTP/1.0", !.digits = <<1, 0>>]
Old    == [Req("GET", "/", <<>>, "") EXCEPT !.version = "", !.digits = <<0, 9>>]
Folded == [Req("GET", "http://u@h:1/p", <<Wired("Cookie", ": a\n b\n", "a b")>>, "")
             EXCEPT !.eol = "\n", !.lead = "\r\n"]
Chunked ==
  [Req("PATCH", "/", <<Header("Transfer-Encoding", "chunked")>>, "") EXCEPT
     !.chunks = <<Chunk("3", ";x", "abc"), Chunk("11", "", "abcdefghijklmnopq"), Chunk("0", "", "")>>,
     !.trailers = <<Header("T", "v")>>]
Tunnel == [Req("CONNECT", "h:1", <<>>, "") EXCEPT !.upgrade = TRUE]
Switched ==
  [Req("GET", "/", <<Tokens("Connection", "x, Upgrade,close", "x, Upgrade,close",
                                {"upgrade", "close"}), Header("Upgrade", "ws")>>, "")
     EXCEPT !.upgrade = TRUE]

Ok       == Response(200, "200", "OK", <<Header("Content-Length", "2")>>, "hi")
NoBody   == Response(204, "204", "No", <<Tokens("Proxy-Connection", "keep-alive ",
                                                 "keep-alive ", {"keep-alive"})>>, "")
Plain    == [Response(304, "304", "", <<>>, "") EXCEPT !.reason = ""]
ToEof    == [Response(200, "200", "OK", <<>>, "until the end") EXCEPT !.ends = "eof"]
Headed   == [Response(200, "200", "OK", <<Header("Content-Length", "9")>>, "") EXCEPT !.skip = TRUE]
Protocol == [Response(101, "101", "Sw", <<Tokens("Connection", "upgrade", "upgrade", {"upgrade"}),
                                           Header("upgrade", "x")>>, "") EXCEPT !.upgrade = TRUE]

MessageStreams ==
  { Talk("request", <<Simple, Posted>>, ""), Talk("request", <<EmptyPut, Old>>, ""),
    Talk("request", <<Folded, Chunked>>, ""), Talk("request", <<Chunked, Simple>>, ""),
    Talk("request", <<Tunnel>>, "zz"), Talk("request", <<Posted, Switched>>, "zz"),
    Talk("response", <<Ok, NoBody>>, ""), Talk("response", <<Plain, ToEof>>, ""),
    Talk("response", <<Headed, Ok>>, ""), Talk("response", <<Protocol>>, "zz"),
    Talk("both", <<Ok>>, ""), Talk("both", <<Req("HEAD", "/", <<Close>>, "")>>, "") }

MethodStreams ==
  {Talk("request", <<[Req(m, IF m = "CONNECT" THEN "h" ELSE "/", <<>>, "")
                       EXCEPT !.upgrade = m = "CONNECT"]>>, "") : m \in Methods}

-----------------------------------------------------------------------------
(* Requests for the server, with what each of them means.                  *)

\* Form data: the pairs, their names and values encoded.
Form(pairs) ==
  Join([i \in DOMAIN pairs |-> (IF i = 1 THEN "" ELSE "&") \o UrlEncode(pairs[i][1])
                               \o (IF pairs[i][2] = "" THEN "" ELSE "=" \o UrlEncode(pairs[i][2]))])
\* What the pairs mean: the last value of a name counts.
Meaning(pairs) ==
  FoldLeft(LAMBDA map, p : Insert(map, toLower(p[1]), p[2]), NoMap, pairs)

\* A request for the file below the root, with a query, headers, cookies
\* and, if it is posted, a form.
CookieLine(cookies) ==
  Join([i \in DOMAIN cookies |-> (IF i = 1 THEN "" ELSE "; ") \o cookies[i][1] \o "=" \o cookies[i][2]])

\* hs are all the header lines, and body what the form comes to.
Filled(verb, file, query, cookies, form, body, hs) ==
  [type |-> "request", lead |-> "", method |-> verb, version |-> " HTTP/1.1", eol |-> "\r\n",
   url |-> "/" \o UrlEncode(file) \o (IF query = <<>> THEN "" ELSE "?" \o Form(query)),
   digits |-> <<1, 1>>, chunks |-> <<>>, trailers |-> <<>>, body |-> body, skip |-> FALSE,
   status |-> 0, phrase |-> "", upgrade |-> FALSE, ends |-> "length",
   headers |-> [i \in DOMAIN hs |-> Header(hs[i][1], hs[i][2])],
   pairs |-> query \o form,
   meant |-> [method |-> verb, version |-> "HTTP/1.1", url |-> "/" \o file, body |-> body,
              session |-> "",
              params |-> Meaning(query \o form),
              headers |-> Meaning([i \in DOMAIN hs |-> <<hs[i][1], toLower(hs[i][2])>>]),
              cookies |-> cookies]]

Asked(verb, file, query, headers, cookies, form) ==
  LET Lines(body) == headers
        \o (IF cookies = <<>> THEN <<>> ELSE << <<"Cookie", CookieLine(cookies)>> >>)
        \o (IF form = <<>> THEN <<>> ELSE << <<"Content-Length", ToString(Len(body))>> >>)
      With(body) == Filled(verb, file, query, cookies, form, body, Lines(body))
  IN  With(Form(form))

Dialog(ms) == [type |-> "request", messages |-> ms, rest |-> ""]

Index  == Asked("GET", "", <<>>, <<>>, <<>>, <<>>)
Search == Asked("GET", "a b.htm", << <<"Q", "x&y=?%">>, <<"p", "">>, <<"q", "k m">> >>,
                << <<"Host", "h">>, <<"X-Y", "Z">> >>, <<>>, <<>>)
Login  == Asked("POST", "in", << <<"v", "1">> >>, << <<"Connection", "Keep-Alive">> >>,
                << <<"amid", "s1">>, <<"k", "v">> >>, << <<"User", "Ann Lee">>, <<"v", "2+2=4">> >>)
PutFile    == [Asked("PUT", "f", <<>>, << <<"Transfer-Encoding", "chunked">> >>, <<>>, <<>>) EXCEPT
             !.chunks = <<[size |-> "2", ext |-> "", data |-> "ab"],
                          [size |-> "0", ext |-> "", data |-> ""]>>,
             !.meant.body = "ab"]

ServerTalks == {Dialog(<<Index, Search>>), Dialog(<<Login, Index>>), Dialog(<<PutFile, Login>>),
                Dialog(<<Search, Search>>)}

-----------------------------------------------------------------------------
(* URLs put together from their parts, and every short string of URL       *)
(* characters.                                                             *)

NoParts == [schema |-> "", userinfo |-> "", host |-> "", v6 |-> FALSE, port |-> "", path |-> "",
         query |-> "", fragment |-> ""]

\* The URL that has these parts.
Compose(p) ==
  (IF p.schema = "" THEN "" ELSE p.schema \o "://")
   \o (IF p.userinfo = "" THEN "" ELSE p.userinfo \o "@")
   \o (IF p.v6 THEN "[" \o p.host \o "]" ELSE p.host)
   \o (IF p.port = "" THEN "" ELSE ":" \o p.port)
   \o p.path
   \o (IF p.query = "" THEN "" ELSE "?" \o p.query)
   \o (IF p.fragment = "" THEN "" ELSE "#" \o p.fragment)

PartOf == [SCHEMA |-> "schema", USERINFO |-> "userinfo", HOST |-> "host", PORT |-> "port",
           PATH |-> "path", QUERY |-> "query", FRAGMENT |-> "fragment"]

\* No result yet.
Pending == [ok |-> FALSE, u |-> NoUrl]

Alphabet == {"a", "1", "/", ":", "@", "?", "#", "[", "]", "%"}
UrlStrings == UNION {[1..n -> Alphabet] : n \in 1..UrlLen}
TextOf(s) == LET run[i \in 0..Len(s)] == IF i = 0 THEN "" ELSE run[i - 1] \o s[i] IN run[Len(s)]

AllParts ==
  {[NoParts EXCEPT !.schema = s, !.userinfo = u, !.host = h.h, !.v6 = h.v6, !.port = p, !.path = q,
                !.query = y, !.fragment = f] :
     s \in {"http"}, u \in {"", "me:pw"},
     h \in {[h |-> "h.x-1", v6 |-> FALSE], [h |-> "fe80::1", v6 |-> TRUE],
            [h |-> "fe80::1%eth0", v6 |-> TRUE]},
     p \in {"", "80", "65535"}, q \in {"", "/", "/a/b"}, y \in {"", "x=1?y"},
     f \in {"", "f?#g"}}
  \cup {[NoParts EXCEPT !.path = q, !.query = y, !.fragment = f] :
          q \in {"/", "*", "/a@b:c"}, y \in {"", "q"}, f \in {"", "f"}}
IsWritten(p) == ~(p.path = "" /\ p.fragment # "" /\ p.query = "")
Written == {p \in AllParts : IsWritten(p)}

-----------------------------------------------------------------------------
(* Short strings, of letters in both cases, a space and another character. *)

Words(n) == {TextOf(q) : q \in UNION {[1..m -> Letters] : m \in 0..n}}

-----------------------------------------------------------------------------
StreamDialogues == MessageStreams \cup MethodStreams
AllDialogues == StreamDialogues \cup ServerTalks
InputsOf(D) == {[type |-> d.type, text |-> WireText(d), heads |-> Heads(d)] : d \in D}
StreamInputs == InputsOf(StreamDialogues)
ServerInputs == InputsOf(ServerTalks)

\* Who listens to the parser.
Reaction(a, q, cb, text) ==
  CASE part = "stream" -> Listener(a, q, cb, text)
    [] part = "server" -> OnCallback(a, q, cb, text)
    [] part = "answer" -> Heard(a, q, cb, text)

AnswerAtRest == /\ resp = NewResponse /\ ops = 0 /\ flushCb = FALSE /\ phase = "new"
                /\ request = [method |-> "GET", version |-> "HTTP/1.1", alive |-> TRUE, session |-> FALSE]
ServerAtRest == reading = FALSE /\ served = <<>> /\ forced = FALSE /\ torn = <<>>

HttpInit ==
  CASE part = "stream" -> (\E i \in StreamInputs : Connected(i, NothingHeard) /\ heads = i.heads) /\ ServerAtRest /\ AnswerAtRest
    [] part = "server" -> (\E i \in ServerInputs : ServerInit(i)) /\ heads = {} /\ AnswerAtRest
    [] OTHER -> heads = {} /\ ServerAtRest /\ IF part = "answer" THEN AnswerInit
                                ELSE Connected([type |-> "both", text |-> ""], NothingHeard) /\ AnswerAtRest

UrlInit ==
  /\ \/ \E p \in Written : written = p /\ url = Compose(p)
     \/ \E s \in UrlStrings, p \in {"", "a://"} : written = NoParts /\ url = p \o TextOf(s)
  /\ connect \in BOOLEAN
  /\ connect => written.schema = ""
  /\ result = Pending
UrlAtRest == written = NoParts /\ url = "" /\ connect = FALSE /\ result = Pending

WordInit == word \in Words(WordLen) /\ key \in Words(2) /\ other \in Words(1) /\ offset \in 0..Len(word)
WordAtRest == word = "" /\ key = "" /\ other = "" /\ offset = 0

SuiteInit ==
  /\ part \in Parts /\ HttpInit
  /\ IF part = "url" THEN UrlInit ELSE UrlAtRest
  /\ IF part = "string" THEN WordInit ELSE WordAtRest

ParseUrl == /\ result = Pending
            /\ result' = http_parser_parse_url(url, connect)
            /\ UNCHANGED <<written, url, connect>>

\* The next arguments: the end of the word becomes the last argument.
Turn == /\ Len(word) > 1
        /\ word' = SubSeq(word, 1, Len(word) - 1)
        /\ other' = Char(word, Len(word))
        /\ offset' = 0
        /\ UNCHANGED key

ownServer == <<heads, reading, served, forced, torn>>
ownAnswer == <<resp, ops, request, flushCb, phase>>
SuiteNext ==
  \/ part = "stream" /\ Next /\ UNCHANGED <<part, ownServer, ownAnswer, urlVars, wordVars>>
  \/ part = "server" /\ ServerNext /\ UNCHANGED <<part, heads, ownAnswer, urlVars, wordVars>>
  \/ part = "answer" /\ AnswerNext /\ UNCHANGED <<part, ownServer, urlVars, wordVars>>
  \/ part = "url" /\ ParseUrl /\ UNCHANGED <<part, serverVars, heads, ownAnswer, wordVars>>
  \/ part = "string" /\ Turn /\ UNCHANGED <<part, serverVars, heads, ownAnswer, urlVars>>

SuiteSpec == SuiteInit /\ [][SuiteNext]_<<part, serverVars, heads, ownAnswer, urlVars, wordVars>>

-----------------------------------------------------------------------------
\* A URL put together from parts is accepted, and http_parser_parse_url finds
\* exactly those parts in it.
PartsFound ==
  (result # Pending /\ written # NoParts /\ ~connect) =>
    /\ result.ok
    /\ result.u.set = {f \in Fields : written[PartOf[f]] # ""}
    /\ \A f \in result.u.set : FieldText(url, result.u, f) = written[PartOf[f]]

Order == <<"SCHEMA", "USERINFO", "HOST", "PORT", "PATH", "QUERY", "FRAGMENT">>

Delimiters == Chars(":/@?#[]")

\* Whatever URL is accepted, its fields follow each other in it without an
\* overlap, and all that is left between them is punctuation: no character
\* is lost and none belongs to two fields.
FieldsTile ==
  result.ok =>
    LET u == result.u
        in(f) == (u.off[f] + 1)..(u.off[f] + u.len[f])
    IN  /\ \A i, j \in 1..7 : (i < j /\ {Order[i], Order[j]} \subseteq u.set)
             => u.off[Order[i]] + u.len[Order[i]] <= u.off[Order[j]]
        /\ \A k \in 1..Len(url) :
             (\A f \in u.set : k \notin in(f)) => CharAt(url, k) \in Delimiters
        /\ \A f \in u.set : u.len[f] > 0 /\ u.off[f] + u.len[f] <= Len(url)

-----------------------------------------------------------------------------
AllSpace(x) == \A i \in 1..Len(x) : Char(x, i) \in Spaces

\* trim, trimLeft and trimRight agree, and leave out the spaces at the ends
\* and nothing else, also of a string that is all spaces.
TrimExact ==
  /\ trim(word) = trimLeft(trimRight(word))
  /\ trim(word) = trimRight(trimLeft(word))
  /\ trim(word) = trim(trim(word))
  /\ trim(word) # "" => {Char(trim(word), 1), Char(trim(word), Len(trim(word)))} \cap Spaces = {}
  /\ \E i \in 0..Len(word), j \in 0..Len(word) :
       /\ i + j <= Len(word)
       /\ trim(word) = SubSeq(word, i + 1, Len(word) - j)
       /\ AllSpace(SubSeq(word, 1, i)) /\ AllSpace(SubSeq(word, Len(word) - j + 1, Len(word)))

\* CILess is the strict weak order a std::map needs of it, and holds two
\* strings equal exactly if they are the same in lower case; the forms of
\* icompare that take spans compare what the spans hold.
CaselessOrder ==
  /\ Compare(word, key) = -Compare(key, word)
  /\ (Compare(word, key) = 0) <=> (toLower(word) = toLower(key))
  /\ (Compare(word, key) = 0) <=> (toUpper(word) = toUpper(key))
  /\ CILess(word, key) /\ CILess(key, other) => CILess(word, other)
  /\ ~CILess(word, key) /\ ~CILess(key, other) => ~CILess(word, other)
  /\ icompareSpans(word, offset, Len(word), key, 0, Len(key) + 1)
       = Compare(SubSeq(word, offset + 1, Len(word)), key)
  /\ icompareFirst(word, Len(key), key) = icompare(word, 0, Len(key), key)

\* The pieces of split, with the delimiter put between them again, are the
\* string, but for the case of a delimiter; no piece holds a delimiter; the
\* form without empty pieces leaves out just those; and what cat joined
\* split takes apart.
SplitRebuilds ==
  key # "" =>
    LET all == split(word, key, TRUE)
        few == split(word, key, FALSE)
        Joined == LET run[i \in 1..Len(all)] ==
                        IF i = 1 THEN all[1] ELSE LET r == run[i - 1] IN r \o key \o all[i]
                  IN  run[Len(all)]
    IN  /\ toLower(Joined) = toLower(word)
        /\ \A i \in DOMAIN all : isubstr(all[i], key) = None
        /\ few = SelectSeq(all, LAMBDA x : x # "")
        /\ Len(key) = 1 => split(cat(key, all), key, FALSE) = few

\* Where case plays no part, replacing a word is splitting at it and joining
\* with the other; and the three ways to drop or to change one character
\* (replace, remove, translate) agree.
ReplaceAgrees ==
  LET tail == SubSeq(word, offset + 1, Len(word))
      head == SubSeq(word, 1, offset)
      Joined(ps) == LET run[i \in 1..Len(ps)] ==
                          IF i = 1 THEN ps[1] ELSE LET r == run[i - 1] IN r \o other \o ps[i]
                    IN  run[Len(ps)]
      sameCase == toLower(word) = word /\ toLower(key) = key
  IN  /\ key # "" /\ sameCase => replaceInPlace(word, key, other, offset) = head \o Joined(split(tail, key, TRUE))
      /\ Len(key) = 1 =>
           /\ remove(word, key, offset) = replaceInPlace(word, key, "", offset)
           /\ remove(word, key, 0) = translate(word, key, "")
           /\ other # "" => replaceChar(word, key, other, offset) = replaceInPlace(word, key, other, offset)
           /\ other # "" => replaceChar(word, key, other, 0) = translate(word, key, other)
           /\ offset = 0 => find(remove(word, key, offset), key, 0) = None

-----------------------------------------------------------------------------
\* The streaming parser tells a well-formed stream as it was sent, whatever
\* pieces it comes in.  The server makes of it the requests that were sent;
\* of one whose URL came in two pieces everything else, or it closes the
\* connection, and it closes it for one that had a header in two.
MessagesHeard ==
  /\ part = "stream" => HeardAsSent(Book[input])
  /\ part = "server" => ServedAsSent(Book[input].dialogue)

\* A client reads an answer as the servlet left it.
AnswersHeard == part = "answer" => AnswerHeard

\* http_parser_parse_url finds the parts of a URL, and the string helpers
\* that keys, headers and parameters go through agree with their reference.
TextTaken ==
  /\ part = "url" => PartsFound /\ FieldsTile
  /\ part = "string" => TrimExact /\ CaselessOrder /\ SplitRebuilds /\ ReplaceAgrees
=============================================================================
