----------------------------- MODULE HttpStream -----------------------------
(***************************************************************************)
(* What the streaming parser promises its user: for a well-formed stream   *)
(* of messages the callbacks tell these messages, in order, once, whatever *)
(* pieces the stream arrives in and wherever the user pauses it.           *)
(*                                                                         *)
(* The reference is a dialogue: a sequence of abstract messages, with the  *)
(* text each one has on the wire and the events it should be heard as.     *)
(* The user appends the pieces of a string as http_parser.h tells it to.   *)
(***************************************************************************)
EXTENDS HttpMachine, SequencesExt

CONSTANTS
  Dialogues,     \* sequences of messages
  MayPause       \* whether a callback may pause the parser

VARIABLE heads   \* the messages that answer a HEAD request: the user wants no body of them

-----------------------------------------------------------------------------
(* Messages.                                                               *)

\* A header as it should be heard, and what stands on the wire after its
\* name; tokens are the words of a Connection header.
Header(name, value)       == [name |-> name, wire |-> ": " \o value \o "\r\n",
                              value |-> value, tokens |-> {}]
Wired(name, wire, value)  == [name |-> name, wire |-> wire, value |-> value, tokens |-> {}]
Tokens(name, wire, value, tokens) ==
  [name |-> name, wire |-> ": " \o wire \o "\r\n", value |-> value, tokens |-> tokens]

Join(S) == FoldSeq(LAMBDA x, acc : x \o acc, "", S)

StartLine(m) ==
  IF m.type = "request" THEN m.lead \o m.method \o " " \o m.url \o m.version \o m.eol
  ELSE m.version \o m.code \o m.reason \o m.eol

HeaderText(h) == h.name \o h.wire
ChunkText(c) == c.size \o c.ext \o "\r\n" \o c.data \o (IF c.data = "" THEN "" ELSE "\r\n")
Text(m) ==
  StartLine(m) \o Join([i \in DOMAIN m.headers |-> HeaderText(m.headers[i])]) \o m.eol
    \o Join([i \in DOMAIN m.chunks |-> ChunkText(m.chunks[i])])
    \o (IF m.chunks = <<>> THEN m.body
        ELSE Join([i \in DOMAIN m.trailers |-> HeaderText(m.trailers[i])]) \o m.eol)
WireText(d) == Join([i \in DOMAIN d.messages |-> Text(d.messages[i])]) \o d.rest

-----------------------------------------------------------------------------
(* The events of a message.                                                *)

Event(cb, text) == [cb |-> cb, text |-> text, info |-> <<>>]
Told(cb, info)  == [cb |-> cb, text |-> "", info |-> info]

Said(m, token) == \E i \in DOMAIN m.headers : token \in m.headers[i].tokens
Named(m, names) == \E i \in DOMAIN m.headers : m.headers[i].name \in names

Flags(m) ==
  {f \in {"CONNECTION_CLOSE", "CONNECTION_KEEP_ALIVE", "CONNECTION_UPGRADE", "UPGRADE",
          "CHUNKED", "CONTENTLENGTH"} :
     CASE f = "CONNECTION_CLOSE"      -> Said(m, "close")
       [] f = "CONNECTION_KEEP_ALIVE" -> Said(m, "keep-alive")
       [] f = "CONNECTION_UPGRADE"    -> Said(m, "upgrade")
       [] f = "UPGRADE"               -> Named(m, {"Upgrade", "upgrade"})
       [] f = "CHUNKED"               -> m.chunks # <<>>
       [] f = "CONTENTLENGTH"         -> Named(m, {"Content-Length", "CONTENT-LENGTH"})}

\* Whether another message may follow on the connection.
Persistent(m) ==
  /\ IF m.digits = <<1, 1>> THEN ~Said(m, "close") ELSE Said(m, "keep-alive")
  /\ m.ends # "eof"

HeaderEvents(hs) == FlattenSeq([i \in DOMAIN hs |->
                      <<Event("header_field", hs[i].name), Event("header_value", hs[i].value)>>])

ChunkEvents(c) == <<Told("chunk_header", <<Len(c.data)>>)>>
                   \o (IF c.data = "" THEN <<>>
                       ELSE <<Event("body", c.data), Event("chunk_complete", "")>>)

Events(m) ==
  <<Event("message_begin", "")>>
   \o (IF m.type = "request" THEN <<Event("url", m.url)>> ELSE <<Event("status", m.phrase)>>)
   \o HeaderEvents(m.headers)
   \o <<Told("headers_complete", <<m.method, m.status, m.digits, Flags(m), m.upgrade>>)>>
   \o FlattenSeq([i \in DOMAIN m.chunks |-> ChunkEvents(m.chunks[i])])
   \o (IF m.chunks # <<>> THEN HeaderEvents(m.trailers) \o <<Event("chunk_complete", "")>>
       ELSE IF m.body # "" /\ ~m.skip THEN <<Event("body", m.body)>> ELSE <<>>)
   \o <<Told("message_complete", <<Persistent(m)>>)>>

AllEvents(d) == FlattenSeq([i \in DOMAIN d.messages |-> Events(d.messages[i])])

-----------------------------------------------------------------------------
(* The user: appends pieces, notes what it may ask the parser, and pauses. *)

Hear(a, q, cb, text) ==
  CASE cb \in Marks /\ a # <<>> /\ Last(a).cb = cb ->
         [a EXCEPT ![Len(a)].text = @ \o text]
    [] cb = "headers_complete" ->
         Append(a, Told(cb, <<q.method, q.status, <<q.major, q.minor>>, q.flags, q.upgrade>>))
    [] cb = "message_complete" -> Append(a, Told(cb, <<http_should_keep_alive(q)>>))
    [] cb = "chunk_header" -> Append(a, Told(cb, <<q.length>>))
    [] OTHER -> Append(a, Event(cb, text))

NothingHeard == <<>>

\* The places at which the stream may end: between two messages, before the
\* first byte that counts of one, and in a body that lasts until the end.
MayEnd(d) ==
  LET Before(k) == Len(Join([i \in 1..k |-> Text(d.messages[i])]))
      Headers(m) == Len(Text(m)) - Len(m.body)
  IN  UNION {Before(k - 1)..(Before(k - 1) + Len(d.messages[k].lead))
               : k \in DOMAIN d.messages}
      \cup {Before(Len(d.messages))}
      \cup UNION {(Before(k - 1) + Headers(d.messages[k]))..Before(k)
                    : k \in {k \in DOMAIN d.messages : d.messages[k].ends = "eof"}}

\* The dialogues by their text, with the events and the ends of each.
BookOf(D) ==
  LET Page(d) == [dialogue |-> d, events |-> AllEvents(d), mayEnd |-> MayEnd(d)]
  IN  [t \in {WireText(d) : d \in D} |-> Page(CHOOSE d \in D : WireText(d) = t)]
Book == BookOf(Dialogues)
Heads(d) == {i \in DOMAIN d.messages : d.messages[i].skip}

Completed(a) == Cardinality({i \in DOMAIN a : a[i].cb = "message_complete"})

Answer(a, cb) == IF cb = "headers_complete" /\ Completed(a) + 1 \in heads THEN 1 ELSE 0

Listener(a, q, cb, text) ==
  {[app |-> Hear(a, q, cb, text), rc |-> Answer(a, cb), paused |-> p] :
     p \in IF MayPause THEN BOOLEAN ELSE {FALSE}}

-----------------------------------------------------------------------------
(* Properties.                                                             *)

\* At any moment the user has heard a prefix of the events of the messages
\* sent: http_parser_execute makes no callback twice, none early, leaves no
\* byte out of a string and tells the flags, the version and whether the
\* connection persists as the headers say.
HeardInOrder(e) ==
  LET n == Len(app)
  IN  (n > 0 /\ at # "closed") =>
        /\ n <= Len(e)
        /\ \A i \in 1..(n - 1) : app[i] = e[i]
        /\ app[n].cb = e[n].cb /\ app[n].info = e[n].info
        /\ Len(app[n].text) <= Len(e[n].text)
        /\ app[n].text = SubSeq(e[n].text, 1, Len(app[n].text))

\* When the stream has ended, or another protocol takes over, every event
\* was heard, and the bytes that belong to the other protocol are unread.
HeardAll(b) ==
  ((at = "closed" /\ pos = Len(input) + 1) \/ (at = "call" /\ Upgraded)) =>
     /\ app = b.events
     /\ pos = Len(input) - Len(b.dialogue.rest) + 1

\* No piece of a well-formed stream is answered by an error.
NoFalseError == at # "closed" => parser.errno \in {"OK", "PAUSED"}

\* A connection that ends inside a message is reported by the call with no
\* bytes, and one that ends between messages is not.
CutIsNoticed(b) ==
  at = "closed" =>
    parser.errno = IF pos - 1 \in b.mayEnd THEN "OK" ELSE "INVALID_EOF_STATE"

\* "There should be at most one of these set" of the marks left when a piece
\* ends (http_parser.c, before the last callbacks, and the assert there).
OneMarkLeft ==
  (at = "byte" /\ pos = stop) => Cardinality({f \in Marks : marks[f] # 0}) <= 1

\* The assertions in the body states: a chunk size starts with no header
\* byte counted, and a body of known length has bytes left.
BodyAsserts ==
  at = "byte" =>
    /\ parser.state = "s_chunk_size_start" => parser.nread = 0 /\ "CHUNKED" \in parser.flags
    /\ parser.state \in {"s_chunk_data", "s_body_identity"} => parser.length \notin {0, NoLength}
    /\ parser.state = "s_chunk_data_almost_done" => parser.length = 0

\* What the user is told of the dialogue on page b of the book.
HeardAsSent(b) ==
  HeardInOrder(b.events) /\ HeardAll(b) /\ NoFalseError /\ CutIsNoticed(b) /\ OneMarkLeft /\ BodyAsserts
=============================================================================
