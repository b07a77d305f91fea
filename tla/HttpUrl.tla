------------------------------ MODULE HttpUrl ------------------------------
(***************************************************************************)
(* The characters of HTTP and the URL parser of net/http/http_parser.c:    *)
(* parse_url_char, which the streaming parser also uses, and               *)
(* http_parser_parse_url, which cuts a URL into its fields.                *)
(***************************************************************************)
EXTENDS Naturals, Sequences

-----------------------------------------------------------------------------
(* Characters.                                                             *)

CR == "\r"
LF == "\n"
CharAt(s, i) == SubSeq(s, i, i)
Chars(s) == {CharAt(s, i) : i \in 1..Len(s)}
IndexIn(s, c) == CHOOSE i \in 1..Len(s) : CharAt(s, i) = c

UpperCase == "ABCDEFGHIJKLMNOPQRSTUVWXYZ"
LowerCase == "abcdefghijklmnopqrstuvwxyz"
HexDigits == "0123456789abcdef"
Uppers   == Chars(UpperCase)
Lowers   == Chars(LowerCase)
Numerals == Chars("0123456789")
Hexes    == Chars(HexDigits)

\* LOWER sets bit 0x20: on letters it lowers the case, on a tab it makes
\* a closing parenthesis, and the other characters used here have it set.
LowerOf == [c \in Uppers \cup {"\t"} |->
              IF c = "\t" THEN ")" ELSE CharAt(LowerCase, IndexIn(UpperCase, c))]
Lower(c) == IF c \in DOMAIN LowerOf THEN LowerOf[c] ELSE c

HexOf == [c \in Hexes |-> IndexIn(HexDigits, c) - 1]

IsNum(c)   == c \in Numerals
IsAlpha(c) == c \in Uppers \/ c \in Lowers
Unhex(c)   == IF Lower(c) \in Hexes THEN HexOf[Lower(c)] ELSE 16
Digit(c)   == HexOf[c]

UserinfoMarks == Chars("-_.!~*'()%;:&=+$,")
UrlBreaks     == Chars(" \t\r\n\f#?")
Separators    == Chars(" \t\r\n\"(),/:;<=>?@[\\]{}")
Blanks        == Chars(" \r\n\t\f")
ZoneMarks     == Chars("%.-_~")

IsUserinfoChar(c) == IsAlpha(c) \/ IsNum(c) \/ c \in UserinfoMarks
IsUrlChar(c) == c \notin UrlBreaks

\* TOKEN: the character in lower case, or "" if it may not be in a name.
Token(c) == IF c \in Separators THEN "" ELSE Lower(c)

-----------------------------------------------------------------------------
(* URLs, byte by byte.                                                     *)

UrlStates == {"s_req_schema", "s_req_schema_slash", "s_req_schema_slash_slash",
              "s_req_server_start", "s_req_server", "s_req_server_with_at", "s_req_path",
              "s_req_query_string_start", "s_req_query_string",
              "s_req_fragment_start", "s_req_fragment"}

ServerStates == {"s_req_server_start", "s_req_server", "s_req_server_with_at"}
QueryStates  == {"s_req_query_string_start", "s_req_query_string"}

\* States of the URL in which a space or a line end may follow.
UrlEnds == {"s_req_server", "s_req_server_with_at", "s_req_path", "s_req_query_string_start",
            "s_req_query_string", "s_req_fragment_start", "s_req_fragment"}

parse_url_char(s, ch) ==
  CASE ch \in Blanks -> "s_dead"
    [] s = "s_req_spaces_before_url" /\ ch \in {"/", "*"} -> "s_req_path"
    [] s = "s_req_spaces_before_url" /\ IsAlpha(ch) -> "s_req_schema"
    [] s = "s_req_schema" /\ IsAlpha(ch) -> s
    [] s = "s_req_schema" /\ ch = ":" -> "s_req_schema_slash"
    [] s = "s_req_schema_slash" /\ ch = "/" -> "s_req_schema_slash_slash"
    [] s = "s_req_schema_slash_slash" /\ ch = "/" -> "s_req_server_start"
    [] s = "s_req_server_with_at" /\ ch = "@" -> "s_dead"
    [] s \in ServerStates /\ ch = "/" -> "s_req_path"
    [] s \in ServerStates /\ ch = "?" -> "s_req_query_string_start"
    [] s \in ServerStates /\ ch = "@" -> "s_req_server_with_at"
    [] s \in ServerStates /\ (IsUserinfoChar(ch) \/ ch \in {"[", "]"}) -> "s_req_server"
    [] s = "s_req_path" /\ IsUrlChar(ch) -> s
    [] s = "s_req_path" /\ ch = "?" -> "s_req_query_string_start"
    [] s = "s_req_path" /\ ch = "#" -> "s_req_fragment_start"
    [] s \in QueryStates /\ (IsUrlChar(ch) \/ ch = "?") -> "s_req_query_string"
    [] s \in QueryStates /\ ch = "#" -> "s_req_fragment_start"
    [] s = "s_req_fragment_start" /\ (IsUrlChar(ch) \/ ch = "?") -> "s_req_fragment"
    [] s = "s_req_fragment_start" /\ ch = "#" -> s
    [] s = "s_req_fragment" /\ (IsUrlChar(ch) \/ ch \in {"?", "#"}) -> s
    [] OTHER -> "s_dead"

-----------------------------------------------------------------------------
(* http_parser_parse_url.  A result u has the set of fields found, their   *)
(* offsets and lengths, which are 16 bits wide, and the port.              *)

CONSTANT FieldWidth   \* 2^16, scaled

Fields == {"SCHEMA", "HOST", "PORT", "PATH", "QUERY", "FRAGMENT", "USERINFO"}
NoUrl == [set |-> {}, off |-> [f \in Fields |-> 0], len |-> [f \in Fields |-> 0], port |-> 0]

\* Field f starts at the character with index i; or grows by one.
Open(u, f, i) == [u EXCEPT !.set = @ \cup {f}, !.off[f] = (i - 1) % FieldWidth, !.len[f] = 1]
Grow(u, f)    == [u EXCEPT !.len[f] = (@ + 1) % FieldWidth]

IsHostChar(c) == IsAlpha(c) \/ IsNum(c) \/ c \in {".", "-"}
IsZoneChar(c) == IsAlpha(c) \/ IsNum(c) \/ c \in ZoneMarks

http_parse_host_char(s, ch) ==
  CASE s \in {"userinfo", "userinfo_start"} /\ ch = "@" -> "host_start"
    [] s \in {"userinfo", "userinfo_start"} /\ IsUserinfoChar(ch) -> "userinfo"
    [] s = "host_start" /\ ch = "[" -> "host_v6_start"
    [] s \in {"host_start", "host"} /\ IsHostChar(ch) -> "host"
    [] s \in {"host", "host_v6_end"} /\ ch = ":" -> "host_port_start"
    [] s \in {"host_v6", "host_v6_zone"} /\ ch = "]" -> "host_v6_end"
    [] s \in {"host_v6", "host_v6_start"} /\ (Unhex(ch) < 16 \/ ch \in {":", "."}) -> "host_v6"
    [] s = "host_v6" /\ ch = "%" -> "host_v6_zone_start"
    [] s \in {"host_v6_zone", "host_v6_zone_start"} /\ IsZoneChar(ch) -> "host_v6_zone"
    [] s \in {"host_port", "host_port_start"} /\ IsNum(ch) -> "host_port"
    [] OTHER -> "host_dead"

\* The loop of http_parse_host, over characters first..last of buf.  The
\* length of the host is counted anew; its offset moves to where it starts.
HostLoop(buf, u0, first, last, foundAt) ==
  LET To(u, s, old, i) ==
        CASE s \in {"host", "host_v6"} ->
               IF s = old THEN Grow(u, "HOST")
               ELSE [Grow(u, "HOST") EXCEPT !.off["HOST"] = (i - 1) % FieldWidth]
          [] s \in {"host_v6_zone_start", "host_v6_zone"} -> Grow(u, "HOST")
          [] s = "host_port" -> IF s = old THEN Grow(u, "PORT") ELSE Open(u, "PORT", i)
          [] s = "userinfo" -> IF s = old THEN Grow(u, "USERINFO") ELSE Open(u, "USERINFO", i)
          [] OTHER -> u
      Step(v, s, i) == [s |-> s, u |-> To(v.u, s, v.s, i)]
      run[i \in (first - 1)..last] ==
        IF i < first
        THEN [s |-> IF foundAt THEN "userinfo_start" ELSE "host_start",
              u |-> [u0 EXCEPT !.len["HOST"] = 0]]
        ELSE LET v == run[i - 1] IN IF v.s = "host_dead" THEN v
                               ELSE Step(v, http_parse_host_char(v.s, CharAt(buf, i)), i)
  IN  run[last]

\* States in which a host may not end.
HostUnfinished == {"host_start", "host_v6_start", "host_v6", "host_v6_zone_start",
                   "host_v6_zone", "host_port_start", "userinfo", "userinfo_start", "host_dead"}

\* Mutant of http_parse_host: no userinfo is expected before the host.
HostIgnoresAt(buf, u, foundAt) ==
  LET v == HostLoop(buf, u, u.off["HOST"] + 1, u.off["HOST"] + u.len["HOST"], FALSE)
  IN  [ok |-> TRUE, u |-> v.u]

http_parse_host(buf, u, foundAt) ==
  LET Result(v) == [ok |-> v.s \notin HostUnfinished, u |-> v.u]
  IN  Result(HostLoop(buf, u, u.off["HOST"] + 1, u.off["HOST"] + u.len["HOST"], foundAt))

FieldOf == [s_req_schema |-> "SCHEMA", s_req_server_with_at |-> "HOST", s_req_server |-> "HOST",
            s_req_path |-> "PATH", s_req_query_string |-> "QUERY", s_req_fragment |-> "FRAGMENT"]

\* The first loop of http_parser_parse_url: delimiters belong to no field.
UrlLoop(buf, isConnect) ==
  LET Into(v, s, f, i) ==
        [s |-> s, old |-> f, at |-> v.at \/ s = "s_req_server_with_at",
         u |-> IF f = v.old THEN Grow(v.u, f) ELSE Open(v.u, f, i)]
      Step(v, s, i) == IF s \notin DOMAIN FieldOf THEN [v EXCEPT !.s = s] ELSE Into(v, s, FieldOf[s], i)
      run[i \in 0..Len(buf)] ==
        IF i = 0 THEN [s |-> IF isConnect THEN "s_req_server_start" ELSE "s_req_spaces_before_url",
                       old |-> "MAX", at |-> FALSE, u |-> NoUrl]
        ELSE LET v == run[i - 1] IN IF v.s = "s_dead" THEN v
                               ELSE Step(v, parse_url_char(v.s, CharAt(buf, i)), i)
  IN  run[Len(buf)]

PortOf(buf, u) ==
  LET first == u.off["PORT"] + 1
      last  == u.off["PORT"] + u.len["PORT"]
      run[i \in (first - 1)..last] ==
        IF i < first THEN 0
        ELSE LET v == run[i - 1] IN IF v > 65535 THEN v ELSE 10 * v + Digit(CharAt(buf, i))
  IN  run[last]

http_parser_parse_url(buf, isConnect) ==
  LET Ok(v, h, port) ==
        /\ v.s # "s_dead"
        /\ "SCHEMA" \in v.u.set => "HOST" \in v.u.set
        /\ h.ok
        /\ isConnect => h.u.set = {"HOST", "PORT"}
        /\ port <= 65535
      Result(ok, h, port) == [ok |-> ok, u |-> [h.u EXCEPT !.port = IF ok THEN port ELSE 0]]
      Judged(v, h, port) == Result(Ok(v, h, port), h, port)
      WithHost(v, h) == Judged(v, h, IF "PORT" \in h.u.set THEN PortOf(buf, h.u) ELSE 0)
      WithUrl(v) == WithHost(v, IF "HOST" \in v.u.set THEN http_parse_host(buf, v.u, v.at)
                                ELSE [ok |-> TRUE, u |-> v.u])
  IN  WithUrl(UrlLoop(buf, isConnect))

\* The text of field f.
FieldText(buf, u, f) == SubSeq(buf, u.off[f] + 1, u.off[f] + u.len[f])
=============================================================================
