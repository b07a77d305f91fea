----------------------------- MODULE StringOps -----------------------------
(***************************************************************************)
(* Character classes (base/Ascii) and the string helpers of base/String.h. *)
(*                                                                         *)
(* Strings are TLA+ strings over the characters that have a code below.    *)
(* Positions are those of the code, from 0; None is npos.                  *)
(***************************************************************************)
EXTENDS Integers, Sequences

CONSTANT None

Char(s, i) == SubSeq(s, i, i)

-----------------------------------------------------------------------------
(* Ascii.                                                                  *)

\* The characters of codes 32 to 95, and of 97 to 126.
Low  == " !\"#$%&'()*+,-./0123456789:;<=>?@ABCDEFGHIJKLMNOPQRSTUVWXYZ[\\]^_"
High == "abcdefghijklmnopqrstuvwxyz{|}~"
Control == <<"\t", "\n", "", "\f", "\r">>
In(table, c) == CHOOSE i \in 0..Len(table) : IF i = 0 THEN \A j \in 1..Len(table) : Char(table, j) # c
                                             ELSE Char(table, i) = c
Coded == {Char(Low, i) : i \in 1..Len(Low)} \cup {Char(High, i) : i \in 1..Len(High)}
         \cup {"\t", "\n", "\f", "\r"}
CodeOf == [c \in Coded |->
             CASE c \in {"\t", "\n", "\f", "\r"} -> 8 + CHOOSE i \in 1..5 : Control[i] = c
               [] In(Low, c) > 0 -> 31 + In(Low, c)
               [] OTHER -> 96 + In(High, c)]
CharOf(n) == CASE n < 32 -> Control[n - 8] [] n \in 32..95 -> Char(Low, n - 31)
               [] n > 96 -> Char(High, n - 96)

Classes == {"CONTROL", "SPACE", "PUNCT", "DIGIT", "HEXDIGIT", "ALPHA", "LOWER", "UPPER",
            "GRAPH", "PRINT"}
InClass ==
  [ CONTROL |-> (0..31) \cup {127}, SPACE |-> (9..13) \cup {32},
    PUNCT |-> (33..47) \cup (58..64) \cup (91..96) \cup (123..126),
    DIGIT |-> 48..57, HEXDIGIT |-> (48..57) \cup (65..70) \cup (97..102),
    ALPHA |-> (65..90) \cup (97..122), LOWER |-> 97..122, UPPER |-> 65..90,
    GRAPH |-> 33..126, PRINT |-> 32..126 ]

properties(ch) == {p \in Classes : ch \in InClass[p]}
hasProperties(ch, p) == p \subseteq properties(ch)
hasSomeProperties(ch, p) == p \cap properties(ch) # {}

isSpace(c) == hasProperties(CodeOf[c], {"SPACE"})
isAlphaNumeric(c) == hasSomeProperties(CodeOf[c], {"ALPHA", "DIGIT"})
ToLowerCode(ch) == IF hasProperties(ch, {"UPPER"}) THEN ch + 32 ELSE ch
ToUpperCode(ch) == IF hasProperties(ch, {"LOWER"}) THEN ch - 32 ELSE ch
LowerCode == [c \in Coded |-> ToLowerCode(CodeOf[c])]
UpperCode == [c \in Coded |-> ToUpperCode(CodeOf[c])]
Spaces == {c \in Coded : isSpace(c)}

\* f applied to every character of s.
Each(f, s) == LET run[i \in 0..Len(s)] ==
                    IF i = 0 THEN "" ELSE LET r == run[i - 1] IN r \o CharOf(f[Char(s, i)])
              IN  run[Len(s)]

toLower(s) == Each(LowerCode, s)
toUpper(s) == Each(UpperCode, s)

-----------------------------------------------------------------------------
(* Trimming.                                                               *)

\* Which characters of s are spaces, and how many of them s begins and ends with.
Blank(s) == [i \in 1..Len(s) |-> Char(s, i) \in Spaces]
LeadingIn(b) == CHOOSE n \in 0..Len(b) : (\A i \in 1..n : b[i]) /\ (n = Len(b) \/ ~b[n + 1])
TrailingIn(b) == CHOOSE n \in 0..Len(b) :
                   (\A i \in (Len(b) - n + 1)..Len(b) : b[i]) /\ (n = Len(b) \/ ~b[Len(b) - n])
Leading(s)  == LeadingIn(Blank(s))
Trailing(s) == TrailingIn(Blank(s))

trimLeft(s)  == SubSeq(s, Leading(s) + 1, Len(s))
trimRight(s) == SubSeq(s, 1, Len(s) - Trailing(s))

\* The second loop stops where the first one did.
TrimAt(s, first, trailing) ==
  SubSeq(s, first + 1, IF first = Len(s) THEN Len(s) ELSE Len(s) - trailing)
trim(s) == TrimAt(s, Leading(s), Trailing(s))

-----------------------------------------------------------------------------
(* Comparing without regard to case.                                       *)

Lowered(s) == [i \in 1..Len(s) |-> LowerCode[Char(s, i)]]

\* The loop of icompare: the first place where the two differ decides.
CompareCodes(a, b) ==
  LET n == IF Len(a) < Len(b) THEN Len(a) ELSE Len(b)
      D == {i \in 1..n : a[i] # b[i]}
      d == CHOOSE i \in D : \A j \in D : i <= j
  IN  IF D # {} THEN (IF a[d] < b[d] THEN -1 ELSE 1)
      ELSE IF Len(a) = n THEN (IF Len(b) = n THEN 0 ELSE -1) ELSE 1
Compare(a, b) == CompareCodes(Lowered(a), Lowered(b))

\* The characters place .. place + n - 1 of s, place and n cut to its size.
Span(s, place, n) == LET sz == Len(s)
                       p  == IF place > sz THEN sz ELSE place
                       m  == IF p + n > sz THEN sz - p ELSE n
                   IN  SubSeq(s, p + 1, p + m)

icompare(s, place, n, t)             == Compare(Span(s, place, n), t)
icompareSpans(s, p1, n1, t, p2, n2) == icompare(s, p1, n1, Span(t, p2, n2))
icompareFirst(s, n, t) == LET m == IF n > Len(t) THEN Len(t) ELSE n
                          IN  icompare(s, 0, m, SubSeq(t, 1, m))
CILess(s, t) == Compare(s, t) < 0

-----------------------------------------------------------------------------
(* Searching, replacing, splitting.                                        *)

SameCaseless(a, b) == Lowered(a) = Lowered(b)

\* The first position from begin at which a string that Same holds for.
Earliest(P) == IF P = {} THEN None ELSE CHOOSE p \in P : \A q \in P : p <= q
First(s, sought, begin, Same(_, _)) ==
  Earliest({p \in begin..(Len(s) - Len(sought)) : Same(SubSeq(s, p + 1, p + Len(sought)), sought)})

find(s, sought, begin) == First(s, sought, begin, LAMBDA a, b : a = b)
isubstr(s, sought) == IF s = "" THEN None ELSE First(s, sought, 0, SameCaseless)

translate(s, from, to) ==
  LET run[i \in 0..Len(s)] ==
        IF i = 0 THEN ""
        ELSE LET r   == run[i - 1]
                 place == find(from, Char(s, i), 0)
             IN  CASE place = None -> r \o Char(s, i)
                   [] place # None /\ place < Len(to) -> r \o Char(to, place + 1)
                   [] OTHER -> r
  IN  run[Len(s)]

\* The loop over the matches from begin on; run[i] is what it appends from i.
replaceInPlace(s, from, to, begin) ==
  LET run[i \in begin..Len(s)] ==
        LET place == find(s, from, i)
        IN  IF place = None THEN SubSeq(s, i + 1, Len(s))
            ELSE LET r == run[place + Len(from)] IN SubSeq(s, i + 1, place) \o to \o r
  IN  SubSeq(s, 1, begin) \o run[begin]

\* One character for another, or for none if to is the null character.
replaceChar(s, from, to, begin) ==
  IF from = to THEN s
  ELSE LET run[i \in begin..Len(s)] ==
             LET place == find(s, from, i)
             IN  IF place = None THEN SubSeq(s, i + 1, Len(s))
                 ELSE LET r == run[place + 1] IN SubSeq(s, i + 1, place) \o to \o r
       IN  SubSeq(s, 1, begin) \o run[begin]

remove(s, ch, begin) == replaceChar(s, ch, "", begin)

\* cat with a delimiter: none is put before the first text that is not empty.
cat(delim, parts) ==
  LET run[i \in 0..Len(parts)] ==
        IF i = 0 THEN ""
        ELSE LET r == run[i - 1] IN (IF r = "" THEN "" ELSE r \o delim) \o parts[i]
  IN  run[Len(parts)]

\* run[i]: the values found in what is left of the string after i characters.
split(s, delim, empty) ==
  LET Kept(value) == IF value # "" \/ empty THEN <<value>> ELSE <<>>
      run[i \in 0..Len(s)] ==
        LET Cut(str, place) ==
              IF place = None THEN Kept(str)
              ELSE LET r == run[i + place + Len(delim)] IN Kept(SubSeq(str, 1, place)) \o r
        IN  Cut(SubSeq(s, i + 1, Len(s)), isubstr(SubSeq(s, i + 1, Len(s)), delim))
  IN  run[0]
=============================================================================
