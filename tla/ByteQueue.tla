----------------------------- MODULE ByteQueue ------------------------------
(***************************************************************************)
(* What net/Buffer promises: a queue of bytes that grows at both ends, from *)
(* which bytes and numbers in network byte order are taken.                 *)
(***************************************************************************)
EXTENDS Integers, Sequences

CONSTANTS
  Base,       \* the number of values of a byte (256)
  CR, LF,     \* the bytes of a line's end
  Widths,     \* the sizes of the numbers, in bytes (1, 2, 4, 8)
  Strings,    \* what may be appended
  MaxBytes    \* bound on the bytes queued

VARIABLES
  content,   \* the bytes queued
  out        \* what the last call returned: a sequence of bytes or numbers

vars == <<content, out>>

Value(s) == LET v[i \in 0..Len(s)] == IF i = 0 THEN 0 ELSE v[i - 1] * Base + s[i] IN v[Len(s)]
First(S) == IF S = {} THEN <<>> ELSE <<CHOOSE i \in S : \A j \in S : i <= j>>

AppendBytes(s) == Len(content \o s) <= MaxBytes /\ content' = content \o s /\ out' = <<>>
PrependBytes(s) == Len(content \o s) <= MaxBytes /\ content' = s \o content /\ out' = <<>>
AppendInt == \E w \in Widths : \E s \in [1..w -> 0..(Base - 1)] : AppendBytes(s)
PrependInt == \E w \in Widths : \E s \in [1..w -> 0..(Base - 1)] : PrependBytes(s)
Retrieve == \E n \in 0..Len(content) :
              content' = SubSeq(content, n + 1, Len(content)) /\ out' = SubSeq(content, 1, n)
ReadInt == \E w \in Widths :
             /\ w <= Len(content)
             /\ content' = SubSeq(content, w + 1, Len(content))
             /\ out' = <<Value(SubSeq(content, 1, w))>>
Unwrite == \E n \in 0..Len(content) :
             content' = SubSeq(content, 1, Len(content) - n) /\ out' = <<>>
\* The place of the first line end, counted from the first byte; none if there is none.
FindCRLF == /\ out' = First({i \in 0..(Len(content) - 2) : content[i + 1] = CR /\ content[i + 2] = LF})
            /\ UNCHANGED content
FindEOL == out' = First({i \in 0..(Len(content) - 1) : content[i + 1] = LF}) /\ UNCHANGED content
Shrink == UNCHANGED content /\ out' = <<>>

Init == content = <<>> /\ out = <<>>
Next == \/ \E s \in Strings : AppendBytes(s)
        \/ AppendInt \/ PrependInt \/ Retrieve \/ ReadInt \/ Unwrite \/ FindCRLF \/ FindEOL \/ Shrink
Spec == Init /\ [][Next]_vars
=============================================================================
