--------------------------- MODULE PipelineProofs ---------------------------
(***************************************************************************)
(* TLAPS proofs about Pipeline, for every value of its constants: first     *)
(* what its steps do to sequences of rows, batches and chunks (which rows   *)
(* they hold, and that they ascend), then its types, its shutdown and what  *)
(* is due between chunks.                                                   *)
(***************************************************************************)
EXTENDS Pipeline, SequenceTheorems, TLAPS

-----------------------------------------------------------------------------
\* Lemmas about sequences of rows.

\* A concatenation has the elements of both sequences, and is ascending when both
\* are and the first is before the second.
LEMMA ConcatAscending ==
  ASSUME NEW s \in Seq(Nat), NEW t \in Seq(Nat)
  PROVE  /\ Elems(s \o t) = Elems(s) \cup Elems(t)
         /\ Ascending(s) /\ Ascending(t) /\ Before(Elems(s), Elems(t)) => Ascending(s \o t)
<1> DEFINE u == s \o t
<1>1. /\ DOMAIN s = 1 .. Len(s) /\ DOMAIN t = 1 .. Len(t)
      /\ Len(s) \in Nat /\ Len(t) \in Nat
      /\ DOMAIN u = 1 .. Len(s) + Len(t)
      /\ \A i \in 1 .. Len(s) : u[i] = s[i]
      /\ \A i \in 1 .. Len(t) : u[Len(s) + i] = t[i]
      /\ \A i \in DOMAIN u : i > Len(s) => u[i] = t[i - Len(s)] /\ i - Len(s) \in DOMAIN t
  OBVIOUS
<1> HIDE DEF u
<1>2. ASSUME NEW x \in Elems(u) PROVE x \in Elems(s) \cup Elems(t)
  <2>1. PICK i \in DOMAIN u : x = u[i]
    BY <1>2 DEF Elems
  <2>2. CASE i <= Len(s)
    BY <1>1, <2>1, <2>2 DEF Elems
  <2>3. CASE i > Len(s)
    BY <1>1, <2>1, <2>3 DEF Elems
  <2> QED
    BY <1>1, <2>2, <2>3
<1>3. ASSUME NEW x \in Elems(s) PROVE x \in Elems(u)
  BY <1>1, <1>3 DEF Elems
<1>4. ASSUME NEW x \in Elems(t) PROVE x \in Elems(u)
  <2>1. PICK i \in DOMAIN t : x = t[i]
    BY <1>4 DEF Elems
  <2>2. Len(s) + i \in DOMAIN u /\ u[Len(s) + i] = x
    BY <1>1, <2>1
  <2> QED
    BY <2>2 DEF Elems
<1>5. ASSUME Ascending(s), Ascending(t), Before(Elems(s), Elems(t)) PROVE Ascending(u)
  <2> SUFFICES ASSUME NEW i \in DOMAIN u, NEW j \in DOMAIN u, i < j
               PROVE  u[i] < u[j]
    BY DEF Ascending
  <2>0. i \in Nat /\ j \in Nat
    BY <1>1
  <2>1. CASE j <= Len(s)
    <3>1. i \in DOMAIN s /\ j \in DOMAIN s /\ u[i] = s[i] /\ u[j] = s[j]
      BY <1>1, <2>0, <2>1
    <3> QED
      BY <3>1, <1>5 DEF Ascending
  <2>2. CASE i > Len(s)
    <3>1. i - Len(s) \in DOMAIN t /\ j - Len(s) \in DOMAIN t /\ i - Len(s) < j - Len(s)
      BY <1>1, <2>2
    <3>2. u[i] = t[i - Len(s)] /\ u[j] = t[j - Len(s)]
      BY <1>1, <2>2
    <3> QED
      BY <3>1, <3>2, <1>5 DEF Ascending
  <2>3. CASE i <= Len(s) /\ j > Len(s)
    <3>1. u[i] \in Elems(s) /\ u[j] \in Elems(t)
      BY <1>1, <2>3 DEF Elems
    <3> QED
      BY <3>1, <1>5 DEF Before
  <2> QED
    BY <1>1, <2>1, <2>2, <2>3
<1> QED
  BY <1>2, <1>3, <1>4, <1>5 DEF u

\* Cutting an ascending sequence after n elements: writeBatch submits the first part.
LEMMA CutAscending ==
  ASSUME NEW s \in Seq(Nat), Ascending(s), NEW n \in Nat, n <= Len(s)
  PROVE  LET p == SubSeq(s, 1, n)
             q == SubSeq(s, n + 1, Len(s))
         IN  /\ p \in Seq(Nat) /\ q \in Seq(Nat)
             /\ Elems(s) = Elems(p) \cup Elems(q)
             /\ Ascending(p) /\ Ascending(q)
             /\ Before(Elems(p), Elems(q))
             /\ n > 0 => s[n] \in Elems(p) /\ \A a \in Elems(p) : a <= s[n]
<1> DEFINE p == SubSeq(s, 1, n)
           q == SubSeq(s, n + 1, Len(s))
<1>1. /\ p \in Seq(Nat) /\ q \in Seq(Nat)
      /\ DOMAIN s = 1 .. Len(s) /\ Len(s) \in Nat
      /\ DOMAIN p = 1 .. n
      /\ DOMAIN q = 1 .. Len(s) - n
      /\ \A i \in 1 .. n : p[i] = s[i]
      /\ \A i \in 1 .. Len(s) - n : q[i] = s[n + i]
      /\ \A i \in DOMAIN s : s[i] \in Nat
  OBVIOUS
<1> HIDE DEF p, q
<1>2. ASSUME NEW x \in Elems(s) PROVE x \in Elems(p) \cup Elems(q)
  <2>1. PICK i \in DOMAIN s : x = s[i]
    BY <1>2 DEF Elems
  <2>2. CASE i <= n
    BY <1>1, <2>1, <2>2 DEF Elems
  <2>3. CASE i > n
    <3>1. i - n \in DOMAIN q /\ q[i - n] = x
      BY <1>1, <2>1, <2>3
    <3> QED
      BY <3>1 DEF Elems
  <2> QED
    BY <1>1, <2>2, <2>3
<1>3. ASSUME NEW x \in Elems(p) PROVE \E i \in DOMAIN s : i <= n /\ s[i] = x
  BY <1>1, <1>3 DEF Elems
<1>4. ASSUME NEW x \in Elems(q) PROVE \E i \in DOMAIN s : i > n /\ s[i] = x
  <2>1. PICK i \in DOMAIN q : x = q[i]
    BY <1>4 DEF Elems
  <2>2. n + i \in DOMAIN s /\ n + i > n /\ s[n + i] = x
    BY <1>1, <2>1, SMTT(30)
  <2> QED
    BY <2>2
<1>5. Ascending(p)
  BY <1>1 DEF Ascending
<1>6. Ascending(q)
  <2> SUFFICES ASSUME NEW i \in DOMAIN q, NEW j \in DOMAIN q, i < j
               PROVE  q[i] < q[j]
    BY DEF Ascending
  <2>1. i \in 1 .. Len(s) - n /\ j \in 1 .. Len(s) - n
    BY <1>1
  <2>2. Len(s) \in Nat /\ DOMAIN s = 1 .. Len(s)
    BY <1>1
  <2>3. i \in Int /\ j \in Int /\ 1 <= i /\ i <= Len(s) - n /\ 1 <= j /\ j <= Len(s) - n
    BY <2>1, <2>2
  <2>4. n + i \in DOMAIN s /\ n + j \in DOMAIN s /\ n + i < n + j
    BY <2>2, <2>3
  <2>5. q[i] = s[n + i] /\ q[j] = s[n + j]
    BY <1>1, Zenon
  <2> QED
    BY <2>4, <2>5 DEF Ascending
<1>7. Before(Elems(p), Elems(q))
  <2> SUFFICES ASSUME NEW a \in Elems(p), NEW b \in Elems(q)
               PROVE  a < b
    BY DEF Before
  <2>1. PICK i \in DOMAIN s : i <= n /\ s[i] = a
    BY <1>3
  <2>2. PICK j \in DOMAIN s : j > n /\ s[j] = b
    BY <1>4
  <2>3. i < j
    BY <1>1, <2>1, <2>2
  <2> QED
    BY <2>1, <2>2, <2>3 DEF Ascending
<1>8. ASSUME n > 0 PROVE s[n] \in Elems(p) /\ \A a \in Elems(p) : a <= s[n]
  <2>1. n \in DOMAIN p /\ p[n] = s[n]
    BY <1>1, <1>8
  <2>2. ASSUME NEW a \in Elems(p) PROVE a <= s[n]
    <3>1. PICK i \in DOMAIN s : i <= n /\ s[i] = a
      BY <1>3
    <3>2. CASE i = n
      BY <1>1, <3>1, <3>2
    <3>3. CASE i < n
      <4>1. n \in DOMAIN s /\ s[i] \in Nat /\ s[n] \in Nat
        BY <1>1, <1>8
      <4>2. s[i] < s[n]
        BY <3>3, <4>1 DEF Ascending
      <4> QED
        BY <3>1, <4>1, <4>2
    <3> QED
      BY <1>1, <3>1, <3>2, <3>3
  <2> QED
    BY <2>1, <2>2 DEF Elems
<1>9. Elems(s) = Elems(p) \cup Elems(q)
  BY <1>2, <1>3, <1>4, Zenon DEF Elems
<1> QED
  BY <1>1, <1>5, <1>6, <1>7, <1>8, <1>9 DEF p, q

\* The indices of a sequence with one element more, and of a tail.
LEMMA AppendIndices ==
  ASSUME NEW T, NEW q \in Seq(T), NEW b \in T
  PROVE  /\ Append(q, b) \in Seq(T)
         /\ \A i \in DOMAIN Append(q, b) :
              (i \in DOMAIN q /\ Append(q, b)[i] = q[i]) \/ (i = Len(q) + 1 /\ Append(q, b)[i] = b)
         /\ \A i \in DOMAIN q : i \in DOMAIN Append(q, b) /\ Append(q, b)[i] = q[i]
         /\ Len(q) + 1 \in DOMAIN Append(q, b) /\ Append(q, b)[Len(q) + 1] = b
         /\ \A i, j \in DOMAIN Append(q, b) : i < j => i \in DOMAIN q
<1> DEFINE u == Append(q, b)
           n == Len(q)
<1>1. /\ u \in Seq(T)
      /\ DOMAIN q = 1 .. n /\ n \in Nat /\ DOMAIN u = 1 .. n + 1
      /\ \A i \in 1 .. n : u[i] = q[i]
      /\ u[n + 1] = b
  OBVIOUS
<1> HIDE DEF u, n
<1>2. n \in Nat /\ DOMAIN q = 1 .. n /\ DOMAIN u = 1 .. n + 1
  BY <1>1
<1>3. ASSUME NEW i \in DOMAIN u PROVE i \in DOMAIN q \/ i = n + 1
  BY <1>2
<1>4. n + 1 \in DOMAIN u
  BY <1>2
<1>5. ASSUME NEW i \in DOMAIN q PROVE i \in DOMAIN u
  BY <1>2
<1>6. ASSUME NEW i \in DOMAIN u, NEW j \in DOMAIN u, i < j PROVE i \in DOMAIN q
  BY <1>2, <1>6
<1>7. \A i \in DOMAIN q : u[i] = q[i]
  BY <1>1
<1>8. u[n + 1] = b
  BY <1>1
<1>9. u \in Seq(T)
  BY <1>1
<1> QED
  BY <1>3, <1>4, <1>5, <1>6, <1>7, <1>8, <1>9 DEF u, n

\* What is at which index of two sequences in a row.
LEMMA ConcatIndices ==
  ASSUME NEW T, NEW q \in Seq(T), NEW r \in Seq(T), NEW u, u = q \o r,
         NEW k, NEW n, k = Len(q), n = Len(r)
  PROVE  /\ DOMAIN q = 1 .. k /\ DOMAIN u = 1 .. k + n
         /\ \A i \in 1 .. k : u[i] = q[i]
         /\ \A i \in 1 .. n : u[k + i] = r[i]
         /\ \A i \in 1 .. k + n : i > k => i - k \in 1 .. n /\ u[i] = r[i - k] /\ k + (i - k) = i
  OBVIOUS

\* What is at which index once the first element is taken.
LEMMA TailIndices ==
  ASSUME NEW T, NEW q \in Seq(T), q # <<>>
  PROVE  /\ Head(q) \in T /\ Tail(q) \in Seq(T)
         /\ 1 \in DOMAIN q /\ q[1] = Head(q)
         /\ \A i \in DOMAIN Tail(q) : i + 1 \in DOMAIN q /\ 1 < i + 1 /\ Tail(q)[i] = q[i + 1]
         /\ \A i \in DOMAIN q : i = 1 \/ (i - 1 \in DOMAIN Tail(q) /\ Tail(q)[i - 1] = q[i])
         /\ \A i, j \in DOMAIN Tail(q) : i < j => i + 1 < j + 1
<1> DEFINE u == Tail(q)
           n == Len(q)
<1>1. /\ u \in Seq(T) /\ Head(q) \in T /\ Head(q) = q[1]
      /\ DOMAIN q = 1 .. n /\ n \in Nat \ {0} /\ DOMAIN u = 1 .. n - 1
      /\ \A i \in 1 .. n - 1 : u[i] = q[i + 1]
  OBVIOUS
<1> HIDE DEF u, n
<1>2. n \in Nat /\ n > 0 /\ DOMAIN q = 1 .. n /\ DOMAIN u = 1 .. n - 1
  BY <1>1
<1>3. 1 \in DOMAIN q /\ q[1] = Head(q)
  BY <1>1, <1>2
<1>4. ASSUME NEW i \in DOMAIN u PROVE i + 1 \in DOMAIN q /\ 1 < i + 1 /\ u[i] = q[i + 1]
  <2>1. i \in Int /\ 1 <= i /\ i <= n - 1
    BY <1>2
  <2>2. i + 1 \in DOMAIN q /\ 1 < i + 1
    BY <1>2, <2>1
  <2>3. u[i] = q[i + 1]
    BY <1>1
  <2> QED
    BY <2>2, <2>3
<1>5. ASSUME NEW i \in DOMAIN q, i # 1 PROVE i - 1 \in DOMAIN u /\ u[i - 1] = q[i]
  <2>1. i \in Int /\ 1 <= i /\ i <= n
    BY <1>2
  <2>2. i - 1 \in 1 .. n - 1 /\ (i - 1) + 1 = i
    BY <1>2, <1>5, <2>1
  <2>3. u[i - 1] = q[(i - 1) + 1]
    BY <1>1, <2>2
  <2> QED
    BY <1>2, <2>2, <2>3
<1>6. ASSUME NEW i \in DOMAIN u, NEW j \in DOMAIN u, i < j PROVE i + 1 < j + 1
  BY <1>2, <1>6
<1> QED
  BY <1>1, <1>3, <1>4, <1>5, <1>6 DEF u

\* A larger number behind ascending ones.
LEMMA AppendAscending ==
  ASSUME NEW s \in Seq(Nat), NEW x \in Nat, Ascending(s), Before(Elems(s), {x})
  PROVE  Ascending(Append(s, x))
<1> DEFINE u == Append(s, x)
<1>1. /\ \A i \in DOMAIN u : (i \in DOMAIN s /\ u[i] = s[i]) \/ (i = Len(s) + 1 /\ u[i] = x)
      /\ \A i \in DOMAIN s : u[i] = s[i]
      /\ \A i, j \in DOMAIN u : i < j => i \in DOMAIN s
  BY AppendIndices
<1> HIDE DEF u
<1>2. ASSUME NEW i \in DOMAIN u, NEW j \in DOMAIN u, i < j PROVE u[i] < u[j]
  <2>1. i \in DOMAIN s /\ u[i] = s[i]
    BY <1>1, <1>2
  <2>2. CASE j \in DOMAIN s /\ u[j] = s[j]
    BY <1>2, <2>1, <2>2 DEF Ascending
  <2>3. CASE u[j] = x
    BY <2>1, <2>3 DEF Before, Elems
  <2> QED
    BY <1>1, <2>2, <2>3
<1> QED
  BY <1>2 DEF Ascending, u

-----------------------------------------------------------------------------
\* Lemmas about the queues.

\* The rows of d in the batch b.
RowsIn(b, d) == IF b.dev = d THEN Elems(b.rows) ELSE {}

\* Enqueuing a batch behind older rows of its device.
LEMMA QueueAppend ==
  ASSUME NEW q \in Seq(Batch), NEW b \in Batch
  PROVE  /\ \A d : QueueRows(Append(q, b), d) = QueueRows(q, d) \cup RowsIn(b, d)
         /\ QueueAscending(q) /\ Ascending(b.rows)
              /\ Before(QueueRows(q, b.dev), Elems(b.rows)) => QueueAscending(Append(q, b))
<1> DEFINE u == Append(q, b)
<1>1. /\ \A i \in DOMAIN u : (i \in DOMAIN q /\ u[i] = q[i]) \/ (i = Len(q) + 1 /\ u[i] = b)
      /\ \A i \in DOMAIN q : i \in DOMAIN u /\ u[i] = q[i]
      /\ Len(q) + 1 \in DOMAIN u /\ u[Len(q) + 1] = b
      /\ \A i, j \in DOMAIN u : i < j => i \in DOMAIN q
  BY AppendIndices
<1> HIDE DEF u
<1>3. ASSUME NEW d PROVE QueueRows(u, d) = QueueRows(q, d) \cup RowsIn(b, d)
  <2>1. ASSUME NEW x \in QueueRows(u, d) PROVE x \in QueueRows(q, d) \cup RowsIn(b, d)
    <3>1. PICK i \in DOMAIN u : u[i].dev = d /\ x \in Elems(u[i].rows)
      BY <2>1 DEF QueueRows
    <3> QED
      BY <1>1, <3>1 DEF QueueRows, RowsIn
  <2>2. ASSUME NEW x \in QueueRows(q, d) PROVE x \in QueueRows(u, d)
    <3>1. PICK i \in DOMAIN q : q[i].dev = d /\ x \in Elems(q[i].rows)
      BY <2>2 DEF QueueRows
    <3> QED
      BY <1>1, <3>1 DEF QueueRows
  <2>3. ASSUME NEW x \in RowsIn(b, d) PROVE x \in QueueRows(u, d)
    BY <1>1, <2>3 DEF QueueRows, RowsIn
  <2> QED
    BY <2>1, <2>2, <2>3
<1>4. ASSUME QueueAscending(q), Ascending(b.rows), Before(QueueRows(q, b.dev), Elems(b.rows))
      PROVE  QueueAscending(u)
  <2>1. \A i \in DOMAIN u : Ascending(u[i].rows)
    BY <1>1, <1>4 DEF QueueAscending
  <2>2. ASSUME NEW i \in DOMAIN u, NEW j \in DOMAIN u, i < j, u[i].dev = u[j].dev
        PROVE  Before(Elems(u[i].rows), Elems(u[j].rows))
    <3>1. i \in DOMAIN q /\ u[i] = q[i]
      BY <1>1, <2>2
    <3>2. CASE j \in DOMAIN q /\ u[j] = q[j]
      BY <1>4, <2>2, <3>1, <3>2 DEF QueueAscending
    <3>3. CASE u[j] = b
      <4>1. \A x \in Elems(u[i].rows) : x \in QueueRows(q, b.dev)
        BY <2>2, <3>1, <3>3 DEF QueueRows
      <4> QED
        BY <1>4, <3>3, <4>1 DEF Before
    <3> QED
      BY <1>1, <3>2, <3>3
  <2> QED
    BY <2>1, <2>2 DEF QueueAscending
<1> QED
  BY <1>3, <1>4 DEF u

\* Dequeuing the oldest batch of an ordered queue.
LEMMA QueueTake ==
  ASSUME NEW q \in Seq(Batch), q # <<>>, QueueAscending(q)
  PROVE  /\ Ascending(Head(q).rows)
         /\ QueueAscending(Tail(q))
         /\ \A d : /\ QueueRows(q, d) = RowsIn(Head(q), d) \cup QueueRows(Tail(q), d)
                   /\ Before(RowsIn(Head(q), d), QueueRows(Tail(q), d))
<1> DEFINE b == Head(q)
           u == Tail(q)
<1>1. /\ 1 \in DOMAIN q /\ q[1] = b
      /\ \A i \in DOMAIN u : i + 1 \in DOMAIN q /\ 1 < i + 1 /\ u[i] = q[i + 1]
      /\ \A i \in DOMAIN q : i = 1 \/ (i - 1 \in DOMAIN u /\ u[i - 1] = q[i])
      /\ \A i, j \in DOMAIN u : i < j => i + 1 < j + 1
  BY TailIndices
<1> HIDE DEF b, u
<1>2. Ascending(b.rows)
  BY <1>1 DEF QueueAscending
<1>3. QueueAscending(u)
  <2>1. \A i \in DOMAIN u : Ascending(u[i].rows)
    BY <1>1 DEF QueueAscending
  <2>2. ASSUME NEW i \in DOMAIN u, NEW j \in DOMAIN u, i < j, u[i].dev = u[j].dev
        PROVE  Before(Elems(u[i].rows), Elems(u[j].rows))
    <3>1. /\ i + 1 \in DOMAIN q /\ j + 1 \in DOMAIN q /\ i + 1 < j + 1
          /\ u[i] = q[i + 1] /\ u[j] = q[j + 1]
      BY <1>1, <2>2
    <3> QED
      BY <2>2, <3>1 DEF QueueAscending
  <2> QED
    BY <2>1, <2>2 DEF QueueAscending
<1>4. ASSUME NEW d, NEW x \in QueueRows(u, d)
      PROVE  \E i \in DOMAIN q : 1 < i /\ q[i].dev = d /\ x \in Elems(q[i].rows)
  <2>1. PICK i \in DOMAIN u : u[i].dev = d /\ x \in Elems(u[i].rows)
    BY <1>4 DEF QueueRows
  <2> QED
    BY <1>1, <2>1
<1>5. ASSUME NEW d PROVE QueueRows(q, d) = RowsIn(b, d) \cup QueueRows(u, d)
  <2>1. ASSUME NEW x \in QueueRows(q, d) PROVE x \in RowsIn(b, d) \cup QueueRows(u, d)
    <3>1. PICK i \in DOMAIN q : q[i].dev = d /\ x \in Elems(q[i].rows)
      BY <2>1 DEF QueueRows
    <3> QED
      BY <1>1, <3>1 DEF QueueRows, RowsIn
  <2>2. ASSUME NEW x \in RowsIn(b, d) PROVE x \in QueueRows(q, d)
    BY <1>1, <2>2 DEF QueueRows, RowsIn
  <2>3. ASSUME NEW x \in QueueRows(u, d) PROVE x \in QueueRows(q, d)
    <3>1. PICK i \in DOMAIN q : q[i].dev = d /\ x \in Elems(q[i].rows)
      BY <1>4, <2>3
    <3> QED
      BY <3>1 DEF QueueRows
  <2> QED
    BY <2>1, <2>2, <2>3
<1>6. ASSUME NEW d PROVE Before(RowsIn(b, d), QueueRows(u, d))
  <2> SUFFICES ASSUME NEW x \in RowsIn(b, d), NEW y \in QueueRows(u, d)
               PROVE  x < y
    BY DEF Before
  <2>1. b.dev = d /\ x \in Elems(q[1].rows)
    BY <1>1 DEF RowsIn
  <2>2. PICK i \in DOMAIN q : 1 < i /\ q[i].dev = d /\ y \in Elems(q[i].rows)
    BY <1>4
  <2> QED
    BY <1>1, <2>1, <2>2 DEF QueueAscending, Before
<1> QED
  BY <1>2, <1>3, <1>5, <1>6 DEF b, u

\* The row r, if it is of d.
RowIf(r, d) == IF r.dev = d THEN {r.seq} ELSE {}

\* The decoder takes the first row of a chunk.
LEMMA ChunkTake ==
  ASSUME NEW c \in Seq(Row), c # <<>>, RowsAscending(c)
  PROVE  /\ RowsAscending(Tail(c))
         /\ \A d : /\ RowsOfDevice(c, d) = RowIf(Head(c), d) \cup RowsOfDevice(Tail(c), d)
                   /\ Before(RowIf(Head(c), d), RowsOfDevice(Tail(c), d))
<1> DEFINE r == Head(c)
           u == Tail(c)
<1>1. /\ 1 \in DOMAIN c /\ c[1] = r
      /\ \A i \in DOMAIN u : i + 1 \in DOMAIN c /\ 1 < i + 1 /\ u[i] = c[i + 1]
      /\ \A i \in DOMAIN c : i = 1 \/ (i - 1 \in DOMAIN u /\ u[i - 1] = c[i])
      /\ \A i, j \in DOMAIN u : i < j => i + 1 < j + 1
  BY TailIndices
<1> HIDE DEF r, u
<1>2. RowsAscending(u)
  <2> SUFFICES ASSUME NEW i \in DOMAIN u, NEW j \in DOMAIN u, i < j
               PROVE  u[i].seq < u[j].seq
    BY DEF RowsAscending
  <2>1. /\ i + 1 \in DOMAIN c /\ j + 1 \in DOMAIN c /\ i + 1 < j + 1
        /\ u[i] = c[i + 1] /\ u[j] = c[j + 1]
    BY <1>1
  <2> QED
    BY <2>1 DEF RowsAscending
<1>3. ASSUME NEW d PROVE RowsOfDevice(c, d) = RowIf(r, d) \cup RowsOfDevice(u, d)
  <2>1. ASSUME NEW x \in RowsOfDevice(c, d) PROVE x \in RowIf(r, d) \cup RowsOfDevice(u, d)
    <3>1. PICK i \in DOMAIN c : c[i].dev = d /\ c[i].seq = x
      BY <2>1 DEF RowsOfDevice
    <3> QED
      BY <1>1, <3>1 DEF RowsOfDevice, RowIf
  <2>2. ASSUME NEW x \in RowIf(r, d) PROVE x \in RowsOfDevice(c, d)
    BY <1>1, <2>2 DEF RowsOfDevice, RowIf
  <2>3. ASSUME NEW x \in RowsOfDevice(u, d) PROVE x \in RowsOfDevice(c, d)
    BY <1>1, <2>3 DEF RowsOfDevice
  <2> QED
    BY <2>1, <2>2, <2>3
<1>4. ASSUME NEW d PROVE Before(RowIf(r, d), RowsOfDevice(u, d))
  <2> SUFFICES ASSUME NEW x \in RowIf(r, d), NEW y \in RowsOfDevice(u, d)
               PROVE  x < y
    BY DEF Before
  <2>1. x = c[1].seq
    BY <1>1 DEF RowIf
  <2>2. PICK i \in DOMAIN u : u[i].seq = y
    BY DEF RowsOfDevice
  <2> QED
    BY <1>1, <2>1, <2>2 DEF RowsAscending
<1> QED
  BY <1>2, <1>3, <1>4 DEF r, u

\* The parser takes the first chunk.
LEMMA ChunksTake ==
  ASSUME NEW q \in Seq(Seq(Row)), q # <<>>, ChunksAscending(q)
  PROVE  /\ RowsAscending(Head(q))
         /\ ChunksAscending(Tail(q))
         /\ \A d : /\ ChunksRows(q, d) = RowsOfDevice(Head(q), d) \cup ChunksRows(Tail(q), d)
                   /\ Before(RowsOfDevice(Head(q), d), ChunksRows(Tail(q), d))
<1> DEFINE c == Head(q)
           u == Tail(q)
<1>1. /\ 1 \in DOMAIN q /\ q[1] = c
      /\ \A i \in DOMAIN u : i + 1 \in DOMAIN q /\ 1 < i + 1 /\ u[i] = q[i + 1]
      /\ \A i \in DOMAIN q : i = 1 \/ (i - 1 \in DOMAIN u /\ u[i - 1] = q[i])
      /\ \A i, j \in DOMAIN u : i < j => i + 1 < j + 1
  BY TailIndices
<1> HIDE DEF c, u
<1>2. RowsAscending(c)
  BY <1>1 DEF ChunksAscending
<1>3. ChunksAscending(u)
  <2>1. \A i \in DOMAIN u : RowsAscending(u[i])
    BY <1>1 DEF ChunksAscending
  <2>2. ASSUME NEW i \in DOMAIN u, NEW j \in DOMAIN u, i < j,
               NEW a \in DOMAIN u[i], NEW b \in DOMAIN u[j]
        PROVE  u[i][a].seq < u[j][b].seq
    <3>1. /\ i + 1 \in DOMAIN q /\ j + 1 \in DOMAIN q /\ i + 1 < j + 1
          /\ u[i] = q[i + 1] /\ u[j] = q[j + 1]
      BY <1>1, <2>2
    <3> QED
      BY <3>1 DEF ChunksAscending
  <2> QED
    BY <2>1, <2>2 DEF ChunksAscending
<1>4. ASSUME NEW d, NEW x \in ChunksRows(u, d)
      PROVE  \E i \in DOMAIN q : 1 < i /\ x \in RowsOfDevice(q[i], d)
  <2>1. PICK i \in DOMAIN u : x \in RowsOfDevice(u[i], d)
    BY <1>4 DEF ChunksRows
  <2> QED
    BY <1>1, <2>1
<1>5. ASSUME NEW d PROVE ChunksRows(q, d) = RowsOfDevice(c, d) \cup ChunksRows(u, d)
  <2>1. ASSUME NEW x \in ChunksRows(q, d) PROVE x \in RowsOfDevice(c, d) \cup ChunksRows(u, d)
    <3>1. PICK i \in DOMAIN q : x \in RowsOfDevice(q[i], d)
      BY <2>1 DEF ChunksRows
    <3>2. CASE i = 1
      BY <1>1, <3>1, <3>2
    <3>3. CASE i # 1
      <4>1. i - 1 \in DOMAIN u /\ x \in RowsOfDevice(u[i - 1], d)
        BY <1>1, <3>1, <3>3
      <4> QED
        BY <4>1 DEF ChunksRows
    <3> QED
      BY <3>2, <3>3
  <2>2. ASSUME NEW x \in RowsOfDevice(c, d) PROVE x \in ChunksRows(q, d)
    BY <1>1, <2>2 DEF ChunksRows
  <2>3. ASSUME NEW x \in ChunksRows(u, d) PROVE x \in ChunksRows(q, d)
    BY <1>4, <2>3 DEF ChunksRows
  <2> QED
    BY <2>1, <2>2, <2>3
<1>6. ASSUME NEW d PROVE Before(RowsOfDevice(c, d), ChunksRows(u, d))
  <2> SUFFICES ASSUME NEW x \in RowsOfDevice(c, d), NEW y \in ChunksRows(u, d)
               PROVE  x < y
    BY DEF Before
  <2>1. PICK a \in DOMAIN q[1] : q[1][a].seq = x
    BY <1>1 DEF RowsOfDevice
  <2>2. PICK i \in DOMAIN q : 1 < i /\ y \in RowsOfDevice(q[i], d)
    BY <1>4
  <2>3. PICK b \in DOMAIN q[i] : q[i][b].seq = y
    BY <2>2, SMTT(30) DEF RowsOfDevice
  <2> QED
    BY <1>1, <2>1, <2>2, <2>3 DEF ChunksAscending
<1> QED
  BY <1>2, <1>3, <1>5, <1>6 DEF c, u

\* A chunk is enqueued behind chunks of older rows.
LEMMA ChunksAppend ==
  ASSUME NEW q \in Seq(Seq(Row)), NEW c \in Seq(Row), ChunksAscending(q), RowsAscending(c),
         \A i \in DOMAIN q : \A a \in DOMAIN q[i], b \in DOMAIN c : q[i][a].seq < c[b].seq
  PROVE  /\ ChunksAscending(Append(q, c))
         /\ \A d : ChunksRows(Append(q, c), d) = ChunksRows(q, d) \cup RowsOfDevice(c, d)
<1> DEFINE u == Append(q, c)
<1>1. /\ \A i \in DOMAIN u : (i \in DOMAIN q /\ u[i] = q[i]) \/ (i = Len(q) + 1 /\ u[i] = c)
      /\ \A i \in DOMAIN q : i \in DOMAIN u /\ u[i] = q[i]
      /\ Len(q) + 1 \in DOMAIN u /\ u[Len(q) + 1] = c
      /\ \A i, j \in DOMAIN u : i < j => i \in DOMAIN q
  BY AppendIndices
<1> HIDE DEF u
<1>2. \A i \in DOMAIN u : RowsAscending(u[i])
  BY <1>1 DEF ChunksAscending
<1>3. ASSUME NEW i \in DOMAIN u, NEW j \in DOMAIN u, i < j,
             NEW a \in DOMAIN u[i], NEW b \in DOMAIN u[j]
      PROVE  u[i][a].seq < u[j][b].seq
  <2>1. i \in DOMAIN q /\ u[i] = q[i]
    BY <1>1, <1>3
  <2>2. CASE j \in DOMAIN q /\ u[j] = q[j]
    BY <1>3, <2>1, <2>2 DEF ChunksAscending
  <2>3. CASE u[j] = c
    BY <2>1, <2>3
  <2> QED
    BY <1>1, <2>2, <2>3
<1>4. ASSUME NEW d PROVE ChunksRows(u, d) = ChunksRows(q, d) \cup RowsOfDevice(c, d)
  <2>1. ASSUME NEW x \in ChunksRows(u, d) PROVE x \in ChunksRows(q, d) \cup RowsOfDevice(c, d)
    <3>1. PICK i \in DOMAIN u : x \in RowsOfDevice(u[i], d)
      BY <2>1 DEF ChunksRows
    <3> QED
      BY <1>1, <3>1 DEF ChunksRows
  <2>2. ASSUME NEW x \in ChunksRows(q, d) PROVE x \in ChunksRows(u, d)
    BY <1>1, <2>2 DEF ChunksRows
  <2>3. ASSUME NEW x \in RowsOfDevice(c, d) PROVE x \in ChunksRows(u, d)
    BY <1>1, <2>3 DEF ChunksRows
  <2> QED
    BY <2>1, <2>2, <2>3
<1> QED
  BY <1>2, <1>3, <1>4, SMTT(30) DEF ChunksAscending, u

-----------------------------------------------------------------------------
\* Lemmas about the path: the oldest rows of a place move on to the next one.

\* WriteRows and WriteNoSink settle the first rows of the batch in hand.
LEMMA MoveToSettled ==
  ASSUME NEW R, NEW S, NEW H, NEW Q, NEW B, NEW C, NEW G, NEW X, NEW Y,
         Path(R, S, H, Q, B, C, G), H = X \cup Y, Before(X, Y)
  PROVE  Path(R, S \cup X, Y, Q, B, C, G)
  BY DEF Path, Before

\* WriterDequeue takes the oldest batch.
LEMMA MoveToHand ==
  ASSUME NEW R, NEW S, NEW Q, NEW B, NEW C, NEW G, NEW X, NEW Y,
         Path(R, S, {}, Q, B, C, G), Q = X \cup Y, Before(X, Y)
  PROVE  Path(R, S, X, Y, B, C, G)
  BY DEF Path, Before

\* A flush enqueues all rows a device has in its batch.
LEMMA MoveToQueue ==
  ASSUME NEW R, NEW S, NEW H, NEW Q, NEW B, NEW C, NEW G,
         Path(R, S, H, Q, B, C, G)
  PROVE  Path(R, S, H, Q \cup B, {}, C, G)
  BY DEF Path, Before

\* AppendRow moves the first rows of the chunk into the batch.
LEMMA MoveToBatch ==
  ASSUME NEW R, NEW S, NEW H, NEW Q, NEW B, NEW C, NEW G, NEW X, NEW Y,
         Path(R, S, H, Q, B, C, G), C = X \cup Y, Before(X, Y)
  PROVE  Path(R, S, H, Q, B \cup X, Y, G)
  BY DEF Path, Before

\* ParserDequeue takes the oldest chunk.
LEMMA MoveToChunk ==
  ASSUME NEW R, NEW S, NEW H, NEW Q, NEW B, NEW G, NEW X, NEW Y,
         Path(R, S, H, Q, B, {}, G), G = X \cup Y, Before(X, Y)
  PROVE  Path(R, S, H, Q, B, X, Y)
  BY DEF Path, Before

\* A new row enters behind the ones that wait to be parsed.
LEMMA NewInIngest ==
  ASSUME NEW R, NEW S, NEW H, NEW Q, NEW B, NEW C, NEW G, NEW N,
         Path(R, S, H, Q, B, C, G), Before(R, N)
  PROVE  Path(R \cup N, S, H, Q, B, C, G \cup N)
  BY DEF Path, Before

\* The row of a posted request enters the write queue directly: nothing of its device is further back.
LEMMA NewInQueue ==
  ASSUME NEW R, NEW S, NEW H, NEW Q, NEW N,
         Path(R, S, H, Q, {}, {}, {}), Before(R, N)
  PROVE  Path(R \cup N, S, H, Q \cup N, {}, {}, {})
  BY DEF Path, Before

-----------------------------------------------------------------------------
\* The rows of a chunk form a sequence of Row.
LEMMA ChunkType ==
  ASSUME NEW g \in Groups, NEW n \in Nat, NEW ds \in [1 .. n -> g], NEW k \in Nat
  PROVE  /\ ds \in Seq(Devices)
         /\ Len(ds) = n
         /\ DecodedRows(ds, k) \in Seq(Row)
<1>1. g \subseteq ParsedDevices
  BY DEF ParsedDevices
<1>2. ds \in Seq(ParsedDevices) /\ Len(ds) = n
  BY <1>1
<1>3. ds \in Seq(Devices)
  BY <1>2, <1>1 DEF Devices
<1>4. \A i \in 1 .. n : [dev |-> ds[i], seq |-> k + i] \in Row
  BY <1>1 DEF Row
<1> QED
  BY <1>2, <1>3, <1>4 DEF DecodedRows

\* flushDevice keeps the types of what it changes.
LEMMA FlushType ==
  ASSUME TypeOK, NEW d \in ParsedDevices, FlushDevice(d)
  PROVE  /\ pubQ' \in Nat
         /\ wq' \in [Producers -> Seq(Batch)]
         /\ batch' \in [ParsedDevices -> Seq(Nat)]
<1>1. [dev |-> d, rows |-> batch[d]] \in Batch
  BY DEF TypeOK, Batch, Devices
<1>2. wq' \in [Producers -> Seq(Batch)]
  BY <1>1 DEF TypeOK, FlushDevice, Producers
<1>3. pubQ' \in Nat /\ batch' \in [ParsedDevices -> Seq(Nat)]
  BY DEF TypeOK, FlushDevice
<1> QED
  BY <1>2, <1>3

\* A thread moves only between the control points of its own run().
LEMMA ControlStep ==
  ASSUME ControlPoints, [Next]_vars
  PROVE  ControlPoints'
<1> DEFINE Move(t, S) == \E v \in S : pc' = [pc EXCEPT ![t] = v]
<1>1. ASSUME \/ UNCHANGED pc
             \/ Move("parser", ParserStates)
             \/ Move("publisher", PublisherStates)
             \/ Move("writer", WriterStates)
      PROVE  ControlPoints'
  BY <1>1 DEF ControlPoints, Threads, ParserStates, PublisherStates, WriterStates
<1>2. CASE AppStart
  <2>1. \/ UNCHANGED pc
        \/ Move("parser", {"check"})
        \/ Move("publisher", {"check"})
        \/ Move("writer", {"check"})
    BY <1>2 DEF AppStart, LoadConfig, StartWriter, StartPublish, StartParser, StartServer,
                Spawn
  <2> QED
    BY <2>1, <1>1 DEF ParserStates, PublisherStates, WriterStates
<1>3. CASE Receive \/ LoopReturns \/ AppStop
  <2>1. UNCHANGED pc
    BY <1>3, Zenon DEF Receive, OnMessage, HttpPost, LoopReturns, AppStop, StopParser, JoinParser,
                StopPublish, JoinPublish, StopWriter, JoinWriter, Stop, Join
  <2> QED
    BY <2>1, <1>1
<1>4. CASE Parser
  <2>1. UNCHANGED pc \/ Move("parser", {"wait", "final", "feed", "flush", "check", "idle", "done"})
    BY <1>4 DEF Parser, ParserCheck, ParserDequeue, AppendRow, FeedReturns, FlushTouched,
                ChunkDone, ParserIdle, FlushAllStep, FlushAllDone
  <2> QED
    BY <2>1, <1>1 DEF ParserStates
<1>5. CASE Writer
  <2>1. UNCHANGED pc \/ Move("writer", {"wait", "drain", "write", "drainWrite", "check", "done"})
    BY <1>5, Zenon DEF Writer, WriterCheck, WriterEmpty, WriteRows, WriteNoSink, BatchDone,
                WriterDequeue
  <2> QED
    BY <2>1, <1>1 DEF WriterStates
<1>6. CASE Publisher
  <2>1. Move("publisher", {"wait", "check", "done"})
    BY <1>6 DEF Publisher, PublishCheck, PublishDequeue
  <2> QED
    BY <2>1, <1>1, Zenon DEF PublisherStates
<1>7. CASE UNCHANGED vars
  BY <1>7, <1>1 DEF vars
<1> QED
  BY <1>2, <1>3, <1>4, <1>5, <1>6, <1>7 DEF Next

\* Every step of the pipeline keeps the shape of its state.
LEMMA TypeStep ==
  ASSUME TypeOK, [Next]_vars
  PROVE  TypeOK'
<1>0. ControlPoints'
  BY ControlStep DEF TypeOK
<1>1. CASE AppStart
  <2>1. CASE LoadConfig \/ StartServer
    BY <1>0, <2>1, Zenon DEF TypeOK, AppStates, Threads, LoadConfig, StartServer, inputVars, parserVars, writerVars
  <2>2. CASE StartWriter
    BY <1>0, <2>2, Zenon DEF TypeOK, AppStates, Threads, StartWriter, Spawn, inputVars, parserVars, writerVars
  <2>3. CASE StartPublish
    BY <1>0, <2>3, Zenon DEF TypeOK, AppStates, Threads, StartPublish, Spawn, inputVars, parserVars, writerVars
  <2>4. CASE StartParser
    BY <1>0, <2>4 DEF TypeOK, AppStates, Threads, StartParser, Spawn, inputVars, parserVars, writerVars
  <2> QED
    BY <1>1, <2>1, <2>2, <2>3, <2>4 DEF AppStart
<1>2. ASSUME NEW g \in Groups, NEW n \in 0 .. MaxChunkRows, NEW ds \in [1 .. n -> g],
             OnMessage(g, ds)
      PROVE  TypeOK'
  <2>1. n \in Nat /\ Len(received) \in Nat
    BY DEF TypeOK
  <2>2. ds \in Seq(Devices) /\ DecodedRows(ds, Len(received)) \in Seq(Row)
    BY <2>1, ChunkType
  <2>3. ingest' \in Seq(Seq(Row)) /\ received' \in Seq(Devices)
    BY <1>2, <2>2 DEF TypeOK, OnMessage
  <2> QED
    BY <1>0, <1>2, <2>3 DEF TypeOK, OnMessage, appVars, parserVars, writerVars
<1>3. ASSUME NEW d \in HttpDevices, HttpPost(d)
      PROVE  TypeOK'
  <2>1. d \in Devices /\ Len(received) + 1 \in Nat
    BY DEF TypeOK, Devices
  <2>2. [dev |-> d, rows |-> <<Len(received) + 1>>] \in Batch
    BY <2>1 DEF Batch
  <2>3. wq' \in [Producers -> Seq(Batch)] /\ received' \in Seq(Devices)
    BY <1>3, <2>1, <2>2 DEF TypeOK, HttpPost, Producers
  <2> QED
    BY <1>0, <1>3, <2>3 DEF TypeOK, HttpPost, appVars, parserVars, writerVars
<1>4. CASE LoopReturns
  BY <1>0, <1>4 DEF TypeOK, AppStates, Threads, LoopReturns, inputVars, parserVars, writerVars
<1>5. CASE Parser
  <2>1. CASE ParserCheck \/ FeedReturns
    BY <1>0, <2>1 DEF TypeOK, ParserCheck, FeedReturns, appVars, inputVars, parserVars, writerVars
  <2>2. CASE ChunkDone \/ ParserIdle
    BY <1>0, <2>2, SMTT(30) DEF TypeOK, ChunkDone, ParserIdle, appVars, inputVars, parserVars, writerVars
  <2>3. CASE FlushAllDone
    BY <1>0, <2>3 DEF TypeOK, FlushAllDone, appVars, inputVars, parserVars, writerVars
  <2>4. CASE ParserDequeue
    <3>1. cur' \in Seq(Row) /\ ingest' \in Seq(Seq(Row)) /\ touched' \in Seq(ParsedDevices)
      BY <2>4 DEF TypeOK, ParserDequeue
    <3> QED
      BY <1>0, <2>4, <3>1 DEF TypeOK, ParserDequeue, appVars, writerVars
  <2>5. CASE AppendRow
    <3>1. Head(cur) \in Row /\ Tail(cur) \in Seq(Row)
      BY <2>5 DEF TypeOK, AppendRow
    <3>2. Head(cur).dev \in ParsedDevices /\ Head(cur).seq \in Nat
      BY <3>1 DEF Row
    <3>3. batch' \in [ParsedDevices -> Seq(Nat)] /\ touched' \in Seq(ParsedDevices)
      BY <2>5, <3>2 DEF TypeOK, AppendRow
    <3> QED
      BY <1>0, <2>5, <3>1, <3>3 DEF TypeOK, AppendRow, appVars, inputVars, writerVars
  <2>6. CASE FlushTouched
    <3>1. Head(touched) \in ParsedDevices /\ touched' \in Seq(ParsedDevices)
      BY <2>6 DEF TypeOK, FlushTouched
    <3>2. /\ pubQ' \in Nat
          /\ wq' \in [Producers -> Seq(Batch)]
          /\ batch' \in [ParsedDevices -> Seq(Nat)]
      BY <2>6, <3>1, FlushType, SMTT(30) DEF TypeOK, FlushTouched
    <3> QED
      BY <1>0, <2>6, <3>1, <3>2, SMTT(30) DEF TypeOK, FlushTouched, appVars, inputVars, writerVars
  <2>7. ASSUME NEW d \in ParsedDevices, FlushAllStep(d)
        PROVE  TypeOK'
    <3>1. /\ pubQ' \in Nat
          /\ wq' \in [Producers -> Seq(Batch)]
          /\ batch' \in [ParsedDevices -> Seq(Nat)]
      BY <2>7, FlushType DEF FlushAllStep
    <3> QED
      BY <1>0, <2>7, <3>1 DEF TypeOK, FlushAllStep, appVars, inputVars, writerVars
  <2> QED
    BY <1>5, <2>1, <2>2, <2>3, <2>4, <2>5, <2>6, <2>7 DEF Parser
<1>6. CASE Writer
  <2>1. CASE WriterCheck
    BY <1>0, <2>1 DEF TypeOK, WriterCheck, appVars, inputVars, parserVars, writerVars
  <2>2. CASE WriterEmpty
    BY <1>0, <2>2 DEF TypeOK, WriterEmpty, appVars, inputVars, parserVars, writerVars
  <2>3. CASE BatchDone
    BY <1>0, <2>3 DEF TypeOK, BatchDone, appVars, inputVars, parserVars, writerVars
  <2>4. CASE WriteRows
    <3> DEFINE n == IF Len(hand.rows) < Capacity(hand.dev) THEN Len(hand.rows)
                                                            ELSE Capacity(hand.dev)
    <3>1. hand.dev \in Devices /\ hand.rows \in Seq(Nat) /\ Len(hand.rows) \in Nat
      BY DEF TypeOK, Batch
    <3>2. n \in Nat /\ n <= Len(hand.rows)
      BY <3>1, PipelineAssumption DEF Capacity, kMaxRowsPerStmt
    <3>3. /\ SubSeq(hand.rows, 1, n) \in Seq(Nat)
          /\ SubSeq(hand.rows, n + 1, Len(hand.rows)) \in Seq(Nat)
      BY <3>1, <3>2, SMTT(30)
    <3>4. /\ submitted' = [submitted EXCEPT ![hand.dev] = @ \o SubSeq(hand.rows, 1, n)]
          /\ hand' = [dev |-> hand.dev, rows |-> SubSeq(hand.rows, n + 1, Len(hand.rows))]
      BY <2>4 DEF WriteRows
    <3> HIDE DEF n
    <3>5. submitted' \in [Devices -> Seq(Nat)]
      BY <3>1, <3>3, <3>4, SMTT(30) DEF TypeOK
    <3>6. hand' \in Batch
      BY <3>1, <3>3, <3>4 DEF Batch
    <3> QED
      BY <1>0, <2>4, <3>5, <3>6, SMTT(30) DEF TypeOK, WriteRows, appVars, inputVars, parserVars
  <2>5. CASE WriteNoSink
    <3>1. hand.dev \in Devices /\ hand.rows \in Seq(Nat)
      BY DEF TypeOK, Batch
    <3>2. hand' \in Batch /\ dropped' \in [Devices -> Seq(Nat)]
      BY <2>5, <3>1 DEF TypeOK, WriteNoSink, Batch
    <3> QED
      BY <1>0, <2>5, <3>2 DEF TypeOK, WriteNoSink, appVars, inputVars, parserVars
  <2>6. ASSUME NEW p \in Producers, WriterDequeue(p)
        PROVE  TypeOK'
    <3>1. hand' \in Batch /\ wq' \in [Producers -> Seq(Batch)]
      BY <2>6 DEF TypeOK, WriterDequeue
    <3> QED
      BY <1>0, <2>6, <3>1 DEF TypeOK, WriterDequeue, appVars, inputVars, parserVars
  <2> QED
    BY <1>6, <2>1, <2>2, <2>3, <2>4, <2>5, <2>6 DEF Writer
<1>7. CASE Publisher
  BY <1>0, <1>7 DEF TypeOK, Publisher, PublishCheck, PublishDequeue, appVars, inputVars,
              parserVars, writerVars
<1>8. CASE AppStop
  BY <1>0, <1>8 DEF TypeOK, AppStop, StopParser, JoinParser, StopPublish, JoinPublish,
              StopWriter, JoinWriter, Stop, Join, AppStates, inputVars, parserVars, writerVars
<1>9. CASE UNCHANGED vars
  BY <1>0, <1>9 DEF TypeOK, vars
<1> QED
  BY <1>1, <1>2, <1>3, <1>4, <1>5, <1>6, <1>7, <1>8, <1>9 DEF Next, Receive

\* The state of the pipeline always has its type: no handler of a worker, of the
\* net loop or of AdapterApp::run puts anything else into it.
THEOREM TypeCorrect == Spec => []TypeOK
<1>1. Init => TypeOK
  <2>1. NoBatch \in Batch
    BY PipelineAssumption DEF NoBatch, Batch
  <2> QED
    BY <2>1 DEF Init, TypeOK, ControlPoints, AppStates, ParserStates, PublisherStates, WriterStates,
                Threads, Producers
<1>2. TypeOK /\ [Next]_vars => TypeOK'
  BY TypeStep, SMTT(30)
<1> QED
  BY <1>1, <1>2, PTL DEF Spec

-----------------------------------------------------------------------------
\* The stages of AdapterApp::run and of its workers stay in agreement.
LEMMA LifecycleStep ==
  ASSUME TypeOK, Lifecycle, HandedOn, [Next]_vars
  PROVE  Lifecycle'
<1> USE DEF Lifecycle, NeverStarted, ShutDown, ParserJoined, PublisherJoined
<1>0. ControlPoints
  BY SMTT(30) DEF TypeOK
<1>1. CASE AppStart
  <2>1. CASE LoadConfig
    BY <2>1 DEF LoadConfig
  <2>2. CASE StartWriter
    BY <1>0, <2>2 DEF StartWriter, Spawn, ControlPoints, Threads
  <2>3. CASE StartPublish
    BY <1>0, <2>3 DEF StartPublish, Spawn, ControlPoints, Threads
  <2>4. CASE StartParser
    BY <1>0, <2>4 DEF StartParser, Spawn, ControlPoints, Threads
  <2>5. CASE StartServer
    BY <2>5 DEF StartServer
  <2> QED
    BY <1>1, <2>1, <2>2, <2>3, <2>4, <2>5 DEF AppStart
<1>2. CASE Receive
  <2>1. UNCHANGED <<app, exitCode, running, pc>>
    BY <1>2, Zenon DEF Receive, OnMessage, HttpPost, appVars
  <2> QED
    BY <2>1
<1>3. CASE LoopReturns
  BY <1>3 DEF LoopReturns
<1>4. CASE Parser
  <2>1. UNCHANGED <<app, exitCode, running>>
    BY <1>4 DEF Parser, ParserCheck, ParserDequeue, AppendRow, FeedReturns, FlushTouched,
                ChunkDone, ParserIdle, FlushAllStep, FlushAllDone, appVars
  <2>2. \/ UNCHANGED pc
        \/ /\ pc["parser"] \notin {"off", "done"}
           /\ \E v \in {"wait", "final", "feed", "flush", "check", "idle", "done"} :
                /\ pc' = [pc EXCEPT !["parser"] = v]
                /\ v \in {"final", "done"} =>
                     pc["parser"] = "final" \/ "parser" \notin running
    BY <1>4 DEF Parser, ParserCheck, ParserDequeue, AppendRow, FeedReturns, FlushTouched,
                ChunkDone, ParserIdle, FlushAllStep, FlushAllDone
  <2> QED
    BY <1>0, <2>1, <2>2 DEF ControlPoints, Threads
<1>5. CASE Writer
  <2>1. UNCHANGED <<app, exitCode, running>>
    BY <1>5, ZenonT(40) DEF Writer, WriterCheck, WriterEmpty, WriteRows, WriteNoSink, BatchDone,
                WriterDequeue, appVars
  <2>2. \/ UNCHANGED pc
        \/ /\ pc["writer"] \notin {"off", "done"}
           /\ \E v \in {"wait", "drain", "write", "drainWrite", "check", "done"} :
                /\ pc' = [pc EXCEPT !["writer"] = v]
                /\ v \in {"drain", "drainWrite", "done"} =>
                     pc["writer"] \in {"drain", "drainWrite"} \/ "writer" \notin running
    BY <1>5, Zenon DEF Writer, WriterCheck, WriterEmpty, WriteRows, WriteNoSink, BatchDone,
                WriterDequeue
  <2> QED
    BY <1>0, <2>1, <2>2, SMTT(30) DEF ControlPoints, Threads
<1>6. CASE Publisher
  <2>1. UNCHANGED <<app, exitCode, running>>
    BY <1>6 DEF Publisher, PublishCheck, PublishDequeue, appVars
  <2>2. /\ pc["publisher"] \in {"check", "wait"}
        /\ \E v \in {"wait", "check", "done"} : pc' = [pc EXCEPT !["publisher"] = v]
    BY <1>6, SMTT(30) DEF Publisher, PublishCheck, PublishDequeue
  <2> QED
    BY <1>0, <2>1, <2>2 DEF ControlPoints, Threads
<1>7. CASE AppStop
  <2>1. CASE StopParser \/ JoinParser
    BY <1>0, <2>1 DEF StopParser, JoinParser, Stop, Join, ControlPoints, ParserStates
  <2>2. CASE StopPublish \/ JoinPublish
    BY <1>0, <2>2 DEF StopPublish, JoinPublish, Stop, Join, ControlPoints, PublisherStates
  <2>3. CASE StopWriter \/ JoinWriter
    BY <1>0, <2>3 DEF StopWriter, JoinWriter, Stop, Join, TypeOK
  <2> QED
    BY <1>7, <2>1, <2>2, <2>3 DEF AppStop
<1>8. CASE UNCHANGED vars
  BY <1>8 DEF vars
<1> QED
  BY <1>1, <1>2, <1>3, <1>4, <1>5, <1>6, <1>7, <1>8 DEF Next

\* No thread ends, and none goes back to its loop, with work in hand.
LEMMA HandedOnStep ==
  ASSUME TypeOK, Lifecycle, HandedOn, [Next]_vars
  PROVE  HandedOn'
<1>0. ControlPoints
  BY DEF TypeOK
<1>1. CASE AppStart
  <2>1. UNCHANGED <<cur, batch, hand, wq>>
    BY <1>1 DEF AppStart, LoadConfig, StartWriter, StartPublish, StartParser, StartServer,
                parserVars, writerVars
  <2>2. \/ UNCHANGED pc
        \/ pc["parser"] = "off" /\ pc' = [pc EXCEPT !["parser"] = "check"]
        \/ pc' = [pc EXCEPT !["publisher"] = "check"]
        \/ pc["writer"] = "off" /\ pc' = [pc EXCEPT !["writer"] = "check"]
    BY <1>1 DEF Lifecycle, AppStart, LoadConfig, StartWriter, StartPublish, StartParser,
                StartServer, Spawn
  <2> QED
    BY <1>0, <2>1, <2>2 DEF HandedOn, ControlPoints, Threads
<1>2. CASE Receive
  <2>1. app = "loop" /\ UNCHANGED <<cur, batch, hand, pc>>
    BY <1>2, ZenonT(40) DEF Receive, OnMessage, HttpPost, parserVars, writerVars
  <2>2. pc["writer"] # "done"
    BY <2>1 DEF Lifecycle
  <2> QED
    BY <2>1, <2>2 DEF HandedOn
<1>3. CASE LoopReturns \/ AppStop
  <2>1. UNCHANGED <<cur, batch, hand, wq, pc>>
    BY <1>3 DEF LoopReturns, AppStop, StopParser, JoinParser, StopPublish, JoinPublish,
                StopWriter, JoinWriter, Stop, Join, parserVars, writerVars
  <2> QED
    BY <2>1 DEF HandedOn
<1>4. CASE Parser
  <2>1. UNCHANGED hand /\ pc'["writer"] = pc["writer"]
    BY <1>0, <1>4 DEF Parser, ParserCheck, ParserDequeue, AppendRow, FeedReturns,
                FlushTouched, ChunkDone, ParserIdle, FlushAllStep, FlushAllDone, writerVars,
                ControlPoints, Threads
  <2>2. pc["parser"] \notin {"off", "done"}
    BY <1>4 DEF Parser, ParserCheck, ParserDequeue, AppendRow, FeedReturns, FlushTouched,
                ChunkDone, ParserIdle, FlushAllStep, FlushAllDone
  <2>3. pc["writer"] # "done"
    <3>1. "writer" \notin running /\ pc["writer"] = "done" => app \in {"joinWriter", "exited"}
      BY <2>2, SMTT(30) DEF Lifecycle, TypeOK, AppStates, NeverStarted
    <3> QED
      BY <2>2, <3>1 DEF Lifecycle, ParserJoined, NeverStarted, ShutDown, TypeOK
  <2>4. pc'["parser"] # "feed" => cur' = <<>>
    BY <1>0, <1>4 DEF HandedOn, Parser, ParserCheck, ParserDequeue, AppendRow, FeedReturns,
                FlushTouched, ChunkDone, ParserIdle, FlushAllStep, FlushAllDone, parserVars,
                ControlPoints, Threads
  <2>5. pc'["parser"] \in {"off", "done"} => \A d \in ParsedDevices : batch'[d] = <<>>
    <3>1. CASE FlushAllDone
      <4>1. batch' = batch /\ \A d \in ParsedDevices : batch[d] = <<>>
        BY <3>1, Zenon DEF FlushAllDone, parserVars
      <4> QED
        BY ONLY <4>1
    <3>2. CASE UNCHANGED pc
      BY ONLY <2>2, <3>2
    <3>3. CASE ParserCheck \/ ParserDequeue \/ FeedReturns \/ ChunkDone \/ ParserIdle
      <4>1. PICK l \in {"wait", "final", "feed", "flush", "check", "idle"} :
               pc' = [pc EXCEPT !["parser"] = l]
        BY <3>3, Zenon DEF ParserCheck, ParserDequeue, FeedReturns, ChunkDone, ParserIdle
      <4>2. pc'["parser"] = l
        BY ONLY <1>0, <4>1 DEF ControlPoints, Threads
      <4> QED
        BY ONLY <4>1, <4>2
    <3> QED
      BY <1>4, <3>1, <3>2, <3>3, Zenon DEF Parser, AppendRow, FlushTouched, FlushAllStep
  <2> QED
    BY <2>1, <2>3, <2>4, <2>5 DEF HandedOn
<1>5. CASE Writer
  <2>1. UNCHANGED <<cur, batch>> /\ pc'["parser"] = pc["parser"]
    BY <1>0, <1>5, ZenonT(40) DEF Writer, WriterCheck, WriterEmpty, WriteRows, WriteNoSink, BatchDone,
                WriterDequeue, parserVars, ControlPoints, Threads
  <2>2. pc'["writer"] \notin {"write", "drainWrite"} => hand'.rows = <<>>
    BY <1>0, <1>5, Zenon DEF HandedOn, Writer, WriterCheck, WriterEmpty, WriteRows, WriteNoSink,
                BatchDone, WriterDequeue, writerVars, ControlPoints, Threads
  <2>3. pc'["writer"] = "done" => \A p \in Producers : wq'[p] = <<>>
    BY <1>0, <1>5, Zenon DEF Writer, WriterCheck, WriterEmpty, WriteRows, WriteNoSink, BatchDone,
                WriterDequeue, ControlPoints, Threads
  <2>4. pc'["parser"] # "feed" => cur' = <<>>
    BY ONLY <2>1, HandedOn DEF HandedOn
  <2>5. pc'["parser"] \in {"off", "done"} => \A d \in ParsedDevices : batch'[d] = <<>>
    BY ONLY <2>1, HandedOn DEF HandedOn
  <2> QED
    BY ONLY <2>2, <2>3, <2>4, <2>5 DEF HandedOn
<1>6. CASE Publisher
  <2>1. UNCHANGED <<cur, batch, hand, wq>>
    BY <1>6 DEF Publisher, PublishCheck, PublishDequeue, parserVars, writerVars
  <2>2. pc'["parser"] = pc["parser"] /\ pc'["writer"] = pc["writer"]
    BY <1>0, <1>6 DEF Publisher, PublishCheck, PublishDequeue, ControlPoints, Threads
  <2> QED
    BY <2>1, <2>2 DEF HandedOn
<1>7. CASE UNCHANGED vars
  BY <1>7 DEF HandedOn, vars
<1> QED
  BY <1>1, <1>2, <1>3, <1>4, <1>5, <1>6, <1>7 DEF Next

\* AdapterApp::run and its workers agree on the stage of the life cycle, and no
\* thread ends with work in hand.
THEOREM ShutdownOrderly == Spec => []ShutdownInv
<1>1. Init => ShutdownInv
  BY DEF Init, ShutdownInv, Lifecycle, HandedOn, NeverStarted, ShutDown, ParserJoined,
         PublisherJoined, Threads, Producers, NoBatch
<1>2. TypeOK /\ ShutdownInv /\ [Next]_vars => ShutdownInv'
  BY LifecycleStep, HandedOnStep DEF ShutdownInv
<1> QED
  BY <1>1, <1>2, TypeCorrect, PTL DEF Spec

\* When run() returns after the workers were started, all of them are joined and no
\* batch is left in the parser, in the write queue or with the writer.
THEOREM ExitIsDrained == Spec => []ExitDrained
<1>1. TypeOK /\ ShutdownInv => ExitDrained
  <2> SUFFICES ASSUME TypeOK, ShutdownInv, ShutDown
               PROVE  /\ \A t \in Threads : t \notin running /\ pc[t] \in {"off", "done"}
                      /\ \A d \in ParsedDevices : batch[d] = <<>>
                      /\ \A p \in Producers : wq[p] = <<>>
                      /\ hand.rows = <<>>
    BY DEF ExitDrained
  <2>1. /\ pc["parser"] = "done" /\ pc["writer"] = "done"
        /\ pc["publisher"] \in {"off", "done"}
    BY DEF ShutdownInv, Lifecycle, ParserJoined, PublisherJoined
  <2>2. \A t \in Threads : t \notin running
    BY DEF ShutdownInv, Lifecycle, ShutDown, Threads
  <2> QED
    BY <2>1, <2>2 DEF ShutdownInv, HandedOn, Threads
<1> QED
  BY <1>1, TypeCorrect, ShutdownOrderly, PTL

-----------------------------------------------------------------------------
\* Appending to a sequence adds one element; a sequence that is not empty consists
\* of its head and the elements of its tail.
LEMMA ElemsAppend ==
  ASSUME NEW S, NEW s \in Seq(S), NEW x \in S
  PROVE  Elems(Append(s, x)) = Elems(s) \cup {x}
<1> DEFINE t == Append(s, x)
<1>1. /\ DOMAIN s = 1 .. Len(s) /\ Len(s) \in Nat /\ DOMAIN t = 1 .. Len(s) + 1
      /\ \A i \in 1 .. Len(s) : t[i] = s[i]
      /\ t[Len(s) + 1] = x
  OBVIOUS
<1> HIDE DEF t
<1>2. ASSUME NEW y \in Elems(t) PROVE y \in Elems(s) \cup {x}
  BY <1>1, <1>2 DEF Elems
<1>3. ASSUME NEW y \in Elems(s) \cup {x} PROVE y \in Elems(t)
  BY <1>1, <1>3 DEF Elems
<1> QED
  BY <1>2, <1>3 DEF t

LEMMA ElemsHeadTail ==
  ASSUME NEW S, NEW s \in Seq(S), s # <<>>
  PROVE  Elems(s) = {Head(s)} \cup Elems(Tail(s))
<1> DEFINE t == Tail(s)
<1>1. /\ DOMAIN s = 1 .. Len(s) /\ Len(s) \in Nat \ {0} /\ DOMAIN t = 1 .. Len(s) - 1
      /\ \A i \in 1 .. Len(s) - 1 : t[i] = s[i + 1]
      /\ Head(s) = s[1]
  OBVIOUS
<1> HIDE DEF t
<1>2. ASSUME NEW y \in Elems(s) PROVE y \in {Head(s)} \cup Elems(t)
  <2>1. PICK i \in DOMAIN s : y = s[i]
    BY <1>2 DEF Elems
  <2>2. CASE i = 1
    BY <1>1, <2>1, <2>2
  <2>3. CASE i # 1
    <3>1. i - 1 \in DOMAIN t /\ t[i - 1] = y
      BY <1>1, <2>1, <2>3
    <3> QED
      BY <3>1 DEF Elems
  <2> QED
    BY <2>2, <2>3
<1>3. ASSUME NEW y \in {Head(s)} \cup Elems(t) PROVE y \in Elems(s)
  BY <1>1, <1>3 DEF Elems
<1> QED
  BY <1>2, <1>3 DEF t

\* _touched names every device with a due batch until the loop over it reaches it.
LEMMA DueStep ==
  ASSUME TypeOK, ShutdownInv, DueIsTouched, [Next]_vars
  PROVE  DueIsTouched'
<1>0. ControlPoints
  BY DEF TypeOK
<1>1. CASE AppStart
  <2>1. UNCHANGED <<batch, touched>>
    BY <1>1 DEF AppStart, LoadConfig, StartWriter, StartPublish, StartParser, StartServer,
                parserVars
  <2>2. pc'["parser"] = pc["parser"] \/ pc["parser"] = "off"
    BY <1>0, <1>1 DEF AppStart, LoadConfig, StartWriter, StartPublish, StartParser,
                StartServer, Spawn, ControlPoints, Threads, ShutdownInv, Lifecycle
  <2> QED
    BY <2>1, <2>2 DEF DueIsTouched, FlushDue
<1>2. CASE Receive \/ LoopReturns \/ AppStop
  <2>1. UNCHANGED <<batch, touched, pc>>
    BY <1>2, Zenon DEF Receive, OnMessage, HttpPost, LoopReturns, AppStop, StopParser, JoinParser,
                StopPublish, JoinPublish, StopWriter, JoinWriter, Stop, Join, parserVars
  <2> QED
    BY <2>1, SMTT(30) DEF DueIsTouched, FlushDue
<1>3. CASE Writer
  <2>1. UNCHANGED <<batch, touched>> /\ pc'["parser"] = pc["parser"]
    BY <1>0, <1>3, Zenon DEF Writer, WriterCheck, WriterEmpty, WriteRows, WriteNoSink, BatchDone,
                WriterDequeue, parserVars, ControlPoints, Threads
  <2> QED
    BY <2>1 DEF DueIsTouched, FlushDue
<1>4. CASE Publisher
  <2>1. UNCHANGED <<batch, touched>> /\ pc'["parser"] = pc["parser"]
    BY <1>0, <1>4 DEF Publisher, PublishCheck, PublishDequeue, parserVars, ControlPoints,
                Threads
  <2> QED
    BY <2>1 DEF DueIsTouched, FlushDue
<1>5. CASE ParserCheck \/ ParserIdle \/ FlushAllDone \/ ParserDequeue
  <2>1. UNCHANGED batch /\ pc["parser"] \notin {"feed", "flush"}
    BY <1>5 DEF ParserCheck, ParserIdle, FlushAllDone, ParserDequeue, parserVars
  <2> QED
    BY <2>1 DEF DueIsTouched, FlushDue
<1>6. CASE FeedReturns
  <2>1. pc["parser"] = "feed" /\ batch' = batch /\ touched' = touched
    BY <1>6, Zenon DEF FeedReturns, parserVars
  <2>2. pc'["parser"] = "flush"
    BY <1>0, <1>6, Zenon DEF FeedReturns, ControlPoints, Threads
  <2> QED
    BY <2>1, <2>2 DEF DueIsTouched, FlushDue
<1>7. CASE ChunkDone
  <2>1. \A d \in ParsedDevices : ~FlushDue(d)
    BY <1>7 DEF ChunkDone, DueIsTouched, Elems
  <2> QED
    BY <1>7, <2>1 DEF ChunkDone, parserVars, DueIsTouched, FlushDue
<1>8. CASE AppendRow
  <2> DEFINE r == Head(cur)
  <2>1. r.dev \in ParsedDevices
    <3>1. r \in Row
      BY <1>8 DEF AppendRow, TypeOK
    <3> QED
      BY <3>1 DEF Row
  <2>2. /\ pc["parser"] = "feed" /\ UNCHANGED pc
        /\ batch' = [batch EXCEPT ![r.dev] = Append(@, r.seq)]
        /\ touched' = IF touched # <<>> /\ touched[Len(touched)] = r.dev
                      THEN touched ELSE Append(touched, r.dev)
    BY <1>8 DEF AppendRow
  <2> HIDE DEF r
  <2>3. touched \in Seq(ParsedDevices)
    BY DEF TypeOK
  <2>4. Elems(touched') = Elems(touched) \cup {r.dev}
    <3>1. CASE touched # <<>> /\ touched[Len(touched)] = r.dev
      BY <2>2, <2>3, <3>1 DEF Elems
    <3>2. CASE ~(touched # <<>> /\ touched[Len(touched)] = r.dev)
      <4>1. touched' = Append(touched, r.dev)
        BY <2>2, <3>2
      <4> QED
        BY <2>1, <2>3, <4>1, ElemsAppend
    <3> QED
      BY <3>1, <3>2
  <2>5. \A d \in ParsedDevices : d # r.dev => batch'[d] = batch[d]
    BY <2>2 DEF TypeOK
  <2> QED
    BY <2>2, <2>4, <2>5 DEF DueIsTouched, FlushDue
<1>9. CASE FlushTouched
  <2>1. /\ pc["parser"] = "flush" /\ UNCHANGED pc
        /\ touched # <<>> /\ touched' = Tail(touched)
    BY <1>9 DEF FlushTouched
  <2>2. Elems(touched) = {Head(touched)} \cup Elems(touched')
    BY <2>1, ElemsHeadTail DEF TypeOK
  <2>3. Head(touched) \in ParsedDevices
    BY <2>1 DEF TypeOK
  <2>4. \A d \in ParsedDevices \ {Head(touched)} : batch'[d] = batch[d]
    BY <1>9, <2>3 DEF FlushTouched, FlushDevice, TypeOK
  <2>5. \A d \in ParsedDevices : d = Head(touched) => ~FlushDue(d)'
    <3>1. CASE FlushDue(Head(touched))
      <4>1. batch'[Head(touched)] = <<>>
        BY <1>9, <2>3, <3>1 DEF FlushTouched, FlushDevice, TypeOK
      <4> QED
        BY <4>1 DEF FlushDue
    <3>2. CASE ~FlushDue(Head(touched))
      BY <1>9, <3>2 DEF FlushTouched, FlushDue
    <3> QED
      BY <3>1, <3>2
  <2> QED
    BY <2>1, <2>2, <2>4, <2>5 DEF DueIsTouched, FlushDue
<1>10. ASSUME NEW d \in ParsedDevices, FlushAllStep(d)
       PROVE  DueIsTouched'
  <2>1. batch' = [batch EXCEPT ![d] = <<>>] /\ UNCHANGED <<pc, touched>>
    BY <1>10 DEF FlushAllStep, FlushDevice
  <2>2. \A c \in ParsedDevices : batch'[c] = batch[c] \/ batch'[c] = <<>>
    BY <2>1 DEF TypeOK
  <2> QED
    BY <2>1, <2>2 DEF DueIsTouched, FlushDue
<1>11. CASE UNCHANGED vars
  BY <1>11 DEF vars, DueIsTouched, FlushDue
<1> QED
  BY <1>1, <1>2, <1>3, <1>4, <1>5, <1>6, <1>7, <1>8, <1>9, <1>10, <1>11 DEF Next, Parser

\* Between two chunks no status row is held and no batch has reached batchRows.
THEOREM NothingHeldBack == Spec => []NothingDueBetweenChunks
<1>1. Init => DueIsTouched
  BY DEF Init, DueIsTouched, FlushDue
<1>2. TypeOK /\ ShutdownInv /\ DueIsTouched /\ [Next]_vars => DueIsTouched'
  BY DueStep
<1>3. DueIsTouched => NothingDueBetweenChunks
  BY DEF DueIsTouched, NothingDueBetweenChunks
<1> QED
  BY <1>1, <1>2, <1>3, TypeCorrect, ShutdownOrderly, PTL DEF Spec

=============================================================================
