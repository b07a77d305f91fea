------------------------------- MODULE RowLog -------------------------------
(***************************************************************************)
(* What the pipeline promises the owner of the data, whatever threads,     *)
(* queues and batches carry it: rows are received, and the rows of each    *)
(* device are delivered in the order received, none twice and none skipped. *)
(***************************************************************************)
EXTENDS Naturals, Sequences

CONSTANT Devices

VARIABLES
  received,   \* the device of each row received, row n being the n-th
  delivered   \* the rows delivered of each device, in order

rowVars == <<received, delivered>>

RowsOf(d) == {n \in DOMAIN received : received[n] = d}

RowsIn(s) == {s[i] : i \in DOMAIN s}

Increasing(s) == \A i, j \in DOMAIN s : i < j => s[i] < s[j]

Init ==
  /\ received = <<>>
  /\ delivered = [d \in Devices |-> <<>>]

\* Some rows arrive behind those received so far.
Receive ==
  /\ Len(received') > Len(received)
  /\ SubSeq(received', 1, Len(received)) = received
  /\ UNCHANGED delivered

\* The oldest rows of d not delivered yet, up to row m, are delivered.
Deliver(d, m) ==
  /\ \A i \in DOMAIN delivered[d] : delivered[d][i] < m
  /\ delivered' = [delivered EXCEPT ![d] = delivered'[d]]
  /\ RowsIn(delivered'[d]) = {n \in RowsOf(d) : n <= m}
  /\ Increasing(delivered'[d])
  /\ UNCHANGED received

Next ==
  \/ Receive
  \/ \E d \in Devices : \E m \in RowsOf(d) : Deliver(d, m)

Spec == Init /\ [][Next]_rowVars

=============================================================================
