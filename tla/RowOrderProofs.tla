--------------------------- MODULE RowOrderProofs ---------------------------
(***************************************************************************)
(* TLAPS proofs, for every value of Pipeline's constants, that the rows of *)
(* each device reach EtherDB completely and in the order received: every   *)
(* row is in one place, the places are in order, and each step moves the   *)
(* oldest rows of a place to the end of the one before it.                 *)
(***************************************************************************)
EXTENDS PipelineProofs

-----------------------------------------------------------------------------
\* Steps that receive rows.

\* Steps that move no rows.
LEMMA NoRowMoves ==
  ASSUME RowsInv,
         UNCHANGED <<ingest, cur, batch, wq, hand, received, submitted, dropped>>
  PROVE  RowsInv'
  BY SMTT(30) DEF RowsInv, RowsOnPath, PlacesInOrder, Lanes, settled, SettledRows, HandRows, QueuedRows,
         HeldRows, ChunkRows, WaitingRows, Log!RowsOf

\* The rows in the places were received: they are numbered up to Len(received).
LEMMA RowsWereReceived ==
  ASSUME TypeOK, RowsInv, NEW d \in Devices
  PROVE  /\ Log!RowsOf(d) \subseteq 1 .. Len(received)
         /\ QueuedRows(d) \subseteq Log!RowsOf(d)
         /\ WaitingRows(d) \subseteq Log!RowsOf(d)
<1>1. received \in Seq(Devices)
  BY DEF TypeOK
<1>2. Log!RowsOf(d) \subseteq 1 .. Len(received)
  BY <1>1 DEF Log!RowsOf
<1>3. Path(Log!RowsOf(d), SettledRows(d), HandRows(d), QueuedRows(d), HeldRows(d),
           ChunkRows(d), WaitingRows(d))
  BY DEF RowsInv, RowsOnPath
<1> QED
  BY <1>2, <1>3 DEF Path

\* IngestServer::onMessage: new rows join the ingest queue.
LEMMA OnMessageRows ==
  ASSUME TypeOK, RowsInv, NEW g \in Groups, NEW n \in Nat, NEW ds \in [1 .. n -> g],
         OnMessage(g, ds)
  PROVE  RowsInv'
<1> DEFINE k == Len(received)
           c == DecodedRows(ds, k)
<1>1. /\ ds \in Seq(Devices) /\ Len(ds) = n /\ c \in Seq(Row)
      /\ k \in Nat /\ received \in Seq(Devices) /\ ingest \in Seq(Seq(Row))
  <2>1. k \in Nat /\ received \in Seq(Devices) /\ ingest \in Seq(Seq(Row))
    BY DEF TypeOK
  <2> QED
    BY <2>1, ChunkType, Zenon
<1>2. /\ ingest' = Append(ingest, c) /\ received' = received \o ds
      /\ UNCHANGED <<cur, batch, wq, hand, submitted, dropped>>
  BY DEF OnMessage, parserVars, writerVars
<1>3. DOMAIN c = 1 .. n /\ \A i \in 1 .. n : c[i].seq = k + i /\ c[i].dev = ds[i]
  BY <1>1 DEF DecodedRows
<1>4. /\ DOMAIN received = 1 .. k /\ DOMAIN received' = 1 .. k + n
      /\ \A i \in 1 .. k : received'[i] = received[i]
      /\ \A i \in 1 .. n : received'[k + i] = ds[i]
      /\ \A i \in 1 .. k + n : i > k => i - k \in 1 .. n /\ received'[i] = ds[i - k] /\ k + (i - k) = i
  <2> HIDE DEF k, c
  <2>1. received \in Seq(Devices) /\ ds \in Seq(Devices) /\ k = Len(received) /\ n = Len(ds)
    BY <1>1 DEF k
  <2>2. received' = received \o ds
    BY <1>2
  <2> QED
    BY ONLY <2>1, <2>2, ConcatIndices
<1> HIDE DEF k, c
<1>5. RowsAscending(c)
  BY <1>1, <1>3 DEF RowsAscending
<1>6. \A b \in DOMAIN c : c[b].seq \in Nat /\ c[b].seq > k
  BY <1>1, <1>3
<1>7. ASSUME NEW d PROVE Log!RowsOf(d)' = Log!RowsOf(d) \cup RowsOfDevice(c, d)
  <2>1. ASSUME NEW x \in Log!RowsOf(d)' PROVE x \in Log!RowsOf(d) \cup RowsOfDevice(c, d)
    <3>1. x \in 1 .. k + n /\ received'[x] = d
      BY <1>4, <2>1 DEF Log!RowsOf
    <3>2. CASE x <= k
      BY <1>1, <1>4, <3>1, <3>2 DEF Log!RowsOf
    <3>3. CASE x > k
      <4>1. x - k \in DOMAIN c /\ c[x - k].dev = d /\ c[x - k].seq = x
        BY <1>3, <1>4, <3>1, <3>3
      <4> QED
        BY <4>1 DEF RowsOfDevice
    <3> QED
      BY <1>1, <3>1, <3>2, <3>3
  <2>2. ASSUME NEW x \in Log!RowsOf(d) PROVE x \in Log!RowsOf(d)'
    BY <1>1, <1>4, <2>2 DEF Log!RowsOf
  <2>3. ASSUME NEW x \in RowsOfDevice(c, d) PROVE x \in Log!RowsOf(d)'
    <3>1. PICK i \in 1 .. n : c[i].dev = d /\ c[i].seq = x
      BY <1>3, <2>3 DEF RowsOfDevice
    <3>2. k + i \in 1 .. k + n
      BY <1>1
    <3> QED
      BY <1>3, <1>4, <3>1, <3>2 DEF Log!RowsOf
  <2> QED
    BY <2>1, <2>2, <2>3
<1>8. ASSUME NEW d \in Devices PROVE Before(Log!RowsOf(d), RowsOfDevice(c, d))
  <2> SUFFICES ASSUME NEW x \in Log!RowsOf(d), NEW y \in RowsOfDevice(c, d)
               PROVE  x < y
    BY DEF Before
  <2>1. x \in 1 .. k
    BY <1>4 DEF Log!RowsOf
  <2>2. y \in Nat /\ y > k
    BY <1>6 DEF RowsOfDevice
  <2> QED
    BY <1>1, <2>1, <2>2
<1>9. ASSUME NEW i \in DOMAIN ingest, NEW a \in DOMAIN ingest[i], NEW b \in DOMAIN c
      PROVE  ingest[i][a].seq < c[b].seq
  <2>1. ingest[i] \in Seq(Row)
    BY <1>1
  <2>2. ingest[i][a] \in Row
    BY <2>1
  <2>3. ingest[i][a].dev \in Devices
    BY <2>2 DEF Row, Devices
  <2>4. ingest[i][a].seq \in WaitingRows(ingest[i][a].dev)
    BY DEF WaitingRows, ChunksRows, RowsOfDevice
  <2>5. ingest[i][a].seq \in 1 .. k
    BY <2>3, <2>4, RowsWereReceived DEF k
  <2> QED
    BY <1>1, <1>6, <2>5
<1>10. /\ ChunksAscending(ingest')
       /\ \A d : ChunksRows(ingest', d) = ChunksRows(ingest, d) \cup RowsOfDevice(c, d)
  <2>1. ChunksAscending(ingest)
    BY DEF RowsInv, PlacesInOrder
  <2> QED
    BY <1>1, <1>2, <1>5, <1>9, <2>1, ChunksAppend, Zenon
<1>11. RowsOnPath'
  <2> SUFFICES ASSUME NEW d \in Devices
               PROVE  Path(Log!RowsOf(d), SettledRows(d), HandRows(d), QueuedRows(d), HeldRows(d),
                           ChunkRows(d), WaitingRows(d))'
    BY DEF RowsOnPath
  <2>1. Path(Log!RowsOf(d), SettledRows(d), HandRows(d), QueuedRows(d), HeldRows(d),
             ChunkRows(d), WaitingRows(d))
    BY DEF RowsInv, RowsOnPath
  <2>2. Path(Log!RowsOf(d) \cup RowsOfDevice(c, d), SettledRows(d), HandRows(d), QueuedRows(d),
             HeldRows(d), ChunkRows(d), WaitingRows(d) \cup RowsOfDevice(c, d))
    BY <1>8, <2>1, NewInIngest
  <2>3. /\ SettledRows(d)' = SettledRows(d) /\ HandRows(d)' = HandRows(d)
        /\ QueuedRows(d)' = QueuedRows(d) /\ HeldRows(d)' = HeldRows(d)
        /\ ChunkRows(d)' = ChunkRows(d)
    BY <1>2 DEF SettledRows, settled, HandRows, QueuedRows, HeldRows, ChunkRows
  <2>4. WaitingRows(d)' = WaitingRows(d) \cup RowsOfDevice(c, d)
    BY <1>10 DEF WaitingRows
  <2> QED
    BY <1>7, <2>2, <2>3, <2>4, Zenon
<1>12. PlacesInOrder' /\ Lanes'
  BY <1>2, <1>10 DEF RowsInv, PlacesInOrder, Lanes, settled
<1> QED
  BY <1>11, <1>12 DEF RowsInv

\* HttpIngest::handleRequest: one new row of an http device joins the write queue,
\* and nothing of that device is waiting in the parser.
LEMMA HttpPostRows ==
  ASSUME TypeOK, RowsInv, NEW h \in HttpDevices, HttpPost(h)
  PROVE  RowsInv'
<1> DEFINE k == Len(received)
           b == [dev |-> h, rows |-> <<k + 1>>]
<1>1. /\ h \in Devices /\ h \notin ParsedDevices
      /\ k \in Nat /\ received \in Seq(Devices)
      /\ wq["net"] \in Seq(Batch) /\ cur \in Seq(Row) /\ ingest \in Seq(Seq(Row))
  BY PipelineAssumption DEF TypeOK, Devices, Producers
<1>2. /\ wq' = [wq EXCEPT !["net"] = Append(wq["net"], b)] /\ received' = Append(received, h)
      /\ UNCHANGED <<ingest, cur, batch, hand, submitted, dropped>>
  BY DEF HttpPost, parserVars, writerVars
<1>3. wq'["net"] = Append(wq["net"], b) /\ wq'["parser"] = wq["parser"]
  <2> HIDE DEF b
  <2> QED
    BY <1>2 DEF TypeOK, Producers
<1>4. /\ DOMAIN received = 1 .. k /\ DOMAIN received' = 1 .. k + 1
      /\ \A i \in 1 .. k : received'[i] = received[i]
      /\ received'[k + 1] = h
  BY <1>1, <1>2
<1>5. b \in Batch /\ b.dev = h /\ Elems(b.rows) = {k + 1} /\ Ascending(b.rows)
  <2>1. <<k + 1>> \in Seq(Nat) /\ DOMAIN <<k + 1>> = {1} /\ <<k + 1>>[1] = k + 1
    BY <1>1
  <2> QED
    BY <1>1, <2>1 DEF Batch, Elems, Ascending
<1> HIDE DEF k, b
<1>6. ASSUME NEW d \in Devices
      PROVE  Log!RowsOf(d)' = Log!RowsOf(d) \cup RowsIn(b, d)
  <2>1. CASE d = h
    BY <1>1, <1>4, <1>5, <2>1 DEF Log!RowsOf, RowsIn
  <2>2. CASE d # h
    BY <1>1, <1>4, <1>5, <2>2 DEF Log!RowsOf, RowsIn
  <2> QED
    BY <2>1, <2>2
<1>7. ASSUME NEW d \in Devices
      PROVE  Before(Log!RowsOf(d), RowsIn(b, d))
  <2>1. Log!RowsOf(d) \subseteq 1 .. k
    BY RowsWereReceived DEF k
  <2> QED
    BY <1>1, <1>5, <2>1 DEF Before, RowsIn
<1>8. QueueAscending(wq'["net"])
  <2>1. QueueAscending(wq["net"])
    BY DEF RowsInv, PlacesInOrder, Producers
  <2>2. QueueRows(wq["net"], h) \subseteq Log!RowsOf(h)
    BY <1>1, RowsWereReceived DEF QueuedRows
  <2>3. Before(QueueRows(wq["net"], h), Elems(b.rows))
    BY <1>1, <1>5, <1>7, <2>2 DEF Before, RowsIn
  <2> QED
    BY <1>1, <1>3, <1>5, <2>1, <2>3, QueueAppend, Zenon
<1>9. ASSUME NEW d \in Devices
      PROVE  QueuedRows(d)' = QueuedRows(d) \cup RowsIn(b, d)
  <2>1. QueueRows(Append(wq["net"], b), d) = QueueRows(wq["net"], d) \cup RowsIn(b, d)
    BY <1>1, <1>5, QueueAppend
  <2> QED
    BY <1>3, <2>1 DEF QueuedRows
<1>10. HeldRows(h) = {} /\ ChunkRows(h) = {} /\ WaitingRows(h) = {}
  <2>0. \A r \in Row : r.dev # h
    BY <1>1 DEF Row
  <2>1. \A i \in DOMAIN cur : cur[i].dev # h
    <3>1. \A i \in DOMAIN cur : cur[i] \in Row
      BY <1>1
    <3> QED
      BY <2>0, <3>1
  <2>2. ASSUME NEW i \in DOMAIN ingest, NEW j \in DOMAIN ingest[i] PROVE ingest[i][j].dev # h
    <3>1. ingest[i] \in Seq(Row)
      BY <1>1
    <3>2. ingest[i][j] \in Row
      BY <3>1
    <3> QED
      BY <2>0, <3>2
  <2> QED
    BY <1>1, <2>1, <2>2 DEF HeldRows, ChunkRows, WaitingRows, ChunksRows, RowsOfDevice
<1>11. RowsOnPath'
  <2> SUFFICES ASSUME NEW d \in Devices
               PROVE  Path(Log!RowsOf(d), SettledRows(d), HandRows(d), QueuedRows(d), HeldRows(d),
                           ChunkRows(d), WaitingRows(d))'
    BY DEF RowsOnPath
  <2>1. Path(Log!RowsOf(d), SettledRows(d), HandRows(d), QueuedRows(d), HeldRows(d),
             ChunkRows(d), WaitingRows(d))
    BY DEF RowsInv, RowsOnPath
  <2>2. Path(Log!RowsOf(d) \cup RowsIn(b, d), SettledRows(d), HandRows(d),
             QueuedRows(d) \cup RowsIn(b, d), HeldRows(d), ChunkRows(d), WaitingRows(d))
    <3>1. CASE d = h
      <4>1. Path(Log!RowsOf(d), SettledRows(d), HandRows(d), QueuedRows(d), {}, {}, {})
        BY <1>10, <2>1, <3>1
      <4>2. Before(Log!RowsOf(d), RowsIn(b, d))
        BY <1>7
      <4>3. Path(Log!RowsOf(d) \cup RowsIn(b, d), SettledRows(d), HandRows(d),
                 QueuedRows(d) \cup RowsIn(b, d), {}, {}, {})
        BY <4>1, <4>2, NewInQueue
      <4> QED
        BY <1>10, <3>1, <4>3
    <3>2. CASE d # h
      <4>1. RowsIn(b, d) = {}
        BY <1>5, <3>2 DEF RowsIn
      <4>2. Log!RowsOf(d) \cup RowsIn(b, d) = Log!RowsOf(d)
            /\ QueuedRows(d) \cup RowsIn(b, d) = QueuedRows(d)
        BY <4>1
      <4> QED
        BY <2>1, <4>2
    <3> QED
      BY <3>1, <3>2
  <2>3. /\ SettledRows(d)' = SettledRows(d) /\ HandRows(d)' = HandRows(d)
        /\ HeldRows(d)' = HeldRows(d) /\ ChunkRows(d)' = ChunkRows(d)
        /\ WaitingRows(d)' = WaitingRows(d)
    BY <1>2 DEF SettledRows, settled, HandRows, HeldRows, ChunkRows, WaitingRows
  <2> QED
    BY <1>6, <1>9, <2>2, <2>3, Zenon
<1>12. PlacesInOrder'
  BY <1>2, <1>3, <1>8 DEF RowsInv, PlacesInOrder, settled, Producers
<1>13. Lanes'
  <2>1. ASSUME NEW i \in DOMAIN wq'["net"] PROVE wq'["net"][i].dev \in HttpDevices
    <3>1. (i \in DOMAIN wq["net"] /\ wq'["net"][i] = wq["net"][i]) \/ wq'["net"][i] = b
      BY <1>1, <1>3, <1>5, AppendIndices
    <3> QED
      BY <1>5, <3>1 DEF RowsInv, Lanes
  <2> QED
    BY <1>2, <1>3, <2>1 DEF RowsInv, Lanes
<1> QED
  BY <1>11, <1>12, <1>13 DEF RowsInv

-----------------------------------------------------------------------------
\* Steps of the parser.

\* wait_dequeue_timed returned a chunk: its rows move from the queue to the parser.
LEMMA ParserDequeueRows ==
  ASSUME TypeOK, ShutdownInv, RowsInv, ParserDequeue
  PROVE  RowsInv'
<1>1. /\ ingest \in Seq(Seq(Row)) /\ ingest # <<>>
      /\ cur' = Head(ingest) /\ ingest' = Tail(ingest)
      /\ UNCHANGED <<batch, wq, hand, received, submitted, dropped>>
  BY DEF TypeOK, ParserDequeue, writerVars
<1>2. cur = <<>>
  BY DEF ParserDequeue, ShutdownInv, HandedOn
<1>3. ChunksAscending(ingest)
  BY DEF RowsInv, PlacesInOrder
<1>4. RowsAscending(cur') /\ ChunksAscending(ingest')
  BY <1>1, <1>3, ChunksTake
<1>5. RowsOnPath'
  <2> SUFFICES ASSUME NEW d \in Devices
               PROVE  Path(Log!RowsOf(d), SettledRows(d), HandRows(d), QueuedRows(d), HeldRows(d),
                           ChunkRows(d), WaitingRows(d))'
    BY DEF RowsOnPath
  <2>1. Path(Log!RowsOf(d), SettledRows(d), HandRows(d), QueuedRows(d), HeldRows(d),
             ChunkRows(d), WaitingRows(d))
    BY DEF RowsInv, RowsOnPath
  <2>2. ChunkRows(d) = {}
    BY <1>2 DEF ChunkRows, RowsOfDevice
  <2>3. /\ WaitingRows(d) = ChunkRows(d)' \cup WaitingRows(d)'
        /\ Before(ChunkRows(d)', WaitingRows(d)')
    BY <1>1, <1>3, ChunksTake DEF ChunkRows, WaitingRows
  <2>4. Path(Log!RowsOf(d), SettledRows(d), HandRows(d), QueuedRows(d), HeldRows(d),
             ChunkRows(d)', WaitingRows(d)')
    BY <2>1, <2>2, <2>3, MoveToChunk
  <2>5. /\ Log!RowsOf(d)' = Log!RowsOf(d) /\ SettledRows(d)' = SettledRows(d)
        /\ HandRows(d)' = HandRows(d) /\ QueuedRows(d)' = QueuedRows(d)
        /\ HeldRows(d)' = HeldRows(d)
    BY <1>1 DEF Log!RowsOf, SettledRows, settled, HandRows, QueuedRows, HeldRows
  <2> QED
    BY <2>4, <2>5
<1>6. PlacesInOrder' /\ Lanes'
  BY <1>1, <1>4 DEF RowsInv, PlacesInOrder, Lanes, settled
<1> QED
  BY <1>5, <1>6 DEF RowsInv

\* ParserWorker::appendRow: the oldest row of the chunk joins its device's batch.
LEMMA AppendRowRows ==
  ASSUME TypeOK, RowsInv, AppendRow
  PROVE  RowsInv'
<1> DEFINE r == Head(cur)
           e == r.dev
           x == r.seq
<1>1. /\ cur \in Seq(Row) /\ cur # <<>> /\ r \in Row /\ cur' = Tail(cur)
      /\ batch \in [ParsedDevices -> Seq(Nat)]
  BY DEF TypeOK, AppendRow
<1>2. e \in ParsedDevices /\ x \in Nat /\ e \in Devices /\ batch[e] \in Seq(Nat)
  BY <1>1 DEF Row, Devices
<1>3. batch' = [batch EXCEPT ![e] = Append(batch[e], x)]
  BY DEF AppendRow
<1>4. UNCHANGED <<ingest, wq, hand, received, submitted, dropped>>
  BY DEF AppendRow, inputVars, writerVars
<1>5. \A d : RowIf(r, d) = IF d = e THEN {x} ELSE {}
  BY DEF RowIf
<1> HIDE DEF r, e, x
<1>6. batch'[e] = Append(batch[e], x) /\ \A d \in ParsedDevices : d # e => batch'[d] = batch[d]
  BY <1>1, <1>2, <1>3
<1>7. RowsAscending(cur)
  BY DEF RowsInv, PlacesInOrder
<1>8. /\ RowsAscending(cur')
      /\ \A d : /\ RowsOfDevice(cur, d) = RowIf(r, d) \cup RowsOfDevice(cur', d)
                /\ Before(RowIf(r, d), RowsOfDevice(cur', d))
  BY <1>1, <1>7, ChunkTake DEF r
<1>9. ASSUME NEW d \in Devices PROVE HeldRows(d)' = HeldRows(d) \cup RowIf(r, d)
  <2>1. CASE d = e
    <3>1. Elems(Append(batch[e], x)) = Elems(batch[e]) \cup {x}
      BY <1>2, ElemsAppend
    <3> QED
      BY <1>2, <1>5, <1>6, <2>1, <3>1, Zenon DEF HeldRows
  <2>2. CASE d # e
    BY <1>5, <1>6, <2>2 DEF HeldRows
  <2> QED
    BY <2>1, <2>2
<1>10. ASSUME NEW d \in Devices
       PROVE  Path(Log!RowsOf(d), SettledRows(d), HandRows(d), QueuedRows(d), HeldRows(d),
                   ChunkRows(d), WaitingRows(d))'
  <2>1. Path(Log!RowsOf(d), SettledRows(d), HandRows(d), QueuedRows(d), HeldRows(d),
             ChunkRows(d), WaitingRows(d))
    BY DEF RowsInv, RowsOnPath
  <2>2. ChunkRows(d) = RowIf(r, d) \cup ChunkRows(d)' /\ Before(RowIf(r, d), ChunkRows(d)')
    BY <1>8 DEF ChunkRows
  <2>3. Path(Log!RowsOf(d), SettledRows(d), HandRows(d), QueuedRows(d),
             HeldRows(d) \cup RowIf(r, d), ChunkRows(d)', WaitingRows(d))
    BY <2>1, <2>2, MoveToBatch
  <2>4. /\ Log!RowsOf(d)' = Log!RowsOf(d) /\ SettledRows(d)' = SettledRows(d)
        /\ HandRows(d)' = HandRows(d) /\ QueuedRows(d)' = QueuedRows(d)
        /\ WaitingRows(d)' = WaitingRows(d)
    BY <1>4 DEF Log!RowsOf, SettledRows, settled, HandRows, QueuedRows, WaitingRows
  <2> QED
    BY <1>9, <2>3, <2>4
<1>11. ASSUME NEW d \in ParsedDevices PROVE Ascending(batch'[d])
  <2>1. Ascending(batch[d])
    BY DEF RowsInv, PlacesInOrder
  <2>2. CASE d = e
    <3>1. Path(Log!RowsOf(e), SettledRows(e), HandRows(e), QueuedRows(e), HeldRows(e),
               ChunkRows(e), WaitingRows(e))
      BY <1>2 DEF RowsInv, RowsOnPath
    <3>2. x \in ChunkRows(e)
      BY <1>5, <1>8 DEF ChunkRows
    <3>3. HeldRows(e) = Elems(batch[e])
      BY <1>2 DEF HeldRows
    <3>4. Before(Elems(batch[e]), {x})
      BY <3>1, <3>2, <3>3 DEF Path, Before
    <3> QED
      BY <1>2, <1>6, <2>1, <2>2, <3>4, AppendAscending, Zenon
  <2>3. CASE d # e
    BY <1>6, <2>1, <2>3
  <2> QED
    BY <2>2, <2>3
<1>12. PlacesInOrder' /\ Lanes'
  BY <1>4, <1>8, <1>11 DEF RowsInv, PlacesInOrder, Lanes, settled
<1> QED
  BY <1>10, <1>12 DEF RowsInv, RowsOnPath

\* ParserWorker::flushDevice: the batch of e moves to the parser's lane of the
\* write queue.
LEMMA FlushRows ==
  ASSUME TypeOK, RowsInv, NEW e \in ParsedDevices, FlushDevice(e),
         UNCHANGED <<ingest, cur, hand, received, submitted, dropped>>
  PROVE  RowsInv'
<1> DEFINE b == [dev |-> e, rows |-> batch[e]]
<1>1. /\ e \in Devices /\ batch \in [ParsedDevices -> Seq(Nat)] /\ batch[e] \in Seq(Nat)
      /\ wq["parser"] \in Seq(Batch) /\ b \in Batch /\ b.dev = e /\ b.rows = batch[e]
  BY DEF TypeOK, Devices, Producers, Batch
<1>2. /\ wq' = [wq EXCEPT !["parser"] = Append(wq["parser"], b)]
      /\ batch' = [batch EXCEPT ![e] = <<>>]
  BY DEF FlushDevice
<1> HIDE DEF b
<1>3. wq'["parser"] = Append(wq["parser"], b) /\ wq'["net"] = wq["net"]
  BY <1>2 DEF TypeOK, Producers
<1>4. batch'[e] = <<>> /\ \A d \in ParsedDevices : d # e => batch'[d] = batch[d]
  BY <1>1, <1>2
<1>5. Path(Log!RowsOf(e), SettledRows(e), HandRows(e), QueuedRows(e), HeldRows(e),
           ChunkRows(e), WaitingRows(e))
  BY <1>1 DEF RowsInv, RowsOnPath
<1>6. ASSUME NEW d \in Devices PROVE QueuedRows(d)' = QueuedRows(d) \cup RowsIn(b, d)
  <2>1. QueueRows(Append(wq["parser"], b), d) = QueueRows(wq["parser"], d) \cup RowsIn(b, d)
    BY <1>1, QueueAppend
  <2> QED
    BY <1>3, <2>1 DEF QueuedRows
<1>7. QueueAscending(wq'["parser"])
  <2>1. QueueAscending(wq["parser"]) /\ Ascending(batch[e])
    BY DEF RowsInv, PlacesInOrder, Producers
  <2>2. HeldRows(e) = Elems(batch[e]) /\ QueueRows(wq["parser"], e) \subseteq QueuedRows(e)
    BY DEF HeldRows, QueuedRows
  <2>3. Before(QueueRows(wq["parser"], e), Elems(batch[e]))
    BY <1>5, <2>2 DEF Path, Before
  <2> QED
    BY <1>1, <1>3, <2>1, <2>3, QueueAppend, Zenon
<1>8. ASSUME NEW d \in Devices
      PROVE  Path(Log!RowsOf(d), SettledRows(d), HandRows(d), QueuedRows(d), HeldRows(d),
                  ChunkRows(d), WaitingRows(d))'
  <2>1. Path(Log!RowsOf(d), SettledRows(d), HandRows(d), QueuedRows(d), HeldRows(d),
             ChunkRows(d), WaitingRows(d))
    BY DEF RowsInv, RowsOnPath
  <2>2. Path(Log!RowsOf(d), SettledRows(d), HandRows(d), QueuedRows(d)', HeldRows(d)',
             ChunkRows(d), WaitingRows(d))
    <3>1. CASE d = e
      <4>1. HeldRows(d) = RowsIn(b, d)
        BY <1>1, <3>1 DEF HeldRows, RowsIn
      <4>2. HeldRows(d)' = {}
        BY <1>4, <3>1 DEF HeldRows, Elems
      <4>3. Path(Log!RowsOf(d), SettledRows(d), HandRows(d), QueuedRows(d) \cup HeldRows(d), {},
                 ChunkRows(d), WaitingRows(d))
        BY <2>1, MoveToQueue
      <4> QED
        BY <1>6, <4>1, <4>2, <4>3
    <3>2. CASE d # e
      <4>1. RowsIn(b, d) = {}
        BY <1>1, <3>2 DEF RowsIn
      <4>2. QueuedRows(d)' = QueuedRows(d)
        BY <1>6, <4>1
      <4>3. HeldRows(d)' = HeldRows(d)
        BY <1>4, <3>2 DEF HeldRows
      <4> QED
        BY <2>1, <4>2, <4>3
    <3> QED
      BY <3>1, <3>2
  <2>3. /\ Log!RowsOf(d)' = Log!RowsOf(d) /\ SettledRows(d)' = SettledRows(d)
        /\ HandRows(d)' = HandRows(d) /\ ChunkRows(d)' = ChunkRows(d)
        /\ WaitingRows(d)' = WaitingRows(d)
    BY DEF Log!RowsOf, SettledRows, settled, HandRows, ChunkRows, WaitingRows
  <2> QED
    BY <2>2, <2>3
<1>9. \A d \in ParsedDevices : Ascending(batch'[d])
  BY <1>4 DEF RowsInv, PlacesInOrder, Ascending
<1>10. PlacesInOrder'
  BY <1>3, <1>7, <1>9, Zenon DEF RowsInv, PlacesInOrder, settled, Producers
<1>11. Lanes'
  <2>1. ASSUME NEW i \in DOMAIN wq'["parser"] PROVE wq'["parser"][i].dev \in ParsedDevices
    <3>1. (i \in DOMAIN wq["parser"] /\ wq'["parser"][i] = wq["parser"][i]) \/ wq'["parser"][i] = b
      BY <1>1, <1>3, AppendIndices
    <3> QED
      BY <1>1, <3>1 DEF RowsInv, Lanes
  <2> QED
    BY <1>3, <2>1 DEF RowsInv, Lanes
<1> QED
  BY <1>8, <1>10, <1>11 DEF RowsInv, RowsOnPath

-----------------------------------------------------------------------------
\* Steps of the writer.

\* The oldest batch of one lane goes into the writer's empty hand; the other lane
\* holds no rows of its device.
LEMMA WriterDequeueRows ==
  ASSUME TypeOK, ShutdownInv, RowsInv, NEW p \in Producers, WriterDequeue(p)
  PROVE  RowsInv'
<1> DEFINE b == Head(wq[p])
<1>1. /\ wq \in [Producers -> Seq(Batch)] /\ wq[p] \in Seq(Batch) /\ wq[p] # <<>>
      /\ hand' = b /\ wq' = [wq EXCEPT ![p] = Tail(wq[p])]
      /\ UNCHANGED <<ingest, cur, batch, received, submitted, dropped>>
  BY DEF TypeOK, WriterDequeue, inputVars, parserVars
<1>2. hand.rows = <<>>
  BY DEF WriterDequeue, ShutdownInv, HandedOn
<1>3. /\ b \in Batch /\ 1 \in DOMAIN wq[p] /\ wq[p][1] = b
      /\ \A i \in DOMAIN Tail(wq[p]) : i + 1 \in DOMAIN wq[p] /\ Tail(wq[p])[i] = wq[p][i + 1]
  BY <1>1, TailIndices
<1>4. QueueAscending(wq[p])
  BY DEF RowsInv, PlacesInOrder
<1>5. /\ Ascending(b.rows) /\ QueueAscending(Tail(wq[p]))
      /\ \A d : /\ QueueRows(wq[p], d) = RowsIn(b, d) \cup QueueRows(Tail(wq[p]), d)
                /\ Before(RowsIn(b, d), QueueRows(Tail(wq[p]), d))
  BY <1>1, <1>4, QueueTake
<1> HIDE DEF b
<1>6. wq'[p] = Tail(wq[p]) /\ \A q \in Producers : q # p => wq'[q] = wq[q]
  BY <1>1
<1>7. ASSUME NEW q \in Producers, q # p, NEW d
      PROVE  Before(RowsIn(b, d), QueueRows(wq[q], d))
  <2>1. CASE b.dev = d
    <3>1. \A i \in DOMAIN wq[q] : wq[q][i].dev # d
      BY <1>3, <1>7, <2>1, PipelineAssumption DEF RowsInv, Lanes, Producers
    <3>2. QueueRows(wq[q], d) = {}
      BY <3>1 DEF QueueRows
    <3> QED
      BY <3>2 DEF Before
  <2>2. CASE b.dev # d
    BY <2>2 DEF RowsIn, Before
  <2> QED
    BY <2>1, <2>2
<1>8. ASSUME NEW d
      PROVE  /\ QueuedRows(d) = RowsIn(b, d) \cup QueuedRows(d)'
             /\ Before(RowsIn(b, d), QueuedRows(d)')
  <2>1. CASE p = "parser"
    <3>1. wq'["net"] = wq["net"] /\ Before(RowsIn(b, d), QueueRows(wq["net"], d))
      BY <1>6, <1>7, <2>1 DEF Producers
    <3> QED
      BY <1>5, <1>6, <2>1, <3>1 DEF QueuedRows, Before
  <2>2. CASE p = "net"
    <3>1. wq'["parser"] = wq["parser"] /\ Before(RowsIn(b, d), QueueRows(wq["parser"], d))
      BY <1>6, <1>7, <2>2 DEF Producers
    <3> QED
      BY <1>5, <1>6, <2>2, <3>1 DEF QueuedRows, Before
  <2> QED
    BY <2>1, <2>2 DEF Producers
<1>9. ASSUME NEW d \in Devices
      PROVE  Path(Log!RowsOf(d), SettledRows(d), HandRows(d), QueuedRows(d), HeldRows(d),
                  ChunkRows(d), WaitingRows(d))'
  <2>1. Path(Log!RowsOf(d), SettledRows(d), HandRows(d), QueuedRows(d), HeldRows(d),
             ChunkRows(d), WaitingRows(d))
    BY DEF RowsInv, RowsOnPath
  <2>2. HandRows(d) = {}
    BY <1>2 DEF HandRows, Elems
  <2>3. HandRows(d)' = RowsIn(b, d)
    BY <1>1 DEF HandRows, RowsIn
  <2>4. QueuedRows(d) = RowsIn(b, d) \cup QueuedRows(d)' /\ Before(RowsIn(b, d), QueuedRows(d)')
    BY <1>8
  <2>5. Path(Log!RowsOf(d), SettledRows(d), RowsIn(b, d), QueuedRows(d)', HeldRows(d),
             ChunkRows(d), WaitingRows(d))
    BY <2>1, <2>2, <2>4, MoveToHand
  <2>6. /\ Log!RowsOf(d)' = Log!RowsOf(d) /\ SettledRows(d)' = SettledRows(d)
        /\ HeldRows(d)' = HeldRows(d) /\ ChunkRows(d)' = ChunkRows(d)
        /\ WaitingRows(d)' = WaitingRows(d)
    BY <1>1 DEF Log!RowsOf, SettledRows, settled, HeldRows, ChunkRows, WaitingRows
  <2> QED
    BY <2>3, <2>5, <2>6
<1>10. PlacesInOrder'
  <2>1. \A q \in Producers : QueueAscending(wq'[q])
    BY <1>5, <1>6 DEF RowsInv, PlacesInOrder
  <2> QED
    BY <1>1, <1>5, <2>1 DEF RowsInv, PlacesInOrder, settled
<1>11. Lanes'
  <2>1. ASSUME NEW q \in Producers, NEW i \in DOMAIN wq'[q]
        PROVE  \E j \in DOMAIN wq[q] : wq'[q][i] = wq[q][j]
    <3>1. CASE q = p
      BY <1>3, <1>6, <3>1, Zenon
    <3>2. CASE q # p
      BY <1>6, <3>2
    <3> QED
      BY <3>1, <3>2
  <2>2. /\ \A i \in DOMAIN wq'["parser"] : wq'["parser"][i].dev \in ParsedDevices
        /\ \A i \in DOMAIN wq'["net"] : wq'["net"][i].dev \in HttpDevices
    BY <2>1 DEF RowsInv, Lanes, Producers
  <2> QED
    BY <1>1, <2>2 DEF RowsInv, Lanes
<1> QED
  BY <1>9, <1>10, <1>11 DEF RowsInv, RowsOnPath

\* The first n rows in hand become settled: what both ends of writeBatch do.
LEMMA SettleRows ==
  ASSUME TypeOK, RowsInv, NEW n \in Nat, n <= Len(hand.rows),
         hand' = [dev |-> hand.dev, rows |-> SubSeq(hand.rows, n + 1, Len(hand.rows))],
         settled'[hand.dev] = settled[hand.dev] \o SubSeq(hand.rows, 1, n),
         \A d \in Devices : d # hand.dev => settled'[d] = settled[d],
         UNCHANGED <<ingest, cur, batch, wq, received>>
  PROVE  RowsOnPath' /\ PlacesInOrder'
<1> DEFINE e == hand.dev
           X == SubSeq(hand.rows, 1, n)
           Y == SubSeq(hand.rows, n + 1, Len(hand.rows))
<1>1. e \in Devices /\ hand.rows \in Seq(Nat) /\ settled[e] \in Seq(Nat) /\ Ascending(hand.rows)
  BY DEF TypeOK, Batch, RowsInv, PlacesInOrder, settled
<1>2. /\ X \in Seq(Nat) /\ Y \in Seq(Nat)
      /\ Elems(hand.rows) = Elems(X) \cup Elems(Y)
      /\ Ascending(X) /\ Ascending(Y) /\ Before(Elems(X), Elems(Y))
  <2>1. n \in Nat /\ n <= Len(hand.rows) /\ hand.rows \in Seq(Nat) /\ Ascending(hand.rows)
    BY <1>1
  <2> QED
    BY ONLY <2>1, CutAscending, Zenon
<1>3. hand'.dev = e /\ hand'.rows = Y /\ settled'[e] = settled[e] \o X
  OBVIOUS
<1>4. Path(Log!RowsOf(e), SettledRows(e), HandRows(e), QueuedRows(e), HeldRows(e),
           ChunkRows(e), WaitingRows(e))
  BY <1>1 DEF RowsInv, RowsOnPath
<1>5. /\ HandRows(e) = Elems(X) \cup Elems(Y)
      /\ \A d \in Devices : d = e => HandRows(d)' = Elems(Y)
  BY <1>2, <1>3 DEF HandRows
<1>6. \A d \in Devices : d # e => HandRows(d) = {} /\ HandRows(d)' = {} /\ settled'[d] = settled[d]
  BY <1>3 DEF HandRows
<1> HIDE DEF e, X, Y
<1>7. Before(Elems(settled[e]), Elems(X)) /\ Ascending(settled[e])
  BY <1>1, <1>4, <1>5 DEF RowsInv, PlacesInOrder, Path, Before, SettledRows
<1>8. Elems(settled'[e]) = Elems(settled[e]) \cup Elems(X) /\ Ascending(settled'[e])
  BY ONLY <1>1, <1>2, <1>3, <1>7, ConcatAscending
<1>9. ASSUME NEW d \in Devices
      PROVE  Path(Log!RowsOf(d), SettledRows(d), HandRows(d), QueuedRows(d), HeldRows(d),
                  ChunkRows(d), WaitingRows(d))'
  <2>1. Path(Log!RowsOf(d), SettledRows(d), HandRows(d), QueuedRows(d), HeldRows(d),
             ChunkRows(d), WaitingRows(d))
    BY DEF RowsInv, RowsOnPath
  <2>2. Path(Log!RowsOf(d), SettledRows(d)', HandRows(d)', QueuedRows(d), HeldRows(d),
             ChunkRows(d), WaitingRows(d))
    <3>1. CASE d = e
      <4>1. SettledRows(d)' = SettledRows(d) \cup Elems(X)
        BY <1>8, <3>1 DEF SettledRows
      <4>2. Path(Log!RowsOf(d), SettledRows(d) \cup Elems(X), Elems(Y), QueuedRows(d), HeldRows(d),
                 ChunkRows(d), WaitingRows(d))
        BY <1>2, <1>5, <2>1, <3>1, MoveToSettled, Zenon
      <4> QED
        BY <1>5, <3>1, <4>1, <4>2
    <3>2. CASE d # e
      <4>1. SettledRows(d)' = SettledRows(d) /\ HandRows(d)' = HandRows(d)
        <5>1. settled'[d] = settled[d] /\ HandRows(d)' = {} /\ HandRows(d) = {}
          BY <1>6, <3>2
        <5>2. Elems(settled'[d]) = Elems(settled[d])
          BY <5>1
        <5> QED
          BY <5>1, <5>2 DEF SettledRows
      <4> QED
        BY <2>1, <4>1
    <3> QED
      BY <3>1, <3>2
  <2>3. /\ Log!RowsOf(d)' = Log!RowsOf(d) /\ QueuedRows(d)' = QueuedRows(d)
        /\ HeldRows(d)' = HeldRows(d) /\ ChunkRows(d)' = ChunkRows(d)
        /\ WaitingRows(d)' = WaitingRows(d)
    BY DEF Log!RowsOf, QueuedRows, HeldRows, ChunkRows, WaitingRows
  <2> QED
    BY <2>2, <2>3
<1>10. \A d \in Devices : Ascending(settled'[d])
  BY <1>6, <1>8 DEF RowsInv, PlacesInOrder
<1>11. PlacesInOrder'
  BY <1>2, <1>3, <1>10, Zenon DEF RowsInv, PlacesInOrder
<1> QED
  BY <1>9, <1>11 DEF RowsOnPath

\* One statement of writeBatch: at most Capacity rows are submitted.
LEMMA WriteRowsRows ==
  ASSUME TypeOK, RowsInv, WriteRows
  PROVE  /\ RowsInv'
         /\ \E n \in Nat \ {0} :
              /\ n <= Len(hand.rows)
              /\ settled'[hand.dev] = settled[hand.dev] \o SubSeq(hand.rows, 1, n)
              /\ \A d \in Devices : d # hand.dev => settled'[d] = settled[d]
<1> DEFINE e == hand.dev
           l == Len(hand.rows)
           n == IF l < Capacity(e) THEN l ELSE Capacity(e)
<1>1. /\ e \in Devices /\ e \notin Sinkless /\ hand.rows \in Seq(Nat) /\ hand.rows # <<>>
      /\ submitted \in [Devices -> Seq(Nat)]
      /\ UNCHANGED <<ingest, cur, batch, wq, received, dropped>>
  BY DEF TypeOK, Batch, WriteRows, inputVars, parserVars
<1>2. l \in Nat \ {0}
  BY <1>1
<1>3. Capacity(e) \in Nat \ {0}
  BY PipelineAssumption DEF Capacity, kMaxRowsPerStmt
<1>4. /\ submitted' = [submitted EXCEPT ![e] = submitted[e] \o SubSeq(hand.rows, 1, n)]
      /\ hand' = [dev |-> e, rows |-> SubSeq(hand.rows, n + 1, l)]
  BY DEF WriteRows
<1> HIDE DEF l
<1>5. n \in Nat \ {0} /\ n <= l
  BY <1>2, <1>3
<1> HIDE DEF n, e
<1>6. /\ submitted'[e] = submitted[e] \o SubSeq(hand.rows, 1, n)
      /\ \A d \in Devices : d # e => submitted'[d] = submitted[d]
  BY <1>1, <1>4, Zenon
<1>7. /\ settled'[e] = settled[e] \o SubSeq(hand.rows, 1, n)
      /\ \A d \in Devices : d # e => settled'[d] = settled[d]
  BY <1>1, <1>6, Zenon DEF settled
<1>8. RowsOnPath' /\ PlacesInOrder'
  BY <1>1, <1>4, <1>5, <1>7, SettleRows, Zenon DEF e, l
<1>9. Lanes'
  <2>1. ASSUME NEW d \in Devices
        PROVE  IF d \in Sinkless THEN submitted'[d] = <<>> ELSE dropped'[d] = <<>>
    BY <1>1, <1>6, SMTT(30) DEF RowsInv, Lanes
  <2> QED
    BY <1>1, <2>1 DEF RowsInv, Lanes
<1> QED
  BY <1>5, <1>7, <1>8, <1>9, Zenon DEF RowsInv, e, l

\* writeBatch without a sink: the whole batch is dropped.
LEMMA WriteNoSinkRows ==
  ASSUME TypeOK, RowsInv, WriteNoSink
  PROVE  /\ RowsInv'
         /\ \E n \in Nat \ {0} :
              /\ n <= Len(hand.rows)
              /\ settled'[hand.dev] = settled[hand.dev] \o SubSeq(hand.rows, 1, n)
              /\ \A d \in Devices : d # hand.dev => settled'[d] = settled[d]
<1> DEFINE e == hand.dev
           n == Len(hand.rows)
<1>1. /\ e \in Devices /\ e \in Sinkless /\ hand.rows \in Seq(Nat) /\ hand.rows # <<>>
      /\ dropped \in [Devices -> Seq(Nat)]
      /\ UNCHANGED <<ingest, cur, batch, wq, received, submitted>>
  BY DEF TypeOK, Batch, WriteNoSink, inputVars, parserVars
<1>2. /\ dropped' = [dropped EXCEPT ![e] = dropped[e] \o hand.rows]
      /\ hand' = [dev |-> e, rows |-> <<>>]
  BY DEF WriteNoSink
<1>3. /\ n \in Nat \ {0}
      /\ SubSeq(hand.rows, 1, n) = hand.rows
      /\ SubSeq(hand.rows, n + 1, n) = <<>>
  BY <1>1
<1> HIDE DEF n, e
<1>4. /\ dropped'[e] = dropped[e] \o hand.rows
      /\ \A d \in Devices : d # e => dropped'[d] = dropped[d]
  BY <1>1, <1>2
<1>5. /\ settled'[e] = settled[e] \o SubSeq(hand.rows, 1, n)
      /\ \A d \in Devices : d # e => settled'[d] = settled[d]
  BY <1>1, <1>3, <1>4, Zenon DEF settled
<1>6. hand' = [dev |-> e, rows |-> SubSeq(hand.rows, n + 1, n)]
  BY <1>2, <1>3
<1>7. /\ n \in Nat \ {0} /\ n <= Len(hand.rows)
      /\ hand' = [dev |-> hand.dev, rows |-> SubSeq(hand.rows, n + 1, Len(hand.rows))]
      /\ settled'[hand.dev] = settled[hand.dev] \o SubSeq(hand.rows, 1, n)
      /\ \A d \in Devices : d # hand.dev => settled'[d] = settled[d]
  <2>1. n = Len(hand.rows) /\ e = hand.dev /\ n \in Nat \ {0} /\ n <= n
    BY <1>3 DEF e, n
  <2> QED
    BY ONLY <1>5, <1>6, <2>1, Zenon
<1>8. RowsOnPath' /\ PlacesInOrder'
  BY <1>1, <1>7, SettleRows, Zenon
<1>9. Lanes'
  <2>1. ASSUME NEW d \in Devices
        PROVE  IF d \in Sinkless THEN submitted'[d] = <<>> ELSE dropped'[d] = <<>>
    BY <1>1, <1>4 DEF RowsInv, Lanes
  <2> QED
    BY <1>1, <2>1 DEF RowsInv, Lanes
<1> QED
  BY <1>7, <1>8, <1>9, Zenon DEF RowsInv

-----------------------------------------------------------------------------
\* Every step of the adapter keeps the rows in place and in order.
LEMMA RowsStep ==
  ASSUME TypeOK, ShutdownInv, RowsInv, [Next]_vars
  PROVE  RowsInv'
<1> USE DEF parserVars, inputVars, writerVars
<1>1. CASE AppStart
  BY <1>1, NoRowMoves DEF AppStart, LoadConfig, StartWriter, StartPublish, StartParser, StartServer
<1>2. CASE Receive
  <2>1. ASSUME NEW g \in Groups, NEW n \in 0 .. MaxChunkRows, NEW ds \in [1 .. n -> g],
               OnMessage(g, ds)
        PROVE  RowsInv'
    <3>1. n \in Nat
      BY PipelineAssumption
    <3> QED
      BY <2>1, <3>1, OnMessageRows
  <2> QED
    BY <1>2, <2>1, HttpPostRows DEF Receive
<1>3. CASE LoopReturns
  BY <1>3, NoRowMoves DEF LoopReturns
<1>4. CASE Parser
  <2>1. CASE ParserCheck \/ FeedReturns \/ ChunkDone \/ ParserIdle \/ FlushAllDone
    BY <2>1, NoRowMoves DEF ParserCheck, FeedReturns, ChunkDone, ParserIdle, FlushAllDone
  <2>2. CASE FlushTouched
    <3>1. Head(touched) \in ParsedDevices
      BY <2>2 DEF TypeOK, FlushTouched
    <3>2. CASE FlushDue(Head(touched))
      BY <2>2, <3>1, <3>2, FlushRows DEF FlushTouched
    <3>3. CASE ~FlushDue(Head(touched))
      BY <2>2, <3>3, NoRowMoves DEF FlushTouched
    <3> QED
      BY <3>2, <3>3
  <2>3. ASSUME NEW d \in ParsedDevices, FlushAllStep(d) PROVE RowsInv'
    BY <2>3, FlushRows DEF FlushAllStep
  <2> QED
    BY <1>4, <2>1, <2>2, <2>3, ParserDequeueRows, AppendRowRows DEF Parser
<1>5. CASE Writer
  <2>1. CASE WriterCheck \/ WriterEmpty \/ BatchDone
    BY <2>1, NoRowMoves DEF WriterCheck, WriterEmpty, BatchDone
  <2> QED
    BY <1>5, <2>1, WriterDequeueRows, WriteRowsRows, WriteNoSinkRows, Zenon DEF Writer
<1>6. CASE Publisher
  BY <1>6, NoRowMoves DEF Publisher, PublishCheck, PublishDequeue
<1>7. CASE AppStop
  BY <1>7, NoRowMoves DEF AppStop, StopParser, JoinParser, StopPublish, JoinPublish, StopWriter,
                          JoinWriter, Stop, Join
<1>8. CASE UNCHANGED vars
  BY <1>8, NoRowMoves DEF vars
<1> QED
  BY <1>1, <1>2, <1>3, <1>4, <1>5, <1>6, <1>7, <1>8 DEF Next

\* There are no rows at first.
LEMMA RowsInit ==
  ASSUME Init
  PROVE  RowsInv
<1>1. /\ received = <<>> /\ hand.rows = <<>> /\ cur = <<>> /\ ingest = <<>>
      /\ wq["parser"] = <<>> /\ wq["net"] = <<>>
      /\ \A d \in ParsedDevices : batch[d] = <<>>
      /\ \A d \in Devices : submitted[d] = <<>> /\ dropped[d] = <<>>
  BY DEF Init, NoBatch, Producers
<1>2. \A d \in Devices : settled[d] = <<>>
  BY <1>1 DEF settled
<1>3. ASSUME NEW d \in Devices
      PROVE  /\ Log!RowsOf(d) = {} /\ SettledRows(d) = {} /\ HandRows(d) = {}
             /\ QueuedRows(d) = {} /\ HeldRows(d) = {} /\ ChunkRows(d) = {} /\ WaitingRows(d) = {}
  BY <1>1, <1>2 DEF Log!RowsOf, SettledRows, HandRows, QueuedRows, QueueRows, HeldRows, ChunkRows,
                    WaitingRows, ChunksRows, RowsOfDevice, Elems
<1>4. RowsOnPath
  BY <1>3 DEF RowsOnPath, Path, Before
<1>5. PlacesInOrder
  <2>1. Ascending(<<>>) /\ RowsAscending(<<>>)
    BY DEF Ascending, RowsAscending
  <2>2. QueueAscending(<<>>) /\ ChunksAscending(<<>>)
    BY DEF QueueAscending, ChunksAscending
  <2>3. \A p \in Producers : wq[p] = <<>>
    BY <1>1 DEF Producers
  <2> QED
    BY ONLY <1>1, <1>2, <2>1, <2>2, <2>3 DEF PlacesInOrder
<1>6. Lanes
  BY <1>1 DEF Lanes
<1> QED
  BY <1>4, <1>5, <1>6 DEF RowsInv

\* At every moment the rows received of each device, in the order received, are
\* what EtherDB has, the writer holds, the write queue, the parser's batch, its
\* chunk and the ingest queue, in this order, hold: no thread of the adapter loses,
\* repeats or overtakes a row, for any devices, batch size and interleaving.
THEOREM RowsKeepTheirPlace == Spec => []RowsInv
<1>1. Init => RowsInv
  BY RowsInit
<1>2. TypeOK /\ ShutdownInv /\ RowsInv /\ [Next]_vars => RowsInv'
  BY RowsStep
<1> QED
  BY <1>1, <1>2, TypeCorrect, ShutdownOrderly, PTL DEF Spec

\* No row that AdapterApp received is lost on its way through ParserWorker and
\* EtherDBWriter.
THEOREM NoRowLost == Spec => []EveryRowAccounted
<1>1. TypeOK /\ RowsInv => EveryRowAccounted
  <2> SUFFICES ASSUME TypeOK, RowsInv, NEW n \in DOMAIN received, NEW d, d = received[n]
               PROVE  Unparsed(d, n) \/ InBatch(d, n) \/ Queued(d, n) \/ InHand(d, n) \/ Settled(d, n)
    BY DEF EveryRowAccounted
  <2>1. d \in Devices /\ cur \in Seq(Row) /\ ingest \in Seq(Seq(Row))
    BY DEF TypeOK
  <2>2. n \in Log!RowsOf(d)
    BY DEF Log!RowsOf
  <2>3. n \in SettledRows(d) \cup HandRows(d) \cup QueuedRows(d) \cup HeldRows(d) \cup ChunkRows(d)
              \cup WaitingRows(d)
    BY <2>1, <2>2, Zenon DEF RowsInv, RowsOnPath, Path
  <2>4. CASE n \in SettledRows(d)
    BY <2>1, <2>4 DEF SettledRows, settled, Settled
  <2>5. CASE n \in HandRows(d)
    BY <2>5 DEF HandRows, InHand
  <2>6. CASE n \in QueuedRows(d)
    BY <2>6 DEF QueuedRows, QueueRows, Queued, Producers
  <2>7. CASE n \in HeldRows(d)
    BY <2>7 DEF HeldRows, InBatch
  <2>8. ASSUME NEW c \in Seq(Row), n \in RowsOfDevice(c, d)
        PROVE  [dev |-> d, seq |-> n] \in Elems(c)
    <3>1. PICK i \in DOMAIN c : c[i].dev = d /\ c[i].seq = n
      BY <2>8 DEF RowsOfDevice
    <3>2. c[i] \in Row
      BY <3>1
    <3>3. c[i] = [dev |-> d, seq |-> n]
      BY <3>1, <3>2 DEF Row
    <3> QED
      BY <3>3 DEF Elems
  <2>9. CASE n \in ChunkRows(d)
    BY <2>1, <2>8, <2>9 DEF ChunkRows, Unparsed
  <2>10. CASE n \in WaitingRows(d)
    <3>1. PICK i \in DOMAIN ingest : n \in RowsOfDevice(ingest[i], d)
      BY <2>10 DEF WaitingRows, ChunksRows
    <3>2. ingest[i] \in Seq(Row)
      BY <2>1
    <3> QED
      BY <2>8, <3>1, <3>2 DEF Unparsed
  <2> QED
    BY <2>3, <2>4, <2>5, <2>6, <2>7, <2>9, <2>10
<1> QED
  BY <1>1, TypeCorrect, RowsKeepTheirPlace, PTL

\* EtherDBWriter hands the rows of a device to EtherDB in the order received and
\* none of them twice.
THEOREM RowsSubmittedInOrder == Spec => []SubmittedInOrder
<1>1. RowsInv => SubmittedInOrder
  <2> SUFFICES ASSUME RowsInv, NEW d \in Devices PROVE Ascending(submitted[d])
    BY DEF SubmittedInOrder, Ascending
  <2>1. CASE d \in Sinkless
    BY <2>1 DEF RowsInv, Lanes, Ascending
  <2>2. CASE d \notin Sinkless
    BY <2>2 DEF RowsInv, PlacesInOrder, settled
  <2> QED
    BY <2>1, <2>2
<1> QED
  BY <1>1, RowsKeepTheirPlace, PTL

-----------------------------------------------------------------------------
\* The pipeline implements RowLog.

\* Settling the first rows in hand is a Deliver step up to the last of them.
LEMMA SettleDelivers ==
  ASSUME TypeOK, RowsInv, RowsInv', UNCHANGED received,
         NEW n \in Nat \ {0}, n <= Len(hand.rows),
         settled'[hand.dev] = settled[hand.dev] \o SubSeq(hand.rows, 1, n),
         \A d \in Devices : d # hand.dev => settled'[d] = settled[d]
  PROVE  \E d \in Devices : \E m \in Log!RowsOf(d) : Log!Deliver(d, m)
<1> DEFINE e == hand.dev
           m == hand.rows[n]
           X == SubSeq(hand.rows, 1, n)
           Y == SubSeq(hand.rows, n + 1, Len(hand.rows))
<1>1. e \in Devices /\ hand.rows \in Seq(Nat) /\ settled[e] \in Seq(Nat) /\ Ascending(hand.rows)
  BY DEF TypeOK, Batch, RowsInv, PlacesInOrder, settled
<1>2. /\ X \in Seq(Nat)
      /\ Elems(hand.rows) = Elems(X) \cup Elems(Y)
      /\ Before(Elems(X), Elems(Y))
      /\ m \in Elems(X) /\ \A a \in Elems(X) : a <= m
  <2>1. n \in Nat /\ n > 0 /\ n <= Len(hand.rows) /\ hand.rows \in Seq(Nat) /\ Ascending(hand.rows)
    BY <1>1
  <2> QED
    BY ONLY <2>1, CutAscending, Zenon
<1>3. Path(Log!RowsOf(e), SettledRows(e), HandRows(e), QueuedRows(e), HeldRows(e),
           ChunkRows(e), WaitingRows(e))
  BY <1>1 DEF RowsInv, RowsOnPath
<1>4. HandRows(e) = Elems(X) \cup Elems(Y)
  BY <1>2 DEF HandRows
<1>5. Elems(settled[e] \o X) = Elems(settled[e]) \cup Elems(X)
  BY <1>1, <1>2, ConcatAscending, Zenon
<1>6. settled'[e] = settled[e] \o X
  OBVIOUS
<1>7. m \in Nat
  BY <1>1
<1> DEFINE R == Log!RowsOf(e)
           S == SettledRows(e)
           Z == QueuedRows(e) \cup HeldRows(e) \cup ChunkRows(e) \cup WaitingRows(e)
<1>8. /\ R = S \cup Elems(X) \cup Elems(Y) \cup Z
      /\ Before(S, Elems(X)) /\ Before(Elems(X), Z)
  BY <1>3, <1>4 DEF Path, Before
<1>9. R \subseteq Nat
  <2>1. received \in Seq(Devices)
    BY DEF TypeOK
  <2>2. DOMAIN received \subseteq Nat
    BY ONLY <2>1
  <2> QED
    BY ONLY <2>2 DEF R, Log!RowsOf
<1> HIDE DEF e, m, X, Y, R, S, Z
<1>10. \A x \in R : x <= m <=> x \in S \cup Elems(X)
  <2>1. \A x \in S : x < m
    BY <1>2, <1>8 DEF Before
  <2>2. \A x \in Elems(Y) \cup Z : m < x
    BY <1>2, <1>8 DEF Before
  <2> QED
    BY <1>2, <1>7, <1>8, <1>9, <2>1, <2>2
<1>11. Elems(settled'[e]) = {x \in R : x <= m}
  <2>1. Elems(settled'[e]) = S \cup Elems(X)
    BY <1>5, <1>6 DEF S, SettledRows
  <2> QED
    BY <1>8, <1>10, <2>1
<1>12. \A i \in DOMAIN settled[e] : settled[e][i] < m
  BY <1>2, <1>8, Zenon DEF S, SettledRows, Elems, Before
<1>13. settled' = [settled EXCEPT ![e] = settled'[e]]
  <2>1. settled = [d \in Devices |-> settled[d]] /\ settled' = [d \in Devices |-> settled'[d]]
    BY DEF settled
  <2>2. \A d \in Devices : d # e => settled'[d] = settled[d]
    BY DEF e
  <2> QED
    BY <1>1, <2>1, <2>2
<1>14. Ascending(settled'[e])
  BY <1>1 DEF RowsInv, PlacesInOrder
<1>15. m \in R
  BY <1>2, <1>8
<1>16. Log!Deliver(e, m)
  BY <1>11, <1>12, <1>13, <1>14 DEF Log!Deliver, Log!RowsIn, Log!Increasing, Elems, Ascending, R
<1> QED
  BY <1>1, <1>15, <1>16 DEF R

\* Rows that arrive are a Receive step; a chunk without rows changes nothing.
LEMMA ArrivalReceives ==
  ASSUME TypeOK, NEW ds \in Seq(Devices), received' = received \o ds,
         UNCHANGED <<submitted, dropped>>
  PROVE  Log!Receive \/ UNCHANGED Log!rowVars
<1>1. received \in Seq(Devices)
  BY DEF TypeOK
<1>2. settled' = settled
  BY DEF settled
<1>3. CASE ds = <<>>
  <2>1. received' = received
    BY <1>1, <1>3
  <2> QED
    BY <1>2, <2>1 DEF Log!rowVars
<1>4. CASE ds # <<>>
  <2>1. Len(received') > Len(received)
    BY <1>1, <1>4
  <2>2. SubSeq(received \o ds, 1, Len(received)) = received
    <3> DEFINE u == received \o ds
               k == Len(received)
    <3>1. u \in Seq(Devices) /\ k \in Nat /\ k <= Len(u)
          /\ DOMAIN received = 1 .. k /\ \A i \in 1 .. k : u[i] = received[i]
      BY <1>1
    <3> HIDE DEF u
    <3>2. SubSeq(u, 1, k) \in Seq(Devices) /\ Len(SubSeq(u, 1, k)) = k
          /\ \A i \in 1 .. k : SubSeq(u, 1, k)[i] = u[i]
      BY <3>1
    <3> QED
      BY <1>1, <3>1, <3>2, SeqEqual DEF u
  <2> QED
    BY <1>2, <2>1, <2>2 DEF Log!Receive
<1> QED
  BY <1>3, <1>4

\* Every step of the adapter is a step of RowLog or none.
LEMMA LogStep ==
  ASSUME TypeOK, RowsInv, RowsInv', [Next]_vars
  PROVE  [Log!Next]_(Log!rowVars)
<1>0. ASSUME UNCHANGED <<received, submitted, dropped>> PROVE UNCHANGED Log!rowVars
  BY <1>0 DEF Log!rowVars, settled
<1> USE DEF parserVars, inputVars, writerVars
<1>1. CASE AppStart
  BY <1>0, <1>1 DEF AppStart, LoadConfig, StartWriter, StartPublish, StartParser, StartServer
<1>2. CASE Receive
  <2>1. ASSUME NEW g \in Groups, NEW n \in 0 .. MaxChunkRows, NEW ds \in [1 .. n -> g],
               OnMessage(g, ds)
        PROVE  [Log!Next]_(Log!rowVars)
    <3>1. n \in Nat /\ Len(received) \in Nat
      BY PipelineAssumption DEF TypeOK
    <3>2. ds \in Seq(Devices)
      BY <3>1, ChunkType
    <3>3. received' = received \o ds /\ UNCHANGED <<submitted, dropped>>
      BY <2>1 DEF OnMessage
    <3> QED
      BY <3>2, <3>3, ArrivalReceives DEF Log!Next
  <2>2. ASSUME NEW h \in HttpDevices, HttpPost(h) PROVE [Log!Next]_(Log!rowVars)
    <3>1. <<h>> \in Seq(Devices) /\ received \in Seq(Devices)
      BY DEF Devices, TypeOK
    <3>2. received' = Append(received, h) /\ UNCHANGED <<submitted, dropped>>
      BY <2>2 DEF HttpPost
    <3>3. Append(received, h) = received \o <<h>>
      BY <3>1, AppendIsConcat DEF Devices
    <3> QED
      BY <3>1, <3>2, <3>3, ArrivalReceives, Zenon DEF Log!Next
  <2> QED
    BY <1>2, <2>1, <2>2 DEF Receive
<1>3. CASE LoopReturns
  BY <1>0, <1>3 DEF LoopReturns
<1>4. CASE Parser
  BY <1>0, <1>4 DEF Parser, ParserCheck, ParserDequeue, AppendRow, FeedReturns, FlushTouched,
                    ChunkDone, ParserIdle, FlushAllDone, FlushAllStep
<1>5. CASE Writer
  <2>1. CASE WriterCheck \/ WriterEmpty \/ BatchDone \/ \E p \in Producers : WriterDequeue(p)
    BY <1>0, <2>1 DEF WriterCheck, WriterEmpty, BatchDone, WriterDequeue
  <2>2. CASE WriteRows \/ WriteNoSink
    <3>1. UNCHANGED received
      BY <2>2, Zenon DEF WriteRows, WriteNoSink
    <3>2. PICK n \in Nat \ {0} :
            /\ n <= Len(hand.rows)
            /\ settled'[hand.dev] = settled[hand.dev] \o SubSeq(hand.rows, 1, n)
            /\ \A d \in Devices : d # hand.dev => settled'[d] = settled[d]
      BY <2>2, WriteRowsRows, WriteNoSinkRows, Zenon
    <3> QED
      BY <3>1, <3>2, SettleDelivers, Zenon DEF Log!Next
  <2> QED
    BY <1>5, <2>1, <2>2 DEF Writer
<1>6. CASE Publisher
  BY <1>0, <1>6 DEF Publisher, PublishCheck, PublishDequeue
<1>7. CASE AppStop
  BY <1>0, <1>7 DEF AppStop, StopParser, JoinParser, StopPublish, JoinPublish, StopWriter,
                    JoinWriter, Stop, Join
<1>8. CASE UNCHANGED vars
  BY <1>0, <1>8 DEF vars
<1> QED
  BY <1>1, <1>2, <1>3, <1>4, <1>5, <1>6, <1>7, <1>8 DEF Next

\* The adapter with its threads, queues, batches and statements implements RowLog:
\* whatever the interleaving, what AdapterApp received of a device is delivered in
\* order, none of it twice and none of it skipped.
THEOREM PipelineImplementsRowLog == Spec => ImplementsRowLog
<1>1. Init => Log!Init
  <2> SUFFICES ASSUME Init PROVE Log!Init
    OBVIOUS
  <2>1. received = <<>> /\ \A d \in Devices : submitted[d] = <<>> /\ dropped[d] = <<>>
    BY DEF Init
  <2>2. settled = [d \in Devices |-> <<>>]
    BY <2>1 DEF settled
  <2> QED
    BY <2>1, <2>2 DEF Log!Init
<1>2. TypeOK /\ RowsInv /\ RowsInv' /\ [Next]_vars => [Log!Next]_(Log!rowVars)
  BY LogStep
<1> QED
  BY <1>1, <1>2, TypeCorrect, RowsKeepTheirPlace, PTL DEF Spec, ImplementsRowLog, Log!Spec

=============================================================================
