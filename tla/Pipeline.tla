------------------------------ MODULE Pipeline ------------------------------
(***************************************************************************)
(* The etherAdapter data path and its life cycle:                          *)
(*                                                                         *)
(*   net loop thread --ingest queue--> parser thread --write queue--> writer *)
(*          \---------- HTTP rows --------------------/        thread        *)
(*                       parser thread --publish queue--> publish thread     *)
(*                                                                         *)
(* started and shut down by AdapterApp::run.  Bytes are abstracted: a chunk *)
(* is the sequence of rows FrameCodec decodes from it (possibly none).     *)
(* Each row carries the order in which it was received, `seq`.             *)
(***************************************************************************)
EXTENDS Naturals, Sequences, FiniteSets

CONSTANTS
  Groups,          \* the ingestable endpoints: pairwise disjoint sets of devices
  HttpDevices,     \* conn_proto = http devices, written by the net loop thread
  Immediate,       \* devices with immediateFlush (custom_data status devices)
  Sinkless,        \* devices the writer prepared no sink for
  BatchRows,       \* [etherdb].batchRows: flush threshold and sink capacity
  PublishEnabled,  \* [zmq].enabled
  MaxRows,         \* bound: rows received in one behaviour
  MaxChunkRows,    \* bound: rows decoded from one chunk
  MaxQueue         \* bound: chunks waiting in the ingest queue

ParsedDevices == UNION Groups

Devices == ParsedDevices \cup HttpDevices

\* A device is in one group, and one that is asked by http is in none.  The second is a
\* condition on device_table: ConfigDB groups devices by address whatever their protocol,
\* and IngestServer tests that of a group's first device only, so that an http device that
\* shares its address with another is fed by both.
ASSUME PipelineAssumption ==
  /\ Devices # {}
  /\ \A g \in Groups : g # {}
  /\ \A g, h \in Groups : g # h => g \cap h = {}
  /\ ParsedDevices \cap HttpDevices = {}
  /\ Immediate \subseteq ParsedDevices
  /\ Sinkless \subseteq ParsedDevices
  /\ BatchRows \in Nat \ {0}
  /\ PublishEnabled \in BOOLEAN
  /\ MaxRows \in Nat
  /\ MaxChunkRows \in Nat
  /\ MaxQueue \in Nat

Threads == {"parser", "publisher", "writer"}

\* A moodycamel queue is FIFO for each producer and unordered across producers.
Producers == {"parser", "net"}

VARIABLES
  app,        \* where AdapterApp::run is
  exitCode,   \* what it will return (0 until an error path sets it)
  pc,         \* where each worker thread's run() is
  running,    \* the workers whose _running flag is set
  ingest,     \* IngestQueue: chunks, each a sequence of rows
  cur,        \* rows of the chunk being parsed not yet handed to appendRow
  touched,    \* ParserWorker::_touched
  batch,      \* ParserWorker::_batches: rows collected for each device
  wq,         \* WriteQueue: batches, one FIFO for each producer
  pubQ,       \* PublishQueue::_q: number of batches waiting
  hand,       \* rows of the batch in writeBatch not yet submitted
  received,   \* history: the device of each row received, row n being the n-th
  submitted,  \* history: rows handed to the EtherDB SDK, in order
  dropped     \* history: rows writeBatch returned on without a sink

vars == <<app, exitCode, pc, running, ingest, cur, touched, batch, wq, pubQ,
          hand, received, submitted, dropped>>

parserVars == <<cur, touched, batch>>
inputVars  == <<ingest, received>>
writerVars == <<hand, submitted, dropped>>
appVars    == <<app, exitCode, running>>

Row == [dev : ParsedDevices, seq : Nat]

Batch == [dev : Devices, rows : Seq(Nat)]

NoBatch == [dev |-> CHOOSE d \in Devices : TRUE, rows |-> <<>>]

-----------------------------------------------------------------------------
Init ==
  /\ app = "config"
  /\ exitCode = 0
  /\ pc = [t \in Threads |-> "off"]
  /\ running = {}
  /\ ingest = <<>>
  /\ cur = <<>>
  /\ touched = <<>>
  /\ batch = [d \in ParsedDevices |-> <<>>]
  /\ wq = [p \in Producers |-> <<>>]
  /\ pubQ = 0
  /\ hand = NoBatch
  /\ received = <<>>
  /\ submitted = [d \in Devices |-> <<>>]
  /\ dropped = [d \in Devices |-> <<>>]

-----------------------------------------------------------------------------
\* AdapterApp::run, up to the event loop.  A worker's thread starts at "check",
\* the test of its while loop.

LoadConfig ==
  /\ app = "config"
  /\ \/ app' = "startWriter" /\ UNCHANGED exitCode
     \/ app' = "exited" /\ exitCode' = 2
  /\ UNCHANGED <<pc, running, inputVars, parserVars, wq, pubQ, writerVars>>

\* start() of the worker t: set _running, spawn the thread, go on to `next`.
Spawn(t, next) ==
  /\ running' = running \cup {t}
  /\ pc' = [pc EXCEPT ![t] = "check"]
  /\ app' = next

StartWriter ==
  /\ app = "startWriter"
  /\ \/ Spawn("writer", "startPublish") /\ UNCHANGED exitCode
     \/ app' = "exited" /\ exitCode' = 3 /\ UNCHANGED <<pc, running>>
  /\ UNCHANGED <<inputVars, parserVars, wq, pubQ, writerVars>>

StartPublish ==
  /\ app = "startPublish"
  /\ IF PublishEnabled
     THEN Spawn("publisher", "startParser")
     ELSE app' = "startParser" /\ UNCHANGED <<pc, running>>
  /\ UNCHANGED <<exitCode, inputVars, parserVars, wq, pubQ, writerVars>>

StartParser ==
  /\ app = "startParser"
  /\ Spawn("parser", "startServer")
  /\ UNCHANGED <<exitCode, inputVars, parserVars, wq, pubQ, writerVars>>

\* With no port to listen on the start-up is undone in the shutdown order.  The
\* error path of HttpIngest::start is never taken: it always returns true.
StartServer ==
  /\ app = "startServer"
  /\ \/ app' = "loop" /\ UNCHANGED exitCode
     \/ app' = "stopParser" /\ exitCode' = 4
  /\ UNCHANGED <<pc, running, inputVars, parserVars, wq, pubQ, writerVars>>

-----------------------------------------------------------------------------
\* Callbacks on the net loop thread.

\* The rows decoded from a chunk that follows k received rows, one row for each
\* element of ds.
DecodedRows(ds, k) == [i \in 1 .. Len(ds) |-> [dev |-> ds[i], seq |-> k + i]]

\* IngestServer::onMessage for the endpoint g: the bytes received decode to rows
\* of the devices ds.
OnMessage(g, ds) ==
  /\ app = "loop"
  /\ Len(ingest) < MaxQueue
  /\ Len(received) + Len(ds) <= MaxRows
  /\ ingest' = Append(ingest, DecodedRows(ds, Len(received)))
  /\ received' = received \o ds
  /\ UNCHANGED <<appVars, pc, parserVars, wq, pubQ, writerVars>>

\* HttpIngest::handleRequest: a valid POST is one batch of one row, put on the
\* write queue by the net loop thread itself.
HttpPost(d) ==
  /\ app = "loop"
  /\ Len(received) < MaxRows
  /\ wq' = [wq EXCEPT !["net"] =
              Append(@, [dev |-> d, rows |-> <<Len(received) + 1>>])]
  /\ received' = Append(received, d)
  /\ UNCHANGED <<appVars, pc, ingest, parserVars, pubQ, writerVars>>

\* EventLoop::loop returns; the listeners and the poller are stopped before the
\* parser, so nothing is received any more.
LoopReturns ==
  /\ app = "loop"
  /\ app' = "stopParser"
  /\ UNCHANGED <<exitCode, running, pc, inputVars, parserVars, wq, pubQ,
                 writerVars>>

-----------------------------------------------------------------------------
\* ParserWorker::run.

ParserCheck ==
  /\ pc["parser"] = "check"
  /\ pc' = [pc EXCEPT !["parser"] = IF "parser" \in running THEN "wait" ELSE "final"]
  /\ UNCHANGED <<appVars, inputVars, parserVars, wq, pubQ, writerVars>>

\* wait_dequeue_timed returned a chunk.
ParserDequeue ==
  /\ pc["parser"] = "wait"
  /\ ingest # <<>>
  /\ cur' = Head(ingest)
  /\ ingest' = Tail(ingest)
  /\ touched' = <<>>
  /\ pc' = [pc EXCEPT !["parser"] = "feed"]
  /\ UNCHANGED <<appVars, received, batch, wq, pubQ, writerVars>>

\* Mutant of AppendRow: only the first device of a chunk is recorded in _touched.
AppendRowTouchesFirst ==
  /\ pc["parser"] = "feed"
  /\ cur # <<>>
  /\ LET r == Head(cur)
     IN  /\ batch' = [batch EXCEPT ![r.dev] = Append(@, r.seq)]
         /\ touched' = IF touched # <<>> THEN touched ELSE Append(touched, r.dev)
  /\ cur' = Tail(cur)
  /\ UNCHANGED <<appVars, pc, inputVars, wq, pubQ, writerVars>>

\* FrameCodec pushes one decoded row into the sink, ParserWorker::appendRow.
AppendRow ==
  /\ pc["parser"] = "feed"
  /\ cur # <<>>
  /\ LET r == Head(cur)
     IN  /\ batch' = [batch EXCEPT ![r.dev] = Append(@, r.seq)]
         /\ touched' = IF touched # <<>> /\ touched[Len(touched)] = r.dev
                       THEN touched ELSE Append(touched, r.dev)
  /\ cur' = Tail(cur)
  /\ UNCHANGED <<appVars, pc, inputVars, wq, pubQ, writerVars>>

FeedReturns ==
  /\ pc["parser"] = "feed"
  /\ cur = <<>>
  /\ pc' = [pc EXCEPT !["parser"] = "flush"]
  /\ UNCHANGED <<appVars, inputVars, parserVars, wq, pubQ, writerVars>>

\* Mutant of FlushDevice: the batch is copied, not moved, to the write queue.
FlushDeviceCopies(d) ==
  /\ pubQ' = IF "publisher" \in running THEN pubQ + 1 ELSE pubQ
  /\ wq' = [wq EXCEPT !["parser"] = Append(@, [dev |-> d, rows |-> batch[d]])]
  /\ batch' = [batch EXCEPT ![d] = IF d \in Immediate THEN <<>> ELSE <<batch[d][Len(batch[d])]>>]

\* ParserWorker::flushDevice: PublishQueue::offer, then the batch moves to the
\* write queue and an empty one takes its place.
FlushDevice(d) ==
  /\ pubQ' = IF "publisher" \in running THEN pubQ + 1 ELSE pubQ
  /\ wq' = [wq EXCEPT !["parser"] = Append(@, [dev |-> d, rows |-> batch[d]])]
  /\ batch' = [batch EXCEPT ![d] = <<>>]

FlushDue(d) ==
  /\ batch[d] # <<>>
  /\ d \in Immediate \/ Len(batch[d]) >= BatchRows

\* One iteration of the loop over _touched that ends the handling of a chunk.
FlushTouched ==
  /\ pc["parser"] = "flush"
  /\ touched # <<>>
  /\ IF FlushDue(Head(touched))
     THEN FlushDevice(Head(touched))
     ELSE UNCHANGED <<batch, wq, pubQ>>
  /\ touched' = Tail(touched)
  /\ UNCHANGED <<appVars, pc, inputVars, cur, writerVars>>

ChunkDone ==
  /\ pc["parser"] = "flush"
  /\ touched = <<>>
  /\ pc' = [pc EXCEPT !["parser"] = "check"]
  /\ UNCHANGED <<appVars, inputVars, parserVars, wq, pubQ, writerVars>>

\* Mutant of ParserIdle: an empty queue does not lead to flushAll.
ParserIdleNoFlush ==
  /\ pc["parser"] = "wait"
  /\ ingest = <<>>
  /\ pc' = [pc EXCEPT !["parser"] = "check"]
  /\ UNCHANGED <<appVars, inputVars, parserVars, wq, pubQ, writerVars>>

\* wait_dequeue_timed timed out on an empty queue: flushAll.
ParserIdle ==
  /\ pc["parser"] = "wait"
  /\ ingest = <<>>
  /\ pc' = [pc EXCEPT !["parser"] = "idle"]
  /\ UNCHANGED <<appVars, inputVars, parserVars, wq, pubQ, writerVars>>

\* One step of flushAll; _batches is an unordered map.
FlushAllStep(d) ==
  /\ pc["parser"] \in {"idle", "final"}
  /\ batch[d] # <<>>
  /\ FlushDevice(d)
  /\ UNCHANGED <<appVars, pc, inputVars, cur, touched, writerVars>>

FlushAllDone ==
  /\ pc["parser"] \in {"idle", "final"}
  /\ \A d \in ParsedDevices : batch[d] = <<>>
  /\ pc' = [pc EXCEPT !["parser"] = IF @ = "idle" THEN "check" ELSE "done"]
  /\ UNCHANGED <<appVars, inputVars, parserVars, wq, pubQ, writerVars>>

-----------------------------------------------------------------------------
\* EtherDBWriter::run.

\* Mutant of WriterCheck: the thread ends without draining the queue.
WriterCheckNoDrain ==
  /\ pc["writer"] = "check"
  /\ pc' = [pc EXCEPT !["writer"] = IF "writer" \in running THEN "wait" ELSE "done"]
  /\ UNCHANGED <<appVars, inputVars, parserVars, wq, pubQ, writerVars>>

WriterCheck ==
  /\ pc["writer"] = "check"
  /\ pc' = [pc EXCEPT !["writer"] = IF "writer" \in running THEN "wait" ELSE "drain"]
  /\ UNCHANGED <<appVars, inputVars, parserVars, wq, pubQ, writerVars>>

\* Mutant of WriterDequeue: the newest batch of the producer is taken.
WriterDequeueNewest(p) ==
  /\ pc["writer"] \in {"wait", "drain"}
  /\ wq[p] # <<>>
  /\ hand' = wq[p][Len(wq[p])]
  /\ wq' = [wq EXCEPT ![p] = SubSeq(@, 1, Len(@) - 1)]
  /\ pc' = [pc EXCEPT !["writer"] = IF @ = "wait" THEN "write" ELSE "drainWrite"]
  /\ UNCHANGED <<appVars, inputVars, parserVars, pubQ, submitted, dropped>>

\* A dequeue takes the oldest batch of any producer: wait_dequeue_timed in the
\* loop, try_dequeue in the drain that follows it.
WriterDequeue(p) ==
  /\ pc["writer"] \in {"wait", "drain"}
  /\ wq[p] # <<>>
  /\ hand' = Head(wq[p])
  /\ wq' = [wq EXCEPT ![p] = Tail(@)]
  /\ pc' = [pc EXCEPT !["writer"] = IF @ = "wait" THEN "write" ELSE "drainWrite"]
  /\ UNCHANGED <<appVars, inputVars, parserVars, pubQ, submitted, dropped>>

\* Nothing to dequeue: the timed wait gives up, the drain is over.
WriterEmpty ==
  /\ pc["writer"] \in {"wait", "drain"}
  /\ \A p \in Producers : wq[p] = <<>>
  /\ pc' = [pc EXCEPT !["writer"] = IF @ = "wait" THEN "check" ELSE "done"]
  /\ UNCHANGED <<appVars, inputVars, parserVars, wq, pubQ, writerVars>>

kMaxRowsPerStmt == 200

\* Rows of one statement of a device.
Capacity(d) == IF d \in HttpDevices THEN kMaxRowsPerStmt ELSE BatchRows

\* Mutant of WriteRows: `done` runs one row too far.
WriteRowsSkipsOne ==
  /\ pc["writer"] \in {"write", "drainWrite"}
  /\ hand.rows # <<>>
  /\ hand.dev \notin Sinkless
  /\ LET n == IF Len(hand.rows) < Capacity(hand.dev) THEN Len(hand.rows)
                                                     ELSE Capacity(hand.dev)
     IN  /\ submitted' = [submitted EXCEPT ![hand.dev] =
                            @ \o SubSeq(hand.rows, 1, n)]
         /\ hand' = [dev |-> hand.dev, rows |-> SubSeq(hand.rows, n + 2, Len(hand.rows))]
  /\ UNCHANGED <<appVars, pc, inputVars, parserVars, wq, pubQ, dropped>>

\* One statement of writeBatch / writeBatchSql.  A statement that fails is
\* logged and counted, and the batch goes on with the next one, so the outcome
\* does not change what is submitted.
WriteRows ==
  /\ pc["writer"] \in {"write", "drainWrite"}
  /\ hand.rows # <<>>
  /\ hand.dev \notin Sinkless
  /\ LET n == IF Len(hand.rows) < Capacity(hand.dev) THEN Len(hand.rows)
                                                     ELSE Capacity(hand.dev)
     IN  /\ submitted' = [submitted EXCEPT ![hand.dev] =
                            @ \o SubSeq(hand.rows, 1, n)]
         /\ hand' = [dev |-> hand.dev, rows |-> SubSeq(hand.rows, n + 1, Len(hand.rows))]
  /\ UNCHANGED <<appVars, pc, inputVars, parserVars, wq, pubQ, dropped>>

\* writeBatch finds no sink and returns.
WriteNoSink ==
  /\ pc["writer"] \in {"write", "drainWrite"}
  /\ hand.rows # <<>>
  /\ hand.dev \in Sinkless
  /\ dropped' = [dropped EXCEPT ![hand.dev] = @ \o hand.rows]
  /\ hand' = [dev |-> hand.dev, rows |-> <<>>]
  /\ UNCHANGED <<appVars, pc, inputVars, parserVars, wq, pubQ, submitted>>

BatchDone ==
  /\ pc["writer"] \in {"write", "drainWrite"}
  /\ hand.rows = <<>>
  /\ pc' = [pc EXCEPT !["writer"] = IF @ = "write" THEN "check" ELSE "drain"]
  /\ UNCHANGED <<appVars, inputVars, parserVars, wq, pubQ, writerVars>>

-----------------------------------------------------------------------------
\* PublishQueue::run: the stub drains and drops; nothing is drained after stop.

PublishCheck ==
  /\ pc["publisher"] = "check"
  /\ pc' = [pc EXCEPT !["publisher"] = IF "publisher" \in running THEN "wait" ELSE "done"]
  /\ UNCHANGED <<appVars, inputVars, parserVars, wq, pubQ, writerVars>>

PublishDequeue ==
  /\ pc["publisher"] = "wait"
  /\ pubQ' = IF pubQ > 0 THEN pubQ - 1 ELSE pubQ
  /\ pc' = [pc EXCEPT !["publisher"] = "check"]
  /\ UNCHANGED <<appVars, inputVars, parserVars, wq, writerVars>>

-----------------------------------------------------------------------------
\* The orderly shutdown of AdapterApp::run: parser, publisher, writer, each
\* stop() clearing _running and joining the thread before the next one.

\* Mutant of Stop: the flag is not cleared before the join.
StopKeepsRunning(t, here, join, next) ==
  /\ app = here
  /\ app' = IF t \in running THEN join ELSE next
  /\ UNCHANGED <<exitCode, running, pc, inputVars, parserVars, wq, pubQ, writerVars>>

Stop(t, here, join, next) ==
  /\ app = here
  /\ app' = IF t \in running THEN join ELSE next
  /\ running' = running \ {t}
  /\ UNCHANGED <<exitCode, pc, inputVars, parserVars, wq, pubQ, writerVars>>

Join(t, here, next) ==
  /\ app = here
  /\ pc[t] = "done"
  /\ app' = next
  /\ UNCHANGED <<exitCode, running, pc, inputVars, parserVars, wq, pubQ, writerVars>>

StopParser  == Stop("parser", "stopParser", "joinParser", "stopPublish")
JoinParser  == Join("parser", "joinParser", "stopPublish")
StopPublish == Stop("publisher", "stopPublish", "joinPublish", "stopWriter")
JoinPublish == Join("publisher", "joinPublish", "stopWriter")
StopWriter  == Stop("writer", "stopWriter", "joinWriter", "exited")
JoinWriter  == Join("writer", "joinWriter", "exited")

-----------------------------------------------------------------------------
AppStart == LoadConfig \/ StartWriter \/ StartPublish \/ StartParser \/ StartServer

Receive ==
  \/ \E g \in Groups : \E n \in 0 .. MaxChunkRows : \E ds \in [1 .. n -> g] :
       OnMessage(g, ds)
  \/ \E d \in HttpDevices : HttpPost(d)

Parser ==
  \/ ParserCheck \/ ParserDequeue \/ AppendRow \/ FeedReturns
  \/ FlushTouched \/ ChunkDone \/ ParserIdle \/ FlushAllDone
  \/ \E d \in ParsedDevices : FlushAllStep(d)

Writer ==
  \/ WriterCheck \/ WriterEmpty \/ WriteRows \/ WriteNoSink \/ BatchDone
  \/ \E p \in Producers : WriterDequeue(p)

Publisher == PublishCheck \/ PublishDequeue

AppStop ==
  StopParser \/ JoinParser \/ StopPublish \/ JoinPublish \/ StopWriter \/ JoinWriter

Next == AppStart \/ Receive \/ LoopReturns \/ Parser \/ Writer \/ Publisher \/ AppStop

Spec == Init /\ [][Next]_vars

\* Every thread the operating system schedules keeps running; data need not
\* arrive and nobody need ask the program to stop.
Fairness ==
  /\ WF_vars(AppStart) /\ WF_vars(AppStop)
  /\ WF_vars(Parser) /\ WF_vars(Writer) /\ WF_vars(Publisher)

FairSpec == Spec /\ Fairness

-----------------------------------------------------------------------------
AppStates ==
  {"config", "startWriter", "startPublish", "startParser", "startServer", "loop",
   "stopParser", "joinParser", "stopPublish", "joinPublish", "stopWriter",
   "joinWriter", "exited"}

ParserStates == {"off", "check", "wait", "feed", "flush", "idle", "final", "done"}

PublisherStates == {"off", "check", "wait", "done"}

WriterStates == {"off", "check", "wait", "write", "drain", "drainWrite", "done"}

ControlPoints ==
  /\ pc \in [Threads -> ParserStates \cup PublisherStates \cup WriterStates]
  /\ pc["parser"] \in ParserStates
  /\ pc["publisher"] \in PublisherStates
  /\ pc["writer"] \in WriterStates

\* The shape of the pipeline's state: the queues, batches and thread positions
\* of AdapterApp, ParserWorker, EtherDBWriter and PublishQueue.
TypeOK ==
  /\ app \in AppStates
  /\ exitCode \in {0, 2, 3, 4}
  /\ ControlPoints
  /\ running \subseteq Threads
  /\ ingest \in Seq(Seq(Row))
  /\ cur \in Seq(Row)
  /\ touched \in Seq(ParsedDevices)
  /\ batch \in [ParsedDevices -> Seq(Nat)]
  /\ wq \in [Producers -> Seq(Batch)]
  /\ pubQ \in Nat
  /\ hand \in Batch
  /\ received \in Seq(Devices)
  /\ submitted \in [Devices -> Seq(Nat)]
  /\ dropped \in [Devices -> Seq(Nat)]

\* run() returned before it started a worker, or after it had stopped them all.
NeverStarted == app = "exited" /\ exitCode \in {2, 3}

ShutDown == app = "exited" /\ exitCode \in {0, 4}

Elems(s) == {s[i] : i \in DOMAIN s}

\* Where the row n of device d can be.
Queued(d, n) ==
  \E p \in Producers : \E i \in DOMAIN wq[p] :
    wq[p][i].dev = d /\ n \in Elems(wq[p][i].rows)

Unparsed(d, n) ==
  \/ [dev |-> d, seq |-> n] \in Elems(cur)
  \/ \E i \in DOMAIN ingest : [dev |-> d, seq |-> n] \in Elems(ingest[i])

InBatch(d, n) == d \in ParsedDevices /\ n \in Elems(batch[d])

InHand(d, n) == hand.dev = d /\ n \in Elems(hand.rows)

Settled(d, n) == n \in Elems(submitted[d]) \cup Elems(dropped[d])

\* No row that was received is ever lost inside the adapter: it is in one of the
\* queues, in a batch, with the writer, or was given to EtherDB (or dropped by
\* writeBatch for want of a sink).  Flushing moves the batch out of ParserWorker,
\* chunks of sink.capacity are cut in writeBatch, and the threads interleave.
EveryRowAccounted ==
  \A n \in DOMAIN received :
    LET d == received[n]
    IN  Unparsed(d, n) \/ InBatch(d, n) \/ Queued(d, n) \/ InHand(d, n) \/ Settled(d, n)

\* The rows of one device reach EtherDB in the order they were received and none
\* of them twice, whatever batches and statements they travelled in.
SubmittedInOrder ==
  \A d \in Devices : \A i, j \in DOMAIN submitted[d] :
    i < j => submitted[d][i] < submitted[d][j]

\* Between two chunks no status row is held back ("submitted as soon as it
\* arrives") and no batch has reached batchRows: every device whose batch grew
\* in the chunk is in _touched, although _touched skips adjacent repeats only.
NothingDueBetweenChunks ==
  pc["parser"] \in {"check", "wait", "idle", "final", "done"} =>
    \A d \in ParsedDevices : ~FlushDue(d)

\* When AdapterApp::run returns after the writer was started, the workers are
\* joined and no batch is left behind: the parser's last flushAll precedes the
\* writer's drain, and nobody enqueues after the drain.
ExitDrained ==
  ShutDown =>
    /\ \A t \in Threads : t \notin running /\ pc[t] \in {"off", "done"}
    /\ \A d \in ParsedDevices : batch[d] = <<>>
    /\ \A p \in Producers : wq[p] = <<>>
    /\ hand.rows = <<>>

\* "parse queued data, flush partial batches" (AdapterApp.cpp:292): nothing is
\* left in the ingest queue when the program has shut down.
QueuedDataParsedAtExit ==
  app = "exited" => ingest = <<>>

-----------------------------------------------------------------------------
ParserJoined ==
  app \in {"stopPublish", "joinPublish", "stopWriter", "joinWriter"} \/ ShutDown

PublisherJoined == app \in {"stopWriter", "joinWriter"} \/ ShutDown

\* How far AdapterApp::run is and what its workers do agree: the flags are set
\* and cleared in the start and stop order, a thread past its loop was told to
\* stop, the writer drains only when run() waits for it, and a thread that was
\* joined is done.
Lifecycle ==
  /\ "parser" \in running <=> app \in {"startServer", "loop", "stopParser"}
  /\ "writer" \in running <=>
       app \in {"startPublish", "startParser", "startServer", "loop", "stopParser",
                "joinParser", "stopPublish", "joinPublish", "stopWriter"}
  /\ "publisher" \in running =>
       app \in {"startParser", "startServer", "loop", "stopParser", "joinParser",
                "stopPublish"}
  /\ exitCode # 0 /\ app # "exited" =>
       exitCode = 4 /\ app \in {"stopParser", "joinParser", "stopPublish", "joinPublish",
                                "stopWriter", "joinWriter"}
  /\ pc["parser"] = "off" <=>
       app \in {"config", "startWriter", "startPublish", "startParser"} \/ NeverStarted
  /\ pc["writer"] = "off" <=> app \in {"config", "startWriter"} \/ NeverStarted
  /\ pc["publisher"] # "off" /\ "publisher" \notin running =>
       app = "joinPublish" \/ PublisherJoined
  /\ pc["parser"] \in {"final", "done"} => "parser" \notin running
  /\ pc["writer"] \in {"drain", "drainWrite", "done"} => "writer" \notin running
  /\ ParserJoined => pc["parser"] = "done"
  /\ PublisherJoined => pc["publisher"] \in {"off", "done"}
  /\ ShutDown => pc["writer"] = "done"

\* What a thread no longer holds at a control point: the parser has parsed its
\* chunk, has flushed every batch before its thread ends, and the writer ends
\* with its batch written and the queue empty.
HandedOn ==
  /\ pc["parser"] # "feed" => cur = <<>>
  /\ pc["parser"] \in {"off", "done"} => \A d \in ParsedDevices : batch[d] = <<>>
  /\ pc["writer"] \notin {"write", "drainWrite"} => hand.rows = <<>>
  /\ pc["writer"] = "done" => \A p \in Producers : wq[p] = <<>>

\* The inductive invariant of the shutdown: AdapterApp::run and its workers agree
\* on the stage (Lifecycle), and no thread ends with work in hand (HandedOn).
ShutdownInv == Lifecycle /\ HandedOn

\* While a chunk is handled, every batch that is due is in _touched, whose loop
\* will flush it; at any other point none is due.
DueIsTouched ==
  \A d \in ParsedDevices : FlushDue(d) =>
    pc["parser"] \in {"feed", "flush"} /\ d \in Elems(touched)

-----------------------------------------------------------------------------
\* The rows of d the writer is done with.
settled == [d \in Devices |-> IF d \in Sinkless THEN dropped[d] ELSE submitted[d]]

Log == INSTANCE RowLog WITH delivered <- settled

\* The pipeline with its threads, queues, batches and statements is a RowLog: each
\* step of a thread delivers the oldest undelivered rows of one device, receives
\* rows, or changes neither.
ImplementsRowLog == Log!Spec

-----------------------------------------------------------------------------
\* The six places a row of d passes through, the last one first: done with, in
\* writeBatch, in the write queue, in the parser's batch, in the chunk being
\* parsed, in the ingest queue.
RowsOfDevice(rows, d) == {rows[i].seq : i \in {j \in DOMAIN rows : rows[j].dev = d}}

SettledRows(d) == Elems(settled[d])

HandRows(d) == IF hand.dev = d THEN Elems(hand.rows) ELSE {}

QueueRows(q, d) == UNION {Elems(q[i].rows) : i \in {j \in DOMAIN q : q[j].dev = d}}

QueuedRows(d) == QueueRows(wq["parser"], d) \cup QueueRows(wq["net"], d)

HeldRows(d) == IF d \in ParsedDevices THEN Elems(batch[d]) ELSE {}

ChunkRows(d) == RowsOfDevice(cur, d)

ChunksRows(q, d) == UNION {RowsOfDevice(q[i], d) : i \in DOMAIN q}

WaitingRows(d) == ChunksRows(ingest, d)

Before(A, B) == \A a \in A, b \in B : a < b

\* The rows of one device, split over the six places: together they are R, and
\* every row is older than those in the places behind it.
Path(R, S, H, Q, B, C, G) ==
  /\ R = S \cup H \cup Q \cup B \cup C \cup G
  /\ Before(S, H \cup Q \cup B \cup C \cup G)
  /\ Before(H, Q \cup B \cup C \cup G)
  /\ Before(Q, B \cup C \cup G)
  /\ Before(B, C \cup G)
  /\ Before(C, G)

RowsOnPath ==
  \A d \in Devices :
    Path(Log!RowsOf(d), SettledRows(d), HandRows(d), QueuedRows(d), HeldRows(d),
         ChunkRows(d), WaitingRows(d))

Ascending(s) == \A i, j \in DOMAIN s : i < j => s[i] < s[j]

RowsAscending(rows) == \A i, j \in DOMAIN rows : i < j => rows[i].seq < rows[j].seq

QueueAscending(q) ==
  /\ \A i \in DOMAIN q : Ascending(q[i].rows)
  /\ \A i, j \in DOMAIN q :
       i < j /\ q[i].dev = q[j].dev => Before(Elems(q[i].rows), Elems(q[j].rows))

ChunksAscending(q) ==
  /\ \A i \in DOMAIN q : RowsAscending(q[i])
  /\ \A i, j \in DOMAIN q : i < j =>
       \A a \in DOMAIN q[i], b \in DOMAIN q[j] : q[i][a].seq < q[j][b].seq

\* Inside each place the rows are in the order received as well.
PlacesInOrder ==
  /\ \A d \in Devices : Ascending(settled[d])
  /\ Ascending(hand.rows)
  /\ \A p \in Producers : QueueAscending(wq[p])
  /\ \A d \in ParsedDevices : Ascending(batch[d])
  /\ RowsAscending(cur)
  /\ ChunksAscending(ingest)

\* The parser enqueues for its own devices, the net loop for the http ones, and a
\* device either has a sink or never has one.
Lanes ==
  /\ \A i \in DOMAIN wq["parser"] : wq["parser"][i].dev \in ParsedDevices
  /\ \A i \in DOMAIN wq["net"] : wq["net"][i].dev \in HttpDevices
  /\ \A d \in Devices : IF d \in Sinkless THEN submitted[d] = <<>> ELSE dropped[d] = <<>>

\* The inductive invariant of the row order: the rows received of each device, in
\* the order received, are what the six places hold from the last to the first.
RowsInv == RowsOnPath /\ PlacesInOrder /\ Lanes

-----------------------------------------------------------------------------
\* A shutdown that has begun ends: every join in AdapterApp::run returns.
ShutdownCompletes == app = "stopParser" ~> app = "exited"

\* A row that is in the write queue is eventually given to EtherDB or dropped.
QueuedRowsSettled ==
  \A n \in 1 .. MaxRows : \A d \in Devices : Queued(d, n) ~> Settled(d, n)

\* A partial batch does not sit: the parser's timed dequeue gives up and flushAll
\* empties it, unless data keeps arriving, also of other devices, for ever.
FlushedWhenQuiet ==
  []<>(ingest # <<>>) \/ \A d \in ParsedDevices : batch[d] # <<>> ~> batch[d] = <<>>

=============================================================================
