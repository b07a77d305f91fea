# A TLA+ verification of etherAdapter

etherAdapter receives measurements from devices over TCP (binary custom_data
frames, Modbus-TCP responses), HTTP and polling links, decodes them with layouts
kept in an SQLite database, and inserts the rows into EtherDB.  This directory
holds TLA+ modules that model its components, the TLC configurations that check
them on small instances, and TLAPS proofs of what holds on every instance.  Paths
below are relative to `src/`, the repository.

## 1. The system and its parts

```
 devices ──TCP──> net loop thread ──RawChunk──> ingest queue ──> parser thread
 devices ──HTTP─>   (AdapterApp)  ──RowBatch──────────┐             │ RowBatch
 devices <─poll── modbus threads                      v             v
                                      EtherDB <── writer thread <── write queue
                                                                publish queue ──> publish thread (stub)
```

| Part | Source | Modules | What can go wrong |
|---|---|---|---|
| Life cycle, parser, writer, publisher, their queues | `src/adapter/AdapterApp.cpp`, `ParserWorker.cpp`, `EtherDBWriter.cpp`, `PublishQueue.cpp`, `Pipeline.h` | `Pipeline`, `RowLog`, `PipelineProofs`, `RowOrderProofs` | a worker stopped while another feeds it; rows lost, repeated or overtaken; a due batch held back |
| Frame codec | `src/adapter/FrameCodec.cpp` | `FrameCodec`, `ModbusCodec`, `FieldCodec` | frames cut anywhere by TCP; resynchronisation; lengths at their limits; reads outside the frame; widths and signs |
| Configuration | `src/adapter/ConfigDB.cpp`, `AdapterConfig.cpp`, `src/base/ConfigParser.h` | `ConfigDB`, `AdapterConfig` | a peer matched to the wrong group; layouts that do not fit; a setting taken from the wrong line |
| Ingest server | `src/adapter/IngestServer.cpp` | `IngestServer` | a chunk routed by a stale entry |
| HTTP ingest | `src/adapter/HttpIngest.cpp` | `HttpIngest` | requests cut or joined by TCP; a request handled twice; where a JSON string ends |
| Modbus poller | `src/adapter/ModbusPoller.cpp` | `ModbusPoller`, `ThreadProofs` | stop racing a device thread over a socket; a stop that hangs |
| Event loop | `src/net/EventLoop.cpp`, `EPollPoller.cpp` | `EventLoop`, `ThreadProofs` | a lost wakeup; a functor queued while functors run; more events than room |
| Connections | `src/net/TcpConnection.cpp`, `TcpServer.cpp`, `Acceptor.cpp`, `Channel.cpp` | `TcpServer`, `TcpHandlerProofs`, `TcpServerProofs` | descriptors used again; closes from several sides; output pending at a shutdown |
| Timers | `src/net/TimerQueue.cpp` | `TimerQueue` | timers cancelled or added by a callback; addresses used again |
| Network buffer | `src/net/Buffer.h` | `Buffer`, `ByteQueue` | indexes when bytes are moved or the vector grows |
| Log | `src/base/AsyncLogging.cpp`, `LogFile.cpp` | `AsyncLogging` | lines lost or out of order; files rolled late |
| Queue between the threads | `src/base/blockingconcurrentqueue.h`, `lightweightsemaphore.h`, `concurrentqueue.h` | `BlockingQueue`, `BlockingQueueProofs`, `ProducerCounters`, `ImplicitQueue`, `ExplicitQueue`, `ProducerHash`, `ConcurrentQueue` | timeouts racing signals; two consumers and one element; blocks used again too early; tables that grow under a search |
| HTTP library | `src/net/http` | `HttpUrl`, `HttpMachine`, `HttpStream`, `HttpParser`, `HttpResponse` | messages cut anywhere; pauses; lengths announced and sent |
| Compression library | `src/base/zlib` | `InflateTable`, `Inflate`, `Checksums`, `DeflateBlocks`, `MCZlib` | input and output cut anywhere; the window's ends; code lengths at their limit |
| String helpers | `src/base/String.h`, `Ascii.cpp` | `StringOps` | ends of strings and of ranges |

The HTTP and compression libraries are in the tree; no file of the adapter calls them.

## 2. The modules

A component is one module: its state, one action per operation or step, and the
properties it promises.  Eight `MC` modules put small instances of components
together for TLC.  An `MC` module other than `MCPipeline` is a *suite*: its variable
`part` names the component that moves in a behaviour, the others stay in their initial
states, so that one run checks several components without multiplying their states.
A property of a suite speaks of one part and is named for what that part promises.

**Pipeline** models `AdapterApp::run` with its net loop, parser, writer and publish
threads.  `app` is how far `run` is; `pc[t]` is where the `run()` of worker `t` is;
`running` holds the workers whose `_running` flag is set.  `ingest`, `wq` and `pubQ` are
the queues, `batch` and `touched` are `ParserWorker::_batches` and `_touched`, `cur` the
rows of the chunk being decoded, `hand` the batch in `writeBatch`.  `received`,
`submitted`, `dropped` are history variables.  Bytes are abstracted: a chunk is the
sequence of rows the codec decodes from it, possibly none.  An action is one step of a
thread between two points where another thread can see the difference.  The write queue
has two producers and keeps the order of each.  A statement that fails is counted and
the next one follows (`EtherDBWriter.cpp:313-345`), so failing changes nothing here.
**RowLog** is the promise: rows are received, and the rows of each device are delivered
in order, none twice and none skipped; `ImplementsRowLog` maps `delivered` to what the
writer is done with.

**FrameCodec** and **ModbusCodec** model `feed` and `feedModbus` on bytes.  `Feed(k)` is
one call with the next `k` bytes, for every `k`; `Verdict` collects the loop's tests in
their order and each outcome is an action.  A row is the bytes its fields are read from;
**FieldCodec** is what is made of them, with bytes of `ByteBits` bits.

**ConfigDB** takes table rows as SQLite stores them (any type in any column, a number
out of range wrapped by the conversion to 32 bits, here scaled to 20);
**AdapterConfig** takes the lines of the file.

**EventLoop**, **TcpServer** (with **IngestServer** on top of it), **TimerQueue**,
**AsyncLogging** and **ModbusPoller** interleave the loop's thread with other threads,
the kernel and the peers.  Descriptors, heap addresses and thread ids are reused.
**HttpIngest** has the connections and the JSON scanner; **Buffer** implements the
abstract **ByteQueue**.

**BlockingQueue** is the semaphore and the blocking layer over a lock-free queue that is
a number of elements there; **ImplicitQueue** and **ExplicitQueue** (with
**ProducerCounters**) are that queue's two kinds of sub-queues, **ProducerHash** leads a
thread to its own, **ConcurrentQueue** is a consumer's walk over all of them.  A step is
one atomic access and accesses are sequentially consistent: the memory orders of the
code are not modelled.

**HttpMachine** is `http_parser_execute`, one `case` per step; **HttpStream** the messages
it should hear; **HttpParser**, **HttpResponse** the classes above it, as built for POSIX:
there a session has no id, so that no cookie ever names one, and `FileServlet` looks for
the empty path, so that every request for a file is answered 404.  **Inflate** is the
decoder's state machine with **InflateTable** and **Checksums**; **DeflateBlocks** builds
and sends blocks, and **MCZlib** lets the one read the other.

## 3. The runs

| Run | Question | Result |
|---|---|---|
| `pipeline_safety` | Can any interleaving of the threads lose, repeat or reorder a row, hold back a due batch, or exit with a batch left?  Is the pipeline a log of rows? | no; yes |
| `pipeline_liveness` | Does a shutdown end, do queued rows get written, is a partial batch flushed unless the line is never quiet? | yes |
| `codecs` | Do the rows depend on how TCP cuts a stream?  Is each byte accounted for, each read inside its frame, each value stored as meant (but for a UINT64 of 2^63 or more), each peer and setting resolved as written, each check value the defined one? | no; yes |
| `loop` | Do functors run in order and never wait behind a poll?  Are timers kept exactly?  Do the log lines that the thread has taken reach the disk in order, and are only others lost at stop? | yes |
| `servers` | Are closed connections forgotten although descriptors and addresses come back, is output sent before a FIN, does each byte, row and answer belong to its peer, is the buffer a queue of bytes? | yes |
| `queues` | Does every permit have an element, is nothing lost or taken twice, does a thread keep its producer, does a dequeue that no other disturbs fall short only on an empty queue? | yes |
| `http` | Does the parser hear messages as sent however they are cut, the server handle requests as sent but for those cut in a URL or a header, are answers read as written, URLs and strings taken apart as defined? | yes |
| `zlib` | Is a stream decoded as meant however it is cut, and read back as it was sent? | yes |
| `liveness` | Does the loop run what is queued and stop when told to, is a waiting consumer served, a dead connection freed, a device polled on, and does `stop()` return (but for the case below)? | yes |
| `queued_data_at_exit` | Is queued data parsed before exit, as `AdapterApp.cpp:292` says? | no |
| `modbus_exception_response` | Is a response decoded when it follows an exception response? | no |
| `http_row_twice` | Does a connection yield one row, as `HttpIngest.cpp:249` says? | no |

The last three end in a counterexample; `PROJECT.json` quotes the lines they contradict.

- *Queued data at exit.* `ParserWorker::run` leaves its loop at the first test after the
  flag is cleared and only flushes batches; chunks still in the ingest queue are dropped.
- *Exception response.* The search resumes one byte into the short response, where the
  low byte of its protocol id and the high byte of its length look like a protocol id.
- *Row twice.* Neither the buffer nor `headerParsed` is reset after a request, so a byte
  behind it makes the same body pass the test again.

Other places where the code does less than its documentation says are part of what a
passing property states, exactly and with the case named:

- *Modbus stop.* "so blocked connects/sends/recvs in the device threads return
  immediately" (`ModbusPoller.cpp:229`): a thread copies its descriptor before it
  reads (line 347); when `stop()` closes it and another device's thread connects under the
  same number, the `recv` waits on that link, on which nothing may arrive, and `stop()`
  waits for the thread (`LinksProgress`, with two devices and one descriptor).
- *Log at exit.* "flush the async log on every return path" (`AdapterApp.cpp:204`): the
  log's thread leaves its loop without taking the buffers once more, so lines appended
  since its last turn are lost when `stop()` finds it at work (`LinesInOrder`).
- *UINT64.* "widened to the next signed type so no value can overflow the column"
  (`ConfigDB.cpp:159`): 64 bits have no wider type, so a value of 2^63 or more is stored
  less 2^64 (`StoredAsMeant`).
- *Oversized Modbus response.* A layout whose fixed response is longer than `kMaxFrame`
  makes `feedModbus` return in front of its compaction and its cap: the buffer then holds
  all that was ever received (`ResponsesAccounted`).
- *Requests in pieces.* `http_parser.h:84-86` tells its users that data callbacks may come
  in pieces.  `HttpParser` keeps the last piece of a URL and takes a second piece of a
  header's name or value for an error, upon which the server closes the connection
  (`MessagesHeard`).  No read ends inside a `%XX` escape, which `UrlDecode` asserts.
- *inflateSync.* "searches for a 00 00 FF FF pattern in the compressed data"
  (`zlib.h:928`): bytes held behind an odd number of bits are shifted the wrong way
  (`inflate.c:1416`), so a pattern that begins in one is missed, or seen where there is
  none (`StreamsDecoded`; streams with both are among the inputs).
- *A bulk enqueue that fails half-way.* Blocks that `enqueue_bulk` took with a token and
  gave up on stay in the ring without being counted in `pr_blockIndexSlotsUsed`; later
  operations find more room in the index than there is.  `ElementsKept` speaks of
  behaviours up to such a failure; the adapter uses no producer tokens.

**Bounds.** Threads, interleavings and cuts are not bounded, only what is put in.

- *Pipeline:* four rows in chunks of up to three, two chunks waiting, batches of two rows.
  A chunk can alternate between two devices, fill a batch so that it is cut into two
  statements and leave a partial batch behind while HTTP rows overtake it.
- *Codecs:* frame streams of up to two segments, or of a damaged one between two clean
  ones; response streams of up to three segments; `kMaxFrame` just above the longest good
  frame.  Bytes of fields have 2 bits, words of the sums 7, with moduli scaled alike so
  that the deferred modulo is at its limit.
- *Loop:* two other threads, three functors, two channels and room for one event (so that
  the list has to grow), three timers on two addresses, four lines and buffers for two.
- *Servers:* two connections on two descriptors whose message callback sends and shuts
  down or forces a close; peers of two groups that can be ingested, of one that cannot and
  of none; six HTTP streams, given to connections as they are accepted; every edit by one
  token of a set of JSON objects, every string of up to six characters; two polled devices.  Writes of output are whole there; partial writes are left to the
  proof of `FinFollowsOutput`.
- *Queues:* three threads and three elements for the semaphore with room for two; two
  consumers, indexes that wrap and memory that runs out for the sub-queues; two thread ids of the same hash and
  three tables for the producers, with three exits.
- *Http, zlib:* listed dialogues and streams, cut everywhere (a server's connection at most
  once inside a URL or a header) or by the listed calls; the
  constants are the code's except for the window part, whose fast loop is entered early
  so that a small window is wrapped by it.

**Deadlock** is checked in `loop` and `zlib`.  Elsewhere the system may stop: a program
that has exited, a stream that is at its end, threads with nothing to do.

**Fairness.** Weak fairness of the steps of each thread: the operating system schedules a
thread that can run, waits of the workers have a time limit (10 ms or 50 ms), and calls of
the EtherDB SDK, `poll`, `connect` and sleeps return.  A peer that keeps its connection
reads on (`PeerReads`).  `stop()` of the Modbus poller gets a session's mutex that is free
again and again (strong fairness).  Nothing is assumed of data, events, calls or signals.
A device is assumed to be silent at times: `drain` has no limit of its own.

**Assumptions.** No http device shares its address with another device: `ConfigDB` groups
by address whatever the protocol (`ConfigDB.cpp:517-542`) and `IngestServer` tests the
protocol of a group's first device only (line 131), so that otherwise a device's rows come
from the parser and from the net loop, and their order is that of neither
(`PipelineAssumption`).  Timers are added on the loop's thread, as in every use in the tree.  The
calls of `Buffer` and `String.h` keep the preconditions that the code asserts or that all
callers keep.  Assertions are compiled out (the default build type is Release).  For
inflate: distances stay within the window that was announced, `inflateSync` is called
after an error or during a search, no header structure is asked for.

## 4. The proofs

The theorems hold for every value of the constants that satisfies the named
assumptions of the modules, among them every number of devices, rows and chunks.

`PipelineProofs.tla`, from `PipelineAssumption`:

| Theorem | States |
|---|---|
| `TypeCorrect` | the state keeps its shape (`TypeOK`) |
| `ShutdownOrderly` | the main thread and the workers agree on the stage of the life cycle and no thread ends with work in hand (`ShutdownInv`) |
| `ExitIsDrained` | after a shutdown every worker is joined and no batch is left (`ExitDrained`) |
| `NothingHeldBack` | between two chunks no status row and no full batch waits (`NothingDueBetweenChunks`) |

`ExitDrained` only speaks of the last state, so it is not inductive.  `ShutdownInv`
adds what makes it so: which flags are set at which stage (`Lifecycle`), so that a
thread past its loop cannot be handed anything new, and what a thread holds at each of
its control points (`HandedOn`).  The argument: the parser is joined before the
writer's flag is cleared; a parser that is done has flushed every batch; the net loop
has returned before that; so when the writer's drain finds the queue empty nobody is
left to fill it.  `NothingDueBetweenChunks` needs `DueIsTouched`: during a chunk a
batch that is due belongs to a device still in `_touched`.  An append touches the
device it appends to, and the loop removes a device only after flushing it.

The end of `FrameCodec.tla`, from `FrameCodecAssumption`:

| Theorem | States |
|---|---|
| `FramesAreAccounted` | each byte received is in a frame, counted in `resyncs`, or buffered, and between calls less than `kMaxFrame` bytes are buffered (`FramesAccounted`) |
| `ReadsStayInFrame` | the fields are read inside the frame's payload (`ReadsInFrame`) |

The account and the bound are proved together: the cap would drop bytes that no
counter counts, and the bound is why it never does.  The loop stops only where less
than a frame is left (`WaitIsShort`), a frame is sliced only when it is all there
(`FrameIsThere`), and `RecordsInPayload` is the arithmetic of records in a payload.

`RowOrderProofs.tla`, from `PipelineAssumption`, with the lemmas on sequences, batches and
chunks at the head of `PipelineProofs.tla`:

| Theorem | States |
|---|---|
| `RowsKeepTheirPlace` | the invariant of the row order (`RowsInv`) |
| `NoRowLost` | every row received is on its way, submitted, or dropped for want of a sink (`EveryRowAccounted`) |
| `RowsSubmittedInOrder` | the rows of a device are submitted in the order received, each once (`SubmittedInOrder`) |
| `PipelineImplementsRowLog` | `Pipeline` implements `RowLog` (`ImplementsRowLog`) |

None of these is inductive: what is submitted next depends on the order in every queue
behind it.  `RowsInv` says where rows are.  Going backwards from EtherDB a row is
settled, in the writer's hand, in the write queue, in a batch, in the parser's chunk, or
in the ingest queue (`Path`); together these six places hold all rows of a device, every
row in one is older than those in the places behind it, and inside each the rows ascend
(`PlacesInOrder`).  `Lanes` keeps the two producers of the write queue apart: rows of a
device come from the parser or from the net loop, never from both, so the queue need
only keep the order of each producer.  Every action is then one of three things: it adds
the newest rows at the far end, it moves the oldest rows of a place to the end of the
next one, or it moves none, and those lemmas show once that such a move keeps `Path`.
For the refinement the settled rows are the log's `delivered`: a step of the writer that
settles a batch settles the oldest unsettled rows of one device, because nothing older is
in any other place.

The first half of `ThreadProofs.tla`, about `EventLoop`, whatever the constants are:

| Theorem | States |
|---|---|
| `LoopHolds` | the state keeps its type, and functors are held only while `_callingPendingFunctors` is set (`FunctorsHeld`) |
| `FunctorsRunInOrder` | functors run once each, in the order queued (`FunctorsInOrder`) |
| `LoopNeverSleepsOnFunctor` | the loop does not poll on a pending functor nobody announces (`NoSleepOnFunctor`) |

The loop's own thread writes the eventfd for what it queues only while the flag is set, so
`NoSleepOnFunctor` needs `PendingNoticed`: a pending functor is noticed by a readable
eventfd, by a thread about to write it, or by the loop that is past its poll and will
take it.  `FunctorsHeld` is why the swap of `doPendingFunctors` overwrites nothing.

Its second half, about the instance `P` of `ModbusPoller`, from `PollerAssumption`: `LinksStayOwned` states `LinksOwned`, that a
descriptor in `s->fd` is open and the session's own, and that none is open once `stop()`
has returned.  `LinkInv` adds who holds an open descriptor: its session has it in `s->fd`,
or its thread is between `connect` and the store and `s->fd` is empty.  So no store
overwrites a link, a thread that ends has none, and `stop()` joins every thread.

`ModbusCodec.tla`, from `ModbusCodecAssumption`: `ResponsesAreAccounted` states
`ResponsesAccounted`, the account of `feedModbus` and how much it buffers: nothing for a
configuration it refuses, less than a frame for one it slices with, everything for one
whose fixed response is longer than a frame.  As for frames, account and bound
are proved together.  `SliceInv` adds that a call starts at the head of the buffer, and
that a configuration on which the loop gives up never leaves it.

The runs `servers` and `codecs` check the properties of `ModbusPoller` and `ModbusCodec` through
instances of the modules, and evaluate the two assumptions for the constants they choose.

`BlockingQueueProofs.tla`, from `BlockingQueueAssumption` (finitely many threads):

| Theorem | States |
|---|---|
| `AccountHolds` | elements, permits, signals, posts, the count and the semaphore agree at every step (`Account`) |
| `PermitsHaveElements` | a permit stands for an element of the inner queue (`PermitHasElement`) |
| `QuietQueueIsExact` | with no call in progress the count is exact, no post is left over, and nobody sleeps beside an element without a post (`QuietIsExact`) |

A timeout that races a signal leaves the count, the semaphore and the sleeping thread to
be reconciled by whichever comes second, so neither property is inductive.  `Account`
writes down who owes what: an element is held by a permit, about to be signalled, in the
count, or owed to a waiting thread; and a thread waits for a post that is there, that is
about to come, or with the count below zero on its behalf.  `HeldAt` adds what a thread has
in hand at each label.  The sums over threads are cardinalities of sets of pairs, so that
one step changes a sum by one summand (`TotalChange`) and no induction over threads is
needed.

`TcpHandlerProofs.tla` and `TcpServerProofs.tla`, from `TcpServerAssumption`, for any number
of connections, descriptors and bytes:

| Theorem | States |
|---|---|
| `ConnectionInvariant` | the inductive invariant `Inv` |
| `ConnectionsAreTracked` | the poller's map is that of the registered channels, and a closed connection has its destruction queued (`ConnectionsTracked`) |
| `FinFollowsOutput` | the write event is on exactly while output is pending, and the FIN follows the output (`OutputBeforeFin`) |

`Inv` has five parts: the types; `Each`, a connection's output account (`Out`: what `send`
accepted is written or pending, unless the peer reset it) and its life (`Life`: in the
server's map it is connected and registered, out of it it is disconnected); `Mapped`, one
live connection per descriptor; `Pending`, a `connectDestroyed` is queued exactly for the
live connections that left the map, and a forced close only for one that is in it, once;
and `Reported`, what a poll reported is about connections still in the map.  The last two
are needed because a handler acts on what was true when the poll returned: a second close of
one connection, or an event for a connection freed meanwhile, is excluded only by what is
queued and what is still to be handled.  The order of the loop gives it: a forced close
queued by a handler runs after all events of that poll; so does a destruction, and until it
has run the channel has no events, so no poll reports it, and its descriptor is not free for
`accept`.  A handler is a
function from the connection it works on to the connection it leaves, so
`TcpHandlerProofs` shows for each function of `TcpConnection` and `Channel` which parts it
keeps (`Open`, `Closed`), follows the calls of `handleEvent` and of the message callback
through them, and `HandledCommit` carries the result over to the other connections.  TLC
checked `Inv` first, on 15,045,293 states of an instance with three connections and two
descriptors.

**Only model-checked.**  Liveness (everything under fairness) and `ENABLED` are outside
the prover's reach.  So is what a recursive definition computes for every input:
`SegmentationIrrelevant`, `FramesDecoded` and `ResponsesDecoded` compare a stream with a
recursive parse of it, the conversions of `Buffer` with powers of the base, the check
sums, the JSON, HTTP and zlib modules with reference decoders.  The sorted timers of
`TimerQueue` and the folds over lines of `AsyncLogging` rest on induction over sequences as
well.  The lock-free sub-queues, the producers' hash and `IngestServer` are only
model-checked; there a proof is possible and has not been written.


## 5. What is not modelled, and why

- SQLite and the EtherDB SDK are third-party code used through a few calls that the
  models take as atomic, with the staging memory of a statement; the schema is created
  by SDK calls before the pipeline starts.
- `deflate.c`'s match search, `gz*` and `infback.c`: the program calls none of them, and a
  search over a 32K window is out of TLC's reach.  In `trees.c` the overlay of the symbol
  buffer with the pending output and the text/binary guess are left out.
- The thread classes of `src/base` and `src/net` (`Thread_POSIX.cpp`, `ThreadPool.cpp`,
  `ThreadGroup.cpp`, `EventLoopThread*.cpp`) and `IdelTcpServer.cpp`: the adapter runs one
  loop on its main thread and `std::thread` workers.  The expiry of HTTP sessions,
  filters and servlet look-up: not in the build.
- In `concurrentqueue.h` the free list's reference counts, the list of exit listeners,
  moving and swapping queues, the memory orders, and an explicit sub-queue after a
  bulk enqueue has failed half-way.
- `TcpClient.cpp` and `Connector.cpp` are empty; `ConsoleChannel`, `UdpSocket`,
  `InetAddress`, `LogStream`, `Timestamp`, `Sha256.h` keep no state between calls.  The
  POSIX build is modelled, not the Windows one.  The MQTT ingest is a stub.
- Time stamps, log texts and statistics other than the ones a property needs.
