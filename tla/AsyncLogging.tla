---------------------------- MODULE AsyncLogging ----------------------------
(***************************************************************************)
(* The asynchronous log (base/AsyncLogging) as the adapter uses it: any    *)
(* thread appends lines to a buffer under a mutex; one thread takes the    *)
(* buffers, after a timed wait if none is full, and writes them to a       *)
(* LogFile, until stop() clears a flag and joins it.                       *)
(*                                                                         *)
(* A LogFile (base/LogFile) is a value, and its methods are operators: what *)
(* is appended goes through stdio to a file, and a new file is begun when   *)
(* the file is large or the day changes; fwrite is assumed to write all it  *)
(* is given.  A line is [n, len]: its number and its length in bytes.       *)
(***************************************************************************)
EXTENDS Naturals, Sequences, SequencesExt

CONSTANTS
  RollSize,    \* _rollSize
  CheckEveryN, \* _checkEveryN
  FlushInterval, \* _flushInterval
  Day,         \* _kRollPerSeconds: the seconds of a day
  LineLengths, \* lengths of lines
  MaxLines,    \* bound: lines logged
  BufferSize,  \* kLargeBuffer
  MaxTime,     \* bound: the clock in seconds
  MayStop      \* whether stop() is called

-----------------------------------------------------------------------------
(* The log file.                                                           *)

Bytes(lines) == FoldLeft(LAMBDA acc, x : acc + x.len, 0, lines)
Period(now) == (now \div Day) * Day

\* fopen: the file is given its name by the second it is opened in.
\* files: what is on disk; buffered: what stdio holds; written: writtenBytes_.
Open(log, now) == [log EXCEPT !.files = Append(@, <<>>), !.buffered = <<>>, !.written = 0]

\* stdio's buffer goes to the file, by fflush or fclose.
Flush(log) ==
  [log EXCEPT !.files[Len(log.files)] = @ \o log.buffered, !.buffered = <<>>]

\* Only one file is begun in a second.
rollFile(log, now) ==
  IF now > log.lastRoll
  THEN Open([Flush(log) EXCEPT !.lastRoll = now, !.lastFlush = now, !.period = Period(now)], now)
  ELSE log

AppendFile(log, lines) == [log EXCEPT !.buffered = @ \o lines, !.written = @ + Bytes(lines)]

append_unlocked(log, lines, now) ==
  LET a == AppendFile(log, lines)
      c == [a EXCEPT !.count = 0]
  IN  CASE a.written > RollSize -> rollFile(a, now)
        [] a.written <= RollSize /\ a.count + 1 < CheckEveryN -> [a EXCEPT !.count = @ + 1]
        [] OTHER -> IF Period(now) # a.period THEN rollFile(c, now)
                    ELSE IF now > a.lastFlush + FlushInterval
                         THEN Flush([c EXCEPT !.lastFlush = now])
                         ELSE c

\* The constructor begins the first file.  The clock is past its epoch.
NewLog(now) ==
  [files |-> <<<<>>>>, buffered |-> <<>>, written |-> 0, count |-> 0,
   lastRoll |-> now, lastFlush |-> now, period |-> Period(now)]

OnDisk(log) == FlattenSeq(log.files)

-----------------------------------------------------------------------------
VARIABLES
  running,     \* _running
  current,     \* the lines of _currentBuffer
  buffers,     \* _buffers
  toWrite,     \* buffersToWrite
  pc,          \* where the logging thread is
  log,         \* its LogFile
  clock,
  stopped,     \* where stop() is: "no", "joining" or "returned"
  lines,       \* history: the lines appended, in order
  taken,       \* history: how many of them there were when the thread last took the buffers
  busy,        \* history: stop() found the thread neither waiting nor about to
  behind       \* history: buffers written to the current file on a later day than its own

vars == <<running, current, buffers, toWrite, pc, log, clock, stopped, lines, taken, busy, behind>>

Init ==
  /\ running = TRUE /\ current = <<>> /\ buffers = <<>> /\ toWrite = <<>>
  /\ pc = "test" /\ clock = 1 /\ log = NewLog(1)
  /\ stopped = "no" /\ lines = <<>> /\ taken = 0 /\ busy = FALSE /\ behind = 0

-----------------------------------------------------------------------------
(* The threads that log, and stop().                                       *)

Avail(buffer) == BufferSize - Bytes(buffer)

\* FixedBuffer::append takes a line only if it fits.
Put(buffer, line) == IF Avail(buffer) > line.len THEN Append(buffer, line) ELSE buffer

\* Mutant of append: a full buffer is replaced, not kept.
AppendDropsFull ==
  /\ stopped = "no"
  /\ Len(lines) < MaxLines
  /\ \E n \in LineLengths :
       LET line == [n |-> Len(lines) + 1, len |-> n]
       IN  /\ lines' = Append(lines, line)
           /\ current' = IF Avail(current) > n THEN Put(current, line) ELSE Put(<<>>, line)
           /\ UNCHANGED buffers
  /\ UNCHANGED <<running, toWrite, pc, log, clock, stopped, taken, busy, behind>>

append ==
  /\ stopped = "no"
  /\ Len(lines) < MaxLines
  /\ \E n \in LineLengths :
       LET line == [n |-> Len(lines) + 1, len |-> n]
       IN  /\ lines' = Append(lines, line)
           /\ IF Avail(current) > n
              THEN current' = Put(current, line) /\ UNCHANGED buffers
              ELSE /\ buffers' = Append(buffers, current)
                   /\ current' = Put(<<>>, line)
  /\ UNCHANGED <<running, toWrite, pc, log, clock, stopped, taken, busy, behind>>

\* The other threads have ended when run() stops the log.
stop ==
  /\ MayStop
  /\ stopped = "no"
  /\ running' = FALSE
  /\ stopped' = "joining"
  /\ busy' = (pc \notin {"lock", "wait"})
  /\ UNCHANGED <<current, buffers, toWrite, pc, log, clock, lines, taken, behind>>

Join ==
  /\ stopped = "joining"
  /\ pc = "ended"
  /\ stopped' = "returned"
  /\ UNCHANGED <<running, current, buffers, toWrite, pc, log, clock, lines, taken, busy, behind>>

-----------------------------------------------------------------------------
(* threadFunc.                                                             *)

Test ==
  /\ pc = "test"
  /\ pc' = IF running THEN "lock" ELSE "end"
  /\ UNCHANGED <<running, current, buffers, toWrite, log, clock, stopped, lines, taken, busy, behind>>

Swapped ==
  /\ toWrite' = Append(buffers, current)
  /\ buffers' = <<>>
  /\ current' = <<>>
  /\ taken' = Len(lines)
  /\ pc' = "write"

Lock ==
  /\ pc = "lock"
  /\ IF buffers = <<>> THEN pc' = "wait" /\ UNCHANGED <<current, buffers, toWrite, taken>> ELSE Swapped
  /\ UNCHANGED <<running, log, clock, stopped, lines, busy, behind>>

\* The wait ends with a notification, its time or for no reason.
TryWait ==
  /\ pc = "wait"
  /\ Swapped
  /\ UNCHANGED <<running, log, clock, stopped, lines, busy, behind>>

Write ==
  /\ pc = "write"
  /\ toWrite # <<>>
  /\ log' = append_unlocked(log, Head(toWrite), clock)
  /\ behind' = IF Len(log'.files) > Len(log.files) THEN 0
               ELSE IF Period(clock) # log.period THEN behind + 1 ELSE behind
  /\ toWrite' = Tail(toWrite)
  /\ UNCHANGED <<running, current, buffers, pc, clock, stopped, lines, taken, busy>>

Written ==
  /\ pc = "write"
  /\ toWrite = <<>>
  /\ log' = Flush(log)
  /\ pc' = "test"
  /\ UNCHANGED <<running, current, buffers, toWrite, clock, stopped, lines, taken, busy, behind>>

EndThread ==
  /\ pc = "end"
  /\ log' = Flush(log)
  /\ pc' = "ended"
  /\ UNCHANGED <<running, current, buffers, toWrite, clock, stopped, lines, taken, busy, behind>>

Tick ==
  /\ clock < MaxTime
  /\ clock' = clock + 1
  /\ UNCHANGED <<running, current, buffers, toWrite, pc, log, stopped, lines, taken, busy, behind>>

Logger == Test \/ Lock \/ TryWait \/ Write \/ Written \/ EndThread
Next == \/ append
        \/ stop \/ Join \/ Logger \/ Tick
        \/ (stopped = "returned" /\ UNCHANGED vars)
Spec == Init /\ [][Next]_vars /\ WF_vars(Logger) /\ WF_vars(Join)

-----------------------------------------------------------------------------
\* The lines the thread has taken are on disk or on their way to it, once and in the order
\* of the appends, whatever buffers fill and files are begun meanwhile; the others wait in
\* the buffers.  The thread leaves its loop without taking the buffers once more, so that
\* the lines that wait then are never written: when stop() has returned, what is on disk
\* is the lines taken, and it is all lines if stop() came while the thread was waiting.
\* AdapterApp::run counts on more, "flush the async log on every return path".
LinesInOrder ==
  /\ OnDisk(log) \o log.buffered \o FlattenSeq(toWrite) = SubSeq(lines, 1, taken)
  /\ FlattenSeq(buffers) \o current = SubSeq(lines, taken + 1, Len(lines))
  /\ stopped = "returned" => /\ OnDisk(log) = SubSeq(lines, 1, taken)
                             /\ taken < Len(lines) => busy

\* A new day's lines go to a new file before CheckEveryN of its buffers were
\* written to the old one.
DayOfFile == behind < CheckEveryN

\* stop() returns.
StopReturns == (stopped = "joining") ~> (stopped = "returned")

=============================================================================
