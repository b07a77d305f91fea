------------------------------- MODULE MCLoop --------------------------------
(***************************************************************************)
(* The event loop, its timers and the log's thread for TLC.  A behaviour is *)
(* one of one of the three; the others stay in their initial states.        *)
(***************************************************************************)
EXTENDS EventLoop, TLC

CONSTANTS
  Parts,                                          \* of "loop", "timers" and "log"
  Addrs, MaxCreated, End, Intervals, Windows,     \* of TimerQueue
  RollSize, CheckEveryN, FlushInterval, Day,      \* of AsyncLogging
  LineLengths, MaxLines, BufferSize, MaxTime, MayStop

VARIABLES
  part,      \* the component that moves
  clock, heap, issued, timers, activeTimers, canceling, calling, expired, next, now,
  armed, readable, posted, cancelled, late, done,
  running, current, buffers, toWrite, logger, log, seconds, stopped, lines, taken, busy, behind

timerVars == <<clock, heap, issued, timers, activeTimers, canceling, calling, expired, next,
               now, armed, readable, posted, cancelled, late, done>>
logVars == <<running, current, buffers, toWrite, logger, log, seconds, stopped, lines, taken, busy, behind>>

T == INSTANCE TimerQueue WITH active <- activeTimers, pending <- posted
L == INSTANCE AsyncLogging WITH pc <- logger, clock <- seconds

Symmetric == Permutations(Threads) \cup Permutations(Channels) \cup Permutations(Addrs)

SuiteInit == part \in Parts /\ Init /\ T!Init /\ L!Init

SuiteNext ==
  \/ part = "loop" /\ Next /\ UNCHANGED <<part, timerVars, logVars>>
  \/ part = "loop" /\ pc = "returned" /\ UNCHANGED <<part, vars, timerVars, logVars>>
  \/ part = "timers" /\ T!Next /\ UNCHANGED <<part, vars, logVars>>
  \/ part = "log" /\ L!Next /\ UNCHANGED <<part, vars, timerVars>>

SuiteSpec == SuiteInit /\ [][SuiteNext]_<<part, vars, timerVars, logVars>>

-----------------------------------------------------------------------------
\* TimerQueue: _timers and _activeTimers hold the same timers under their own
\* expirations, each timer is in exactly one place until it is deleted, and one
\* that was cancelled is in none, also when addresses are used again and when
\* callbacks add and cancel while the batch is being run.  No timer runs early, and
\* while the loop waits the kernel timer is armed for the earliest timer or before it.
TimersKept == T!SetsAgree /\ T!EachTimerKept /\ T!CancelledStops /\ T!NotEarly /\ T!ArmedInTime

\* AsyncLogging and LogFile: the lines the thread has taken are on disk or on their way
\* there, once and in order, the others wait, and are lost only if stop() found the thread
\* at work; a new day's lines go to a new file before checkEveryN buffers of that day were
\* written to the old one.
LinesInOrder == L!LinesInOrder /\ L!DayOfFile
=============================================================================
