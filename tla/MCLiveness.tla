----------------------------- MODULE MCLiveness ------------------------------
(***************************************************************************)
(* What must eventually happen in the parts below the pipeline: the event   *)
(* loop (EventLoop), the blocking queue (BlockingQueue), the connections of *)
(* a server (TcpServer) and the Modbus poller (ModbusPoller).  A behaviour  *)
(* is one of one of the four; the others stay in their initial states.      *)
(***************************************************************************)
EXTENDS TcpServer

CONSTANTS
  Parts,                                          \* of "loop", "queue", "tcp" and "poller"
  Threads,
  Channels, kEventListSize, MaxFunctors, MaxEvents,     \* of EventLoop
  Budget, MaxBulk, MaxInner,                            \* of BlockingQueue
  Sessions, PollFds, TidLimit, MaxPush, invalid         \* of ModbusPoller

VARIABLES
  part,      \* the component that moves
  at, flags, pending, taken, wake, ready, handled, room, call, events, queued, ran,
  m_count, m_sema, inner, qpc, op, left,
  running, main, shut, spc, fd, mx, my, tid, req, owner, inbox

loopVars == <<at, flags, pending, taken, wake, ready, handled, room, call, events, queued, ran>>
queueVars == <<m_count, m_sema, inner, qpc, op, left>>
pollerVars == <<running, main, shut, spc, fd, mx, my, tid, req, owner, inbox>>
allVars == <<part, vars, loopVars, queueVars, pollerVars>>

E == INSTANCE EventLoop WITH pc <- at, functors <- taken, active <- handled
Q == INSTANCE BlockingQueue WITH pc <- qpc
P == INSTANCE ModbusPoller WITH pc <- spc, Fds <- PollFds

SuiteInit == part \in Parts /\ Init /\ E!Init /\ Q!Init /\ P!Init

\* What stays as it is while one part moves.
RestOfLoop == part = "loop" /\ UNCHANGED <<part, vars, queueVars, pollerVars>>
RestOfQueue == part = "queue" /\ UNCHANGED <<part, vars, loopVars, pollerVars>>
RestOfTcp == part = "tcp" /\ UNCHANGED <<part, loopVars, queueVars, pollerVars>>
RestOfPoller == part = "poller" /\ UNCHANGED <<part, vars, loopVars, queueVars>>

SuiteNext ==
  \/ RestOfLoop /\ E!Next
  \/ RestOfQueue /\ Q!Next
  \/ RestOfTcp /\ Next
  \/ RestOfPoller /\ P!Next

\* Threads that can run are scheduled, also inside a call; polls, sleeps, connects
\* and timed waits end; a peer that keeps its connection keeps reading; stop() gets
\* a mutex that is free again and again.  Nothing is assumed of calls, signals,
\* events and data.
Fairness ==
  /\ WF_allVars(RestOfLoop /\ E!Loop) /\ \A t \in Threads : WF_allVars(RestOfLoop /\ E!Wakeup(t))
  /\ \A t \in Threads : WF_allVars(RestOfQueue /\ Q!Step(t)) /\ WF_allVars(RestOfQueue /\ Q!TimeOut(t))
  /\ WF_allVars(RestOfTcp /\ Loop) /\ \A c \in Conns : WF_allVars(RestOfTcp /\ PeerReads(c))
  /\ \A d \in Sessions : WF_allVars(RestOfPoller /\ P!Thread(d)) /\ SF_allVars(RestOfPoller /\ P!StopShut(d))
  /\ WF_allVars(RestOfPoller /\ P!StopJoin)

SuiteSpec == SuiteInit /\ [][SuiteNext]_allVars /\ Fairness

-----------------------------------------------------------------------------
\* EventLoop: a quit that is requested while the loop runs ends it, a functor that
\* is queued runs and an event is handled unless the loop is told to quit, also when
\* more descriptors are ready than a poll reports.
LoopProgress == part = "loop" => E!QuitEndsLoop /\ E!QueuedRuns /\ E!EventHandled

\* BlockingConcurrentQueue: a timed dequeue returns, and elements do not stay in the
\* queue while a thread waits for one.
QueueProgress == part = "queue" => Q!TimedReturns /\ Q!WaiterIsServed

\* TcpServer and ModbusPoller: a connection whose peer is gone is freed, and a
\* shutdown ends in a FIN; each device is polled again and again until stop(), and
\* stop() returns unless a thread reads from a descriptor that has become another's.
LinksProgress ==
  /\ part = "tcp" => GoneIsFreed /\ ShutdownSent
  /\ part = "poller" => P!StopReturnsOrReused /\ P!KeepsPolling
=============================================================================
