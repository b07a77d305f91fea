----------------------------- MODULE EventLoop ------------------------------
(***************************************************************************)
(* EventLoop: one thread that polls, handles the channels that are ready    *)
(* and then runs the functors other code has queued, until it is told to    *)
(* quit.  Other threads, callbacks, functors and the process's signal       *)
(* handler all queue functors or ask it to quit; an eventfd ends the poll   *)
(* when they do.  The adapter's main thread sets the loop up, installs the  *)
(* signal handler and then calls loop().                                    *)
(*                                                                         *)
(* A functor is its number in the order of queueing.  What channels and     *)
(* functors do besides queueing and quitting is left out.                   *)
(***************************************************************************)
EXTENDS Naturals, Sequences, FiniteSets

CONSTANTS
  Threads,       \* threads other than the loop's that call into it
  Channels,      \* channels registered with the poller, besides the wakeup fd
  kEventListSize,\* kInitEventListSize: how many events a poll reports at first
  MaxFunctors,   \* bound on the functors queued
  MaxEvents      \* bound on how often a channel becomes ready

ASSUME EventLoopAssumption ==
  /\ MaxFunctors \in Nat /\ MaxEvents \in Nat
  /\ kEventListSize \in Nat \ {0}
  /\ IsFiniteSet(Channels)
  /\ "wake" \notin Channels

VARIABLES
  pc,        \* where the loop's thread is
  flags,     \* which of _quit ("quit") and _callingPendingFunctors ("calling") are set
  pending,   \* _pendingFunctors
  functors,  \* what doPendingFunctors has taken and not yet run
  wake,      \* whether the eventfd is readable: 1, or 0
  ready,     \* channels with an event that is not handled yet
  active,    \* _activeChannels that the loop has still to handle
  room,      \* _events.size()
  call,      \* call[t]: what thread t has still to do of the call it is in
  events,    \* how many events there have been (bounded by MaxEvents)
  queued,    \* history: how many functors were queued
  ran        \* history: the functors that ran, in order

vars == <<pc, flags, pending, functors, wake, ready, active, room, call, events, queued, ran>>

loopVars == <<pc, flags, functors, active, room>>

-----------------------------------------------------------------------------
Init ==
  /\ pc = "setup" /\ flags = {}
  /\ pending = <<>> /\ functors = <<>>
  /\ wake = 0 /\ ready = {} /\ active = {} /\ room = kEventListSize
  /\ call = [t \in Threads |-> "none"]
  /\ events = 0 /\ queued = 0 /\ ran = <<>>

\* AdapterApp::installSignalHandlers, and loop() up to its first test.
InstallHandlers ==
  /\ pc = "setup" /\ pc' = "armed"
  /\ UNCHANGED <<flags, pending, functors, wake, ready, active, room, call, events, queued, ran>>

EnterLoop ==
  /\ pc = "armed" /\ pc' = "test"
  /\ flags' = flags \ {"quit"}
  /\ UNCHANGED <<pending, functors, wake, ready, active, room, call, events, queued, ran>>

\* while (!_quit)
TestQuit ==
  /\ pc = "test"
  /\ pc' = IF "quit" \in flags THEN "returned" ELSE "polling"
  /\ UNCHANGED <<flags, pending, functors, wake, ready, active, room, call, events, queued, ran>>

Ready == ready \cup (IF wake = 1 THEN {"wake"} ELSE {})

\* epoll_wait reports at most room of the ready descriptors and never blocks when
\* there is one; with none it returns after the timeout or on a signal.  A full
\* list is doubled for the next poll.
Poll ==
  /\ pc = "polling" /\ pc' = "handling"
  /\ \E S \in SUBSET Ready :
       /\ Cardinality(S) = (IF Cardinality(Ready) < room THEN Cardinality(Ready) ELSE room)
       /\ active' = S
       /\ room' = IF Cardinality(S) = room THEN 2 * room ELSE room
  /\ UNCHANGED <<flags, pending, functors, wake, ready, call, events, queued, ran>>

\* EPollPoller::handleRead: reading the eventfd clears it.
HandleWake ==
  /\ pc = "handling" /\ "wake" \in active
  /\ active' = active \ {"wake"} /\ wake' = 0
  /\ UNCHANGED <<pc, flags, pending, functors, ready, room, call, events, queued, ran>>

\* Mutant: queueInLoop wakes the loop only for a call from another thread.
QueueHereNoWake ==
  /\ queued < MaxFunctors
  /\ queued' = queued + 1
  /\ pending' = Append(pending, queued')
  /\ UNCHANGED wake

\* queueInLoop called on the loop's own thread.
QueueHere ==
  /\ queued < MaxFunctors
  /\ queued' = queued + 1
  /\ pending' = Append(pending, queued')
  /\ wake' = IF "calling" \in flags THEN 1 ELSE wake

\* What a callback or a functor may do: nothing here, queue a functor, or quit.
\* runInLoop called on this thread runs its argument at once, which is part of
\* the callback.
UserCode ==
  \/ UNCHANGED <<pending, wake, queued, flags>>
  \/ QueueHere /\ UNCHANGED flags
  \/ flags' = flags \cup {"quit"} /\ UNCHANGED <<pending, wake, queued>>

\* Channel::handleEvent of a ready channel; its callback consumes the event.
HandleChannel(c) ==
  /\ pc = "handling" /\ c \in active \ {"wake"}
  /\ active' = active \ {c} /\ ready' = ready \ {c}
  /\ UserCode
  /\ UNCHANGED <<pc, functors, room, call, events, ran>>

\* Mutant: the functors are copied instead of swapped out.
TakeFunctorsByCopy ==
  /\ pc = "handling" /\ active = {} /\ pc' = "running"
  /\ functors' = pending
  /\ flags' = flags \cup {"calling"}
  /\ UNCHANGED <<pending, wake, ready, active, room, call, events, queued, ran>>

\* Mutant: the local vector is cleared after the swap.
TakeFunctorsDropped ==
  /\ pc = "handling" /\ active = {} /\ pc' = "running"
  /\ functors' = <<>> /\ pending' = <<>>
  /\ flags' = flags \cup {"calling"}
  /\ UNCHANGED <<wake, ready, active, room, call, events, queued, ran>>

\* doPendingFunctors swaps the queue out under the mutex.
TakeFunctors ==
  /\ pc = "handling" /\ active = {} /\ pc' = "running"
  /\ functors' = pending /\ pending' = <<>>
  /\ flags' = flags \cup {"calling"}
  /\ UNCHANGED <<wake, ready, active, room, call, events, queued, ran>>

RunFunctor ==
  /\ pc = "running" /\ functors # <<>>
  /\ ran' = Append(ran, Head(functors)) /\ functors' = Tail(functors)
  /\ UserCode
  /\ UNCHANGED <<pc, ready, active, room, call, events>>

FunctorsDone ==
  /\ pc = "running" /\ functors = <<>> /\ pc' = "test"
  /\ flags' = flags \ {"calling"}
  /\ UNCHANGED <<pending, functors, wake, ready, active, room, call, events, queued, ran>>

-----------------------------------------------------------------------------
\* queueInLoop or runInLoop on another thread: the push, then the wakeup.
Push(t) ==
  /\ call[t] = "none" /\ queued < MaxFunctors
  /\ queued' = queued + 1
  /\ pending' = Append(pending, queued')
  /\ call' = [call EXCEPT ![t] = "wakeup"]
  /\ UNCHANGED <<loopVars, wake, ready, events, ran>>

\* quit on another thread (AdapterApp::stop, or a signal delivered there): the
\* flag, then the wakeup.
Quit(t) ==
  /\ call[t] = "none" /\ "quit" \notin flags
  /\ pc # "setup"
  /\ flags' = flags \cup {"quit"}
  /\ call' = [call EXCEPT ![t] = "wakeup"]
  /\ UNCHANGED <<pc, pending, functors, wake, ready, active, room, events, queued, ran>>

\* EPollPoller::wakeup
Wakeup(t) ==
  /\ call[t] = "wakeup"
  /\ wake' = 1
  /\ call' = [call EXCEPT ![t] = "none"]
  /\ UNCHANGED <<loopVars, pending, ready, events, queued, ran>>

\* posixSignalHandler on the loop's own thread, between any two of its steps:
\* quit() sets the flag and writes no wakeup; a poll in progress ends with EINTR.
Signal ==
  /\ pc \notin {"setup", "returned"} /\ "quit" \notin flags
  /\ flags' = flags \cup {"quit"}
  /\ \/ pc = "polling" /\ pc' = "handling"
     \/ UNCHANGED pc          \* before epoll_wait is entered, or elsewhere
  /\ UNCHANGED <<pending, functors, wake, ready, active, room, call, events, queued, ran>>

\* A descriptor becomes ready.
Event(c) ==
  /\ events < MaxEvents /\ c \notin ready
  /\ ready' = ready \cup {c} /\ events' = events + 1
  /\ UNCHANGED <<loopVars, pending, wake, call, queued, ran>>

Loop ==
  \/ InstallHandlers \/ EnterLoop \/ TestQuit \/ Poll \/ HandleWake
  \/ \E c \in Channels : HandleChannel(c)
  \/ TakeFunctors \/ RunFunctor \/ FunctorsDone

Next ==
  \/ Loop
  \/ \E t \in Threads : Push(t) \/ Quit(t) \/ Wakeup(t)
  \/ Signal
  \/ \E c \in Channels : Event(c)

Spec == Init /\ [][Next]_vars

\* A thread that can run is scheduled; a poll returns after kPollTimeMs at the
\* latest.  Nothing is assumed of calls, signals and events.
FairSpec ==
  /\ Spec /\ WF_vars(Loop)
  /\ \A t \in Threads : WF_vars(Wakeup(t))

-----------------------------------------------------------------------------
\* The shape of EventLoop's state.
TypeOK ==
  /\ pc \in {"setup", "armed", "test", "polling", "handling", "running", "returned"}
  /\ flags \subseteq {"quit", "calling"}
  /\ pending \in Seq(Nat) /\ functors \in Seq(Nat) /\ ran \in Seq(Nat)
  /\ wake \in {0, 1}
  /\ call \in [Threads -> {"none", "wakeup"}]
  /\ queued \in Nat

\* Functors run in the order in which they were queued, by whatever thread, none
\* is lost and none runs twice: what ran, what doPendingFunctors holds and what is
\* pending are together the functors queued, in order.
FunctorsInOrder == ran \o functors \o pending = [i \in 1 .. queued |-> i]

\* The loop never sleeps on a functor: whenever it polls with functors pending,
\* the eventfd is readable or the thread that queued is about to write it.
NoSleepOnFunctor ==
  pc = "polling" /\ pending # <<>> => wake = 1 \/ \E t \in Threads : call[t] = "wakeup"

\* Between doPendingFunctors' swap and its end, and only then, functors are held and
\* _callingPendingFunctors is set.
FunctorsHeld ==
  IF pc = "running" THEN "calling" \in flags ELSE functors = <<>>

\* A functor that is pending is noticed: the eventfd is readable, or is about to be
\* written by another thread, or the loop is past its poll and will take it.
PendingNoticed ==
  pending # <<>> =>
    wake = 1 \/ pc = "handling" \/ \E t \in Threads : call[t] = "wakeup"

\* A quit that is requested while the loop runs ends it.
QuitEndsLoop == "quit" \in flags /\ pc # "armed" ~> pc = "returned"

\* A functor queued runs, unless the loop is told to quit.
QueuedRuns ==
  \A n \in 1 .. MaxFunctors : queued >= n ~> Len(ran) >= n \/ "quit" \in flags

\* An event is handled, also when more descriptors are ready than a poll reports.
EventHandled ==
  \A c \in Channels : c \in ready ~> c \notin ready \/ "quit" \in flags

=============================================================================
