---------------------------- MODULE ThreadProofs ----------------------------
(***************************************************************************)
(* Proofs about what threads share.  EventLoop, for any threads, channels   *)
(* and numbers of events and functors: functors run in the order queued,    *)
(* once each, and the loop never sleeps in its poll while one waits.        *)
(* ModbusPoller, for any number of devices and descriptors: a link belongs  *)
(* to its session, and stop() leaves none open.                             *)
(***************************************************************************)
EXTENDS EventLoop, SequenceTheorems, TLAPS

CONSTANTS Sessions, Fds, TidLimit, MaxPush, invalid                            \* of ModbusPoller
VARIABLES running, main, shut, place, fd, mx, my, tid, req, owner, inbox

P == INSTANCE ModbusPoller WITH pc <- place

-----------------------------------------------------------------------------
\* Brackets do not matter.
LEMMA Regroup == \A a, b, c \in Seq(Nat) : (a \o b) \o c = a \o (b \o c)
<1> SUFFICES ASSUME NEW a \in Seq(Nat), NEW b \in Seq(Nat), NEW c \in Seq(Nat)
             PROVE  (a \o b) \o c = a \o (b \o c)
  OBVIOUS
<1> QED
  BY ConcatAssociative, SMTT(30)

\* The numbers 1 .. n in order, with n + 1 behind them.
LEMMA CountOn ==
  ASSUME NEW n \in Nat
  PROVE  Append([i \in 1 .. n |-> i], n + 1) = [i \in 1 .. n + 1 |-> i]
<1> DEFINE s == [i \in 1 .. n |-> i]
           t == [i \in 1 .. n + 1 |-> i]
<1>1. s \in Seq(Nat) /\ Len(s) = n /\ t \in Seq(Nat) /\ Len(t) = n + 1
  OBVIOUS
<1>2. Append(s, n + 1) \in Seq(Nat) /\ Len(Append(s, n + 1)) = n + 1
  BY <1>1
<1>3. ASSUME NEW i \in 1 .. n + 1 PROVE Append(s, n + 1)[i] = t[i]
  <2>1. t[i] = i
    OBVIOUS
  <2>2. CASE i = n + 1
    BY <1>1, <2>1, <2>2
  <2>3. CASE i \in 1 .. n
    BY <1>1, <2>1, <2>3
  <2> QED
    BY <2>2, <2>3
<1> HIDE DEF s, t
<1>4. Append(s, n + 1) = t
  BY <1>1, <1>2, <1>3, SeqEqual
<1> QED
  BY <1>4 DEF s, t

\* An element at the end of two sequences in a row is at the end of the second.
LEMMA AppendBehind ==
  ASSUME NEW g \in Seq(Nat), NEW p \in Seq(Nat), NEW x \in Nat
  PROVE  g \o Append(p, x) = Append(g \o p, x)
<1> DEFINE u == g \o Append(p, x)
           v == Append(g \o p, x)
           i == Len(g)
           j == Len(p)
<1>1. i \in Nat /\ j \in Nat
  OBVIOUS
<1>2. u \in Seq(Nat) /\ v \in Seq(Nat) /\ Len(u) = i + j + 1 /\ Len(v) = i + j + 1
  OBVIOUS
<1>3. ASSUME NEW n \in 1 .. i PROVE u[n] = v[n]
  OBVIOUS
<1>4. ASSUME NEW n \in i + 1 .. i + j PROVE u[n] = v[n]
  OBVIOUS
<1>5. u[i + j + 1] = v[i + j + 1]
  OBVIOUS
<1> HIDE DEF u, v, i, j
<1>6. \A n \in 1 .. Len(u) : u[n] = v[n]
  BY <1>1, <1>2, <1>3, <1>4, <1>5
<1>7. u = v
  BY <1>2, <1>6, SeqEqual
<1> QED
  BY <1>7 DEF u, v

\* What queueing, taking and running functors does to the three sequences in a row.
LEMMA QueueAtEnd ==
  ASSUME NEW r \in Seq(Nat), NEW f \in Seq(Nat), NEW p \in Seq(Nat), NEW x \in Nat
  PROVE  r \o f \o Append(p, x) = Append(r \o f \o p, x)
<1>1. r \o f \in Seq(Nat)
  OBVIOUS
<1> QED
  BY <1>1, AppendBehind, Zenon

\* Running the first of the taken functors keeps the order.
LEMMA RunFirst ==
  ASSUME NEW r \in Seq(Nat), NEW f \in Seq(Nat), f # <<>>
  PROVE  Append(r, Head(f)) \o Tail(f) = r \o f
<1>1. Head(f) \in Nat /\ Tail(f) \in Seq(Nat) /\ <<Head(f)>> \in Seq(Nat)
  OBVIOUS
<1>2. f = <<Head(f)>> \o Tail(f)
  BY <1>1, SMTT(30)
<1>3. Append(r, Head(f)) = r \o <<Head(f)>>
  BY <1>1, AppendIsConcat, Zenon
<1>4. (r \o <<Head(f)>>) \o Tail(f) = r \o (<<Head(f)>> \o Tail(f))
  BY <1>1, Regroup, Zenon
<1> QED
  BY <1>2, <1>3, <1>4, Zenon

-----------------------------------------------------------------------------
\* What the queueing code does, wherever it is called from: nothing, or one functor
\* more at the end.
Queues ==
  \/ UNCHANGED <<pending, queued>>
  \/ queued' = queued + 1 /\ pending' = Append(pending, queued + 1)

\* What a callback or a functor may do: queue, quit, and ring the eventfd where queueInLoop does.
LEMMA UserCodeQueues ==
  ASSUME TypeOK, UserCode
  PROVE  /\ Queues
         /\ flags' \subseteq {"quit", "calling"} /\ ("calling" \in flags => "calling" \in flags')
         /\ wake' \in {0, 1} /\ (wake = 1 => wake' = 1)
         /\ "calling" \in flags /\ pending' # pending => wake' = 1
  BY Zenon DEF TypeOK, UserCode, QueueHere, Queues

\* Queueing keeps the types.
LEMMA QueuesType ==
  ASSUME TypeOK, Queues
  PROVE  pending' \in Seq(Nat) /\ queued' \in Nat
<1>1. pending \in Seq(Nat) /\ queued \in Nat /\ queued + 1 \in Nat
  BY DEF TypeOK
<1>2. Append(pending, queued + 1) \in Seq(Nat)
  BY <1>1, AppendProperties
<1> QED
  BY <1>1, <1>2, Zenon DEF Queues

\* Every step of the loop and of the threads keeps the types.
LEMMA TypeStep ==
  ASSUME TypeOK, [Next]_vars
  PROVE  TypeOK'
<1>0. /\ pending \in Seq(Nat) /\ functors \in Seq(Nat) /\ ran \in Seq(Nat) /\ queued \in Nat
      /\ <<>> \in Seq(Nat)
  BY DEF TypeOK
<1>1. CASE InstallHandlers \/ EnterLoop \/ TestQuit \/ Poll \/ HandleWake \/ FunctorsDone \/ Signal
  <2>1. UNCHANGED <<pending, functors, ran, queued, call>> /\ wake' \in {0, 1}
    BY <1>1 DEF TypeOK, InstallHandlers, EnterLoop, TestQuit, Poll, HandleWake, FunctorsDone, Signal
  <2>2. /\ pc' \in {"setup", "armed", "test", "polling", "handling", "running", "returned"}
        /\ flags' \subseteq {"quit", "calling"}
    BY <1>1, Zenon DEF TypeOK, InstallHandlers, EnterLoop, TestQuit, Poll, HandleWake, FunctorsDone, Signal
  <2> QED
    BY <2>1, <2>2 DEF TypeOK
<1>2. CASE TakeFunctors
  BY <1>0, <1>2 DEF TypeOK, TakeFunctors
<1>3. ASSUME NEW c \in Channels, HandleChannel(c) PROVE TypeOK'
  BY <1>3, UserCodeQueues, QueuesType DEF TypeOK, HandleChannel
<1>4. CASE RunFunctor
  <2>1. ran' \in Seq(Nat) /\ functors' \in Seq(Nat) /\ UNCHANGED <<pc, call>> /\ UserCode
    BY <1>0, <1>4 DEF RunFunctor
  <2> QED
    BY <2>1, UserCodeQueues, QueuesType DEF TypeOK
<1>5. ASSUME NEW t \in Threads, Push(t) PROVE TypeOK'
  <2>1. pending' \in Seq(Nat) /\ queued' \in Nat
    BY <1>5, QueuesType DEF Push, Queues
  <2> QED
    BY <1>5, <2>1 DEF TypeOK, Push, loopVars
<1>6. ASSUME NEW t \in Threads, Quit(t) \/ Wakeup(t) PROVE TypeOK'
  BY <1>6, Zenon DEF TypeOK, Quit, Wakeup, loopVars
<1>7. ASSUME NEW c \in Channels, Event(c) PROVE TypeOK'
  BY <1>7 DEF TypeOK, Event, loopVars
<1>8. CASE UNCHANGED vars
  BY <1>8 DEF TypeOK, vars
<1> QED
  BY <1>1, <1>2, <1>3, <1>4, <1>5, <1>6, <1>7, <1>8 DEF Next, Loop

\* Functors are held only while they are being called.
LEMMA HeldStep ==
  ASSUME TypeOK, FunctorsHeld, [Next]_vars
  PROVE  FunctorsHeld'
<1> USE DEF FunctorsHeld
<1>1. CASE InstallHandlers \/ EnterLoop \/ TestQuit \/ Poll \/ HandleWake \/ TakeFunctors
           \/ FunctorsDone \/ Signal
  BY <1>1 DEF InstallHandlers, EnterLoop, TestQuit, Poll, HandleWake, TakeFunctors, FunctorsDone,
              Signal
<1>2. ASSUME NEW c \in Channels, HandleChannel(c) PROVE FunctorsHeld'
  BY <1>2 DEF HandleChannel
<1>3. CASE RunFunctor
  BY <1>3, UserCodeQueues DEF RunFunctor
<1>4. ASSUME NEW t \in Threads, Push(t) \/ Quit(t) \/ Wakeup(t) PROVE FunctorsHeld'
  BY <1>4 DEF Push, Quit, Wakeup, loopVars
<1>5. ASSUME NEW c \in Channels, Event(c) PROVE FunctorsHeld'
  BY <1>5 DEF Event, loopVars
<1>6. CASE UNCHANGED vars
  BY <1>6 DEF vars
<1> QED
  BY <1>1, <1>2, <1>3, <1>4, <1>5, <1>6 DEF Next, Loop

\* Queueing keeps the order when nothing else moves.
LEMMA QueuesInOrder ==
  ASSUME TypeOK, FunctorsInOrder, Queues, ran' \in Seq(Nat), functors' \in Seq(Nat),
         ran' \o functors' = ran \o functors
  PROVE  FunctorsInOrder'
<1>1. CASE UNCHANGED <<pending, queued>>
  BY <1>1 DEF FunctorsInOrder
<1>2. CASE queued' = queued + 1 /\ pending' = Append(pending, queued + 1)
  <2>1. ran' \o functors' \o pending' = Append(ran' \o functors' \o pending, queued + 1)
    <3>1. pending \in Seq(Nat) /\ queued + 1 \in Nat
      BY DEF TypeOK
    <3> QED
      BY <1>2, <3>1, QueueAtEnd, Zenon
  <2>2. ran' \o functors' \o pending = [i \in 1 .. queued |-> i]
    BY DEF FunctorsInOrder
  <2>3. Append([i \in 1 .. queued |-> i], queued + 1) = [i \in 1 .. queued + 1 |-> i]
    BY CountOn DEF TypeOK
  <2> QED
    BY <1>2, <2>1, <2>2, <2>3, Zenon DEF FunctorsInOrder
<1> QED
  BY <1>1, <1>2 DEF Queues

\* Every step keeps the functors in the order queued.
LEMMA OrderStep ==
  ASSUME TypeOK, FunctorsHeld, FunctorsInOrder, [Next]_vars
  PROVE  FunctorsInOrder'
<1>0. ran \in Seq(Nat) /\ functors \in Seq(Nat) /\ pending \in Seq(Nat)
  BY DEF TypeOK
<1>1. CASE UNCHANGED <<ran, functors, pending, queued>>
  BY <1>1 DEF FunctorsInOrder
<1>2. ASSUME UNCHANGED <<ran, functors>>, Queues PROVE FunctorsInOrder'
  BY <1>0, <1>2, QueuesInOrder
<1>3. CASE InstallHandlers \/ EnterLoop \/ TestQuit \/ Poll \/ HandleWake \/ FunctorsDone \/ Signal
  BY <1>1, <1>3 DEF InstallHandlers, EnterLoop, TestQuit, Poll, HandleWake, FunctorsDone, Signal
<1>4. ASSUME NEW c \in Channels, HandleChannel(c) PROVE FunctorsInOrder'
  BY <1>2, <1>4, UserCodeQueues DEF HandleChannel
<1>5. CASE TakeFunctors
  <2>1. /\ functors = <<>> /\ functors' = pending /\ pending' = <<>>
        /\ UNCHANGED <<ran, queued>>
    BY <1>5 DEF TakeFunctors, FunctorsHeld
  <2>2. ran \o <<>> \o pending = ran \o pending \o <<>>
    <3>1. ran \o <<>> = ran
      BY <1>0, ConcatEmptySeq
    <3>2. ran \o pending \o <<>> = ran \o pending
      BY <1>0, ConcatEmptySeq, ConcatProperties
    <3> QED
      BY <3>1, <3>2
  <2> QED
    BY <2>1, <2>2 DEF FunctorsInOrder
<1>6. CASE RunFunctor
  <2>1. /\ functors # <<>> /\ ran' = Append(ran, Head(functors)) /\ functors' = Tail(functors)
        /\ UserCode
    BY <1>6 DEF RunFunctor
  <2>2. ran' \in Seq(Nat) /\ functors' \in Seq(Nat)
    BY <1>0, <2>1
  <2>3. ran' \o functors' = ran \o functors
    BY <1>0, <2>1, RunFirst, SMTT(30)
  <2> QED
    BY <2>1, <2>2, <2>3, UserCodeQueues, QueuesInOrder, SMTT(30)
<1>7. ASSUME NEW t \in Threads, Push(t) PROVE FunctorsInOrder'
  BY <1>2, <1>7 DEF Push, Queues, loopVars
<1>8. ASSUME NEW t \in Threads, Quit(t) \/ Wakeup(t) PROVE FunctorsInOrder'
  BY <1>1, <1>8 DEF Quit, Wakeup, loopVars
<1>9. ASSUME NEW c \in Channels, Event(c) PROVE FunctorsInOrder'
  BY <1>1, <1>9 DEF Event, loopVars
<1>10. CASE UNCHANGED vars
  BY <1>1, <1>10 DEF vars
<1> QED
  BY <1>3, <1>4, <1>5, <1>6, <1>7, <1>8, <1>9, <1>10 DEF Next, Loop

\* Every step keeps a waiting functor noticed.
LEMMA NoticedStep ==
  ASSUME TypeOK, FunctorsHeld, PendingNoticed, [Next]_vars
  PROVE  PendingNoticed'
<1> USE DEF PendingNoticed
<1>1. CASE InstallHandlers \/ EnterLoop \/ TestQuit \/ Poll \/ HandleWake \/ TakeFunctors
           \/ FunctorsDone \/ Signal
  BY <1>1 DEF InstallHandlers, EnterLoop, TestQuit, Poll, HandleWake, TakeFunctors, FunctorsDone,
              Signal
<1>2. ASSUME NEW c \in Channels, HandleChannel(c) PROVE PendingNoticed'
  BY <1>2 DEF HandleChannel
<1>3. CASE RunFunctor
  <2>1. pc = "running" /\ pc' = pc /\ call' = call /\ UserCode
    BY <1>3 DEF RunFunctor
  <2>2. "calling" \in flags
    BY <2>1 DEF FunctorsHeld
  <2>3. (wake = 1 => wake' = 1) /\ (pending' # pending => wake' = 1)
    BY <2>1, <2>2, UserCodeQueues
  <2> QED
    BY <2>1, <2>3
<1>4. ASSUME NEW t \in Threads, Push(t) PROVE PendingNoticed'
  BY <1>4 DEF Push, TypeOK
<1>5. ASSUME NEW t \in Threads, Quit(t) PROVE PendingNoticed'
  BY <1>5 DEF Quit, TypeOK
<1>6. ASSUME NEW t \in Threads, Wakeup(t) PROVE PendingNoticed'
  BY <1>6 DEF Wakeup
<1>7. ASSUME NEW c \in Channels, Event(c) PROVE PendingNoticed'
  BY <1>7 DEF Event, loopVars
<1>8. CASE UNCHANGED vars
  BY <1>8 DEF vars
<1> QED
  BY <1>1, <1>2, <1>3, <1>4, <1>5, <1>6, <1>7, <1>8 DEF Next, Loop

-----------------------------------------------------------------------------
\* EventLoop's state keeps its shape, and doPendingFunctors holds functors only
\* while _callingPendingFunctors is set.
THEOREM LoopHolds == Spec => [](TypeOK /\ FunctorsHeld)
<1>1. Init => TypeOK /\ FunctorsHeld
  BY DEF Init, TypeOK, FunctorsHeld
<1>2. TypeOK /\ FunctorsHeld /\ [Next]_vars => TypeOK' /\ FunctorsHeld'
  BY TypeStep, HeldStep
<1> QED
  BY <1>1, <1>2, PTL DEF Spec

\* Functors run in the order in which queueInLoop was called, by whatever thread,
\* callback or functor; none is lost and none runs twice.
THEOREM FunctorsRunInOrder == Spec => []FunctorsInOrder
<1>1. Init => FunctorsInOrder
  <2> SUFFICES ASSUME Init PROVE FunctorsInOrder
    OBVIOUS
  <2>1. ran = <<>> /\ functors = <<>> /\ pending = <<>> /\ queued = 0
    BY DEF Init
  <2>2. <<>> \o <<>> \o <<>> = <<>>
    BY ConcatEmptySeq
  <2>3. [i \in 1 .. 0 |-> i] = <<>>
    OBVIOUS
  <2> QED
    BY <2>1, <2>2, <2>3 DEF FunctorsInOrder
<1>2. TypeOK /\ FunctorsHeld /\ FunctorsInOrder /\ [Next]_vars => FunctorsInOrder'
  BY OrderStep
<1> QED
  BY <1>1, <1>2, LoopHolds, PTL DEF Spec

\* The loop never sleeps in its poll on a functor that waits: queueInLoop leaves the
\* eventfd readable, or is about to, whichever thread called it and wherever the
\* loop was.
THEOREM LoopNeverSleepsOnFunctor == Spec => []NoSleepOnFunctor
<1>1. Init => PendingNoticed
  BY DEF Init, PendingNoticed
<1>2. TypeOK /\ FunctorsHeld /\ PendingNoticed /\ [Next]_vars => PendingNoticed'
  BY NoticedStep
<1>3. PendingNoticed => NoSleepOnFunctor
  BY DEF PendingNoticed, NoSleepOnFunctor
<1> QED
  BY <1>1, <1>2, <1>3, LoopHolds, PTL DEF Spec

-----------------------------------------------------------------------------
\* A link belongs to its session and none is left open, for any number of devices and
\* descriptors and however stop() interleaves with the threads.

\* A fresh poller has no link.
LEMMA LinkInit == P!Init => P!TypeOK /\ P!LinkInv
  BY DEF P!Init, P!TypeOK, P!LinkInv, P!SessionOwnsFd, P!Places

\* A thread that moves on without touching a descriptor keeps the invariant, if it
\* does not leave or reach the point between connect and s->fd, and if it connects or
\* ends only without a link.
LEMMA MoveOn ==
  ASSUME P!TypeOK, P!LinkInv, NEW s \in Sessions, NEW l \in P!Places \ {"install"},
         place[s] \notin {"install", "done"}, l \in {"connect", "done"} => fd[s] = invalid,
         P!Goto(s, l), UNCHANGED <<main, fd, my, owner>>
  PROVE  P!TypeOK' /\ P!LinkInv'
<1>1. /\ place' = [place EXCEPT ![s] = l]
      /\ main' = main /\ fd' = fd /\ my' = my /\ owner' = owner
  BY DEF P!Goto
<1>2. P!TypeOK'
  BY <1>1 DEF P!TypeOK
<1>3. P!LinkInv'
  BY <1>1 DEF P!TypeOK, P!LinkInv, P!SessionOwnsFd
<1> QED BY <1>2, <1>3

\* Threads blocked in recv that are woken keep the invariant.
LEMMA WakeUp ==
  ASSUME P!TypeOK, P!LinkInv, NEW l \in {"eof", "recv"}, NEW f,
         place' = [t \in Sessions |-> IF place[t] = "blocked" /\ my[t] = f THEN l ELSE place[t]],
         UNCHANGED <<main, fd, my, owner>>
  PROVE  P!TypeOK' /\ P!LinkInv'
<1>1. P!TypeOK'
  BY DEF P!TypeOK, P!Places
<1>2. \A t \in Sessions : /\ place'[t] \in {"connect", "install", "done"} <=> place[t] \in {"connect", "install", "done"}
                          /\ place'[t] = "install" <=> place[t] = "install"
                          /\ place[t] = "done" => place'[t] = "done"
  BY DEF P!TypeOK
<1>3. P!LinkInv'
  BY <1>2 DEF P!TypeOK, P!LinkInv, P!SessionOwnsFd
<1> QED BY <1>1, <1>3

\* Every step of a thread keeps the invariant.
LEMMA ThreadStep ==
  ASSUME P!PollerAssumption, P!TypeOK, P!LinkInv, NEW s \in Sessions, P!Thread(s)
  PROVE  P!TypeOK' /\ P!LinkInv'
<1> USE DEF P!stopVars, P!reqVars, P!linkVars
<1>1. CASE P!Loop(s)
  <2> DEFINE l == IF running = "on" THEN "look" ELSE "end"
  <2>1. P!Goto(s, l) /\ place[s] = "loop" /\ UNCHANGED <<main, fd, my, owner>>
    BY <1>1 DEF P!Loop
  <2>2. l \in P!Places \ {"install"} /\ l \notin {"connect", "done"}
    BY DEF P!Places
  <2> HIDE DEF l
  <2> QED BY <2>1, <2>2, MoveOn
<1>2. CASE P!Look(s)
  <2> DEFINE l == IF fd[s] # invalid THEN "test" ELSE "connect"
  <2>1. P!Goto(s, l) /\ place[s] = "look" /\ UNCHANGED <<main, fd, my, owner>>
    BY <1>2 DEF P!Look
  <2>2. l \in P!Places \ {"install"} /\ (l \in {"connect", "done"} => fd[s] = invalid)
    BY DEF P!Places
  <2> HIDE DEF l
  <2> QED BY <2>1, <2>2, MoveOn
<1>3. CASE P!ConnectFails(s)
  <2>1. P!Goto(s, "sleep") /\ place[s] = "connect" /\ UNCHANGED <<main, fd, my, owner>>
    BY <1>3 DEF P!ConnectFails
  <2> QED BY <2>1, MoveOn DEF P!Places
<1>4. CASE P!NonBlockingConnect(s)
  <2>1. PICK f \in Fds : /\ owner[f] = invalid /\ owner' = [owner EXCEPT ![f] = s]
                         /\ my' = [my EXCEPT ![s] = f]
    BY <1>4, Zenon DEF P!NonBlockingConnect
  <2>2. /\ place[s] = "connect" /\ place' = [place EXCEPT ![s] = "install"]
        /\ main' = main /\ fd' = fd
    BY <1>4 DEF P!NonBlockingConnect, P!Goto
  <2>3. P!TypeOK'
    BY <2>1, <2>2 DEF P!TypeOK, P!Places
  <2>4. P!LinkInv'
    BY <2>1, <2>2 DEF P!TypeOK, P!LinkInv, P!SessionOwnsFd, P!PollerAssumption
  <2> QED BY <2>3, <2>4
<1>5. CASE P!Install(s)
  <2>1. /\ place[s] = "install" /\ place' = [place EXCEPT ![s] = "test"]
        /\ fd' = [fd EXCEPT ![s] = my[s]]
        /\ main' = main /\ my' = my /\ owner' = owner
    BY <1>5 DEF P!Install, P!Goto
  <2>2. P!TypeOK'
    BY <2>1 DEF P!TypeOK, P!Places
  <2>3. P!LinkInv'
    BY <2>1 DEF P!TypeOK, P!LinkInv, P!SessionOwnsFd, P!PollerAssumption
  <2> QED BY <2>2, <2>3
<1>6. CASE P!Test(s)
  <2> DEFINE l == IF running = "on" THEN "send" ELSE "end"
  <2>1. P!Goto(s, l) /\ place[s] = "test" /\ UNCHANGED <<main, fd, my, owner>>
    BY <1>6 DEF P!Test
  <2>2. l \in P!Places \ {"install"} /\ l \notin {"connect", "done"}
    BY DEF P!Places
  <2> HIDE DEF l
  <2> QED BY <2>1, <2>2, MoveOn
<1>7. CASE P!Send(s)
  <2>1. PICK l \in {"sending", "failed"} : P!Goto(s, l)
    BY <1>7 DEF P!Send
  <2>2. place[s] = "send" /\ UNCHANGED <<main, fd, my, owner>>
    BY <1>7 DEF P!Send
  <2>3. l \in P!Places \ {"install"} /\ l \notin {"connect", "done"}
    BY DEF P!Places
  <2> QED BY <2>1, <2>2, <2>3, MoveOn
<1>8. CASE P!Sent(s)
  <2>1. PICK l \in {"drain", "failed"} : P!Goto(s, l)
    BY <1>8 DEF P!Sent
  <2>2. place[s] = "sending" /\ UNCHANGED <<main, fd, my, owner>>
    BY <1>8 DEF P!Sent
  <2>3. l \in P!Places \ {"install"} /\ l \notin {"connect", "done"}
    BY DEF P!Places
  <2> QED BY <2>1, <2>2, <2>3, MoveOn
<1>9. CASE P!CloseSession(s)
  <2>1. /\ place[s] \in {"failed", "eof", "end"}
        /\ place' = [place EXCEPT ![s] = IF place[s] = "end" THEN "done" ELSE "sleep"]
        /\ fd' = [fd EXCEPT ![s] = invalid]
        /\ owner' = [f \in Fds |-> IF f = fd[s] THEN invalid ELSE owner[f]]
        /\ main' = main /\ my' = my
    BY <1>9 DEF P!CloseSession, P!Close, P!Goto
  <2>2. P!TypeOK'
    BY <2>1 DEF P!TypeOK, P!Places
  <2>3. P!LinkInv'
    BY <2>1 DEF P!TypeOK, P!LinkInv, P!SessionOwnsFd, P!PollerAssumption
  <2> QED BY <2>2, <2>3
<1>10. CASE P!DrainCopy(s)
  <2>1. /\ place[s] = "drain" /\ my' = [my EXCEPT ![s] = fd[s]]
        /\ place' = [place EXCEPT ![s] = IF fd[s] = invalid THEN "sleep" ELSE "select"]
        /\ main' = main /\ fd' = fd /\ owner' = owner
    BY <1>10 DEF P!DrainCopy, P!Goto
  <2>2. P!TypeOK'
    BY <2>1 DEF P!TypeOK, P!Places
  <2>3. P!LinkInv'
    BY <2>1 DEF P!TypeOK, P!LinkInv, P!SessionOwnsFd, P!PollerAssumption
  <2> QED BY <2>2, <2>3
<1>11. CASE P!Select(s)
  <2>1. PICK l \in {"recv", "sleep"} : P!Goto(s, l)
    BY <1>11 DEF P!Select
  <2>2. place[s] = "select" /\ UNCHANGED <<main, fd, my, owner>>
    BY <1>11 DEF P!Select
  <2>3. l \in P!Places \ {"install"} /\ l \notin {"connect", "done"}
    BY DEF P!Places
  <2> QED BY <2>1, <2>2, <2>3, MoveOn
<1>12. CASE P!Recv(s)
  <2>1. PICK l \in {"drain", "eof", "blocked"} : P!Goto(s, l)
    BY <1>12, Zenon DEF P!Recv
  <2>2. place[s] = "recv" /\ UNCHANGED <<main, fd, my, owner>>
    BY <1>12, Zenon DEF P!Recv
  <2>3. l \in P!Places \ {"install"} /\ l \notin {"connect", "done"}
    BY DEF P!Places
  <2> QED BY <2>1, <2>2, <2>3, MoveOn
<1>13. CASE P!SleepMs(s)
  <2>1. P!Goto(s, "loop") /\ place[s] = "sleep" /\ UNCHANGED <<main, fd, my, owner>>
    BY <1>13 DEF P!SleepMs
  <2> QED BY <2>1, MoveOn DEF P!Places
<1> QED
  BY <1>1, <1>2, <1>3, <1>4, <1>5, <1>6, <1>7, <1>8, <1>9, <1>10, <1>11, <1>12, <1>13
  DEF P!Thread

\* So does every step of stop().
LEMMA StopStep ==
  ASSUME P!PollerAssumption, P!TypeOK, P!LinkInv, P!Stop
  PROVE  P!TypeOK' /\ P!LinkInv'
<1> USE DEF P!reqVars, P!linkVars
<1>1. CASE P!StopFlag
  <2>1. main' = "shut" /\ place' = place /\ fd' = fd /\ my' = my /\ owner' = owner
    BY <1>1 DEF P!StopFlag
  <2> QED BY <2>1 DEF P!TypeOK, P!LinkInv, P!SessionOwnsFd
<1>2. CASE P!StopJoin
  <2>1. /\ \A s \in Sessions : place[s] = "done"
        /\ main' = "stopped" /\ place' = place /\ fd' = fd /\ my' = my /\ owner' = owner
    BY <1>2 DEF P!StopJoin
  <2> QED BY <2>1 DEF P!TypeOK, P!LinkInv, P!SessionOwnsFd
<1>3. ASSUME NEW s \in Sessions, P!StopShut(s)
      PROVE  P!TypeOK' /\ P!LinkInv'
  <2>1. /\ main' \in {"join", "shut"} /\ my' = my
        /\ place' = [t \in Sessions |-> IF place[t] = "blocked" /\ my[t] = fd[s] THEN "eof" ELSE place[t]]
        /\ fd' = [fd EXCEPT ![s] = invalid]
        /\ owner' = [f \in Fds |-> IF f = fd[s] THEN invalid ELSE owner[f]]
    BY <1>3 DEF P!StopShut, P!Close
  <2>2. P!TypeOK'
    BY <2>1 DEF P!TypeOK, P!Places
  <2>3. \A t \in Sessions : /\ place'[t] \in {"connect", "install", "done"} <=> place[t] \in {"connect", "install", "done"}
                            /\ place'[t] = "install" <=> place[t] = "install"
    BY <2>1 DEF P!TypeOK
  <2>4. \A t \in Sessions : place[t] = "install" => fd[t] = invalid /\ my[t] \in Fds /\ owner[my[t]] = t
    BY DEF P!TypeOK, P!LinkInv
  <2>5. \A t \in Sessions : place[t] = "install" => my[t] # fd[s]
    BY <2>4 DEF P!TypeOK, P!LinkInv, P!SessionOwnsFd, P!PollerAssumption
  <2>6. P!SessionOwnsFd'
    BY <2>1 DEF P!TypeOK, P!LinkInv, P!SessionOwnsFd, P!PollerAssumption
  <2>7. (\A f \in Fds : owner[f] # invalid =>
          fd[owner[f]] = f \/ (place[owner[f]] = "install" /\ my[owner[f]] = f))'
    <3> SUFFICES ASSUME NEW f \in Fds, owner'[f] # invalid
                 PROVE  fd'[owner'[f]] = f \/ (place'[owner'[f]] = "install" /\ my'[owner'[f]] = f)
      OBVIOUS
    <3>1. f # fd[s] /\ owner'[f] = owner[f] /\ owner[f] \in Sessions
      BY <2>1 DEF P!TypeOK
    <3> QED BY <2>1, <2>3, <3>1 DEF P!TypeOK, P!LinkInv
  <2> QED BY <2>1, <2>2, <2>3, <2>4, <2>5, <2>6, <2>7 DEF P!TypeOK, P!LinkInv
<1> QED BY <1>1, <1>2, <1>3 DEF P!Stop

\* And every step of the poller.
LEMMA LinkStep ==
  ASSUME P!PollerAssumption, P!TypeOK, P!LinkInv, [P!Next]_(P!vars)
  PROVE  P!TypeOK' /\ P!LinkInv'
<1>1. CASE P!Stop
  BY <1>1, StopStep
<1>2. ASSUME NEW s \in Sessions, P!Thread(s) PROVE P!TypeOK' /\ P!LinkInv'
  BY <1>2, ThreadStep
<1>3. ASSUME NEW s \in Sessions, P!Wake(s) PROVE P!TypeOK' /\ P!LinkInv'
  <2>1. P!Goto(s, "eof") /\ place[s] = "blocked" /\ UNCHANGED <<main, fd, my, owner>>
    BY <1>3 DEF P!Wake, P!stopVars, P!linkVars
  <2> QED BY <2>1, MoveOn DEF P!Places
<1>4. ASSUME NEW f \in Fds, P!Push(f) PROVE P!TypeOK' /\ P!LinkInv'
  <2>1. /\ place' = [t \in Sessions |-> IF place[t] = "blocked" /\ my[t] = f THEN "recv" ELSE place[t]]
        /\ UNCHANGED <<main, fd, my, owner>>
    BY <1>4, Zenon DEF P!Push, P!stopVars
  <2> QED BY <2>1, WakeUp
<1>5. CASE UNCHANGED P!vars
  <2>1. main' = main /\ place' = place /\ fd' = fd /\ my' = my /\ owner' = owner
    BY <1>5 DEF P!vars
  <2> QED BY <2>1 DEF P!TypeOK, P!LinkInv, P!SessionOwnsFd
<1> QED BY <1>1, <1>2, <1>3, <1>4, <1>5 DEF P!Next

\* ModbusPoller.cpp, runDevice, closeSession and stop: a descriptor in s->fd was opened
\* for s and is open, and when stop() returns every descriptor is closed, also the one
\* a thread had connected but not stored when stop() went by.
THEOREM LinksStayOwned == ASSUME P!PollerAssumption PROVE P!Spec => []P!LinksOwned
<1>1. P!TypeOK /\ P!LinkInv /\ [P!Next]_(P!vars) => (P!TypeOK /\ P!LinkInv)'
  BY LinkStep
<1>2. P!TypeOK /\ P!LinkInv => P!LinksOwned
  BY DEF P!TypeOK, P!LinkInv, P!LinksOwned, P!SessionOwnsFd, P!StoppedIsClosed, P!PollerAssumption
<1> QED BY LinkInit, <1>1, <1>2, PTL DEF P!Spec

=============================================================================
