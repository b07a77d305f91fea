----------------------------- MODULE TcpServer ------------------------------
(***************************************************************************)
(* One TcpServer on an event loop: Acceptor, TcpServer, TcpConnection,      *)
(* Channel and the epoll poller (POSIX build), with the kernel's sockets.   *)
(*                                                                         *)
(* The loop's thread polls, handles the channels that were reported one     *)
(* after the other, and runs the functors that were queued.  The kernel     *)
(* acts at any time, so what a poll reported may be out of date when it is  *)
(* handled.  Data is counted, not looked at: rx segments wait to be read,   *)
(* out bytes wait to be written.  Users of the server receive, send, shut   *)
(* down and force a close in their message callback, on the loop's thread;  *)
(* the adapter sets no write-complete and no high-water-mark callback.      *)
(* The build is a release build: assertions are not executed.               *)
(***************************************************************************)
EXTENDS Naturals, Sequences, FiniteSets

CONSTANTS
  Peers,     \* where connections come from
  UserCalls, \* what a message callback may do: a subset of AllCalls
  Happens,   \* what may happen besides data: a subset of {"fin", "rst", "stop"}
  MaxConns,  \* bound on the connections made
  NFds,      \* descriptors the process may have for connections
  MaxRx,     \* bound on the segments a peer sends on one connection
  MaxSend    \* bytes of one send

AllCalls == {"none", "send", "sendShutdown", "shutdown", "forceClose"}

ASSUME TcpServerAssumption ==
  /\ MaxConns \in Nat /\ NFds \in Nat \ {0} /\ MaxRx \in Nat /\ MaxSend \in Nat \ {0}
  /\ UserCalls \subseteq AllCalls /\ Happens \subseteq {"fin", "rst", "stop"}

Conns == 1 .. MaxConns
Fds   == 1 .. NFds
none  == 0

VARIABLES
  phase,    \* of the loop: "polling", "handling", "running", or "stopped" for good
  sock,     \* sock[c]: the kernel's side of connection c
  conn,     \* conn[c]: the TcpConnection with its channel
  chan,     \* EPollPoller::_channels: descriptor -> connection, or none
  active,   \* channels still to be handled in this iteration, with their revents
  queue,    \* _pendingFunctors
  functors, \* what doPendingFunctors has still to run
  log       \* history: log[c] is the callbacks made for connection c

vars == <<phase, sock, conn, chan, active, queue, functors, log>>

-----------------------------------------------------------------------------
\* The kernel.  A segment that arrived before a reset can still be read after it;
\* a socket that received a FIN reads 0 when it is empty, even after a reset.
NoSock == [st |-> "none", peer |-> CHOOSE p \in Peers : TRUE, rx |-> 0, got |-> 0,
           fin |-> FALSE, rst |-> FALSE, finSent |-> FALSE, full |-> FALSE]

NoConn == [obj |-> "none", state |-> "kConnecting", events |-> {}, index |-> "kNew",
           fd |-> none, inMap |-> FALSE, out |-> 0, accepted |-> 0, written |-> 0]

Init ==
  /\ phase = "polling"
  /\ sock = [c \in Conns |-> NoSock] /\ conn = [c \in Conns |-> NoConn]
  /\ chan = [f \in Fds |-> none]
  /\ active = {} /\ queue = <<>> /\ functors = <<>>
  /\ log = [c \in Conns |-> <<>>]

Connect(c, p) ==
  /\ sock[c].st = "none" /\ \A d \in Conns : d < c => sock[d].st # "none"
  /\ sock' = [sock EXCEPT ![c].st = "backlog", ![c].peer = p]
  /\ UNCHANGED <<phase, conn, chan, active, queue, functors, log>>

\* A segment, the peer's FIN, a reset, or the peer reading what was sent.
Packet(c) ==
  /\ sock[c].st = "open" /\ ~sock[c].rst
  /\ \/ /\ sock[c].got < MaxRx /\ ~sock[c].fin
        /\ sock' = [sock EXCEPT ![c].rx = @ + 1, ![c].got = @ + 1]
     \/ /\ "fin" \in Happens /\ ~sock[c].fin
        /\ sock' = [sock EXCEPT ![c].fin = TRUE]
     \/ /\ "rst" \in Happens
        /\ sock' = [sock EXCEPT ![c].rst = TRUE]
  /\ UNCHANGED <<phase, conn, chan, active, queue, functors, log>>

PeerReads(c) ==
  /\ sock[c].full
  /\ sock' = [sock EXCEPT ![c].full = FALSE]
  /\ UNCHANGED <<phase, conn, chan, active, queue, functors, log>>

\* What epoll reports of connection c, if it is registered.
Revents(c) ==
  IF conn[c].index # "kAdded" THEN {} ELSE
  (IF "IN" \in conn[c].events /\ (sock[c].rx > 0 \/ sock[c].fin \/ sock[c].rst) THEN {"IN"} ELSE {})
  \cup (IF "OUT" \in conn[c].events /\ (~sock[c].full \/ sock[c].rst) THEN {"OUT"} ELSE {})
  \cup (IF sock[c].rst THEN {"ERR"} ELSE {})
  \cup (IF sock[c].rst \/ (sock[c].fin /\ sock[c].finSent) THEN {"HUP"} ELSE {})

-----------------------------------------------------------------------------
(* A handler works on w: the connection, its socket, the poller's map, the    *)
(* functors it queues and the callbacks it makes.                             *)
Work(c) == [id |-> c, c |-> conn[c], s |-> sock[c], chan |-> chan, q |-> <<>>, log |-> <<>>]

Call(w, cb) == [w EXCEPT !.log = Append(@, cb)]

\* Channel::update, EPollPoller::updateChannel
Update(w) ==
  IF w.c.index \in {"kNew", "kDeleted"}
  THEN [w EXCEPT !.c.index = "kAdded", !.chan[w.c.fd] = w.id]
  ELSE [w EXCEPT !.c.index = IF w.c.events = {} THEN "kDeleted" ELSE "kAdded"]

EnableReading(w)  == Update([w EXCEPT !.c.events = @ \cup {"IN"}])
EnableWriting(w)  == Update([w EXCEPT !.c.events = @ \cup {"OUT"}])
DisableWriting(w) == Update([w EXCEPT !.c.events = @ \ {"OUT"}])
DisableAll(w)     == Update([w EXCEPT !.c.events = {}])

\* Mutant: the channel stays in the poller's map.
RemoveKeepsMap(w) == [w EXCEPT !.c.index = "kNew"]

\* Channel::remove, EPollPoller::removeChannel
removeChannel(w) == [w EXCEPT !.c.index = "kNew", !.chan[w.c.fd] = none]

\* TcpServer::removeConnection, the close callback.
RemoveConnection(w) == [w EXCEPT !.c.inMap = FALSE, !.q = Append(@, <<"destroy", w.id>>)]

HandleClose(w) ==
  RemoveConnection(Call(DisableAll([w EXCEPT !.c.state = "kDisconnected"]), "down"))

HandleError(w) == IF w.c.state \in {"kConnected", "kDisconnecting"} THEN HandleClose(w) ELSE w

ShutdownInLoop(w) == IF "OUT" \notin w.c.events THEN [w EXCEPT !.s.finSent = TRUE] ELSE w

Shutdown(w) ==
  IF w.c.state = "kConnected"
  THEN ShutdownInLoop([w EXCEPT !.c.state = "kDisconnecting"]) ELSE w

ForceClose(w) ==
  IF w.c.state \in {"kConnected", "kDisconnecting"}
  THEN [w EXCEPT !.c.state = "kDisconnecting", !.q = Append(@, <<"forceClose", w.id>>)]
  ELSE w

\* The kernel takes k of n bytes; less than all of them fills its buffer.
Write(w, k, n) == [w EXCEPT !.c.written = @ + k, !.s.full = (k < n)]

\* sendInLoop of n bytes, of which the kernel takes k at once.  After a reset the
\* write fails and the message is dropped.
SendInLoop(w, n, k) ==
  LET x == [w EXCEPT !.c.accepted = @ + n]
  IN IF "OUT" \in w.c.events \/ w.c.out > 0 THEN [x EXCEPT !.c.out = @ + n]
     ELSE IF w.s.rst THEN x
     ELSE IF k = n THEN Write(x, k, n)
     ELSE EnableWriting([Write(x, k, n) EXCEPT !.c.out = n - k])

Send(w, n, k) == IF w.c.state = "kConnected" THEN SendInLoop(w, n, k) ELSE w

\* The user's message callback.
OnMessage(w, u, k) ==
  LET x == Call(w, "msg") IN
  CASE u = "none"         -> x
    [] u = "send"         -> Send(x, MaxSend, k)
    [] u = "sendShutdown" -> Shutdown(Send(x, MaxSend, k))
    [] u = "shutdown"     -> Shutdown(x)
    [] u = "forceClose"   -> ForceClose(x)

\* handleRead: recv returns data (r segments), the end of the stream, or an error.
HandleRead(w, r, u, k) ==
  IF w.s.rx > 0 THEN OnMessage([w EXCEPT !.s.rx = @ - r], u, k)
  ELSE IF w.s.fin THEN HandleClose(w)
  ELSE HandleError(w)

\* Mutant: the write event stays on when everything has been written.
HandleWriteStaysOn(w, k) ==
  IF "OUT" \notin w.c.events \/ w.s.rst THEN w
  ELSE LET x == [Write(w, k, w.c.out) EXCEPT !.c.out = @ - k]
       IN IF x.c.out > 0 THEN x
          ELSE IF x.c.state = "kDisconnecting" THEN ShutdownInLoop(x) ELSE x

\* Mutant: a shutdown that waited for the output is forgotten.
HandleWriteNoShutdown(w, k) ==
  IF "OUT" \notin w.c.events \/ w.s.rst THEN w
  ELSE LET x == [Write(w, k, w.c.out) EXCEPT !.c.out = @ - k]
       IN IF x.c.out > 0 THEN x ELSE DisableWriting(x)

\* handleWrite: the kernel takes k bytes of the output, or fails after a reset.
HandleWrite(w, k) ==
  IF "OUT" \notin w.c.events \/ w.s.rst THEN w
  ELSE LET x == [Write(w, k, w.c.out) EXCEPT !.c.out = @ - k]
       IN IF x.c.out > 0 THEN x
          ELSE IF x.c.state = "kDisconnecting" THEN ShutdownInLoop(DisableWriting(x))
          ELSE DisableWriting(x)

\* Channel::handleEventWithGuard
HandleEvent(w, ev, r, u, k, l) ==
  LET w1 == IF "HUP" \in ev /\ "IN" \notin ev THEN HandleClose(w) ELSE w
      w2 == IF "ERR" \in ev THEN HandleError(w1) ELSE w1
      w3 == IF "IN" \in ev THEN HandleRead(w2, r, u, k) ELSE w2
  IN IF "OUT" \in ev THEN HandleWrite(w3, l) ELSE w3

\* TcpConnection::connectEstablished
Established(w) == Call(EnableReading([w EXCEPT !.c.state = "kConnected"]), "up")

\* TcpConnection::connectDestroyed
Destroyed(w) ==
  removeChannel(IF w.c.state = "kConnected"
         THEN Call(DisableAll([w EXCEPT !.c.state = "kDisconnected"]), "down") ELSE w)

ForceCloseInLoop(w) ==
  IF w.c.state \in {"kConnected", "kDisconnecting"} THEN HandleClose(w) ELSE w

\* The last shared pointer is gone: in the map, or in a functor.
Freed(w, fs) ==
  IF w.c.inMap \/ \E i \in DOMAIN fs : fs[i][2] = w.id THEN w
  ELSE [w EXCEPT !.c.obj = "freed", !.s.st = "closed"]

Commit(w) ==
  /\ conn' = [conn EXCEPT ![w.id] = w.c] /\ sock' = [sock EXCEPT ![w.id] = w.s]
  /\ chan' = w.chan /\ queue' = queue \o w.q
  /\ log' = [log EXCEPT ![w.id] = @ \o w.log]

-----------------------------------------------------------------------------
Poll ==
  /\ phase = "polling" /\ phase' = "handling"
  /\ active' = {[c |-> c, ev |-> Revents(c)] : c \in {d \in Conns : Revents(d) # {}}}
               \cup (IF \E c \in Conns : sock[c].st = "backlog" THEN {[c |-> none, ev |-> {"IN"}]} ELSE {})
  /\ UNCHANGED <<sock, conn, chan, queue, functors, log>>

FreeFds == Fds \ {conn[c].fd : c \in {d \in Conns : conn[d].obj = "live"}}

\* TcpServer::newConnection
NewConnection(w, f) ==
  Established([w EXCEPT !.c.obj = "live", !.c.inMap = TRUE, !.c.fd = f, !.s.st = "open"])

\* Acceptor::handleRead; without a descriptor accept fails and the peer stays in
\* the backlog.
Accept ==
  /\ phase = "handling" /\ [c |-> none, ev |-> {"IN"}] \in active
  /\ active' = active \ {[c |-> none, ev |-> {"IN"}]}
  /\ LET c == CHOOSE d \in Conns : sock[d].st = "backlog" /\ \A e \in Conns : sock[e].st = "backlog" => d <= e
     IN IF FreeFds = {} THEN UNCHANGED <<conn, sock, chan, queue, log>>
        ELSE Commit(NewConnection(Work(c), CHOOSE f \in FreeFds : \A g \in FreeFds : f <= g))
  /\ UNCHANGED <<phase, functors>>

\* Channel::handleEvent; the tie keeps the connection alive meanwhile.
Handle(a) ==
  /\ phase = "handling" /\ a.c # none
  /\ active' = active \ {a}
  /\ \E r \in 1 .. (IF sock[a.c].rx > 0 THEN sock[a.c].rx ELSE 1), u \in UserCalls, k \in 0 .. MaxSend :
       \E l \in 1 .. (IF conn[a.c].out > 0 THEN conn[a.c].out ELSE 1) :
         Commit(HandleEvent(Work(a.c), a.ev, r, u, k, l))
  /\ UNCHANGED <<phase, functors>>

TakeFunctors ==
  /\ phase = "handling" /\ active = {} /\ phase' = "running"
  /\ functors' = queue /\ queue' = <<>>
  /\ UNCHANGED <<sock, conn, chan, active, log>>

RunFunctor ==
  /\ phase = "running" /\ functors # <<>>
  /\ functors' = Tail(functors)
  /\ LET w == Work(Head(functors)[2])
         x == IF Head(functors)[1] = "destroy" THEN Destroyed(w) ELSE ForceCloseInLoop(w)
     IN Commit(Freed(x, Tail(functors) \o queue \o x.q))
  /\ UNCHANGED <<phase, active>>

FunctorsDone ==
  /\ phase = "running" /\ functors = <<>> /\ phase' = "polling"
  /\ UNCHANGED <<sock, conn, chan, active, queue, functors, log>>

\* The loop has quit and the server is destroyed: ~TcpServer destroys each
\* connection it holds; functors still queued are never run.
Stop ==
  /\ "stop" \in Happens /\ phase = "polling" /\ phase' = "stopped"
  /\ LET held == {c \in Conns : conn[c].inMap}
         w(c) == Freed([Destroyed(Work(c)) EXCEPT !.c.inMap = FALSE], queue)
     IN /\ conn' = [c \in Conns |-> IF c \in held THEN w(c).c ELSE conn[c]]
        /\ sock' = [c \in Conns |-> IF c \in held THEN w(c).s ELSE sock[c]]
        /\ log'  = [c \in Conns |-> IF c \in held THEN log[c] \o w(c).log ELSE log[c]]
        /\ chan' = [f \in Fds |-> IF chan[f] \in held THEN none ELSE chan[f]]
  /\ UNCHANGED <<active, queue, functors>>

Loop == Poll \/ Accept \/ (\E a \in active : Handle(a)) \/ TakeFunctors \/ RunFunctor \/ FunctorsDone

Next ==
  \/ Loop \/ Stop
  \/ \E c \in Conns : Packet(c) \/ PeerReads(c) \/ \E p \in Peers : Connect(c, p)

Spec == Init /\ [][Next]_vars

\* The loop's thread is scheduled, a poll returns, and a peer that keeps its
\* connection keeps reading.
FairSpec == Spec /\ WF_vars(Loop) /\ \A c \in Conns : WF_vars(PeerReads(c))

-----------------------------------------------------------------------------
Live(c) == conn[c].obj = "live"

\* The poller's map and the channels agree: a descriptor is mapped to the live
\* connection that owns it while its channel is registered, and to nothing
\* otherwise, so a reused descriptor never meets the channel of its former owner.
PollerMapExact ==
  \A f \in Fds : chan[f] =
    LET owners == {c \in Conns : Live(c) /\ conn[c].fd = f /\ conn[c].index # "kNew"}
    IN IF owners = {} THEN none ELSE CHOOSE c \in owners : owners = {c}

\* A connection is in the server's map until it is closed, and from then until it
\* is freed the functor that destroys it is queued: none leaks, none is destroyed
\* while the server still counts it.
ClosedIsDestroyed ==
  \A c \in Conns : Live(c) /\ phase # "stopped" =>
    \/ conn[c].inMap /\ conn[c].state \in {"kConnected", "kDisconnecting"}
    \/ ~conn[c].inMap /\ conn[c].state = "kDisconnected"
       /\ \E i \in DOMAIN (queue \o functors) : (queue \o functors)[i] = <<"destroy", c>>

\* The write event is asked for exactly while output is pending: output is not
\* stuck, and the loop does not spin on a writable socket.
WritingIffPending ==
  \A c \in Conns : Live(c) /\ conn[c].state # "kDisconnected" =>
    ("OUT" \in conn[c].events <=> conn[c].out > 0)

\* The FIN follows all of the output that send accepted, unless the peer reset the
\* connection.
ShutdownAfterOutput ==
  \A c \in Conns : sock[c].finSent => conn[c].written = conn[c].accepted \/ sock[c].rst

\* TcpServer, TcpConnection and the poller: a descriptor is mapped to the live
\* connection that owns it, and a connection that is closed is destroyed and freed
\* later, also when descriptors are used again.
ConnectionsTracked == PollerMapExact /\ ClosedIsDestroyed

\* TcpConnection: the write event is on exactly while output is pending, and the
\* FIN of a shutdown follows the output that was accepted.
OutputBeforeFin == WritingIffPending /\ ShutdownAfterOutput

\* A peer that closed or reset its connection is let go: the connection is freed.
GoneIsFreed ==
  \A c \in Conns : Live(c) /\ (sock[c].fin \/ sock[c].rst) ~> ~Live(c)

\* A shutdown ends in a FIN to the peer, or in the end of the connection.
ShutdownSent ==
  \A c \in Conns : Live(c) /\ conn[c].state = "kDisconnecting" ~> sock[c].finSent \/ ~Live(c)

=============================================================================
