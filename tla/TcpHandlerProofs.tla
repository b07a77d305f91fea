------------------------- MODULE TcpHandlerProofs --------------------------
(***************************************************************************)
(* The inductive invariant of TcpServer, and proofs that Channel's and      *)
(* TcpConnection's handlers keep it, whatever a poll reported and whatever  *)
(* the message callback does, for any number of connections, descriptors    *)
(* and bytes.  TcpServerProofs has the other steps and what follows.        *)
(***************************************************************************)
EXTENDS TcpServer, NaturalsInduction, SequenceTheorems, TLAPS

ConnRec ==
  [obj : {"none", "live", "freed"}, state : {"kConnecting", "kConnected", "kDisconnecting", "kDisconnected"},
   events : SUBSET {"IN", "OUT"}, index : {"kNew", "kAdded", "kDeleted"},
   fd : 0 .. NFds, inMap : BOOLEAN, out : Nat, accepted : Nat, written : Nat]
SockRec ==
  [st : {"none", "backlog", "open", "closed"}, peer : Peers \cup {NoSock.peer}, rx : Nat, got : Nat,
   fin : BOOLEAN, rst : BOOLEAN, finSent : BOOLEAN, full : BOOLEAN]
Functor == {"destroy", "forceClose"} \X Conns
Event == [c : 0 .. MaxConns, ev : SUBSET {"IN", "OUT", "ERR", "HUP"}]

TypeInv ==
  /\ phase \in {"polling", "handling", "running", "stopped"}
  /\ sock \in [Conns -> SockRec] /\ conn \in [Conns -> ConnRec]
  /\ chan \in [Fds -> 0 .. MaxConns]
  /\ active \in SUBSET Event /\ queue \in Seq(Functor) /\ functors \in Seq(Functor)

In(x, s) == \E i \in DOMAIN s : s[i] = x
Once(x, s) == \A i, j \in DOMAIN s : s[i] = x /\ s[j] = x => i = j

\* Output: what was accepted is written or pending, the write event is on while output is
\* pending, and after the FIN there is no more.
Out(k, s) ==
  /\ s.rst \/ k.accepted = k.written + k.out
  /\ s.finSent => k.state \in {"kDisconnecting", "kDisconnected"} /\ (k.out = 0 \/ s.rst)
  /\ k.obj = "live" /\ k.state # "kDisconnected" => ("OUT" \in k.events <=> k.out > 0)

\* The life of a connection.
Life(k, s) ==
  /\ k.obj = "none" => k = NoConn /\ s.st \in {"none", "backlog"} /\ ~ s.finSent
  /\ k.obj # "none" => s.st \notin {"none", "backlog"}
  /\ k.obj = "freed" => k.index = "kNew" /\ ~ k.inMap
  /\ k.obj = "live" => k.fd \in Fds
  /\ k.obj = "live" /\ k.inMap =>
       k.state \in {"kConnected", "kDisconnecting"} /\ k.index = "kAdded" /\ "IN" \in k.events
  /\ k.obj = "live" /\ ~ k.inMap => k.state = "kDisconnected"

\* Descriptors belong to one connection, and the poller's map is that of the registered ones.
Mapped ==
  /\ \A f \in Fds : chan[f] # none =>
       chan[f] \in Conns /\ Live(chan[f]) /\ conn[chan[f]].fd = f /\ conn[chan[f]].index # "kNew"
  /\ \A c \in Conns : Live(c) /\ conn[c].index # "kNew" => chan[conn[c].fd] = c
  /\ \A c, d \in Conns : Live(c) /\ Live(d) /\ conn[c].fd = conn[d].fd => c = d

\* Functors: a connection that left the server's map is to be destroyed, and no other is;
\* a forced close is that of a connection in the map, and is pending once.
Pending ==
  /\ \A c \in Conns : In(<<"destroy", c>>, functors) \/ In(<<"destroy", c>>, queue) <=> Live(c) /\ ~ conn[c].inMap
  /\ \A c \in Conns : In(<<"forceClose", c>>, functors) \/ In(<<"forceClose", c>>, queue) => Live(c) /\ conn[c].inMap
  /\ \A c \in Conns : Once(<<"forceClose", c>>, functors) /\ Once(<<"forceClose", c>>, queue)
  /\ phase # "handling" => \A c \in Conns : ~ In(<<"forceClose", c>>, queue)
  /\ phase # "running" => functors = <<>>
  /\ phase # "handling" => \A c \in Conns :
       Live(c) /\ ~ conn[c].inMap => conn[c].index # "kAdded" \/ In(<<"destroy", c>>, functors)

\* What a poll reported: connections of the server's map, each once, that nobody is about to close.
Reported ==
  /\ phase # "handling" => active = {}
  /\ \A a \in active : a.c # none => Live(a.c) /\ conn[a.c].inMap /\ ~ In(<<"forceClose", a.c>>, queue)
  /\ \A a, b \in active : a.c = b.c => a = b
  /\ \A a \in active : a.c = none => \E c \in Conns : sock[c].st = "backlog"

Each == \A c \in Conns : Out(conn[c], sock[c]) /\ Life(conn[c], sock[c])

Inv == TypeInv /\ Each /\ Mapped /\ Pending /\ Reported

-----------------------------------------------------------------------------
\* Handlers.

\* What a handler works on.
W == [id : Conns, c : ConnRec, s : SockRec, chan : [Fds -> 0 .. MaxConns], q : Seq(Functor),
      log : Seq({"up", "down", "msg"})]

\* The connection of w is not freed, and is in the server's map with nothing queued, in the map,
\* or closed.
Base(w) ==
  /\ w \in W /\ w.c.obj = "live" /\ w.c.fd \in Fds /\ w.chan[w.c.fd] = w.id
  /\ Out(w.c, w.s) /\ Life(w.c, w.s)
Quiet(w)  == Base(w) /\ w.c.inMap /\ w.q = <<>>
Open(w)   == Base(w) /\ w.c.inMap /\ (w.q = <<>> \/ w.q = << <<"forceClose", w.id>> >>)
Closed(w) ==
  /\ Base(w) /\ ~ w.c.inMap /\ w.c.index # "kNew" /\ w.c.events = {}
  /\ w.q # <<>> /\ \A i \in DOMAIN w.q : w.q[i] = <<"destroy", w.id>>

\* What no handler changes.
Same(w, x) ==
  /\ x.id = w.id /\ x.c.fd = w.c.fd /\ x.s.rst = w.s.rst
  /\ \A f \in Fds \ {w.c.fd} : x.chan[f] = w.chan[f]

\* A callback changes only the history.
LEMMA CallFields ==
  ASSUME NEW w \in W, NEW cb \in {"up", "down", "msg"}
  PROVE  /\ Call(w, cb) \in W /\ Call(w, cb).id = w.id /\ Call(w, cb).c = w.c /\ Call(w, cb).s = w.s
         /\ Call(w, cb).chan = w.chan /\ Call(w, cb).q = w.q
<1>1. w.log \in Seq({"up", "down", "msg"})
  BY Zenon DEF W
<1>2. Append(w.log, cb) \in Seq({"up", "down", "msg"})
  BY <1>1
<1> QED
  BY Zenon, <1>2 DEF Call, W

SetState(w, st)  == [w EXCEPT !.c.state = st]
SetEvents(w, ev) == [w EXCEPT !.c.events = ev]

\* setState changes only the state.
LEMMA SetStateFields ==
  ASSUME NEW w \in W, NEW st \in {"kConnecting", "kConnected", "kDisconnecting", "kDisconnected"}
  PROVE  LET x == SetState(w, st) IN
         /\ x \in W /\ x.id = w.id /\ x.s = w.s /\ x.chan = w.chan /\ x.q = w.q
         /\ x.c.obj = w.c.obj /\ x.c.state = st /\ x.c.events = w.c.events /\ x.c.index = w.c.index
         /\ x.c.fd = w.c.fd /\ x.c.inMap = w.c.inMap
         /\ x.c.out = w.c.out /\ x.c.accepted = w.c.accepted /\ x.c.written = w.c.written
  BY Zenon DEF SetState, W, ConnRec

\* Channel::update after the events were set.
LEMMA UpdateFields ==
  ASSUME NEW w \in W, w.c.fd \in Fds, NEW ev \in SUBSET {"IN", "OUT"}
  PROVE  LET x == Update(SetEvents(w, ev))
             new == w.c.index \in {"kNew", "kDeleted"}
         IN /\ x \in W /\ x.id = w.id /\ x.s = w.s /\ x.q = w.q
            /\ x.chan = IF new THEN [w.chan EXCEPT ![w.c.fd] = w.id] ELSE w.chan
            /\ x.c.obj = w.c.obj /\ x.c.state = w.c.state /\ x.c.events = ev
            /\ x.c.index = IF new THEN "kAdded" ELSE IF ev = {} THEN "kDeleted" ELSE "kAdded"
            /\ x.c.fd = w.c.fd /\ x.c.inMap = w.c.inMap
            /\ x.c.out = w.c.out /\ x.c.accepted = w.c.accepted /\ x.c.written = w.c.written
<1>1. w.id \in 0 .. MaxConns
  BY TcpServerAssumption DEF W, Conns
<1> QED
  BY Zenon, <1>1 DEF SetEvents, Update, W, ConnRec

\* removeConnection takes the connection from the map and queues its destruction.
LEMMA RemoveFields ==
  ASSUME NEW w \in W
  PROVE  LET x == RemoveConnection(w) IN
         /\ x \in W /\ x.id = w.id /\ x.s = w.s /\ x.chan = w.chan /\ x.q = Append(w.q, <<"destroy", w.id>>)
         /\ x.c.obj = w.c.obj /\ x.c.state = w.c.state /\ x.c.events = w.c.events /\ x.c.index = w.c.index
         /\ x.c.fd = w.c.fd /\ x.c.inMap = FALSE
         /\ x.c.out = w.c.out /\ x.c.accepted = w.c.accepted /\ x.c.written = w.c.written
<1>1. w.q \in Seq(Functor) /\ w.id \in Conns
  BY Zenon DEF W
<1>2. <<"destroy", w.id>> \in Functor
  BY <1>1 DEF Functor
<1>3. Append(w.q, <<"destroy", w.id>>) \in Seq(Functor)
  BY <1>1, <1>2
<1> QED
  BY Zenon, <1>3 DEF RemoveConnection, W, ConnRec

\* handleClose disables the channel, takes the connection from the map and queues its
\* destruction.
LEMMA CloseFields ==
  ASSUME NEW w \in W, w.c.fd \in Fds
  PROVE  LET x == HandleClose(w)
             new == w.c.index \in {"kNew", "kDeleted"}
         IN /\ x \in W /\ x.id = w.id /\ x.s = w.s /\ x.q = Append(w.q, <<"destroy", w.id>>)
            /\ x.chan = IF new THEN [w.chan EXCEPT ![w.c.fd] = w.id] ELSE w.chan
            /\ x.c.obj = w.c.obj /\ x.c.state = "kDisconnected" /\ x.c.events = {}
            /\ x.c.index = IF new THEN "kAdded" ELSE "kDeleted"
            /\ x.c.fd = w.c.fd /\ x.c.inMap = FALSE
            /\ x.c.out = w.c.out /\ x.c.accepted = w.c.accepted /\ x.c.written = w.c.written
<1> DEFINE s == SetState(w, "kDisconnected")
           u == Update(SetEvents(s, {}))
           d == Call(u, "down")
<1>1. HandleClose(w) = RemoveConnection(d)
  BY Zenon DEF HandleClose, DisableAll, SetState, SetEvents
<1>2. /\ s \in W /\ s.id = w.id /\ s.s = w.s /\ s.chan = w.chan /\ s.q = w.q
      /\ s.c.obj = w.c.obj /\ s.c.state = "kDisconnected" /\ s.c.index = w.c.index
      /\ s.c.fd = w.c.fd /\ s.c.inMap = w.c.inMap
      /\ s.c.out = w.c.out /\ s.c.accepted = w.c.accepted /\ s.c.written = w.c.written
  BY Zenon, SetStateFields
<1> HIDE DEF s
<1>3. /\ u \in W /\ u.id = s.id /\ u.s = s.s /\ u.q = s.q
      /\ u.chan = IF s.c.index \in {"kNew", "kDeleted"} THEN [s.chan EXCEPT ![s.c.fd] = s.id] ELSE s.chan
      /\ u.c.obj = s.c.obj /\ u.c.state = s.c.state /\ u.c.events = {}
      /\ u.c.index = IF s.c.index \in {"kNew", "kDeleted"} THEN "kAdded" ELSE "kDeleted"
      /\ u.c.fd = s.c.fd /\ u.c.inMap = s.c.inMap
      /\ u.c.out = s.c.out /\ u.c.accepted = s.c.accepted /\ u.c.written = s.c.written
  BY ONLY <1>2, w.c.fd \in Fds, UpdateFields
<1> HIDE DEF u
<1>4. d \in W /\ d.id = u.id /\ d.c = u.c /\ d.s = u.s /\ d.chan = u.chan /\ d.q = u.q
  BY Zenon, <1>3, CallFields
<1> HIDE DEF d
<1> DEFINE x == RemoveConnection(d)
<1>5. /\ x \in W /\ x.id = d.id /\ x.s = d.s /\ x.chan = d.chan /\ x.q = Append(d.q, <<"destroy", d.id>>)
      /\ x.c.obj = d.c.obj /\ x.c.state = d.c.state /\ x.c.events = d.c.events /\ x.c.index = d.c.index
      /\ x.c.fd = d.c.fd /\ x.c.inMap = FALSE
      /\ x.c.out = d.c.out /\ x.c.accepted = d.c.accepted /\ x.c.written = d.c.written
  BY Zenon, <1>4, RemoveFields
<1> HIDE DEF x
<1>6. HandleClose(w) = x
  BY <1>1 DEF x
<1> QED
  BY ONLY <1>2, <1>3, <1>4, <1>5, <1>6

\* One more of the same.
LEMMA AppendSame ==
  ASSUME NEW S, NEW q \in Seq(S), NEW e \in S, q = <<>> \/ \A i \in DOMAIN q : q[i] = e
  PROVE  Append(q, e) # <<>> /\ \A i \in DOMAIN Append(q, e) : Append(q, e)[i] = e
<1>1. /\ Len(Append(q, e)) = Len(q) + 1 /\ Append(q, e) \in Seq(S) /\ Len(q) \in Nat
      /\ Append(q, e)[Len(q) + 1] = e /\ \A i \in 1 .. Len(q) : Append(q, e)[i] = q[i]
  BY AppendProperties
<1>2. DOMAIN Append(q, e) = 1 .. (Len(q) + 1) /\ DOMAIN q = 1 .. Len(q)
  BY <1>1
<1>3. \A i \in 1 .. Len(q) : q[i] = e
  BY <1>2
<1> QED
  BY <1>1, <1>2, <1>3

\* A close takes the connection out of the server's map and queues its destruction.
LEMMA CloseKeeps ==
  ASSUME NEW w, Quiet(w) \/ Closed(w)
  PROVE  Closed(HandleClose(w)) /\ Same(w, HandleClose(w)) /\ HandleClose(w).s = w.s
         /\ HandleClose(w).c.out = w.c.out
<1> DEFINE x == HandleClose(w)
<1>1. w \in W /\ w.c.fd \in Fds /\ Base(w) /\ w.id \in Conns
  BY DEF Quiet, Closed, Base, W
<1>2. /\ x \in W /\ x.id = w.id /\ x.s = w.s /\ x.q = Append(w.q, <<"destroy", w.id>>)
      /\ x.chan = IF w.c.index \in {"kNew", "kDeleted"} THEN [w.chan EXCEPT ![w.c.fd] = w.id] ELSE w.chan
      /\ x.c.obj = w.c.obj /\ x.c.state = "kDisconnected" /\ x.c.events = {}
      /\ x.c.index = IF w.c.index \in {"kNew", "kDeleted"} THEN "kAdded" ELSE "kDeleted"
      /\ x.c.fd = w.c.fd /\ x.c.inMap = FALSE
      /\ x.c.out = w.c.out /\ x.c.accepted = w.c.accepted /\ x.c.written = w.c.written
  BY ONLY Zenon, <1>1, CloseFields
<1> HIDE DEF x
<1>3. w.chan \in [Fds -> 0 .. MaxConns] /\ w.q \in Seq(Functor)
  BY <1>1 DEF W
<1>4. Same(w, x) /\ x.chan[x.c.fd] = x.id
  BY <1>1, <1>2, <1>3 DEF Same, Base
<1>5. Out(x.c, x.s)
  BY <1>1, <1>2 DEF Base, Out
<1>6. Life(x.c, x.s)
  BY <1>1, <1>2 DEF Base, Life
<1>7. w.q = <<>> \/ \A i \in DOMAIN w.q : w.q[i] = <<"destroy", w.id>>
  BY DEF Quiet, Closed
<1>d. <<"destroy", w.id>> \in Functor
  BY <1>1 DEF Functor
<1>8. x.q # <<>> /\ \A i \in DOMAIN x.q : x.q[i] = <<"destroy", x.id>>
  BY ONLY <1>2, <1>3, <1>7, <1>d, AppendSame
<1>9. Base(x)
  BY <1>1, <1>2, <1>4, <1>5, <1>6 DEF Base
<1>10. Closed(x)
  BY <1>2, <1>8, <1>9 DEF Closed
<1> QED
  BY <1>2, <1>4, <1>10 DEF x

\* A connection that is already closed is closed again only by the end of the stream.
LEMMA ErrorKeeps ==
  ASSUME NEW w, Quiet(w) \/ Closed(w)
  PROVE  LET x == HandleError(w) IN
         (Quiet(x) \/ Closed(x)) /\ Same(w, x) /\ x.s = w.s /\ x.c.out = w.c.out
<1>1. Same(w, w)
  BY DEF Same
<1> QED
  BY Zenon, <1>1, CloseKeeps DEF HandleError

\* Fields of the updates of the output side.
SetFin(w)       == [w EXCEPT !.s.finSent = TRUE]
SetRx(w, n)     == [w EXCEPT !.s.rx = n]
SetOut(w, n)    == [w EXCEPT !.c.out = n]
SetAccepted(w, n) == [w EXCEPT !.c.accepted = n]

\* What is done to the socket leaves the connection alone.
LEMMA SocketFields ==
  ASSUME NEW w \in W, NEW n \in Nat
  PROVE  /\ LET x == SetFin(w) IN
            /\ x \in W /\ x.id = w.id /\ x.c = w.c /\ x.chan = w.chan /\ x.q = w.q
            /\ x.s.st = w.s.st /\ x.s.rst = w.s.rst /\ x.s.finSent = TRUE /\ x.s.rx = w.s.rx
         /\ LET x == SetRx(w, n) IN
            /\ x \in W /\ x.id = w.id /\ x.c = w.c /\ x.chan = w.chan /\ x.q = w.q
            /\ x.s.st = w.s.st /\ x.s.rst = w.s.rst /\ x.s.finSent = w.s.finSent
<1>1. ASSUME TRUE PROVE LET x == SetFin(w) IN
            /\ x \in W /\ x.id = w.id /\ x.c = w.c /\ x.chan = w.chan /\ x.q = w.q
            /\ x.s.st = w.s.st /\ x.s.rst = w.s.rst /\ x.s.finSent = TRUE /\ x.s.rx = w.s.rx
  BY Zenon DEF SetFin, W, SockRec
<1>2. ASSUME TRUE PROVE LET x == SetRx(w, n) IN
            /\ x \in W /\ x.id = w.id /\ x.c = w.c /\ x.chan = w.chan /\ x.q = w.q
            /\ x.s.st = w.s.st /\ x.s.rst = w.s.rst /\ x.s.finSent = w.s.finSent
  BY Zenon DEF SetRx, W, SockRec
<1> QED
  BY Zenon, <1>1, <1>2

\* One of the counters of the connection is set.
LEMMA OutFields ==
  ASSUME NEW w \in W, NEW n \in Nat
  PROVE  LET x == SetOut(w, n) IN
         /\ x \in W /\ x.id = w.id /\ x.s = w.s /\ x.chan = w.chan /\ x.q = w.q
         /\ x.c.obj = w.c.obj /\ x.c.state = w.c.state /\ x.c.events = w.c.events
         /\ x.c.index = w.c.index /\ x.c.fd = w.c.fd /\ x.c.inMap = w.c.inMap
         /\ x.c.out = n /\ x.c.accepted = w.c.accepted /\ x.c.written = w.c.written
  BY Zenon DEF SetOut, W, ConnRec

\* send counts what it accepts.
LEMMA AcceptedFields ==
  ASSUME NEW w \in W, NEW n \in Nat
  PROVE  LET x == SetAccepted(w, n) IN
         /\ x \in W /\ x.id = w.id /\ x.s = w.s /\ x.chan = w.chan /\ x.q = w.q
         /\ x.c.obj = w.c.obj /\ x.c.state = w.c.state /\ x.c.events = w.c.events
         /\ x.c.index = w.c.index /\ x.c.fd = w.c.fd /\ x.c.inMap = w.c.inMap
         /\ x.c.out = w.c.out /\ x.c.accepted = n /\ x.c.written = w.c.written
  BY Zenon DEF SetAccepted, W, ConnRec

\* The kernel takes k of n bytes.
LEMMA WriteFields ==
  ASSUME NEW w \in W, NEW k \in Nat, NEW n \in Nat
  PROVE  LET x == Write(w, k, n) IN
         /\ x \in W /\ x.id = w.id /\ x.chan = w.chan /\ x.q = w.q
         /\ x.s.st = w.s.st /\ x.s.rst = w.s.rst /\ x.s.finSent = w.s.finSent
         /\ x.c.obj = w.c.obj /\ x.c.state = w.c.state /\ x.c.events = w.c.events
         /\ x.c.index = w.c.index /\ x.c.fd = w.c.fd /\ x.c.inMap = w.c.inMap
         /\ x.c.out = w.c.out /\ x.c.accepted = w.c.accepted /\ x.c.written = w.c.written + k
<1>1. w.c.written \in Nat
  BY Zenon DEF W, ConnRec
<1>2. w.c.written + k \in Nat
  BY <1>1
<1>3. (k < n) \in BOOLEAN
  OBVIOUS
<1> QED
  BY Zenon, <1>2, <1>3 DEF Write, W, ConnRec, SockRec

\* x is w after a step that leaves the connection in the server's map and queues nothing.
Stays(w, x) == Base(x) /\ x.c.inMap /\ x.q = w.q /\ Same(w, x)

\* The connection and the socket of what a handler works on.
LEMMA Fields ==
  ASSUME NEW w \in W
  PROVE  /\ w.id \in Conns /\ w.c \in ConnRec /\ w.s \in SockRec
         /\ w.chan \in [Fds -> 0 .. MaxConns] /\ w.q \in Seq(Functor)
         /\ w.c.out \in Nat /\ w.c.accepted \in Nat /\ w.c.written \in Nat
         /\ w.c.events \in SUBSET {"IN", "OUT"} /\ w.s.rx \in Nat
  BY DEF W, ConnRec, SockRec

\* shutdownInLoop sends the FIN only when no output is pending.
LEMMA ShutdownInLoopKeeps ==
  ASSUME NEW w, Base(w), w.c.inMap, w.c.state = "kDisconnecting"
  PROVE  Stays(w, ShutdownInLoop(w)) /\ ShutdownInLoop(w).c.out = w.c.out
<1>1. CASE "OUT" \in w.c.events
  <2>1. ShutdownInLoop(w) = w
    BY Zenon, <1>1 DEF ShutdownInLoop
  <2> QED
    BY <2>1 DEF Stays, Same
<1>2. CASE "OUT" \notin w.c.events
  <2> DEFINE x == SetFin(w)
  <2>1. ShutdownInLoop(w) = x
    BY Zenon, <1>2 DEF ShutdownInLoop, SetFin
  <2>2. w \in W /\ w.c.obj = "live"
    BY DEF Base
  <2>3. /\ x \in W /\ x.id = w.id /\ x.c = w.c /\ x.chan = w.chan /\ x.q = w.q
        /\ x.s.st = w.s.st /\ x.s.rst = w.s.rst /\ x.s.finSent = TRUE
    BY Zenon, <2>2, SocketFields, 0 \in Nat
  <2> HIDE DEF x
  <2>4. w.c.out = 0
    BY <1>2, <2>2, Fields DEF Base, Out
  <2>5. Out(x.c, x.s) /\ Life(x.c, x.s)
    BY <1>2, <2>2, <2>3, <2>4 DEF Base, Out, Life
  <2> QED
    BY <2>1, <2>3, <2>5 DEF Base, Stays, Same
<1> QED
  BY <1>1, <1>2

\* shutdown keeps the connection in the map.
LEMMA ShutdownKeeps ==
  ASSUME NEW w, Base(w), w.c.inMap
  PROVE  Stays(w, Shutdown(w)) /\ Shutdown(w).c.out = w.c.out
<1>1. CASE w.c.state = "kConnected"
  <2> DEFINE x == SetState(w, "kDisconnecting")
  <2>1. Shutdown(w) = ShutdownInLoop(x)
    BY Zenon, <1>1 DEF Shutdown, SetState
  <2>2. w \in W
    BY DEF Base
  <2>3. /\ x \in W /\ x.id = w.id /\ x.s = w.s /\ x.chan = w.chan /\ x.q = w.q
        /\ x.c.obj = w.c.obj /\ x.c.state = "kDisconnecting" /\ x.c.events = w.c.events
        /\ x.c.index = w.c.index /\ x.c.fd = w.c.fd /\ x.c.inMap = w.c.inMap
        /\ x.c.out = w.c.out /\ x.c.accepted = w.c.accepted /\ x.c.written = w.c.written
    BY Zenon, <2>2, SetStateFields
  <2> HIDE DEF x
  <2>4. Out(x.c, x.s) /\ Life(x.c, x.s)
    BY <1>1, <2>3 DEF Base, Out, Life
  <2>5. Base(x) /\ x.c.inMap
    BY <2>3, <2>4 DEF Base
  <2>6. Stays(x, ShutdownInLoop(x)) /\ ShutdownInLoop(x).c.out = x.c.out
    BY <2>3, <2>5, ShutdownInLoopKeeps
  <2> QED
    BY <2>1, <2>3, <2>6 DEF Stays, Same
<1>2. CASE w.c.state # "kConnected"
  <2>1. Shutdown(w) = w
    BY Zenon, <1>2 DEF Shutdown
  <2> QED
    BY <2>1 DEF Stays, Same
<1> QED
  BY <1>1, <1>2

\* x is w, registered, with other events.
Registered(w, x, ev) ==
  /\ x \in W /\ x.id = w.id /\ x.s = w.s /\ x.q = w.q /\ x.chan = w.chan
  /\ x.c.obj = w.c.obj /\ x.c.state = w.c.state /\ x.c.events = ev
  /\ x.c.index = "kAdded" /\ x.c.fd = w.c.fd /\ x.c.inMap = w.c.inMap
  /\ x.c.out = w.c.out /\ x.c.accepted = w.c.accepted /\ x.c.written = w.c.written

\* Channel::update leaves a registered channel that has events registered.
LEMMA WritingFields ==
  ASSUME NEW w \in W, w.c.fd \in Fds, w.c.index = "kAdded", "IN" \in w.c.events
  PROVE  /\ Registered(w, EnableWriting(w), w.c.events \cup {"OUT"})
         /\ Registered(w, DisableWriting(w), w.c.events \ {"OUT"})
<1> DEFINE e == w.c.events \cup {"OUT"}
           d == w.c.events \ {"OUT"}
<1>1. /\ e \in SUBSET {"IN", "OUT"} /\ d \in SUBSET {"IN", "OUT"} /\ e # {} /\ d # {}
  BY Fields
<1>2. EnableWriting(w) = Update(SetEvents(w, e)) /\ DisableWriting(w) = Update(SetEvents(w, d))
  BY Zenon DEF EnableWriting, DisableWriting, SetEvents
<1> HIDE DEF e, d
<1>3. ASSUME NEW ev \in SUBSET {"IN", "OUT"}, ev # {}
      PROVE  Registered(w, Update(SetEvents(w, ev)), ev)
  BY Zenon, <1>3 DEF Update, SetEvents, W, ConnRec, Registered
<1>4. Registered(w, Update(SetEvents(w, e)), e) /\ Registered(w, Update(SetEvents(w, d)), d)
  BY Zenon, <1>1, <1>3
<1> QED
  BY Zenon, <1>2, <1>4 DEF e, d

\* What send accepts is written at once or pending, with the write event on.
LEMMA SendKeeps ==
  ASSUME NEW w, Base(w), w.c.inMap, NEW n \in Nat, NEW k \in 0 .. n
  PROVE  Stays(w, Send(w, n, k)) /\ Send(w, n, k).c.out >= w.c.out
<1>1. w \in W /\ w.c.obj = "live" /\ w.c.fd \in Fds /\ w.chan[w.c.fd] = w.id
  BY DEF Base
<1>2. /\ w.c.out \in Nat /\ w.c.accepted \in Nat /\ w.c.written \in Nat
      /\ w.c.events \in SUBSET {"IN", "OUT"}
  BY ONLY <1>1, Fields
<1>3. w.c.index = "kAdded" /\ "IN" \in w.c.events
  BY <1>1 DEF Base, Life
<1>4. CASE w.c.state # "kConnected"
  <2>1. Send(w, n, k) = w
    BY Zenon, <1>4 DEF Send
  <2> QED
    BY <1>2, <2>1 DEF Stays, Same
<1>5. CASE w.c.state = "kConnected"
  <2> DEFINE x == SetAccepted(w, w.c.accepted + n)
  <2>1. Send(w, n, k) = SendInLoop(w, n, k)
    BY Zenon, <1>5 DEF Send
  <2>a. w.c.accepted + n \in Nat
    BY <1>2
  <2>2. /\ x \in W /\ x.id = w.id /\ x.s = w.s /\ x.chan = w.chan /\ x.q = w.q
        /\ x.c.obj = w.c.obj /\ x.c.state = w.c.state /\ x.c.events = w.c.events
        /\ x.c.index = w.c.index /\ x.c.fd = w.c.fd /\ x.c.inMap = w.c.inMap
        /\ x.c.out = w.c.out /\ x.c.accepted = w.c.accepted + n /\ x.c.written = w.c.written
    BY Zenon, <1>1, <2>a, AcceptedFields
  <2>3. ~ w.s.finSent
    BY <1>5 DEF Base, Out
  <2>4. CASE "OUT" \in w.c.events \/ w.c.out > 0
    <3> DEFINE y == SetOut(x, x.c.out + n)
    <3>1. Send(w, n, k) = y
      BY Zenon, <2>1, <2>4 DEF SendInLoop, SetAccepted, SetOut
    <3> HIDE DEF x
    <3>a. x.c.out + n \in Nat
      BY <1>2, <2>2
    <3>2. /\ y \in W /\ y.id = x.id /\ y.s = x.s /\ y.chan = x.chan /\ y.q = x.q
          /\ y.c.obj = x.c.obj /\ y.c.state = x.c.state /\ y.c.events = x.c.events
          /\ y.c.index = x.c.index /\ y.c.fd = x.c.fd /\ y.c.inMap = x.c.inMap
          /\ y.c.out = x.c.out + n /\ y.c.accepted = x.c.accepted /\ y.c.written = x.c.written
      BY Zenon, <2>2, <3>a, OutFields
    <3> HIDE DEF y
    <3>3. "OUT" \in w.c.events /\ w.c.out > 0
      BY <1>1, <1>5, <2>4 DEF Base, Out
    <3>4. Out(y.c, y.s)
      BY <1>2, <2>2, <2>3, <3>2, <3>3 DEF Base, Out
    <3>5. Life(y.c, y.s)
      BY <1>5, <2>2, <3>2 DEF Base, Life
    <3> QED
      BY <1>1, <1>2, <2>2, <3>1, <3>2, <3>4, <3>5 DEF Base, Stays, Same
  <2>5. CASE ~ ("OUT" \in w.c.events \/ w.c.out > 0) /\ w.s.rst
    <3>1. Send(w, n, k) = x
      BY Zenon, <2>1, <2>5 DEF SendInLoop, SetAccepted
    <3> HIDE DEF x
    <3>2. Out(x.c, x.s) /\ Life(x.c, x.s)
      BY <1>5, <2>2, <2>3, <2>5 DEF Base, Out, Life
    <3> QED
      <4>1. Base(x) /\ x.c.inMap
        BY <1>1, <2>2, <3>2 DEF Base
      <4> QED
        BY <1>2, <2>2, <3>1, <4>1 DEF Stays, Same
  <2>6. CASE ~ ("OUT" \in w.c.events \/ w.c.out > 0) /\ ~ w.s.rst
    <3> DEFINE y == Write(x, k, n)
    <3>k. k \in Nat
      OBVIOUS
    <3>1. /\ y \in W /\ y.id = x.id /\ y.chan = x.chan /\ y.q = x.q
          /\ y.s.st = x.s.st /\ y.s.rst = x.s.rst /\ y.s.finSent = x.s.finSent
          /\ y.c.obj = x.c.obj /\ y.c.state = x.c.state /\ y.c.events = x.c.events
          /\ y.c.index = x.c.index /\ y.c.fd = x.c.fd /\ y.c.inMap = x.c.inMap
          /\ y.c.out = x.c.out /\ y.c.accepted = x.c.accepted /\ y.c.written = x.c.written + k
      BY Zenon, <2>2, <3>k, WriteFields
    <3>2. w.c.out = 0 /\ w.c.accepted = w.c.written
      BY <1>2, <2>6 DEF Base, Out
    <3>3. CASE k = n
      <4>1. Send(w, n, k) = y
        BY Zenon, <2>1, <2>6, <3>3 DEF SendInLoop, SetAccepted
      <4> HIDE DEF x, y
      <4>2. Out(y.c, y.s)
        BY <1>2, <2>2, <2>3, <2>6, <3>1, <3>2, <3>3 DEF Out
      <4>3. Life(y.c, y.s)
        BY <2>2, <3>1 DEF Base, Life
      <4> QED
        <5>1. Base(y) /\ y.c.inMap
          BY <1>1, <2>2, <3>1, <4>2, <4>3 DEF Base
        <5> QED
          BY <1>2, <2>2, <3>1, <4>1, <5>1 DEF Stays, Same
    <3>4. CASE k # n
      <4> DEFINE z == SetOut(y, n - k)
                 v == EnableWriting(z)
      <4>1. Send(w, n, k) = v
        BY Zenon, <2>1, <2>6, <3>4 DEF SendInLoop, SetAccepted, SetOut
      <4> HIDE DEF x, y
      <4>a. n - k \in Nat /\ n - k > 0
        BY <3>4
      <4>2. /\ z \in W /\ z.id = y.id /\ z.s = y.s /\ z.chan = y.chan /\ z.q = y.q
            /\ z.c.obj = y.c.obj /\ z.c.state = y.c.state /\ z.c.events = y.c.events
            /\ z.c.index = y.c.index /\ z.c.fd = y.c.fd /\ z.c.inMap = y.c.inMap
            /\ z.c.out = n - k /\ z.c.accepted = y.c.accepted /\ z.c.written = y.c.written
        BY Zenon, <3>1, <4>a, OutFields
      <4> HIDE DEF z
      <4>3. z.c.fd \in Fds /\ z.c.index = "kAdded" /\ "IN" \in z.c.events
        BY <1>1, <1>3, <2>2, <3>1, <4>2
      <4>4. Registered(z, v, z.c.events \cup {"OUT"})
        BY Zenon, <4>2, <4>3, WritingFields
      <4> HIDE DEF v
      <4>5. Out(v.c, v.s)
        BY <1>2, <2>2, <2>3, <2>6, <3>1, <3>2, <4>a, <4>2, <4>4 DEF Out, Registered
      <4>6. Life(v.c, v.s)
        BY <1>1, <1>3, <2>2, <3>1, <4>2, <4>4 DEF Base, Life, Registered
      <4> QED
        BY <1>1, <1>2, <2>2, <3>1, <3>2, <4>a, <4>1, <4>2, <4>4, <4>5, <4>6 DEF Base, Stays, Same, Registered
    <3> QED
      BY <3>3, <3>4
  <2> QED
    BY <2>4, <2>5, <2>6
<1> QED
  BY <1>4, <1>5

\* A forced close is queued once.
LEMMA ForceCloseKeeps ==
  ASSUME NEW w, Quiet(w)
  PROVE  Open(ForceClose(w)) /\ Same(w, ForceClose(w)) /\ ForceClose(w).c.out = w.c.out
<1> DEFINE x == SetState(w, "kDisconnecting")
           y == [x EXCEPT !.q = Append(@, <<"forceClose", w.id>>)]
<1>1. /\ Base(w) /\ w \in W /\ w.c.inMap /\ w.q = <<>> /\ w.id \in Conns /\ w.c.obj = "live"
      /\ w.c.fd \in Fds /\ w.chan[w.c.fd] = w.id
  BY Fields DEF Quiet, Base
<1>2. w.c.state \in {"kConnected", "kDisconnecting"}
  BY <1>1 DEF Base, Life
<1>3. ForceClose(w) = y
  BY Zenon, <1>2 DEF ForceClose, SetState
<1>4. /\ x \in W /\ x.id = w.id /\ x.s = w.s /\ x.chan = w.chan /\ x.q = w.q
      /\ x.c.obj = w.c.obj /\ x.c.state = "kDisconnecting" /\ x.c.events = w.c.events
      /\ x.c.index = w.c.index /\ x.c.fd = w.c.fd /\ x.c.inMap = w.c.inMap
      /\ x.c.out = w.c.out /\ x.c.accepted = w.c.accepted /\ x.c.written = w.c.written
  BY Zenon, <1>1, SetStateFields
<1> HIDE DEF x
<1>5. Append(x.q, <<"forceClose", w.id>>) = << <<"forceClose", w.id>> >>
  BY <1>1, <1>4
<1>6. << <<"forceClose", w.id>> >> \in Seq(Functor)
  BY <1>1 DEF Functor
<1>7. /\ y \in W /\ y.id = x.id /\ y.s = x.s /\ y.c = x.c /\ y.chan = x.chan
      /\ y.q = << <<"forceClose", w.id>> >>
  BY Zenon, <1>4, <1>5, <1>6 DEF W
<1> HIDE DEF y
<1>8. Out(y.c, y.s)
  BY <1>1, <1>2, <1>4, <1>7 DEF Base, Out
<1>9. Life(y.c, y.s)
  BY Zenon, <1>1, <1>2, <1>4, <1>7 DEF Base, Life
<1>10. Base(y) /\ y.c.inMap
  BY Zenon, <1>1, <1>4, <1>7, <1>8, <1>9 DEF Base
<1> QED
  BY <1>3, <1>4, <1>7, <1>10 DEF Open, Same

\* What a handler leaves behind.
Handled(w, x) == (Open(x) \/ Closed(x)) /\ Same(w, x)

\* A callback is remembered; nothing else changes.
LEMMA CallKeeps ==
  ASSUME NEW w, Base(w), NEW cb \in {"up", "down", "msg"}
  PROVE  /\ Base(Call(w, cb)) /\ Same(w, Call(w, cb)) /\ Call(w, cb).c = w.c /\ Call(w, cb).q = w.q
         /\ Quiet(w) => Quiet(Call(w, cb))
         /\ Closed(w) => Closed(Call(w, cb))
<1>1. w \in W
  BY DEF Base
<1>2. /\ Call(w, cb) \in W /\ Call(w, cb).id = w.id /\ Call(w, cb).c = w.c /\ Call(w, cb).s = w.s
      /\ Call(w, cb).chan = w.chan /\ Call(w, cb).q = w.q
  BY Zenon, <1>1, CallFields
<1> QED
  BY <1>2 DEF Base, Same, Quiet, Closed

\* Whatever the user's message callback does.
LEMMA MessageKeeps ==
  ASSUME NEW w, Quiet(w) \/ Closed(w), NEW u \in AllCalls, NEW k \in 0 .. MaxSend
  PROVE  Handled(w, OnMessage(w, u, k)) /\ OnMessage(w, u, k).c.out >= w.c.out
<1> DEFINE x == Call(w, "msg")
           z == OnMessage(w, u, k)
<1>1. Base(w) /\ w.c.out \in Nat
  BY Fields DEF Quiet, Closed, Base
<1>2. /\ Base(x) /\ Same(w, x) /\ x.c = w.c /\ x.q = w.q /\ (Quiet(w) => Quiet(x)) /\ (Closed(w) => Closed(x))
  BY Zenon, <1>1, CallKeeps
<1>3. \/ z = x \/ z = Send(x, MaxSend, k) \/ z = Shutdown(Send(x, MaxSend, k)) \/ z = Shutdown(x)
      \/ z = ForceClose(x)
  BY DEF OnMessage, AllCalls
<1> HIDE DEF x
<1>4. CASE Closed(w)
  <2>1. x.c.state = "kDisconnected"
    BY <1>2, <1>4 DEF Closed, Base, Life
  <2>2. Send(x, MaxSend, k) = x /\ Shutdown(x) = x /\ ForceClose(x) = x
    BY Zenon, <2>1 DEF Send, Shutdown, ForceClose
  <2> QED
    BY <1>1, <1>2, <1>3, <1>4, <2>2 DEF Handled
<1>5. CASE Quiet(w)
  <2>1. Quiet(x) /\ x.c.inMap /\ x.q = <<>>
    BY <1>2, <1>5 DEF Quiet
  <2> DEFINE y == Send(x, MaxSend, k)
  <2>2. Stays(x, y) /\ y.c.out >= x.c.out
    BY <1>2, <2>1, SendKeeps, TcpServerAssumption
  <2> HIDE DEF y
  <2>3. Base(y) /\ y.c.inMap /\ y.c.out \in Nat
    BY <2>2, Fields DEF Stays, Base
  <2>4. Stays(y, Shutdown(y)) /\ Shutdown(y).c.out = y.c.out
    BY <2>3, ShutdownKeeps
  <2>5. Stays(x, Shutdown(x)) /\ Shutdown(x).c.out = x.c.out
    BY <1>2, <2>1, ShutdownKeeps
  <2>6. Open(ForceClose(x)) /\ Same(x, ForceClose(x)) /\ ForceClose(x).c.out = x.c.out
    BY <2>1, ForceCloseKeeps
  <2>7. \A v : Stays(x, v) => Handled(w, v)
    BY <1>2, <2>1 DEF Stays, Handled, Open, Same
  <2>8. Stays(x, Shutdown(y)) /\ Stays(x, x)
    BY <1>2, <2>1, <2>2, <2>4 DEF Stays, Same
  <2>9. Handled(w, ForceClose(x))
    BY <1>2, <2>6 DEF Handled, Same
  <2>10. CASE z = ForceClose(x)
    BY <1>1, <1>2, <2>6, <2>9, <2>10
  <2>11. CASE z = x \/ z = y \/ z = Shutdown(y) \/ z = Shutdown(x)
    BY <1>1, <1>2, <2>2, <2>3, <2>4, <2>5, <2>7, <2>8, <2>11
  <2> QED
    BY <1>3, <2>10, <2>11 DEF y
<1> QED
  BY <1>4, <1>5

\* handleRead: data, the end of the stream, or an error.
LEMMA ReadKeeps ==
  ASSUME NEW w, Quiet(w) \/ Closed(w), NEW r \in Nat, w.s.rx > 0 => r <= w.s.rx,
         NEW u \in AllCalls, NEW k \in 0 .. MaxSend
  PROVE  Handled(w, HandleRead(w, r, u, k)) /\ HandleRead(w, r, u, k).c.out >= w.c.out
<1>1. w \in W /\ w.s.rx \in Nat /\ w.c.out \in Nat
  BY Fields DEF Quiet, Closed, Base
<1>2. \A x : Quiet(x) => Open(x)
  BY DEF Quiet, Open
<1>3. CASE w.s.rx > 0
  <2> DEFINE x == SetRx(w, w.s.rx - r)
  <2>1. HandleRead(w, r, u, k) = OnMessage(x, u, k)
    BY Zenon, <1>3 DEF HandleRead, SetRx
  <2>2. w.s.rx - r \in Nat
    BY <1>1, <1>3
  <2>3. /\ x \in W /\ x.id = w.id /\ x.c = w.c /\ x.chan = w.chan /\ x.q = w.q
        /\ x.s.st = w.s.st /\ x.s.rst = w.s.rst /\ x.s.finSent = w.s.finSent
    BY Zenon, <1>1, <2>2, SocketFields
  <2> HIDE DEF x
  <2>4. Base(w) => Out(x.c, x.s) /\ Life(x.c, x.s)
    BY <2>3 DEF Base, Out, Life
  <2>5. Same(w, x) /\ (Quiet(x) \/ Closed(x))
    BY <2>3, <2>4 DEF Same, Quiet, Closed, Base
  <2>6. Handled(x, OnMessage(x, u, k)) /\ OnMessage(x, u, k).c.out >= x.c.out
    BY <2>5, MessageKeeps
  <2> QED
    BY <2>1, <2>3, <2>5, <2>6 DEF Handled, Same
<1>4. CASE ~ (w.s.rx > 0) /\ w.s.fin
  <2>1. HandleRead(w, r, u, k) = HandleClose(w)
    BY Zenon, <1>4 DEF HandleRead
  <2> QED
    BY <1>1, <2>1, CloseKeeps DEF Handled
<1>5. CASE ~ (w.s.rx > 0) /\ ~ w.s.fin
  <2>1. HandleRead(w, r, u, k) = HandleError(w)
    BY Zenon, <1>5 DEF HandleRead
  <2>2. (Quiet(HandleError(w)) \/ Closed(HandleError(w))) /\ Same(w, HandleError(w)) /\ HandleError(w).c.out = w.c.out
    BY Zenon, ErrorKeeps
  <2> QED
    BY <1>1, <1>2, <2>1, <2>2 DEF Handled
<1> QED
  BY <1>3, <1>4, <1>5

\* handleWrite: some of the output is written; with the last of it the write event goes off and
\* a shutdown that waited is done.
LEMMA WriteKeeps ==
  ASSUME NEW w, Open(w) \/ Closed(w), NEW l \in Nat \ {0},
         "OUT" \in w.c.events => l <= w.c.out
  PROVE  Handled(w, HandleWrite(w, l))
<1>1. w \in W /\ w.c.fd \in Fds /\ w.c.obj = "live" /\ Base(w) /\ w.chan[w.c.fd] = w.id
  BY DEF Open, Closed, Base
<1>2. w.c.out \in Nat /\ w.c.accepted \in Nat /\ w.c.written \in Nat /\ w.c.events \in SUBSET {"IN", "OUT"}
  BY ONLY <1>1, Fields
<1>3. CASE "OUT" \notin w.c.events \/ w.s.rst
  <2>1. HandleWrite(w, l) = w
    BY Zenon, <1>3 DEF HandleWrite
  <2> QED
    BY <2>1 DEF Handled, Same
<1>4. CASE "OUT" \in w.c.events /\ ~ w.s.rst
  <2>1. Open(w) /\ w.c.inMap
    BY <1>4 DEF Open, Closed
  <2>2. /\ w.c.state \in {"kConnected", "kDisconnecting"} /\ w.c.index = "kAdded" /\ "IN" \in w.c.events
        /\ w.c.accepted = w.c.written + w.c.out /\ w.c.out > 0 /\ ~ w.s.finSent
    BY <1>1, <1>2, <1>4, <2>1 DEF Base, Life, Out
  <2> DEFINE v == Write(w, l, w.c.out)
             x == SetOut(v, v.c.out - l)
             y == DisableWriting(x)
  <2>a. w \in W /\ l \in Nat /\ w.c.out \in Nat
    BY <1>1, <1>2
  <2>3. /\ v \in W /\ v.id = w.id /\ v.chan = w.chan /\ v.q = w.q
        /\ v.s.st = w.s.st /\ v.s.rst = w.s.rst /\ v.s.finSent = w.s.finSent
        /\ v.c.obj = w.c.obj /\ v.c.state = w.c.state /\ v.c.events = w.c.events
        /\ v.c.index = w.c.index /\ v.c.fd = w.c.fd /\ v.c.inMap = w.c.inMap
        /\ v.c.out = w.c.out /\ v.c.accepted = w.c.accepted /\ v.c.written = w.c.written + l
    BY Zenon, <2>a, WriteFields
  <2>b. v.c.out - l \in Nat
    BY <1>2, <1>4, <2>3
  <2>4. /\ x \in W /\ x.id = v.id /\ x.s = v.s /\ x.chan = v.chan /\ x.q = v.q
        /\ x.c.obj = v.c.obj /\ x.c.state = v.c.state /\ x.c.events = v.c.events
        /\ x.c.index = v.c.index /\ x.c.fd = v.c.fd /\ x.c.inMap = v.c.inMap
        /\ x.c.out = v.c.out - l /\ x.c.accepted = v.c.accepted /\ x.c.written = v.c.written
    BY Zenon, <2>3, <2>b, OutFields
  <2>5. HandleWrite(w, l) = IF x.c.out > 0 THEN x
                            ELSE IF x.c.state = "kDisconnecting" THEN ShutdownInLoop(y) ELSE y
    BY Zenon, <1>4 DEF HandleWrite, SetOut
  <2> HIDE DEF v, x
  <2>6. x.c.fd \in Fds /\ x.c.index = "kAdded" /\ "IN" \in x.c.events
    BY <1>1, <2>2, <2>3, <2>4
  <2>7. Registered(x, y, x.c.events \ {"OUT"})
    BY Zenon, <2>4, <2>6, WritingFields
  <2> HIDE DEF y
  <2>8. CASE x.c.out > 0
    <3>1. Out(x.c, x.s)
      BY <1>2, <1>4, <2>2, <2>3, <2>4, <2>8 DEF Out
    <3>2. Life(x.c, x.s)
      BY <1>1, <2>2, <2>3, <2>4 DEF Base, Life
    <3>3. Base(x) /\ x.c.inMap /\ x.q = w.q /\ Same(w, x)
      BY <1>1, <2>1, <2>3, <2>4, <3>1, <3>2 DEF Base, Same
    <3>4. Open(x)
      BY <2>1, <2>3, <2>4, <3>3 DEF Open
    <3> QED
      BY <2>5, <2>8, <3>3, <3>4 DEF Handled
  <2>9. CASE ~ (x.c.out > 0)
    <3>0. x.c.out = 0
      BY <2>b, <2>4, <2>9
    <3>1. Out(y.c, y.s)
      BY <1>2, <1>4, <2>2, <2>3, <2>4, <2>7, <3>0 DEF Out, Registered
    <3>a. /\ y \in W /\ y.id = w.id /\ y.q = w.q /\ y.chan = w.chan
          /\ y.s.st = w.s.st /\ y.s.rst = w.s.rst
      BY ONLY <2>3, <2>4, <2>7 DEF Registered
    <3>b. /\ y.c.obj = w.c.obj /\ y.c.state = w.c.state /\ y.c.index = "kAdded"
          /\ y.c.fd = w.c.fd /\ y.c.inMap = w.c.inMap
      BY ONLY <2>3, <2>4, <2>7 DEF Registered
    <3>c. "IN" \in y.c.events
      BY ONLY <2>6, <2>7 DEF Registered
    <3>d. w.c.obj = "live" /\ w.c.fd \in Fds /\ w.c.inMap /\ w.chan[w.c.fd] = w.id
      BY ONLY <2>1 DEF Open, Base
    <3>e. w.s.st \notin {"none", "backlog"}
      BY ONLY <2>1, <3>d DEF Open, Base, Life
    <3>2. Life(y.c, y.s)
      BY ONLY <2>2, <3>a, <3>b, <3>c, <3>d, <3>e DEF Life
    <3>3. Base(y) /\ y.c.inMap /\ y.q = w.q /\ Same(w, y)
      BY ONLY <3>1, <3>2, <3>a, <3>b, <3>d DEF Base, Same
    <3>4. Handled(w, y)
      BY <2>1, <2>3, <2>4, <2>7, <3>3 DEF Open, Handled, Registered
    <3>5. CASE x.c.state = "kDisconnecting"
      <4>1. y.c.state = "kDisconnecting"
        BY <2>7, <3>5 DEF Registered
      <4>2. Stays(y, ShutdownInLoop(y))
        BY <3>3, <4>1, ShutdownInLoopKeeps
      <4>3. Handled(w, ShutdownInLoop(y))
        BY <2>1, <3>3, <4>2 DEF Stays, Open, Handled, Same
      <4> QED
        BY <2>5, <2>9, <3>5, <4>3
    <3>6. CASE x.c.state # "kDisconnecting"
      BY <2>5, <2>9, <3>4, <3>6
    <3> QED
      BY <3>5, <3>6
  <2> QED
    BY <2>8, <2>9
<1> QED
  BY <1>3, <1>4

\* Channel::handleEventWithGuard, for whatever was reported.
LEMMA EventKeeps ==
  ASSUME NEW w, Quiet(w), NEW ev, NEW r \in Nat, w.s.rx > 0 => r <= w.s.rx,
         NEW u \in AllCalls, NEW k \in 0 .. MaxSend, NEW l \in Nat \ {0}, w.c.out > 0 => l <= w.c.out,
         w.c.out = 0 => l = 1
  PROVE  Handled(w, HandleEvent(w, ev, r, u, k, l))
<1> DEFINE w1 == IF "HUP" \in ev /\ "IN" \notin ev THEN HandleClose(w) ELSE w
           w2 == IF "ERR" \in ev THEN HandleError(w1) ELSE w1
           w3 == IF "IN" \in ev THEN HandleRead(w2, r, u, k) ELSE w2
<1>1. HandleEvent(w, ev, r, u, k, l) = IF "OUT" \in ev THEN HandleWrite(w3, l) ELSE w3
  BY Zenon DEF HandleEvent
<1>2. (Quiet(w1) \/ Closed(w1)) /\ Same(w, w1) /\ w1.s = w.s /\ w1.c.out = w.c.out
  <2>1. Same(w, w)
    BY DEF Same
  <2> QED
    BY <2>1, CloseKeeps
<1> HIDE DEF w1
<1>3. (Quiet(w2) \/ Closed(w2)) /\ Same(w, w2) /\ w2.s = w.s /\ w2.c.out = w.c.out
  <2>1. LET x == HandleError(w1) IN (Quiet(x) \/ Closed(x)) /\ Same(w1, x) /\ x.s = w1.s /\ x.c.out = w1.c.out
    BY <1>2, ErrorKeeps
  <2> QED
    BY <1>2, <2>1 DEF Same
<1> HIDE DEF w2
<1>4. w.c.out \in Nat
  BY Fields DEF Quiet, Base
<1>5. Handled(w, w3) /\ w3.c.out >= w.c.out
  <2>1. CASE "IN" \in ev
    <3>1. Handled(w2, HandleRead(w2, r, u, k)) /\ HandleRead(w2, r, u, k).c.out >= w2.c.out
      BY <1>3, ReadKeeps
    <3>2. w3 = HandleRead(w2, r, u, k)
      BY <2>1
    <3> HIDE DEF w3
    <3> QED
      BY <1>3, <3>1, <3>2 DEF Handled, Same
  <2>2. CASE "IN" \notin ev
    <3>1. w3 = w2
      BY <2>2
    <3> HIDE DEF w3
    <3> QED
      BY <1>3, <1>4, <3>1 DEF Handled, Quiet, Open
  <2> QED
    BY <2>1, <2>2
<1> HIDE DEF w3
<1>6. w3.c.out \in Nat
  BY <1>5, Fields DEF Handled, Open, Closed, Base
<1>7. "OUT" \in w3.c.events => l <= w3.c.out
  <2>1. "OUT" \in w3.c.events => w3.c.out > 0
    BY <1>5 DEF Handled, Open, Closed, Base, Out, Life
  <2> QED
    BY <1>4, <1>5, <1>6, <2>1
<1>8. Handled(w3, HandleWrite(w3, l))
  BY <1>5, <1>7, WriteKeeps DEF Handled
<1> QED
  BY <1>1, <1>5, <1>8 DEF Handled, Same

-----------------------------------------------------------------------------
\* Sequences of functors.

\* Channel::remove.
LEMMA RemoveChannelFields ==
  ASSUME NEW w \in W, w.c.fd \in Fds
  PROVE  LET x == removeChannel(w) IN
         /\ x \in W /\ x.id = w.id /\ x.s = w.s /\ x.q = w.q
         /\ x.chan = [w.chan EXCEPT ![w.c.fd] = none]
         /\ x.c.obj = w.c.obj /\ x.c.state = w.c.state /\ x.c.index = "kNew"
         /\ x.c.fd = w.c.fd /\ x.c.inMap = w.c.inMap
         /\ x.c.out = w.c.out /\ x.c.accepted = w.c.accepted /\ x.c.written = w.c.written
<1>1. none \in 0 .. MaxConns
  BY TcpServerAssumption DEF none
<1> QED
  BY Zenon, <1>1 DEF removeChannel, W, ConnRec

\* connectDestroyed leaves no channel, and closes a connection that was still open.
LEMMA DestroyedFields ==
  ASSUME NEW w \in W, w.c.fd \in Fds
  PROVE  LET x == Destroyed(w) IN
         /\ x \in W /\ x.id = w.id /\ x.s = w.s /\ x.q = w.q
         /\ x.chan[w.c.fd] = none /\ \A f \in Fds \ {w.c.fd} : x.chan[f] = w.chan[f]
         /\ x.c.obj = w.c.obj /\ x.c.index = "kNew" /\ x.c.fd = w.c.fd /\ x.c.inMap = w.c.inMap
         /\ x.c.state = IF w.c.state = "kConnected" THEN "kDisconnected" ELSE w.c.state
         /\ x.c.out = w.c.out /\ x.c.accepted = w.c.accepted /\ x.c.written = w.c.written
<1> DEFINE s == SetState(w, "kDisconnected")
           u == Update(SetEvents(s, {}))
           d == Call(u, "down")
           y == IF w.c.state = "kConnected" THEN d ELSE w
<1>1. Destroyed(w) = removeChannel(y)
  BY Zenon DEF Destroyed, DisableAll, SetState, SetEvents
<1>2. /\ s \in W /\ s.id = w.id /\ s.s = w.s /\ s.chan = w.chan /\ s.q = w.q
      /\ s.c.obj = w.c.obj /\ s.c.state = "kDisconnected"
      /\ s.c.fd = w.c.fd /\ s.c.inMap = w.c.inMap
      /\ s.c.out = w.c.out /\ s.c.accepted = w.c.accepted /\ s.c.written = w.c.written
  BY Zenon, SetStateFields
<1> HIDE DEF s
<1>3. /\ u \in W /\ u.id = s.id /\ u.s = s.s /\ u.q = s.q
      /\ u.chan = IF s.c.index \in {"kNew", "kDeleted"} THEN [s.chan EXCEPT ![s.c.fd] = s.id] ELSE s.chan
      /\ u.c.obj = s.c.obj /\ u.c.state = s.c.state
      /\ u.c.fd = s.c.fd /\ u.c.inMap = s.c.inMap
      /\ u.c.out = s.c.out /\ u.c.accepted = s.c.accepted /\ u.c.written = s.c.written
  BY Zenon, <1>2, UpdateFields
<1> HIDE DEF u
<1>4. d \in W /\ d.id = u.id /\ d.c = u.c /\ d.s = u.s /\ d.chan = u.chan /\ d.q = u.q
  BY Zenon, <1>3, CallFields
<1> HIDE DEF d
<1>5. w.chan \in [Fds -> 0 .. MaxConns] /\ s.chan \in [Fds -> 0 .. MaxConns]
  BY <1>2, Fields
<1>6. /\ y \in W /\ y.id = w.id /\ y.s = w.s /\ y.q = w.q
      /\ y.c.obj = w.c.obj /\ y.c.fd = w.c.fd /\ y.c.inMap = w.c.inMap
      /\ y.c.state = IF w.c.state = "kConnected" THEN "kDisconnected" ELSE w.c.state
      /\ y.c.out = w.c.out /\ y.c.accepted = w.c.accepted /\ y.c.written = w.c.written
  BY Zenon, <1>2, <1>3, <1>4
<1>7. \A f \in Fds \ {w.c.fd} : y.chan[f] = w.chan[f]
  BY <1>2, <1>3, <1>4, <1>5
<1> HIDE DEF y
<1> DEFINE x == removeChannel(y)
<1>8. /\ x \in W /\ x.id = y.id /\ x.s = y.s /\ x.q = y.q
      /\ x.chan = [y.chan EXCEPT ![y.c.fd] = none]
      /\ x.c.obj = y.c.obj /\ x.c.state = y.c.state /\ x.c.index = "kNew"
      /\ x.c.fd = y.c.fd /\ x.c.inMap = y.c.inMap
      /\ x.c.out = y.c.out /\ x.c.accepted = y.c.accepted /\ x.c.written = y.c.written
  BY Zenon, <1>6, RemoveChannelFields
<1>9. y.chan \in [Fds -> 0 .. MaxConns]
  BY <1>6, Fields
<1> HIDE DEF x
<1>10. x.chan[w.c.fd] = none /\ \A f \in Fds \ {w.c.fd} : x.chan[f] = w.chan[f]
  BY ONLY <1>6, <1>7, <1>8, <1>9, w.c.fd \in Fds
<1>11. Destroyed(w) = x
  BY <1>1 DEF x
<1> QED
  BY Zenon, <1>6, <1>8, <1>10, <1>11

\* The end of the object closes its socket.
Ended(w) == [w EXCEPT !.c.obj = "freed", !.s.st = "closed"]

\* Only the object's and the socket's life change at the end.
LEMMA EndedFields ==
  ASSUME NEW w \in W
  PROVE  LET x == Ended(w)
         IN /\ x \in W /\ x.id = w.id /\ x.chan = w.chan /\ x.q = w.q
            /\ x.c.obj = "freed" /\ x.s.st = "closed"
            /\ x.c.state = w.c.state /\ x.c.index = w.c.index /\ x.c.fd = w.c.fd /\ x.c.inMap = w.c.inMap
            /\ x.c.out = w.c.out /\ x.c.accepted = w.c.accepted /\ x.c.written = w.c.written
            /\ x.s.rst = w.s.rst /\ x.s.finSent = w.s.finSent
  BY Zenon DEF Ended, W, ConnRec, SockRec

\* Freed ends the object and its socket when neither the map nor a functor holds it.
LEMMA FreedFields ==
  ASSUME NEW w \in W, NEW fs, ~ w.c.inMap
  PROVE  LET x == Freed(w, fs)
             held == \E i \in DOMAIN fs : fs[i][2] = w.id
         IN /\ x \in W /\ x.id = w.id /\ x.chan = w.chan /\ x.q = w.q
            /\ held => x.c.obj = w.c.obj /\ x.s.st = w.s.st
            /\ ~ held => x.c.obj = "freed" /\ x.s.st = "closed"
            /\ x.c.state = w.c.state /\ x.c.index = w.c.index /\ x.c.fd = w.c.fd /\ x.c.inMap = w.c.inMap
            /\ x.c.out = w.c.out /\ x.c.accepted = w.c.accepted /\ x.c.written = w.c.written
            /\ x.s.rst = w.s.rst /\ x.s.finSent = w.s.finSent
<1> DEFINE held == \E i \in DOMAIN fs : fs[i][2] = w.id
<1>1. CASE held
  <2>1. Freed(w, fs) = w
    BY Zenon, <1>1 DEF Freed
  <2> QED
    BY <1>1, <2>1
<1>2. CASE ~ held
  <2>1. Freed(w, fs) = Ended(w)
    BY Zenon, <1>2 DEF Freed, Ended
  <2>2. LET x == Ended(w)
        IN /\ x \in W /\ x.id = w.id /\ x.chan = w.chan /\ x.q = w.q
           /\ x.c.obj = "freed" /\ x.s.st = "closed"
           /\ x.c.state = w.c.state /\ x.c.index = w.c.index /\ x.c.fd = w.c.fd /\ x.c.inMap = w.c.inMap
           /\ x.c.out = w.c.out /\ x.c.accepted = w.c.accepted /\ x.c.written = w.c.written
           /\ x.s.rst = w.s.rst /\ x.s.finSent = w.s.finSent
    BY Zenon, EndedFields
  <2> QED
    BY <1>2, <2>1, <2>2
<1> QED
  BY Zenon, <1>1, <1>2

\* The object that newConnection makes, before it is established.
Opened(w, f) == [w EXCEPT !.c.obj = "live", !.c.inMap = TRUE, !.c.fd = f, !.s.st = "open"]

\* What the new object has, and what it takes from the peer.
LEMMA OpenedFields ==
  ASSUME NEW w \in W, NEW f \in 0 .. NFds
  PROVE  LET x == Opened(w, f)
         IN /\ x \in W /\ x.id = w.id /\ x.chan = w.chan /\ x.q = w.q
            /\ x.c.obj = "live" /\ x.s.st = "open" /\ x.c.inMap = TRUE /\ x.c.fd = f
            /\ x.c.events = w.c.events /\ x.c.index = w.c.index
            /\ x.c.out = w.c.out /\ x.c.accepted = w.c.accepted /\ x.c.written = w.c.written
            /\ x.s.rst = w.s.rst /\ x.s.finSent = w.s.finSent
  BY Zenon DEF Opened, W, ConnRec, SockRec

\* Channel::update of a new channel.
LEMMA RegisterFields ==
  ASSUME NEW w \in W, w.c.fd \in Fds, w.c.index = "kNew", NEW ev \in SUBSET {"IN", "OUT"}
  PROVE  LET x == Update(SetEvents(w, ev))
         IN /\ x \in W /\ x.id = w.id /\ x.s = w.s /\ x.q = w.q
            /\ x.chan = [w.chan EXCEPT ![w.c.fd] = w.id]
            /\ x.c.obj = w.c.obj /\ x.c.state = w.c.state /\ x.c.events = ev /\ x.c.index = "kAdded"
            /\ x.c.fd = w.c.fd /\ x.c.inMap = w.c.inMap
            /\ x.c.out = w.c.out /\ x.c.accepted = w.c.accepted /\ x.c.written = w.c.written
<1>1. w.c.index \in {"kNew", "kDeleted"}
  OBVIOUS
<1>2. w.id \in 0 .. MaxConns
  BY TcpServerAssumption DEF W, Conns
<1> QED
  BY Zenon, <1>1, <1>2 DEF SetEvents, Update, W, ConnRec

\* What newConnection makes of a peer of the backlog.
LEMMA NewFields ==
  ASSUME NEW w \in W, NEW f \in Fds, w.c = NoConn
  PROVE  LET x == NewConnection(w, f)
         IN /\ x \in W /\ x.id = w.id /\ x.q = w.q /\ x.chan = [w.chan EXCEPT ![f] = w.id]
            /\ x.c.obj = "live" /\ x.s.st = "open" /\ x.c.inMap = TRUE /\ x.c.fd = f
            /\ x.c.events = {"IN"} /\ x.c.index = "kAdded" /\ x.c.state = "kConnected"
            /\ x.c.out = 0 /\ x.c.accepted = 0 /\ x.c.written = 0
            /\ x.s.rst = w.s.rst /\ x.s.finSent = w.s.finSent
<1> DEFINE o == Opened(w, f)
           s == SetState(o, "kConnected")
           u == Update(SetEvents(s, s.c.events \cup {"IN"}))
           x == Call(u, "up")
<1>1. NewConnection(w, f) = x
  BY Zenon DEF NewConnection, Established, EnableReading, Opened, SetState, SetEvents
<1>0. f \in 0 .. NFds
  BY TcpServerAssumption DEF Fds
<1>2. /\ o \in W /\ o.id = w.id /\ o.chan = w.chan /\ o.q = w.q
      /\ o.c.obj = "live" /\ o.s.st = "open" /\ o.c.inMap = TRUE /\ o.c.fd = f
      /\ o.c.events = w.c.events /\ o.c.index = w.c.index
      /\ o.c.out = w.c.out /\ o.c.accepted = w.c.accepted /\ o.c.written = w.c.written
      /\ o.s.rst = w.s.rst /\ o.s.finSent = w.s.finSent
  BY Zenon, <1>0, OpenedFields
<1> HIDE DEF o
<1>3. /\ s \in W /\ s.id = o.id /\ s.s = o.s /\ s.chan = o.chan /\ s.q = o.q
      /\ s.c.obj = o.c.obj /\ s.c.state = "kConnected" /\ s.c.events = o.c.events /\ s.c.index = o.c.index
      /\ s.c.fd = o.c.fd /\ s.c.inMap = o.c.inMap
      /\ s.c.out = o.c.out /\ s.c.accepted = o.c.accepted /\ s.c.written = o.c.written
  BY Zenon, <1>2, SetStateFields
<1> HIDE DEF s
<1>4. s.c.events \cup {"IN"} = {"IN"} /\ s.c.index = "kNew" /\ s.c.fd = f
      /\ s.c.out = 0 /\ s.c.accepted = 0 /\ s.c.written = 0
  BY <1>2, <1>3 DEF NoConn
<1> DEFINE ev == {"IN"}
<1>5. /\ u \in W /\ u.id = s.id /\ u.s = s.s /\ u.q = s.q
      /\ u.chan = [s.chan EXCEPT ![s.c.fd] = s.id]
      /\ u.c.obj = s.c.obj /\ u.c.state = s.c.state /\ u.c.events = ev /\ u.c.index = "kAdded"
      /\ u.c.fd = s.c.fd /\ u.c.inMap = s.c.inMap
      /\ u.c.out = s.c.out /\ u.c.accepted = s.c.accepted /\ u.c.written = s.c.written
  <2>1. s \in W /\ s.c.fd \in Fds /\ s.c.index = "kNew" /\ ev \in SUBSET {"IN", "OUT"}
    BY <1>3, <1>4
  <2>2. u = Update(SetEvents(s, ev))
    BY Zenon, <1>4
  <2> HIDE DEF u, ev
  <2>3. LET v == Update(SetEvents(s, ev))
        IN /\ v \in W /\ v.id = s.id /\ v.s = s.s /\ v.q = s.q
            /\ v.chan = [s.chan EXCEPT ![s.c.fd] = s.id]
            /\ v.c.obj = s.c.obj /\ v.c.state = s.c.state /\ v.c.events = ev /\ v.c.index = "kAdded"
            /\ v.c.fd = s.c.fd /\ v.c.inMap = s.c.inMap
            /\ v.c.out = s.c.out /\ v.c.accepted = s.c.accepted /\ v.c.written = s.c.written
    BY ONLY <2>1, RegisterFields
  <2> QED
    BY ONLY <2>2, <2>3
<1> HIDE DEF u, ev
<1>6. x \in W /\ x.id = u.id /\ x.c = u.c /\ x.s = u.s /\ x.chan = u.chan /\ x.q = u.q
  BY Zenon, <1>5, CallFields
<1> HIDE DEF x
<1>7. /\ x.id = w.id /\ x.q = w.q /\ x.chan = [w.chan EXCEPT ![f] = w.id]
      /\ x.s.st = "open" /\ x.s.rst = w.s.rst /\ x.s.finSent = w.s.finSent
  BY ONLY <1>2, <1>3, <1>4, <1>5, <1>6
<1>8. /\ x.c.obj = "live" /\ x.c.inMap = TRUE /\ x.c.fd = f
      /\ x.c.events = ev /\ x.c.index = "kAdded" /\ x.c.state = "kConnected"
      /\ x.c.out = 0 /\ x.c.accepted = 0 /\ x.c.written = 0
  BY ONLY <1>2, <1>3, <1>4, <1>5, <1>6
<1> USE DEF ev
<1> QED
  BY Zenon, <1>1, <1>6, <1>7, <1>8

\* The map entry of a connection is given up.
Dropped(w) == [w EXCEPT !.c.inMap = FALSE]

\* Only the map entry changes.
LEMMA DroppedFields ==
  ASSUME NEW w \in W
  PROVE  LET x == Dropped(w) IN
         /\ x \in W /\ x.id = w.id /\ x.s = w.s /\ x.chan = w.chan /\ x.q = w.q
         /\ x.c.obj = w.c.obj /\ x.c.state = w.c.state /\ x.c.index = w.c.index
         /\ x.c.fd = w.c.fd /\ x.c.inMap = FALSE
         /\ x.c.out = w.c.out /\ x.c.accepted = w.c.accepted /\ x.c.written = w.c.written
  BY Zenon DEF Dropped, W, ConnRec

\* What ~TcpServer makes of a connection in its map that no functor holds.
LEMMA HeldFields ==
  ASSUME NEW w \in W, w.c.fd \in Fds, NEW fs, ~ \E i \in DOMAIN fs : fs[i][2] = w.id
  PROVE  LET x == Freed(Dropped(Destroyed(w)), fs) IN
         /\ x.c \in ConnRec /\ x.s \in SockRec
         /\ x.c.obj = "freed" /\ x.s.st = "closed" /\ x.c.index = "kNew" /\ x.c.inMap = FALSE
         /\ x.c.state = IF w.c.state = "kConnected" THEN "kDisconnected" ELSE w.c.state
         /\ x.c.out = w.c.out /\ x.c.accepted = w.c.accepted /\ x.c.written = w.c.written
         /\ x.s.rst = w.s.rst /\ x.s.finSent = w.s.finSent
<1> DEFINE d == Destroyed(w)
           r == Dropped(d)
           x == Freed(r, fs)
<1>1. /\ d \in W /\ d.id = w.id /\ d.s = w.s /\ d.c.index = "kNew"
      /\ d.c.state = IF w.c.state = "kConnected" THEN "kDisconnected" ELSE w.c.state
      /\ d.c.out = w.c.out /\ d.c.accepted = w.c.accepted /\ d.c.written = w.c.written
  BY Zenon, DestroyedFields
<1> HIDE DEF d
<1>2. /\ r \in W /\ r.id = d.id /\ r.s = d.s
      /\ r.c.state = d.c.state /\ r.c.index = d.c.index /\ r.c.inMap = FALSE
      /\ r.c.out = d.c.out /\ r.c.accepted = d.c.accepted /\ r.c.written = d.c.written
  BY Zenon, <1>1, DroppedFields
<1> HIDE DEF r
<1>3. ~ \E i \in DOMAIN fs : fs[i][2] = r.id
  BY <1>1, <1>2
<1>4. x = Ended(r)
  BY Zenon, <1>2, <1>3 DEF Freed, Ended
<1> HIDE DEF x
<1>5. LET y == Ended(r)
      IN /\ y \in W /\ y.c.obj = "freed" /\ y.s.st = "closed"
         /\ y.c.state = r.c.state /\ y.c.index = r.c.index /\ y.c.inMap = r.c.inMap
         /\ y.c.out = r.c.out /\ y.c.accepted = r.c.accepted /\ y.c.written = r.c.written
         /\ y.s.rst = r.s.rst /\ y.s.finSent = r.s.finSent
  BY Zenon, <1>2, EndedFields
<1>6. /\ x \in W /\ x.c.obj = "freed" /\ x.s.st = "closed"
      /\ x.c.state = r.c.state /\ x.c.index = r.c.index /\ x.c.inMap = r.c.inMap
      /\ x.c.out = r.c.out /\ x.c.accepted = r.c.accepted /\ x.c.written = r.c.written
      /\ x.s.rst = r.s.rst /\ x.s.finSent = r.s.finSent
  BY ONLY <1>4, <1>5
<1>7. /\ x.c \in ConnRec /\ x.s \in SockRec
      /\ x.c.obj = "freed" /\ x.s.st = "closed" /\ x.c.index = "kNew" /\ x.c.inMap = FALSE
      /\ x.c.state = IF w.c.state = "kConnected" THEN "kDisconnected" ELSE w.c.state
      /\ x.c.out = w.c.out /\ x.c.accepted = w.c.accepted /\ x.c.written = w.c.written
      /\ x.s.rst = w.s.rst /\ x.s.finSent = w.s.finSent
  <2>1. x.c \in ConnRec /\ x.s \in SockRec
    BY <1>6, Fields
  <2> QED
    BY ONLY <1>1, <1>2, <1>6, <2>1
<1> QED
  BY <1>7 DEF x, r, d

\* What a concatenation contains.
LEMMA InConcat ==
  ASSUME NEW S, NEW s \in Seq(S), NEW t \in Seq(S), NEW e
  PROVE  In(e, s \o t) <=> In(e, s) \/ In(e, t)
<1>1. /\ s \o t \in Seq(S) /\ Len(s \o t) = Len(s) + Len(t) /\ Len(s) \in Nat /\ Len(t) \in Nat
      /\ \A i \in 1 .. Len(s) + Len(t) : (s \o t)[i] = IF i <= Len(s) THEN s[i] ELSE t[i - Len(s)]
  BY ConcatProperties
<1>2. DOMAIN s = 1 .. Len(s) /\ DOMAIN t = 1 .. Len(t) /\ DOMAIN (s \o t) = 1 .. Len(s) + Len(t)
  BY <1>1
<1>3. ASSUME NEW i \in 1 .. Len(s), s[i] = e PROVE In(e, s \o t)
  <2>1. i \in 1 .. Len(s) + Len(t) /\ (s \o t)[i] = e
    BY <1>1, <1>3
  <2> QED
    BY <1>2, <2>1 DEF In
<1>4. ASSUME NEW i \in 1 .. Len(t), t[i] = e PROVE In(e, s \o t)
  <2>1. /\ i + Len(s) \in 1 .. Len(s) + Len(t) /\ ~ (i + Len(s) <= Len(s)) /\ i + Len(s) - Len(s) = i
    BY <1>1
  <2>2. (s \o t)[i + Len(s)] = e
    BY <1>1, <1>4, <2>1
  <2> QED
    BY <1>2, <2>1, <2>2 DEF In
<1>5. ASSUME NEW i \in 1 .. Len(s) + Len(t), (s \o t)[i] = e PROVE In(e, s) \/ In(e, t)
  <2>1. i <= Len(s) => i \in 1 .. Len(s) /\ s[i] = e
    BY <1>1, <1>5
  <2>2. ~ (i <= Len(s)) => i - Len(s) \in 1 .. Len(t) /\ t[i - Len(s)] = e
    BY <1>1, <1>5
  <2> QED
    BY <1>2, <2>1, <2>2 DEF In
<1> QED
  BY <1>2, <1>3, <1>4, <1>5 DEF In

\* What a concatenation contains once.
LEMMA OnceConcat ==
  ASSUME NEW S, NEW s \in Seq(S), NEW t \in Seq(S), NEW e, Once(e, s), Once(e, t), ~ In(e, s) \/ ~ In(e, t)
  PROVE  Once(e, s \o t)
<1>1. /\ s \o t \in Seq(S) /\ Len(s \o t) = Len(s) + Len(t) /\ Len(s) \in Nat /\ Len(t) \in Nat
      /\ \A i \in 1 .. Len(s) + Len(t) : (s \o t)[i] = IF i <= Len(s) THEN s[i] ELSE t[i - Len(s)]
  BY ConcatProperties
<1>2. DOMAIN s = 1 .. Len(s) /\ DOMAIN t = 1 .. Len(t) /\ DOMAIN (s \o t) = 1 .. Len(s) + Len(t)
  BY <1>1
<1> SUFFICES ASSUME NEW i \in 1 .. Len(s) + Len(t), NEW j \in 1 .. Len(s) + Len(t),
                    (s \o t)[i] = e, (s \o t)[j] = e
             PROVE  i = j
  BY <1>2 DEF Once
<1>3. \A k \in 1 .. Len(s) + Len(t) : (s \o t)[k] = e =>
        \/ k <= Len(s) /\ k \in DOMAIN s /\ s[k] = e
        \/ ~ (k <= Len(s)) /\ k - Len(s) \in DOMAIN t /\ t[k - Len(s)] = e
  BY <1>1, <1>2
<1>4. CASE i <= Len(s) /\ j <= Len(s)
  BY <1>3, <1>4 DEF Once
<1>5. CASE ~ (i <= Len(s)) /\ ~ (j <= Len(s))
  <2>1. i - Len(s) = j - Len(s)
    BY <1>3, <1>5 DEF Once
  <2> QED
    BY <1>1, <2>1
<1>6. CASE (i <= Len(s) /\ ~ (j <= Len(s))) \/ (~ (i <= Len(s)) /\ j <= Len(s))
  BY <1>3, <1>6 DEF In
<1> QED
  BY <1>4, <1>5, <1>6

\* What is left of a sequence without its head.
LEMMA InTail ==
  ASSUME NEW S, NEW s \in Seq(S), s # <<>>
  PROVE  /\ Tail(s) \in Seq(S) /\ Head(s) \in S
         /\ \A e : In(e, s) <=> e = Head(s) \/ In(e, Tail(s))
         /\ \A e : Once(e, s) => Once(e, Tail(s)) /\ (e = Head(s) => ~ In(e, Tail(s)))
<1>1. /\ Len(s) \in Nat \ {0} /\ Tail(s) \in Seq(S) /\ Len(Tail(s)) = Len(s) - 1 /\ Head(s) = s[1]
      /\ \A i \in 1 .. Len(s) - 1 : Tail(s)[i] = s[i + 1]
  BY HeadTailProperties, EmptySeq
<1>2. DOMAIN s = 1 .. Len(s) /\ DOMAIN Tail(s) = 1 .. Len(s) - 1
  BY <1>1
<1>3. Head(s) \in S
  BY <1>1
<1>4. ASSUME NEW e PROVE In(e, s) <=> e = Head(s) \/ In(e, Tail(s))
  <2>1. ASSUME NEW i \in 1 .. Len(s), s[i] = e PROVE e = Head(s) \/ In(e, Tail(s))
    <3>1. i = 1 \/ (i - 1 \in 1 .. Len(s) - 1 /\ (i - 1) + 1 = i)
      BY <1>1
    <3>2. i = 1 \/ (i - 1 \in DOMAIN Tail(s) /\ Tail(s)[i - 1] = e)
      BY <1>1, <1>2, <2>1, <3>1
    <3> QED
      BY Zenon, <1>1, <2>1, <3>2 DEF In
  <2>2. ASSUME NEW i \in 1 .. Len(s) - 1, Tail(s)[i] = e PROVE In(e, s)
    <3>1. i + 1 \in 1 .. Len(s) /\ s[i + 1] = e
      BY <1>1, <2>2
    <3> QED
      BY <1>2, <3>1 DEF In
  <2>3. 1 \in DOMAIN s
    BY <1>1, <1>2
  <2> QED
    BY <1>1, <1>2, <2>1, <2>2, <2>3 DEF In
<1>5. ASSUME NEW e, Once(e, s) PROVE Once(e, Tail(s)) /\ (e = Head(s) => ~ In(e, Tail(s)))
  <2>1. \A i \in 1 .. Len(s) - 1 : i + 1 \in 1 .. Len(s) /\ i + 1 # 1 /\ Tail(s)[i] = s[i + 1]
    BY <1>1
  <2>2. \A i, j \in 1 .. Len(s) - 1 : i + 1 = j + 1 => i = j
    BY <1>1
  <2>3. Once(e, Tail(s))
    BY <1>2, <1>5, <2>1, <2>2 DEF Once
  <2>4. 1 \in DOMAIN s
    BY <1>1, <1>2
  <2>5. e = Head(s) => ~ In(e, Tail(s))
    BY <1>1, <1>2, <1>5, <2>1, <2>4 DEF Once, In
  <2> QED
    BY <2>3, <2>5
<1> QED
  BY <1>1, <1>3, <1>4, <1>5

-----------------------------------------------------------------------------
\* The steps of the loop.

\* What Commit changes.
LEMMA CommitFields ==
  ASSUME TypeInv, NEW x \in W, Commit(x)
  PROVE  /\ conn' \in [Conns -> ConnRec] /\ sock' \in [Conns -> SockRec]
         /\ conn'[x.id] = x.c /\ sock'[x.id] = x.s
         /\ \A d \in Conns \ {x.id} : conn'[d] = conn[d] /\ sock'[d] = sock[d]
         /\ chan' = x.chan /\ chan' \in [Fds -> 0 .. MaxConns]
         /\ queue' = queue \o x.q /\ queue' \in Seq(Functor)
<1>1. x.id \in Conns /\ x.c \in ConnRec /\ x.s \in SockRec /\ x.chan \in [Fds -> 0 .. MaxConns] /\ x.q \in Seq(Functor)
  BY Fields
<1>2. /\ conn' = [conn EXCEPT ![x.id] = x.c] /\ sock' = [sock EXCEPT ![x.id] = x.s]
      /\ chan' = x.chan /\ queue' = queue \o x.q
  BY DEF Commit
<1>3. conn \in [Conns -> ConnRec] /\ sock \in [Conns -> SockRec] /\ queue \in Seq(Functor)
  BY DEF TypeInv
<1>4. queue \o x.q \in Seq(Functor)
  BY ONLY <1>1, <1>3, ConcatProperties
<1> QED
  BY ONLY <1>1, <1>2, <1>3, <1>4

\* What a handler of connection c starts from.
LEMMA WorkFields ==
  ASSUME TypeInv, NEW c \in Conns
  PROVE  /\ Work(c) \in W /\ Work(c).id = c /\ Work(c).c = conn[c] /\ Work(c).s = sock[c]
         /\ Work(c).chan = chan /\ Work(c).q = <<>>
<1>1. conn[c] \in ConnRec /\ sock[c] \in SockRec /\ chan \in [Fds -> 0 .. MaxConns]
  BY DEF TypeInv
<1>2. <<>> \in Seq(Functor) /\ <<>> \in Seq({"up", "down", "msg"})
  OBVIOUS
<1> QED
  BY Zenon, <1>1, <1>2 DEF Work, W

\* A handler starts with a connection of the map and nothing queued.
LEMMA WorkQuiet ==
  ASSUME Inv, NEW c \in Conns, Live(c), conn[c].inMap
  PROVE  Quiet(Work(c))
<1>1. /\ Work(c) \in W /\ Work(c).id = c /\ Work(c).c = conn[c] /\ Work(c).s = sock[c]
      /\ Work(c).chan = chan /\ Work(c).q = <<>>
  BY WorkFields DEF Inv
<1>2. Out(conn[c], sock[c]) /\ Life(conn[c], sock[c]) /\ conn[c].obj = "live"
  BY DEF Inv, Each, Live
<1>3. conn[c].fd \in Fds /\ conn[c].index = "kAdded"
  BY <1>2 DEF Life
<1>4. chan[conn[c].fd] = c
  BY <1>3 DEF Inv, Mapped
<1> QED
  BY <1>1, <1>2, <1>3, <1>4 DEF Quiet, Base

\* The effect of a handler on the connections and on the poller's map.
LEMMA HandledCommit ==
  ASSUME Inv, NEW c \in Conns, Live(c), conn[c].inMap, NEW x, Handled(Work(c), x), Commit(x)
  PROVE  /\ conn' \in [Conns -> ConnRec] /\ sock' \in [Conns -> SockRec]
         /\ chan' \in [Fds -> 0 .. MaxConns] /\ queue' \in Seq(Functor)
         /\ conn'[c] = x.c /\ sock'[c] = x.s /\ conn'[c].obj = "live"
         /\ \A d \in Conns \ {c} : conn'[d] = conn[d] /\ sock'[d] = sock[d]
         /\ Each' /\ Mapped'
         /\ queue' = queue \o x.q /\ x.q \in Seq(Functor)
         /\ \A d \in Conns : sock[d].st = "backlog" => sock'[d].st = "backlog"
<1>1. /\ Work(c) \in W /\ Work(c).id = c /\ Work(c).c = conn[c] /\ Work(c).s = sock[c]
      /\ Work(c).chan = chan /\ Work(c).q = <<>>
  BY WorkFields DEF Inv
<1>2. /\ x \in W /\ Base(x) /\ x.id = c /\ x.c.obj = "live" /\ x.c.fd = conn[c].fd /\ x.c.fd \in Fds
      /\ x.chan[x.c.fd] = c /\ \A f \in Fds \ {x.c.fd} : x.chan[f] = chan[f]
      /\ Out(x.c, x.s) /\ Life(x.c, x.s)
  BY <1>1 DEF Handled, Open, Closed, Base, Same
<1>3. x.c.index # "kNew"
  BY <1>2 DEF Handled, Open, Closed, Life
<1>4. /\ conn' \in [Conns -> ConnRec] /\ sock' \in [Conns -> SockRec]
      /\ conn'[c] = x.c /\ sock'[c] = x.s
      /\ \A d \in Conns \ {c} : conn'[d] = conn[d] /\ sock'[d] = sock[d]
      /\ chan' = x.chan /\ chan' \in [Fds -> 0 .. MaxConns]
      /\ queue' = queue \o x.q /\ queue' \in Seq(Functor)
  BY <1>2, CommitFields DEF Inv
<1>5. Each'
  BY <1>2, <1>4 DEF Inv, Each
<1>6. Mapped'
  <2>0. conn[c].obj = "live" /\ Mapped /\ Each
    BY DEF Inv, Live
  <2>a. \A d \in Conns : conn'[d].obj = "live" => conn[d].obj = "live" /\ conn'[d].fd = conn[d].fd
    BY <1>2, <1>4, <2>0
  <2>1. \A d, e \in Conns : conn'[d].obj = "live" /\ conn'[e].obj = "live" /\ conn'[d].fd = conn'[e].fd => d = e
    BY ONLY <2>a, <2>0 DEF Mapped, Live
  <2>2. \A d \in Conns : conn'[d].obj = "live" /\ conn'[d].index # "kNew" => chan'[conn'[d].fd] = d
    <3>0. chan'[conn'[c].fd] = c
      BY ONLY <1>2, <1>4
    <3>1. ASSUME NEW d \in Conns, conn'[d].obj = "live", conn'[d].index # "kNew", d # c
          PROVE  chan'[conn'[d].fd] = d
      <4>1. conn'[d] = conn[d]
        BY ONLY <1>4, <3>1
      <4>2. conn[d].obj = "live" /\ conn[d].index # "kNew"
        BY ONLY <3>1, <4>1
      <4>3. chan[conn[d].fd] = d
        BY ONLY <2>0, <3>1, <4>2 DEF Mapped, Live
      <4>4. conn[d].fd # x.c.fd
        BY ONLY <1>2, <2>0, <3>1, <4>2, c \in Conns DEF Mapped, Live
      <4>5. conn[d].fd \in Fds
        BY ONLY <2>0, <3>1, <4>2 DEF Each, Life
      <4> QED
        BY ONLY <1>2, <1>4, <4>1, <4>3, <4>4, <4>5
    <3> QED
      <4> TAKE d \in Conns
      <4>1. CASE d = c
        BY ONLY <3>0, <4>1
      <4>2. CASE d # c
        BY ONLY <3>1, <4>2, d \in Conns
      <4> QED
        BY ONLY <4>1, <4>2
  <2>3. \A f \in Fds : chan'[f] # none =>
          chan'[f] \in Conns /\ conn'[chan'[f]].obj = "live" /\ conn'[chan'[f]].fd = f
          /\ conn'[chan'[f]].index # "kNew"
    <3> SUFFICES ASSUME NEW f \in Fds, chan'[f] # none
                 PROVE  chan'[f] \in Conns /\ conn'[chan'[f]].obj = "live" /\ conn'[chan'[f]].fd = f
                        /\ conn'[chan'[f]].index # "kNew"
      OBVIOUS
    <3>1. CASE f = x.c.fd
      BY ONLY <1>2, <1>3, <1>4, <3>1, c \in Conns
    <3>2. CASE f # x.c.fd
      <4>0. chan'[f] = chan[f] /\ chan[f] # none
        BY ONLY <1>2, <1>4, <3>2, f \in Fds, chan'[f] # none
      <4>1. chan[f] \in Conns /\ conn[chan[f]].obj = "live" /\ conn[chan[f]].fd = f
            /\ conn[chan[f]].index # "kNew"
        BY ONLY <2>0, <4>0, f \in Fds DEF Mapped, Live
      <4>2. chan[f] # c
        BY ONLY <1>2, <3>2, <4>1
      <4> QED
        BY ONLY <1>4, <4>0, <4>1, <4>2
    <3> QED
      BY <3>1, <3>2
  <2> QED
    BY <2>1, <2>2, <2>3 DEF Mapped, Live
<1>7. sock[c].st # "backlog"
  BY DEF Inv, Each, Life, Live
<1>8. x.q \in Seq(Functor)
  BY <1>2, Fields
<1> QED
  BY <1>2, <1>4, <1>5, <1>6, <1>7, <1>8

\* What a handler queues.
LEMMA HandledQueue ==
  ASSUME NEW x, Open(x) \/ Closed(x)
  PROVE  /\ \A d : In(<<"destroy", d>>, x.q) <=> d = x.id /\ ~ x.c.inMap
         /\ \A d : In(<<"forceClose", d>>, x.q) => d = x.id /\ x.c.inMap
         /\ \A d : Once(<<"forceClose", d>>, x.q)
<1>1. x.q \in Seq(Functor)
  BY Fields DEF Open, Closed, Base
<1>2. CASE Closed(x)
  <2>1. ~ x.c.inMap /\ x.q # <<>> /\ \A i \in DOMAIN x.q : x.q[i] = <<"destroy", x.id>>
    BY <1>2 DEF Closed
  <2>2. 1 \in DOMAIN x.q
    BY ONLY <1>1, <2>1, EmptySeq
  <2> QED
    BY <2>1, <2>2 DEF In, Once
<1>3. CASE Open(x) /\ x.q = <<>>
  <2>1. x.c.inMap /\ DOMAIN x.q = {}
    BY <1>3 DEF Open
  <2> QED
    BY <2>1 DEF In, Once
<1>4. CASE Open(x) /\ x.q = << <<"forceClose", x.id>> >>
  <2>1. x.c.inMap /\ DOMAIN x.q = {1} /\ x.q[1] = <<"forceClose", x.id>>
    BY <1>4 DEF Open
  <2> QED
    BY <2>1 DEF In, Once
<1> QED
  BY <1>2, <1>3, <1>4 DEF Open

\* Nothing is in the empty sequence.
LEMMA InEmpty == \A e : ~ In(e, <<>>) /\ Once(e, <<>>)
  BY DEF In, Once

\* A handled event leaves the invariant.
LEMMA HandleStep ==
  ASSUME Inv, NEW a \in active, Handle(a)
  PROVE  Inv'
<1> DEFINE c == a.c
<1>1. /\ phase = "handling" /\ c # none /\ active' = active \ {a} /\ phase' = phase /\ functors' = functors
  BY Zenon DEF Handle
<1>2. /\ c \in Conns /\ Live(c) /\ conn[c].inMap /\ ~ In(<<"forceClose", c>>, queue)
  <2>1. a \in Event /\ MaxConns \in Nat
    BY TcpServerAssumption DEF Inv, TypeInv
  <2>2. a.c \in 0 .. MaxConns
    BY <2>1 DEF Event
  <2>3. a.c \in Conns
    BY ONLY <1>1, <2>1, <2>2 DEF Conns, none
  <2>4. Reported /\ a \in active
    BY ONLY Inv, a \in active DEF Inv
  <2>5. Live(a.c) /\ conn[a.c].inMap /\ ~ In(<<"forceClose", a.c>>, queue)
    BY ONLY <1>1, <2>4 DEF Reported
  <2> QED
    BY ONLY <2>3, <2>5
<1>3. PICK x : Handled(Work(c), x) /\ Commit(x)
  <2>1. /\ Work(c).c = conn[c] /\ Work(c).s = sock[c] /\ Work(c) \in W
    BY <1>2, WorkFields DEF Inv
  <2>2. sock[c].rx \in Nat /\ conn[c].out \in Nat
    BY <2>1, Fields
  <2>3. PICK r \in 1 .. (IF sock[c].rx > 0 THEN sock[c].rx ELSE 1), u \in UserCalls, k \in 0 .. MaxSend,
             l \in 1 .. (IF conn[c].out > 0 THEN conn[c].out ELSE 1) :
               Commit(HandleEvent(Work(c), a.ev, r, u, k, l))
    BY Zenon DEF Handle
  <2>4. r \in Nat /\ (sock[c].rx > 0 => r <= sock[c].rx)
    BY <2>2
  <2>5. l \in Nat \ {0} /\ (conn[c].out > 0 => l <= conn[c].out) /\ (conn[c].out = 0 => l = 1)
    BY <2>2
  <2>6. u \in AllCalls
    BY TcpServerAssumption
  <2>7. Quiet(Work(c))
    BY <1>2, WorkQuiet
  <2>8. Handled(Work(c), HandleEvent(Work(c), a.ev, r, u, k, l))
    BY ONLY <2>1, <2>4, <2>5, <2>6, <2>7, k \in 0 .. MaxSend, EventKeeps
  <2> QED
    BY <2>3, <2>8
<1> HIDE DEF c
<1>4. /\ conn' \in [Conns -> ConnRec] /\ sock' \in [Conns -> SockRec]
      /\ chan' \in [Fds -> 0 .. MaxConns] /\ queue' \in Seq(Functor)
      /\ conn'[c] = x.c /\ sock'[c] = x.s /\ conn'[c].obj = "live"
      /\ \A d \in Conns \ {c} : conn'[d] = conn[d] /\ sock'[d] = sock[d]
      /\ Each' /\ Mapped'
      /\ queue' = queue \o x.q /\ x.q \in Seq(Functor)
      /\ \A d \in Conns : sock[d].st = "backlog" => sock'[d].st = "backlog"
  BY ONLY Inv, <1>2, <1>3, HandledCommit
<1>5. x.id = c /\ (Open(x) \/ Closed(x))
  BY <1>2, <1>3, WorkFields DEF Handled, Same, Inv
<1>6. /\ \A d : In(<<"destroy", d>>, x.q) <=> d = c /\ ~ x.c.inMap
      /\ \A d : In(<<"forceClose", d>>, x.q) => d = c /\ x.c.inMap
      /\ \A d : Once(<<"forceClose", d>>, x.q)
  BY <1>5, HandledQueue
<1>7. queue \in Seq(Functor) /\ functors = <<>>
  BY <1>1 DEF Inv, TypeInv, Pending
<1>8. \A e : In(e, queue') <=> In(e, queue) \/ In(e, x.q)
  BY ONLY <1>4, <1>7, InConcat
<1>9. TypeInv'
  BY <1>1, <1>4 DEF Inv, TypeInv
<1>10. Pending'
  <2>0. Pending /\ \A e : ~ In(e, functors) /\ Once(e, functors)
    BY <1>7, InEmpty DEF Inv
  <2>1. \A d \in Conns : In(<<"destroy", d>>, queue) <=> conn[d].obj = "live" /\ ~ conn[d].inMap
    BY Zenon, <2>0 DEF Pending, Live
  <2>a. /\ conn'[c].obj = "live" /\ conn'[c].inMap = x.c.inMap
        /\ \A d \in Conns \ {c} : conn'[d] = conn[d]
    BY ONLY <1>4
  <2>2. \A d \in Conns : In(<<"destroy", d>>, queue') <=> conn'[d].obj = "live" /\ ~ conn'[d].inMap
    BY ONLY Zenon, <1>2, <2>a, <1>6, <1>8, <2>1
  <2>b. \A d \in Conns : In(<<"forceClose", d>>, queue) => conn[d].obj = "live" /\ conn[d].inMap
    BY <2>0 DEF Pending, Live
  <2>3. \A d \in Conns : In(<<"forceClose", d>>, queue') => conn'[d].obj = "live" /\ conn'[d].inMap
    BY ONLY <1>2, <2>a, <1>6, <1>8, <2>b
  <2>4. \A d \in Conns : Once(<<"forceClose", d>>, queue')
    <3> TAKE d \in Conns
    <3>1. Once(<<"forceClose", d>>, queue) /\ Once(<<"forceClose", d>>, x.q)
      BY <1>6, <2>0 DEF Pending
    <3>2. ~ In(<<"forceClose", d>>, queue) \/ ~ In(<<"forceClose", d>>, x.q)
      BY <1>2, <1>6
    <3> QED
      BY ONLY <1>4, <1>7, <3>1, <3>2, OnceConcat
  <2> QED
    BY <1>1, <1>7, <2>0, <2>2, <2>3, <2>4 DEF Pending, Live
<1>11. Reported'
  <2>0. Reported /\ TypeInv
    BY DEF Inv
  <2>1. \A b \in active' : b \in active /\ b.c # c
    BY <1>1, <2>0 DEF Reported, c
  <2>2. \A b \in active' : b.c # none => b.c \in Conns
    BY <2>0, <2>1, TcpServerAssumption DEF TypeInv, Event, Conns, none
  <2>3. \A b \in active' : b.c # none =>
          conn'[b.c].obj = "live" /\ conn'[b.c].inMap /\ ~ In(<<"forceClose", b.c>>, queue')
    <3> TAKE b \in active'
    <3>1. b.c # none => conn[b.c].obj = "live" /\ conn[b.c].inMap /\ ~ In(<<"forceClose", b.c>>, queue)
      BY <2>0, <2>1 DEF Reported, Live
    <3>2. b.c # none => conn'[b.c] = conn[b.c]
      BY ONLY <1>4, <2>1, <2>2, b \in active'
    <3>3. ~ In(<<"forceClose", b.c>>, x.q)
      BY ONLY <1>6, <2>1, b \in active'
    <3> QED
      BY ONLY <1>8, <3>1, <3>2, <3>3
  <2>4. \A b \in active' : b.c = none => \E d \in Conns : sock'[d].st = "backlog"
    BY <1>4, <2>0, <2>1 DEF Reported
  <2> QED
    BY <1>1, <2>0, <2>1, <2>3, <2>4 DEF Reported, Live
<1> QED
  BY <1>4, <1>9, <1>10, <1>11 DEF Inv

=============================================================================
