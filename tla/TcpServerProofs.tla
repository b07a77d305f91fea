-------------------------- MODULE TcpServerProofs --------------------------
(***************************************************************************)
(* TLAPS proofs about TcpServer, for any number of connections, descriptors *)
(* and bytes: the poller's map follows the connections, a closed connection *)
(* is destroyed, and the FIN of a shutdown follows the output.  Handlers    *)
(* are in TcpHandlerProofs; here are the loop, the functors, the acceptor,  *)
(* the kernel and the server's end.                                         *)
(***************************************************************************)
EXTENDS TcpHandlerProofs, WellFoundedInduction

-----------------------------------------------------------------------------
\* The loop's bookkeeping around handlers and functors.
LEMMA LoopStep ==
  ASSUME Inv, Poll \/ TakeFunctors \/ FunctorsDone
  PROVE  Inv'
<1>0. TypeInv /\ Each /\ Mapped /\ Pending /\ Reported
  BY DEF Inv
<1>1. ASSUME Poll PROVE Inv'
  <2>1. /\ phase = "polling" /\ phase' = "handling"
        /\ active' = {[c |-> c, ev |-> Revents(c)] : c \in {d \in Conns : Revents(d) # {}}}
                     \cup (IF \E c \in Conns : sock[c].st = "backlog" THEN {[c |-> none, ev |-> {"IN"}]} ELSE {})
        /\ sock' = sock /\ conn' = conn /\ chan' = chan /\ queue' = queue /\ functors' = functors
    BY <1>1 DEF Poll
  <2>2. functors = <<>> /\ \A c \in Conns : ~ In(<<"forceClose", c>>, queue)
    BY <1>0, <2>1 DEF Pending
  <2>3. ASSUME NEW c \in Conns, Revents(c) # {} PROVE Live(c) /\ conn[c].inMap
    <3>1. conn[c].index = "kAdded"
      BY <2>3 DEF Revents
    <3>2. conn[c] \in ConnRec
      BY <1>0 DEF TypeInv
    <3>3. conn[c].obj = "live"
      BY <1>0, <3>1, <3>2 DEF Each, Life, NoConn, ConnRec
    <3>4. ~ In(<<"destroy", c>>, functors)
      BY <2>2, InEmpty
    <3> QED
      BY <1>0, <2>1, <3>1, <3>3, <3>4 DEF Pending, Live
  <2>4. \A c \in Conns : Revents(c) \in SUBSET {"IN", "OUT", "ERR", "HUP"}
    BY DEF Revents
  <2>5. none \notin Conns /\ Conns \subseteq 0 .. MaxConns /\ none \in 0 .. MaxConns
    BY TcpServerAssumption DEF Conns, none
  <2>6. \A a \in active' : \/ a.c \in Conns /\ a = [c |-> a.c, ev |-> Revents(a.c)] /\ Revents(a.c) # {}
                           \/ a = [c |-> none, ev |-> {"IN"}] /\ \E c \in Conns : sock[c].st = "backlog"
    <3> SUFFICES ASSUME NEW a \in active'
                 PROVE  \/ a.c \in Conns /\ a = [c |-> a.c, ev |-> Revents(a.c)] /\ Revents(a.c) # {}
                        \/ a = [c |-> none, ev |-> {"IN"}] /\ \E c \in Conns : sock[c].st = "backlog"
      OBVIOUS
    <3>1. CASE a \in {[c |-> c, ev |-> Revents(c)] : c \in {d \in Conns : Revents(d) # {}}}
      <4>1. PICK d \in Conns : Revents(d) # {} /\ a = [c |-> d, ev |-> Revents(d)]
        BY Zenon, <3>1
      <4>2. a.c = d
        BY ONLY <4>1
      <4>3. a = [c |-> a.c, ev |-> Revents(a.c)]
        BY ONLY <4>1, <4>2
      <4> QED
        BY ONLY <4>1, <4>2, <4>3
    <3>2. CASE a \notin {[c |-> c, ev |-> Revents(c)] : c \in {d \in Conns : Revents(d) # {}}}
      BY Zenon, <2>1, <3>2
    <3> QED
      BY <3>1, <3>2
  <2>7. active' \in SUBSET Event
    BY <2>4, <2>5, <2>6 DEF Event
  <2>8. TypeInv'
    BY Zenon, <1>0, <2>1, <2>7 DEF TypeInv
  <2>9. Pending'
    BY <1>0, <2>1 DEF Pending, Live
  <2>10. Reported'
    <3>1. \A a \in active' : a.c # none => conn[a.c].obj = "live" /\ conn[a.c].inMap /\ ~ In(<<"forceClose", a.c>>, queue)
      BY <2>2, <2>3, <2>6 DEF Live
    <3>2. \A a, b \in active' : a.c = b.c => a = b
      BY <2>5, <2>6
    <3>3. \A a \in active' : a.c = none => \E c \in Conns : sock[c].st = "backlog"
      BY <2>5, <2>6
    <3> QED
      BY <2>1, <3>1, <3>2, <3>3 DEF Reported, Live
  <2>11. Each' /\ Mapped'
    BY <1>0, <2>1 DEF Each, Mapped, Live
  <2> QED
    BY <2>8, <2>9, <2>10, <2>11 DEF Inv
<1>2. ASSUME TakeFunctors PROVE Inv'
  <2>1. /\ phase = "handling" /\ active = {} /\ phase' = "running" /\ functors' = queue /\ queue' = <<>>
        /\ sock' = sock /\ conn' = conn /\ chan' = chan /\ active' = active
    BY <1>2 DEF TakeFunctors
  <2>2. TypeInv'
    BY <1>0, <2>1 DEF TypeInv
  <2>3. functors = <<>> /\ (\A e : ~ In(e, functors)) /\ \A e : ~ In(e, queue') /\ Once(e, queue')
    BY <1>0, <2>1, InEmpty DEF Pending
  <2>4. Pending'
    BY <1>0, <2>1, <2>3 DEF Pending, Live
  <2>5. Each' /\ Mapped' /\ Reported'
    BY <1>0, <2>1 DEF Each, Mapped, Reported, Live
  <2> QED
    BY <2>2, <2>4, <2>5 DEF Inv
<1>3. ASSUME FunctorsDone PROVE Inv'
  <2>1. /\ phase = "running" /\ functors = <<>> /\ phase' = "polling"
        /\ UNCHANGED <<sock, conn, chan, active, queue, functors>>
    BY <1>3 DEF FunctorsDone
  <2>2. TypeInv' /\ Each' /\ Mapped'
    BY <1>0, <2>1 DEF TypeInv, Each, Mapped, Live
  <2>3. Pending' /\ Reported'
    BY <1>0, <2>1 DEF Pending, Reported, Live
  <2> QED
    BY <2>2, <2>3 DEF Inv
<1> QED
  BY <1>1, <1>2, <1>3

\* The kernel changes neither the connections nor what the loop has to do.
LEMMA KernelStep ==
  ASSUME Inv, NEW c \in Conns, Packet(c) \/ PeerReads(c) \/ \E p \in Peers : Connect(c, p)
  PROVE  Inv'
<1>0. TypeInv /\ Each /\ Mapped /\ Pending /\ Reported
  BY DEF Inv
<1>1. UNCHANGED <<phase, conn, chan, active, queue, functors>>
  BY Zenon DEF Packet, PeerReads, Connect
<1>2. sock \in [Conns -> SockRec] /\ sock[c] \in SockRec /\ sock[c].rx \in Nat /\ sock[c].got \in Nat
  BY <1>0 DEF TypeInv, SockRec
<1>3. sock[c].rx + 1 \in Nat /\ sock[c].got + 1 \in Nat
  BY <1>2
<1>4. PICK s \in SockRec :
        /\ sock' = [sock EXCEPT ![c] = s]
        /\ s.finSent = sock[c].finSent /\ (sock[c].rst => s.rst)
        /\ s.st = sock[c].st \/ (sock[c].st = "none" /\ s.st = "backlog")
  <2>1. CASE Packet(c)
    <3>1. CASE sock' = [sock EXCEPT ![c].rx = @ + 1, ![c].got = @ + 1]
      <4> DEFINE s == [sock[c] EXCEPT !.rx = @ + 1, !.got = @ + 1]
      <4>1. sock' = [sock EXCEPT ![c] = s]
        BY Zenon, <1>2, <3>1 DEF SockRec
      <4>2. s \in SockRec /\ s.finSent = sock[c].finSent /\ s.rst = sock[c].rst /\ s.st = sock[c].st
        BY Zenon, <1>2, <1>3 DEF SockRec
      <4> QED
        BY Zenon, <4>1, <4>2
    <3>2. CASE sock' = [sock EXCEPT ![c].fin = TRUE]
      <4> DEFINE s == [sock[c] EXCEPT !.fin = TRUE]
      <4>1. sock' = [sock EXCEPT ![c] = s]
        BY Zenon, <3>2
      <4>2. s \in SockRec /\ s.finSent = sock[c].finSent /\ s.rst = sock[c].rst /\ s.st = sock[c].st
        BY Zenon, <1>2 DEF SockRec
      <4> QED
        BY Zenon, <4>1, <4>2
    <3>3. CASE sock' = [sock EXCEPT ![c].rst = TRUE]
      <4> DEFINE s == [sock[c] EXCEPT !.rst = TRUE]
      <4>1. sock' = [sock EXCEPT ![c] = s]
        BY Zenon, <3>3
      <4>2. s \in SockRec /\ s.finSent = sock[c].finSent /\ s.rst = TRUE /\ s.st = sock[c].st
        BY Zenon, <1>2 DEF SockRec
      <4> QED
        BY Zenon, <4>1, <4>2
    <3> QED
      BY Zenon, <2>1, <3>1, <3>2, <3>3 DEF Packet
  <2>2. CASE PeerReads(c)
    <3> DEFINE s == [sock[c] EXCEPT !.full = FALSE]
    <3>1. sock' = [sock EXCEPT ![c] = s]
      BY Zenon, <2>2 DEF PeerReads
    <3>2. s \in SockRec /\ s.finSent = sock[c].finSent /\ s.rst = sock[c].rst /\ s.st = sock[c].st
      BY Zenon, <1>2 DEF SockRec
    <3> QED
      BY Zenon, <3>1, <3>2
  <2>3. ASSUME NEW p \in Peers, Connect(c, p)
        PROVE  \E s \in SockRec : /\ sock' = [sock EXCEPT ![c] = s]
                                  /\ s.finSent = sock[c].finSent /\ (sock[c].rst => s.rst)
                                  /\ sock[c].st = "none" /\ s.st = "backlog"
    <3> DEFINE s == [sock[c] EXCEPT !.st = "backlog", !.peer = p]
    <3>1. sock' = [sock EXCEPT ![c] = s] /\ sock[c].st = "none"
      BY Zenon, <1>2, <2>3 DEF Connect, SockRec
    <3>2. s \in SockRec /\ s.finSent = sock[c].finSent /\ s.rst = sock[c].rst /\ s.st = "backlog"
      BY Zenon, <1>2 DEF SockRec
    <3> QED
      BY Zenon, <3>1, <3>2
  <2> QED
    BY Zenon, <2>1, <2>2, <2>3
<1>5. sock' \in [Conns -> SockRec] /\ sock'[c] = s /\ \A d \in Conns \ {c} : sock'[d] = sock[d]
  BY <1>2, <1>4
<1>6. \A d \in Conns : /\ sock'[d].finSent = sock[d].finSent /\ (sock[d].rst => sock'[d].rst)
                       /\ sock'[d].st = sock[d].st \/ (sock[d].st = "none" /\ sock'[d].st = "backlog")
  BY <1>4, <1>5
<1>7. TypeInv'
  BY <1>0, <1>1, <1>5 DEF TypeInv
<1>8. \A d \in Conns : Out(conn'[d], sock'[d]) /\ Life(conn'[d], sock'[d])
  <2> TAKE d \in Conns
  <2>1. Out(conn[d], sock[d]) /\ Life(conn[d], sock[d]) /\ conn'[d] = conn[d]
    BY <1>0, <1>1 DEF Each
  <2>2. Out(conn'[d], sock'[d])
    BY <1>6, <2>1 DEF Out
  <2>3. Life(conn'[d], sock'[d])
    BY <1>6, <2>1 DEF Life
  <2> QED
    BY <2>2, <2>3
<1>9. Mapped' /\ Pending'
  BY <1>0, <1>1 DEF Mapped, Pending, Live
<1>10. Reported'
  <2>1. \A d \in Conns : sock[d].st = "backlog" => sock'[d].st = "backlog"
    BY <1>6
  <2> QED
    BY <1>0, <1>1, <2>1 DEF Reported, Live
<1> QED
  BY <1>7, <1>8, <1>9, <1>10 DEF Inv, Each

\* A connection is alive through a functor when one of the two functors names it.
LEMMA Names ==
  ASSUME NEW s \in Seq(Functor), NEW c
  PROVE  (\E i \in DOMAIN s : s[i][2] = c) <=> In(<<"destroy", c>>, s) \/ In(<<"forceClose", c>>, s)
<1>1. \A i \in DOMAIN s : s[i] \in Functor
  BY ElementOfSeq, LenProperties
<1>2. \A e \in Functor : e = <<"destroy", e[2]>> \/ e = <<"forceClose", e[2]>>
  BY DEF Functor
<1> QED
  BY <1>1, <1>2 DEF In

\* A functor that forces a close.
LEMMA ForcedStep ==
  ASSUME Inv, NEW c \in Conns, phase = "running", functors # <<>>,
         Head(functors) = <<"forceClose", c>>, RunFunctor
  PROVE  Inv'
<1> DEFINE w == Work(c)
           x == HandleClose(w)
<1>0. TypeInv /\ Each /\ Mapped /\ Pending /\ Reported
  BY DEF Inv
<1>1. functors \in Seq(Functor) /\ queue \in Seq(Functor)
  BY <1>0 DEF TypeInv
<1>2. /\ Tail(functors) \in Seq(Functor)
      /\ \A e : In(e, functors) <=> e = <<"forceClose", c>> \/ In(e, Tail(functors))
      /\ \A e : Once(e, functors) => Once(e, Tail(functors)) /\ (e = <<"forceClose", c>> => ~ In(e, Tail(functors)))
  BY Zenon, <1>1, InTail
<1>3. conn[c].obj = "live" /\ Live(c) /\ conn[c].inMap
  BY Zenon, <1>0, <1>2 DEF Pending, Live
<1>4. Quiet(w)
  BY <1>3, WorkQuiet
<1>5. /\ w \in W /\ w.id = c /\ w.c = conn[c] /\ w.s = sock[c] /\ w.chan = chan /\ w.q = <<>>
  BY <1>0, WorkFields
<1>6. w.c.state \in {"kConnected", "kDisconnecting"} /\ w.c.index = "kAdded" /\ w.c.fd \in Fds
  BY <1>4 DEF Quiet, Base, Life
<1>7. Closed(x) /\ Same(w, x)
  BY <1>4, CloseKeeps
<1>8. x.c.index = "kDeleted" /\ x.id = c /\ x.q \in Seq(Functor)
  <2>1. x.id = w.id /\ x.c.index = IF w.c.index \in {"kNew", "kDeleted"} THEN "kAdded" ELSE "kDeleted"
    BY Zenon, <1>5, <1>6, CloseFields
  <2>2. x \in W
    BY <1>7 DEF Closed, Base
  <2> QED
    BY <1>5, <1>6, <2>1, <2>2, Fields
<1>9. phase' = phase /\ active' = active /\ functors' = Tail(functors)
      /\ Commit(Freed(x, Tail(functors) \o queue \o x.q))
  <2>1. Head(functors)[2] = c /\ Head(functors)[1] # "destroy"
    OBVIOUS
  <2>2. ForceCloseInLoop(w) = x
    BY Zenon, <1>6 DEF ForceCloseInLoop
  <2> QED
    BY Zenon, <2>1, <2>2 DEF RunFunctor
<1> HIDE DEF x, w
<1>10. /\ \A d : In(<<"destroy", d>>, x.q) <=> d = c
       /\ \A d : ~ In(<<"forceClose", d>>, x.q)
       /\ \A d : Once(<<"forceClose", d>>, x.q)
  <2>1. ~ x.c.inMap
    BY <1>7 DEF Closed
  <2> QED
    BY <1>7, <1>8, <2>1, HandledQueue
<1>11. Commit(x)
  <2>1. Tail(functors) \o queue \in Seq(Functor)
    BY ONLY <1>1, <1>2, ConcatProperties
  <2>2. (Tail(functors) \o queue) \o x.q \in Seq(Functor)
    BY ONLY <1>8, <2>1, ConcatProperties
  <2>3. In(<<"destroy", c>>, (Tail(functors) \o queue) \o x.q)
    BY ONLY Zenon, <1>8, <1>10, <2>1, InConcat
  <2>4. \E i \in DOMAIN ((Tail(functors) \o queue) \o x.q) : ((Tail(functors) \o queue) \o x.q)[i][2] = x.id
    BY ONLY Zenon, <1>8, <2>2, <2>3, Names
  <2>5. Freed(x, Tail(functors) \o queue \o x.q) = x
    BY Zenon, <2>4 DEF Freed
  <2> QED
    BY <1>9, <2>5
<1>12. Handled(Work(c), x)
  BY <1>7 DEF Handled, w
<1>13. /\ conn' \in [Conns -> ConnRec] /\ sock' \in [Conns -> SockRec]
       /\ chan' \in [Fds -> 0 .. MaxConns] /\ queue' \in Seq(Functor)
       /\ conn'[c] = x.c /\ sock'[c] = x.s /\ conn'[c].obj = "live"
       /\ \A d \in Conns \ {c} : conn'[d] = conn[d] /\ sock'[d] = sock[d]
       /\ Each' /\ Mapped'
       /\ queue' = queue \o x.q
       /\ \A d \in Conns : sock[d].st = "backlog" => sock'[d].st = "backlog"
  BY ONLY Inv, c \in Conns, <1>3, <1>11, <1>12, HandledCommit
<1>14. \A e : In(e, queue') <=> In(e, queue) \/ In(e, x.q)
  BY ONLY <1>1, <1>8, <1>13, InConcat
<1>15. TypeInv'
  BY <1>0, <1>2, <1>9, <1>13 DEF TypeInv
<1>16. Pending'
  <2>0. ~ conn'[c].inMap /\ conn'[c].index = "kDeleted"
    BY <1>7, <1>8, <1>13 DEF Closed
  <2>a. /\ \A d \in Conns : In(<<"destroy", d>>, functors') <=> In(<<"destroy", d>>, functors)
        /\ \A d \in Conns : In(<<"destroy", d>>, queue') <=> In(<<"destroy", d>>, queue) \/ d = c
        /\ \A d \in Conns : In(<<"forceClose", d>>, functors') => In(<<"forceClose", d>>, functors) /\ d # c
        /\ \A d \in Conns : ~ In(<<"forceClose", d>>, queue')
        /\ \A d \in Conns : Once(<<"forceClose", d>>, functors')
    <3>1. \A d \in Conns : In(<<"destroy", d>>, functors') <=> In(<<"destroy", d>>, functors)
      BY <1>2, <1>9
    <3>2. \A d \in Conns : In(<<"destroy", d>>, queue') <=> In(<<"destroy", d>>, queue) \/ d = c
      BY ONLY Zenon, <1>10, <1>14
    <3>3. \A d \in Conns : Once(<<"forceClose", d>>, functors) /\ ~ In(<<"forceClose", d>>, queue)
      BY Zenon, <1>0 DEF Pending
    <3>4. \A d \in Conns : In(<<"forceClose", d>>, functors') => In(<<"forceClose", d>>, functors) /\ d # c
      BY <1>2, <1>9, <3>3
    <3>5. \A d \in Conns : ~ In(<<"forceClose", d>>, queue')
      BY ONLY Zenon, <1>10, <1>14, <3>3
    <3>6. \A d \in Conns : Once(<<"forceClose", d>>, functors')
      BY Zenon, <1>2, <1>9, <3>3
    <3> QED
      BY <3>1, <3>2, <3>4, <3>5, <3>6
  <2>1. \A d \in Conns : In(<<"destroy", d>>, functors') \/ In(<<"destroy", d>>, queue')
                           <=> conn'[d].obj = "live" /\ ~ conn'[d].inMap
    <3>1. \A d \in Conns : In(<<"destroy", d>>, functors) \/ In(<<"destroy", d>>, queue)
                           <=> conn[d].obj = "live" /\ ~ conn[d].inMap
      BY Zenon, <1>0 DEF Pending, Live
    <3> QED
      BY ONLY Zenon, <1>3, <1>13, <2>0, <2>a, <3>1
  <2>2. \A d \in Conns : In(<<"forceClose", d>>, functors') \/ In(<<"forceClose", d>>, queue')
                           => conn'[d].obj = "live" /\ conn'[d].inMap
    <3>1. \A d \in Conns : In(<<"forceClose", d>>, functors) => conn[d].obj = "live" /\ conn[d].inMap
      BY <1>0 DEF Pending, Live
    <3> QED
      BY ONLY <1>13, <2>a, <3>1
  <2>3. \A d \in Conns : conn'[d].obj = "live" /\ ~ conn'[d].inMap =>
                           conn'[d].index # "kAdded" \/ In(<<"destroy", d>>, functors')
    <3>1. \A d \in Conns : conn[d].obj = "live" /\ ~ conn[d].inMap =>
                           conn[d].index # "kAdded" \/ In(<<"destroy", d>>, functors)
      BY <1>0 DEF Pending, Live
    <3> QED
      BY ONLY Zenon, <1>13, <2>0, <2>a, <3>1
  <2>4. \A d \in Conns : Once(<<"forceClose", d>>, queue')
    BY <2>a DEF Once, In
  <2> QED
    BY <1>9, <2>a, <2>1, <2>2, <2>3, <2>4 DEF Pending, Live
<1>17. Reported'
  <2>1. active = {} /\ active' = {} /\ phase' = "running"
    BY <1>0, <1>9 DEF Reported
  <2> QED
    BY ONLY <2>1 DEF Reported
<1> QED
  BY <1>13, <1>15, <1>16, <1>17 DEF Inv

\* A functor that destroys.
LEMMA DestroyStep ==
  ASSUME Inv, NEW c \in Conns, phase = "running", functors # <<>>,
         Head(functors) = <<"destroy", c>>, RunFunctor
  PROVE  Inv'
<1> DEFINE w == Work(c)
           y == Destroyed(w)
           fs == (Tail(functors) \o queue) \o y.q
           x == Freed(y, fs)
<1>0. TypeInv /\ Each /\ Mapped /\ Pending /\ Reported
  BY DEF Inv
<1>1. functors \in Seq(Functor) /\ queue \in Seq(Functor)
  BY <1>0 DEF TypeInv
<1>2. /\ Tail(functors) \in Seq(Functor)
      /\ \A e : In(e, functors) <=> e = <<"destroy", c>> \/ In(e, Tail(functors))
      /\ \A e : Once(e, functors) => Once(e, Tail(functors)) /\ (e = <<"destroy", c>> => ~ In(e, Tail(functors)))
  BY Zenon, <1>1, InTail
<1>3. conn[c].obj = "live" /\ ~ conn[c].inMap
  BY Zenon, <1>0, <1>2 DEF Pending, Live
<1>4. conn[c].state = "kDisconnected" /\ conn[c].fd \in Fds /\ Out(conn[c], sock[c])
      /\ sock[c].st \notin {"none", "backlog"}
  BY <1>0, <1>3 DEF Each, Life
<1>5. /\ w \in W /\ w.id = c /\ w.c = conn[c] /\ w.s = sock[c] /\ w.chan = chan /\ w.q = <<>>
  BY <1>0, WorkFields
<1>6. Commit(x) /\ phase' = phase /\ active' = active /\ functors' = Tail(functors)
  <2>1. Head(functors)[2] = c /\ Head(functors)[1] = "destroy"
    OBVIOUS
  <2> QED
    BY Zenon, <2>1 DEF RunFunctor
<1> HIDE DEF w
<1>7. /\ y \in W /\ y.id = c /\ y.s = sock[c] /\ y.q = <<>>
      /\ y.chan[conn[c].fd] = none /\ \A f \in Fds \ {conn[c].fd} : y.chan[f] = chan[f]
      /\ y.c.obj = "live" /\ y.c.index = "kNew" /\ y.c.fd = conn[c].fd /\ ~ y.c.inMap
      /\ y.c.state = "kDisconnected"
      /\ y.c.out = conn[c].out /\ y.c.accepted = conn[c].accepted /\ y.c.written = conn[c].written
  <2>1. /\ y \in W /\ y.id = w.id /\ y.s = w.s /\ y.q = w.q
        /\ y.chan[w.c.fd] = none /\ \A f \in Fds \ {w.c.fd} : y.chan[f] = w.chan[f]
        /\ y.c.obj = w.c.obj /\ y.c.index = "kNew" /\ y.c.fd = w.c.fd /\ y.c.inMap = w.c.inMap
        /\ y.c.state = IF w.c.state = "kConnected" THEN "kDisconnected" ELSE w.c.state
        /\ y.c.out = w.c.out /\ y.c.accepted = w.c.accepted /\ y.c.written = w.c.written
    BY Zenon, <1>4, <1>5, DestroyedFields
  <2> HIDE DEF y
  <2> QED
    BY ONLY <1>3, <1>4, <1>5, <2>1
<1> HIDE DEF y
<1>8. fs \in Seq(Functor) /\ (\A e : In(e, fs) <=> In(e, Tail(functors)) \/ In(e, queue))
  <2>1. Tail(functors) \o queue \in Seq(Functor)
        /\ (\A e : In(e, Tail(functors) \o queue) <=> In(e, Tail(functors)) \/ In(e, queue))
    BY ONLY Zenon, <1>1, <1>2, ConcatProperties, InConcat
  <2>2. y.q \in Seq(Functor) /\ \A e : ~ In(e, y.q)
    BY <1>7, Fields, InEmpty
  <2> QED
    BY ONLY Zenon, <2>1, <2>2, ConcatProperties, InConcat
<1> HIDE DEF fs
<1>9. (\E i \in DOMAIN fs : fs[i][2] = c) <=> In(<<"destroy", c>>, Tail(functors)) \/ In(<<"destroy", c>>, queue)
  <2>1. ~ In(<<"forceClose", c>>, functors) /\ ~ In(<<"forceClose", c>>, queue)
    BY <1>0, <1>3 DEF Pending, Live
  <2>2. (\E i \in DOMAIN fs : fs[i][2] = c) <=> In(<<"destroy", c>>, fs) \/ In(<<"forceClose", c>>, fs)
    BY ONLY <1>8, Names
  <2> QED
    BY ONLY <1>2, <1>8, <2>1, <2>2
<1> DEFINE held == In(<<"destroy", c>>, Tail(functors)) \/ In(<<"destroy", c>>, queue)
<1>10. /\ x \in W /\ x.id = c /\ x.chan = y.chan /\ x.q = <<>>
       /\ held => x.c.obj = "live" /\ x.s.st = sock[c].st
       /\ ~ held => x.c.obj = "freed" /\ x.s.st = "closed"
       /\ x.c.state = "kDisconnected" /\ x.c.index = "kNew" /\ x.c.fd = conn[c].fd /\ ~ x.c.inMap
       /\ x.c.out = conn[c].out /\ x.c.accepted = conn[c].accepted /\ x.c.written = conn[c].written
       /\ x.s.rst = sock[c].rst /\ x.s.finSent = sock[c].finSent
  <2> DEFINE has == \E i \in DOMAIN fs : fs[i][2] = y.id
  <2>1. /\ x \in W /\ x.id = y.id /\ x.chan = y.chan /\ x.q = y.q
        /\ has => x.c.obj = y.c.obj /\ x.s.st = y.s.st
        /\ ~ has => x.c.obj = "freed" /\ x.s.st = "closed"
        /\ x.c.state = y.c.state /\ x.c.index = y.c.index /\ x.c.fd = y.c.fd /\ x.c.inMap = y.c.inMap
        /\ x.c.out = y.c.out /\ x.c.accepted = y.c.accepted /\ x.c.written = y.c.written
        /\ x.s.rst = y.s.rst /\ x.s.finSent = y.s.finSent
    BY Zenon, <1>7, FreedFields
  <2>2. has <=> held
    BY <1>7, <1>9
  <2> HIDE DEF x, has, held
  <2> QED
    BY ONLY <1>7, <2>1, <2>2
<1> HIDE DEF x
<1>11. /\ conn' \in [Conns -> ConnRec] /\ sock' \in [Conns -> SockRec]
       /\ conn'[c] = x.c /\ sock'[c] = x.s
       /\ \A d \in Conns \ {c} : conn'[d] = conn[d] /\ sock'[d] = sock[d]
       /\ chan' = x.chan /\ chan' \in [Fds -> 0 .. MaxConns]
       /\ queue' = queue \o x.q
  BY Zenon, <1>0, <1>6, <1>10, CommitFields
<1>12. queue' = queue
  BY ONLY <1>1, <1>10, <1>11, ConcatEmptySeq
<1>13. TypeInv'
  BY <1>0, <1>1, <1>2, <1>6, <1>11, <1>12 DEF TypeInv
<1>14. Each'
  <2>1. Out(x.c, x.s)
    BY <1>4, <1>10 DEF Out
  <2>2. Life(x.c, x.s)
    BY <1>4, <1>10 DEF Life
  <2> QED
    BY <1>0, <1>11, <2>1, <2>2 DEF Each
<1>15. Mapped'
  <2>a. \A d \in Conns : conn'[d].obj = "live" => conn[d].obj = "live" /\ conn'[d].fd = conn[d].fd
    BY <1>3, <1>10, <1>11
  <2>1. \A d, e \in Conns : conn'[d].obj = "live" /\ conn'[e].obj = "live" /\ conn'[d].fd = conn'[e].fd => d = e
    BY ONLY <2>a, <1>0 DEF Mapped, Live
  <2>b. /\ chan'[conn[c].fd] = none /\ \A f \in Fds \ {conn[c].fd} : chan'[f] = chan[f]
    BY <1>7, <1>10, <1>11
  <2>2. ASSUME NEW d \in Conns, conn'[d].obj = "live", conn'[d].index # "kNew" PROVE chan'[conn'[d].fd] = d
    <3>1. d # c
      BY <1>10, <1>11, <2>2
    <3>2. conn'[d] = conn[d] /\ conn[d].obj = "live" /\ conn[d].index # "kNew" /\ conn[d].fd \in Fds
      BY <1>0, <1>11, <2>2, <3>1 DEF Each, Life
    <3>3. conn[d].fd # conn[c].fd /\ chan[conn[d].fd] = d
      BY <1>0, <1>3, <3>1, <3>2 DEF Mapped, Live
    <3> QED
      BY ONLY <2>b, <3>2, <3>3
  <2>3. ASSUME NEW f \in Fds, chan'[f] # none
        PROVE  chan'[f] \in Conns /\ conn'[chan'[f]].obj = "live" /\ conn'[chan'[f]].fd = f
               /\ conn'[chan'[f]].index # "kNew"
    <3>1. f # conn[c].fd /\ chan'[f] = chan[f] /\ chan[f] # none
      BY <2>b, <2>3
    <3>2. chan[f] \in Conns /\ conn[chan[f]].obj = "live" /\ conn[chan[f]].fd = f /\ conn[chan[f]].index # "kNew"
      BY <1>0, <3>1 DEF Mapped, Live
    <3>3. chan[f] # c
      BY <3>1, <3>2
    <3> QED
      BY ONLY <1>11, <3>1, <3>2, <3>3
  <2> QED
    BY <2>1, <2>2, <2>3 DEF Mapped, Live
<1>16. Pending'
  <2>a. \A d \in Conns : /\ In(<<"destroy", d>>, functors) <=> d = c \/ In(<<"destroy", d>>, Tail(functors))
                         /\ In(<<"forceClose", d>>, functors) <=> In(<<"forceClose", d>>, Tail(functors))
                         /\ Once(<<"forceClose", d>>, functors) => Once(<<"forceClose", d>>, Tail(functors))
    BY <1>2
  <2>b. conn'[c].obj = "live" <=> held
    BY <1>10, <1>11
  <2>c. ~ conn'[c].inMap /\ conn'[c].index = "kNew"
    BY <1>10, <1>11
  <2>1. \A d \in Conns : In(<<"destroy", d>>, functors') \/ In(<<"destroy", d>>, queue')
                           <=> conn'[d].obj = "live" /\ ~ conn'[d].inMap
    <3>1. \A d \in Conns : In(<<"destroy", d>>, functors) \/ In(<<"destroy", d>>, queue)
                           <=> conn[d].obj = "live" /\ ~ conn[d].inMap
      BY Zenon, <1>0 DEF Pending, Live
    <3> QED
      BY ONLY Zenon, <1>6, <1>11, <1>12, <2>a, <2>b, <2>c, <3>1
  <2>2. \A d \in Conns : In(<<"forceClose", d>>, functors') \/ In(<<"forceClose", d>>, queue')
                           => conn'[d].obj = "live" /\ conn'[d].inMap
    <3>1. \A d \in Conns : In(<<"forceClose", d>>, functors) \/ In(<<"forceClose", d>>, queue)
                             => conn[d].obj = "live" /\ conn[d].inMap
      BY <1>0 DEF Pending, Live
    <3> QED
      BY ONLY Zenon, <1>3, <1>6, <1>11, <1>12, <2>a, <3>1
  <2>3. \A d \in Conns : conn'[d].obj = "live" /\ ~ conn'[d].inMap =>
                           conn'[d].index # "kAdded" \/ In(<<"destroy", d>>, functors')
    <3>1. \A d \in Conns : conn[d].obj = "live" /\ ~ conn[d].inMap =>
                           conn[d].index # "kAdded" \/ In(<<"destroy", d>>, functors)
      BY <1>0 DEF Pending, Live
    <3> QED
      BY ONLY Zenon, <1>6, <1>11, <2>a, <2>c, <3>1
  <2>4. \A d \in Conns : /\ Once(<<"forceClose", d>>, functors') /\ Once(<<"forceClose", d>>, queue')
                         /\ ~ In(<<"forceClose", d>>, queue')
    BY Zenon, <1>0, <1>6, <1>12, <2>a DEF Pending
  <2> QED
    BY <1>6, <2>1, <2>2, <2>3, <2>4 DEF Pending, Live
<1>17. Reported'
  <2>1. active = {} /\ active' = {} /\ phase' = "running"
    BY <1>0, <1>6 DEF Reported
  <2> QED
    BY ONLY <2>1 DEF Reported
<1> QED
  BY <1>13, <1>14, <1>15, <1>16, <1>17 DEF Inv

\* doPendingFunctors runs one functor.
LEMMA FunctorStep ==
  ASSUME Inv, RunFunctor
  PROVE  Inv'
<1>1. phase = "running" /\ functors # <<>> /\ functors \in Seq(Functor)
  BY DEF RunFunctor, Inv, TypeInv
<1>2. Head(functors) \in Functor
  BY <1>1
<1>3. \E c \in Conns : Head(functors) = <<"destroy", c>> \/ Head(functors) = <<"forceClose", c>>
  BY <1>2 DEF Functor
<1> QED
  BY <1>1, <1>3, DestroyStep, ForcedStep

\* A set of numbers has a least one.
LEMMA Least ==
  ASSUME NEW S \in SUBSET Nat, S # {}
  PROVE  \E i \in S : \A j \in S : i <= j
<1> DEFINE R == OpToRel(<, Nat)
<1>1. \E i \in S : \A j \in S : ~ (<<j, i>> \in R)
  BY NatLessThanWellFounded, WFMin, Zenon
<1>2. \A i, j \in Nat : j < i => <<j, i>> \in R
  BY DEF OpToRel
<1> HIDE DEF R
<1>3. PICK i \in S : \A j \in S : ~ (<<j, i>> \in R)
  BY <1>1
<1>4. \A j \in S : ~ (j < i)
  BY <1>2, <1>3, Zenon
<1> QED
  BY <1>4

\* The acceptor takes a peer of the backlog, or has no descriptor for it.
LEMMA AcceptStep ==
  ASSUME Inv, Accept
  PROVE  Inv'
<1> DEFINE e == [c |-> none, ev |-> {"IN"}]
           B == {d \in Conns : sock[d].st = "backlog"}
           c == CHOOSE d \in Conns : sock[d].st = "backlog" /\ \A b \in Conns : sock[b].st = "backlog" => d <= b
           f == CHOOSE g \in FreeFds : \A h \in FreeFds : g <= h
           x == NewConnection(Work(c), f)
<1>0. TypeInv /\ Each /\ Mapped /\ Pending /\ Reported
  BY DEF Inv
<1>1. /\ phase = "handling" /\ phase' = phase /\ functors' = functors /\ e \in active /\ active' = active \ {e}
      /\ \/ FreeFds = {} /\ UNCHANGED <<conn, sock, chan, queue>>
         \/ FreeFds # {} /\ Commit(x)
  BY Zenon DEF Accept
<1>2. e.c = none
  OBVIOUS
<1>3. \A a \in active' : a \in active /\ a.c # none
  BY <1>0, <1>1, <1>2 DEF Reported
<1>4. CASE FreeFds = {} /\ UNCHANGED <<conn, sock, chan, queue>>
  <2>1. TypeInv' /\ Each' /\ Mapped'
    BY <1>0, <1>1, <1>4 DEF TypeInv, Each, Mapped, Live
  <2>2. Pending'
    BY <1>0, <1>1, <1>4 DEF Pending, Live
  <2>3. Reported'
    BY <1>0, <1>1, <1>3, <1>4 DEF Reported, Live
  <2> QED
    BY <2>1, <2>2, <2>3 DEF Inv
<1>5. CASE FreeFds # {} /\ Commit(x)
  <2>1. c \in Conns /\ sock[c].st = "backlog"
    <3>1. B # {} /\ B \in SUBSET Nat
      BY <1>0, <1>1, <1>2 DEF Reported, Conns
    <3>2. \E i \in B : \A j \in B : i <= j
      BY ONLY Zenon, <3>1, Least
    <3>3. \E d \in Conns : sock[d].st = "backlog" /\ \A b \in Conns : sock[b].st = "backlog" => d <= b
      BY ONLY <3>2
    <3> QED
      BY <3>3
  <2>2. f \in FreeFds
    <3>1. FreeFds \in SUBSET Nat
      BY DEF FreeFds, Fds
    <3>2. \E i \in FreeFds : \A j \in FreeFds : i <= j
      BY ONLY <1>5, <3>1, Least
    <3> QED
      BY <3>2
  <2> HIDE DEF c, f
  <2>3. f \in Fds /\ \A d \in Conns : conn[d].obj = "live" => conn[d].fd # f
    BY <2>2 DEF FreeFds
  <2>4. conn[c] = NoConn /\ conn[c].obj = "none" /\ ~ sock[c].finSent
    <3>1. conn[c].obj \in {"none", "live", "freed"}
      BY <1>0, <2>1 DEF TypeInv, ConnRec
    <3> QED
      BY <1>0, <2>1, <3>1 DEF Each, Life
  <2>5. Work(c) \in W /\ Work(c).id = c /\ Work(c).c = conn[c] /\ Work(c).s = sock[c]
        /\ Work(c).chan = chan /\ Work(c).q = <<>>
    BY <1>0, <2>1, WorkFields
  <2>6. /\ x \in W /\ x.id = c /\ x.q = <<>> /\ x.chan = [chan EXCEPT ![f] = c]
        /\ x.c.obj = "live" /\ x.s.st = "open" /\ x.c.inMap = TRUE /\ x.c.fd = f
        /\ x.c.events = {"IN"} /\ x.c.index = "kAdded" /\ x.c.state = "kConnected"
        /\ x.c.out = 0 /\ x.c.accepted = 0 /\ x.c.written = 0
        /\ x.s.rst = sock[c].rst /\ x.s.finSent = sock[c].finSent
    <3> DEFINE w == Work(c)
    <3>1. w \in W /\ w.c = NoConn
      BY Zenon, <2>4, <2>5
    <3>2. /\ x \in W /\ x.id = w.id /\ x.q = w.q /\ x.chan = [w.chan EXCEPT ![f] = w.id]
          /\ x.c.obj = "live" /\ x.s.st = "open" /\ x.c.inMap = TRUE /\ x.c.fd = f
          /\ x.c.events = {"IN"} /\ x.c.index = "kAdded" /\ x.c.state = "kConnected"
          /\ x.c.out = 0 /\ x.c.accepted = 0 /\ x.c.written = 0
          /\ x.s.rst = w.s.rst /\ x.s.finSent = w.s.finSent
      BY ONLY Zenon, <2>3, <3>1, NewFields
    <3> HIDE DEF x
    <3> QED
      BY ONLY <2>5, <3>2
  <2> HIDE DEF x
  <2>7. /\ conn' \in [Conns -> ConnRec] /\ sock' \in [Conns -> SockRec]
        /\ conn'[c] = x.c /\ sock'[c] = x.s
        /\ \A d \in Conns \ {c} : conn'[d] = conn[d] /\ sock'[d] = sock[d]
        /\ chan' = x.chan /\ chan' \in [Fds -> 0 .. MaxConns]
        /\ queue' = queue \o x.q
    BY Zenon, <1>0, <1>5, <2>6, CommitFields
  <2>8. queue' = queue
    BY <1>0, <2>6, <2>7, ConcatEmptySeq DEF TypeInv
  <2>9. TypeInv'
    BY <1>0, <1>1, <2>7, <2>8 DEF TypeInv
  <2>10. Each'
    <3>1. Out(x.c, x.s)
      BY <2>4, <2>6 DEF Out
    <3>2. Life(x.c, x.s)
      BY <2>3, <2>6 DEF Life
    <3> QED
      BY <1>0, <2>7, <3>1, <3>2 DEF Each
  <2>11. Mapped'
    <3>a. chan'[f] = c /\ \A g \in Fds \ {f} : chan'[g] = chan[g]
      BY <1>0, <2>3, <2>6, <2>7 DEF TypeInv
    <3>b. conn'[c].obj = "live" /\ conn'[c].fd = f /\ conn'[c].index = "kAdded"
      BY <2>6, <2>7
    <3>1. \A d, b \in Conns : conn'[d].obj = "live" /\ conn'[b].obj = "live" /\ conn'[d].fd = conn'[b].fd => d = b
      <4>1. \A d, b \in Conns : conn[d].obj = "live" /\ conn[b].obj = "live" /\ conn[d].fd = conn[b].fd => d = b
        BY <1>0 DEF Mapped, Live
      <4> QED
        BY ONLY <2>3, <2>7, <3>b, <4>1
    <3>2. ASSUME NEW d \in Conns, conn'[d].obj = "live", conn'[d].index # "kNew" PROVE chan'[conn'[d].fd] = d
      <4>1. CASE d = c
        BY <3>a, <3>b, <4>1
      <4>2. CASE d # c
        <5>1. conn'[d] = conn[d] /\ conn[d].obj = "live" /\ conn[d].index # "kNew"
          BY <2>7, <3>2, <4>2
        <5>2. conn[d].fd \in Fds \ {f} /\ chan[conn[d].fd] = d
          BY <1>0, <2>3, <5>1 DEF Each, Life, Mapped, Live
        <5> QED
          BY ONLY <3>a, <5>1, <5>2
      <4> QED
        BY <4>1, <4>2
    <3>3. ASSUME NEW g \in Fds, chan'[g] # none
          PROVE  chan'[g] \in Conns /\ conn'[chan'[g]].obj = "live" /\ conn'[chan'[g]].fd = g
                 /\ conn'[chan'[g]].index # "kNew"
      <4>1. CASE g = f
        BY <2>1, <3>a, <3>b, <4>1
      <4>2. CASE g # f
        <5>1. chan'[g] = chan[g] /\ chan[g] # none
          BY <3>3, <3>a, <4>2
        <5>2. chan[g] \in Conns /\ conn[chan[g]].obj = "live" /\ conn[chan[g]].fd = g /\ conn[chan[g]].index # "kNew"
          BY <1>0, <5>1 DEF Mapped, Live
        <5>3. chan[g] # c
          BY <2>4, <5>2
        <5> QED
          BY ONLY <2>7, <5>1, <5>2, <5>3
      <4> QED
        BY <4>1, <4>2
    <3> QED
      BY <3>1, <3>2, <3>3 DEF Mapped, Live
  <2>12. Pending'
    <3>1. conn'[c].obj = "live" /\ conn'[c].inMap /\ conn[c].obj # "live"
      BY <2>4, <2>6, <2>7
    <3>2. \A d \in Conns : In(<<"destroy", d>>, functors') \/ In(<<"destroy", d>>, queue')
                           <=> conn'[d].obj = "live" /\ ~ conn'[d].inMap
      <4>1. \A d \in Conns : In(<<"destroy", d>>, functors) \/ In(<<"destroy", d>>, queue)
                           <=> conn[d].obj = "live" /\ ~ conn[d].inMap
        BY Zenon, <1>0 DEF Pending, Live
      <4> QED
        BY ONLY Zenon, <1>1, <2>7, <2>8, <3>1, <4>1
    <3>3. \A d \in Conns : In(<<"forceClose", d>>, functors') \/ In(<<"forceClose", d>>, queue')
                             => conn'[d].obj = "live" /\ conn'[d].inMap
      <4>1. \A d \in Conns : In(<<"forceClose", d>>, functors) \/ In(<<"forceClose", d>>, queue)
                             => conn[d].obj = "live" /\ conn[d].inMap
        BY <1>0 DEF Pending, Live
      <4> QED
        BY ONLY <1>1, <2>7, <2>8, <3>1, <4>1
    <3> QED
      BY <1>0, <1>1, <2>8, <3>2, <3>3 DEF Pending, Live
  <2>13. Reported'
    <3>1. \A a \in active' : conn'[a.c].obj = "live" /\ conn'[a.c].inMap /\ ~ In(<<"forceClose", a.c>>, queue')
      <4> TAKE a \in active'
      <4>1. a \in active /\ a.c \in 0 .. MaxConns /\ a.c # none
        BY <1>0, <1>3 DEF TypeInv, Event
      <4>2. a.c \in Conns
        BY <4>1 DEF Conns, none
      <4>3. conn[a.c].obj = "live" /\ conn[a.c].inMap /\ ~ In(<<"forceClose", a.c>>, queue)
        BY <1>0, <4>1 DEF Reported, Live
      <4>4. a.c # c
        BY <2>4, <4>3
      <4> QED
        BY ONLY <2>7, <2>8, <4>2, <4>3, <4>4
    <3> QED
      BY <1>0, <1>1, <1>3, <3>1 DEF Reported, Live
  <2> QED
    BY <2>9, <2>10, <2>11, <2>12, <2>13 DEF Inv
<1> QED
  BY <1>1, <1>4, <1>5

\* The server is destroyed: the connections of its map are freed.
LEMMA StopStep ==
  ASSUME Inv, Stop
  PROVE  Inv'
<1> DEFINE held == {c \in Conns : conn[c].inMap}
           x(c) == Freed([Destroyed(Work(c)) EXCEPT !.c.inMap = FALSE], queue)
<1>0. TypeInv /\ Each /\ Mapped /\ Pending /\ Reported
  BY DEF Inv
<1>1. /\ phase = "polling" /\ phase' = "stopped"
      /\ conn' = [c \in Conns |-> IF c \in held THEN x(c).c ELSE conn[c]]
      /\ sock' = [c \in Conns |-> IF c \in held THEN x(c).s ELSE sock[c]]
      /\ chan' = [f \in Fds |-> IF chan[f] \in held THEN none ELSE chan[f]]
      /\ active' = active /\ queue' = queue /\ functors' = functors
  BY Zenon DEF Stop
<1>2. ASSUME NEW c \in held
      PROVE  /\ c \in Conns /\ conn[c].obj = "live"
             /\ x(c).c \in ConnRec /\ x(c).s \in SockRec
             /\ x(c).c.obj = "freed" /\ x(c).s.st = "closed" /\ x(c).c.index = "kNew" /\ x(c).c.inMap = FALSE
             /\ Out(x(c).c, x(c).s)
  <2>1. c \in Conns /\ conn[c].inMap
    BY <1>2
  <2>2. conn[c] \in ConnRec /\ Out(conn[c], sock[c]) /\ Life(conn[c], sock[c])
    BY <1>0, <2>1 DEF TypeInv, Each
  <2>3. conn[c].obj = "live"
    BY <2>1, <2>2 DEF Life, NoConn, ConnRec
  <2>4. conn[c].fd \in Fds
    BY <2>2, <2>3 DEF Life
  <2>5. Work(c) \in W /\ Work(c).id = c /\ Work(c).c = conn[c] /\ Work(c).s = sock[c]
    BY <1>0, <2>1, WorkFields
  <2>6. ~ \E i \in DOMAIN queue : queue[i][2] = c
    <3>1. ~ In(<<"destroy", c>>, queue) /\ ~ In(<<"forceClose", c>>, queue)
      BY <1>0, <1>1, <2>1 DEF Pending
    <3>2. queue \in Seq(Functor)
      BY <1>0 DEF TypeInv
    <3> QED
      BY ONLY <3>1, <3>2, Names
  <2> DEFINE w == Work(c)
             y == Freed(Dropped(Destroyed(w)), queue)
  <2>7. w \in W /\ w.c.fd \in Fds /\ ~ \E i \in DOMAIN queue : queue[i][2] = w.id
    BY <2>4, <2>5, <2>6
  <2> HIDE DEF w
  <2>8. /\ y.c \in ConnRec /\ y.s \in SockRec
        /\ y.c.obj = "freed" /\ y.s.st = "closed" /\ y.c.index = "kNew" /\ y.c.inMap = FALSE
        /\ y.c.state = IF w.c.state = "kConnected" THEN "kDisconnected" ELSE w.c.state
        /\ y.c.out = w.c.out /\ y.c.accepted = w.c.accepted /\ y.c.written = w.c.written
        /\ y.s.rst = w.s.rst /\ y.s.finSent = w.s.finSent
    BY Zenon, <2>7, HeldFields
  <2> HIDE DEF y
  <2>9. Out(y.c, y.s)
    BY <2>2, <2>5, <2>8 DEF Out, w
  <2>10. x(c) = y
    BY Zenon DEF y, w, Dropped
  <2> HIDE DEF x
  <2> QED
    BY <2>1, <2>3, <2>8, <2>9, <2>10
<1> HIDE DEF x
<1>3. /\ \A c \in held : conn'[c] = x(c).c /\ sock'[c] = x(c).s
      /\ \A c \in Conns \ held : conn'[c] = conn[c] /\ sock'[c] = sock[c]
      /\ held \subseteq Conns /\ none \notin held
  <2>1. held \subseteq Conns
    OBVIOUS
  <2>2. none \notin held
    BY <2>1 DEF Conns, none
  <2> HIDE DEF held
  <2> QED
    BY ONLY <1>1, <2>1, <2>2
<1>4. TypeInv'
  <2>1. conn' \in [Conns -> ConnRec] /\ sock' \in [Conns -> SockRec]
    BY Zenon, <1>0, <1>1, <1>2 DEF TypeInv
  <2>2. chan' \in [Fds -> 0 .. MaxConns]
    BY <1>0, <1>1, TcpServerAssumption DEF TypeInv, none
  <2> QED
    BY <1>0, <1>1, <2>1, <2>2 DEF TypeInv
<1>5. \A c \in held : conn[c].obj = "live" /\ conn'[c].obj = "freed" /\ ~ conn'[c].inMap /\ conn'[c].index = "kNew"
  <2> TAKE c \in held
  <2>1. /\ conn[c].obj = "live" /\ x(c).c.obj = "freed" /\ x(c).c.index = "kNew" /\ x(c).c.inMap = FALSE
    BY Zenon, <1>2
  <2>2. conn'[c] = x(c).c
    BY <1>3
  <2> QED
    BY ONLY <2>1, <2>2
<1>6. Each'
  <2>1. ASSUME NEW c \in held PROVE Out(conn'[c], sock'[c]) /\ Life(conn'[c], sock'[c])
    <3>1. conn'[c] = x(c).c /\ sock'[c] = x(c).s
      BY <1>3
    <3>2. x(c).c.obj = "freed" /\ x(c).s.st = "closed" /\ x(c).c.index = "kNew" /\ x(c).c.inMap = FALSE
          /\ Out(x(c).c, x(c).s)
      BY Zenon, <1>2
    <3>3. Life(x(c).c, x(c).s)
      BY <3>2 DEF Life
    <3> QED
      BY ONLY <3>1, <3>2, <3>3
  <2>2. ASSUME NEW c \in Conns \ held PROVE Out(conn'[c], sock'[c]) /\ Life(conn'[c], sock'[c])
    BY <1>0, <1>3 DEF Each
  <2> QED
    BY <1>3, <2>1, <2>2 DEF Each
<1>7. Mapped'
  <2>a. \A d \in Conns : conn'[d].obj = "live" => d \notin held /\ conn'[d] = conn[d] /\ conn[d].obj = "live"
    BY <1>3, <1>5
  <2>1. \A d, e \in Conns : conn'[d].obj = "live" /\ conn'[e].obj = "live" /\ conn'[d].fd = conn'[e].fd => d = e
    BY ONLY <2>a, <1>0 DEF Mapped, Live
  <2>b. \A f \in Fds : chan'[f] = IF chan[f] \in held THEN none ELSE chan[f]
    BY <1>1
  <2>2. ASSUME NEW d \in Conns, conn'[d].obj = "live", conn'[d].index # "kNew" PROVE chan'[conn'[d].fd] = d
    <3>1. d \notin held /\ conn'[d] = conn[d] /\ conn[d].obj = "live" /\ conn[d].index # "kNew"
      BY <2>2, <2>a
    <3>2. conn[d].fd \in Fds /\ chan[conn[d].fd] = d
      BY <1>0, <3>1 DEF Each, Life, Mapped, Live
    <3> QED
      BY ONLY <2>b, <3>1, <3>2
  <2>3. ASSUME NEW f \in Fds, chan'[f] # none
        PROVE  chan'[f] \in Conns /\ conn'[chan'[f]].obj = "live" /\ conn'[chan'[f]].fd = f
               /\ conn'[chan'[f]].index # "kNew"
    <3>1. chan[f] \notin held /\ chan'[f] = chan[f] /\ chan[f] # none
      BY ONLY <2>3, <2>b
    <3>2. chan[f] \in Conns /\ conn[chan[f]].obj = "live" /\ conn[chan[f]].fd = f /\ conn[chan[f]].index # "kNew"
      BY <1>0, <3>1 DEF Mapped, Live
    <3>3. conn'[chan[f]] = conn[chan[f]]
      BY ONLY <1>3, <3>1, <3>2
    <3> QED
      BY ONLY <3>1, <3>2, <3>3
  <2> QED
    BY <2>1, <2>2, <2>3 DEF Mapped, Live
<1>8. Pending'
  <2>a. \A d \in Conns : /\ conn'[d].obj = "live" /\ ~ conn'[d].inMap <=> conn[d].obj = "live" /\ ~ conn[d].inMap
                         /\ conn[d].obj = "live" /\ ~ conn[d].inMap => conn'[d] = conn[d]
    BY <1>3, <1>5
  <2>b. functors = <<>> /\ \A d \in Conns : ~ In(<<"forceClose", d>>, queue)
    BY <1>0, <1>1 DEF Pending
  <2>c. \A d \in Conns : ~ In(<<"forceClose", d>>, functors)
    BY Zenon, <2>b, InEmpty
  <2>1. \A d \in Conns : In(<<"destroy", d>>, functors') \/ In(<<"destroy", d>>, queue')
                           <=> conn'[d].obj = "live" /\ ~ conn'[d].inMap
    BY Zenon, <1>0, <1>1, <2>a DEF Pending, Live
  <2>2. \A d \in Conns : conn'[d].obj = "live" /\ ~ conn'[d].inMap =>
                           conn'[d].index # "kAdded" \/ In(<<"destroy", d>>, functors')
    BY <1>0, <1>1, <2>a DEF Pending, Live
  <2>3. \A d \in Conns : Once(<<"forceClose", d>>, functors') /\ Once(<<"forceClose", d>>, queue')
    BY Zenon, <1>0, <1>1 DEF Pending
  <2> QED
    BY <1>1, <2>b, <2>c, <2>1, <2>2, <2>3 DEF Pending, Live
<1>9. Reported'
  <2>1. active' = {}
    BY <1>0, <1>1 DEF Reported
  <2> QED
    BY ONLY <2>1 DEF Reported
<1> QED
  BY <1>4, <1>6, <1>7, <1>8, <1>9 DEF Inv

\* A server without connections.
LEMMA InvInit == Init => Inv
<1> SUFFICES ASSUME Init PROVE Inv
  OBVIOUS
<1>1. NoConn \in ConnRec /\ NoSock \in SockRec
  <2>1. none \in 0 .. NFds
    BY TcpServerAssumption DEF none
  <2> DEFINE q == CHOOSE p \in Peers : TRUE
             r == [st |-> "none", peer |-> q, rx |-> 0, got |-> 0,
                   fin |-> FALSE, rst |-> FALSE, finSent |-> FALSE, full |-> FALSE]
  <2>2. NoSock = r
    BY DEF NoSock
  <2> HIDE DEF q
  <2>3. NoSock.peer = q
    BY <2>2
  <2>4. r \in SockRec
    BY <2>3 DEF SockRec
  <2>5. NoSock \in SockRec
    BY ONLY <2>2, <2>4
  <2> QED
    BY <2>1, <2>5 DEF NoConn, ConnRec
<1>2. none \in 0 .. MaxConns /\ \A e : ~ In(e, <<>>) /\ Once(e, <<>>)
  BY TcpServerAssumption, InEmpty DEF none
<1>3. TypeInv
  BY <1>1, <1>2 DEF Init, TypeInv
<1>4. NoConn.obj = "none" /\ NoConn.out = 0 /\ NoConn.accepted = 0 /\ NoConn.written = 0
      /\ NoSock.st = "none" /\ NoSock.finSent = FALSE
  BY DEF NoConn, NoSock
<1>5. Each
  <2>1. Out(NoConn, NoSock) /\ Life(NoConn, NoSock)
    BY <1>4 DEF Out, Life
  <2> QED
    BY <2>1 DEF Init, Each
<1>6. \A c \in Conns : conn[c].obj # "live"
  BY <1>4 DEF Init
<1>7. Mapped
  BY <1>6 DEF Init, Mapped, Live
<1>8. Pending /\ Reported
  BY <1>2, <1>6 DEF Init, Pending, Reported, Live
<1> QED
  BY <1>3, <1>5, <1>7, <1>8 DEF Inv

\* Every step of the loop, of the kernel and of the server's end keeps the invariant.
LEMMA InvStep == Inv /\ [Next]_vars => Inv'
<1> SUFFICES ASSUME Inv, [Next]_vars PROVE Inv'
  OBVIOUS
<1>1. CASE Poll \/ TakeFunctors \/ FunctorsDone
  BY <1>1, LoopStep
<1>2. CASE Accept
  BY <1>2, AcceptStep
<1>3. ASSUME NEW a \in active, Handle(a) PROVE Inv'
  BY <1>3, HandleStep
<1>4. CASE RunFunctor
  BY <1>4, FunctorStep
<1>5. CASE Stop
  BY <1>5, StopStep
<1>6. ASSUME NEW c \in Conns, Packet(c) \/ PeerReads(c) \/ \E p \in Peers : Connect(c, p) PROVE Inv'
  BY <1>6, KernelStep
<1>7. CASE UNCHANGED vars
  <2>1. UNCHANGED <<phase, sock, conn, chan, active, queue, functors>>
    BY <1>7 DEF vars
  <2>2. TypeInv' /\ Each' /\ Mapped'
    BY <2>1 DEF Inv, TypeInv, Each, Mapped, Live
  <2>3. Pending' /\ Reported'
    BY <2>1 DEF Inv, Pending, Reported, Live
  <2> QED
    BY <2>2, <2>3 DEF Inv
<1> QED
  BY Zenon, <1>1, <1>2, <1>3, <1>4, <1>5, <1>6, <1>7 DEF Next, Loop

\* The invariant holds in every state of every behaviour.
THEOREM ConnectionInvariant == Spec => []Inv
<1> QED
  BY InvInit, InvStep, PTL DEF Spec

\* The owner of a descriptor is unique, so the map is the one that the channels tell.
LEMMA MapFollows == Inv => PollerMapExact
<1> SUFFICES ASSUME Inv, NEW f \in Fds
             PROVE  chan[f] = LET owners == {c \in Conns : Live(c) /\ conn[c].fd = f /\ conn[c].index # "kNew"}
                              IN IF owners = {} THEN none ELSE CHOOSE c \in owners : owners = {c}
  BY DEF PollerMapExact
<1> DEFINE owners == {c \in Conns : Live(c) /\ conn[c].fd = f /\ conn[c].index # "kNew"}
<1>1. \A c \in owners : chan[f] = c
  BY DEF Inv, Mapped
<1>2. chan[f] # none => chan[f] \in owners
  BY DEF Inv, Mapped
<1>3. none \notin owners
  BY DEF Conns, none
<1> HIDE DEF owners
<1>4. CASE owners = {}
  BY <1>2, <1>4 DEF owners
<1>5. CASE owners # {}
  <2>1. chan[f] \in owners /\ owners = {chan[f]}
    BY <1>1, <1>5
  <2>2. \A c \in owners : owners = {c} => c = chan[f]
    BY <2>1
  <2>3. (CHOOSE c \in owners : owners = {c}) = chan[f]
    BY <2>1, <2>2
  <2> QED
    BY Zenon, <1>5, <2>3 DEF owners
<1> QED
  BY <1>4, <1>5

\* A connection out of the server's map waits for its functor.
LEMMA ClosedAreQueued == Inv => ClosedIsDestroyed
<1> SUFFICES ASSUME Inv, NEW c \in Conns, conn[c].obj = "live"
             PROVE  \/ conn[c].inMap /\ conn[c].state \in {"kConnected", "kDisconnecting"}
                    \/ ~conn[c].inMap /\ conn[c].state = "kDisconnected"
                       /\ \E i \in DOMAIN (queue \o functors) : (queue \o functors)[i] = <<"destroy", c>>
  BY Zenon DEF ClosedIsDestroyed, Live
<1>1. Life(conn[c], sock[c]) /\ queue \in Seq(Functor) /\ functors \in Seq(Functor)
  BY DEF Inv, Each, TypeInv
<1>2. CASE conn[c].inMap
  BY <1>1, <1>2 DEF Life
<1>3. CASE ~ conn[c].inMap
  <2>1. In(<<"destroy", c>>, functors) \/ In(<<"destroy", c>>, queue)
    BY <1>3 DEF Inv, Pending, Live
  <2>2. In(<<"destroy", c>>, queue \o functors)
    BY ONLY <1>1, <2>1, InConcat
  <2>3. conn[c].state = "kDisconnected"
    BY <1>1, <1>3 DEF Life
  <2> QED
    BY <1>3, <2>2, <2>3 DEF In
<1> QED
  BY <1>2, <1>3

\* Output is pending while the write event is on, and none after the FIN.
LEMMA OutputFollows == Inv => WritingIffPending /\ ShutdownAfterOutput
<1> SUFFICES ASSUME Inv PROVE WritingIffPending /\ ShutdownAfterOutput
  OBVIOUS
<1>1. \A c \in Conns : Out(conn[c], sock[c])
  BY DEF Inv, Each
<1>2. WritingIffPending
  BY <1>1 DEF WritingIffPending, Out, Live
<1>3. ASSUME NEW c \in Conns, sock[c].finSent, ~ sock[c].rst PROVE conn[c].written = conn[c].accepted
  <2>1. conn[c].written \in Nat /\ conn[c].out = 0 /\ conn[c].accepted = conn[c].written + conn[c].out
    <3>1. conn[c] \in ConnRec
      BY DEF Inv, TypeInv
    <3>2. conn[c].written \in Nat
      BY <3>1 DEF ConnRec
    <3>3. conn[c].out = 0 /\ conn[c].accepted = conn[c].written + conn[c].out
      BY <1>1, <1>3 DEF Out
    <3> QED
      BY <3>2, <3>3
  <2> QED
    BY ONLY <2>1
<1> QED
  BY <1>2, <1>3 DEF ShutdownAfterOutput

\* For any number of connections, descriptors and bytes: the poller's map is that of
\* the registered channels, and a closed connection has its destruction queued.
THEOREM ConnectionsAreTracked == Spec => []ConnectionsTracked
<1>1. Inv => ConnectionsTracked
  BY MapFollows, ClosedAreQueued DEF ConnectionsTracked
<1> QED
  BY <1>1, ConnectionInvariant, PTL

\* For any number of connections, descriptors and bytes: the write event is on while
\* output is pending, and the FIN follows the output.
THEOREM FinFollowsOutput == Spec => []OutputBeforeFin
<1>1. Inv => OutputBeforeFin
  BY OutputFollows DEF OutputBeforeFin
<1> QED
  BY <1>1, ConnectionInvariant, PTL

=============================================================================
