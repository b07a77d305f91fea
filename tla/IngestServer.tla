---------------------------- MODULE IngestServer ----------------------------
(***************************************************************************)
(* IngestServer on top of TcpServer: its connection and message callbacks,  *)
(* _groupByConn, and the chunks put into the ingest queue.  The map is      *)
(* keyed by the address of the TcpConnection, which the allocator hands out *)
(* again once a connection is freed.                                        *)
(***************************************************************************)
EXTENDS TcpServer

CONSTANTS
  Groups,      \* DeviceGroups of the configuration
  Ingestable,  \* those whose primary device has a TCP protocol and a layout
  Match(_),    \* ConfigDB::matchGroup: peer -> group, or nullptr
  nullptr, absent

\* What the configuration fixes about the constants.
IngestAssumption ==
  /\ Ingestable \subseteq Groups
  /\ nullptr \notin Groups /\ absent \notin Groups
  /\ \A p \in Peers : Match(p) \in Groups \cup {nullptr}

VARIABLES
  addr,   \* addr[c]: conn.get() of connection c, while it exists
  group,  \* _groupByConn: address -> group or nullptr, or absent
  chunks  \* history: what was enqueued, <<connection, group>> in order

ivars == <<vars, addr, group, chunks>>

IInit ==
  /\ Init /\ addr = [c \in Conns |-> none]
  /\ group = [a \in Fds |-> absent] /\ chunks = <<>>

\* onConnection with a new connection, and with one that is gone.
OnUp(g, c, a)   == [g EXCEPT ![a] = Match(sock[c].peer)]
OnDown(g, c, a) == [g EXCEPT ![a] = absent]

\* Mutant: onMessage knows only the bound group.
GroupOfBound(g, c, a) == IF g[a] \in Groups THEN g[a] ELSE nullptr

\* onMessage: the group bound to the connection, or a second look at the peer.
GroupOf(g, c, a) == IF g[a] \in Groups THEN g[a] ELSE Match(sock[c].peer)

OnData(x, c, a) ==
  LET gr == GroupOf(x.g, c, a)
  IN [g  |-> IF gr \in Groups THEN [x.g EXCEPT ![a] = gr] ELSE x.g,
      ch |-> IF gr \in Ingestable THEN Append(x.ch, <<c, gr>>) ELSE x.ch]

Callback(x, cb, c, a) ==
  CASE cb = "up"   -> [x EXCEPT !.g = OnUp(x.g, c, a)]
    [] cb = "down" -> [x EXCEPT !.g = OnDown(x.g, c, a)]
    [] cb = "msg"  -> OnData(x, c, a)

\* The callbacks of one step for connection c, in the order they are made.
RunCallbacks(c) ==
  LET new == SubSeq(log'[c], Len(log[c]) + 1, Len(log'[c]))
      after[i \in 0 .. Len(new)] ==
        IF i = 0 THEN [g |-> group, ch |-> chunks]
        ELSE Callback(after[i - 1], new[i], c, addr'[c])
  IN after[Len(new)]

FreeAddrs == Fds \ {addr[c] : c \in {d \in Conns : Live(d)}}

INext ==
  /\ Next
  /\ \/ UNCHANGED addr /\ \A c \in Conns : Live(c)' => Live(c)
     \/ \E c \in Conns : Live(c)' /\ ~Live(c) /\ \E a \in FreeAddrs : addr' = [addr EXCEPT ![c] = a]
  /\ IF phase' = "stopped" /\ phase # "stopped"
     THEN group' = [a \in Fds |-> absent] /\ UNCHANGED chunks        \* IngestServer::stop
     ELSE IF log' = log THEN UNCHANGED <<group, chunks>>
     ELSE LET c == CHOOSE d \in Conns : log'[d] # log[d]
          IN group' = RunCallbacks(c).g /\ chunks' = RunCallbacks(c).ch

ISpec == IInit /\ [][INext]_ivars

-----------------------------------------------------------------------------
\* A chunk goes to the group of the peer that sent it, although onMessage may run
\* after the disconnect callback and leave an entry behind, under an address that
\* the next connection gets.
RoutedByPeer == \A i \in DOMAIN chunks : chunks[i][2] = Match(sock[chunks[i][1]].peer)

\* Data of a peer that can be ingested is not dropped: each message callback of such
\* a connection enqueued a chunk, and no other connection did.
EveryMessageQueued ==
  \A c \in Conns :
    Cardinality({i \in DOMAIN chunks : chunks[i][1] = c}) =
      IF Match(sock[c].peer) \in Ingestable
      THEN Cardinality({i \in DOMAIN log[c] : log[c][i] = "msg"}) ELSE 0

=============================================================================
