---------------------------- MODULE ModbusPoller ----------------------------
(***************************************************************************)
(* ModbusPoller.cpp: one thread per polled device keeps a link to it,      *)
(* sends a request per interval and throws away what comes back; stop()    *)
(* runs in the main thread.  What the code does under a session's mutex is *)
(* one step, except the send, which may block while it holds it.           *)
(* Descriptors are numbers that the kernel reuses.                         *)
(***************************************************************************)
EXTENDS Integers, FiniteSets

CONSTANTS
  Sessions,     \* the polled devices
  Fds,          \* descriptor numbers
  TidLimit,     \* 0xFF: the transaction id is reset when it gets there
  MaxPush,      \* what a device sends back on one link
  invalid       \* INVALID_TCP_SOCKET

VARIABLES
  running,      \* "on" or "off"
  main,         \* where stop() is: "up", "shut", "join", "stopped"
  shut,         \* sessions whose link stop() has shut
  pc, fd, mx,   \* session -> thread's place, s->fd, who holds s->mx
  my,           \* session -> the thread's own copy of a descriptor
  tid, req,     \* session -> next transaction id, id of the last request built
  owner,        \* descriptor -> the session that opened it, or invalid
  inbox         \* descriptor -> [n: segments to read, eof: the peer closed, left: may still come]

vars == <<running, main, shut, pc, fd, mx, my, tid, req, owner, inbox>>

NoLink == [n |-> 0, eof |-> FALSE, left |-> MaxPush]

\* start(): the sessions exist and their threads run.
Init ==
  /\ running = "on" /\ main = "up" /\ shut = {}
  /\ pc = [s \in Sessions |-> "loop"] /\ fd = [s \in Sessions |-> invalid]
  /\ mx = [s \in Sessions |-> "free"] /\ my = [s \in Sessions |-> invalid]
  /\ tid = [s \in Sessions |-> 1] /\ req = [s \in Sessions |-> 0]
  /\ owner = [f \in Fds |-> invalid] /\ inbox = [f \in Fds |-> NoLink]

Goto(s, l) == pc' = [pc EXCEPT ![s] = l]
stopVars == <<running, main, shut>>
reqVars  == <<tid, req>>
linkVars == <<owner, inbox>>

\* Mutant: the descriptor is closed but stays in the session.
CloseKeepsFd(s) == fd' = fd /\ owner' = [f \in Fds |-> IF f = fd[s] THEN invalid ELSE owner[f]]

\* TcpClient::close of s->fd, if it is valid; the caller may hold or take the mutex.
Close(s) ==
  /\ fd' = [fd EXCEPT ![s] = invalid]
  /\ owner' = [f \in Fds |-> IF f = fd[s] THEN invalid ELSE owner[f]]

-----------------------------------------------------------------------------
\* runDevice: the head of the loop.
Loop(s) ==
  /\ pc[s] = "loop" /\ Goto(s, IF running = "on" THEN "look" ELSE "end")
  /\ UNCHANGED <<stopVars, fd, mx, my, reqVars, linkVars>>

Look(s) ==
  /\ pc[s] = "look" /\ mx[s] = "free"
  /\ Goto(s, IF fd[s] # invalid THEN "test" ELSE "connect")
  /\ UNCHANGED <<stopVars, fd, mx, my, reqVars, linkVars>>

\* nonBlockingConnect fails or times out: back off, for a time that is not modelled.
ConnectFails(s) ==
  /\ pc[s] = "connect" /\ Goto(s, "sleep")
  /\ UNCHANGED <<stopVars, fd, mx, my, reqVars, linkVars>>

NonBlockingConnect(s) ==
  /\ pc[s] = "connect" /\ Goto(s, "install")
  /\ \E f \in Fds :
       /\ owner[f] = invalid /\ owner' = [owner EXCEPT ![f] = s]
       /\ my' = [my EXCEPT ![s] = f] /\ inbox' = [inbox EXCEPT ![f] = NoLink]
  /\ UNCHANGED <<stopVars, fd, mx, tid, req>>

Install(s) ==
  /\ pc[s] = "install" /\ mx[s] = "free" /\ Goto(s, "test")
  /\ fd' = [fd EXCEPT ![s] = my[s]]
  /\ UNCHANGED <<stopVars, mx, my, reqVars, linkVars>>

\* buildRequest: the id of the request and the next one.
BuildRequest(t) == LET u == IF t = TidLimit THEN 1 ELSE t IN <<u, u + 1>>

\* The second look at _running, and the request.
Test(s) ==
  /\ pc[s] = "test" /\ Goto(s, IF running = "on" THEN "send" ELSE "end")
  /\ req' = [req EXCEPT ![s] = IF running = "on" THEN BuildRequest(tid[s])[1] ELSE @]
  /\ tid' = [tid EXCEPT ![s] = IF running = "on" THEN BuildRequest(tid[s])[2] ELSE @]
  /\ UNCHANGED <<stopVars, fd, mx, my, linkVars>>

\* sendAll, under the mutex; an invalid descriptor sends nothing.
Send(s) ==
  /\ pc[s] = "send" /\ mx[s] = "free"
  /\ IF fd[s] # invalid THEN Goto(s, "sending") /\ mx' = [mx EXCEPT ![s] = "thread"]
     ELSE Goto(s, "failed") /\ UNCHANGED mx
  /\ UNCHANGED <<stopVars, fd, my, reqVars, linkVars>>

\* It returns: all 12 bytes sent, or fewer after an error or the send timeout.
Sent(s) ==
  /\ pc[s] = "sending" /\ mx' = [mx EXCEPT ![s] = "free"]
  /\ Goto(s, "drain") \/ Goto(s, "failed")
  /\ UNCHANGED <<stopVars, fd, my, reqVars, linkVars>>

\* closeSession after a failed send, after the end of the stream, and at the end.
CloseSession(s) ==
  /\ pc[s] \in {"failed", "eof", "end"} /\ mx[s] = "free"
  /\ Goto(s, IF pc[s] = "end" THEN "done" ELSE "sleep")
  /\ Close(s)
  /\ UNCHANGED <<stopVars, mx, my, reqVars, inbox>>

\* drainIncoming: copy the descriptor under the mutex, then use it without.
DrainCopy(s) ==
  /\ pc[s] = "drain" /\ mx[s] = "free"
  /\ my' = [my EXCEPT ![s] = fd[s]]
  /\ Goto(s, IF fd[s] = invalid THEN "sleep" ELSE "select")
  /\ UNCHANGED <<stopVars, fd, mx, reqVars, linkVars>>

\* select with no timeout: an error or nothing to read ends the drain.
Select(s) ==
  /\ pc[s] = "select"
  /\ Goto(s, IF owner[my[s]] # invalid /\ (inbox[my[s]].n > 0 \/ inbox[my[s]].eof)
             THEN "recv" ELSE "sleep")
  /\ UNCHANGED <<stopVars, fd, mx, my, reqVars, linkVars>>

\* recv blocks when there is nothing to read, as on a descriptor that was closed and
\* reused since select.
Recv(s) ==
  /\ pc[s] = "recv"
  /\ LET f == my[s] IN
     IF owner[f] # invalid /\ inbox[f].n > 0
     THEN Goto(s, "drain") /\ inbox' = [inbox EXCEPT ![f].n = @ - 1]
     ELSE /\ Goto(s, IF owner[f] = invalid \/ inbox[f].eof THEN "eof" ELSE "blocked")
          /\ UNCHANGED inbox
  /\ UNCHANGED <<stopVars, fd, mx, my, reqVars, owner>>

\* sleepMs returns, after its time or because of stop.
SleepMs(s) ==
  /\ pc[s] = "sleep" /\ Goto(s, "loop")
  /\ UNCHANGED <<stopVars, fd, mx, my, reqVars, linkVars>>

Thread(s) ==
  \/ Loop(s) \/ Look(s) \/ ConnectFails(s) \/ NonBlockingConnect(s) \/ Install(s) \/ Test(s)
  \/ Send(s) \/ Sent(s) \/ CloseSession(s) \/ DrainCopy(s) \/ Select(s) \/ Recv(s) \/ SleepMs(s)

-----------------------------------------------------------------------------
\* stop(): the flag, then each link in turn under its mutex, shut down (which wakes
\* who reads from it) and closed, then the threads.
StopFlag ==
  /\ main = "up" /\ main' = "shut" /\ running' = "off"
  /\ UNCHANGED <<shut, pc, fd, mx, my, reqVars, linkVars>>

StopShut(s) ==
  /\ main = "shut" /\ s \notin shut /\ mx[s] = "free"
  /\ shut' = shut \cup {s} /\ main' = IF shut' = Sessions THEN "join" ELSE "shut"
  /\ Close(s)
  /\ pc' = [t \in Sessions |-> IF pc[t] = "blocked" /\ my[t] = fd[s] THEN "eof" ELSE pc[t]]
  /\ UNCHANGED <<running, mx, my, reqVars, inbox>>

StopJoin ==
  /\ main = "join" /\ \A s \in Sessions : pc[s] = "done"
  /\ main' = "stopped"
  /\ UNCHANGED <<running, shut, pc, fd, mx, my, reqVars, linkVars>>

Stop == StopFlag \/ StopJoin \/ \E s \in Sessions : StopShut(s)

\* The device pushes a segment, or closes the link; a blocked recv goes on.
Push(f) ==
  /\ owner[f] # invalid /\ ~inbox[f].eof
  /\ \/ /\ inbox[f].left > 0
        /\ inbox' = [inbox EXCEPT ![f].n = @ + 1, ![f].left = @ - 1]
     \/ inbox' = [inbox EXCEPT ![f].eof = TRUE]
  /\ pc' = [t \in Sessions |-> IF pc[t] = "blocked" /\ my[t] = f THEN "recv" ELSE pc[t]]
  /\ UNCHANGED <<stopVars, fd, mx, my, reqVars, owner>>

\* A socket that is closed but still read from ends when the device closes it.
Wake(s) ==
  /\ pc[s] = "blocked" /\ owner[my[s]] = invalid
  /\ Goto(s, "eof")
  /\ UNCHANGED <<stopVars, fd, mx, my, reqVars, linkVars>>

Next == Stop \/ (\E s \in Sessions : Thread(s)) \/ (\E s \in Sessions : Wake(s))
     \/ (\E f \in Fds : Push(f))

Spec == Init /\ [][Next]_vars

\* Threads are scheduled; connects, sends and sleeps return, by their timeouts if
\* nothing else; stop(), once called, runs on.
FairSpec ==
  /\ Spec /\ \A s \in Sessions : WF_vars(Thread(s))
  /\ \A s \in Sessions : SF_vars(StopShut(s))
  /\ WF_vars(StopJoin)

-----------------------------------------------------------------------------
\* What the code fixes about the constants.
PollerAssumption == invalid \notin Fds /\ invalid \notin Sessions

Places ==
  {"loop", "look", "connect", "install", "test", "send", "sending", "failed", "drain", "select",
   "recv", "blocked", "eof", "sleep", "end", "done"}

\* The shape of the sessions and of the table of descriptors.
TypeOK ==
  /\ main \in {"up", "shut", "join", "stopped"}
  /\ pc \in [Sessions -> Places]
  /\ fd \in [Sessions -> Fds \cup {invalid}]
  /\ my \in [Sessions -> Fds \cup {invalid}]
  /\ owner \in [Fds -> Sessions \cup {invalid}]

\* A descriptor in s->fd is open and was opened for this session, and its socket is
\* there until its thread or stop() closes it once: no request goes to another
\* device, no descriptor of someone else is closed.
SessionOwnsFd == \A s \in Sessions : fd[s] # invalid => owner[fd[s]] = s

\* Nothing stays open after stop(), also when a thread was about to store the link it
\* had just opened.
StoppedIsClosed == main = "stopped" => \A f \in Fds : owner[f] = invalid

\* A session's link is its own and is closed in the end.
LinksOwned == SessionOwnsFd /\ StoppedIsClosed

\* Why: a descriptor is open as long as its session holds it in s->fd, or has just
\* connected and not stored it yet, which happens only while s->fd is empty; a thread
\* that has ended holds none; and stop() has joined every thread before it returns.
LinkInv ==
  /\ SessionOwnsFd
  /\ \A s \in Sessions : pc[s] \in {"connect", "install", "done"} => fd[s] = invalid
  /\ \A s \in Sessions : pc[s] = "install" => my[s] # invalid /\ owner[my[s]] = s
  /\ \A f \in Fds : owner[f] # invalid =>
       fd[owner[f]] = f \/ (pc[owner[f]] = "install" /\ my[owner[f]] = f)
  /\ main = "stopped" => \A s \in Sessions : pc[s] = "done"

\* stop() returns, or it comes to wait for nothing but threads in a recv.  Such a thread
\* had copied its descriptor before stop() closed it, and the kernel gave the number to
\* the link of another session, on which nothing arrives any more: "so blocked
\* connects/sends/recvs in the device threads return immediately" (ModbusPoller.cpp:229)
\* is not true of it.
StopReturnsOrReused ==
  main = "shut" ~> \/ main = "stopped"
                   \/ main = "join" /\ \A s \in Sessions :
                        pc[s] = "done" \/ (pc[s] = "blocked" /\ fd[s] = invalid /\ owner[my[s]] = invalid)

\* Until stop() is called each device is polled again and again, or at least a new
\* connection to it is tried: no thread hangs in the drain.
KeepsPolling == \A s \in Sessions : []<>(main # "up" \/ pc[s] \in {"connect", "sending"})

=============================================================================
