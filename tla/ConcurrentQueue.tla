--------------------------- MODULE ConcurrentQueue ---------------------------
(***************************************************************************)
(* moodycamel::ConcurrentQueue above its producers: how a consumer goes    *)
(* through the list of producers, with and without a token, one element or *)
(* several at a time.  The list only grows, at its tail; next_prod leads   *)
(* to the producer added before.  A producer is its two counters, and its  *)
(* dequeue is one step, at the fetch_add of headIndex or where it gives up *)
(* (the ImplicitQueue and ExplicitQueue modules look inside): it gets what *)
(* is there, or less when another consumer is inside a dequeue, which may  *)
(* have reserved elements without having taken them or given them back.    *)
(* size_approx is two loads.                                               *)
(***************************************************************************)
EXTENDS Integers, FiniteSets

CONSTANTS
  Consumers, Methods,  \* the threads that dequeue, and the methods they use
  InitialProducers, MaxProducers, \* how many producers there are at first, and may be
  MaxEnqueues,         \* bound on the elements put in by each
  Quota,               \* EXPLICIT_CONSUMER_CONSUMPTION_QUOTA_BEFORE_ROTATE
  BulkMax,             \* `max` of the bulk methods
  OffsetMod            \* 2^32, the width of the offsets, scaled

QueueAssumption ==
  /\ Methods \subseteq {"plain", "scored", "token", "bulk", "tokenBulk"}
  /\ InitialProducers \in 0 .. MaxProducers /\ MaxProducers \in Nat /\ MaxEnqueues \in Nat /\ Quota \in Nat \ {0}
  /\ BulkMax \in Nat \ {0} /\ OffsetMod \in Nat \ {0}

VARIABLES
  count,      \* producerCount; the producers are 1 .. count, and producerListTail is `count`
  head, tail, \* headIndex, tailIndex of each producer
  rotation,   \* globalExplicitConsumerOffset
  consumerId, \* nextExplicitConsumerId
  token,      \* the token of each consumer
  pc, local,  \* where each consumer is, and its locals
  quiet,      \* since the consumer's call began no other thread changed the queue or dequeued
  fellShort   \* the consumer's last call returned less than it asked for
vars == <<count, head, tail, rotation, consumerId, token, pc, local, quiet, fellShort>>
queue == <<count, head, tail>>
tokens == <<rotation, consumerId, token>>

\* initialOffset, lastKnownGlobalOffset, itemsConsumedFromCurrent, currentProducer, desiredProducer
NoToken == [made |-> FALSE, initial |-> 0, known |-> 0, items |-> 0, current |-> 0, desired |-> 0]

\* ptr: the producer at hand; tl: producerListTail as loaded; best, bestSize, nonEmpty: the
\* scores; seen: tailIndex as loaded by size_approx; got: `count`; left: `max`.
NoLocals == [m |-> "plain", ptr |-> 0, tl |-> 0, best |-> 0, bestSize |-> 0, nonEmpty |-> 0,
             seen |-> 0, got |-> 0, left |-> 0]

Init ==
  /\ count = InitialProducers /\ head = [p \in 1 .. MaxProducers |-> 0]
  /\ tail = [p \in 1 .. MaxProducers |-> 0]
  /\ rotation = 0 /\ consumerId = 0 /\ token = [c \in Consumers |-> NoToken]
  /\ pc = [c \in Consumers |-> "idle"] /\ local = [c \in Consumers |-> NoLocals]
  /\ quiet = [c \in Consumers |-> TRUE] /\ fellShort = [c \in Consumers |-> FALSE]

Goto(c, label, l) == pc' = [pc EXCEPT ![c] = label] /\ local' = [local EXCEPT ![c] = l]
Return(c, short) == Goto(c, "idle", NoLocals) /\ fellShort' = [fellShort EXCEPT ![c] = short]
Quietly == UNCHANGED quiet
Disturb(others) == quiet' = [c \in Consumers |-> quiet[c] /\ c \notin others]

Size(p) == tail[p] - head[p]
\* next_prod, going back to the tail from the end of the list.
Round(p, tl) == IF p > 1 THEN p - 1 ELSE tl
-----------------------------------------------------------------------------
(* Producers                                                                  *)
AddProducer ==
  /\ count < MaxProducers /\ count' = count + 1 /\ Disturb(Consumers)
  /\ UNCHANGED <<head, tail, tokens, pc, local, fellShort>>

\* enqueue and try_enqueue, with a token or the thread's implicit producer.
Enqueue(p) ==
  /\ p <= count /\ tail[p] < MaxEnqueues
  /\ tail' = [tail EXCEPT ![p] = @ + 1] /\ Disturb(Consumers)
  /\ UNCHANGED <<count, head, tokens, pc, local, fellShort>>

Smaller(a, b) == IF a < b THEN a ELSE b
Alone(c) == \A d \in Consumers \ {c} : pc[d] = "idle"

\* How many elements of p a dequeue of at most n may get.
Gets(c, p, n) == LET most == Smaller(Size(p), n) IN IF Alone(c) THEN {most} ELSE 0 .. most

\* Takes n elements of p for consumer c.
Take(c, p, n) == head' = [head EXCEPT ![p] = @ + n] /\ Disturb(Consumers \ {c})
-----------------------------------------------------------------------------
(* try_dequeue_non_interleaved, try_dequeue_bulk                              *)
Entered(c) == quiet' = [d \in Consumers |-> d = c /\ Alone(c)]

\* A call begins.  producerListTail is loaded first by the methods without a token.
Begin(c, m) ==
  /\ pc[c] = "idle" /\ m \in {"plain", "scored", "bulk"}
  /\ Goto(c, IF m = "scored" THEN "size.tail" ELSE "walk",
          [NoLocals EXCEPT !.m = m, !.ptr = count, !.left = IF m = "bulk" THEN BulkMax ELSE 1])
  /\ Entered(c) /\ fellShort' = [fellShort EXCEPT ![c] = FALSE]
  /\ UNCHANGED <<queue, tokens>>

\* Mutant: the walk ends with the first producer that has less than was asked for.
WalkOnce(c) ==
  LET l == local[c] IN
  /\ pc[c] = "walk" /\ UNCHANGED <<count, tail, tokens>>
  /\ \E n \in IF l.ptr = 0 THEN {0} ELSE Gets(c, l.ptr, l.left) :
       IF l.ptr = 0 THEN Return(c, TRUE) /\ Quietly /\ UNCHANGED head
       ELSE Take(c, l.ptr, n) /\ Return(c, n < l.left)

\* One producer of the walk; `best`, which was tried, is passed over.
Walk(c) ==
  LET l == local[c] IN
  /\ pc[c] = "walk" /\ UNCHANGED <<count, tail, tokens>>
  /\ \E n \in IF l.ptr \in {0, l.best} THEN {0} ELSE Gets(c, l.ptr, l.left) :
       IF l.ptr = 0 THEN Return(c, TRUE) /\ Quietly /\ UNCHANGED head
       ELSE /\ IF n > 0 THEN Take(c, l.ptr, n) ELSE Quietly /\ UNCHANGED head
            /\ IF n = l.left THEN Return(c, FALSE)
               ELSE Goto(c, "walk", [l EXCEPT !.ptr = @ - 1, !.left = @ - n]) /\ UNCHANGED fellShort
-----------------------------------------------------------------------------
(* try_dequeue: the scores                                                    *)
\* size_approx loads the tail, then the head.  Three non-empty producers are enough.
SizeTail(c) ==
  LET l == local[c] IN
  /\ pc[c] = "size.tail" /\ Quietly /\ UNCHANGED <<queue, tokens>>
  /\ IF l.nonEmpty < 3 /\ l.ptr # 0
     THEN Goto(c, "size.head", [l EXCEPT !.seen = tail[l.ptr]]) /\ UNCHANGED fellShort
     ELSE IF l.nonEmpty > 0 THEN Goto(c, "best", [l EXCEPT !.ptr = 0, !.seen = 0]) /\ UNCHANGED fellShort
     ELSE Return(c, TRUE)

SizeHead(c) ==
  LET l == local[c]
      size == IF head[l.ptr] < l.seen THEN l.seen - head[l.ptr] ELSE 0
  IN
  /\ pc[c] = "size.head" /\ Quietly /\ UNCHANGED <<queue, tokens, fellShort>>
  /\ Goto(c, "size.tail", [l EXCEPT !.ptr = @ - 1, !.seen = 0,
            !.nonEmpty = IF size > 0 THEN @ + 1 ELSE @,
            !.best = IF size > l.bestSize THEN l.ptr ELSE @,
            !.bestSize = IF size > @ THEN size ELSE @])

\* "If there was at least one non-empty queue but it appears empty at the time we try to
\* dequeue from it, we need to make sure every queue's been tried": the list is loaded again.
Best(c) ==
  LET l == local[c] IN
  /\ pc[c] = "best" /\ UNCHANGED <<count, tail, tokens>>
  /\ \E n \in Gets(c, l.best, 1) :
       IF n = 1 THEN Take(c, l.best, 1) /\ Return(c, FALSE)
       ELSE /\ Goto(c, "walk", [NoLocals EXCEPT !.m = l.m, !.best = l.best, !.ptr = count, !.left = 1])
            /\ Quietly /\ UNCHANGED <<head, fellShort>>
-----------------------------------------------------------------------------
(* try_dequeue and try_dequeue_bulk with a token                              *)
\* ConsumerToken(queue)
MakeToken(c) ==
  /\ pc[c] = "idle" /\ ~token[c].made /\ Methods \cap {"token", "tokenBulk"} # {}
  /\ token' = [token EXCEPT ![c] = [NoToken EXCEPT !.made = TRUE, !.initial = consumerId,
                                                   !.known = OffsetMod - 1]]
  /\ consumerId' = (consumerId + 1) % OffsetMod
  /\ UNCHANGED <<queue, rotation, pc, local, quiet, fellShort>>

\* The producer `n` places further in the list of `total`, which is walked from `tl`.
Places(from, n, tl) ==
  LET place[i \in 0 .. n] == IF i = 0 THEN from ELSE Round(place[i - 1], tl) IN place[n]

\* update_current_producer_after_rotation
Rotated(k) ==
  LET first == k.desired = 0
      start == IF first THEN Places(count, count - 1 - (k.initial % count), count) ELSE k.desired
      delta == (OffsetMod + rotation - k.known) % OffsetMod
  IN [k EXCEPT !.desired = Places(start, delta % count, count), !.known = rotation,
               !.current = Places(start, delta % count, count), !.items = 0]

\* The call begins: with a rotation since the last one the token moves first; without a
\* producer there is nothing to move to.  What the move reads is read in one step.
BeginToken(c, m) ==
  LET moves == token[c].desired = 0 \/ token[c].known # rotation IN
  /\ pc[c] = "idle" /\ m \in {"token", "tokenBulk"} /\ token[c].made
  /\ Entered(c)
  /\ IF moves /\ token[c].desired = 0 /\ count = 0
     THEN fellShort' = [fellShort EXCEPT ![c] = TRUE] /\ UNCHANGED <<pc, local, token>>
     ELSE /\ token' = IF moves THEN [token EXCEPT ![c] = Rotated(@)] ELSE token
          /\ Goto(c, "current", [NoLocals EXCEPT !.m = m, !.left = IF m = "tokenBulk" THEN BulkMax ELSE 1])
          /\ fellShort' = [fellShort EXCEPT ![c] = FALSE]
  /\ UNCHANGED <<queue, rotation, consumerId>>

\* The consumption counter reaches the quota: a single dequeue tests it for equality, a
\* bulk one that got all it asked for tests whether it is past it.
QuotaReached(c, n) ==
  IF local[c].m = "token" THEN token[c].items + n = Quota
  ELSE n = local[c].left /\ token[c].items + n >= Quota

\* The current producer is tried first.
Current(c) ==
  LET l == local[c] k == token[c] IN
  /\ pc[c] = "current" /\ UNCHANGED <<count, tail, consumerId>>
  /\ \E n \in Gets(c, k.current, l.left) :
     /\ IF n > 0 THEN Take(c, k.current, n) ELSE Quietly /\ UNCHANGED head
     /\ token' = [token EXCEPT ![c].items = @ + n]
     /\ rotation' = IF n > 0 /\ QuotaReached(c, n) THEN (rotation + 1) % OffsetMod ELSE rotation
     /\ IF n = l.left THEN Return(c, FALSE)
        ELSE Goto(c, "load", [l EXCEPT !.left = @ - n]) /\ UNCHANGED fellShort

LoadTail(c) ==
  /\ pc[c] = "load" /\ Quietly /\ UNCHANGED <<queue, tokens, fellShort>>
  /\ Goto(c, "around", [local[c] EXCEPT !.tl = count, !.ptr = Round(token[c].current, count)])

\* Then the others, once around the list, until the walk is back at the current producer,
\* which a bulk dequeue moves along.
Around(c) ==
  LET l == local[c] k == token[c] IN
  /\ pc[c] = "around" /\ UNCHANGED <<count, tail, rotation, consumerId>>
  /\ \E n \in Gets(c, l.ptr, l.left) :
       IF l.ptr = k.current THEN Return(c, TRUE) /\ Quietly /\ UNCHANGED <<head, token>>
       ELSE /\ IF n > 0 THEN Take(c, l.ptr, n) ELSE Quietly /\ UNCHANGED head
            /\ token' = IF n > 0 THEN [token EXCEPT ![c].current = l.ptr, ![c].items = n] ELSE token
            /\ IF n = l.left THEN Return(c, FALSE)
               ELSE /\ Goto(c, "around", [l EXCEPT !.ptr = Round(l.ptr, l.tl), !.left = @ - n])
                    /\ UNCHANGED fellShort

Next ==
  \/ AddProducer
  \/ \E p \in 1 .. MaxProducers : Enqueue(p)
  \/ \E c \in Consumers :
       \/ \E m \in Methods : Begin(c, m) \/ BeginToken(c, m)
       \/ Walk(c) \/ SizeTail(c) \/ SizeHead(c) \/ Best(c) \/ MakeToken(c)
       \/ Current(c) \/ LoadTail(c) \/ Around(c)

Spec == Init /\ [][Next]_vars
-----------------------------------------------------------------------------
\* A call that returns less than it asked for found every producer empty, if no other
\* thread dequeued or enqueued during the call: no producer is left out of the walk, be it
\* by the scores, the token's place, the order of the list or the count still to get.  With
\* another consumer inside, the queue is "likely but not guaranteed to be empty"
\* (try_dequeue), even when that consumer stands still.
ShortMeansEmpty ==
  \A c \in Consumers : fellShort[c] /\ quiet[c] /\ pc[c] = "idle" =>
    \A p \in 1 .. count : Size(p) = 0

\* Tokens stay on producers of the list.
TokensInList == \A c \in Consumers : token[c].current \in 0 .. count /\ token[c].desired \in 0 .. count

\* Tokens that saw the same rotation stand at different producers when there are as many
\* producers as consumers and none was added since.
TokensSpread ==
  \A c, d \in Consumers :
    /\ c # d /\ token[c].desired # 0 /\ token[d].desired # 0 /\ token[c].known = token[d].known
    /\ token[c].initial % count # token[d].initial % count
    => token[c].desired # token[d].desired
=============================================================================
