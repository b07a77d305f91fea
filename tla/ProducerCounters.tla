------------------------- MODULE ProducerCounters -------------------------
(***************************************************************************)
(* ProducerBase of moodycamel::ConcurrentQueue: the counters with which    *)
(* consumers reserve elements of a sub-queue, and the common beginning of  *)
(* its dequeue operations, up to the point where a consumer owns a range   *)
(* of indexes.  dequeue is dequeue_bulk of at most one element.  A step is *)
(* one access to shared memory, taken as sequentially consistent; the      *)
(* counters are unsigned and wrap.                                         *)
(***************************************************************************)
EXTENDS Integers, FiniteSets, Sequences

CONSTANTS
  Consumers, nullptr,
  BlockSize,         \* BLOCK_SIZE
  IndexMod           \* 2^w of index_t

CountersAssumption == BlockSize \in Nat \ {0, 1} /\ IndexMod % (2 * BlockSize) = 0

VARIABLES
  tailIndex, headIndex, optimistic, overcommit,   \* the four counters of ProducerBase
  c                                               \* each consumer's place and locals
Counters == <<tailIndex, headIndex, optimistic, overcommit>>

Mod(i) == i % IndexMod
Base(i) == i - (i % BlockSize)
CircularLess(a, b) == Mod(a - b) > IndexMod \div 2
Smaller(a, b) == IF a < b THEN a ELSE b

CIdle == [at |-> "idle", max |-> 0, tail |-> 0, over |-> 0, first |-> 0, index |-> 0, n |-> 0,
          header |-> 0, slot |-> 0, block |-> nullptr]

\* A sub-queue from which `start` elements have come and gone.
CountersInit(start) ==
  /\ tailIndex = start /\ headIndex = start /\ optimistic = start /\ overcommit = 0
  /\ c = [t \in Consumers |-> CIdle]

CGo(t, l) == c' = [c EXCEPT ![t] = l]

Dequeue(t, max) ==
  /\ c[t].at = "idle" /\ CGo(t, [CIdle EXCEPT !.at = "over", !.max = max, !.tail = tailIndex])
  /\ UNCHANGED Counters

CLoadOver(t) ==
  /\ c[t].at = "over" /\ CGo(t, [c[t] EXCEPT !.at = "look", !.over = overcommit])
  /\ UNCHANGED Counters

\* desiredCount, from what was read; nothing is there to take if it is not positive.
CLook(t) ==
  LET desired == Mod(c[t].tail - (optimistic - c[t].over)) IN
  /\ c[t].at = "look"
  /\ CGo(t, IF CircularLess(0, desired)
            THEN [c[t] EXCEPT !.at = "reserve", !.n = Smaller(desired, c[t].max), !.max = 0, !.tail = 0] ELSE CIdle)
  /\ UNCHANGED Counters

\* dequeueOptimisticCount.fetch_add: the consumer announces what it wants.
CReserve(t) ==
  /\ c[t].at = "reserve" /\ optimistic' = Mod(optimistic + c[t].n)
  /\ CGo(t, [c[t] EXCEPT !.at = "check", !.first = optimistic])
  /\ UNCHANGED <<tailIndex, headIndex, overcommit>>

\* What is left of the wish, by the tail as it is now.
Actual(t) ==
  LET actual == Mod(tailIndex - (c[t].first - c[t].over))
  IN IF CircularLess(0, actual) THEN Smaller(c[t].n, actual) ELSE 0

CCheck(t) ==
  /\ c[t].at = "check"
  /\ CGo(t, [CIdle EXCEPT !.at = IF Actual(t) < c[t].n THEN "return" ELSE "head", !.n = Actual(t),
                          !.max = c[t].n - Actual(t)])
  /\ UNCHANGED Counters

\* dequeueOvercommit.fetch_add
CReturn(t) ==
  /\ c[t].at = "return" /\ overcommit' = Mod(overcommit + c[t].max)
  /\ CGo(t, IF c[t].n > 0 THEN [c[t] EXCEPT !.at = "head", !.max = 0] ELSE CIdle)
  /\ UNCHANGED <<tailIndex, headIndex, optimistic>>

\* headIndex.fetch_add: the elements are this consumer's.
CHead(t) ==
  /\ c[t].at = "head" /\ headIndex' = Mod(headIndex + c[t].n)
  /\ CGo(t, [c[t] EXCEPT !.at = "find", !.index = headIndex])
  /\ UNCHANGED <<tailIndex, optimistic, overcommit>>

\* The steps up to the ownership of c[t].n elements from c[t].index on.
Reservation(t) == CLoadOver(t) \/ CLook(t) \/ CReserve(t) \/ CCheck(t) \/ CReturn(t) \/ CHead(t)

\* get_block_index_index_for_index, and the same computation of the explicit producer: the
\* slot of an index in a circular block index of the given size, from a slot and the base
\* found there.  The quotient is of signed numbers and exact.
SlotOf(size, slot, slotBase, index) ==
  LET d == Mod(Base(index) - slotBase)
      offset == IF d < IndexMod \div 2 THEN d \div BlockSize ELSE -((IndexMod - d) \div BlockSize)
  IN (slot + offset) % size

\* The elements of one block that a dequeue takes, from index up to endIndex.
HereCount(t) == Smaller(c[t].n, BlockSize - (c[t].index % BlockSize))

\* size_approx
SizeApprox == IF CircularLess(headIndex, tailIndex) THEN Mod(tailIndex - headIndex) ELSE 0
=============================================================================
