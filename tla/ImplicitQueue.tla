---------------------------- MODULE ImplicitQueue ----------------------------
(***************************************************************************)
(* One implicit producer of moodycamel::ConcurrentQueue: the sub-queue     *)
(* that a thread without a token enqueues to and that all consumers        *)
(* dequeue from.  Elements lie in blocks; a circular index, which grows by *)
(* doubling, leads from an element's number to its block.  A step is one   *)
(* access to shared memory, taken as sequentially consistent; the element  *)
(* type's moves do not throw.  The pool of free blocks is a set: no block  *)
(* is left when it is empty and memory has run out.                        *)
(***************************************************************************)
EXTENDS ProducerCounters

CONSTANTS
  Blocks,
  InitialCapacity,   \* IMPLICIT_INITIAL_INDEX_SIZE
  MaxHeaders,        \* bound: block indexes allocated; beyond it malloc fails
  Starts,            \* indexes at which an empty producer may stand at first
  MaxEnqueued,       \* bound: elements enqueued
  MaxBulk            \* bound: largest count or max of a bulk operation

ImplicitAssumption ==
  nullptr \notin Blocks /\ \A s \in Starts : s % BlockSize = 0

VARIABLES
  tailBlock,
  elements,    \* block -> slot -> the number of the element there, or nullptr
  dequeued,    \* Block::elementsCompletelyDequeued
  free,        \* the blocks that requisition_block can return
  entries,     \* BlockIndexEntry objects: [key, value]
  headers,     \* BlockIndexHeader objects: [tail, index: slot -> entry]; the last is blockIndex
  p,           \* the producer's place and locals
  enqueued,    \* elements enqueued so far (history)
  taken        \* the elements moved out, in order of the moves (history)
vars == <<tailIndex, headIndex, optimistic, overcommit, tailBlock, elements, dequeued, free,
          entries, headers, p, c, enqueued, taken>>

INVALID_BLOCK_BASE == -1

\* Capacity of a header, and its slot numbers.
Capacity(h) == Cardinality(DOMAIN h.index)
blockIndex == Len(headers)

PIdle == [at |-> "idle", count |-> 0, cur |-> 0, fresh |-> <<>>, entry |-> 0]
\* A producer whose elements, `start` of them, have all come and gone through an index that
\* did not grow; a new one for 0.
Init ==
  /\ \E start \in Starts :
       LET tail == (InitialCapacity - 1 + start \div BlockSize) % InitialCapacity IN
       /\ CountersInit(start) /\ enqueued = start
       /\ entries = [e \in 1 .. InitialCapacity |->
                       [key |-> IF start > 0 /\ e = tail + 1 THEN start - BlockSize ELSE INVALID_BLOCK_BASE,
                        value |-> nullptr]]
       /\ headers = <<[tail |-> tail, index |-> [s \in 0 .. InitialCapacity - 1 |-> s + 1]]>>
  /\ tailBlock = nullptr /\ free = Blocks /\ taken = <<>>
  /\ elements = [b \in Blocks |-> [s \in 0 .. BlockSize - 1 |-> nullptr]]
  /\ dequeued = [b \in Blocks |-> 0]
  /\ p = PIdle

-----------------------------------------------------------------------------
(* The block index                                                            *)
\* new_block_index: twice the capacity, the old entries first, in order, up to the tail.
NewHeader ==
  LET h == headers[blockIndex]   n == Capacity(h)
  IN [tail |-> n - 1,
      index |-> [s \in 0 .. 2 * n - 1 |->
                   IF s < n THEN h.index[(h.tail + 1 + s) % n] ELSE Len(entries) + 1 + s - n]]

\* The slot for the next block.
NewTail == (headers[blockIndex].tail + 1) % Capacity(headers[blockIndex])

SlotFree(e) == entries[e].key = INVALID_BLOCK_BASE \/ entries[e].value = nullptr

\* requisition_block: from the initial pool, the free list, or new.
RequisitionBlock(b) == free' = free \ {b}

\* add_blocks_to_free_list
AddBlocks(bs) == free' = free \cup bs
-----------------------------------------------------------------------------
(* The producer: enqueue is enqueue_bulk of one element                       *)
PGo(l) == p' = l
Needed(count) == Mod(Base(Mod(tailIndex + count - 1)) - Base(Mod(tailIndex - 1)))

\* The operation begins; without room in the tail block it needs blocks.
Enqueue(count) ==
  /\ p.at = "idle" /\ enqueued + count <= MaxEnqueued
  /\ PGo([PIdle EXCEPT !.at = IF Needed(count) > 0 THEN "slot" ELSE "write", !.count = count,
                       !.cur = Base(Mod(tailIndex - 1))])
  /\ UNCHANGED <<Counters, tailBlock, elements, dequeued, free, entries, headers, c, enqueued, taken>>

\* The index at which the next block starts.
NextBase == Mod(p.cur + BlockSize)

\* The sub-queue is at its limit: as many elements as the index type can tell apart.
Full == ~CircularLess(headIndex, NextBase + BlockSize)

\* insert_block_index_entry: the key is stored in the next slot; without one the index
\* grows, and the operation fails if it cannot.
PSlot ==
  LET e == headers[blockIndex].index[NewTail] IN
  /\ p.at = "slot"
  /\ \/ /\ ~Full /\ SlotFree(e) /\ entries' = [entries EXCEPT ![e].key = NextBase]
        /\ PGo([p EXCEPT !.at = "tail", !.entry = e]) /\ UNCHANGED headers
     \/ /\ ~Full /\ ~SlotFree(e) /\ blockIndex < MaxHeaders
        /\ entries' = entries \o [i \in 1 .. Capacity(headers[blockIndex]) |->
                                    [key |-> INVALID_BLOCK_BASE, value |-> nullptr]]
        /\ headers' = Append(headers, NewHeader) /\ UNCHANGED p
     \/ /\ Full \/ (~SlotFree(e) /\ blockIndex = MaxHeaders)
        /\ PGo([p EXCEPT !.at = "undo", !.cur = Base(Mod(tailIndex - 1)), !.entry = 0])
        /\ UNCHANGED <<entries, headers>>
  /\ UNCHANGED <<Counters, tailBlock, elements, dequeued, free, c, enqueued, taken>>

PTail ==
  /\ p.at = "tail" /\ headers' = [headers EXCEPT ![blockIndex].tail = NewTail]
  /\ PGo([p EXCEPT !.at = "block"])
  /\ UNCHANGED <<Counters, tailBlock, elements, dequeued, free, entries, c, enqueued, taken>>

\* requisition_block, reset_empty and the store of the entry's value; without a block the
\* entry is given back (rewind_block_index_tail) and so is what the operation took.
PBlock ==
  /\ p.at = "block"
  /\ \/ \E b \in free :
          /\ RequisitionBlock(b) /\ dequeued' = [dequeued EXCEPT ![b] = 0]
          /\ entries' = [entries EXCEPT ![p.entry].value = b] /\ UNCHANGED headers
          /\ PGo([p EXCEPT !.at = IF NextBase = Base(Mod(tailIndex + p.count - 1)) THEN "write" ELSE "slot",
                           !.cur = NextBase, !.fresh = Append(@, b), !.entry = 0])
     \/ /\ free = {} /\ UNCHANGED <<free, dequeued>>
        /\ headers' = [headers EXCEPT ![blockIndex].tail = (@ - 1) % Capacity(headers[blockIndex])]
        /\ entries' = [entries EXCEPT ![p.entry].value = nullptr]
        /\ PGo([p EXCEPT !.at = "undo", !.cur = Base(Mod(tailIndex - 1)), !.entry = 0])
  /\ UNCHANGED <<Counters, tailBlock, elements, c, enqueued, taken>>

\* rewind_block_index_tail
RewindTail(h) == [h EXCEPT !.tail = (@ - 1) % Capacity(h)]

\* A failed operation clears the entry of each block it took, rewinds the tail, and puts
\* the blocks back; then it returns false.
PUndo ==
  /\ p.at = "undo"
  /\ IF p.entry = Len(p.fresh)
     THEN PGo(PIdle) /\ AddBlocks({p.fresh[i] : i \in DOMAIN p.fresh}) /\ UNCHANGED <<headers, entries>>
     ELSE LET h == headers[blockIndex]
              e == h.index[SlotOf(Capacity(h), h.tail, entries[h.index[h.tail]].key, NextBase)] IN
          /\ entries' = [entries EXCEPT ![e].value = nullptr]
          /\ headers' = [headers EXCEPT ![blockIndex] = RewindTail(h)]
          /\ PGo([p EXCEPT !.entry = @ + 1, !.cur = NextBase]) /\ UNCHANGED free
  /\ UNCHANGED <<Counters, tailBlock, elements, dequeued, c, enqueued, taken>>

\* The block of the k-th element of the operation: the old tail block while it has room,
\* then the blocks taken, one after the other.
BlockOf(k) ==
  LET old == (BlockSize - (tailIndex % BlockSize)) % BlockSize
  IN IF k <= old THEN tailBlock ELSE p.fresh[1 + (k - old - 1) \div BlockSize]

\* The elements are constructed in place; they are not visible yet.
PWrite ==
  /\ p.at = "write"
  /\ elements' = [b \in Blocks |-> [s \in 0 .. BlockSize - 1 |->
                    LET ks == {k \in 1 .. p.count : BlockOf(k) = b /\ (tailIndex + k - 1) % BlockSize = s}
                    IN IF ks = {} THEN elements[b][s] ELSE enqueued + (CHOOSE k \in ks : TRUE)]]
  /\ tailBlock' = BlockOf(p.count) /\ PGo([p EXCEPT !.at = "publish", !.fresh = <<>>, !.cur = 0])
  /\ UNCHANGED <<Counters, dequeued, free, entries, headers, c, enqueued, taken>>

PPublish ==
  /\ p.at = "publish" /\ tailIndex' = Mod(tailIndex + p.count) /\ enqueued' = enqueued + p.count
  /\ PGo(PIdle)
  /\ UNCHANGED <<headIndex, optimistic, overcommit, tailBlock, elements, dequeued, free, entries, headers, c, taken>>

Producer == (\E n \in 1 .. MaxBulk : Enqueue(n)) \/ PSlot \/ PTail \/ PBlock \/ PUndo \/ PWrite \/ PPublish
-----------------------------------------------------------------------------
(* A consumer: dequeue is dequeue_bulk of at most one element                 *)
Static == <<tailBlock, elements, dequeued, free, entries, headers, p, enqueued, taken>>

\* get_block_index_index_for_index: the loads of the header, its tail, and the key there.
CFind(t) ==
  /\ c[t].at = "find" /\ CGo(t, [c[t] EXCEPT !.at = "ftail", !.header = blockIndex])
  /\ UNCHANGED <<Counters, Static>>

CFindTail(t) ==
  /\ c[t].at = "ftail" /\ CGo(t, [c[t] EXCEPT !.at = "fkey", !.slot = headers[c[t].header].tail])
  /\ UNCHANGED <<Counters, Static>>

CFindKey(t) ==
  LET h == headers[c[t].header] IN
  /\ c[t].at = "fkey"
  /\ CGo(t, [c[t] EXCEPT !.at = "value", !.slot = SlotOf(Capacity(h), @, entries[h.index[@]].key, c[t].index)])
  /\ UNCHANGED <<Counters, Static>>

EntryOf(t) == headers[c[t].header].index[c[t].slot]

CValue(t) ==
  /\ c[t].at = "value" /\ CGo(t, [c[t] EXCEPT !.at = "move", !.block = entries[EntryOf(t)].value])
  /\ UNCHANGED <<Counters, Static>>

CMove(t) ==
  LET s == c[t].index % BlockSize   n == HereCount(t) IN
  /\ c[t].at = "move"
  /\ taken' = taken \o [k \in 1 .. n |-> [index |-> Mod(c[t].index + k - 1),
                                          value |-> IF c[t].block = nullptr THEN nullptr ELSE elements[c[t].block][s + k - 1]]]
  /\ elements' = [b \in Blocks |-> [i \in 0 .. BlockSize - 1 |->
                    IF b = c[t].block /\ i \in s .. s + n - 1 THEN nullptr ELSE elements[b][i]]]
  /\ CGo(t, [c[t] EXCEPT !.at = "empty"])
  /\ UNCHANGED <<Counters, tailBlock, dequeued, free, entries, headers, p, enqueued>>

\* The loop goes on with the next block, in the next slot of the same header.
CNext(t) ==
  LET n == HereCount(t) IN
  CGo(t, IF c[t].n = n THEN CIdle
         ELSE [c[t] EXCEPT !.at = "value", !.n = @ - n, !.index = Mod(@ + n), !.block = nullptr,
                           !.slot = (@ + 1) % Capacity(headers[c[t].header])])

\* Block::set_many_empty; whoever empties the block gives it back.
CEmpty(t) ==
  LET b == c[t].block   n == HereCount(t) IN
  /\ c[t].at = "empty" /\ b # nullptr /\ dequeued' = [dequeued EXCEPT ![b] = @ + n]
  /\ IF dequeued[b] + n = BlockSize THEN CGo(t, [c[t] EXCEPT !.at = "clear"]) ELSE CNext(t)
  /\ UNCHANGED <<Counters, tailBlock, elements, free, entries, headers, p, enqueued, taken>>

CClear(t) ==
  /\ c[t].at = "clear" /\ entries' = [entries EXCEPT ![EntryOf(t)].value = nullptr]
  /\ CGo(t, [c[t] EXCEPT !.at = "free"])
  /\ UNCHANGED <<Counters, tailBlock, elements, dequeued, free, headers, p, enqueued, taken>>

CFree(t) ==
  /\ c[t].at = "free" /\ AddBlocks({c[t].block}) /\ CNext(t)
  /\ UNCHANGED <<Counters, tailBlock, elements, dequeued, entries, headers, p, enqueued, taken>>

Consumer(t) ==
  \/ ((\E n \in 1 .. MaxBulk : Dequeue(t, n)) \/ Reservation(t)) /\ UNCHANGED Static
  \/ CFind(t) \/ CFindTail(t) \/ CFindKey(t) \/ CValue(t) \/ CMove(t) \/ CEmpty(t) \/ CClear(t) \/ CFree(t)

-----------------------------------------------------------------------------
(* ~ImplicitProducer, which runs when nobody uses the producer                *)
\* The block that holds the k-th element left.
Remaining(k) ==
  LET h == headers[blockIndex]
  IN entries[h.index[SlotOf(Capacity(h), h.tail, entries[h.index[h.tail]].key, Mod(headIndex + k))]].value

\* The loop frees a block when it reaches the first element of the next one.
LoopFreesAt == {k \in 1 .. Mod(tailIndex - headIndex) - 1 : (headIndex + k) % BlockSize = 0}
LoopFrees(k) == Remaining(k - 1)

\* The tail block is freed after the loop if elements were left or it is partly filled.
TailFrees ==
  IF tailBlock # nullptr /\ (headIndex # tailIndex \/ tailIndex % BlockSize # 0) THEN {tailBlock} ELSE {}
-----------------------------------------------------------------------------
Next == Producer \/ \E t \in Consumers : Consumer(t)

Spec == Init /\ [][Next]_vars
-----------------------------------------------------------------------------
AtRest == p.at = "idle" /\ \A t \in Consumers : c[t].at = "idle"

\* Every element is moved out once and as it was enqueued: what a consumer reads at an index is the
\* element the producer put there, wherever the index has grown and the counters wrapped.
ReadsWhatWasEnqueued == \A i \in DOMAIN taken : taken[i].value # nullptr /\ Mod(taken[i].value - 1) = taken[i].index

\* At rest nothing was lost: the counters agree (so that a dequeue fails only on an empty
\* sub-queue), and the elements between head and tail are all there.
RestIsExact ==
  AtRest =>
    /\ Mod(optimistic - overcommit) = headIndex
    /\ Cardinality({<<b, s>> \in Blocks \X (0 .. BlockSize - 1) : elements[b][s] # nullptr}) = Mod(tailIndex - headIndex)

\* A block on the free list is in nobody's hands: no index entry leads to it, no consumer
\* reads in it, and it is not the block being filled.
FreeBlockUnused ==
  \A b \in free :
    /\ \A s \in 0 .. BlockSize - 1 : elements[b][s] = nullptr
    /\ \A t \in Consumers : c[t].block = b => c[t].at \notin {"move", "empty", "clear", "free"}
    /\ ~(tailBlock = b /\ tailIndex % BlockSize # 0)

\* Destroying the sub-queue at rest destroys the elements left in it and gives back every
\* block that it holds, once ("Even if the queue is empty, there's still one block that's
\* not on the free list"): no block leaks and none is freed twice.
DestructorFreesAll ==
  AtRest =>
    /\ Cardinality({LoopFrees(k) : k \in LoopFreesAt}) = Cardinality(LoopFreesAt)
    /\ LET bs == {LoopFrees(k) : k \in LoopFreesAt}
       IN bs \cap TailFrees = {} /\ (bs \cup TailFrees) \cap free = {} /\ bs \cup TailFrees \cup free = Blocks
=============================================================================
