---------------------------- MODULE ExplicitQueue ----------------------------
(***************************************************************************)
(* One explicit producer (the sub-queue behind a ProducerToken) of         *)
(* moodycamel::ConcurrentQueue.  It keeps its blocks in a ring and uses    *)
(* the block ahead of the tail again once all its elements are gone; a     *)
(* circular index leads from an element's number to its block.  enqueue is *)
(* enqueue_bulk of one element.  The pool of free blocks is a set.         *)
(***************************************************************************)
EXTENDS ProducerCounters

CONSTANTS
  Blocks,
  InitialSize,       \* EXPLICIT_INITIAL_INDEX_SIZE
  MaxHeaders,        \* bound: block indexes allocated
  MaxEnqueued,       \* bound: elements enqueued
  MaxBulk            \* bound: largest count or max of a bulk operation

ExplicitAssumption == nullptr \notin Blocks /\ InitialSize \in Nat \ {0}

VARIABLES
  tailBlock,
  next,         \* Block::next, the ring
  emptyFlags,   \* Block::emptyFlags: the slots of a block whose elements are gone
  elements,     \* block -> slot -> the number of the element there, or nullptr
  free,         \* the blocks that requisition_block can return
  headers,      \* BlockIndexHeader objects: [front, entries: slot -> [base, block]]; the last is blockIndex
  slotsUsed, front,   \* pr_blockIndexSlotsUsed, pr_blockIndexFront
  p,            \* the producer's place and locals
  gaveUp,       \* an operation failed after it had taken blocks (history)
  enqueued,     \* elements enqueued so far (history)
  taken         \* the elements moved out (history)
pvars == <<tailBlock, next, headers, slotsUsed, front, free, gaveUp>>
vars == <<Counters, c, pvars, emptyFlags, elements, p, enqueued, taken>>

Slots == 0 .. BlockSize - 1
NoEntry == [base |-> 0, block |-> nullptr]
Size(h) == Cardinality(DOMAIN h.entries)
blockIndex == Len(headers)
PIdle == [at |-> "idle", count |-> 0, cur |-> 0, first |-> nullptr, start |-> nullptr, front |-> 0, used |-> 0]

Init ==
  /\ CountersInit(0) /\ tailBlock = nullptr /\ next = [b \in Blocks |-> nullptr]
  /\ emptyFlags = [b \in Blocks |-> {}] /\ elements = [b \in Blocks |-> [s \in Slots |-> nullptr]]
  /\ free = Blocks /\ slotsUsed = 0 /\ front = 0 /\ p = PIdle /\ gaveUp = FALSE /\ enqueued = 0 /\ taken = <<>>
  /\ headers = <<[front |-> -1, entries |-> [s \in 0 .. InitialSize - 1 |-> NoEntry]]>>
-----------------------------------------------------------------------------
(* The producer                                                               *)
IsEmpty(b) == emptyFlags[b] = Slots

\* The index at which the next block starts, and whether the operation needs it.
NextBase == Mod(p.cur + BlockSize)
NeedsBlock == p.cur # Base(Mod(tailIndex + p.count - 1))

Enqueue(count) ==
  /\ p.at = "idle" /\ enqueued + count <= MaxEnqueued
  /\ p' = [at |-> "ahead", count |-> count, cur |-> Base(Mod(tailIndex - 1)), first |-> nullptr,
           start |-> tailBlock, front |-> front, used |-> slotsUsed]
  /\ UNCHANGED <<Counters, c, pvars, emptyFlags, elements, enqueued, taken>>

\* The block becomes the tail, its entry goes to the front slot of the index.
Place(b, hs, slot) ==
  /\ tailBlock' = b
  /\ headers' = [hs EXCEPT ![Len(hs)].entries[slot] = [base |-> NextBase, block |-> b]]
  /\ front' = (slot + 1) % Size(hs[Len(hs)])
  /\ p' = [p EXCEPT !.cur = NextBase, !.first = IF @ = nullptr THEN b ELSE @]

\* Mutant: the block ahead is used again once its first element is gone.
CanReuseEarly == tailBlock # nullptr /\ next[tailBlock] # p.first /\ emptyFlags[next[tailBlock]] # {}

\* The block ahead of the tail is empty and not of this operation.
CanReuse == tailBlock # nullptr /\ next[tailBlock] # p.first /\ IsEmpty(next[tailBlock])

\* Blocks of the ring are used first.
PAhead ==
  /\ p.at = "ahead"
  /\ IF NeedsBlock /\ CanReuse THEN Place(next[tailBlock], headers, front)
     ELSE p' = [p EXCEPT !.at = IF NeedsBlock THEN "pool" ELSE "front"] /\ UNCHANGED <<tailBlock, headers, front>>
  /\ UNCHANGED <<Counters, c, next, slotsUsed, free, gaveUp, emptyFlags, elements, enqueued, taken>>

\* new_block_index: twice the size, the entries in use first, oldest to newest.
NewHeader ==
  LET h == headers[blockIndex]   n == Size(h)
  IN [front |-> p.used - 1,
      entries |-> [s \in 0 .. 2 * n - 1 |->
                     IF s < slotsUsed THEN h.entries[(front - slotsUsed + s) % n] ELSE NoEntry]]

\* A failed operation returns to where it began, but keeps the blocks added to the ring.
PFail(oldFront) ==
  /\ front' = oldFront /\ slotsUsed' = p.used /\ p' = PIdle /\ gaveUp' = (gaveUp \/ p.first # nullptr)
  /\ tailBlock' = IF p.start = nullptr THEN p.first ELSE p.start

Full == ~CircularLess(headIndex, NextBase + BlockSize)
IndexFull == slotsUsed = Size(headers[blockIndex])

\* Then blocks of the pool, for which the index may have to grow.  Growing it and taking a
\* block fail when the operation may not allocate (try_enqueue, try_enqueue_bulk) or no
\* memory is left; a grown index is kept.
PPool ==
  LET grows == blockIndex < MaxHeaders
      hs == IF IndexFull THEN Append(headers, NewHeader) ELSE headers
      f  == IF IndexFull THEN slotsUsed ELSE front
      oldFront == IF IndexFull THEN p.used ELSE p.front
  IN
  /\ p.at = "pool" /\ NeedsBlock
  /\ \/ /\ Full \/ IndexFull
        /\ PFail(p.front) /\ UNCHANGED <<next, headers, free, emptyFlags>>
     \/ /\ ~Full /\ (IndexFull => grows)
        /\ PFail(oldFront) /\ headers' = hs /\ UNCHANGED <<next, free, emptyFlags>>
     \/ /\ ~Full /\ (IndexFull => grows) /\ UNCHANGED gaveUp
        /\ \E b \in free :
             /\ free' = free \ {b} /\ emptyFlags' = [emptyFlags EXCEPT ![b] = Slots]
             /\ next' = IF tailBlock = nullptr THEN [next EXCEPT ![b] = b]
                        ELSE [next EXCEPT ![b] = next[tailBlock], ![tailBlock] = b]
             /\ slotsUsed' = slotsUsed + 1
             /\ tailBlock' = b /\ headers' = [hs EXCEPT ![Len(hs)].entries[f] = [base |-> NextBase, block |-> b]]
             /\ front' = (f + 1) % Size(hs[Len(hs)])
             /\ p' = [p EXCEPT !.cur = NextBase, !.first = IF @ = nullptr THEN b ELSE @, !.front = oldFront]
  /\ UNCHANGED <<Counters, c, elements, enqueued, taken>>

PPoolDone ==
  /\ p.at = "pool" /\ ~NeedsBlock /\ p' = [p EXCEPT !.at = "front"]
  /\ UNCHANGED <<Counters, c, pvars, emptyFlags, elements, enqueued, taken>>

\* The n-th block from b on in the ring.
Ahead(b, n) == LET f[k \in Nat] == IF k = 0 THEN b ELSE next[f[k - 1]] IN f[n]
Fresh == IF p.first = nullptr THEN 0 ELSE Mod(p.cur - Base(Mod(tailIndex - 1))) \div BlockSize

\* reset_empty on the operation's blocks; then front is published.
PFront ==
  /\ p.at = "front" /\ p' = [p EXCEPT !.at = "write"]
  /\ emptyFlags' = [b \in Blocks |-> IF \E k \in 0 .. Fresh - 1 : Ahead(p.first, k) = b THEN {} ELSE emptyFlags[b]]
  /\ headers' = IF Fresh = 0 THEN headers
                ELSE [headers EXCEPT ![blockIndex].front = (front - 1) % Size(headers[blockIndex])]
  /\ UNCHANGED <<Counters, c, tailBlock, next, slotsUsed, front, free, gaveUp, elements, enqueued, taken>>

\* The block of the k-th element of the operation.
BlockOf(k) ==
  LET old == (BlockSize - (tailIndex % BlockSize)) % BlockSize
  IN IF k <= old THEN p.start ELSE Ahead(p.first, (k - old - 1) \div BlockSize)

PWrite ==
  /\ p.at = "write"
  /\ elements' = [b \in Blocks |-> [s \in Slots |->
                    LET ks == {k \in 1 .. p.count : BlockOf(k) = b /\ (tailIndex + k - 1) % BlockSize = s}
                    IN IF ks = {} THEN elements[b][s] ELSE enqueued + (CHOOSE k \in ks : TRUE)]]
  /\ p' = [PIdle EXCEPT !.at = "publish", !.count = p.count]
  /\ UNCHANGED <<Counters, c, pvars, emptyFlags, enqueued, taken>>

PPublish ==
  /\ p.at = "publish" /\ tailIndex' = Mod(tailIndex + p.count) /\ enqueued' = enqueued + p.count /\ p' = PIdle
  /\ UNCHANGED <<headIndex, optimistic, overcommit, c, pvars, emptyFlags, elements, taken>>

Producer == (\E n \in 1 .. MaxBulk : Enqueue(n)) \/ PAhead \/ PPool \/ PPoolDone \/ PFront \/ PWrite \/ PPublish
-----------------------------------------------------------------------------
(* A consumer that owns a range of indexes finds the blocks                   *)
Static == <<pvars, emptyFlags, elements, p, enqueued, taken>>

CFind(t) ==
  /\ c[t].at = "find" /\ CGo(t, [c[t] EXCEPT !.at = "ffront", !.header = blockIndex])
  /\ UNCHANGED <<Counters, Static>>

CFindFront(t) ==
  /\ c[t].at = "ffront" /\ CGo(t, [c[t] EXCEPT !.at = "fbase", !.slot = headers[c[t].header].front])
  /\ UNCHANGED <<Counters, Static>>

CFindBase(t) ==
  LET h == headers[c[t].header] IN
  /\ c[t].at = "fbase"
  /\ CGo(t, [c[t] EXCEPT !.at = "block", !.slot = SlotOf(Size(h), @, h.entries[@].base, c[t].index)])
  /\ UNCHANGED <<Counters, Static>>

CBlock(t) ==
  /\ c[t].at = "block" /\ CGo(t, [c[t] EXCEPT !.at = "move", !.block = headers[c[t].header].entries[c[t].slot].block])
  /\ UNCHANGED <<Counters, Static>>

CMove(t) ==
  LET s == c[t].index % BlockSize   n == HereCount(t) IN
  /\ c[t].at = "move" /\ c[t].block # nullptr
  /\ taken' = taken \o [k \in 1 .. n |-> [index |-> Mod(c[t].index + k - 1), value |-> elements[c[t].block][s + k - 1]]]
  /\ elements' = [elements EXCEPT ![c[t].block] = [i \in Slots |-> IF i \in s .. s + n - 1 THEN nullptr ELSE @[i]]]
  /\ CGo(t, [c[t] EXCEPT !.at = "empty"])
  /\ UNCHANGED <<Counters, pvars, emptyFlags, p, enqueued>>

\* set_many_empty; then the next block, in the next slot of the same header.
CEmpty(t) ==
  LET s == c[t].index % BlockSize   n == HereCount(t) IN
  /\ c[t].at = "empty" /\ emptyFlags' = [emptyFlags EXCEPT ![c[t].block] = @ \cup (s .. s + n - 1)]
  /\ CGo(t, IF c[t].n = n THEN CIdle
            ELSE [c[t] EXCEPT !.at = "block", !.n = @ - n, !.index = Mod(@ + n), !.block = nullptr,
                              !.slot = (@ + 1) % Size(headers[c[t].header])])
  /\ UNCHANGED <<Counters, pvars, elements, p, enqueued, taken>>

Consumer(t) ==
  \/ ((\E n \in 1 .. MaxBulk : Dequeue(t, n)) \/ Reservation(t)) /\ UNCHANGED Static
  \/ CFind(t) \/ CFindFront(t) \/ CFindBase(t) \/ CBlock(t) \/ CMove(t) \/ CEmpty(t)

Next == Producer \/ \E t \in Consumers : Consumer(t)

Spec == Init /\ [][Next]_vars
-----------------------------------------------------------------------------
(* ~ExplicitProducer, which runs when nobody uses the producer                *)
Ring == IF tailBlock = nullptr THEN {} ELSE {Ahead(tailBlock, k) : k \in 1 .. Cardinality(Blocks)}

\* The entries of the index from the oldest one on.
Entry(k) == headers[blockIndex].entries[(front - slotsUsed + k) % Size(headers[blockIndex])]

\* The block with the head, when the head is inside a block: the first entry, from the
\* oldest one on, that does not end before it.
HalfDequeued ==
  IF headIndex % BlockSize = 0 THEN nullptr
  ELSE Entry(CHOOSE k \in 0 .. Size(headers[blockIndex]) - 1 :
               /\ ~CircularLess(Entry(k).base + BlockSize, headIndex)
               /\ \A j \in 0 .. k - 1 : CircularLess(Entry(j).base + BlockSize, headIndex)).block

\* The slots whose elements the destructor destroys.
Destroyed ==
  {<<b, s>> \in Ring \X Slots :
     /\ ~IsEmpty(b)
     /\ b = HalfDequeued => s >= headIndex % BlockSize
     /\ b = tailBlock => (tailIndex % BlockSize = 0 \/ s < tailIndex % BlockSize)}
-----------------------------------------------------------------------------
AtRest == p.at = "idle" /\ \A t \in Consumers : c[t].at = "idle"

\* Every element is moved out once and as it was enqueued: what a consumer reads at an
\* index is the element the producer put there, although blocks are used again, the index
\* grows under the consumers and the counters wrap ("guaranteed to be room" in the index,
\* enqueue).  An enqueue_bulk that gives up after it took blocks ends this: they stay in the
\* ring and their entries in the index, which pr_blockIndexSlotsUsed does not count, so that
\* later operations find more room in the index than there is.
ReadsWhatWasEnqueued ==
  ~gaveUp => \A i \in DOMAIN taken : taken[i].value # nullptr /\ Mod(taken[i].value - 1) = taken[i].index

\* At rest nothing was lost: the counters agree, so that a dequeue fails only on an empty
\* sub-queue, and the elements between head and tail are all there.
RestIsExact ==
  AtRest /\ ~gaveUp =>
    /\ Mod(optimistic - overcommit) = headIndex
    /\ {elements[b][s] : b \in Ring, s \in Slots} \ {nullptr} = (enqueued - Mod(tailIndex - headIndex) + 1) .. enqueued

\* Destroying the sub-queue at rest destroys exactly the elements left in it, unless an
\* enqueue_bulk gave up after it took blocks: the destructor looks for the block with the
\* head from the entry on that is the oldest by pr_blockIndexSlotsUsed.
DestructorExact ==
  AtRest /\ ~gaveUp =>
    Destroyed = {<<b, s>> \in Blocks \X Slots : elements[b][s] # nullptr}
=============================================================================
