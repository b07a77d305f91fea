------------------------------ MODULE MCQueues ------------------------------
(***************************************************************************)
(* The queue between the threads of the pipeline, for TLC: BlockingQueue   *)
(* on top, and inside moodycamel::ConcurrentQueue its two kinds of         *)
(* sub-queues, the table that leads a thread to its own, and the walk of   *)
(* a consumer over all of them.  A behaviour is one of one of these; the   *)
(* others stay in their initial states.                                    *)
(***************************************************************************)
EXTENDS BlockingQueue, Sequences, TLC

CONSTANTS
  Parts,     \* of "blocking", "implicit", "implicit1", "explicit", "explicit1", "hash", "walk", "token"
  Consumers, Blocks, nullptr, BlockSize, IndexMod, InitialSlots, MaxHeaders, \* of the sub-queues
  Starts, MaxImplicit, ImplicitBulk, MaxExplicit, ExplicitBulk,
  Consumer1, MaxImplicit1, MaxExplicit1,              \* one consumer only, and more elements
  Ids, HashOf, MaxTables, MaxOwned, MaxExits, empty, reusable,               \* of ProducerHash
  MaxProducers, MaxEnqueues, MaxPerToken, Quota, BulkMax, OffsetMod          \* of ConcurrentQueue

VARIABLES
  part,                                                    \* the component that moves
  tailIndex, headIndex, optimistic, overcommit, c,
  tailBlock, elements, free, headers, p, enqueued, taken,  \* of both kinds of sub-queue
  dequeued, entries,                                       \* of the implicit one
  next, emptyFlags, slotsUsed, front, gaveUp,              \* of the explicit one
  tables, hashCount, resizing, inactive, mutex, listener, hPc, hLocal, answer, exits,
  count, head, tail, rotation, consumerId, token, wPc, wLocal, quiet, fellShort

subVars == <<tailIndex, headIndex, optimistic, overcommit, c, tailBlock, elements, free, headers, p,
             enqueued, taken>>
implicitVars == <<dequeued, entries>>
explicitVars == <<next, emptyFlags, slotsUsed, front, gaveUp>>
hashVars == <<tables, hashCount, resizing, inactive, mutex, listener, hPc, hLocal, answer, exits>>
walkVars == <<count, head, tail, rotation, consumerId, token, wPc, wLocal, quiet, fellShort>>

Q == INSTANCE ImplicitQueue WITH
       InitialCapacity <- InitialSlots, MaxEnqueued <- MaxImplicit, MaxBulk <- ImplicitBulk
E == INSTANCE ExplicitQueue WITH
       InitialSize <- InitialSlots, MaxEnqueued <- MaxExplicit, MaxBulk <- ExplicitBulk
Q1 == INSTANCE ImplicitQueue WITH Consumers <- Consumer1,
       InitialCapacity <- InitialSlots, MaxEnqueued <- MaxImplicit1, MaxBulk <- ImplicitBulk
E1 == INSTANCE ExplicitQueue WITH Consumers <- Consumer1,
       InitialSize <- InitialSlots, MaxEnqueued <- MaxExplicit1, MaxBulk <- ImplicitBulk
H == INSTANCE ProducerHash WITH
       Threads <- Ids, InitialCapacity <- InitialSlots, MaxProducers <- MaxOwned, pc <- hPc, local <- hLocal
W == INSTANCE ConcurrentQueue WITH
       Methods <- {"plain", "scored", "bulk"}, InitialProducers <- 2, pc <- wPc, local <- wLocal
K == INSTANCE ConcurrentQueue WITH
       Methods <- {"token", "tokenBulk"}, InitialProducers <- 3, MaxProducers <- 3,
       MaxEnqueues <- MaxPerToken, pc <- wPc, local <- wLocal

ASSUME
  /\ Q!CountersAssumption /\ Q!ImplicitAssumption /\ E!ExplicitAssumption
  /\ H!HashAssumption /\ W!QueueAssumption /\ K!QueueAssumption

\* Thread ids whose hashes collide, at the end of a table.
Hashes == [i \in Ids |-> 3]

Symmetric == Permutations(Consumers) \cup Permutations(Blocks)
-----------------------------------------------------------------------------
SuiteInit ==
  /\ part \in Parts /\ Init /\ H!Init
  /\ IF part \in {"explicit", "explicit1"}
     THEN dequeued = 0 /\ entries = 0 /\ IF part = "explicit" THEN E!Init ELSE E1!Init
     ELSE /\ next = 0 /\ emptyFlags = 0 /\ slotsUsed = 0 /\ front = 0 /\ gaveUp = FALSE
          /\ IF part = "implicit1" THEN Q1!Init ELSE Q!Init
  /\ IF part = "token" THEN K!Init ELSE W!Init

SuiteNext ==
  \/ part = "blocking" /\ Next
     /\ UNCHANGED <<part, subVars, implicitVars, explicitVars, hashVars, walkVars>>
  \/ part = "implicit" /\ Q!Next
     /\ UNCHANGED <<part, vars, explicitVars, hashVars, walkVars>>
  \/ part = "implicit1" /\ Q1!Next
     /\ UNCHANGED <<part, vars, explicitVars, hashVars, walkVars>>
  \/ part = "explicit1" /\ ~gaveUp /\ E1!Next
     /\ UNCHANGED <<part, vars, implicitVars, hashVars, walkVars>>
  \/ part = "explicit" /\ ~gaveUp /\ E!Next
     /\ UNCHANGED <<part, vars, implicitVars, hashVars, walkVars>>
  \/ part = "hash" /\ H!Next
     /\ UNCHANGED <<part, vars, subVars, implicitVars, explicitVars, walkVars>>
  \/ part = "walk" /\ W!Next
     /\ UNCHANGED <<part, vars, subVars, implicitVars, explicitVars, hashVars>>
  \/ part = "token" /\ K!Next
     /\ UNCHANGED <<part, vars, subVars, implicitVars, explicitVars, hashVars>>

SuiteSpec ==
  SuiteInit /\ [][SuiteNext]_<<part, vars, subVars, implicitVars, explicitVars, hashVars, walkVars>>
-----------------------------------------------------------------------------
\* The sub-queues: every element moved out is the one enqueued under its number, at rest
\* nothing is lost, a block on the free list is in nobody's hands, and destroying the
\* sub-queue destroys what is left in it and frees each block once.
ElementsKept ==
  /\ part = "explicit" => E!ReadsWhatWasEnqueued /\ E!RestIsExact /\ E!DestructorExact
  /\ part = "explicit1" => E1!ReadsWhatWasEnqueued /\ E1!RestIsExact /\ E1!DestructorExact
  /\ part = "implicit1" => Q1!ReadsWhatWasEnqueued /\ Q1!RestIsExact /\ Q1!FreeBlockUnused /\ Q1!DestructorFreesAll
  /\ part = "implicit" => Q!ReadsWhatWasEnqueued /\ Q!RestIsExact /\ Q!FreeBlockUnused /\ Q!DestructorFreesAll

\* The table of implicit producers: threads do not share a producer, a table keeps a slot
\* that ends a search, and a thread that is gone leaves no entry behind.
ProducersOwned == part = "hash" => H!OneThreadPerProducer /\ H!SlotStaysFree /\ H!EntriesAreLive

\* A thread is given the producer it was given first, through every growth of the table.
SameProducer == H!SameProducer

\* A dequeue beside which nobody uses the queue returns less than it was asked for only
\* from an empty queue, whichever way it walks; tokens stay in the list, and those of the same
\* rotation spread over the producers.
ShortMeansEmpty ==
  /\ part = "walk" => W!ShortMeansEmpty
  /\ part = "token" => K!ShortMeansEmpty /\ K!TokensInList /\ K!TokensSpread
=============================================================================
