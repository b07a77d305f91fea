----------------------------- MODULE ProducerHash -----------------------------
(***************************************************************************)
(* How a thread that enqueues without a token finds its implicit producer  *)
(* in moodycamel::ConcurrentQueue: the chain of lock-free hash tables      *)
(* keyed by thread id, their growth, the list of producers with its        *)
(* recycling, and what the exit of a thread undoes.  A step is one atomic  *)
(* access, sequentially consistent.  A thread id may be taken again by a   *)
(* new thread once its thread is gone.                                     *)
(***************************************************************************)
EXTENDS Integers, Sequences

CONSTANTS
  Threads,          \* the thread ids
  HashOf,           \* hash_thread_id
  InitialCapacity,  \* INITIAL_IMPLICIT_PRODUCER_HASH_SIZE
  MaxTables, MaxProducers,  \* an allocation beyond these fails
  MaxExits,         \* bound on the number of threads that exit
  empty,            \* invalid_thread_id
  reusable,         \* invalid_thread_id2
  nullptr

HashAssumption ==
  /\ InitialCapacity \in Nat \ {0} /\ MaxTables \in Nat \ {0} /\ MaxProducers \in Nat /\ MaxExits \in Nat
  /\ {empty, reusable, nullptr} \cap Threads = {} /\ empty # reusable
  /\ HashOf \in [Threads -> Nat]

VARIABLES
  tables,    \* the hash tables, oldest first; implicitProducerHash is the last
  hashCount, \* implicitProducerHashCount
  resizing,  \* implicitProducerHashResizeInProgress
  inactive,  \* the producers in the order of the list, and their `inactive`
  mutex,     \* the mutex of ThreadExitNotifier: its holder, or nullptr
  listener,  \* the producer whose exit listener the thread has subscribed
  pc, local, \* where each thread is, and its locals
  answer,    \* what get_or_add_implicit_producer last returned to the thread
  exits      \* how many threads have exited
vars == <<tables, hashCount, resizing, inactive, mutex, listener, pc, local, answer, exits>>
shared == <<tables, hashCount, resizing, inactive, mutex, listener>>

NewTable(capacity) ==
  [cap |-> capacity, key |-> [i \in 0 .. capacity - 1 |-> empty], val |-> [i \in 0 .. capacity - 1 |-> 0]]

\* main: mainHash; hash: the table at hand; index; count: newCount; prod: the producer.
NoLocals == [main |-> 0, hash |-> 0, index |-> 0, count |-> 0, prod |-> 0]

Init ==
  /\ tables = <<NewTable(InitialCapacity)>> /\ hashCount = 0 /\ resizing = FALSE
  /\ inactive = <<>> /\ mutex = nullptr /\ listener = [t \in Threads |-> 0]
  /\ pc = [t \in Threads |-> "idle"] /\ local = [t \in Threads |-> NoLocals]
  /\ answer = [t \in Threads |-> 0] /\ exits = 0

Main == Len(tables)
Slot(t, k) == local[t].index % tables[k].cap
Key(t, k) == tables[k].key[Slot(t, k)]
Goto(t, label, l) == pc' = [pc EXCEPT ![t] = label] /\ local' = [local EXCEPT ![t] = l]
Advance(t) == [local[t] EXCEPT !.index = @ + 1]

Return(t, p) == Goto(t, "idle", NoLocals) /\ answer' = [answer EXCEPT ![t] = p]

SetKey(t, k, key) == tables' = [tables EXCEPT ![k].key[Slot(t, k)] = key]
SetEntry(t, k, p) == tables' = [tables EXCEPT ![k].key[Slot(t, k)] = t, ![k].val[Slot(t, k)] = p]
-----------------------------------------------------------------------------
(* get_or_add_implicit_producer: the search                                   *)
Lookup(t) ==
  /\ pc[t] = "idle"
  /\ Goto(t, "search", [NoLocals EXCEPT !.main = Main, !.hash = Main, !.index = HashOf[t]])
  /\ UNCHANGED <<shared, answer>>

\* Mutant: only the current table is searched.
SearchCurrent(t) ==
  LET l == local[t] IN
  /\ pc[t] = "search"
  /\ CASE Key(t, l.hash) = t -> Return(t, tables[l.hash].val[Slot(t, l.hash)])
       [] Key(t, l.hash) = empty -> Goto(t, "count", [NoLocals EXCEPT !.main = l.main]) /\ UNCHANGED answer
       [] OTHER -> Goto(t, "search", Advance(t)) /\ UNCHANGED answer
  /\ UNCHANGED shared

\* A slot that was never used ends the search of a table; the tables are searched from
\* the newest to the oldest.  A producer found in an older one is added to the current one.
Search(t) ==
  LET l == local[t] IN
  /\ pc[t] = "search"
  /\ CASE Key(t, l.hash) = t /\ l.hash = l.main ->
            Return(t, tables[l.hash].val[Slot(t, l.hash)])
       [] Key(t, l.hash) = t /\ l.hash # l.main ->
            /\ Goto(t, "move.empty", [NoLocals EXCEPT !.main = l.main, !.index = HashOf[t],
                                                      !.prod = tables[l.hash].val[Slot(t, l.hash)]])
            /\ UNCHANGED answer
       [] Key(t, l.hash) = empty /\ l.hash > 1 ->
            Goto(t, "search", [l EXCEPT !.hash = @ - 1, !.index = HashOf[t]]) /\ UNCHANGED answer
       [] Key(t, l.hash) = empty /\ l.hash = 1 ->
            Goto(t, "count", [NoLocals EXCEPT !.main = l.main]) /\ UNCHANGED answer
       [] OTHER -> Goto(t, "search", Advance(t)) /\ UNCHANGED answer
  /\ UNCHANGED shared

\* Two exchanges per slot: for a slot never used, then for one given up.
MoveEmpty(t) ==
  LET l == local[t] IN
  /\ pc[t] = "move.empty"
  /\ IF Key(t, l.main) = empty THEN SetEntry(t, l.main, l.prod) /\ Return(t, l.prod)
     ELSE Goto(t, "move.reusable", l) /\ UNCHANGED <<tables, answer>>
  /\ UNCHANGED <<hashCount, resizing, inactive, mutex, listener>>

MoveReusable(t) ==
  LET l == local[t] IN
  /\ pc[t] = "move.reusable"
  /\ IF Key(t, l.main) = reusable THEN SetEntry(t, l.main, l.prod) /\ Return(t, l.prod)
     ELSE Goto(t, "move.empty", Advance(t)) /\ UNCHANGED <<tables, answer>>
  /\ UNCHANGED <<hashCount, resizing, inactive, mutex, listener>>
-----------------------------------------------------------------------------
(* get_or_add_implicit_producer: room for one more, and a producer            *)
Count(t) ==
  /\ pc[t] = "count" /\ hashCount' = hashCount + 1
  /\ Goto(t, "resize", [local[t] EXCEPT !.count = hashCount + 1])
  /\ UNCHANGED <<tables, resizing, inactive, mutex, listener, answer>>

HalfFull(count, k) == count >= tables[k].cap \div 2

\* From half full on the flag is tried; whoever gets it enlarges the table.
TryResize(t) ==
  /\ pc[t] = "resize"
  /\ IF HalfFull(local[t].count, local[t].main) /\ ~resizing
     THEN resizing' = TRUE /\ Goto(t, "locked", local[t])
     ELSE Goto(t, "room", local[t]) /\ UNCHANGED resizing
  /\ UNCHANGED <<tables, hashCount, inactive, mutex, listener, answer>>

\* The capacity is doubled until the count is below half of it.
Grown(count, capacity) ==
  LET grow[c \in 0 .. 4 * (count + capacity)] == IF count >= c \div 2 THEN grow[2 * c] ELSE c
  IN grow[2 * capacity]

\* With the flag held, the current table is loaded again: it may have been enlarged.
Resize(t) ==
  /\ pc[t] = "locked"
  /\ \/ /\ ~HalfFull(local[t].count, Main)
        /\ Goto(t, "unlock", [local[t] EXCEPT !.main = Main]) /\ UNCHANGED tables
     \/ /\ HalfFull(local[t].count, Main) /\ Main < MaxTables
        /\ tables' = Append(tables, NewTable(Grown(local[t].count, tables[Main].cap)))
        /\ Goto(t, "unlock", [local[t] EXCEPT !.main = Main + 1])
     \/ /\ HalfFull(local[t].count, Main) /\ Main = MaxTables
        /\ Goto(t, "uncount.unlock", NoLocals) /\ UNCHANGED tables
  /\ UNCHANGED <<hashCount, resizing, inactive, mutex, listener, answer>>

Unlock(t) ==
  /\ pc[t] = "unlock" /\ resizing' = FALSE /\ Goto(t, "room", local[t])
  /\ UNCHANGED <<tables, hashCount, inactive, mutex, listener, answer>>

\* An allocation failed: the thread is not counted, and gets a null pointer.
Uncount(t) ==
  /\ pc[t] \in {"uncount", "uncount.unlock"} /\ hashCount' = hashCount - 1
  /\ IF pc[t] = "uncount" THEN Return(t, 0) ELSE Goto(t, "unlock.fail", NoLocals) /\ UNCHANGED answer
  /\ UNCHANGED <<tables, resizing, inactive, mutex, listener>>

UnlockFail(t) ==
  /\ pc[t] = "unlock.fail" /\ resizing' = FALSE /\ Return(t, 0)
  /\ UNCHANGED <<tables, hashCount, inactive, mutex, listener>>

\* Below three quarters the thread adds itself to the table it knows; else it waits for
\* the thread that enlarges it.  The list of producers is read from its tail.
Room(t) ==
  LET cap == tables[local[t].main].cap IN
  /\ pc[t] = "room"
  /\ IF local[t].count < (cap \div 2) + (cap \div 4)
     THEN Goto(t, "recycle", [local[t] EXCEPT !.hash = Len(inactive)])
     ELSE Goto(t, "resize", [local[t] EXCEPT !.main = Main])
  /\ UNCHANGED <<shared, answer>>

\* Mutant: a producer is taken whether or not its thread has given it up.
RecycleAny(t) ==
  LET l == local[t] IN
  /\ pc[t] = "recycle"
  /\ IF l.hash > 0 THEN UNCHANGED inactive /\ Goto(t, "subscribe", [l EXCEPT !.prod = l.hash, !.hash = 0])
     ELSE Goto(t, "create", l) /\ UNCHANGED inactive
  /\ UNCHANGED <<tables, hashCount, resizing, mutex, listener, answer>>

\* The first producer of the list that is inactive is taken.
Recycle(t) ==
  LET l == local[t] IN
  /\ pc[t] = "recycle"
  /\ IF l.hash = 0 THEN Goto(t, "create", l) /\ UNCHANGED inactive
     ELSE IF inactive[l.hash]
     THEN /\ inactive' = [inactive EXCEPT ![l.hash] = FALSE]
          /\ Goto(t, "subscribe", [l EXCEPT !.prod = l.hash, !.hash = 0])
     ELSE Goto(t, "recycle", [l EXCEPT !.hash = @ - 1]) /\ UNCHANGED inactive
  /\ UNCHANGED <<tables, hashCount, resizing, mutex, listener, answer>>

\* create<ImplicitProducer> and add_producer.
Create(t) ==
  /\ pc[t] = "create"
  /\ IF Len(inactive) < MaxProducers
     THEN /\ inactive' = Append(inactive, FALSE)
          /\ Goto(t, "subscribe", [local[t] EXCEPT !.prod = Len(inactive) + 1])
     ELSE Goto(t, "uncount", NoLocals) /\ UNCHANGED inactive
  /\ UNCHANGED <<tables, hashCount, resizing, mutex, listener, answer>>

\* ThreadExitNotifier::subscribe, under the mutex of all notifiers.
Subscribe(t) ==
  /\ pc[t] = "subscribe" /\ mutex = nullptr /\ listener' = [listener EXCEPT ![t] = local[t].prod]
  /\ Goto(t, "add.reusable", [local[t] EXCEPT !.index = HashOf[t], !.count = 0])
  /\ UNCHANGED <<tables, hashCount, resizing, inactive, mutex, answer>>

\* Two exchanges per slot: for one given up, whose use is counted already, then for one
\* never used.
AddReusable(t) ==
  LET l == local[t] IN
  /\ pc[t] = "add.reusable"
  /\ IF Key(t, l.main) = reusable THEN SetEntry(t, l.main, l.prod) /\ Goto(t, "added", l)
     ELSE Goto(t, "add.empty", l) /\ UNCHANGED tables
  /\ UNCHANGED <<hashCount, resizing, inactive, mutex, listener, answer>>

Added(t) ==
  /\ pc[t] = "added" /\ hashCount' = hashCount - 1 /\ Return(t, local[t].prod)
  /\ UNCHANGED <<tables, resizing, inactive, mutex, listener>>

AddEmpty(t) ==
  LET l == local[t] IN
  /\ pc[t] = "add.empty"
  /\ IF Key(t, l.main) = empty THEN SetEntry(t, l.main, l.prod) /\ Return(t, l.prod)
     ELSE Goto(t, "add.reusable", Advance(t)) /\ UNCHANGED <<tables, answer>>
  /\ UNCHANGED <<hashCount, resizing, inactive, mutex, listener>>
-----------------------------------------------------------------------------
(* The exit of a thread: ~ThreadExitNotifier, implicit_producer_thread_exited *)
Exit(t) ==
  /\ pc[t] = "idle" /\ listener[t] # 0 /\ exits < MaxExits /\ mutex = nullptr
  /\ mutex' = t /\ exits' = exits + 1
  /\ Goto(t, "exit", [NoLocals EXCEPT !.hash = Main, !.index = HashOf[t]])
  /\ UNCHANGED <<tables, hashCount, resizing, inactive, listener, answer>>

\* The walk goes on with the table before, and ends with the oldest.
ExitNext(t) ==
  IF local[t].hash > 1 THEN Goto(t, "exit", [local[t] EXCEPT !.hash = @ - 1, !.index = HashOf[t]])
  ELSE Goto(t, "exit.inactive", NoLocals)

\* The thread's slot of each table becomes reusable.
ExitProbe(t) ==
  LET l == local[t] IN
  /\ pc[t] = "exit"
  /\ IF Key(t, l.hash) = t THEN SetKey(t, l.hash, reusable) /\ ExitNext(t)
     ELSE /\ IF Key(t, l.hash) = empty THEN ExitNext(t) ELSE Goto(t, "exit", Advance(t))
          /\ UNCHANGED tables
  /\ UNCHANGED <<hashCount, resizing, inactive, mutex, listener, answer>>

\* The producer is recyclable from here on; the listener goes with the thread.
ExitInactive(t) ==
  /\ pc[t] = "exit.inactive" /\ inactive' = [inactive EXCEPT ![listener[t]] = TRUE]
  /\ listener' = [listener EXCEPT ![t] = 0] /\ answer' = [answer EXCEPT ![t] = 0]
  /\ mutex' = nullptr /\ Goto(t, "idle", NoLocals)
  /\ UNCHANGED <<tables, hashCount, resizing>>

Proceed(t) ==
  \/ Search(t) \/ MoveEmpty(t) \/ MoveReusable(t) \/ Count(t) \/ TryResize(t) \/ Resize(t)
  \/ Unlock(t) \/ Uncount(t) \/ UnlockFail(t) \/ Room(t) \/ Recycle(t) \/ Create(t) \/ Subscribe(t)
  \/ AddReusable(t) \/ Added(t) \/ AddEmpty(t) \/ ExitProbe(t) \/ ExitInactive(t)

Next == \E t \in Threads : Exit(t) \/ ((Lookup(t) \/ Proceed(t)) /\ UNCHANGED exits)

Spec == Init /\ [][Next]_vars

\* Every thread that runs is scheduled, and a mutex is not withheld for ever.
FairSpec == Spec /\ \A t \in Threads : WF_vars(Proceed(t) /\ UNCHANGED exits) /\ SF_vars(Subscribe(t) /\ UNCHANGED exits)
-----------------------------------------------------------------------------
Holds(t) == IF listener[t] # 0 THEN listener[t] ELSE IF pc[t] = "subscribe" THEN local[t].prod ELSE 0

\* No two threads have the same producer, whose enqueue is for one thread only, and a
\* producer that a thread has is not up for recycling.
OneThreadPerProducer ==
  \A t \in Threads : Holds(t) # 0 =>
    /\ pc[t] # "exit.inactive" => ~inactive[Holds(t)]
    /\ \A u \in Threads \ {t} : Holds(u) # Holds(t)

\* A thread is always given the producer it was given first, through every growth of the
\* table: else its elements would not leave the queue in the order they went in.
SameProducer ==
  [][\A t \in Threads : listener[t] # 0 /\ answer'[t] # answer[t] /\ listener'[t] # 0 =>
        answer'[t] = listener[t]]_vars

\* "Not an infinite loop because at least one slot is free in the hash table": every table
\* keeps a slot that was never used, which is what ends a search.
SlotStaysFree == \A k \in DOMAIN tables : \E i \in DOMAIN tables[k].key : tables[k].key[i] = empty

\* What a thread leaves behind can be used again: with no thread inside the queue, the
\* entries of the tables belong to threads that have a producer, and name that producer.
EntriesAreLive ==
  \A k \in DOMAIN tables : \A i \in DOMAIN tables[k].key : LET t == tables[k].key[i] IN
    t \in Threads /\ pc[t] = "idle" => listener[t] # 0 /\ tables[k].val[i] = listener[t]

=============================================================================
