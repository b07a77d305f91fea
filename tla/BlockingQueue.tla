---------------------------- MODULE BlockingQueue ----------------------------
(***************************************************************************)
(* BlockingConcurrentQueue over LightweightSemaphore: the queue of the     *)
(* pipeline.  The inner lock-free queue is its number of elements; its     *)
(* try_dequeue may fail while others work on it and is then called again,  *)
(* which is a stutter here.  A load and the compare-exchange that it feeds *)
(* are one step when they succeed and nothing when they fail.  Signals and *)
(* waits of the operating system's semaphore are separate steps.           *)
(***************************************************************************)
EXTENDS Integers, FiniteSets

CONSTANTS Threads,
  Budget,    \* bound: elements enqueued in all
  MaxBulk,   \* bound: largest count or max of a bulk operation
  MaxInner   \* room of the inner queue: enqueue fails beyond it

ASSUME BlockingQueueAssumption ==
  /\ IsFiniteSet(Threads)
  /\ Budget \in Nat /\ MaxBulk \in Nat \ {0} /\ MaxInner \in Nat

VARIABLES
  m_count,   \* LightweightSemaphore::m_count
  m_sema,    \* the value of the operating system's semaphore
  inner,     \* elements in the inner queue
  pc, op,    \* where each thread is, and the operation it performs
  left       \* elements that may still be enqueued
vars == <<m_count, m_sema, inner, pc, op, left>>

\* timeout: -1 waits for ever, 1 may time out, 0 does not sleep; "try" never waits.
\* max: what is still wanted; n: permits held, or signals to post.
NoOp == [kind |-> "none", timeout |-> 0, max |-> 0, n |-> 0]

Init ==
  /\ m_count = 0 /\ m_sema = 0 /\ inner = 0 /\ left = Budget
  /\ pc = [t \in Threads |-> "idle"] /\ op = [t \in Threads |-> NoOp]

Goto(t, label, o) == pc' = [pc EXCEPT ![t] = label] /\ op' = [op EXCEPT ![t] = o]
Done(t) == Goto(t, "idle", NoOp)
MinOf(a, b) == IF a < b THEN a ELSE b
-----------------------------------------------------------------------------
(* Enqueueing                                                                 *)
\* Mutant: the semaphore is signalled although the inner queue refused the elements.
EnqueueUnchecked(t, n) ==
  /\ pc[t] = "idle" /\ n <= left /\ left' = left - n
  /\ inner' = IF inner + n <= MaxInner THEN inner + n ELSE inner
  /\ Goto(t, "signal", [NoOp EXCEPT !.kind = "enqueue", !.n = n]) /\ UNCHANGED <<m_count, m_sema>>

\* enqueue, try_enqueue and the bulk forms: only a success signals.
Enqueue(t, n) ==
  /\ pc[t] = "idle" /\ n <= left /\ left' = left - n
  /\ IF inner + n <= MaxInner
     THEN inner' = inner + n /\ Goto(t, "signal", [NoOp EXCEPT !.kind = "enqueue", !.n = n])
     ELSE Done(t) /\ UNCHANGED inner
  /\ UNCHANGED <<m_count, m_sema>>

\* Mutant: as many sleepers are released as wait after the signal.
ToReleaseAfter(oldCount, count) == MinOf(-(oldCount + count), count)

\* Sleeping threads to release: those below zero, at most as many as were added.
ToRelease(oldCount, count) == MinOf(-oldCount, count)

\* signal: fetch_add, then one sem_post for each sleeping thread to release.
Signal(t) ==
  LET n == ToRelease(m_count, op[t].n) IN
  /\ pc[t] = "signal" /\ m_count' = m_count + op[t].n
  /\ IF n > 0 THEN Goto(t, "post", [op[t] EXCEPT !.n = n]) ELSE Done(t)
  /\ UNCHANGED <<m_sema, inner, left>>

Post(t) ==
  /\ pc[t] = "post" /\ m_sema' = m_sema + 1
  /\ IF op[t].n > 1 THEN Goto(t, "post", [op[t] EXCEPT !.n = @ - 1]) ELSE Done(t)
  /\ UNCHANGED <<m_count, inner, left>>
-----------------------------------------------------------------------------
(* Dequeueing: first the permits, then the elements                           *)
\* try_dequeue(_bulk), wait_dequeue(_bulk) and their timed forms.
Dequeue(t, kind, timeout, max) ==
  /\ pc[t] = "idle" /\ (kind = "try" => timeout = 0)
  /\ Goto(t, "try", [kind |-> kind, timeout |-> timeout, max |-> max, n |-> 0])
  /\ UNCHANGED <<m_count, m_sema, inner, left>>

\* newCount of tryWaitMany; tryWait is the case max = 1.
Grab(t, max) ==
  LET n == MinOf(m_count, max) IN
  m_count' = m_count - n /\ Goto(t, "take", [op[t] EXCEPT !.n = @ + n])

\* tryWait and tryWaitMany; a waiting operation goes on to spin.
TryWait(t) ==
  /\ pc[t] = "try"
  /\ IF m_count > 0 THEN Grab(t, op[t].max)
     ELSE /\ IF op[t].kind = "try" THEN Done(t) ELSE Goto(t, "spin", op[t])
          /\ UNCHANGED m_count
  /\ UNCHANGED <<m_sema, inner, left>>

\* The spinning loop of wait(Many)WithPartialSpinning, of any number of rounds.
SpinTake(t) ==
  /\ pc[t] = "spin" /\ m_count > 0 /\ Grab(t, op[t].max) /\ UNCHANGED <<m_sema, inner, left>>

\* One permit is held; waitMany tries for more.
Granted(t) == IF op[t].max > 1 THEN Goto(t, "more", [op[t] EXCEPT !.n = 1]) ELSE Goto(t, "take", [op[t] EXCEPT !.n = 1])

\* The fetch_sub that ends the spinning.
SpinEnd(t) ==
  /\ pc[t] = "spin" /\ m_count' = m_count - 1
  /\ IF m_count > 0 THEN Granted(t)
     ELSE Goto(t, IF op[t].timeout = 0 THEN "adjust" ELSE "sleep", op[t])
  /\ UNCHANGED <<m_sema, inner, left>>

\* Semaphore::wait and timed_wait return true.
Wake(t) ==
  /\ pc[t] = "sleep" /\ m_sema > 0 /\ m_sema' = m_sema - 1 /\ Granted(t)
  /\ UNCHANGED <<m_count, inner, left>>

\* timed_wait returns false; it does so only with the semaphore at zero.
TimeOut(t) ==
  /\ pc[t] = "sleep" /\ op[t].timeout > 0 /\ m_sema = 0 /\ Goto(t, "adjust", op[t])
  /\ UNCHANGED <<m_count, m_sema, inner, left>>

\* Mutant: the count stays decremented after a timeout.
GiveUpForget(t) ==
  /\ pc[t] = "adjust" /\ m_count < 0 /\ Done(t) /\ UNCHANGED <<m_count, m_sema, inner, left>>

\* Nobody signalled for this thread: its decrement is taken back.
GiveUp(t) ==
  /\ pc[t] = "adjust" /\ m_count < 0 /\ m_count' = m_count + 1 /\ Done(t)
  /\ UNCHANGED <<m_sema, inner, left>>

\* Somebody did: the post is there, or will be.
AdjustLoad(t) ==
  /\ pc[t] = "adjust" /\ m_count >= 0 /\ Goto(t, "trysem", op[t])
  /\ UNCHANGED <<m_count, m_sema, inner, left>>

TrySem(t) ==
  /\ pc[t] = "trysem"
  /\ IF m_sema > 0 THEN m_sema' = m_sema - 1 /\ Granted(t)
     ELSE Goto(t, "adjust", op[t]) /\ UNCHANGED m_sema
  /\ UNCHANGED <<m_count, inner, left>>

\* tryWaitMany(max - 1) after the first permit.
More(t) ==
  /\ pc[t] = "more"
  /\ IF m_count > 0 THEN Grab(t, op[t].max - 1) ELSE Goto(t, "take", op[t]) /\ UNCHANGED m_count
  /\ UNCHANGED <<m_sema, inner, left>>

\* The loops around the inner try_dequeue and try_dequeue_bulk.
Take(t) ==
  /\ pc[t] = "take" /\ inner > 0 /\ inner' = inner - 1
  /\ IF op[t].n > 1 THEN Goto(t, "take", [op[t] EXCEPT !.n = @ - 1]) ELSE Done(t)
  /\ UNCHANGED <<m_count, m_sema, left>>

Start(t) ==
  \/ \E n \in 1 .. MaxBulk : Enqueue(t, n)
  \/ \E kind \in {"try", "wait"}, timeout \in {-1, 0, 1}, max \in 1 .. MaxBulk : Dequeue(t, kind, timeout, max)

\* The steps of a call that has begun, but for a timeout.
Step(t) ==
  \/ Signal(t) \/ Post(t) \/ TryWait(t) \/ SpinTake(t) \/ SpinEnd(t) \/ Wake(t)
  \/ GiveUp(t) \/ AdjustLoad(t) \/ TrySem(t) \/ More(t) \/ Take(t)

Next == \E t \in Threads : Start(t) \/ Step(t) \/ TimeOut(t)

Spec == Init /\ [][Next]_vars

\* Threads inside a call run on, and the clock of a timed wait runs.
Liveness == \A t \in Threads : WF_vars(Step(t)) /\ WF_vars(TimeOut(t))
FairSpec == Spec /\ Liveness
-----------------------------------------------------------------------------
\* The sum of f over the threads, as the number of its units.
Units(f) == UNION {{t} \X (1 .. f[t]) : t \in Threads}
Total(f) == Cardinality(Units(f))

\* Permits held, permits a thread is about to signal, releases it is about to post,
\* and threads that took a permit below zero and have not been released.
Permits == [t \in Threads |-> IF pc[t] \in {"take", "more"} THEN op[t].n ELSE 0]
Signals == [t \in Threads |-> IF pc[t] = "signal" THEN op[t].n ELSE 0]
Posts   == [t \in Threads |-> IF pc[t] = "post" THEN op[t].n ELSE 0]
Waiters == [t \in Threads |-> IF pc[t] \in {"sleep", "adjust", "trysem"} THEN 1 ELSE 0]

\* size_approx
SizeApprox == IF m_count > 0 THEN m_count ELSE 0

\* Every permit stands for an element: the loop around the inner try_dequeue, which has
\* no other exit, always finds one.
PermitHasElement == Total(Permits) <= inner

\* Whatever timeouts raced whatever signals: once no call is in progress, size_approx is the
\* number of elements and no post is left over, and no wakeup is lost, that is, when all
\* others are outside the queue a thread sleeps without a post only if the queue is empty.
QuietIsExact ==
  (\A t \in Threads : pc[t] \in {"idle", "sleep"}) =>
    /\ (\A t \in Threads : pc[t] = "idle") => SizeApprox = inner /\ m_count >= 0 /\ m_sema = 0
    /\ (m_sema = 0 /\ \E t \in Threads : pc[t] = "sleep") => inner = 0

Labels == {"idle", "signal", "post", "try", "spin", "sleep", "adjust", "trysem", "more", "take"}

TypeOK ==
  /\ m_count \in Int /\ m_sema \in Nat /\ inner \in Nat /\ left \in Nat
  /\ pc \in [Threads -> Labels]
  /\ op \in [Threads -> [kind : {"none", "enqueue", "try", "wait"}, timeout : {-1, 0, 1},
                         max : 0 .. MaxBulk, n : 0 .. MaxBulk]]

\* What a thread holds at each of its places.
HeldAt ==
  \A t \in Threads :
    /\ pc[t] \in {"signal", "post", "take"} => op[t].n > 0
    /\ pc[t] \in {"try", "spin", "sleep", "adjust", "trysem"} => op[t].n = 0 /\ op[t].max > 0
    /\ pc[t] = "more" => op[t].n = 1 /\ op[t].max > 1

\* Why: an element is held by a permit, about to be signalled, counted, or owed to a
\* thread that waits; and a thread waits for a post that is there, for one that is
\* about to come, or with the count below zero on its behalf.
Account ==
  /\ inner = Total(Permits) + Total(Signals) + m_count + Total(Waiters)
  /\ Total(Waiters) = m_sema + Total(Posts) + (IF m_count < 0 THEN -m_count ELSE 0)

\* A timed dequeue returns.
TimedReturns == \A t \in Threads : (pc[t] # "idle" /\ op[t].timeout >= 0) ~> (pc[t] = "idle")

\* Elements do not stay in the queue while a thread waits for one.
WaiterIsServed == []<>(inner = 0 \/ \A t \in Threads : pc[t] # "sleep")
=============================================================================
