----------------------------- MODULE TimerQueue -----------------------------
(***************************************************************************)
(* The timers of an event loop (net/TimerQueue, Timer).  Any thread adds   *)
(* and cancels timers; the work is done on the loop's thread, at once when *)
(* the caller is on it and otherwise by a functor that is queued.  One     *)
(* kernel timer is armed for the earliest expiration.                      *)
(*                                                                         *)
(* A Timer object has an address, which is used again after delete; a      *)
(* TimerId is an address and the timer's sequence number.                  *)
(***************************************************************************)
EXTENDS Naturals, Sequences, FiniteSets, FiniteSetsExt, SequencesExt

CONSTANTS
  Addrs,      \* bound: addresses of Timer objects
  MaxCreated, \* bound: timers ever made
  End,        \* bound: the clock stops here
  Intervals,  \* intervals of timers; 0 for one that does not repeat
  Windows     \* the build: a thread of the kernel's posts handleInLoop

VARIABLES
  clock,
  heap,       \* the Timer at each address; seq 0 where there is none
  issued,     \* the TimerIds given out: the address of each sequence number
  timers,     \* _timers: pairs of expiration and address
  active,     \* _activeTimers: pairs of address and sequence
  canceling,  \* _cancelingTimers
  calling,    \* _callingExpiredTimers
  expired,    \* the batch of handleInLoop
  next,       \* how many of the batch have run
  now,        \* when handleInLoop began
  armed,      \* when the kernel timer expires; 0 if it is not armed
  readable,   \* the timerfd has expired, and nobody reads it
  pending,    \* functors queued in the loop
  cancelled,  \* history: timers cancelled while they were in the queue
  late,       \* history: those of the batch that were cancelled during it
  done        \* history: timers that were deleted after they ran

vars == <<clock, heap, issued, timers, active, canceling, calling, expired, next, now,
          armed, readable, pending, cancelled, late, done>>

NoTimer == [seq |-> 0, exp |-> 0, every |-> 0]
Id(a) == <<a, heap[a].seq>>
Later(x, y) == IF x > y THEN x ELSE y

kernelVars == <<armed, readable>>
history == <<cancelled, late, done>>

-----------------------------------------------------------------------------
(* The kernel timer.                                                       *)

\* The shortest delay is one tick.
howMuchTimeFromNow(e) == Later(e, clock + 1)

\* In the Windows build a delay in seconds is taken for milliseconds, which
\* only makes it shorter.
WindowsTimes(e) == (clock + 1)..howMuchTimeFromNow(e)

\* Arming it for a time clears what it reported.
resetTimerfd(e) ==
  /\ readable' = FALSE
  /\ IF Windows THEN armed' \in WindowsTimes(e) ELSE armed' = howMuchTimeFromNow(e)

\* The clock's last tick lets every armed timer expire.
Due == armed # 0 /\ (clock >= armed \/ clock = End)

TimerExpires ==
  /\ Due
  /\ armed' = 0
  /\ IF Windows THEN /\ pending' = Append(pending, [op |-> "handle", id |-> <<>>])
                     /\ UNCHANGED readable
     ELSE readable' = TRUE /\ UNCHANGED pending
  /\ UNCHANGED <<clock, heap, issued, timers, active, canceling, calling, expired, next, now, history>>

Tick ==
  /\ clock < End
  /\ clock' = clock + 1
  /\ UNCHANGED <<heap, issued, timers, active, canceling, calling, expired, next, now,
                 kernelVars, pending, history>>

-----------------------------------------------------------------------------
(* On the loop's thread.                                                   *)

Earliest == Min({t[1] : t \in timers})

earliestChanged(e) == timers = {} \/ e < Earliest

Rearm(a) == IF earliestChanged(heap'[a].exp) THEN resetTimerfd(heap'[a].exp) ELSE UNCHANGED kernelVars

addTimerInLoop(a) ==
  /\ timers' = timers \cup {<<heap'[a].exp, a>>}
  /\ active' = active \cup {<<a, heap'[a].seq>>}
  /\ Rearm(a)

Found(id) == {t \in active : t = id}

\* Nothing is done for a timer that is not in the queue, unless the batch is
\* being run.
cancelInLoop(id) ==
  IF Found(id) # {}
  THEN LET a == id[1]
       IN  /\ timers' = timers \ {<<heap[a].exp, a>>}
           /\ active' = active \ Found(id)
           /\ heap' = [heap EXCEPT ![a] = NoTimer]
           /\ cancelled' = cancelled \cup {id}
           /\ UNCHANGED <<canceling, late>>
  ELSE /\ canceling' = IF calling THEN canceling \cup {id} ELSE canceling
       /\ late' = IF \E i \in DOMAIN expired : Id(expired[i]) = id THEN late \cup {id} ELSE late
       /\ UNCHANGED <<timers, active, heap, cancelled>>

\* What a timer's callback, or other code on the loop's thread, does with
\* the timers.
UserCode ==
  \/ /\ Len(issued) < MaxCreated
     /\ \E a \in {a \in Addrs : heap[a].seq = 0}, e \in 1..End, v \in Intervals :
          heap' = [heap EXCEPT ![a] = [seq |-> Len(issued) + 1, exp |-> e, every |-> v]]
          /\ issued' = Append(issued, a)
          /\ addTimerInLoop(a)
     /\ UNCHANGED <<canceling, cancelled, late>>
  \/ /\ \E n \in DOMAIN issued : cancelInLoop(<<issued[n], n>>)
     /\ UNCHANGED <<issued, kernelVars>>

LoopUses ==
  /\ calling => next > 0
  /\ UserCode
  /\ UNCHANGED <<clock, calling, expired, next, now, pending, done>>

Expired(t) == t[1] <= clock

\* handleInLoop up to the first callback.
handleInLoop ==
  LET out == {t \in timers : Expired(t)}
      order == SetToSortSeq(out, LAMBDA x, y : x[1] < y[1])
  IN  /\ expired' = [i \in DOMAIN order |-> order[i][2]]
      /\ timers' = timers \ out
      /\ active' = active \ {Id(t[2]) : t \in out}
      /\ calling' = TRUE
      /\ canceling' = {}
      /\ next' = 0
      /\ now' = clock

HandleRead ==
  /\ readable
  /\ ~calling
  /\ handleInLoop
  /\ UNCHANGED <<clock, heap, issued, kernelVars, pending, history>>

RunPending ==
  /\ ~calling
  /\ pending # <<>>
  /\ pending' = Tail(pending)
  /\ LET f == Head(pending)
     IN  \/ /\ f.op = "handle"
            /\ handleInLoop
            /\ UNCHANGED <<heap, kernelVars, cancelled, late>>
         \/ /\ f.op = "add"
            /\ heap' = heap
            /\ addTimerInLoop(f.id[1])
            /\ UNCHANGED <<canceling, calling, expired, next, now, cancelled, late>>
         \/ /\ f.op = "cancel"
            /\ cancelInLoop(f.id)
            /\ UNCHANGED <<calling, expired, next, now, kernelVars>>
  /\ UNCHANGED <<clock, issued, done>>

\* The next timer of the batch runs.
RunTimer ==
  /\ calling
  /\ next < Len(expired)
  /\ next' = next + 1
  /\ UNCHANGED <<clock, heap, issued, timers, active, canceling, calling, expired, now,
                 kernelVars, pending, history>>

\* Mutant of Restarts: a timer cancelled during the batch starts again.
RestartsAll(a) == heap[a].every > 0

Restarts(a) == heap[a].every > 0 /\ Id(a) \notin canceling

restart(a) == [heap[a] EXCEPT !.exp = now + heap[a].every]

Again(a) == <<restart(a).exp, a>>

\* reset: timers that repeat start again, the others are deleted.
Reset ==
  /\ calling
  /\ next = Len(expired)
  /\ calling' = FALSE
  /\ LET batch == {expired[i] : i \in DOMAIN expired}
         again == {a \in batch : Restarts(a)}
         queue == timers \cup {Again(a) : a \in again}
     IN  /\ heap' = [a \in Addrs |-> IF a \in again THEN restart(a)
                                     ELSE IF a \in batch THEN NoTimer ELSE heap[a]]
         /\ timers' = queue
         /\ active' = active \cup {Id(a) : a \in again}
         /\ done' = done \cup {Id(a) : a \in batch \ again}
         /\ IF queue # {} THEN resetTimerfd(Min({t[1] : t \in queue})) ELSE UNCHANGED kernelVars
  /\ expired' = <<>>
  /\ next' = 0
  /\ now' = 0
  /\ cancelled' = cancelled \cup late
  /\ late' = {}
  /\ UNCHANGED <<clock, issued, canceling, pending>>

-----------------------------------------------------------------------------
(* Other threads.                                                          *)

addTimer ==
  /\ Len(issued) < MaxCreated
  /\ \E a \in {a \in Addrs : heap[a].seq = 0}, e \in 1..End, v \in Intervals :
       /\ heap' = [heap EXCEPT ![a] = [seq |-> Len(issued) + 1, exp |-> e, every |-> v]]
       /\ pending' = Append(pending, [op |-> "add", id |-> <<a, Len(issued) + 1>>])
       /\ issued' = Append(issued, a)
  /\ UNCHANGED <<clock, timers, active, canceling, calling, expired, next, now, kernelVars, history>>

cancel ==
  /\ Len(pending) < MaxCreated
  /\ \E n \in DOMAIN issued :
       pending' = Append(pending, [op |-> "cancel", id |-> <<issued[n], n>>])
  /\ UNCHANGED <<clock, heap, issued, timers, active, canceling, calling, expired, next, now,
                 kernelVars, history>>

-----------------------------------------------------------------------------
Init ==
  /\ clock = 0 /\ heap = [a \in Addrs |-> NoTimer] /\ issued = <<>>
  /\ timers = {} /\ active = {} /\ canceling = {}
  /\ calling = FALSE /\ expired = <<>> /\ next = 0 /\ now = 0
  /\ armed = 0 /\ readable = FALSE /\ pending = <<>>
  /\ cancelled = {} /\ late = {} /\ done = {}

LoopStep == HandleRead \/ RunPending \/ RunTimer \/ Reset
Next == \/ Tick \/ TimerExpires \/ LoopStep \/ LoopUses \/ addTimer \/ cancel
        \/ (clock = End /\ UNCHANGED vars)
Spec == Init /\ [][Next]_vars
-----------------------------------------------------------------------------
Ids == {<<issued[n], n>> : n \in DOMAIN issued}
Batch == {expired[i] : i \in DOMAIN expired}
BatchIds == {Id(a) : a \in Batch}
Adding == {pending[i].id : i \in {i \in DOMAIN pending : pending[i].op = "add"}}

TypeOK ==
  /\ clock \in 0..End /\ armed \in 0..(2 * End)
  /\ active \subseteq Ids /\ late \subseteq BatchIds
  /\ {t[2] : t \in timers} \subseteq Addrs
  /\ next <= Len(expired)

\* _timers and _activeTimers hold the same timers, each under its own
\* expiration and sequence number, as the assertions of TimerQueue want.
SetsAgree ==
  /\ {<<t[2], heap[t[2]].seq>> : t \in timers} = active
  /\ \A t \in timers : heap[t[2]].exp = t[1]
  /\ Cardinality(timers) = Cardinality(active)

\* Each timer that was made and neither cancelled nor deleted after its run is
\* waiting to be added, in the queue or in the batch; and no other object is
\* on the heap: no timer is lost, leaked or used after its delete, also when
\* an address is used again.
EachTimerKept ==
  /\ Ids \ (cancelled \cup done) = Adding \cup active \cup BatchIds
  /\ {Id(a) : a \in {a \in Addrs : heap[a].seq # 0}} = Adding \cup active \cup BatchIds

\* A timer that was cancelled while it was in the queue does not run again, and
\* one cancelled while its batch was being run does not run after that batch.
CancelledStops == cancelled \cap (active \cup BatchIds) = {}

\* No timer of a batch runs before it is due.
NotEarly == \A a \in Batch : heap[a].exp <= now

\* While the loop waits, the kernel timer ends the wait no later than the
\* earliest timer, or a tick from now if that is later.
ArmedInTime ==
  (timers # {} /\ ~calling) =>
    \/ readable
    \/ \E i \in DOMAIN pending : pending[i].op = "handle"
    \/ armed # 0 /\ armed <= Later(Earliest, clock + 1)

=============================================================================
