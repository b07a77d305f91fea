------------------------ MODULE BlockingQueueProofs ------------------------
(***************************************************************************)
(* TLAPS proofs about BlockingQueue, for any number of threads and of      *)
(* elements: the semaphore's count, the posts under way and the elements   *)
(* agree however timeouts race signals.                                    *)
(***************************************************************************)
EXTENDS BlockingQueue, FiniteSetTheorems, TLAPS

-----------------------------------------------------------------------------
\* Sums over the threads.

\* The units of one thread.
LEMMA OneThread ==
  ASSUME NEW t, NEW n \in Nat
  PROVE  IsFiniteSet({t} \X (1 .. n)) /\ Cardinality({t} \X (1 .. n)) = n
<1>1. IsFiniteSet({t}) /\ Cardinality({t}) = 1
  BY FS_Singleton
<1>2. IsFiniteSet(1 .. n) /\ Cardinality(1 .. n) = n
  BY FS_Interval
<1>3. /\ IsFiniteSet({t} \X (1 .. n))
      /\ Cardinality({t} \X (1 .. n)) = Cardinality({t}) * Cardinality(1 .. n)
  BY <1>1, <1>2, FS_Product
<1> QED
  BY <1>1, <1>2, <1>3

\* The units of bounded summands are finitely many.
LEMMA UnitsFinite ==
  ASSUME NEW f \in [Threads -> 0 .. MaxBulk]
  PROVE  IsFiniteSet(Units(f)) /\ Total(f) \in Nat
<1>1. IsFiniteSet(1 .. MaxBulk)
  BY FS_Interval, BlockingQueueAssumption
<1>2. IsFiniteSet(Threads \X (1 .. MaxBulk))
  BY <1>1, FS_Product, BlockingQueueAssumption
<1>3. Units(f) \in SUBSET (Threads \X (1 .. MaxBulk))
  BY BlockingQueueAssumption DEF Units
<1>4. IsFiniteSet(Units(f))
  BY <1>2, <1>3, FS_Subset
<1> QED
  BY <1>4, FS_CardinalityType DEF Total

\* A sum changes by what one of its summands changes.
LEMMA TotalChange ==
  ASSUME NEW f \in [Threads -> 0 .. MaxBulk], NEW g \in [Threads -> 0 .. MaxBulk],
         NEW t \in Threads, \A u \in Threads \ {t} : g[u] = f[u]
  PROVE  Total(g) = Total(f) - f[t] + g[t] /\ Total(f) \in Nat /\ Total(g) \in Nat
<1> DEFINE A == {t} \X (1 .. f[t])
           B == {t} \X (1 .. g[t])
           R == UNION {{u} \X (1 .. f[u]) : u \in Threads \ {t}}
<1>1. Units(f) = R \cup A /\ Units(g) = R \cup B /\ R \cap A = {} /\ R \cap B = {}
  BY DEF Units
<1>2. /\ IsFiniteSet(Units(f)) /\ IsFiniteSet(Units(g))
      /\ Total(f) \in Nat /\ Total(g) \in Nat
  BY UnitsFinite
<1>3. f[t] \in Nat /\ g[t] \in Nat
  BY BlockingQueueAssumption
<1>4. /\ IsFiniteSet(A) /\ Cardinality(A) = f[t]
      /\ IsFiniteSet(B) /\ Cardinality(B) = g[t]
  BY <1>3, OneThread
<1> HIDE DEF A, B, R
<1>5. R \in SUBSET Units(f)
  BY <1>1
<1>6. IsFiniteSet(R) /\ Cardinality(R) \in Nat
  BY <1>2, <1>5, FS_Subset, FS_CardinalityType
<1>7. Cardinality(R \cup A) = Cardinality(R) + Cardinality(A) - Cardinality(R \cap A)
  BY <1>4, <1>6, FS_Union
<1>8. Cardinality(R \cup B) = Cardinality(R) + Cardinality(B) - Cardinality(R \cap B)
  BY <1>4, <1>6, FS_Union
<1>9. Cardinality(R \cap A) = 0 /\ Cardinality(R \cap B) = 0
  BY <1>1, FS_EmptySet
<1> QED
  BY <1>1, <1>2, <1>3, <1>4, <1>6, <1>7, <1>8, <1>9 DEF Total

\* A sum is zero exactly when its summands are.
LEMMA TotalZero ==
  ASSUME NEW f \in [Threads -> 0 .. MaxBulk]
  PROVE  Total(f) = 0 <=> \A t \in Threads : f[t] = 0
<1>1. IsFiniteSet(Units(f))
  BY UnitsFinite
<1>2. Total(f) = 0 <=> Units(f) = {}
  BY <1>1, FS_EmptySet DEF Total
<1>3. ASSUME \A t \in Threads : f[t] = 0 PROVE Units(f) = {}
  BY <1>3 DEF Units
<1>4. ASSUME NEW t \in Threads, f[t] # 0 PROVE Units(f) # {}
  <2>1. 1 \in 1 .. f[t]
    BY <1>4, BlockingQueueAssumption
  <2>2. <<t, 1>> \in Units(f)
    BY <2>1 DEF Units
  <2> QED
    BY <2>2
<1> QED
  BY <1>2, <1>3, <1>4

-----------------------------------------------------------------------------
\* The steps.

Op == [kind : {"none", "enqueue", "try", "wait"}, timeout : {-1, 0, 1},
       max : 0 .. MaxBulk, n : 0 .. MaxBulk]

\* What a thread at label l with operation o contributes to the sums.
Hold(l, o)   == IF l \in {"take", "more"} THEN o.n ELSE 0
Signal_(l, o) == IF l = "signal" THEN o.n ELSE 0
Post_(l, o)   == IF l = "post" THEN o.n ELSE 0
Wait_(l)      == IF l \in {"sleep", "adjust", "trysem"} THEN 1 ELSE 0

\* The summands are bounded.
LEMMA Summands ==
  ASSUME TypeOK
  PROVE  /\ Permits \in [Threads -> 0 .. MaxBulk] /\ Signals \in [Threads -> 0 .. MaxBulk]
         /\ Posts \in [Threads -> 0 .. MaxBulk] /\ Waiters \in [Threads -> 0 .. MaxBulk]
  BY BlockingQueueAssumption DEF TypeOK, Permits, Signals, Posts, Waiters

\* When one thread moves, the sums change by what it contributes.
LEMMA Move ==
  ASSUME TypeOK, NEW t \in Threads, NEW l \in Labels, NEW o \in Op, Goto(t, l, o)
  PROVE  /\ pc' \in [Threads -> Labels] /\ op' \in [Threads -> Op]
         /\ \A u \in Threads \ {t} : pc'[u] = pc[u] /\ op'[u] = op[u]
         /\ pc'[t] = l /\ op'[t] = o
         /\ Total(Permits)' = Total(Permits) - Hold(pc[t], op[t]) + Hold(l, o)
         /\ Total(Signals)' = Total(Signals) - Signal_(pc[t], op[t]) + Signal_(l, o)
         /\ Total(Posts)' = Total(Posts) - Post_(pc[t], op[t]) + Post_(l, o)
         /\ Total(Waiters)' = Total(Waiters) - Wait_(pc[t]) + Wait_(l)
         /\ Total(Permits) \in Nat /\ Total(Signals) \in Nat
         /\ Total(Posts) \in Nat /\ Total(Waiters) \in Nat
<1>1. /\ pc' \in [Threads -> Labels] /\ op' \in [Threads -> Op]
      /\ \A u \in Threads \ {t} : pc'[u] = pc[u] /\ op'[u] = op[u]
      /\ pc'[t] = l /\ op'[t] = o
  BY DEF TypeOK, Goto, Op
<1>2. /\ Permits \in [Threads -> 0 .. MaxBulk] /\ Signals \in [Threads -> 0 .. MaxBulk]
      /\ Posts \in [Threads -> 0 .. MaxBulk] /\ Waiters \in [Threads -> 0 .. MaxBulk]
  BY Summands
<1>3. /\ Permits' \in [Threads -> 0 .. MaxBulk] /\ Signals' \in [Threads -> 0 .. MaxBulk]
      /\ Posts' \in [Threads -> 0 .. MaxBulk] /\ Waiters' \in [Threads -> 0 .. MaxBulk]
  BY <1>1, BlockingQueueAssumption DEF Op, Permits, Signals, Posts, Waiters
<1>4. \A u \in Threads \ {t} : /\ Permits'[u] = Permits[u] /\ Signals'[u] = Signals[u]
                              /\ Posts'[u] = Posts[u] /\ Waiters'[u] = Waiters[u]
  BY <1>1 DEF Permits, Signals, Posts, Waiters
<1>5. /\ Permits[t] = Hold(pc[t], op[t]) /\ Permits'[t] = Hold(l, o)
      /\ Signals[t] = Signal_(pc[t], op[t]) /\ Signals'[t] = Signal_(l, o)
      /\ Posts[t] = Post_(pc[t], op[t]) /\ Posts'[t] = Post_(l, o)
      /\ Waiters[t] = Wait_(pc[t]) /\ Waiters'[t] = Wait_(l)
  BY <1>1 DEF Permits, Signals, Posts, Waiters, Hold, Signal_, Post_, Wait_
<1>6. Total(Permits)' = Total(Permits') /\ Total(Signals)' = Total(Signals')
      /\ Total(Posts)' = Total(Posts') /\ Total(Waiters)' = Total(Waiters')
  BY DEF Total, Units
<1>7. Total(Permits') = Total(Permits) - Permits[t] + Permits'[t] /\ Total(Permits) \in Nat
  BY ONLY <1>2, <1>3, <1>4, TotalChange, t \in Threads
<1>8. Total(Signals') = Total(Signals) - Signals[t] + Signals'[t] /\ Total(Signals) \in Nat
  BY ONLY <1>2, <1>3, <1>4, TotalChange, t \in Threads
<1>9. Total(Posts') = Total(Posts) - Posts[t] + Posts'[t] /\ Total(Posts) \in Nat
  BY ONLY <1>2, <1>3, <1>4, TotalChange, t \in Threads
<1>10. Total(Waiters') = Total(Waiters) - Waiters[t] + Waiters'[t] /\ Total(Waiters) \in Nat
  BY ONLY <1>2, <1>3, <1>4, TotalChange, t \in Threads
<1> QED
  BY <1>1, <1>5, <1>6, <1>7, <1>8, <1>9, <1>10

\* The inductive invariant.
Inv == TypeOK /\ HeldAt /\ Account

\* HeldAt for a thread at label l with operation o.
Held(l, o) ==
  /\ l \in {"signal", "post", "take"} => o.n > 0
  /\ l \in {"try", "spin", "sleep", "adjust", "trysem"} => o.n = 0 /\ o.max > 0
  /\ l = "more" => o.n = 1 /\ o.max > 1

Below(count) == IF count < 0 THEN -count ELSE 0

\* A step keeps the invariant when the counters change as the contributions of the
\* thread that moves do.
LEMMA Keeps ==
  ASSUME Inv, NEW t \in Threads, NEW l \in Labels, NEW o \in Op, Goto(t, l, o), Held(l, o),
         m_count' \in Int, m_sema' \in Nat, inner' \in Nat, left' \in Nat,
         inner' - m_count' - Hold(l, o) - Signal_(l, o) - Wait_(l)
           = inner - m_count - Hold(pc[t], op[t]) - Signal_(pc[t], op[t]) - Wait_(pc[t]),
         Wait_(l) - m_sema' - Post_(l, o) - Below(m_count')
           = Wait_(pc[t]) - m_sema - Post_(pc[t], op[t]) - Below(m_count)
  PROVE  Inv'
<1>1. TypeOK /\ HeldAt /\ Account
  BY DEF Inv
<1>2. /\ pc' \in [Threads -> Labels] /\ op' \in [Threads -> Op]
      /\ \A u \in Threads \ {t} : pc'[u] = pc[u] /\ op'[u] = op[u]
      /\ pc'[t] = l /\ op'[t] = o
  BY ONLY Move, <1>1, t \in Threads, l \in Labels, o \in Op, Goto(t, l, o)
<1>3. /\ Total(Permits)' = Total(Permits) - Hold(pc[t], op[t]) + Hold(l, o)
      /\ Total(Signals)' = Total(Signals) - Signal_(pc[t], op[t]) + Signal_(l, o)
      /\ Total(Posts)' = Total(Posts) - Post_(pc[t], op[t]) + Post_(l, o)
      /\ Total(Waiters)' = Total(Waiters) - Wait_(pc[t]) + Wait_(l)
      /\ Total(Permits) \in Nat /\ Total(Signals) \in Nat
      /\ Total(Posts) \in Nat /\ Total(Waiters) \in Nat
  BY ONLY Move, <1>1, t \in Threads, l \in Labels, o \in Op, Goto(t, l, o)
<1>4. TypeOK'
  BY <1>2 DEF TypeOK, Op
<1>5. HeldAt'
  BY <1>1, <1>2 DEF HeldAt, Held
<1>6. o.n \in Nat /\ op[t].n \in Nat
  BY <1>1, BlockingQueueAssumption DEF TypeOK, Op
<1>7. /\ Hold(l, o) \in Nat /\ Hold(pc[t], op[t]) \in Nat
      /\ Signal_(l, o) \in Nat /\ Signal_(pc[t], op[t]) \in Nat
      /\ Post_(l, o) \in Nat /\ Post_(pc[t], op[t]) \in Nat
      /\ Wait_(l) \in Nat /\ Wait_(pc[t]) \in Nat
  BY <1>6 DEF Hold, Signal_, Post_, Wait_
<1>8. m_count \in Int /\ m_sema \in Nat /\ inner \in Nat
  BY <1>1 DEF TypeOK
<1>9. Below(m_count) \in Int /\ Below(m_count') \in Int
  BY <1>8 DEF Below
<1>10. /\ inner = Total(Permits) + Total(Signals) + m_count + Total(Waiters)
       /\ Total(Waiters) = m_sema + Total(Posts) + Below(m_count)
  BY <1>1 DEF Account, Below
<1>11. /\ inner' = Total(Permits)' + Total(Signals)' + m_count' + Total(Waiters)'
       /\ Total(Waiters)' = m_sema' + Total(Posts)' + Below(m_count')
  BY <1>3, <1>7, <1>8, <1>9, <1>10
<1>12. Account'
  BY <1>11 DEF Account, Below
<1> QED
  BY <1>4, <1>5, <1>12 DEF Inv

\* An operation with another number of permits or signals.
With(o, k) == [o EXCEPT !.n = k]

LEMMA WithFields ==
  ASSUME NEW o \in Op, NEW k \in 0 .. MaxBulk
  PROVE  /\ With(o, k) \in Op /\ With(o, k).n = k /\ With(o, k).max = o.max
  BY Zenon DEF With, Op

LEMMA NoOpFields == NoOp \in Op /\ NoOp.n = 0
  BY BlockingQueueAssumption DEF NoOp, Op

\* The invariant holds initially.
LEMMA InvInit == ASSUME Init PROVE Inv
<1>1. TypeOK /\ HeldAt
  BY BlockingQueueAssumption DEF Init, TypeOK, HeldAt, NoOp, Labels
<1>2. /\ Permits \in [Threads -> 0 .. MaxBulk] /\ Signals \in [Threads -> 0 .. MaxBulk]
      /\ Posts \in [Threads -> 0 .. MaxBulk] /\ Waiters \in [Threads -> 0 .. MaxBulk]
  BY <1>1, Summands
<1>3. \A t \in Threads : Permits[t] = 0 /\ Signals[t] = 0 /\ Posts[t] = 0 /\ Waiters[t] = 0
  BY DEF Init, Permits, Signals, Posts, Waiters
<1>4. Total(Permits) = 0 /\ Total(Signals) = 0 /\ Total(Posts) = 0 /\ Total(Waiters) = 0
  BY ONLY <1>2, <1>3, TotalZero
<1> QED
  BY <1>1, <1>4 DEF Inv, Account, Init

\* The steps of an enqueueing thread keep the invariant.
LEMMA EnqueueSteps ==
  ASSUME Inv, NEW t \in Threads,
         (\E n \in 1 .. MaxBulk : Enqueue(t, n)) \/ Signal(t) \/ Post(t)
  PROVE  Inv'
<1> USE BlockingQueueAssumption
<1>1. /\ m_count \in Int /\ m_sema \in Nat /\ inner \in Nat /\ left \in Nat
      /\ op[t] \in Op /\ op[t].n \in 0 .. MaxBulk /\ pc[t] \in Labels /\ Held(pc[t], op[t])
  BY DEF Inv, TypeOK, HeldAt, Held, Op
<1>2. ASSUME NEW n \in 1 .. MaxBulk, Enqueue(t, n) PROVE Inv'
  <2> DEFINE o == [NoOp EXCEPT !.kind = "enqueue", !.n = n]
  <2>0. n \in 0 .. MaxBulk
    OBVIOUS
  <2>1. o \in Op /\ o.n = n
    BY Zenon, NoOpFields, <2>0 DEF Op
  <2> HIDE DEF o
  <2>a. pc[t] = "idle" /\ m_count' = m_count /\ m_sema' = m_sema /\ left' = left - n /\ n <= left
    BY Zenon, <1>2 DEF Enqueue
  <2>2. pc[t] = "idle" /\ m_count' = m_count /\ m_sema' = m_sema /\ left' = left - n /\ left' \in Nat
    BY <1>1, <2>a
  <2>3. CASE inner + n <= MaxInner
    <3>1. inner' = inner + n /\ Goto(t, "signal", o)
      BY Zenon, <1>2, <2>3 DEF Enqueue, o
    <3>2. /\ Hold("signal", o) = 0 /\ Signal_("signal", o) = n /\ Wait_("signal") = 0 /\ Post_("signal", o) = 0
          /\ Hold(pc[t], op[t]) = 0 /\ Signal_(pc[t], op[t]) = 0 /\ Wait_(pc[t]) = 0 /\ Post_(pc[t], op[t]) = 0
          /\ Held("signal", o) /\ "signal" \in Labels
      BY <2>1, <2>2 DEF Hold, Signal_, Wait_, Post_, Held, Labels
    <3>3. inner' \in Nat /\ Below(m_count') = Below(m_count) /\ Below(m_count) \in Int
      BY <1>1, <2>2, <3>1 DEF Below
    <3> QED
      BY <1>1, <2>1, <2>2, <3>1, <3>2, <3>3, Keeps
  <2>4. CASE ~ (inner + n <= MaxInner)
    <3>1. inner' = inner /\ Goto(t, "idle", NoOp)
      BY Zenon, <1>2, <2>4 DEF Enqueue, Done
    <3>2. /\ Hold("idle", NoOp) = 0 /\ Signal_("idle", NoOp) = 0 /\ Wait_("idle") = 0 /\ Post_("idle", NoOp) = 0
          /\ Hold(pc[t], op[t]) = 0 /\ Signal_(pc[t], op[t]) = 0 /\ Wait_(pc[t]) = 0 /\ Post_(pc[t], op[t]) = 0
          /\ Held("idle", NoOp) /\ "idle" \in Labels
      BY <2>2 DEF Hold, Signal_, Wait_, Post_, Held, Labels
    <3>3. inner' \in Nat /\ Below(m_count') = Below(m_count) /\ Below(m_count) \in Int
      BY <1>1, <2>2, <3>1 DEF Below
    <3> QED
      BY <1>1, <2>2, <3>1, <3>2, <3>3, NoOpFields, Keeps
  <2> QED
    BY <2>3, <2>4
<1>3. ASSUME Signal(t) PROVE Inv'
  <2> DEFINE n == ToRelease(m_count, op[t].n)
  <2>1. /\ pc[t] = "signal" /\ m_count' = m_count + op[t].n /\ m_sema' = m_sema
        /\ inner' = inner /\ left' = left
    BY Zenon, <1>3 DEF Signal
  <2>2. op[t].n > 0 /\ n \in Int /\ n <= op[t].n /\ n <= - m_count /\ (n = op[t].n \/ n = - m_count)
    BY <1>1, <2>1 DEF ToRelease, MinOf, Held
  <2>3. CASE n > 0
    <3>1. Goto(t, "post", With(op[t], n))
      BY Zenon, <1>3, <2>3 DEF Signal, With
    <3> HIDE DEF n
    <3>2. With(op[t], n) \in Op /\ With(op[t], n).n = n
      BY <1>1, <2>2, <2>3, WithFields
    <3>3. /\ Hold("post", With(op[t], n)) = 0 /\ Signal_("post", With(op[t], n)) = 0
          /\ Wait_("post") = 0 /\ Post_("post", With(op[t], n)) = n
          /\ Held("post", With(op[t], n)) /\ "post" \in Labels
      BY <2>3, <3>2 DEF Hold, Signal_, Wait_, Post_, Held, Labels
    <3>4. Hold(pc[t], op[t]) = 0 /\ Signal_(pc[t], op[t]) = op[t].n /\ Wait_(pc[t]) = 0 /\ Post_(pc[t], op[t]) = 0
      BY <2>1 DEF Hold, Signal_, Wait_, Post_
    <3>5. Below(m_count') = Below(m_count) - n /\ Below(m_count) \in Int /\ m_count' \in Int
      BY <1>1, <2>1, <2>2, <2>3 DEF Below
    <3> QED
      BY <1>1, <2>1, <2>2, <3>1, <3>2, <3>3, <3>4, <3>5, Keeps
  <2>4. CASE ~ (n > 0)
    <3>1. Goto(t, "idle", NoOp)
      BY Zenon, <1>3, <2>4 DEF Signal, Done
    <3> HIDE DEF n
    <3>2. /\ Hold("idle", NoOp) = 0 /\ Signal_("idle", NoOp) = 0 /\ Wait_("idle") = 0 /\ Post_("idle", NoOp) = 0
          /\ Hold(pc[t], op[t]) = 0 /\ Signal_(pc[t], op[t]) = op[t].n /\ Wait_(pc[t]) = 0 /\ Post_(pc[t], op[t]) = 0
          /\ Held("idle", NoOp) /\ "idle" \in Labels
      BY <2>1 DEF Hold, Signal_, Wait_, Post_, Held, Labels
    <3>3. Below(m_count') = Below(m_count) /\ Below(m_count) \in Int /\ m_count' \in Int
      BY <1>1, <2>1, <2>2, <2>4 DEF Below
    <3> QED
      BY <1>1, <2>1, <3>1, <3>2, <3>3, NoOpFields, Keeps
  <2> QED
    BY <2>3, <2>4
<1>4. ASSUME Post(t) PROVE Inv'
  <2>1. /\ pc[t] = "post" /\ m_count' = m_count /\ m_sema' = m_sema + 1 /\ inner' = inner /\ left' = left
    BY Zenon, <1>4 DEF Post
  <2>2. op[t].n > 0 /\ Below(m_count') = Below(m_count) /\ Below(m_count) \in Int
    BY <1>1, <2>1 DEF Held, Below
  <2>3. Hold(pc[t], op[t]) = 0 /\ Signal_(pc[t], op[t]) = 0 /\ Wait_(pc[t]) = 0 /\ Post_(pc[t], op[t]) = op[t].n
    BY <2>1 DEF Hold, Signal_, Wait_, Post_
  <2>4. CASE op[t].n > 1
    <3> DEFINE o == With(op[t], op[t].n - 1)
    <3>1. Goto(t, "post", o)
      BY Zenon, <1>4, <2>4 DEF Post, With
    <3>0. op[t].n - 1 \in 0 .. MaxBulk
      BY <1>1, <2>4
    <3>2. o \in Op /\ o.n = op[t].n - 1
      BY ONLY <1>1, <3>0, WithFields
    <3> HIDE DEF o
    <3>3. /\ Hold("post", o) = 0 /\ Signal_("post", o) = 0 /\ Wait_("post") = 0 /\ Post_("post", o) = op[t].n - 1
          /\ Held("post", o) /\ "post" \in Labels
      BY <1>1, <2>4, <3>2 DEF Hold, Signal_, Wait_, Post_, Held, Labels
    <3> QED
      BY <1>1, <2>1, <2>2, <2>3, <3>1, <3>2, <3>3, Keeps
  <2>5. CASE ~ (op[t].n > 1)
    <3>0. op[t].n = 1
      BY <1>1, <2>2, <2>5
    <3>1. Goto(t, "idle", NoOp)
      BY Zenon, <1>4, <2>5 DEF Post, Done
    <3>2. /\ Hold("idle", NoOp) = 0 /\ Signal_("idle", NoOp) = 0 /\ Wait_("idle") = 0 /\ Post_("idle", NoOp) = 0
          /\ Held("idle", NoOp) /\ "idle" \in Labels
      BY DEF Hold, Signal_, Wait_, Post_, Held, Labels
    <3> QED
      BY <1>1, <2>1, <2>2, <2>3, <3>0, <3>1, <3>2, NoOpFields, Keeps
  <2> QED
    BY <2>4, <2>5
<1> QED
  BY <1>2, <1>3, <1>4

\* A thread that takes permits from the count holds them.
LEMMA GrabStep ==
  ASSUME Inv, NEW t \in Threads, NEW max \in 1 .. MaxBulk, m_count > 0,
         \/ pc[t] \in {"try", "spin"} /\ max = op[t].max
         \/ pc[t] = "more" /\ max = op[t].max - 1,
         Grab(t, max), m_sema' = m_sema, inner' = inner, left' = left
  PROVE  Inv'
<1> USE BlockingQueueAssumption
<1>1. /\ m_count \in Int /\ m_sema \in Nat /\ inner \in Nat /\ left \in Nat
      /\ op[t] \in Op /\ op[t].n \in 0 .. MaxBulk /\ op[t].max \in 0 .. MaxBulk /\ Held(pc[t], op[t])
  BY DEF Inv, TypeOK, HeldAt, Held, Op
<1> DEFINE n == MinOf(m_count, max)
           o == With(op[t], op[t].n + n)
<1>2. m_count' = m_count - n /\ Goto(t, "take", o)
  BY Zenon DEF Grab, With
<1>3. n \in 1 .. max /\ n <= m_count
  BY <1>1 DEF MinOf
<1> HIDE DEF n
<1>4. op[t].n + n \in 0 .. MaxBulk /\ op[t].n + n > 0
  BY <1>1, <1>3 DEF Held
<1>5. o \in Op /\ o.n = op[t].n + n
  BY <1>1, <1>4, WithFields
<1> HIDE DEF o
<1>6. /\ Hold("take", o) = op[t].n + n /\ Signal_("take", o) = 0 /\ Wait_("take") = 0 /\ Post_("take", o) = 0
      /\ Held("take", o) /\ "take" \in Labels
  BY <1>4, <1>5 DEF Hold, Signal_, Wait_, Post_, Held, Labels
<1>7. /\ Hold(pc[t], op[t]) = op[t].n /\ Signal_(pc[t], op[t]) = 0
      /\ Wait_(pc[t]) = 0 /\ Post_(pc[t], op[t]) = 0
  BY <1>1 DEF Hold, Signal_, Wait_, Post_, Held
<1>8. Below(m_count') = 0 /\ Below(m_count) = 0 /\ m_count' \in Int
  BY <1>1, <1>2, <1>3 DEF Below
<1> QED
  BY <1>1, <1>2, <1>3, <1>5, <1>6, <1>7, <1>8, Keeps

\* A thread that is granted a permit holds one.
LEMMA GrantedStep ==
  ASSUME Inv, NEW t \in Threads, Granted(t), inner' = inner, left' = left,
         \/ /\ pc[t] = "spin" /\ m_count > 0 /\ m_count' = m_count - 1 /\ m_sema' = m_sema
         \/ /\ pc[t] \in {"sleep", "trysem"} /\ m_sema > 0 /\ m_sema' = m_sema - 1
            /\ m_count' = m_count
  PROVE  Inv'
<1> USE BlockingQueueAssumption
<1>1. /\ m_count \in Int /\ m_sema \in Nat /\ inner \in Nat /\ left \in Nat
      /\ op[t] \in Op /\ op[t].max \in 0 .. MaxBulk /\ Held(pc[t], op[t])
  BY DEF Inv, TypeOK, HeldAt, Held, Op
<1> DEFINE o == With(op[t], 1)
<1>2. PICK l \in {"more", "take"} : (l = "more" => op[t].max > 1) /\ Goto(t, l, o)
  BY Zenon DEF Granted, With
<1>a. 1 \in 0 .. MaxBulk
  OBVIOUS
<1>3. o \in Op /\ o.n = 1 /\ o.max = op[t].max
  BY ONLY <1>1, <1>a, WithFields
<1> HIDE DEF o
<1>4. /\ Hold(l, o) = 1 /\ Signal_(l, o) = 0 /\ Wait_(l) = 0 /\ Post_(l, o) = 0
      /\ Held(l, o) /\ l \in Labels
  BY <1>2, <1>3 DEF Hold, Signal_, Wait_, Post_, Held, Labels
<1>5. /\ Hold(pc[t], op[t]) = 0 /\ Signal_(pc[t], op[t]) = 0 /\ Post_(pc[t], op[t]) = 0
      /\ Wait_(pc[t]) = IF pc[t] = "spin" THEN 0 ELSE 1
  BY DEF Hold, Signal_, Wait_, Post_
<1>6. Below(m_count') = Below(m_count) /\ Below(m_count) \in Int /\ m_count' \in Int /\ m_sema' \in Nat
  BY <1>1 DEF Below
<1> QED
  BY <1>1, <1>2, <1>3, <1>4, <1>5, <1>6, Keeps

\* A thread that returns or moves on with what it has.
LEMMA PlainStep ==
  ASSUME Inv, NEW t \in Threads, NEW l \in Labels, NEW o \in Op, Goto(t, l, o), Held(l, o),
         Hold(l, o) = Hold(pc[t], op[t]), Signal_(l, o) = 0, Signal_(pc[t], op[t]) = 0,
         Post_(l, o) = 0, Post_(pc[t], op[t]) = 0,
         \/ Wait_(l) = Wait_(pc[t]) /\ m_count' = m_count
         \/ Wait_(pc[t]) = 0 /\ Wait_(l) = 1 /\ m_count <= 0 /\ m_count' = m_count - 1
         \/ Wait_(pc[t]) = 1 /\ Wait_(l) = 0 /\ m_count < 0 /\ m_count' = m_count + 1,
         m_sema' = m_sema, inner' = inner, left' = left
  PROVE  Inv'
<1>1. /\ m_count \in Int /\ m_sema \in Nat /\ inner \in Nat /\ left \in Nat
      /\ op[t].n \in 0 .. MaxBulk
  BY DEF Inv, TypeOK, Op
<1>2. Hold(pc[t], op[t]) \in Int /\ Wait_(pc[t]) \in Int /\ Wait_(l) \in Int
  BY <1>1, BlockingQueueAssumption DEF Hold, Wait_
<1>3. /\ Below(m_count) \in Int /\ m_count' \in Int
      /\ Below(m_count') - Below(m_count) = Wait_(l) - Wait_(pc[t])
      /\ Below(m_count') \in Int
  BY <1>1, <1>2 DEF Below
<1>4. m_count - m_count' = Wait_(l) - Wait_(pc[t])
  BY <1>1, <1>2
<1> QED
  BY <1>1, <1>2, <1>3, <1>4, Keeps

\* A thread that takes an element gives up a permit.
LEMMA TakeStep ==
  ASSUME Inv, NEW t \in Threads, Take(t)
  PROVE  Inv'
<1>t. /\ m_count \in Int /\ m_sema \in Nat /\ inner \in Nat /\ left \in Nat
      /\ op[t] \in Op /\ op[t].n \in 0 .. MaxBulk /\ pc[t] \in Labels /\ Held(pc[t], op[t])
  BY DEF Inv, TypeOK, HeldAt, Held, Op
<1>i. /\ Hold("idle", NoOp) = 0 /\ Signal_("idle", NoOp) = 0 /\ Wait_("idle") = 0
      /\ Post_("idle", NoOp) = 0 /\ Held("idle", NoOp) /\ "idle" \in Labels
  BY DEF Hold, Signal_, Wait_, Post_, Held, Labels
<1>1. /\ pc[t] = "take" /\ inner > 0 /\ inner' = inner - 1
      /\ m_count' = m_count /\ m_sema' = m_sema /\ left' = left
  BY Zenon DEF Take
<1>2. /\ Hold(pc[t], op[t]) = op[t].n /\ Signal_(pc[t], op[t]) = 0 /\ Post_(pc[t], op[t]) = 0
      /\ Wait_(pc[t]) = 0 /\ op[t].n > 0
  BY <1>t, <1>1 DEF Hold, Signal_, Wait_, Post_, Held
<1>3. inner' \in Nat /\ Below(m_count') = Below(m_count) /\ Below(m_count) \in Int
  BY <1>t, <1>1 DEF Below
<1>4. CASE op[t].n > 1
  <2> DEFINE o == With(op[t], op[t].n - 1)
  <2>1. Goto(t, "take", o)
    BY Zenon, <1>4 DEF Take, With
  <2>0. op[t].n - 1 \in 0 .. MaxBulk
    BY ONLY <1>t, <1>4, BlockingQueueAssumption
  <2>2. o \in Op /\ o.n = op[t].n - 1
    BY ONLY <1>t, <2>0, WithFields
  <2> HIDE DEF o
  <2>3. /\ Hold("take", o) = op[t].n - 1 /\ Signal_("take", o) = 0 /\ Wait_("take") = 0
        /\ Post_("take", o) = 0 /\ Held("take", o) /\ "take" \in Labels
    BY <1>t, <1>4, <2>2 DEF Hold, Signal_, Wait_, Post_, Held, Labels
  <2> QED
    BY <1>t, <1>1, <1>2, <1>3, <2>1, <2>2, <2>3, Keeps
<1>5. CASE ~ (op[t].n > 1)
  <2>1. Goto(t, "idle", NoOp)
    BY Zenon, <1>5 DEF Take, Done
  <2>2. op[t].n = 1
    BY <1>t, <1>2, <1>5
  <2> QED
    BY <1>t, <1>i, <1>1, <1>2, <1>3, <2>1, <2>2, NoOpFields, Keeps
<1> QED
  BY <1>4, <1>5

\* The steps of a dequeueing thread keep the invariant.
LEMMA DequeueSteps ==
  ASSUME Inv, NEW t \in Threads,
         \/ \E kind \in {"try", "wait"}, timeout \in {-1, 0, 1}, max \in 1 .. MaxBulk :
              Dequeue(t, kind, timeout, max)
         \/ TryWait(t) \/ SpinTake(t) \/ SpinEnd(t) \/ Wake(t) \/ TimeOut(t) \/ GiveUp(t)
         \/ AdjustLoad(t) \/ TrySem(t) \/ More(t) \/ Take(t)
  PROVE  Inv'
<1> USE BlockingQueueAssumption
<1>1. /\ m_count \in Int /\ m_sema \in Nat /\ inner \in Nat /\ left \in Nat
      /\ op[t] \in Op /\ op[t].n \in 0 .. MaxBulk /\ op[t].max \in 0 .. MaxBulk
      /\ pc[t] \in Labels /\ Held(pc[t], op[t])
  BY DEF Inv, TypeOK, HeldAt, Held, Op
<1>i. /\ Hold("idle", NoOp) = 0 /\ Signal_("idle", NoOp) = 0 /\ Wait_("idle") = 0
      /\ Post_("idle", NoOp) = 0 /\ Held("idle", NoOp) /\ "idle" \in Labels
  BY DEF Hold, Signal_, Wait_, Post_, Held, Labels
<1>2. ASSUME NEW kind \in {"try", "wait"}, NEW timeout \in {-1, 0, 1}, NEW max \in 1 .. MaxBulk,
             Dequeue(t, kind, timeout, max)
      PROVE  Inv'
  <2> DEFINE o == [kind |-> kind, timeout |-> timeout, max |-> max, n |-> 0]
  <2>1. /\ pc[t] = "idle" /\ Goto(t, "try", o) /\ m_count' = m_count /\ m_sema' = m_sema
        /\ inner' = inner /\ left' = left
    BY Zenon, <1>2 DEF Dequeue
  <2>2. o \in Op /\ o.n = 0 /\ o.max > 0
    BY DEF Op
  <2> HIDE DEF o
  <2>3. /\ Hold("try", o) = Hold(pc[t], op[t]) /\ Signal_("try", o) = 0 /\ Signal_(pc[t], op[t]) = 0
        /\ Post_("try", o) = 0 /\ Post_(pc[t], op[t]) = 0 /\ Wait_("try") = Wait_(pc[t])
        /\ Held("try", o) /\ "try" \in Labels
    BY <2>1, <2>2 DEF Hold, Signal_, Wait_, Post_, Held, Labels
  <2> QED
    BY ONLY Inv, t \in Threads, <2>1, <2>2, <2>3, PlainStep
<1>3. ASSUME TryWait(t) PROVE Inv'
  <2>1. pc[t] = "try" /\ m_sema' = m_sema /\ inner' = inner /\ left' = left
    BY Zenon, <1>3 DEF TryWait
  <2>2. CASE m_count > 0
    <3>1. Grab(t, op[t].max)
      BY Zenon, <1>3, <2>2 DEF TryWait
    <3>2. op[t].max \in 1 .. MaxBulk
      BY <1>1, <2>1 DEF Held
    <3> QED
      BY ONLY Inv, t \in Threads, <2>1, <2>2, <3>1, <3>2, GrabStep
  <2>3. CASE ~ (m_count > 0)
    <3>1. m_count' = m_count /\ (Goto(t, "idle", NoOp) \/ Goto(t, "spin", op[t]))
      BY Zenon, <1>3, <2>3 DEF TryWait, Done
    <3>2. /\ Hold("spin", op[t]) = Hold(pc[t], op[t]) /\ Hold(pc[t], op[t]) = 0
          /\ Signal_("spin", op[t]) = 0 /\ Signal_(pc[t], op[t]) = 0
          /\ Post_("spin", op[t]) = 0 /\ Post_(pc[t], op[t]) = 0
          /\ Wait_("spin") = Wait_(pc[t]) /\ Wait_(pc[t]) = 0
          /\ Held("spin", op[t]) /\ "spin" \in Labels
      BY <1>1, <2>1 DEF Hold, Signal_, Wait_, Post_, Held, Labels
    <3> QED
      BY ONLY Inv, t \in Threads, <1>1, <1>i, <2>1, <3>1, <3>2, NoOpFields, PlainStep
  <2> QED
    BY <2>2, <2>3
<1>4. ASSUME SpinTake(t) PROVE Inv'
  <2>1. /\ pc[t] = "spin" /\ m_count > 0 /\ Grab(t, op[t].max)
        /\ m_sema' = m_sema /\ inner' = inner /\ left' = left
    BY Zenon, <1>4 DEF SpinTake
  <2>2. op[t].max \in 1 .. MaxBulk
    BY <1>1, <2>1 DEF Held
  <2> QED
    BY ONLY Inv, t \in Threads, <2>1, <2>2, GrabStep
<1>5. ASSUME SpinEnd(t) PROVE Inv'
  <2>1. pc[t] = "spin" /\ m_count' = m_count - 1 /\ m_sema' = m_sema /\ inner' = inner /\ left' = left
    BY Zenon, <1>5 DEF SpinEnd
  <2>2. CASE m_count > 0
    <3>1. Granted(t)
      BY Zenon, <1>5, <2>2 DEF SpinEnd
    <3> QED
      BY ONLY Inv, t \in Threads, <2>1, <2>2, <3>1, GrantedStep
  <2>3. CASE ~ (m_count > 0)
    <3>1. PICK l \in {"adjust", "sleep"} : Goto(t, l, op[t])
      BY Zenon, <1>5, <2>3 DEF SpinEnd
    <3>2. /\ Hold(l, op[t]) = Hold(pc[t], op[t]) /\ Signal_(l, op[t]) = 0 /\ Signal_(pc[t], op[t]) = 0
          /\ Post_(l, op[t]) = 0 /\ Post_(pc[t], op[t]) = 0 /\ Wait_(l) = 1 /\ Wait_(pc[t]) = 0
          /\ Held(l, op[t]) /\ l \in Labels /\ m_count <= 0
      BY <1>1, <2>1, <2>3 DEF Hold, Signal_, Wait_, Post_, Held, Labels
    <3> QED
      BY ONLY Inv, t \in Threads, <1>1, <2>1, <3>1, <3>2, PlainStep
  <2> QED
    BY <2>2, <2>3
<1>6. ASSUME Wake(t) PROVE Inv'
  <2>1. /\ pc[t] = "sleep" /\ m_sema > 0 /\ m_sema' = m_sema - 1 /\ Granted(t)
        /\ m_count' = m_count /\ inner' = inner /\ left' = left
    BY Zenon, <1>6 DEF Wake
  <2>2. pc[t] \in {"sleep", "trysem"}
    BY <2>1
  <2> QED
    BY ONLY Inv, t \in Threads, <2>1, <2>2, GrantedStep
<1>7. ASSUME TimeOut(t) \/ AdjustLoad(t) \/ (TrySem(t) /\ ~ (m_sema > 0)) PROVE Inv'
  <2>1. PICK l \in {"adjust", "trysem"} :
          /\ pc[t] \in {"sleep", "adjust", "trysem"} /\ Goto(t, l, op[t])
          /\ m_count' = m_count /\ m_sema' = m_sema /\ inner' = inner /\ left' = left
    BY Zenon, <1>7 DEF TimeOut, AdjustLoad, TrySem
  <2>2. /\ Hold(l, op[t]) = Hold(pc[t], op[t]) /\ Signal_(l, op[t]) = 0 /\ Signal_(pc[t], op[t]) = 0
        /\ Post_(l, op[t]) = 0 /\ Post_(pc[t], op[t]) = 0 /\ Wait_(l) = Wait_(pc[t])
        /\ Held(l, op[t]) /\ l \in Labels
    BY <1>1, <2>1 DEF Hold, Signal_, Wait_, Post_, Held, Labels
  <2> QED
    BY ONLY Inv, t \in Threads, <1>1, <2>1, <2>2, PlainStep
<1>8. ASSUME GiveUp(t) PROVE Inv'
  <2>1. /\ pc[t] = "adjust" /\ m_count < 0 /\ m_count' = m_count + 1 /\ Goto(t, "idle", NoOp)
        /\ m_sema' = m_sema /\ inner' = inner /\ left' = left
    BY Zenon, <1>8 DEF GiveUp, Done
  <2>2. /\ Hold(pc[t], op[t]) = 0 /\ Signal_(pc[t], op[t]) = 0 /\ Post_(pc[t], op[t]) = 0
        /\ Wait_(pc[t]) = 1
    BY <2>1 DEF Hold, Signal_, Wait_, Post_
  <2> QED
    BY ONLY Inv, t \in Threads, <1>i, <2>1, <2>2, NoOpFields, PlainStep
<1>9. ASSUME TrySem(t), m_sema > 0 PROVE Inv'
  <2>1. /\ pc[t] = "trysem" /\ m_sema' = m_sema - 1 /\ Granted(t)
        /\ m_count' = m_count /\ inner' = inner /\ left' = left
    BY Zenon, <1>9 DEF TrySem
  <2>2. pc[t] \in {"sleep", "trysem"}
    BY <2>1
  <2> QED
    BY ONLY Inv, t \in Threads, <1>9, <2>1, <2>2, GrantedStep
<1>10. ASSUME More(t) PROVE Inv'
  <2>1. pc[t] = "more" /\ m_sema' = m_sema /\ inner' = inner /\ left' = left
    BY Zenon, <1>10 DEF More
  <2>2. CASE m_count > 0
    <3>1. Grab(t, op[t].max - 1)
      BY Zenon, <1>10, <2>2 DEF More
    <3>2. op[t].max - 1 \in 1 .. MaxBulk
      BY <1>1, <2>1 DEF Held
    <3> QED
      BY ONLY Inv, t \in Threads, <2>1, <2>2, <3>1, <3>2, GrabStep
  <2>3. CASE ~ (m_count > 0)
    <3>1. m_count' = m_count /\ Goto(t, "take", op[t])
      BY Zenon, <1>10, <2>3 DEF More
    <3>2. /\ Hold("take", op[t]) = Hold(pc[t], op[t])
          /\ Signal_("take", op[t]) = 0 /\ Signal_(pc[t], op[t]) = 0
          /\ Post_("take", op[t]) = 0 /\ Post_(pc[t], op[t]) = 0
          /\ Wait_("take") = Wait_(pc[t]) /\ Held("take", op[t]) /\ "take" \in Labels
      BY <1>1, <2>1 DEF Hold, Signal_, Wait_, Post_, Held, Labels
    <3> QED
      BY ONLY Inv, t \in Threads, <1>1, <2>1, <3>1, <3>2, PlainStep
  <2> QED
    BY <2>2, <2>3
<1>11. ASSUME Take(t) PROVE Inv'
  BY <1>11, TakeStep
<1> QED
  BY Zenon, <1>2, <1>3, <1>4, <1>5, <1>6, <1>7, <1>8, <1>9, <1>10, <1>11

\* Every step of the queue keeps the invariant.
LEMMA InvStep == ASSUME Inv, [Next]_vars PROVE Inv'
<1>1. CASE vars' = vars
  BY <1>1 DEF vars, Inv, TypeOK, HeldAt, Account, Total, Units, Permits, Signals, Posts, Waiters
<1>2. ASSUME NEW t \in Threads, Start(t) \/ Step(t) \/ TimeOut(t) PROVE Inv'
  BY Zenon, <1>2, EnqueueSteps, DequeueSteps DEF Start, Step
<1> QED
  BY <1>1, <1>2 DEF Next

-----------------------------------------------------------------------------
\* The theorems.

\* The sums are numbers.
LEMMA Totals ==
  ASSUME Inv
  PROVE  /\ Total(Permits) \in Nat /\ Total(Signals) \in Nat
         /\ Total(Posts) \in Nat /\ Total(Waiters) \in Nat
<1>1. /\ Permits \in [Threads -> 0 .. MaxBulk] /\ Signals \in [Threads -> 0 .. MaxBulk]
      /\ Posts \in [Threads -> 0 .. MaxBulk] /\ Waiters \in [Threads -> 0 .. MaxBulk]
  BY Summands DEF Inv
<1> QED
  BY ONLY <1>1, UnitsFinite

\* The count, the semaphore, the elements and the calls in progress agree at every step:
\* LightweightSemaphore neither loses nor invents a permit, however a timeout races a signal.
THEOREM AccountHolds == Spec => []Account
<1>1. Inv /\ [Next]_vars => Inv'
  BY InvStep
<1>2. Init => Inv
  BY InvInit
<1>3. Inv => Account
  BY DEF Inv
<1> QED
  BY <1>1, <1>2, <1>3, PTL DEF Spec

\* For any number of threads and elements a thread that holds permits finds an element for each
\* in the inner queue, so the loops of wait_dequeue and try_dequeue_bulk that retry until the
\* inner try_dequeue succeeds do not retry on an empty queue.
THEOREM PermitsHaveElements == Spec => []PermitHasElement
<1>1. Inv /\ [Next]_vars => Inv'
  BY InvStep
<1>2. Init => Inv
  BY InvInit
<1>3. ASSUME Inv PROVE PermitHasElement
  <2>1. /\ Total(Permits) \in Nat /\ Total(Signals) \in Nat
        /\ Total(Posts) \in Nat /\ Total(Waiters) \in Nat
    BY <1>3, Totals
  <2>2. m_count \in Int /\ m_sema \in Nat /\ inner \in Nat
    BY <1>3 DEF Inv, TypeOK
  <2>3. /\ inner = Total(Permits) + Total(Signals) + m_count + Total(Waiters)
        /\ Total(Waiters) = m_sema + Total(Posts) + (IF m_count < 0 THEN -m_count ELSE 0)
    BY <1>3 DEF Inv, Account
  <2> QED
    BY <2>1, <2>2, <2>3 DEF PermitHasElement
<1> QED
  BY <1>1, <1>2, <1>3, PTL DEF Spec

\* For any number of threads and elements, whatever timeouts raced whatever signals: when no call
\* is in progress size_approx is the number of elements and no post of the operating system's
\* semaphore is left over, and no thread sleeps beside an element unless it was posted.
THEOREM QuietQueueIsExact == Spec => []QuietIsExact
<1>1. Inv /\ [Next]_vars => Inv'
  BY InvStep
<1>2. Init => Inv
  BY InvInit
<1>3. ASSUME Inv PROVE QuietIsExact
  <2> SUFFICES ASSUME \A t \in Threads : pc[t] \in {"idle", "sleep"}
               PROVE  /\ (\A t \in Threads : pc[t] = "idle") =>
                           SizeApprox = inner /\ m_count >= 0 /\ m_sema = 0
                      /\ (m_sema = 0 /\ \E t \in Threads : pc[t] = "sleep") => inner = 0
    BY DEF QuietIsExact
  <2>1. /\ Total(Permits) \in Nat /\ Total(Signals) \in Nat
        /\ Total(Posts) \in Nat /\ Total(Waiters) \in Nat
    BY <1>3, Totals
  <2>2. m_count \in Int /\ m_sema \in Nat /\ inner \in Nat
    BY <1>3 DEF Inv, TypeOK
  <2>3. /\ inner = Total(Permits) + Total(Signals) + m_count + Total(Waiters)
        /\ Total(Waiters) = m_sema + Total(Posts) + (IF m_count < 0 THEN -m_count ELSE 0)
    BY <1>3 DEF Inv, Account
  <2>4. /\ Permits \in [Threads -> 0 .. MaxBulk] /\ Signals \in [Threads -> 0 .. MaxBulk]
        /\ Posts \in [Threads -> 0 .. MaxBulk] /\ Waiters \in [Threads -> 0 .. MaxBulk]
    BY <1>3, Summands DEF Inv
  <2>5. \A t \in Threads : Permits[t] = 0 /\ Signals[t] = 0 /\ Posts[t] = 0
    BY DEF Permits, Signals, Posts
  <2>6. Total(Permits) = 0 /\ Total(Signals) = 0 /\ Total(Posts) = 0
    BY ONLY <2>4, <2>5, TotalZero
  <2>7. ASSUME \A t \in Threads : pc[t] = "idle"
        PROVE  SizeApprox = inner /\ m_count >= 0 /\ m_sema = 0
    <3>1. \A t \in Threads : Waiters[t] = 0
      BY <2>7 DEF Waiters
    <3>2. Total(Waiters) = 0
      BY ONLY <2>4, <3>1, TotalZero
    <3> QED
      BY <2>1, <2>2, <2>3, <2>6, <3>2 DEF SizeApprox
  <2>8. ASSUME m_sema = 0, NEW t \in Threads, pc[t] = "sleep"
        PROVE  inner = 0
    <3>1. Waiters[t] # 0
      BY <2>8 DEF Waiters
    <3>2. Total(Waiters) # 0
      BY ONLY <2>4, <3>1, t \in Threads, TotalZero
    <3> QED
      BY <2>1, <2>2, <2>3, <2>6, <2>8, <3>2
  <2> QED
    BY <2>7, <2>8
<1> QED
  BY <1>1, <1>2, <1>3, PTL DEF Spec
=============================================================================
