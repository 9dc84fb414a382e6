---------------------------- MODULE Monitors_proofs ----------------------------
(***************************************************************************)
(* For any number of threads and monitors and any depth: the queues of the *)
(* monitors stay disjoint, a thread that runs owns what it is inside at    *)
(* the depth it entered it, and so no two threads are inside one monitor.  *)
(***************************************************************************)
EXTENDS Monitors, SequenceTheorems, TLAPS

\* threadListAddThread: one more entry, at the end.
LEMMA AppendOne ==
    ASSUME NEW S, NEW q \in Seq(S), NEW x \in S
    PROVE  /\ Append(q, x) \in Seq(S)
           /\ Append(q, x) # <<>>
           /\ On(Append(q, x)) = On(q) \cup {x}
           /\ Distinct(q) /\ x \notin On(q) => Distinct(Append(q, x))
<1>1. Append(q, x) \in Seq(S) /\ Append(q, x) # <<>>
  <2>1. Append(q, x) \in Seq(S) /\ Len(Append(q, x)) = Len(q) + 1 /\ Len(q) \in Nat
    BY SMT
  <2> QED BY <2>1, EmptySeq, SMT
<1>2. On(Append(q, x)) = On(q) \cup {x}
  <2>1. ASSUME NEW y \in On(Append(q, x)) PROVE y \in On(q) \cup {x}
    BY <2>1, SMT DEF On
  <2>2. ASSUME NEW y \in On(q) PROVE y \in On(Append(q, x))
    <3>1. PICK k \in 1 .. Len(q) : q[k] = y
      BY <2>2 DEF On
    <3>2. k \in 1 .. Len(Append(q, x)) /\ Append(q, x)[k] = y
      BY <3>1, SMT
    <3> QED BY <3>2 DEF On
  <2>3. x \in On(Append(q, x))
    <3>1. Len(q) + 1 \in 1 .. Len(Append(q, x)) /\ Append(q, x)[Len(q) + 1] = x
      BY SMT
    <3> QED BY <3>1 DEF On
  <2> QED BY <2>1, <2>2, <2>3
<1>3. Distinct(q) /\ x \notin On(q) => Distinct(Append(q, x))
  BY SMT DEF On, Distinct
<1> QED BY <1>1, <1>2, <1>3

\* threadListRemoveOne: the first entry leaves.
LEMMA RemoveFront ==
    ASSUME NEW S, NEW q \in Seq(S), q # <<>>
    PROVE  /\ Head(q) \in S /\ Tail(q) \in Seq(S)
           /\ Head(q) \in On(q)
           /\ Distinct(q) => On(Tail(q)) = On(q) \ {Head(q)} /\ Distinct(Tail(q))
<1>1. Head(q) \in S /\ Tail(q) \in Seq(S)
  BY SMT
<1>2. Len(q) \in Nat \ {0} /\ Head(q) = q[1] /\ Len(Tail(q)) = Len(q) - 1
      /\ \A k \in 1 .. Len(q) - 1 : Tail(q)[k] = q[k + 1]
  BY SMT
<1>3. Head(q) \in On(q)
  BY <1>2, SMT DEF On
<1>4. ASSUME Distinct(q) PROVE On(Tail(q)) = On(q) \ {Head(q)} /\ Distinct(Tail(q))
  <2>1. ASSUME NEW y \in On(Tail(q)) PROVE y \in On(q) \ {Head(q)}
    <3>1. PICK k \in 1 .. Len(q) - 1 : y = q[k + 1]
      BY <1>2, <2>1, SMT DEF On
    <3>2. k + 1 \in 1 .. Len(q) /\ k + 1 # 1 /\ 1 \in 1 .. Len(q)
      BY <1>2, <3>1, SMT
    <3> QED BY <1>2, <1>4, <3>1, <3>2 DEF On, Distinct
  <2>2. ASSUME NEW y \in On(q) \ {Head(q)} PROVE y \in On(Tail(q))
    <3>1. PICK k \in 1 .. Len(q) : y = q[k]
      BY <2>2, SMT DEF On
    <3>2. k # 1
      BY <1>2, <2>2, <3>1
    <3>3. k - 1 \in 1 .. Len(Tail(q)) /\ Tail(q)[k - 1] = y
      BY <1>2, <3>1, <3>2, SMT
    <3> QED BY <3>3, SMT DEF On
  <2>3. Distinct(Tail(q))
    BY <1>2, <1>4, SMT DEF Distinct
  <2> QED BY <2>1, <2>2, <2>3
<1> QED BY <1>1, <1>3, <1>4

\* threadListRemoveThread: one entry leaves, wherever it is.
LEMMA PlacesLeft ==
    ASSUME NEW S, NEW q \in Seq(S), NEW k \in 1 .. Len(q)
    PROVE  /\ RemoveAt(q, k) \in Seq(S) /\ Len(RemoveAt(q, k)) = Len(q) - 1 /\ Len(q) \in Nat
           /\ \A j \in 1 .. Len(q) - 1 : RemoveAt(q, k)[j] = IF j < k THEN q[j] ELSE q[j + 1]
<1> DEFINE r == RemoveAt(q, k)
<1> DEFINE a == SubSeq(q, 1, k - 1)
           b == SubSeq(q, k + 1, Len(q))
<1>1. Len(q) \in Nat /\ k \in Int /\ 1 <= k /\ k <= Len(q)
  BY SMT
<1>2. \A i \in 1 .. Len(q) : q[i] \in S
  BY SMT
<1>3. /\ a \in Seq(S) /\ Len(a) = k - 1
      /\ \A i \in 1 .. k - 1 : a[i] = q[i]
  <2>1. \A i \in 1 .. k - 1 : q[i] \in S
    BY <1>1, <1>2, SMT
  <2>2. /\ a \in Seq(S) /\ Len(a) = IF 1 <= k - 1 THEN (k - 1) - 1 + 1 ELSE 0
        /\ \A i \in 1 .. (k - 1) - 1 + 1 : a[i] = q[1 + i - 1]
    BY <1>1, <2>1, SubSeqProperties
  <2> HIDE DEF a
  <2> QED BY <1>1, <2>2, SMT
<1>4. /\ b \in Seq(S) /\ Len(b) = Len(q) - k
      /\ \A i \in 1 .. Len(q) - k : b[i] = q[k + i]
  <2>1. \A i \in k + 1 .. Len(q) : q[i] \in S
    BY <1>1, <1>2, SMT
  <2>2. /\ b \in Seq(S)
        /\ Len(b) = IF k + 1 <= Len(q) THEN Len(q) - (k + 1) + 1 ELSE 0
        /\ \A i \in 1 .. Len(q) - (k + 1) + 1 : b[i] = q[(k + 1) + i - 1]
    BY <1>1, <2>1, SubSeqProperties
  <2> HIDE DEF b
  <2> QED BY <1>1, <2>2, SMT
<1>5. r = a \o b
  BY DEF RemoveAt
<1> HIDE DEF a, b, r
<1>6. /\ r \in Seq(S) /\ Len(r) = Len(a) + Len(b)
      /\ \A i \in 1 .. Len(a) + Len(b) : r[i] = IF i <= Len(a) THEN a[i] ELSE b[i - Len(a)]
  BY <1>3, <1>4, <1>5, ConcatProperties
<1>7. Len(r) = Len(q) - 1
  BY <1>1, <1>3, <1>4, <1>6, SMT
<1>8. ASSUME NEW j \in 1 .. Len(q) - 1
      PROVE  r[j] = IF j < k THEN q[j] ELSE q[j + 1]
  <2>1. j \in 1 .. Len(a) + Len(b)
    BY <1>1, <1>3, <1>4, SMT
  <2>2. CASE j < k
    BY <1>1, <1>3, <1>6, <2>1, <2>2, SMT
  <2>3. CASE ~(j < k)
    <3>1. r[j] = b[j - (k - 1)]
      BY <1>1, <1>3, <1>6, <2>1, <2>3, SMT
    <3>2. j - (k - 1) \in 1 .. Len(q) - k /\ k + (j - (k - 1)) = j + 1
      BY <1>1, <2>3, SMT
    <3> QED BY <1>4, <2>3, <3>1, <3>2
  <2> QED BY <2>2, <2>3
<1> QED BY <1>1, <1>6, <1>7, <1>8 DEF r

LEMMA RemoveAny ==
    ASSUME NEW S, NEW q \in Seq(S), NEW k \in 1 .. Len(q)
    PROVE  /\ q[k] \in S /\ RemoveAt(q, k) \in Seq(S)
           /\ q[k] \in On(q)
           /\ Distinct(q) => On(RemoveAt(q, k)) = On(q) \ {q[k]} /\ Distinct(RemoveAt(q, k))
<1> DEFINE r == RemoveAt(q, k)
<1>1. q[k] \in S /\ q[k] \in On(q)
  BY SMT DEF On
<1>2. r \in Seq(S) /\ Len(r) = Len(q) - 1 /\ Len(q) \in Nat
      /\ \A j \in 1 .. Len(q) - 1 : r[j] = IF j < k THEN q[j] ELSE q[j + 1]
  BY PlacesLeft
<1>3. ASSUME Distinct(q) PROVE On(r) = On(q) \ {q[k]} /\ Distinct(r)
  <2> HIDE DEF r
  <2>1. ASSUME NEW y \in On(r) PROVE y \in On(q) \ {q[k]}
    <3>1. PICK j \in 1 .. Len(q) - 1 : y = r[j]
      BY <1>2, <2>1 DEF On
    <3>2. PICK i \in 1 .. Len(q) : y = q[i] /\ i # k
      BY <1>2, <3>1, SMT
    <3> QED BY <1>3, <3>2 DEF On, Distinct
  <2>2. ASSUME NEW y \in On(q) \ {q[k]} PROVE y \in On(r)
    <3>1. PICK i \in 1 .. Len(q) : y = q[i]
      BY <2>2 DEF On
    <3>2. PICK j \in 1 .. Len(r) : r[j] = y
      <4>1. CASE i < k
        <5>1. i \in 1 .. Len(r) /\ r[i] = y
          BY <1>2, <3>1, <4>1, SMT
        <5> QED BY <5>1
      <4>2. CASE ~(i < k)
        <5>1. i # k
          BY <2>2, <3>1
        <5>2. i - 1 \in 1 .. Len(r) /\ r[i - 1] = y
          BY <1>2, <3>1, <4>2, <5>1, SMT
        <5> QED BY <5>2
      <4> QED BY <4>1, <4>2
    <3> QED BY <3>2 DEF On
  <2>3. Distinct(r)
    BY <1>2, <1>3, SMTT(30) DEF Distinct
  <2> QED BY <2>1, <2>2, <2>3
<1> QED BY <1>1, <1>2, <1>3

\* threadListMoveAll: one list after the other.
LEMMA Concatenate ==
    ASSUME NEW S, NEW p \in Seq(S), NEW q \in Seq(S)
    PROVE  /\ p \o q \in Seq(S)
           /\ q # <<>> => p \o q # <<>>
           /\ On(p \o q) = On(p) \cup On(q)
           /\ Distinct(p) /\ Distinct(q) /\ On(p) \cap On(q) = {} => Distinct(p \o q)
<1> DEFINE r == p \o q
<1>1. r \in Seq(S) /\ (q # <<>> => r # <<>>)
  BY SMT
<1>2. /\ Len(p) \in Nat /\ Len(q) \in Nat /\ Len(r) = Len(p) + Len(q)
      /\ \A j \in 1 .. Len(p) : r[j] = p[j]
      /\ \A j \in 1 .. Len(q) : r[Len(p) + j] = q[j]
      /\ \A j \in 1 .. Len(r) : j <= Len(p) \/ j - Len(p) \in 1 .. Len(q)
      /\ \A j \in 1 .. Len(r) : r[j] = IF j <= Len(p) THEN p[j] ELSE q[j - Len(p)]
  BY SMT
<1> HIDE DEF r
<1>3. On(r) = On(p) \cup On(q)
  <2>1. ASSUME NEW y \in On(r) PROVE y \in On(p) \cup On(q)
    BY <1>2, <2>1, SMT DEF On
  <2>2. ASSUME NEW y \in On(p) PROVE y \in On(r)
    <3>1. PICK j \in 1 .. Len(p) : y = p[j]
      BY <2>2 DEF On
    <3>2. j \in 1 .. Len(r) /\ r[j] = y
      BY <1>2, <3>1, SMT
    <3> QED BY <3>2 DEF On
  <2>3. ASSUME NEW y \in On(q) PROVE y \in On(r)
    <3>1. PICK j \in 1 .. Len(q) : y = q[j]
      BY <2>3 DEF On
    <3>2. Len(p) + j \in 1 .. Len(r) /\ r[Len(p) + j] = y
      BY <1>2, <3>1, SMT
    <3> QED BY <3>2 DEF On
  <2> QED BY <2>1, <2>2, <2>3
<1>4. Distinct(p) /\ Distinct(q) /\ On(p) \cap On(q) = {} => Distinct(r)
  <2> SUFFICES ASSUME Distinct(p), Distinct(q), On(p) \cap On(q) = {},
                      NEW i \in 1 .. Len(r), NEW j \in 1 .. Len(r), r[i] = r[j]
               PROVE  i = j
    BY DEF Distinct
  <2>1. CASE i <= Len(p) /\ j <= Len(p)
    BY <1>2, <2>1, SMT DEF Distinct
  <2>2. CASE ~(i <= Len(p)) /\ ~(j <= Len(p))
    <3>1. i - Len(p) \in 1 .. Len(q) /\ j - Len(p) \in 1 .. Len(q)
      BY <1>2, <2>2
    <3>2. q[i - Len(p)] = q[j - Len(p)]
      BY <1>2, <2>2, SMT
    <3>3. i - Len(p) = j - Len(p)
      BY <3>1, <3>2 DEF Distinct
    <3> QED BY <1>2, <3>3, SMT
  <2>3. ASSUME NEW c \in 1 .. Len(r), NEW d \in 1 .. Len(r), r[c] = r[d],
               c <= Len(p), ~(d <= Len(p))
        PROVE  FALSE
    <3>1. c \in 1 .. Len(p) /\ d - Len(p) \in 1 .. Len(q)
      BY <1>2, <2>3, SMT
    <3>2. p[c] = q[d - Len(p)]
      BY <1>2, <2>3, SMT
    <3>3. p[c] \in On(p) /\ q[d - Len(p)] \in On(q)
      BY <3>1 DEF On
    <3> QED BY <3>2, <3>3
  <2> QED BY <2>1, <2>2, <2>3
<1> QED BY <1>1, <1>3, <1>4 DEF r

-----------------------------------------------------------------------------
(* Each operation preserves the invariant.  Below, the lists of a monitor   *)
(* appear only as the sets of their entries.                                *)

\* What the invariant says of a thread that calls the API: what it is inside it owns,
\* and no depth is saved for it.
LEMMA ReadyThread ==
    ASSUME IInv, NEW t \in Thread, Ready(t)
    PROVE  /\ saved[t] = 0
           /\ \A m \in Monitor : /\ t \notin On(entry[m]) /\ t \notin On(waiting[m])
                                 /\ inside[t][m] \in Nat
                                 /\ inside[t][m] > 0 => owner[m] = t /\ depth[m] = inside[t][m]
                                 /\ inside[t][m] = 0 => owner[m] # t
  BY SMT DEF IInv, TypeOK, Ready, Queued, QueuedKnowsItsDepth, InsideOwnsOrQueues, OwnerIsInside

\* A monitor's queue is a sequence of threads, and an empty one has no entries.
LEMMA EmptyQueue == On(<<>>) = {} /\ Distinct(<<>>)
  BY SMT DEF On, Distinct

\* Entering a monitor that is free makes t its owner at depth 1.
LEMMA EnterFreeStep ==
    ASSUME IInv, NEW t \in Thread, NEW m \in Monitor, Ready(t), EnterFree(t, m),
           inside' = [inside EXCEPT ![t][m] = @ + 1], UNCHANGED waiting
    PROVE  IInv'
<1>1. saved[t] = 0 /\ inside[t][m] = 0 /\ owner[m] = NULL
  BY ReadyThread, MonitorsAssumption, SMT DEF EnterFree
<1>2. /\ owner' = [owner EXCEPT ![m] = t]
      /\ depth' = [depth EXCEPT ![m] = 1]
      /\ saved' = saved
      /\ entry' = entry /\ waiting' = waiting
  BY <1>1, SMT DEF EnterFree, Acquire, DepthOf, IInv, TypeOK
<1>3. TypeOK'
  BY <1>2, SMT DEF IInv, TypeOK
<1>4. QueuedOnce'
  BY <1>2 DEF IInv, QueuedOnce, Queued
<1>5. OwnerIsInside'
  BY <1>1, <1>2, ReadyThread, SMT DEF IInv, TypeOK, OwnerIsInside, Queued
<1>6. InsideOwnsOrQueues'
  BY <1>1, <1>2, MonitorsAssumption, SMT DEF IInv, TypeOK, InsideOwnsOrQueues, Queued
<1>7. QueuedKnowsItsDepth'
  BY <1>2, ReadyThread, SMT DEF IInv, TypeOK, QueuedKnowsItsDepth, Queued, Ready, DepthOf
<1>8. BlockedMonitorIsOwned'
  BY <1>2, MonitorsAssumption, SMT DEF IInv, TypeOK, BlockedMonitorIsOwned
<1> QED BY <1>3, <1>4, <1>5, <1>6, <1>7, <1>8 DEF IInv

\* Entering a monitor that t owns makes it one deeper.
LEMMA EnterAgainStep ==
    ASSUME IInv, NEW t \in Thread, NEW m \in Monitor, Ready(t), EnterAgain(t, m),
           inside' = [inside EXCEPT ![t][m] = @ + 1], UNCHANGED waiting
    PROVE  IInv'
<1>1. owner[m] = t /\ depth[m] = inside[t][m] /\ inside[t][m] > 0
  BY SMT DEF EnterAgain, IInv, TypeOK, OwnerIsInside
<1>2. /\ depth' = [depth EXCEPT ![m] = @ + 1]
      /\ owner' = owner /\ saved' = saved /\ entry' = entry /\ waiting' = waiting
  BY DEF EnterAgain
<1>0. \A u \in Thread, n \in Monitor :
         /\ inside'[u][n] = IF u = t /\ n = m THEN inside[t][m] + 1 ELSE inside[u][n]
         /\ depth'[n] = IF n = m THEN depth[m] + 1 ELSE depth[n]
  BY <1>2, SMT DEF IInv, TypeOK
<1>3. TypeOK'
  BY <1>2, SMT DEF IInv, TypeOK
<1>4. QueuedOnce'
  BY <1>2 DEF IInv, QueuedOnce, Queued
<1>5. OwnerIsInside'
  BY <1>0, <1>1, <1>2, SMT DEF IInv, TypeOK, OwnerIsInside, Queued
<1>6. InsideOwnsOrQueues'
  BY <1>1, <1>2, SMT DEF IInv, TypeOK, InsideOwnsOrQueues, Queued
<1>7. QueuedKnowsItsDepth'
  BY <1>2, ReadyThread, SMT DEF IInv, TypeOK, QueuedKnowsItsDepth, Queued, Ready, DepthOf
<1>8. BlockedMonitorIsOwned'
  BY <1>2 DEF IInv, BlockedMonitorIsOwned
<1> QED BY <1>3, <1>4, <1>5, <1>6, <1>7, <1>8 DEF IInv

\* Entering a monitor of another puts t at the end of those blocked on it.
LEMMA BlockStep ==
    ASSUME IInv, NEW t \in Thread, NEW m \in Monitor, Ready(t), Block(t, m),
           inside' = [inside EXCEPT ![t][m] = @ + 1], UNCHANGED waiting
    PROVE  IInv'
<1>1. saved[t] = 0 /\ inside[t][m] = 0 /\ owner[m] # t /\ owner[m] # NULL
  BY ReadyThread, SMT DEF Block
<1>2. /\ entry' = [entry EXCEPT ![m] = Append(@, t)]
      /\ owner' = owner /\ depth' = depth /\ saved' = saved /\ waiting' = waiting
  BY DEF Block
<1>3. /\ Append(entry[m], t) \in Seq(Thread)
      /\ On(Append(entry[m], t)) = On(entry[m]) \cup {t}
      /\ Distinct(Append(entry[m], t))
  BY ReadyThread, AppendOne DEF IInv, TypeOK, QueuedOnce
<1>4. TypeOK'
  BY <1>2, <1>3, SMT DEF IInv, TypeOK
<1>5. \A n \in Monitor : /\ entry'[n] = IF n = m THEN Append(entry[m], t) ELSE entry[n]
                         /\ On(entry'[n]) = IF n = m THEN On(entry[m]) \cup {t} ELSE On(entry[n])
  BY <1>2, <1>3 DEF IInv, TypeOK
<1>a. \A u \in Thread, n \in Monitor : Queued(u, n)' <=> (Queued(u, n) \/ (u = t /\ n = m))
  BY <1>2, <1>5 DEF Queued
<1>b. \A n \in Monitor : ~Queued(t, n)
  BY DEF Ready
<1>c. \A u \in Thread, n \in Monitor :
         inside'[u][n] = IF u = t /\ n = m THEN 1 ELSE inside[u][n]
  BY <1>1, SMT DEF IInv, TypeOK
<1>6. QueuedOnce'
  <2>1. \A n \in Monitor : /\ Distinct(entry'[n]) /\ Distinct(waiting'[n])
                          /\ On(entry'[n]) \cap On(waiting'[n]) = {}
    <3> SUFFICES ASSUME NEW n \in Monitor
                 PROVE  /\ Distinct(entry'[n]) /\ Distinct(waiting'[n])
                        /\ On(entry'[n]) \cap On(waiting'[n]) = {}
      OBVIOUS
    <3>1. /\ Distinct(entry[n]) /\ Distinct(waiting[n])
          /\ On(entry[n]) \cap On(waiting[n]) = {}
      BY DEF IInv, QueuedOnce
    <3>2. t \notin On(waiting[n])
      BY <1>b DEF Queued
    <3>3. CASE n = m
      BY <1>2, <1>3, <1>5, <3>1, <3>2, <3>3
    <3>4. CASE n # m
      BY <1>2, <1>5, <3>1, <3>4
    <3> QED BY <3>3, <3>4
  <2>2. \A u \in Thread, n, o \in Monitor : Queued(u, n)' /\ Queued(u, o)' => n = o
    BY <1>a, <1>b DEF IInv, QueuedOnce
  <2> QED BY <2>1, <2>2 DEF QueuedOnce
<1>7. OwnerIsInside'
  BY <1>1, <1>2, <1>5, ReadyThread, SMT DEF IInv, TypeOK, OwnerIsInside, Queued
<1>8. InsideOwnsOrQueues'
  BY <1>1, <1>2, <1>5, SMT DEF IInv, TypeOK, InsideOwnsOrQueues, Queued
<1>9. QueuedKnowsItsDepth'
  <2>1. \A u \in Thread, n \in Monitor : Queued(u, n)' => inside'[u][n] = DepthOf(u, saved)
    BY <1>1, <1>a, <1>b, <1>c DEF IInv, QueuedKnowsItsDepth, DepthOf
  <2>2. \A u \in Thread, n \in Monitor : u \in On(waiting[n]) => saved[u] > 0
    BY DEF IInv, QueuedKnowsItsDepth
  <2>3. \A u \in Thread : saved[u] > 0 => ~Ready(u)'
    BY <1>a DEF IInv, QueuedKnowsItsDepth, Ready
  <2> QED BY <1>2, <2>1, <2>2, <2>3 DEF QueuedKnowsItsDepth, DepthOf
<1>10. BlockedMonitorIsOwned'
  BY <1>1, <1>2, <1>5, SMT DEF IInv, BlockedMonitorIsOwned
<1> QED BY <1>4, <1>6, <1>7, <1>8, <1>9, <1>10 DEF IInv

\* Leaving a monitor that was entered more than once keeps it.
LEMMA ExitInnerStep ==
    ASSUME IInv, NEW t \in Thread, NEW m \in Monitor, Ready(t), inside[t][m] > 0,
           ExitInner(t, m), inside' = [inside EXCEPT ![t][m] = @ - 1], UNCHANGED waiting
    PROVE  IInv'
<1>1. owner[m] = t /\ depth[m] = inside[t][m] /\ inside[t][m] > 1 /\ inside[t][m] \in Nat
  BY ReadyThread, SMT DEF ExitInner
<1>2. /\ depth' = [depth EXCEPT ![m] = @ - 1]
      /\ owner' = owner /\ saved' = saved /\ entry' = entry /\ waiting' = waiting
  BY DEF ExitInner
<1>3. TypeOK'
  BY <1>1, <1>2, SMT DEF IInv, TypeOK
<1>4. QueuedOnce'
  BY <1>2 DEF IInv, QueuedOnce, Queued
<1>5. OwnerIsInside'
  BY <1>1, <1>2, SMT DEF IInv, TypeOK, OwnerIsInside, Queued
<1>6. InsideOwnsOrQueues'
  BY <1>1, <1>2, SMT DEF IInv, TypeOK, InsideOwnsOrQueues, Queued
<1>7. QueuedKnowsItsDepth'
  BY <1>2, ReadyThread, SMT DEF IInv, TypeOK, QueuedKnowsItsDepth, Queued, Ready, DepthOf
<1>8. BlockedMonitorIsOwned'
  BY <1>2 DEF IInv, BlockedMonitorIsOwned
<1> QED BY <1>3, <1>4, <1>5, <1>6, <1>7, <1>8 DEF IInv

\* The thread that gets a monitor its owner gives up, if there is one, and the depths
\* saved when t gives it up for good (waits is FALSE) or to wait (waits is TRUE).
Successor(m) == IF entry[m] = <<>> THEN NULL ELSE Head(entry[m])
SavedBy(t, m, waits) == IF waits THEN [saved EXCEPT ![t] = depth[m]] ELSE saved

\* What a hand-over does, for the exit of a monitor and for the start of a wait, when
\* next gets the monitor and S are the depths saved.
Passes(m, next, S) ==
    /\ owner' = [owner EXCEPT ![m] = next]
    /\ next \in Thread => next # NULL /\ next \in On(entry[m])
    /\ next \notin Thread => next = NULL /\ On(entry[m]) = {}
    /\ depth' \in [Monitor -> Nat]
    /\ \A n \in Monitor \ {m} : depth'[n] = depth[n]
    /\ next \in Thread => depth'[m] = inside[next][m] /\ depth'[m] > 0
    /\ saved' \in [Thread -> Nat]
    /\ \A u \in Thread : saved'[u] = IF u = next THEN 0 ELSE S[u]
    /\ entry' \in [Monitor -> Seq(Thread)]
    /\ \A n \in Monitor \ {m} : entry'[n] = entry[n]
    /\ On(entry'[m]) = On(entry[m]) \ {next}
    /\ Distinct(entry'[m])
    /\ entry'[m] # <<>> => next \in Thread

\* What releaseBlockedThread does to owner, depth and queue: the longest blocked
\* thread owns the monitor at the depth that was saved for it.
LEMMA HandOverEffect ==
    ASSUME IInv, NEW t \in Thread, NEW m \in Monitor, NEW waits \in BOOLEAN,
           Ready(t), owner[m] = t, HandOver(m, SavedBy(t, m, waits))
    PROVE  Passes(m, Successor(m), SavedBy(t, m, waits))
<1> DEFINE S == SavedBy(t, m, waits)
           next == Successor(m)
<1>0. /\ next = IF entry[m] = <<>> THEN NULL ELSE Head(entry[m])
      /\ S \in [Thread -> Nat] /\ \A u \in Thread \ {t} : S[u] = saved[u]
      /\ HandOver(m, S)
  BY SMT DEF Successor, SavedBy, IInv, TypeOK
<1> SUFFICES Passes(m, next, S)
  OBVIOUS
<1> HIDE DEF S, next
<1>1. CASE entry[m] = <<>>
  <2>1. next = NULL /\ On(entry[m]) = {} /\ NULL \notin Thread
    BY <1>0, <1>1, EmptyQueue, MonitorsAssumption
  <2>2. /\ owner' = [owner EXCEPT ![m] = NULL] /\ depth' = [depth EXCEPT ![m] = 0]
        /\ saved' = S /\ entry' = entry
    BY <1>0, <1>1 DEF HandOver
  <2>3. depth' \in [Monitor -> Nat] /\ \A n \in Monitor \ {m} : depth'[n] = depth[n]
    BY <2>2, SMT DEF IInv, TypeOK
  <2> QED BY <1>0, <1>1, <2>1, <2>2, <2>3 DEF Passes, IInv, TypeOK, QueuedOnce
<1>2. CASE entry[m] # <<>>
  <2>1. /\ next = Head(entry[m]) /\ next \in Thread /\ next \in On(entry[m])
        /\ Tail(entry[m]) \in Seq(Thread)
        /\ On(Tail(entry[m])) = On(entry[m]) \ {next} /\ Distinct(Tail(entry[m]))
    BY <1>0, <1>2, RemoveFront DEF IInv, TypeOK, QueuedOnce
  <2>2. next # t /\ next # NULL
    BY <2>1, ReadyThread, MonitorsAssumption
  <2>3. /\ owner' = [owner EXCEPT ![m] = next]
        /\ depth' = [depth EXCEPT ![m] = DepthOf(next, S)]
        /\ saved' = [S EXCEPT ![next] = 0]
        /\ entry' = [entry EXCEPT ![m] = Tail(@)]
    BY <1>0, <1>2, <2>1 DEF HandOver, Acquire
  <2>4. /\ DepthOf(next, S) = inside[next][m] /\ DepthOf(next, S) > 0
        /\ DepthOf(next, S) \in Nat
    <3>1. S[next] = saved[next] /\ saved[next] \in Nat
      BY <1>0, <2>1, <2>2 DEF IInv, TypeOK
    <3>2. inside[next][m] = DepthOf(next, saved)
      BY <2>1 DEF IInv, QueuedKnowsItsDepth, Queued
    <3> QED BY <3>1, <3>2, SMT DEF DepthOf
  <2>5. /\ depth' \in [Monitor -> Nat]
        /\ \A n \in Monitor \ {m} : depth'[n] = depth[n]
        /\ depth'[m] = inside[next][m] /\ depth'[m] > 0
    BY <2>3, <2>4 DEF IInv, TypeOK
  <2>6. saved' \in [Thread -> Nat] /\ \A u \in Thread : saved'[u] = IF u = next THEN 0 ELSE S[u]
    BY <1>0, <2>1, <2>3, SMT
  <2>7. /\ entry' \in [Monitor -> Seq(Thread)] /\ entry'[m] = Tail(entry[m])
        /\ \A n \in Monitor \ {m} : entry'[n] = entry[n]
    BY <2>1, <2>3 DEF IInv, TypeOK
  <2> QED BY <2>1, <2>2, <2>3, <2>5, <2>6, <2>7 DEF Passes
<1> QED BY <1>1, <1>2

\* A hand-over preserves the invariant when t leaves the monitor (waits is FALSE) and
\* when it gives it up to wait (waits is TRUE).
LEMMA HandOverStep ==
    ASSUME IInv, NEW t \in Thread, NEW m \in Monitor, NEW waits \in BOOLEAN,
           Ready(t), owner[m] = t,
           HandOver(m, IF waits THEN [saved EXCEPT ![t] = depth[m]] ELSE saved),
           waiting' = IF waits THEN [waiting EXCEPT ![m] = Append(@, t)] ELSE waiting,
           inside' = IF waits THEN inside ELSE [inside EXCEPT ![t][m] = 0]
    PROVE  IInv'
<1> DEFINE S == SavedBy(t, m, waits)
           next == Successor(m)
<1>1. saved[t] = 0 /\ depth[m] = inside[t][m] /\ depth[m] > 0 /\ depth[m] \in Nat
  BY ReadyThread DEF IInv, OwnerIsInside, TypeOK
<1>2. /\ S \in [Thread -> Nat] /\ S[t] = IF waits THEN inside[t][m] ELSE 0
      /\ \A u \in Thread \ {t} : S[u] = saved[u]
      /\ S[t] >= 0
  BY <1>1, SMT DEF IInv, TypeOK, SavedBy
<1>3. HandOver(m, S)
  BY DEF SavedBy
<1>4. Passes(m, next, S)
  BY <1>3, HandOverEffect
<1>16. next # t
  BY <1>4, ReadyThread, MonitorsAssumption DEF Passes
<1> HIDE DEF S, next
<1> USE DEF Passes
<1>5. \A n \in Monitor : owner'[n] = IF n = m THEN next ELSE owner[n]
  BY <1>4 DEF IInv, TypeOK
<1>6. \A u \in Thread, n \in Monitor :
         inside'[u][n] = IF ~waits /\ u = t /\ n = m THEN 0 ELSE inside[u][n]
  BY SMT DEF IInv, TypeOK
<1>7. /\ waiting' \in [Monitor -> Seq(Thread)]
      /\ \A n \in Monitor \ {m} : waiting'[n] = waiting[n]
      /\ On(waiting'[m]) = IF waits THEN On(waiting[m]) \cup {t} ELSE On(waiting[m])
      /\ Distinct(waiting'[m])
  <2>1. /\ Append(waiting[m], t) \in Seq(Thread)
        /\ On(Append(waiting[m], t)) = On(waiting[m]) \cup {t}
        /\ Distinct(Append(waiting[m], t))
    BY ReadyThread, AppendOne DEF IInv, TypeOK, QueuedOnce
  <2>2. CASE waits
    <3>1. waiting' = [waiting EXCEPT ![m] = Append(waiting[m], t)]
      BY <2>2
    <3>2. /\ waiting'[m] = Append(waiting[m], t)
          /\ waiting' \in [Monitor -> Seq(Thread)]
          /\ \A n \in Monitor \ {m} : waiting'[n] = waiting[n]
      BY <2>1, <3>1 DEF IInv, TypeOK
    <3> QED BY <2>1, <2>2, <3>2
  <2>3. CASE ~waits
    BY <2>3 DEF IInv, TypeOK, QueuedOnce
  <2> QED BY <2>2, <2>3
<1>8. \A n \in Monitor : ~Queued(t, n)
  BY DEF Ready
<1>9. \A u \in Thread, n \in Monitor :
         Queued(u, n)' <=> \/ Queued(u, n) /\ ~(u = next /\ n = m)
                           \/ waits /\ u = t /\ n = m
  <2> SUFFICES ASSUME NEW u \in Thread, NEW n \in Monitor
               PROVE  Queued(u, n)' <=> \/ Queued(u, n) /\ ~(u = next /\ n = m)
                                        \/ waits /\ u = t /\ n = m
    OBVIOUS
  <2>1. CASE n # m
    BY <1>4, <1>7, <2>1 DEF Queued
  <2>2. CASE n = m
    <3>1. next \in Thread => next \notin On(waiting[m])
      BY <1>4 DEF IInv, QueuedOnce
    <3> QED BY <1>4, <1>7, <2>2, <3>1 DEF Queued
  <2> QED BY <2>1, <2>2
<1>10. TypeOK'
  <2>1. owner' \in [Monitor -> Thread \cup {NULL}]
    BY <1>4 DEF IInv, TypeOK
  <2>2. inside' \in [Thread -> [Monitor -> Nat]]
    BY SMT DEF IInv, TypeOK
  <2> QED BY <1>4, <1>7, <2>1, <2>2 DEF TypeOK
<1>11. QueuedOnce'
  <2>1. ASSUME NEW n \in Monitor
        PROVE  /\ Distinct(entry'[n]) /\ Distinct(waiting'[n])
               /\ On(entry'[n]) \cap On(waiting'[n]) = {}
    <3>1. /\ Distinct(entry[n]) /\ Distinct(waiting[n])
          /\ On(entry[n]) \cap On(waiting[n]) = {} /\ t \notin On(entry[n])
      BY <1>8 DEF IInv, QueuedOnce, Queued
    <3>2. CASE n = m
      BY <1>4, <1>7, <3>1, <3>2
    <3>3. CASE n # m
      BY <1>4, <1>7, <3>1, <3>3
    <3> QED BY <3>2, <3>3
  <2>2. \A u \in Thread, n, o \in Monitor : Queued(u, n)' /\ Queued(u, o)' => n = o
    BY <1>8, <1>9 DEF IInv, QueuedOnce
  <2> QED BY <2>1, <2>2 DEF QueuedOnce
<1>12. OwnerIsInside'
  <2> SUFFICES ASSUME NEW u \in Thread, NEW n \in Monitor, owner'[n] = u
               PROVE  depth'[n] = inside'[u][n] /\ depth'[n] > 0 /\ ~Queued(u, n)'
    BY DEF OwnerIsInside
  <2>1. CASE n = m
    <3>1. u = next /\ next \in Thread /\ u # t
      BY <1>5, <1>16, <2>1
    <3> QED BY <1>4, <1>6, <1>9, <2>1, <3>1
  <2>2. CASE n # m
    <3>1. depth[n] = inside[u][n] /\ depth[n] > 0 /\ ~Queued(u, n)
      BY <1>5, <2>2 DEF IInv, OwnerIsInside
    <3> QED BY <1>4, <1>6, <1>9, <2>2, <3>1
  <2> QED BY <2>1, <2>2
<1>13. InsideOwnsOrQueues'
  <2> SUFFICES ASSUME NEW u \in Thread, NEW n \in Monitor, inside'[u][n] > 0
               PROVE  owner'[n] = u \/ Queued(u, n)'
    BY DEF InsideOwnsOrQueues
  <2>1. inside[u][n] > 0 /\ ~(~waits /\ u = t /\ n = m)
    BY <1>6, SMT
  <2>2. owner[n] = u \/ Queued(u, n)
    BY <2>1 DEF IInv, InsideOwnsOrQueues
  <2> QED BY <1>5, <1>9, <2>1, <2>2
<1>14. QueuedKnowsItsDepth'
  <2>1. ASSUME NEW u \in Thread, NEW n \in Monitor, Queued(u, n)'
        PROVE  inside'[u][n] = DepthOf(u, saved')
    <3>1. CASE u = t
      <4>1. waits /\ n = m /\ u # next
        BY <1>16, <1>8, <1>9, <2>1, <3>1
      <4> QED BY <1>1, <1>2, <1>4, <1>6, <3>1, <4>1 DEF DepthOf
    <3>2. CASE u # t
      <4>1. Queued(u, n) /\ u # next
        BY <1>4, <1>9, <2>1, <3>2 DEF IInv, QueuedOnce, Queued
      <4>2. inside[u][n] = DepthOf(u, saved) /\ saved'[u] = saved[u]
        BY <1>2, <1>4, <3>2, <4>1 DEF IInv, QueuedKnowsItsDepth
      <4> QED BY <1>6, <3>2, <4>2 DEF DepthOf
    <3> QED BY <3>1, <3>2
  <2>2. ASSUME NEW u \in Thread, NEW n \in Monitor, u \in On(waiting'[n])
        PROVE  saved'[u] > 0
    <3>1. CASE u = t
      <4>1. waits /\ u # next
        BY <1>16, <1>7, <1>8, <2>2, <3>1 DEF Queued
      <4> QED BY <1>1, <1>2, <1>4, <3>1, <4>1
    <3>2. CASE u # t
      <4>1. u \in On(waiting[n])
        BY <1>7, <2>2, <3>2
      <4>2. u # next
        BY <1>4, <4>1 DEF IInv, QueuedOnce, Queued
      <4> QED BY <1>2, <1>4, <3>2, <4>1, <4>2 DEF IInv, QueuedKnowsItsDepth
    <3> QED BY <3>1, <3>2
  <2>3. ASSUME NEW u \in Thread, saved'[u] > 0
        PROVE  ~Ready(u)'
    <3>1. u # next /\ S[u] > 0
      BY <1>4, <2>3, SMT
    <3>2. CASE u = t
      BY <1>2, <1>9, <3>1, <3>2, SMT DEF Ready
    <3>3. CASE u # t
      BY <1>2, <1>9, <3>1, <3>3 DEF IInv, QueuedKnowsItsDepth, Ready
    <3> QED BY <3>2, <3>3
  <2> QED BY <2>1, <2>2, <2>3 DEF QueuedKnowsItsDepth, DepthOf
<1>15. BlockedMonitorIsOwned'
  <2> SUFFICES ASSUME NEW n \in Monitor, entry'[n] # <<>> PROVE owner'[n] # NULL
    BY DEF BlockedMonitorIsOwned
  <2>1. CASE n = m
    BY <1>4, <1>5, <2>1
  <2>2. CASE n # m
    BY <1>4, <1>5, <2>2 DEF IInv, BlockedMonitorIsOwned
  <2> QED BY <2>1, <2>2
<1> QED BY <1>10, <1>11, <1>12, <1>13, <1>14, <1>15 DEF IInv

\* Waiters of an owned monitor become blocked on it: notify, notifyAll, and a timeout
\* or interrupt while somebody is inside.
LEMMA NotifiedStep ==
    ASSUME IInv, NEW m \in Monitor, owner[m] # NULL,
           UNCHANGED <<owner, depth, saved, inside>>,
           entry' \in [Monitor -> Seq(Thread)], waiting' \in [Monitor -> Seq(Thread)],
           \A n \in Monitor \ {m} : entry'[n] = entry[n] /\ waiting'[n] = waiting[n],
           Distinct(entry'[m]), Distinct(waiting'[m]),
           On(entry'[m]) \cap On(waiting'[m]) = {},
           On(entry'[m]) \cup On(waiting'[m]) = On(entry[m]) \cup On(waiting[m]),
           On(waiting'[m]) \subseteq On(waiting[m])
    PROVE  IInv'
<1>1. \A u \in Thread, n \in Monitor : Queued(u, n)' <=> Queued(u, n)
  <2> SUFFICES ASSUME NEW u \in Thread, NEW n \in Monitor PROVE Queued(u, n)' <=> Queued(u, n)
    OBVIOUS
  <2>1. CASE n = m
    BY <2>1 DEF Queued
  <2>2. CASE n # m
    BY <2>2 DEF Queued
  <2> QED BY <2>1, <2>2
<1>2. TypeOK'
  BY DEF IInv, TypeOK
<1>3. QueuedOnce'
  <2>1. ASSUME NEW n \in Monitor
        PROVE  /\ Distinct(entry'[n]) /\ Distinct(waiting'[n])
               /\ On(entry'[n]) \cap On(waiting'[n]) = {}
    <3>1. CASE n = m
      BY <3>1
    <3>2. CASE n # m
      BY <3>2 DEF IInv, QueuedOnce
    <3> QED BY <3>1, <3>2
  <2>2. \A u \in Thread, n, o \in Monitor : Queued(u, n)' /\ Queued(u, o)' => n = o
    BY <1>1 DEF IInv, QueuedOnce
  <2> QED BY <2>1, <2>2 DEF QueuedOnce
<1>4. OwnerIsInside'
  BY <1>1 DEF IInv, OwnerIsInside
<1>5. InsideOwnsOrQueues'
  BY <1>1 DEF IInv, InsideOwnsOrQueues
<1>6. QueuedKnowsItsDepth'
  <2>1. \A u \in Thread, n \in Monitor : Queued(u, n)' => inside'[u][n] = DepthOf(u, saved)
    BY <1>1 DEF IInv, QueuedKnowsItsDepth
  <2>2. ASSUME NEW u \in Thread, NEW n \in Monitor, u \in On(waiting'[n])
        PROVE  saved[u] > 0
    <3>1. u \in On(waiting[n])
      <4>1. CASE n = m
        BY <2>2, <4>1
      <4>2. CASE n # m
        BY <2>2, <4>2
      <4> QED BY <4>1, <4>2
    <3> QED BY <3>1 DEF IInv, QueuedKnowsItsDepth
  <2>3. \A u \in Thread : saved[u] > 0 => ~Ready(u)'
    BY <1>1 DEF IInv, QueuedKnowsItsDepth, Ready
  <2> QED BY <2>1, <2>2, <2>3 DEF QueuedKnowsItsDepth, DepthOf
<1>7. BlockedMonitorIsOwned'
  <2> SUFFICES ASSUME NEW n \in Monitor, entry'[n] # <<>> PROVE owner[n] # NULL
    BY DEF BlockedMonitorIsOwned
  <2>1. CASE n # m
    BY <2>1 DEF IInv, BlockedMonitorIsOwned
  <2> QED BY <2>1
<1> QED BY <1>2, <1>3, <1>4, <1>5, <1>6, <1>7 DEF IInv

\* A timeout or interrupt gives the monitor to the k-th waiter when nobody is inside.
LEMMA AwakenFreeStep ==
    ASSUME IInv, NEW m \in Monitor, NEW t \in Thread, owner[m] = NULL, t \in On(waiting[m]),
           Acquire(t, m, saved), UNCHANGED <<entry, inside>>,
           waiting' \in [Monitor -> Seq(Thread)],
           \A n \in Monitor \ {m} : waiting'[n] = waiting[n],
           Distinct(waiting'[m]), On(waiting'[m]) = On(waiting[m]) \ {t}
    PROVE  IInv'
<1>1. /\ inside[t][m] = DepthOf(t, saved) /\ DepthOf(t, saved) > 0 /\ DepthOf(t, saved) \in Nat
      /\ t \notin On(entry[m]) /\ t # NULL
  BY MonitorsAssumption, SMT
     DEF IInv, TypeOK, QueuedKnowsItsDepth, DepthOf, Queued, QueuedOnce
<1>2. /\ \A n \in Monitor : owner'[n] = IF n = m THEN t ELSE owner[n]
      /\ \A n \in Monitor : depth'[n] = IF n = m THEN inside[t][m] ELSE depth[n]
      /\ \A u \in Thread : saved'[u] = IF u = t THEN 0 ELSE saved[u]
  BY <1>1 DEF Acquire, IInv, TypeOK
<1>3. \A u \in Thread, n \in Monitor : Queued(u, n)' <=> Queued(u, n) /\ ~(u = t /\ n = m)
  <2> SUFFICES ASSUME NEW u \in Thread, NEW n \in Monitor
               PROVE  Queued(u, n)' <=> Queued(u, n) /\ ~(u = t /\ n = m)
    OBVIOUS
  <2>1. CASE n = m
    BY <1>1, <2>1 DEF Queued
  <2>2. CASE n # m
    BY <2>2 DEF Queued
  <2> QED BY <2>1, <2>2
<1>4. TypeOK'
  BY <1>1 DEF Acquire, IInv, TypeOK
<1>5. QueuedOnce'
  <2>1. ASSUME NEW n \in Monitor
        PROVE  /\ Distinct(entry'[n]) /\ Distinct(waiting'[n])
               /\ On(entry'[n]) \cap On(waiting'[n]) = {}
    <3>1. CASE n = m
      BY <3>1 DEF IInv, QueuedOnce
    <3>2. CASE n # m
      BY <3>2 DEF IInv, QueuedOnce
    <3> QED BY <3>1, <3>2
  <2>2. \A u \in Thread, n, o \in Monitor : Queued(u, n)' /\ Queued(u, o)' => n = o
    BY <1>3 DEF IInv, QueuedOnce
  <2> QED BY <2>1, <2>2 DEF QueuedOnce
<1>6. OwnerIsInside'
  BY <1>1, <1>2, <1>3 DEF IInv, OwnerIsInside
<1>7. InsideOwnsOrQueues'
  <2> SUFFICES ASSUME NEW u \in Thread, NEW n \in Monitor, inside[u][n] > 0
               PROVE  owner'[n] = u \/ Queued(u, n)'
    BY DEF InsideOwnsOrQueues
  <2>1. owner[n] = u \/ Queued(u, n)
    BY DEF IInv, InsideOwnsOrQueues
  <2>2. n = m => owner[n] # u
    BY MonitorsAssumption
  <2> QED BY <1>2, <1>3, <2>1, <2>2
<1>8. QueuedKnowsItsDepth'
  <2>1. \A u \in Thread, n \in Monitor : Queued(u, n)' => u # t
    BY <1>1, <1>3 DEF IInv, QueuedOnce, Queued
  <2>2. ASSUME NEW u \in Thread, NEW n \in Monitor, Queued(u, n)'
        PROVE  inside[u][n] = DepthOf(u, saved')
    BY <1>2, <1>3, <2>1, <2>2 DEF IInv, QueuedKnowsItsDepth, DepthOf
  <2>3. ASSUME NEW u \in Thread, NEW n \in Monitor, u \in On(waiting'[n])
        PROVE  saved'[u] > 0
    <3>1. u # t
      BY <2>1, <2>3 DEF Queued
    <3>2. u \in On(waiting[n])
      <4>1. CASE n = m
        BY <2>3, <4>1
      <4>2. CASE n # m
        BY <2>3, <4>2
      <4> QED BY <4>1, <4>2
    <3> QED BY <1>2, <3>1, <3>2 DEF IInv, QueuedKnowsItsDepth
  <2>4. ASSUME NEW u \in Thread, saved'[u] > 0
        PROVE  ~Ready(u)'
    <3>1. u # t /\ saved[u] > 0
      BY <1>2, <2>4, SMT
    <3> QED BY <1>3, <3>1 DEF IInv, QueuedKnowsItsDepth, Ready
  <2> QED BY <2>2, <2>3, <2>4 DEF QueuedKnowsItsDepth, DepthOf
<1>9. BlockedMonitorIsOwned'
  BY <1>1, <1>2 DEF IInv, BlockedMonitorIsOwned
<1> QED BY <1>4, <1>5, <1>6, <1>7, <1>8, <1>9 DEF IInv

-----------------------------------------------------------------------------
(* The theorems. *)

\* It holds at first, and every step keeps it.
LEMMA InvAtFirst == Init => IInv
BY EmptyQueue, MonitorsAssumption, SMT
   DEF Init, IInv, TypeOK, QueuedOnce, OwnerIsInside, InsideOwnsOrQueues,
       QueuedKnowsItsDepth, BlockedMonitorIsOwned, Queued, Ready, DepthOf

LEMMA InvKept == IInv /\ [Next]_vars => IInv'
<1> SUFFICES ASSUME IInv, [Next]_vars PROVE IInv'
  OBVIOUS
<1>1. ASSUME NEW t \in Thread, NEW m \in Monitor, Enter(t, m) PROVE IInv'
  <2>1. Ready(t) /\ inside' = [inside EXCEPT ![t][m] = @ + 1] /\ UNCHANGED waiting
    BY <1>1 DEF Enter
  <2>2. CASE EnterFree(t, m)
    BY <2>1, <2>2, EnterFreeStep
  <2>3. CASE EnterAgain(t, m)
    BY <2>1, <2>3, EnterAgainStep
  <2>4. CASE Block(t, m)
    BY <2>1, <2>4, BlockStep
  <2> QED BY <1>1, <2>2, <2>3, <2>4 DEF Enter
<1>2. ASSUME NEW t \in Thread, NEW m \in Monitor, Exit(t, m) PROVE IInv'
  <2>1. /\ Ready(t) /\ inside[t][m] > 0 /\ UNCHANGED waiting
        /\ inside' = [inside EXCEPT ![t][m] = @ - 1]
    BY <1>2 DEF Exit
  <2>2. CASE ExitInner(t, m)
    BY <2>1, <2>2, ExitInnerStep
  <2>3. CASE depth[m] = 1 /\ HandOver(m, saved)
    <3>1. owner[m] = t /\ inside[t][m] = 1
      BY <2>1, <2>3, ReadyThread
    <3>2. inside' = [inside EXCEPT ![t][m] = 0]
      BY <2>1, <3>1
    <3> DEFINE waits == FALSE
    <3>3. /\ waits \in BOOLEAN
          /\ HandOver(m, IF waits THEN [saved EXCEPT ![t] = depth[m]] ELSE saved)
          /\ waiting' = IF waits THEN [waiting EXCEPT ![m] = Append(@, t)] ELSE waiting
          /\ inside' = IF waits THEN inside ELSE [inside EXCEPT ![t][m] = 0]
      BY <2>1, <2>3, <3>2
    <3> HIDE DEF waits
    <3> QED BY <2>1, <3>1, <3>3, HandOverStep
  <2> QED BY <1>2, <2>2, <2>3 DEF Exit
<1>3. ASSUME NEW t \in Thread, NEW m \in Monitor, Wait(t, m) PROVE IInv'
  <2> DEFINE waits == TRUE
  <2>1. /\ waits \in BOOLEAN /\ Ready(t) /\ owner[m] = t
        /\ HandOver(m, IF waits THEN [saved EXCEPT ![t] = depth[m]] ELSE saved)
        /\ waiting' = IF waits THEN [waiting EXCEPT ![m] = Append(@, t)] ELSE waiting
        /\ inside' = IF waits THEN inside ELSE [inside EXCEPT ![t][m] = 0]
    BY <1>3 DEF Wait
  <2> HIDE DEF waits
  <2> QED BY <2>1, HandOverStep
<1>4. ASSUME NEW t \in Thread, NEW m \in Monitor, Notify(t, m) PROVE IInv'
  <2> DEFINE h == Head(waiting[m])
  <2>1. /\ h \in Thread /\ h \in On(waiting[m]) /\ Tail(waiting[m]) \in Seq(Thread)
        /\ On(Tail(waiting[m])) = On(waiting[m]) \ {h} /\ Distinct(Tail(waiting[m]))
    BY <1>4, RemoveFront DEF Notify, IInv, TypeOK, QueuedOnce
  <2>2. /\ Append(entry[m], h) \in Seq(Thread)
        /\ On(Append(entry[m], h)) = On(entry[m]) \cup {h}
        /\ Distinct(Append(entry[m], h))
    BY <2>1, AppendOne DEF IInv, TypeOK, QueuedOnce
  <2> HIDE DEF h
  <2>3. /\ entry' = [entry EXCEPT ![m] = Append(@, h)]
        /\ waiting' = [waiting EXCEPT ![m] = Tail(@)]
        /\ owner[m] # NULL /\ UNCHANGED <<owner, depth, saved, inside>>
    BY <1>4, MonitorsAssumption DEF Notify, h
  <2>4. /\ entry' \in [Monitor -> Seq(Thread)] /\ waiting' \in [Monitor -> Seq(Thread)]
        /\ entry'[m] = Append(entry[m], h) /\ waiting'[m] = Tail(waiting[m])
        /\ \A n \in Monitor \ {m} : entry'[n] = entry[n] /\ waiting'[n] = waiting[n]
    BY <2>1, <2>2, <2>3 DEF IInv, TypeOK
  <2>5. On(entry[m]) \cap On(waiting[m]) = {}
    BY DEF IInv, QueuedOnce
  <2> QED BY <2>1, <2>2, <2>3, <2>4, <2>5, NotifiedStep
<1>5. ASSUME NEW t \in Thread, NEW m \in Monitor, NotifyAll(t, m) PROVE IInv'
  <2>1. /\ entry[m] \o waiting[m] \in Seq(Thread)
        /\ On(entry[m] \o waiting[m]) = On(entry[m]) \cup On(waiting[m])
        /\ Distinct(entry[m] \o waiting[m])
    BY Concatenate DEF IInv, TypeOK, QueuedOnce
  <2>2. /\ entry' = [entry EXCEPT ![m] = @ \o waiting[m]]
        /\ waiting' = [waiting EXCEPT ![m] = <<>>]
        /\ owner[m] # NULL /\ UNCHANGED <<owner, depth, saved, inside>>
    BY <1>5, MonitorsAssumption DEF NotifyAll
  <2>3. /\ entry' \in [Monitor -> Seq(Thread)] /\ waiting' \in [Monitor -> Seq(Thread)]
        /\ entry'[m] = entry[m] \o waiting[m] /\ waiting'[m] = <<>>
        /\ \A n \in Monitor \ {m} : entry'[n] = entry[n] /\ waiting'[n] = waiting[n]
    BY <2>1, <2>2, EmptySeq DEF IInv, TypeOK
  <2> QED BY <2>1, <2>2, <2>3, EmptyQueue, NotifiedStep
<1>6. ASSUME NEW m \in Monitor, NEW k \in 1 .. Len(waiting[m]), Awaken(m, k) PROVE IInv'
  <2> DEFINE t == waiting[m][k]
  <2>1. /\ t \in Thread /\ t \in On(waiting[m]) /\ RemoveAt(waiting[m], k) \in Seq(Thread)
        /\ On(RemoveAt(waiting[m], k)) = On(waiting[m]) \ {t}
        /\ Distinct(RemoveAt(waiting[m], k))
    BY RemoveAny DEF IInv, TypeOK, QueuedOnce
  <2> HIDE DEF t
  <2>2. /\ waiting' \in [Monitor -> Seq(Thread)] /\ waiting'[m] = RemoveAt(waiting[m], k)
        /\ \A n \in Monitor \ {m} : waiting'[n] = waiting[n]
        /\ UNCHANGED inside
    BY <1>6, <2>1 DEF Awaken, IInv, TypeOK
  <2>3. CASE owner[m] = NULL
    <3>1. Acquire(t, m, saved) /\ UNCHANGED entry
      BY <1>6, <2>3 DEF Awaken, t
    <3> QED BY <2>1, <2>2, <2>3, <3>1, AwakenFreeStep
  <2>4. CASE owner[m] # NULL
    <3>1. /\ entry' = [entry EXCEPT ![m] = Append(@, t)]
          /\ UNCHANGED <<owner, depth, saved, inside>>
      BY <1>6, <2>4 DEF Awaken, t
    <3>2. On(entry[m]) \cap On(waiting[m]) = {} /\ Distinct(entry[m])
      BY DEF IInv, QueuedOnce
    <3>3. /\ Append(entry[m], t) \in Seq(Thread)
          /\ On(Append(entry[m], t)) = On(entry[m]) \cup {t}
          /\ Distinct(Append(entry[m], t))
      BY <2>1, <3>2, AppendOne DEF IInv, TypeOK
    <3>4. /\ entry' \in [Monitor -> Seq(Thread)] /\ entry'[m] = Append(entry[m], t)
          /\ \A n \in Monitor \ {m} : entry'[n] = entry[n]
      BY <3>1, <3>3 DEF IInv, TypeOK
    <3> QED BY <2>1, <2>2, <2>4, <3>1, <3>2, <3>3, <3>4, NotifiedStep
  <2> QED BY <2>3, <2>4
<1>7. CASE UNCHANGED vars
  BY <1>7 DEF vars, IInv, TypeOK, QueuedOnce, OwnerIsInside, InsideOwnsOrQueues,
              QueuedKnowsItsDepth, BlockedMonitorIsOwned, Queued, Ready, DepthOf
<1> QED BY <1>1, <1>2, <1>3, <1>4, <1>5, <1>6, <1>7 DEF Next

\* The invariant holds of every execution.
THEOREM Invariance == Spec => []IInv
BY InvAtFirst, InvKept, PTL DEF Spec

\* A thread that executes its program owns every monitor the program is inside, at the
\* depth it entered it: a wait gives the monitor up and gets it back completely,
\* whether it ends by a notification, a timeout or an interrupt.
THEOREM InsideIsOwned == Spec => []InsideMeansOwner
<1>1. IInv => InsideMeansOwner
  BY ReadyThread DEF InsideMeansOwner
<1> QED BY <1>1, Invariance, PTL

\* No two threads execute inside one monitor.
THEOREM MonitorsExclude == Spec => []MutualExclusion
<1>1. IInv => MutualExclusion
  BY ReadyThread DEF MutualExclusion
<1> QED BY <1>1, Invariance, PTL

\* A step that changes the owner of an owned monitor.
LEMMA PassesOn ==
  ASSUME IInv, Next, NEW m \in Monitor, owner[m] # NULL, owner'[m] # owner[m]
  PROVE  /\ Ready(owner[m])
         /\ owner'[m] = IF entry[m] = <<>> THEN NULL ELSE Head(entry[m])
<1>1. ASSUME NEW t \in Thread, NEW n \in Monitor, Enter(t, n) PROVE FALSE
  BY <1>1 DEF Enter, EnterFree, EnterAgain, Block, Acquire, IInv, TypeOK
<1>2. ASSUME NEW t \in Thread, NEW n \in Monitor, NEW waits \in BOOLEAN,
             Ready(t), owner[n] = t, HandOver(n, SavedBy(t, n, waits))
      PROVE  /\ Ready(owner[m])
             /\ owner'[m] = IF entry[m] = <<>> THEN NULL ELSE Head(entry[m])
  <2>1. owner' = [owner EXCEPT ![n] = Successor(n)]
    BY <1>2, HandOverEffect DEF Passes
  <2>2. n = m /\ owner'[m] = Successor(m)
    BY <2>1 DEF IInv, TypeOK
  <2> QED BY <1>2, <2>2 DEF Successor
<1>3. ASSUME NEW t \in Thread, NEW n \in Monitor, Exit(t, n)
      PROVE  /\ Ready(owner[m])
             /\ owner'[m] = IF entry[m] = <<>> THEN NULL ELSE Head(entry[m])
  <2>1. Ready(t) /\ owner[n] = t
    BY <1>3, ReadyThread DEF Exit
  <2>2. HandOver(n, SavedBy(t, n, FALSE))
    BY <1>3 DEF Exit, ExitInner, SavedBy
  <2> QED BY <1>2, <2>1, <2>2
<1>4. ASSUME NEW t \in Thread, NEW n \in Monitor, Wait(t, n)
      PROVE  /\ Ready(owner[m])
             /\ owner'[m] = IF entry[m] = <<>> THEN NULL ELSE Head(entry[m])
  <2>1. Ready(t) /\ owner[n] = t /\ HandOver(n, SavedBy(t, n, TRUE))
    BY <1>4 DEF Wait, SavedBy
  <2> QED BY <1>2, <2>1
<1>5. ASSUME NEW t \in Thread, NEW n \in Monitor, Notify(t, n) \/ NotifyAll(t, n)
      PROVE  FALSE
  BY <1>5 DEF Notify, NotifyAll
<1>6. ASSUME NEW n \in Monitor, NEW k \in 1 .. Len(waiting[n]), Awaken(n, k)
      PROVE  FALSE
  BY <1>6 DEF Awaken, Acquire, IInv, TypeOK
<1> QED BY <1>1, <1>3, <1>4, <1>5, <1>6 DEF Next

\* A monitor goes from its owner to the thread that has been blocked longest, and only
\* when the owner, executing its program, exits or waits: nobody barges in.
THEOREM HandOverIsFair == Spec => HandedToLongestBlocked
<1>1. IInv /\ [Next]_vars =>
        [\A m \in Monitor :
            (owner[m] # NULL /\ owner'[m] # owner[m]) =>
                /\ Ready(owner[m])
                /\ owner'[m] = IF entry[m] = <<>> THEN NULL ELSE Head(entry[m])]_vars
  BY PassesOn
<1> QED BY <1>1, Invariance, PTL DEF Spec, HandedToLongestBlocked

=============================================================================
