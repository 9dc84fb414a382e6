--------------------------- MODULE Scheduler_proofs ---------------------------
(***************************************************************************)
(* For any threads, monitors and semaphores, any priorities and any calls, *)
(* as long as the callers keep the disciplines of Disciplined: where every *)
(* thread is, and what follows from it.                                    *)
(***************************************************************************)
EXTENDS SchedulerLiveness, LinkedList_proofs

\* A list has one name, and names one list.
LEMMA NamesDiffer ==
    /\ \A p, q : RunningAt(p) = RunningAt(q) => p = q
    /\ \A p, q : WaitingOn(p) = WaitingOn(q) => p = q
    /\ \A p, q : BlockedOn(p) = BlockedOn(q) => p = q
    /\ \A p, q : Joining(p) = Joining(q) => p = q
    /\ \A p, q : PendingOn(p) = PendingOn(q) => p = q
    /\ \A p : /\ RunningAt(p) # AsleepList /\ WaitingOn(p) # AsleepList
              /\ BlockedOn(p) # AsleepList /\ Joining(p) # AsleepList
              /\ PendingOn(p) # AsleepList
    /\ \A p, q : /\ RunningAt(p) # WaitingOn(q) /\ RunningAt(p) # BlockedOn(q)
                 /\ RunningAt(p) # Joining(q) /\ RunningAt(p) # PendingOn(q)
                 /\ WaitingOn(p) # BlockedOn(q) /\ WaitingOn(p) # Joining(q)
                 /\ WaitingOn(p) # PendingOn(q) /\ BlockedOn(p) # Joining(q)
                 /\ BlockedOn(p) # PendingOn(q) /\ Joining(p) # PendingOn(q)
BY DEF RunningAt, AsleepList, WaitingOn, BlockedOn, Joining, PendingOn

LEMMA NamesAreNames ==
    /\ \A p \in Priorities : RunningAt(p) \in ListNames
    /\ AsleepList \in ListNames
    /\ \A m \in Monitor : WaitingOn(m) \in ListNames /\ BlockedOn(m) \in ListNames
    /\ \A t \in Thread : Joining(t) \in ListNames
    /\ \A s \in Semaphore : PendingOn(s) \in ListNames
BY DEF ListNames

-----------------------------------------------------------------------------
(* The lists of the scheduler as sequences, D : list name -> threads, and what *)
(* the scheduler's operations on them do to the sequences and to the map.      *)

LEMMA ThreadFacts == NULL \notin Thread /\ IsFiniteSet(Thread) /\ IdleThread \in Thread
BY SchedulerAssumption

NonEmpty(D) == {p \in Priorities : D[RunningAt(p)] # <<>>}

\* The pointers L are those of the sequences D; and so is the priority map.
Pointers(L, D) ==
    /\ Represents(L, ListNames, Thread, D)
    /\ DOMAIN L = {"head", "next", "prev", "map"}

Sound(L, D) == Pointers(L, D) /\ L.map = NonEmpty(D)

Added(D, l, t) == [D EXCEPT ![l] = Inserted(D[l], Len(D[l]), t)]
AddedAt(D, l, at, t) == [D EXCEPT ![l] = Inserted(D[l], at, t)]
Removed(D, l, k) == [D EXCEPT ![l] = Without(D[l], k)]
Turned(D, l) == [D EXCEPT ![l] = Rotated(D[l])]

\* l is none of the running lists.
NotRunning(l) == l \in ListNames /\ \A p \in Priorities : l # RunningAt(p)

LEMMA NotRunningNames ==
    /\ NotRunning(AsleepList)
    /\ \A m \in Monitor : NotRunning(WaitingOn(m)) /\ NotRunning(BlockedOn(m))
    /\ \A t \in Thread : NotRunning(Joining(t))
    /\ \A s \in Semaphore : NotRunning(PendingOn(s))
BY NamesDiffer, NamesAreNames DEF NotRunning

LEMMA PointersKept ==
    ASSUME NEW L, NEW M, NEW D, DOMAIN L = {"head", "next", "prev", "map"},
           Represents(M, ListNames, Thread, D), SameOthers(L, M)
    PROVE  Pointers(M, D) /\ M.map = L.map
BY DEF Pointers, SameOthers

LEMMA NonEmptyKept ==
    ASSUME NEW D \in [ListNames -> Seq(Thread)], NEW l, NotRunning(l), NEW s
    PROVE  NonEmpty([D EXCEPT ![l] = s]) = NonEmpty(D)
BY NamesAreNames DEF NonEmpty, NotRunning

LEMMA SoundIsFunction ==
    ASSUME NEW L, NEW D, Pointers(L, D)
    PROVE  /\ D \in [ListNames -> Seq(Thread)]
           /\ \A l \in ListNames :
                /\ D[l] \in Seq(Thread) /\ Len(D[l]) \in Nat
                /\ D[l] = <<>> <=> Len(D[l]) = 0
                /\ L.head[l] = IF D[l] = <<>> THEN NULL ELSE D[l][1]
                /\ D[l] # <<>> => D[l][1] \in Thread /\ 1 \in 1 .. Len(D[l])
<1>1. Represents(L, ListNames, Thread, D)
    BY DEF Pointers
<1>2. D \in [ListNames -> Seq(Thread)]
    BY <1>1 DEF Represents
<1>3. ASSUME NEW l \in ListNames
      PROVE  /\ D[l] \in Seq(Thread) /\ Len(D[l]) \in Nat
             /\ \A k \in 1 .. Len(D[l]) : D[l][k] \in Thread
             /\ D[l] = <<>> <=> Len(D[l]) = 0
             /\ L.head[l] = IF Len(D[l]) = 0 THEN NULL ELSE D[l][1]
    BY <1>1, Contents
<1>4. ASSUME NEW l \in ListNames
      PROVE  /\ L.head[l] = IF D[l] = <<>> THEN NULL ELSE D[l][1]
             /\ D[l] # <<>> => D[l][1] \in Thread /\ 1 \in 1 .. Len(D[l])
    BY <1>3
<1> QED BY <1>2, <1>3, <1>4

LEMMA InsertedLast ==
    ASSUME NEW s \in Seq(Thread), NEW t \in Thread
    PROVE  /\ Inserted(s, Len(s), t) \in Seq(Thread) /\ Inserted(s, Len(s), t) # <<>>
           /\ Inserted(s, Len(s), t) = Append(s, t)
           /\ Len(Inserted(s, Len(s), t)) = Len(s) + 1
           /\ Members(Inserted(s, Len(s), t)) = Members(s) \cup {t}
           /\ \A i \in 1 .. Len(s) : Inserted(s, Len(s), t)[i] = s[i]
           /\ Inserted(s, Len(s), t)[Len(s) + 1] = t
           /\ Inserted(s, Len(s), t)[1] = IF s = <<>> THEN t ELSE s[1]
<1> DEFINE v == Inserted(s, Len(s), t)
<1>1. Len(s) \in Nat /\ (s = <<>> <=> Len(s) = 0)
    BY LenProperties, EmptySeq
<1>2. PICK N : N = Len(s)
    OBVIOUS
<1>3. s \in Seq(Thread) /\ N \in 0 .. Len(s) /\ t \in Thread
    BY <1>1, <1>2
<1>4. Inserted(s, N, t) \in Seq(Thread) /\ Inserted(s, N, t) # <<>>
    BY <1>3, InsertedOne
<1>5. Len(Inserted(s, N, t)) = Len(s) + 1
    BY <1>3, InsertedOne
<1>6. Members(Inserted(s, N, t)) = Members(s) \cup {t}
    BY <1>3, InsertedOne
<1>7. \A i \in 1 .. Len(s) + 1 :
          Inserted(s, N, t)[i] = IF i <= N THEN s[i] ELSE IF i = N + 1 THEN t ELSE s[i - 1]
    BY <1>3, InsertedOne
<1>8. /\ v \in Seq(Thread) /\ v # <<>> /\ Len(v) = Len(s) + 1
      /\ Members(v) = Members(s) \cup {t}
      /\ \A i \in 1 .. Len(s) + 1 :
             v[i] = IF i <= Len(s) THEN s[i] ELSE IF i = Len(s) + 1 THEN t ELSE s[i - 1]
    BY <1>2, <1>4, <1>5, <1>6, <1>7
<1> HIDE DEF v
<1>9. \A i \in 1 .. Len(s) : v[i] = s[i]
    BY <1>1, <1>8
<1>10. v[Len(s) + 1] = t
    BY <1>1, <1>8
<1>11. v[1] = IF s = <<>> THEN t ELSE s[1]
    BY <1>1, <1>9, <1>10
<1>12. v = Append(s, t)
    <2>1. /\ Append(s, t) \in Seq(Thread) /\ Len(Append(s, t)) = Len(s) + 1
          /\ \A i \in 1 .. Len(s) : Append(s, t)[i] = s[i]
          /\ Append(s, t)[Len(s) + 1] = t
        BY AppendProperties
    <2>2. \A i \in 1 .. Len(s) + 1 : v[i] = Append(s, t)[i]
        BY <1>1, <1>9, <1>10, <2>1
    <2> QED BY <1>8, <2>1, <2>2, SeqEqual
<1> QED BY <1>8, <1>9, <1>10, <1>11, <1>12 DEF v

\* addThreadToRunningThreads, and what setPriority does at the new priority.
LEMMA RunningAdded ==
    ASSUME NEW L, NEW D, Sound(L, D), NEW t \in Thread, OnNone(ListNames, D, t),
           NEW p \in Priorities
    PROVE  Sound(addToPriorityMap(AddOneToEnd(L, RunningAt(p), t), p),
                 Added(D, RunningAt(p), t))
<1> DEFINE l == RunningAt(p)
           M == AddOneToEnd(L, l, t)
           F == Added(D, l, t)
<1>1. l \in ListNames /\ NULL \notin Thread
    BY NamesAreNames, ThreadFacts
<1>2. Represents(L, ListNames, Thread, D) /\ DOMAIN L = {"head", "next", "prev", "map"}
      /\ L.map = NonEmpty(D)
    BY DEF Sound, Pointers
<1>3. Represents(M, ListNames, Thread, F) /\ SameOthers(L, M)
    BY <1>1, <1>2, AddedToEnd DEF Added
<1>4. F[l] # <<>> /\ \A q \in Priorities : q # p => F[RunningAt(q)] = D[RunningAt(q)]
    <2>1. D \in [ListNames -> Seq(Thread)] /\ D[l] \in Seq(Thread) /\ Len(D[l]) \in Nat
        BY <1>1, <1>2, SoundIsFunction DEF Pointers
    <2>2. Inserted(D[l], Len(D[l]), t) # <<>>
        BY <2>1, InsertedLast
    <2> QED BY <1>1, <2>1, <2>2, NamesDiffer, NamesAreNames DEF Added
<1> HIDE DEF M, F
<1>5. Pointers(M, F) /\ M.map = L.map
    BY <1>2, <1>3, PointersKept
<1>6. Sound(addToPriorityMap(M, p), F)
    <2> DEFINE M2 == addToPriorityMap(M, p)
    <2>1. /\ M2.head = M.head /\ M2.next = M.next /\ M2.prev = M.prev
          /\ M2.map = M.map \cup {p} /\ DOMAIN M2 = DOMAIN M
          /\ M2 = [x \in DOMAIN M2 |-> M2[x]]
        BY <1>5 DEF addToPriorityMap, Pointers, Represents, IsMemory
    <2>2. Pointers(M2, F)
        BY <1>5, <2>1 DEF Pointers, Represents, IsMemory, Circle
    <2>3. M2.map = NonEmpty(F)
        BY <1>2, <1>4, <1>5, <2>1 DEF NonEmpty
    <2> QED BY <2>2, <2>3 DEF Sound
<1> QED BY <1>6 DEF M, F

\* removePriority, when the list of p may have become empty.
LEMMA PriorityRemoved ==
    ASSUME NEW M, NEW F, Pointers(M, F), NEW p \in Priorities, p \in M.map,
           M.map \ {p} = NonEmpty(F) \ {p}
    PROVE  Sound(removePriority(M, p), F)
<1>1. /\ RunningAt(p) \in ListNames
      /\ M.head[RunningAt(p)] = IF F[RunningAt(p)] = <<>> THEN NULL ELSE F[RunningAt(p)][1]
      /\ F[RunningAt(p)] # <<>> => F[RunningAt(p)][1] # NULL
    BY NamesAreNames, ThreadFacts, SoundIsFunction
<1>2. CASE F[RunningAt(p)] # <<>>
    <2>1. removePriority(M, p) = M
        BY <1>1, <1>2 DEF removePriority
    <2>2. M.map = NonEmpty(F)
        BY <1>2 DEF NonEmpty
    <2> QED BY <2>1, <2>2 DEF Sound
<1>3. CASE F[RunningAt(p)] = <<>>
    <2> DEFINE M2 == removePriority(M, p)
    <2>1. /\ M2.head = M.head /\ M2.next = M.next /\ M2.prev = M.prev
          /\ M2.map = M.map \ {p} /\ DOMAIN M2 = DOMAIN M
          /\ M2 = [x \in DOMAIN M2 |-> M2[x]]
        BY <1>1, <1>3 DEF removePriority, Pointers, Represents, IsMemory
    <2> HIDE DEF M2
    <2>2. Pointers(M2, F)
        BY <2>1 DEF Pointers, Represents, IsMemory, Circle
    <2>3. M2.map = NonEmpty(F)
        BY <1>3, <2>1 DEF NonEmpty
    <2>4. Sound(M2, F)
        BY <2>2, <2>3 DEF Sound
    <2> QED BY <2>4 DEF M2
<1> QED BY <1>2, <1>3

\* What is left of a list that a thread leaves, and its front.
LEMMA WithoutKth ==
    ASSUME NEW s \in Seq(Thread), NEW k \in 1 .. Len(s),
           \A i, j \in 1 .. Len(s) : s[i] = s[j] => i = j
    PROVE  /\ Without(s, k) \in Seq(Thread)
           /\ Len(Without(s, k)) = Len(s) - 1
           /\ Members(Without(s, k)) = Members(s) \ {s[k]}
           /\ \A i \in 1 .. Len(s) - 1 : Without(s, k)[i] = IF i < k THEN s[i] ELSE s[i + 1]
           /\ k # 1 => Without(s, k) # <<>> /\ Without(s, k)[1] = s[1]
           /\ s # <<>>
<1>1. Len(s) \in Nat /\ k \in 1 .. Len(s)
    BY LenProperties
<1>2. Without(s, k) \in Seq(Thread)
    BY WithoutOne
<1>3. Len(Without(s, k)) = Len(s) - 1
    BY WithoutOne
<1>4. Members(Without(s, k)) = Members(s) \ {s[k]}
    <2>1. \A i, j \in 1 .. Len(s) : s[i] = s[j] => i = j
        OBVIOUS
    <2>2. /\ Without(s, k) \in Seq(Thread)
          /\ Len(Without(s, k)) = Len(s) - 1 /\ Len(Without(s, k)) \in Nat
          /\ Without(s, k) = <<>> <=> Len(s) = 1
          /\ \A i \in 1 .. Len(s) - 1 :
                Without(s, k)[i] = IF i < k THEN s[i] ELSE s[i + 1]
          /\ (\A i, j \in 1 .. Len(s) : s[i] = s[j] => i = j)
                 => Members(Without(s, k)) = Members(s) \ {s[k]}
        BY WithoutOne
    <2> QED BY <2>1, <2>2
<1>5. \A i \in 1 .. Len(s) - 1 : Without(s, k)[i] = IF i < k THEN s[i] ELSE s[i + 1]
    BY WithoutOne
<1>6. Without(s, k) = <<>> <=> Len(s) = 1
    BY WithoutOne
<1>7. s # <<>>
    BY <1>1, EmptySeq
<1> QED BY <1>1, <1>2, <1>3, <1>4, <1>5, <1>6, <1>7

\* What a list is when it is turned.
LEMMA TurnedList ==
    ASSUME NEW s \in Seq(Thread)
    PROVE  /\ Rotated(s) \in Seq(Thread) /\ Len(Rotated(s)) = Len(s)
           /\ Members(Rotated(s)) = Members(s)
<1> DEFINE N == Len(s)
           v == Rotated(s)
<1>1. N \in Nat /\ \A i \in 1 .. N : s[i] \in Thread
    BY LenProperties, ElementOfSeq
<1>2. \A i \in 1 .. N : Behind(i, N) \in 1 .. N /\ v[i] = s[Behind(i, N)]
    BY <1>1 DEF Behind, Rotated
<1>3. v \in [1 .. N -> Thread]
    BY <1>1, <1>2 DEF Rotated
<1>4. v \in Seq(Thread) /\ Len(v) = N
    BY <1>1, <1>3, SeqDef, LenProperties
<1> HIDE DEF v
<1>5. ASSUME NEW i \in 1 .. N PROVE s[i] \in Members(v)
    <2>1. Before(i, N) \in 1 .. N /\ Behind(Before(i, N), N) = i
        BY <1>1 DEF Before, Behind
    <2>2. v[Before(i, N)] = s[i]
        BY <1>2, <2>1
    <2> QED BY <1>4, <2>1, <2>2 DEF Members
<1>6. \A i \in 1 .. N : v[i] \in Members(s)
    BY <1>2 DEF Members
<1>7. Members(v) = Members(s)
    BY <1>4, <1>5, <1>6 DEF Members
<1> QED BY <1>4, <1>7 DEF v

\* An entry added to a list that is not a running list.
LEMMA OtherAdded ==
    ASSUME NEW L, NEW D, Sound(L, D), NEW t \in Thread, OnNone(ListNames, D, t),
           NEW l, NotRunning(l)
    PROVE  Sound(AddOneToEnd(L, l, t), Added(D, l, t))
<1> DEFINE M == AddOneToEnd(L, l, t)
           F == Added(D, l, t)
<1>1. l \in ListNames /\ NULL \notin Thread
    BY ThreadFacts DEF NotRunning
<1>2. Represents(L, ListNames, Thread, D) /\ DOMAIN L = {"head", "next", "prev", "map"}
      /\ L.map = NonEmpty(D) /\ D \in [ListNames -> Seq(Thread)]
    BY DEF Sound, Pointers, Represents
<1>3. Represents(M, ListNames, Thread, F) /\ SameOthers(L, M)
    BY <1>1, <1>2, AddedToEnd DEF Added
<1>4. NonEmpty(F) = NonEmpty(D)
    BY <1>2, NonEmptyKept DEF Added
<1> HIDE DEF M, F
<1>5. Pointers(M, F) /\ M.map = L.map
    BY <1>2, <1>3, PointersKept
<1> QED BY <1>2, <1>4, <1>5 DEF Sound, M, F

\* The k-th entry removed from a list that is not a running list.
LEMMA OtherRemoved ==
    ASSUME NEW L, NEW D, Sound(L, D), NEW l, NotRunning(l), NEW k \in 1 .. Len(D[l])
    PROVE  Sound(RemoveOne(L, l, D[l][k]), Removed(D, l, k))
<1> DEFINE M == RemoveOne(L, l, D[l][k])
           F == Removed(D, l, k)
<1>1. l \in ListNames /\ NULL \notin Thread
    BY ThreadFacts DEF NotRunning
<1>2. Represents(L, ListNames, Thread, D) /\ DOMAIN L = {"head", "next", "prev", "map"}
      /\ L.map = NonEmpty(D) /\ D \in [ListNames -> Seq(Thread)]
    BY DEF Sound, Pointers, Represents
<1>3. Represents(M, ListNames, Thread, F) /\ SameOthers(L, M)
    BY <1>1, <1>2, RemovedOne DEF Removed
<1>4. NonEmpty(F) = NonEmpty(D)
    BY <1>2, NonEmptyKept DEF Removed
<1> HIDE DEF M, F
<1>5. Pointers(M, F) /\ M.map = L.map
    BY <1>2, <1>3, PointersKept
<1> QED BY <1>2, <1>4, <1>5 DEF Sound, M, F

\* The front entry of a list that is not a running list moved to another one.
LEMMA OtherMoved ==
    ASSUME NEW L, NEW D, Sound(L, D), NEW dest, NotRunning(dest), NEW source,
           NotRunning(source), dest # source, D[source] # <<>>
    PROVE  Sound(MoveOneFrontToEnd(L, dest, source),
                 Added(Removed(D, source, 1), dest, D[source][1]))
<1> DEFINE M == MoveOneFrontToEnd(L, dest, source)
           F == Added(Removed(D, source, 1), dest, D[source][1])
<1>1. dest \in ListNames /\ source \in ListNames /\ NULL \notin Thread
    BY ThreadFacts DEF NotRunning
<1>2. Represents(L, ListNames, Thread, D) /\ DOMAIN L = {"head", "next", "prev", "map"}
      /\ L.map = NonEmpty(D) /\ D \in [ListNames -> Seq(Thread)]
    BY DEF Sound, Pointers, Represents
<1>3. /\ Represents(M, ListNames, Thread,
                    [D EXCEPT ![source] = Without(D[source], 1),
                              ![dest] = Inserted(D[dest], Len(D[dest]), D[source][1])])
      /\ SameOthers(L, M)
    BY <1>1, <1>2, MovedOne
<1>4. F = [D EXCEPT ![source] = Without(D[source], 1),
                    ![dest] = Inserted(D[dest], Len(D[dest]), D[source][1])]
    BY <1>1, <1>2 DEF Added, Removed
<1>5. NonEmpty(F) = NonEmpty(D)
    BY <1>1, <1>2, <1>4, NamesAreNames DEF NonEmpty, NotRunning
<1> HIDE DEF M, F
<1>6. Pointers(M, F) /\ M.map = L.map
    BY <1>2, <1>3, <1>4, PointersKept
<1> QED BY <1>2, <1>5, <1>6 DEF Sound, M, F

\* All entries of a list that is not a running list moved to another one.
LEMMA OthersMoved ==
    ASSUME NEW L, NEW D, Sound(L, D), NEW dest, NotRunning(dest), NEW source,
           NotRunning(source), dest # source
    PROVE  Sound(MoveAllToEnd(L, dest, source),
                 [D EXCEPT ![dest] = D[dest] \o D[source], ![source] = <<>>])
<1> DEFINE M == MoveAllToEnd(L, dest, source)
           F == [D EXCEPT ![dest] = D[dest] \o D[source], ![source] = <<>>]
<1>1. dest \in ListNames /\ source \in ListNames /\ NULL \notin Thread
    BY ThreadFacts DEF NotRunning
<1>2. Represents(L, ListNames, Thread, D) /\ DOMAIN L = {"head", "next", "prev", "map"}
      /\ L.map = NonEmpty(D) /\ D \in [ListNames -> Seq(Thread)]
    BY DEF Sound, Pointers, Represents
<1>3. Represents(M, ListNames, Thread, F) /\ SameOthers(L, M)
    BY <1>1, <1>2, MovedAll
<1>4. NonEmpty(F) = NonEmpty(D)
    BY <1>1, <1>2, NamesAreNames DEF NonEmpty, NotRunning
<1> HIDE DEF M, F
<1>5. Pointers(M, F) /\ M.map = L.map
    BY <1>2, <1>3, PointersKept
<1> QED BY <1>2, <1>4, <1>5 DEF Sound, M, F

\* An entry put where the sorting puts it, on a list that is not a running list.
LEMMA OtherSorted ==
    ASSUME NEW L, NEW D, Sound(L, D), NEW t \in Thread, OnNone(ListNames, D, t),
           NEW l, NotRunning(l), NEW later, NEW at \in 0 .. Len(D[l]),
           \A i \in 1 .. Len(D[l]) : D[l][i] \in later <=> i > at
    PROVE  Sound(AddOneSorted(L, l, t, later), AddedAt(D, l, at, t))
<1> DEFINE M == AddOneSorted(L, l, t, later)
           F == AddedAt(D, l, at, t)
<1>1. l \in ListNames /\ NULL \notin Thread /\ IsFiniteSet(Thread)
    BY ThreadFacts DEF NotRunning
<1>2. Represents(L, ListNames, Thread, D) /\ DOMAIN L = {"head", "next", "prev", "map"}
      /\ L.map = NonEmpty(D) /\ D \in [ListNames -> Seq(Thread)]
    BY DEF Sound, Pointers, Represents
<1>3. Represents(M, ListNames, Thread, F) /\ SameOthers(L, M)
    BY <1>1, <1>2, AddedSorted DEF AddedAt
<1>4. NonEmpty(F) = NonEmpty(D)
    BY <1>2, NonEmptyKept DEF AddedAt
<1> HIDE DEF M, F
<1>5. Pointers(M, F) /\ M.map = L.map
    BY <1>2, <1>3, PointersKept
<1> QED BY <1>2, <1>4, <1>5 DEF Sound, M, F

\* Any list turned: haltTimeShare, and the yields.
LEMMA ListTurned ==
    ASSUME NEW L, NEW D, Sound(L, D), NEW l \in ListNames
    PROVE  Sound(RotateOneFrontToEnd(L, l), Turned(D, l))
<1> DEFINE M == RotateOneFrontToEnd(L, l)
           F == Turned(D, l)
<1>1. NULL \notin Thread
    BY ThreadFacts
<1>2. Represents(L, ListNames, Thread, D) /\ DOMAIN L = {"head", "next", "prev", "map"}
      /\ L.map = NonEmpty(D) /\ D \in [ListNames -> Seq(Thread)]
    BY DEF Sound, Pointers, Represents
<1>3. Represents(M, ListNames, Thread, F) /\ SameOthers(L, M)
    BY <1>1, <1>2, RotatedOne DEF Turned
<1>4. D[l] = <<>> <=> Rotated(D[l]) = <<>>
    <2>1. Len(Rotated(D[l])) = Len(D[l])
        BY <1>2, TurnedList
    <2>2. D[l] \in Seq(Thread) /\ Rotated(D[l]) \in Seq(Thread)
        BY <1>2, <1>3 DEF Represents, Turned
    <2> QED BY <2>1, <2>2, EmptySeq
<1>5. NonEmpty(F) = NonEmpty(D)
    BY <1>2, <1>4, NamesAreNames DEF NonEmpty, Turned
<1> HIDE DEF M, F
<1>6. Pointers(M, F) /\ M.map = L.map
    BY <1>2, <1>3, PointersKept
<1> QED BY <1>2, <1>5, <1>6 DEF Sound, M, F

\* removePriority when the k-th entry has left a running list.
LEMMA RunningRemoved ==
    ASSUME NEW L, NEW D, Sound(L, D), NEW p \in Priorities, NEW k \in 1 .. Len(D[RunningAt(p)])
    PROVE  Sound(removePriority(RemoveOne(L, RunningAt(p), D[RunningAt(p)][k]), p),
                 Removed(D, RunningAt(p), k))
<1> DEFINE l == RunningAt(p)
           M == RemoveOne(L, l, D[l][k])
           F == Removed(D, l, k)
<1>1. l \in ListNames /\ NULL \notin Thread
    BY ThreadFacts, NamesAreNames
<1>2. Represents(L, ListNames, Thread, D) /\ DOMAIN L = {"head", "next", "prev", "map"}
      /\ L.map = NonEmpty(D) /\ D \in [ListNames -> Seq(Thread)]
    BY DEF Sound, Pointers, Represents
<1>3. Represents(M, ListNames, Thread, F) /\ SameOthers(L, M)
    BY <1>1, <1>2, RemovedOne DEF Removed
<1>4. \A q \in Priorities : q # p => F[RunningAt(q)] = D[RunningAt(q)]
    BY <1>2, NamesDiffer, NamesAreNames DEF Removed
<1>5. D[l] # <<>>
    BY <1>1, <1>2, EmptySeq
<1> HIDE DEF M, F
<1>6. Pointers(M, F) /\ M.map = L.map
    BY <1>2, <1>3, PointersKept
<1>7. p \in M.map /\ M.map \ {p} = NonEmpty(F) \ {p}
    BY <1>2, <1>4, <1>5, <1>6 DEF NonEmpty
<1>8. Sound(removePriority(M, p), F)
    BY <1>6, <1>7, PriorityRemoved
<1> QED BY <1>8 DEF M, F

\* The front thread of a running list goes to another list, or to none.
LEMMA FrontMoved ==
    ASSUME NEW L, NEW D, Sound(L, D), NEW p \in Priorities, D[RunningAt(p)] # <<>>,
           NEW to, NotRunning(to)
    PROVE  Sound(removePriority(MoveOneFrontToEnd(L, to, RunningAt(p)), p),
                 Added(Removed(D, RunningAt(p), 1), to, D[RunningAt(p)][1]))
<1> DEFINE l == RunningAt(p)
           M == MoveOneFrontToEnd(L, to, l)
           F == Added(Removed(D, l, 1), to, D[l][1])
<1>1. l \in ListNames /\ to \in ListNames /\ to # l /\ NULL \notin Thread
    BY ThreadFacts, NamesAreNames DEF NotRunning
<1>2. Represents(L, ListNames, Thread, D) /\ DOMAIN L = {"head", "next", "prev", "map"}
      /\ L.map = NonEmpty(D) /\ D \in [ListNames -> Seq(Thread)]
    BY DEF Sound, Pointers, Represents
<1>3. /\ Represents(M, ListNames, Thread,
                    [D EXCEPT ![l] = Without(D[l], 1),
                              ![to] = Inserted(D[to], Len(D[to]), D[l][1])])
      /\ SameOthers(L, M)
    BY <1>1, <1>2, MovedOne
<1>4. F = [D EXCEPT ![l] = Without(D[l], 1),
                    ![to] = Inserted(D[to], Len(D[to]), D[l][1])]
    BY <1>1, <1>2 DEF Added, Removed
<1>5. \A q \in Priorities : q # p => F[RunningAt(q)] = D[RunningAt(q)]
    BY <1>1, <1>2, <1>4, NamesDiffer, NamesAreNames DEF NotRunning
<1> HIDE DEF M, F
<1>6. Pointers(M, F) /\ M.map = L.map
    BY <1>2, <1>3, <1>4, PointersKept
<1>7. p \in M.map /\ M.map \ {p} = NonEmpty(F) \ {p}
    BY <1>2, <1>5, <1>6 DEF NonEmpty
<1>8. Sound(removePriority(M, p), F)
    BY <1>6, <1>7, PriorityRemoved
<1> QED BY <1>8 DEF M, F

LEMMA FrontRemoved ==
    ASSUME NEW L, NEW D, Sound(L, D), NEW p \in Priorities, D[RunningAt(p)] # <<>>
    PROVE  Sound(removePriority(RemoveOneFromFront(L, RunningAt(p)), p),
                 Removed(D, RunningAt(p), 1))
<1> DEFINE l == RunningAt(p)
<1>1. l \in ListNames /\ NULL \notin Thread
    BY ThreadFacts, NamesAreNames
<1>2. L.head[l] = D[l][1] /\ D[l][1] \in Thread /\ 1 \in 1 .. Len(D[l])
    BY <1>1, SoundIsFunction DEF Sound
<1>3. RemoveOneFromFront(L, l) = RemoveOne(L, l, D[l][1])
    BY <1>1, <1>2 DEF RemoveOneFromFront
<1>4. Sound(removePriority(RemoveOne(L, l, D[l][1]), p), Removed(D, l, 1))
    BY <1>2, RunningRemoved
<1> QED BY <1>3, <1>4

-----------------------------------------------------------------------------
(* The inductive invariant. *)

\* The disciplines the theorems assume, of the callers that make the calls at all.
Disciplined ==
    /\ "join" \in Operations => "JoinAlive" \in Disciplines
    /\ "setPriority" \in Operations => {"OtherPriority", "PendFirst"} \subseteq Disciplines
    /\ "interrupt" \in Operations => {"CarefulInterrupt", "LetSleep"} \subseteq Disciplines

SequencesOf(L) == [l \in ListNames |-> AsSequence(L, l)]
contents == SequencesOf(lists)
queue == [l \in {TimerList} |-> AsSequence(timers, l)]

On(l) == Members(contents[l])
Timed == Members(queue[TimerList])

Types ==
    /\ current \in Thread
    /\ state \in [Thread -> {"NOT_STARTED", "ACTIVE", "FINISHED"}]
    /\ activeStatus \in [Thread -> Status]
    /\ currentPriority \in [Thread -> Priorities]
    /\ interruptedFlag \in [Thread -> BOOLEAN]
    /\ pJoinedThread \in [Thread -> ThreadOrNull]
    /\ pWaitMonitor \in [Thread -> Monitor \cup {NULL}]
    /\ waitMonitorDepth \in [Thread -> Nat]
    /\ timerCallback \in [Thread -> {"none", "threadSleepExpired", "monitorWaitExpired"}]
    /\ pOwner \in [Monitor -> ThreadOrNull]
    /\ depth \in [Monitor -> Nat]
    /\ counter \in [Semaphore -> Int]
    /\ reschedulerEnabledIndicator \in Nat
    /\ tick \in {"none", "scheduled", "conditional"}
    /\ nesting \in [Thread -> [Monitor -> Nat]]

QueueSound ==
    /\ Represents(timers, {TimerList}, Thread, queue)
    /\ DOMAIN timers = {"head", "next", "prev"}

\* What a thread's structure shows when the thread is on list l.  A thread that has been
\* notified still shows how it waited.
ShowsMonitor(t, l) ==
    \E m \in Monitor :
        \/ l = WaitingOn(m) /\ pWaitMonitor[t] = m /\ AsleepOnMonitor(t)
        \/ /\ l = BlockedOn(m) /\ pWaitMonitor[t] \in {NULL, m}
           /\ activeStatus[t] = "BLOCKED_ON_MONITOR" \/ (AsleepOnMonitor(t) /\ pWaitMonitor[t] = m)

ShowsOther(t, l) ==
    /\ pWaitMonitor[t] = NULL
    /\ \/ l = RunningAt(currentPriority[t]) /\ activeStatus[t] = "RUNNING"
       \/ l = AsleepList /\ activeStatus[t] = "ASLEEP_TIMED_OUT"
       \/ /\ l = Joining(pJoinedThread[t]) /\ pJoinedThread[t] \in Thread
          /\ activeStatus[t] = "BLOCKED_ON_THREAD_DEATH"
       \/ /\ \E s \in Semaphore : l = PendingOn(s)
          /\ activeStatus[t] = "BLOCKED_ON_SEMAPHORE"

Shows(t, l) == ShowsMonitor(t, l) \/ ShowsOther(t, l)

\* An active thread is on one list, the one it shows; any other is on none.
Placed(t) ==
    IF Active(t)
    THEN \E l \in ListNames : Shows(t, l) /\ \A k \in ListNames : t \in On(k) <=> k = l
    ELSE /\ \A k \in ListNames : t \notin On(k)
         /\ pWaitMonitor[t] = NULL
         /\ activeStatus[t] = IF state[t] = "FINISHED" THEN "RUNNING" ELSE "ASLEEP_TIMED_OUT"

TimedOut(t) ==
    \/ t \in On(AsleepList)
    \/ activeStatus[t] = "ASLEEP_TIMED_OUT_ON_MONITOR" /\ \E m \in Monitor : t \in On(WaitingOn(m))

\* The threads on the timer queue are those asleep until a time, each with the callback
\* for the list it is on.
Clocked(t) ==
    /\ t \in Timed <=> TimedOut(t)
    /\ t \in Timed => timerCallback[t] = IF activeStatus[t] = "ASLEEP_TIMED_OUT"
                                         THEN "threadSleepExpired" ELSE "monitorWaitExpired"

First(D, P, t) == D[RunningAt(P[t])] # <<>> /\ D[RunningAt(P[t])][1] = t

CurrentIsFirst == First(contents, currentPriority, current)

IdleIsReady == Active(IdleThread) /\ activeStatus[IdleThread] = "RUNNING"

JoinedAreAlive == \A t, u \in Thread : t \in On(Joining(u)) => Active(u)

BlockedAreOwned == \A m \in Monitor, t \in Thread : t \in On(BlockedOn(m)) => pOwner[m] # NULL

PendedAreCounted ==
    \A s \in Semaphore :
        Len(contents[PendingOn(s)]) = IF counter[s] < 0 THEN -counter[s] ELSE 0

Falling(P, s) == \A i, j \in 1 .. Len(s) : i <= j => P[s[j]] <= P[s[i]]

PendedByPriority == \A s \in Semaphore : Falling(currentPriority, contents[PendingOn(s)])

IInv ==
    /\ Types
    /\ Sound(lists, contents)
    /\ QueueSound
    /\ \A t \in Thread : Placed(t) /\ Clocked(t)
    /\ CurrentIsFirst
    /\ IdleIsReady
    /\ JoinedAreAlive
    /\ BlockedAreOwned
    /\ PendedAreCounted
    /\ PendedByPriority

\* The pointers stand for one family of sequences, which a reader of them finds.
LEMMA SequencesRead ==
    ASSUME NEW L, NEW D, Pointers(L, D)
    PROVE  /\ SequencesOf(L) = D
           /\ \A l \in ListNames : /\ EntriesOf(L, l) = Members(D[l])
                                   /\ Cardinality(EntriesOf(L, l)) = Len(D[l])
                                   /\ AsSequence(L, l) = D[l]
                                   /\ WellFormed(L, l)
<1>1. Represents(L, ListNames, Thread, D) /\ NULL \notin Thread /\ IsFiniteSet(Thread)
    BY ThreadFacts DEF Pointers
<1>2. ASSUME NEW l \in ListNames
      PROVE  /\ EntriesOf(L, l) = Members(D[l])
             /\ Cardinality(EntriesOf(L, l)) = Len(D[l])
             /\ AsSequence(L, l) = D[l]
             /\ WellFormed(L, l)
    BY <1>1, ContentsRead
<1>3. D \in [ListNames -> Seq(Thread)]
    BY <1>1 DEF Represents
<1>4. SequencesOf(L) = D
    BY <1>2, <1>3 DEF SequencesOf
<1> QED BY <1>2, <1>4

LEMMA SoundRead ==
    ASSUME NEW L, NEW D, Sound(L, D)
    PROVE  SequencesOf(L) = D /\ Sound(L, SequencesOf(L))
BY SequencesRead DEF Sound

LEMMA PriorityType == Priorities \subseteq 0 .. 63
BY SchedulerAssumption DEF Priorities

\* getHighestPriority finds a priority when there is one.
LEMMA HighestIsThere ==
    ASSUME NEW M, M \subseteq Priorities, M # {}
    PROVE  getHighestPriority(M) \in M /\ \A q \in M : q <= getHighestPriority(M)
<1> DEFINE I == {63 - p : p \in M}
<1>1. M \subseteq 0 .. 63
    BY PriorityType
<1>2. I \subseteq Nat /\ I # {}
    <2>1. \A p \in M : 63 - p \in Nat
        BY <1>1
    <2>2. PICK q : q \in M
        OBVIOUS
    <2>3. 63 - q \in I
        BY <2>2
    <2> QED BY <2>1, <2>3
<1> HIDE DEF I
<1>3. PICK i \in I : \A j \in I : i <= j
    BY <1>2, LeastNatural
<1>4. PICK p \in M : i = 63 - p
    BY <1>3 DEF I
<1>5. ASSUME NEW q \in M PROVE q <= p
    <2>1. 63 - q \in I
        BY DEF I
    <2>2. i <= 63 - q
        BY <1>3, <2>1
    <2> QED BY <1>1, <1>4, <2>2
<1> QED BY <1>4, <1>5 DEF getHighestPriority

\* The threads on the running lists F are there by their priorities P.
ByPriority(F, P) == \A p \in Priorities : \A t \in Members(F[RunningAt(p)]) : P[t] = p

LEMMA HighestIsFirst ==
    ASSUME NEW L, NEW F, Sound(L, F), NEW P, ByPriority(F, P), NonEmpty(F) # {}
    PROVE  /\ getHighestPriorityThread(L) \in Thread
           /\ First(F, P, getHighestPriorityThread(L))
           /\ P[getHighestPriorityThread(L)] = getHighestPriority(L.map)
           /\ getHighestPriority(L.map) \in Priorities
<1> DEFINE p == getHighestPriority(L.map)
           h == getHighestPriorityThread(L)
<1>1. L.map = NonEmpty(F) /\ Pointers(L, F)
    BY DEF Sound
<1>2. p \in Priorities /\ F[RunningAt(p)] # <<>>
    <2>1. NonEmpty(F) \subseteq Priorities
        BY DEF NonEmpty
    <2>2. p \in NonEmpty(F)
        BY <1>1, <2>1, HighestIsThere
    <2> QED BY <2>2 DEF NonEmpty
<1> HIDE DEF p
<1>3. RunningAt(p) \in ListNames
    BY <1>2, NamesAreNames
<1>4. L.head[RunningAt(p)] = F[RunningAt(p)][1] /\ F[RunningAt(p)][1] \in Thread
      /\ 1 \in 1 .. Len(F[RunningAt(p)])
    BY <1>1, <1>2, <1>3, SoundIsFunction
<1>5. h = F[RunningAt(p)][1]
    BY <1>4 DEF getHighestPriorityThread, p
<1> HIDE DEF h
<1>6. P[h] = p
    BY <1>2, <1>4, <1>5 DEF ByPriority, Members
<1> QED BY <1>2, <1>4, <1>5, <1>6 DEF First, h, p

-----------------------------------------------------------------------------
(* The context switches. *)

\* What every operation leaves when the running lists have been F, with the priorities
\* P, before the switch: the lists F but for the order of the running threads, and the
\* current thread at the front of its list.
Arrived(F, P) ==
    /\ Sound(lists', contents')
    /\ \A l : NotRunning(l) => contents'[l] = F[l]
    /\ \A l \in ListNames : Members(contents'[l]) = Members(F[l])
    /\ current' \in Thread
    /\ First(contents', P, current')

OnHighest == current = getHighestPriorityThread(lists)

LEMMA Generated ==
    ASSUME NEW L, NEW F, Sound(L, F), NEW P, ByPriority(F, P), NonEmpty(F) # {},
           generatedContextSwitch(L)
    PROVE  Arrived(F, P) /\ OnHighest'
<1>1. lists' = L /\ current' = getHighestPriorityThread(L)
    BY DEF generatedContextSwitch
<1>2. contents' = F
    BY <1>1, SoundRead DEF contents
<1>3. current' \in Thread /\ First(F, P, current')
    BY <1>1, HighestIsFirst
<1> QED BY <1>1, <1>2, <1>3 DEF Arrived, OnHighest

LEMMA NoSwitch ==
    ASSUME NEW L, NEW F, Sound(L, F), NEW P, current \in Thread, First(F, P, current),
           noContextSwitch(L)
    PROVE  Arrived(F, P) /\ contents' = F
<1>1. lists' = L /\ current' = current
    BY DEF noContextSwitch
<1>2. contents' = F
    BY <1>1, SoundRead DEF contents
<1> QED BY <1>1, <1>2 DEF Arrived

\* The list that is turned is not the one the next thread is at the front of: if it
\* were, the current thread would be the next thread.
LEMMA Conditional ==
    ASSUME NEW L, NEW F, Sound(L, F), NEW P, P \in [Thread -> Priorities], ByPriority(F, P),
           current \in Thread, First(F, P, current), conditionalContextSwitch(L, P)
    PROVE  Arrived(F, P) /\ OnHighest'
<1> DEFINE h == getHighestPriorityThread(L)
           p == getHighestPriority(L.map)
           r == RunningAt(P[current])
<1>1. P[current] \in Priorities /\ r \in ListNames
    BY NamesAreNames
<1>2. F[r] # <<>> /\ F[r][1] = current
    BY DEF First
<1>3. NonEmpty(F) # {}
    BY <1>1, <1>2 DEF NonEmpty
<1>4. h \in Thread /\ First(F, P, h) /\ P[h] = p /\ p \in Priorities
    BY <1>3, HighestIsFirst
<1>5. CASE h = current
    <2>1. noContextSwitch(L)
        BY <1>5 DEF conditionalContextSwitch
    <2>2. Arrived(F, P)
        BY <2>1, NoSwitch
    <2>3. OnHighest'
        BY <1>5, <2>1 DEF OnHighest, noContextSwitch
    <2> QED BY <2>2, <2>3
<1>6. CASE h # current
    <2> DEFINE M == RotateOneFrontToEnd(L, r)
               G == Turned(F, r)
    <2>1. lists' = M /\ current' = h
        BY <1>6 DEF conditionalContextSwitch
    <2>2. Sound(M, G)
        BY <1>1, ListTurned
    <2>3. contents' = G
        BY <2>1, <2>2, SoundRead DEF contents
    <2>4. F \in [ListNames -> Seq(Thread)]
        BY SoundIsFunction DEF Sound
    <2>5. \A l \in ListNames : l # r => G[l] = F[l]
        BY <2>4 DEF Turned
    <2>6. P[h] # P[current]
        BY <1>2, <1>4, <1>6 DEF First
    <2>7. RunningAt(P[h]) # r /\ RunningAt(P[h]) \in ListNames
        BY <1>4, <2>6, NamesDiffer, NamesAreNames
    <2>8. First(G, P, h)
        BY <1>4, <2>5, <2>7 DEF First
    <2>9. \A l \in ListNames : Members(G[l]) = Members(F[l])
        <3>1. Members(Rotated(F[r])) = Members(F[r])
            BY <1>1, <2>4, TurnedList
        <3>2. G[r] = Rotated(F[r])
            BY <1>1, <2>4 DEF Turned
        <3> QED BY <2>5, <3>1, <3>2
    <2>10. \A l : NotRunning(l) => G[l] = F[l]
        BY <1>1, <2>5 DEF NotRunning
    <2>11. OnHighest'
        <3>1. M.map = L.map
            <4>1. L.head[r] = F[r][1] /\ L.head[r] # NULL
                BY <1>1, <1>2, SoundIsFunction, ThreadFacts DEF Sound
            <4>2. M = [L EXCEPT !.head[r] = L.next[L.head[r]]]
                BY <4>1 DEF RotateOneFrontToEnd
            <4> QED BY <4>2 DEF Sound, Pointers, Represents, IsMemory
        <3>2. M.head[RunningAt(p)] = L.head[RunningAt(p)]
            <4>1. G[RunningAt(p)] = F[RunningAt(p)]
                BY <1>4, <2>5, <2>7
            <4>2. RunningAt(p) \in ListNames
                BY <1>4, <2>7
            <4> HIDE DEF M, G, p
            <4>3. L.head[RunningAt(p)] = IF F[RunningAt(p)] = <<>> THEN NULL ELSE F[RunningAt(p)][1]
                BY <4>2, SoundIsFunction DEF Sound
            <4>4. M.head[RunningAt(p)] = IF G[RunningAt(p)] = <<>> THEN NULL ELSE G[RunningAt(p)][1]
                BY <2>2, <4>2, SoundIsFunction DEF Sound
            <4> QED BY <4>1, <4>3, <4>4
        <3> HIDE DEF M
        <3> QED BY <2>1, <3>1, <3>2 DEF OnHighest, getHighestPriorityThread
    <2> HIDE DEF M, G, h
    <2> QED BY <1>4, <2>1, <2>2, <2>3, <2>8, <2>9, <2>10, <2>11 DEF Arrived
<1> QED BY <1>5, <1>6

-----------------------------------------------------------------------------
(* One thread leaves a list, one thread joins a list. *)

\* t has left the lists D.
Gone(D, F, t) ==
    /\ OnNone(ListNames, F, t)
    /\ \A j \in ListNames : Members(F[j]) = Members(D[j]) \ {t}

LEMMA Leaves ==
    ASSUME NEW L, NEW D, Sound(L, D), NEW l \in ListNames, NEW k \in 1 .. Len(D[l])
    PROVE  /\ D[l][k] \in Thread
           /\ Gone(D, Removed(D, l, k), D[l][k])
           /\ \A j \in ListNames : Removed(D, l, k)[j] = IF j = l THEN Without(D[l], k) ELSE D[j]
           /\ Removed(D, l, k) \in [ListNames -> Seq(Thread)]
<1> DEFINE t == D[l][k]
           F == Removed(D, l, k)
<1>1. Represents(L, ListNames, Thread, D) /\ D \in [ListNames -> Seq(Thread)]
    BY DEF Sound, Pointers, Represents
<1>2. /\ D[l] \in Seq(Thread)
      /\ \A i \in 1 .. Len(D[l]) : D[l][i] \in Thread
      /\ \A i, j \in 1 .. Len(D[l]) : D[l][i] = D[l][j] => i = j
    BY <1>1, Contents
<1>3. Members(Without(D[l], k)) = Members(D[l]) \ {t}
    <2> DEFINE s == D[l]
    <2>1. s \in Seq(Thread) /\ k \in 1 .. Len(s)
          /\ \A i, j \in 1 .. Len(s) : s[i] = s[j] => i = j
        BY <1>2
    <2> HIDE DEF s
    <2>2. Members(Without(s, k)) = Members(s) \ {s[k]}
        BY <2>1, WithoutKth
    <2> QED BY <2>2 DEF s
<1>4. \A j \in ListNames : F[j] = IF j = l THEN Without(D[l], k) ELSE D[j]
    BY <1>1 DEF Removed
<1>5. \A j \in ListNames : j # l => t \notin Members(D[j])
    BY <1>1 DEF Represents, Apart, Members
<1> HIDE DEF F
<1>6. \A j \in ListNames : Members(F[j]) = Members(D[j]) \ {t}
    BY <1>3, <1>4, <1>5
<1>7. Gone(D, F, t)
    BY <1>6 DEF OnNone, Gone
<1>8. F \in [ListNames -> Seq(Thread)]
    <2>1. Without(D[l], k) \in Seq(Thread)
        BY <1>2, WithoutOne
    <2> QED BY <1>1, <2>1 DEF Removed, F
<1> QED BY <1>2, <1>4, <1>7, <1>8 DEF F

LEMMA Joins ==
    ASSUME NEW D \in [ListNames -> Seq(Thread)], NEW to \in ListNames, NEW t \in Thread
    PROVE  \A j \in ListNames :
              /\ Added(D, to, t)[j] = IF j = to THEN Append(D[j], t) ELSE D[j]
              /\ Members(Added(D, to, t)[j]) =
                    IF j = to THEN Members(D[j]) \cup {t} ELSE Members(D[j])
<1>1. D[to] \in Seq(Thread)
    OBVIOUS
<1>2. /\ Inserted(D[to], Len(D[to]), t) = Append(D[to], t)
      /\ Members(Inserted(D[to], Len(D[to]), t)) = Members(D[to]) \cup {t}
    BY <1>1, InsertedLast
<1>3. \A j \in ListNames : Added(D, to, t)[j] =
          IF j = to THEN Inserted(D[to], Len(D[to]), t) ELSE D[j]
    BY DEF Added
<1> QED BY <1>2, <1>3

\* t has gone to the end of list to, from wherever it was.
Goes(D, F, t, to) ==
    \A j \in ListNames :
        /\ Members(F[j]) = IF j = to THEN Members(D[j]) \cup {t} ELSE Members(D[j]) \ {t}
        /\ j = to => F[j] = Append(D[j], t)

LEMMA LeavesAndJoins ==
    ASSUME NEW L, NEW D, Sound(L, D), NEW l \in ListNames, NEW k \in 1 .. Len(D[l]),
           NEW to \in ListNames, to # l
    PROVE  /\ Goes(D, Added(Removed(D, l, k), to, D[l][k]), D[l][k], to)
           /\ \A j \in ListNames : j # to =>
                 Added(Removed(D, l, k), to, D[l][k])[j] =
                     IF j = l THEN Without(D[l], k) ELSE D[j]
<1> DEFINE t == D[l][k]
           G == Removed(D, l, k)
           F == Added(G, to, t)
<1>1. /\ t \in Thread /\ Gone(D, G, t)
      /\ \A j \in ListNames : G[j] = IF j = l THEN Without(D[l], k) ELSE D[j]
    BY Leaves
<1>2. G \in [ListNames -> Seq(Thread)]
    BY Leaves
<1> HIDE DEF t, G
<1>3. \A j \in ListNames :
          /\ F[j] = IF j = to THEN Append(G[j], t) ELSE G[j]
          /\ Members(F[j]) = IF j = to THEN Members(G[j]) \cup {t} ELSE Members(G[j])
    BY <1>1, <1>2, Joins
<1> HIDE DEF F
<1>4. Goes(D, F, t, to)
    <2>1. \A j \in ListNames : Members(F[j]) =
              IF j = to THEN Members(D[j]) \cup {t} ELSE Members(D[j]) \ {t}
        BY <1>1, <1>3 DEF Gone
    <2>2. F[to] = Append(D[to], t)
        BY <1>1, <1>3
    <2> QED BY <2>1, <2>2 DEF Goes
<1>5. \A j \in ListNames : j # to => F[j] = IF j = l THEN Without(D[l], k) ELSE D[j]
    BY <1>1, <1>3
<1> QED BY <1>4, <1>5 DEF F, G, t

\* A thread that joins the running list of its priority is there by its priority.
LEMMA GoesByPriority ==
    ASSUME NEW D, NEW F, NEW P, ByPriority(D, P), NEW t \in Thread, NEW to, Goes(D, F, t, to),
           \A p \in Priorities : to = RunningAt(p) => p = P[t]
    PROVE  ByPriority(F, P)
BY NamesAreNames DEF ByPriority, Goes

LEMMA MembersAreThreads ==
    ASSUME NEW L, NEW D, Sound(L, D)
    PROVE  \A l \in ListNames : /\ Members(D[l]) \subseteq Thread
                                /\ D[l] = <<>> <=> Members(D[l]) = {}
                                /\ D[l] # <<>> => D[l][1] \in Members(D[l])
<1> SUFFICES ASSUME NEW l \in ListNames
             PROVE  /\ Members(D[l]) \subseteq Thread
                    /\ D[l] = <<>> <=> Members(D[l]) = {}
                    /\ D[l] # <<>> => D[l][1] \in Members(D[l])
    OBVIOUS
<1>1. Represents(L, ListNames, Thread, D)
    BY DEF Sound, Pointers
<1>2. /\ D[l] \in Seq(Thread) /\ Len(D[l]) \in Nat
      /\ \A k \in 1 .. Len(D[l]) : D[l][k] \in Thread
      /\ D[l] = <<>> <=> Len(D[l]) = 0
    BY <1>1, Contents
<1> DEFINE s == D[l]
<1>3. /\ Len(s) \in Nat /\ s = <<>> <=> Len(s) = 0
      /\ \A k \in 1 .. Len(s) : s[k] \in Thread
    BY <1>2
<1> HIDE DEF s
<1>4. s # <<>> => 1 \in 1 .. Len(s)
    BY <1>3
<1>5. s = <<>> => Members(s) = {}
    BY <1>3 DEF Members
<1>6. s # <<>> => s[1] \in Members(s)
    BY <1>4 DEF Members
<1>7. Members(s) \subseteq Thread
    BY <1>3 DEF Members
<1> QED BY <1>5, <1>6, <1>7 DEF s

-----------------------------------------------------------------------------
(* What the invariant says of a thread on a list, or with a status. *)

LEMMA ShownByList ==
    ASSUME NEW t, NEW l, Shows(t, l)
    PROVE  /\ \A p : l = RunningAt(p) =>
                 /\ p = currentPriority[t] /\ activeStatus[t] = "RUNNING"
                 /\ pWaitMonitor[t] = NULL
           /\ l = AsleepList => activeStatus[t] = "ASLEEP_TIMED_OUT" /\ pWaitMonitor[t] = NULL
           /\ \A m : l = WaitingOn(m) =>
                 m \in Monitor /\ pWaitMonitor[t] = m /\ AsleepOnMonitor(t)
           /\ \A m : l = BlockedOn(m) =>
                 /\ m \in Monitor /\ pWaitMonitor[t] \in {NULL, m}
                 /\ activeStatus[t] = "BLOCKED_ON_MONITOR"
                    \/ (AsleepOnMonitor(t) /\ pWaitMonitor[t] = m)
           /\ \A u : l = Joining(u) =>
                 /\ u = pJoinedThread[t] /\ activeStatus[t] = "BLOCKED_ON_THREAD_DEATH"
                 /\ pWaitMonitor[t] = NULL
           /\ \A s : l = PendingOn(s) =>
                 activeStatus[t] = "BLOCKED_ON_SEMAPHORE" /\ pWaitMonitor[t] = NULL
BY NamesDiffer DEF Shows, ShowsMonitor, ShowsOther

LEMMA OnList ==
    ASSUME NEW t, Placed(t), NEW l \in ListNames, t \in On(l)
    PROVE  Active(t) /\ Shows(t, l) /\ \A k \in ListNames : t \in On(k) <=> k = l
BY DEF Placed

LEMMA WithStatus ==
    ASSUME NEW t, Placed(t), Active(t), NULL \notin Monitor
    PROVE  /\ activeStatus[t] = "RUNNING" => t \in On(RunningAt(currentPriority[t]))
           /\ activeStatus[t] = "ASLEEP_TIMED_OUT" => t \in On(AsleepList)
           /\ activeStatus[t] = "BLOCKED_ON_THREAD_DEATH" =>
                 pJoinedThread[t] \in Thread /\ t \in On(Joining(pJoinedThread[t]))
           /\ AsleepOnMonitor(t) =>
                 /\ pWaitMonitor[t] \in Monitor
                 /\ \/ t \in On(WaitingOn(pWaitMonitor[t]))
                    \/ t \in On(BlockedOn(pWaitMonitor[t]))
           /\ activeStatus[t] = "BLOCKED_ON_MONITOR" => \E m \in Monitor : t \in On(BlockedOn(m))
           /\ activeStatus[t] = "BLOCKED_ON_SEMAPHORE" => \E s \in Semaphore : t \in On(PendingOn(s))
<1>1. PICK l \in ListNames : Shows(t, l) /\ t \in On(l)
    BY DEF Placed
<1>2. CASE ShowsMonitor(t, l)
    BY <1>1, <1>2 DEF ShowsMonitor, AsleepOnMonitor
<1>3. CASE ShowsOther(t, l)
    BY <1>1, <1>3 DEF ShowsOther, AsleepOnMonitor
<1> QED BY <1>1, <1>2, <1>3 DEF Shows

LEMMA RunningByPriority ==
    ASSUME IInv
    PROVE  ByPriority(contents, currentPriority)
<1> SUFFICES ASSUME NEW p \in Priorities, NEW t \in Members(contents[RunningAt(p)])
             PROVE  currentPriority[t] = p
    BY DEF ByPriority
<1>1. RunningAt(p) \in ListNames /\ t \in On(RunningAt(p))
    BY NamesAreNames DEF On
<1>2. t \in Thread
    BY <1>1, MembersAreThreads DEF IInv
<1>3. Shows(t, RunningAt(p))
    BY <1>1, <1>2, OnList DEF IInv
<1> QED BY <1>3, ShownByList

\* Where the current thread and the idle thread are.
LEMMA CurrentFacts ==
    ASSUME IInv
    PROVE  /\ current \in Thread /\ Active(current) /\ activeStatus[current] = "RUNNING"
           /\ pWaitMonitor[current] = NULL
           /\ currentPriority[current] \in Priorities
           /\ RunningAt(currentPriority[current]) \in ListNames
           /\ contents[RunningAt(currentPriority[current])] # <<>>
           /\ contents[RunningAt(currentPriority[current])][1] = current
           /\ 1 \in 1 .. Len(contents[RunningAt(currentPriority[current])])
           /\ \A l \in ListNames : current \in On(l) <=> l = RunningAt(currentPriority[current])
           /\ IdleThread \in Thread /\ currentPriority[IdleThread] \in Priorities
           /\ IdleThread \in On(RunningAt(currentPriority[IdleThread]))
<1> DEFINE r == RunningAt(currentPriority[current])
<1>1. /\ current \in Thread /\ currentPriority[current] \in Priorities /\ r \in ListNames
      /\ contents[r] # <<>> /\ contents[r][1] = current
    BY NamesAreNames DEF IInv, Types, CurrentIsFirst, First
<1>2. current \in On(r) /\ 1 \in 1 .. Len(contents[r])
    <2>1. contents[r][1] \in Members(contents[r])
        BY <1>1, MembersAreThreads DEF IInv
    <2>2. 1 \in 1 .. Len(contents[r])
        BY <1>1, SoundIsFunction DEF IInv, Sound
    <2> QED BY <1>1, <2>1, <2>2 DEF On
<1>3. Active(current) /\ Shows(current, r) /\ \A l \in ListNames : current \in On(l) <=> l = r
    BY <1>1, <1>2, OnList DEF IInv
<1>4. activeStatus[current] = "RUNNING" /\ pWaitMonitor[current] = NULL
    BY <1>3, ShownByList
<1>5. IdleThread \in Thread /\ currentPriority[IdleThread] \in Priorities
    BY ThreadFacts DEF IInv, Types
<1>6. IdleThread \in On(RunningAt(currentPriority[IdleThread]))
    <2>1. Placed(IdleThread) /\ Active(IdleThread) /\ activeStatus[IdleThread] = "RUNNING"
          /\ NULL \notin Monitor
        BY <1>5, SchedulerAssumption DEF IInv, IdleIsReady
    <2> QED BY <2>1, WithStatus
<1> QED BY <1>1, <1>2, <1>3, <1>4, <1>5, <1>6

\* A thread that is on no list, and one that is active.
LEMMA NotActive ==
    ASSUME IInv, NEW t \in Thread, ~Active(t)
    PROVE  OnNone(ListNames, contents, t) /\ pWaitMonitor[t] = NULL
BY DEF IInv, Placed, OnNone, On

-----------------------------------------------------------------------------
(* Threads that an operation does not touch. *)

SameThread(t) ==
    /\ state'[t] = state[t] /\ activeStatus'[t] = activeStatus[t]
    /\ currentPriority'[t] = currentPriority[t] /\ pJoinedThread'[t] = pJoinedThread[t]
    /\ pWaitMonitor'[t] = pWaitMonitor[t]

StaysPut(t) == \A l \in ListNames : t \in On(l)' <=> t \in On(l)

SameTimer(t) == (t \in Timed' <=> t \in Timed) /\ timerCallback'[t] = timerCallback[t]

LEMMA StillPlaced ==
    ASSUME NEW t, Placed(t), SameThread(t), StaysPut(t)
    PROVE  Placed(t)'
<1>1. \A l : Shows(t, l)' <=> Shows(t, l)
    BY DEF Shows, ShowsMonitor, ShowsOther, SameThread, AsleepOnMonitor
<1>2. Active(t)' <=> Active(t)
    BY DEF Active, SameThread
<1> QED BY <1>1, <1>2 DEF Placed, StaysPut, SameThread

LEMMA StillClocked ==
    ASSUME NEW t, Clocked(t), SameThread(t), StaysPut(t), SameTimer(t)
    PROVE  Clocked(t)'
<1>1. TimedOut(t)' <=> TimedOut(t)
    BY NamesAreNames DEF TimedOut, StaysPut, SameThread
<1> QED BY <1>1 DEF Clocked, SameTimer, SameThread

-----------------------------------------------------------------------------
(* The macros of the scheduler, in a state in which the invariant holds. *)

Same(D, F, l) == \A j : NotRunning(j) /\ j # l => F[j] = D[j]

LEMMA IdleKeeps ==
    ASSUME NEW L, NEW F, Sound(L, F), NEW P, P[IdleThread] \in Priorities,
           IdleThread \in Members(F[RunningAt(P[IdleThread])])
    PROVE  NonEmpty(F) # {}
<1>1. F[RunningAt(P[IdleThread])] # <<>>
    BY NamesAreNames, MembersAreThreads
<1> QED BY <1>1 DEF NonEmpty

LEMMA CurrentMoved ==
    ASSUME IInv, NEW to, NotRunning(to)
    PROVE  \E F : /\ Sound(moveCurrentThreadFromRunningThreads(lists, to), F)
                  /\ Goes(contents, F, current, to) /\ Same(contents, F, to)
<1> DEFINE p == currentPriority[current]
           r == RunningAt(p)
           F == Added(Removed(contents, r, 1), to, contents[r][1])
<1>1. /\ p \in Priorities /\ r \in ListNames /\ contents[r] # <<>>
      /\ contents[r][1] = current /\ 1 \in 1 .. Len(contents[r])
    BY CurrentFacts
<1>2. Sound(lists, contents)
    BY DEF IInv
<1>3. to \in ListNames /\ to # r
    BY <1>1 DEF NotRunning
<1>4. Sound(moveCurrentThreadFromRunningThreads(lists, to), F)
    BY <1>1, <1>2, FrontMoved DEF moveCurrentThreadFromRunningThreads
<1>5. /\ Goes(contents, F, contents[r][1], to)
      /\ \A j \in ListNames : j # to =>
             F[j] = IF j = r THEN Without(contents[r], 1) ELSE contents[j]
    BY <1>1, <1>2, <1>3, LeavesAndJoins
<1> HIDE DEF F
<1>6. Same(contents, F, to)
    BY <1>1, <1>5 DEF Same, NotRunning
<1> QED BY <1>1, <1>4, <1>5, <1>6

LEMMA CurrentRemoved ==
    ASSUME IInv, NEW L, NEW D, Sound(L, D), First(D, currentPriority, current)
    PROVE  \E F : /\ Sound(removeCurrentThreadFromRunningThreads(L), F)
                  /\ Gone(D, F, current)
                  /\ \A j : NotRunning(j) => F[j] = D[j]
<1> DEFINE p == currentPriority[current]
           r == RunningAt(p)
           F == Removed(D, r, 1)
<1>1. p \in Priorities /\ r \in ListNames /\ D[r] # <<>> /\ D[r][1] = current
    BY CurrentFacts DEF First
<1>2. 1 \in 1 .. Len(D[r])
    BY <1>1, SoundIsFunction DEF Sound
<1>3. Sound(removeCurrentThreadFromRunningThreads(L), F)
    BY <1>1, FrontRemoved DEF removeCurrentThreadFromRunningThreads
<1>4. /\ D[r][1] \in Thread /\ Gone(D, F, D[r][1])
      /\ \A j \in ListNames : F[j] = IF j = r THEN Without(D[r], 1) ELSE D[j]
    BY <1>1, <1>2, Leaves
<1> HIDE DEF F
<1>5. \A j : NotRunning(j) => F[j] = D[j]
    BY <1>1, <1>4 DEF NotRunning
<1> QED BY <1>1, <1>3, <1>4, <1>5

\* A thread taken off a list that is not a running list becomes runnable.
LEMMA Released ==
    ASSUME Types, NEW L, NEW D, Sound(L, D), NEW l, NotRunning(l), NEW k \in 1 .. Len(D[l])
    PROVE  \E F : /\ Sound(addThreadToRunningThreads(RemoveOne(L, l, D[l][k]), D[l][k]), F)
                  /\ Goes(D, F, D[l][k], RunningAt(currentPriority[D[l][k]]))
                  /\ Same(D, F, l) /\ F[l] = Without(D[l], k)
                  /\ \A p \in Priorities : D[RunningAt(p)] # <<>> =>
                        F[RunningAt(p)] # <<>> /\ F[RunningAt(p)][1] = D[RunningAt(p)][1]
<1> DEFINE t == D[l][k]
           p == currentPriority[t]
           r == RunningAt(p)
           G == Removed(D, l, k)
           M == RemoveOne(L, l, t)
           F == Added(G, r, t)
<1>1. l \in ListNames
    BY DEF NotRunning
<1>2. t \in Thread /\ Gone(D, G, t) /\ G \in [ListNames -> Seq(Thread)]
      /\ \A j \in ListNames : G[j] = IF j = l THEN Without(D[l], k) ELSE D[j]
    BY <1>1, Leaves
<1>3. Sound(M, G)
    BY OtherRemoved
<1>4. p \in Priorities /\ r \in ListNames /\ r # l
    BY <1>2, NamesAreNames DEF Types, NotRunning
<1>5. Goes(D, F, t, r) /\ \A j \in ListNames : j # r => F[j] = IF j = l THEN Without(D[l], k) ELSE D[j]
    BY <1>1, <1>4, LeavesAndJoins
<1> HIDE DEF t, G, M
<1>6. OnNone(ListNames, G, t)
    BY <1>2 DEF Gone
<1>7. Sound(addToPriorityMap(AddOneToEnd(M, r, t), p), F)
    BY <1>2, <1>3, <1>4, <1>6, RunningAdded
<1>8. Sound(addThreadToRunningThreads(M, t), F)
    BY <1>7 DEF addThreadToRunningThreads
<1>9. ASSUME NEW q \in Priorities, D[RunningAt(q)] # <<>>
      PROVE  F[RunningAt(q)] # <<>> /\ F[RunningAt(q)][1] = D[RunningAt(q)][1]
    <2>1. RunningAt(q) \in ListNames /\ RunningAt(q) # l
        BY NamesAreNames DEF NotRunning
    <2>2. CASE RunningAt(q) # r
        BY <1>5, <1>9, <2>1, <2>2
    <2>3. CASE RunningAt(q) = r
        <3>1. G[r] = D[r] /\ G[r] \in Seq(Thread)
            BY <1>2, <1>4
        <3>2. F[r] = Inserted(G[r], Len(G[r]), t)
            BY <1>2, <1>4 DEF Added
        <3>3. Inserted(G[r], Len(G[r]), t) # <<>>
            BY <1>2, <3>1, InsertedLast
        <3>4. Inserted(G[r], Len(G[r]), t)[1] = IF G[r] = <<>> THEN t ELSE G[r][1]
            BY <1>2, <3>1, InsertedLast
        <3> QED BY <1>9, <2>3, <3>1, <3>2, <3>3, <3>4
    <2> QED BY <2>2, <2>3
<1> HIDE DEF F, p
<1>10. Same(D, F, l) /\ F[l] = Without(D[l], k)
    BY <1>1, <1>4, <1>5 DEF Same, NotRunning
<1> QED BY <1>5, <1>8, <1>9, <1>10 DEF t, M, p

\* A thread that was on no list becomes runnable.
LEMMA MadeRunnable ==
    ASSUME Types, NEW L, NEW D, Sound(L, D), NEW t \in Thread, OnNone(ListNames, D, t)
    PROVE  \E F : /\ Sound(addThreadToRunningThreads(L, t), F)
                  /\ Goes(D, F, t, RunningAt(currentPriority[t]))
                  /\ \A j : NotRunning(j) => F[j] = D[j]
                  /\ \A p \in Priorities : D[RunningAt(p)] # <<>> =>
                        F[RunningAt(p)] # <<>> /\ F[RunningAt(p)][1] = D[RunningAt(p)][1]
<1> DEFINE p == currentPriority[t]
           r == RunningAt(p)
           F == Added(D, r, t)
<1>1. p \in Priorities /\ r \in ListNames /\ D \in [ListNames -> Seq(Thread)]
    BY NamesAreNames DEF Types, Sound, Pointers, Represents
<1>2. Sound(addThreadToRunningThreads(L, t), F)
    BY <1>1, RunningAdded DEF addThreadToRunningThreads
<1>3. \A j \in ListNames :
          /\ F[j] = IF j = r THEN Append(D[j], t) ELSE D[j]
          /\ Members(F[j]) = IF j = r THEN Members(D[j]) \cup {t} ELSE Members(D[j])
    BY <1>1, Joins
<1>4. Inserted(D[r], Len(D[r]), t) # <<>>
      /\ Inserted(D[r], Len(D[r]), t)[1] = IF D[r] = <<>> THEN t ELSE D[r][1]
    BY <1>1, InsertedLast
<1>5. F[r] = Inserted(D[r], Len(D[r]), t)
    BY <1>1 DEF Added
<1> HIDE DEF F
<1>6. Goes(D, F, t, r)
    BY <1>3 DEF Goes, OnNone
<1>7. \A j : NotRunning(j) => F[j] = D[j]
    BY <1>1, <1>3 DEF NotRunning
<1>8. \A q \in Priorities : D[RunningAt(q)] # <<>> =>
          F[RunningAt(q)] # <<>> /\ F[RunningAt(q)][1] = D[RunningAt(q)][1]
    BY <1>3, <1>4, <1>5, NamesAreNames
<1> QED BY <1>2, <1>6, <1>7, <1>8

LEMMA FirstKept ==
    ASSUME NEW D, NEW F, First(D, currentPriority, current), currentPriority[current] \in Priorities,
           \A p \in Priorities : D[RunningAt(p)] # <<>> =>
               F[RunningAt(p)] # <<>> /\ F[RunningAt(p)][1] = D[RunningAt(p)][1]
    PROVE  First(F, currentPriority, current)
BY DEF First

-----------------------------------------------------------------------------
(* Operations that move one thread. *)

MovesTo(t, to) ==
    \A j \in ListNames : On(j)' = IF j = to THEN On(j) \cup {t} ELSE On(j) \ {t}

OthersKept(t) == \A u \in Thread : u # t => SameThread(u) /\ SameTimer(u)

OwnersStay(to) ==
    \A m \in Monitor : (to = BlockedOn(m) \/ pOwner[m] # NULL) /\ On(BlockedOn(m))' # {}
                           => pOwner'[m] # NULL

\* All that is left of the invariant after t has gone to list to.
MoveIsKept(t, to) ==
    /\ Types' /\ QueueSound' /\ OthersKept(t)
    /\ t # IdleThread \/ activeStatus'[t] = "RUNNING"
    /\ Active(t)' /\ Shows(t, to)' /\ Clocked(t)'
    /\ \A u \in Thread : to = Joining(u) => Active(u)
    /\ OwnersStay(to)
    /\ PendedAreCounted' /\ PendedByPriority'

LEMMA ArrivedOn ==
    ASSUME NEW F, NEW P, Arrived(F, P), NEW t, NEW to, Goes(contents, F, t, to)
    PROVE  MovesTo(t, to)
<1>1. \A j \in ListNames : On(j)' = Members(F[j])
    BY DEF Arrived, On
<1>2. \A j \in ListNames : Members(F[j]) =
          IF j = to THEN On(j) \cup {t} ELSE On(j) \ {t}
    BY DEF Goes, On
<1> QED BY <1>1, <1>2 DEF MovesTo

LEMMA OneMoves ==
    ASSUME IInv, NEW t \in Thread, NEW to \in ListNames, NEW F, Arrived(F, currentPriority),
           MovesTo(t, to), currentPriority' = currentPriority, MoveIsKept(t, to)
    PROVE  IInv'
<1> USE DEF MoveIsKept
<1>1. \A j \in ListNames : \A u \in Thread : u # t => (u \in On(j)' <=> u \in On(j))
    BY DEF MovesTo
<1>2. \A j \in ListNames : t \in On(j)' <=> j = to
    BY DEF MovesTo
<1>3. ASSUME NEW u \in Thread PROVE Placed(u)' /\ Clocked(u)'
    <2>1. CASE u # t
        <3>1. SameThread(u) /\ SameTimer(u) /\ Placed(u) /\ Clocked(u)
            BY <2>1 DEF OthersKept, IInv
        <3>2. StaysPut(u)
            BY <1>1, <2>1 DEF StaysPut
        <3> QED BY <3>1, <3>2, StillPlaced, StillClocked
    <2>2. CASE u = t
        BY <1>2, <2>2 DEF Placed
    <2> QED BY <2>1, <2>2
<1>4. IdleIsReady'
    BY ThreadFacts DEF IInv, IdleIsReady, OthersKept, SameThread, Active
<1>5. \A u \in Thread : Active(u) => Active(u)'
    BY DEF OthersKept, SameThread, Active
<1>6. JoinedAreAlive'
    <2> SUFFICES ASSUME NEW u \in Thread, NEW v \in Thread, u \in On(Joining(v))'
                 PROVE  Active(v)'
        BY DEF JoinedAreAlive
    <2>1. Joining(v) \in ListNames
        BY NamesAreNames
    <2>2. u \in On(Joining(v)) \/ to = Joining(v)
        BY <2>1 DEF MovesTo
    <2> QED BY <1>5, <2>2 DEF IInv, JoinedAreAlive
<1>7. BlockedAreOwned'
    <2> SUFFICES ASSUME NEW m \in Monitor, NEW u \in Thread, u \in On(BlockedOn(m))'
                 PROVE  pOwner'[m] # NULL
        BY DEF BlockedAreOwned
    <2>1. BlockedOn(m) \in ListNames
        BY NamesAreNames
    <2>2. u \in On(BlockedOn(m)) \/ to = BlockedOn(m)
        BY <2>1 DEF MovesTo
    <2> QED BY <2>2 DEF IInv, BlockedAreOwned, OwnersStay
<1>8. CurrentIsFirst' /\ Sound(lists, contents)'
    BY DEF CurrentIsFirst, Arrived
<1> QED BY <1>3, <1>4, <1>6, <1>7, <1>8 DEF IInv

\* A pended thread stays pended or is the first of its queue.
InOrder ==
    \A s \in Semaphore : \/ On(PendingOn(s)) \subseteq On(PendingOn(s))'
                         \/ contents'[PendingOn(s)] = Without(contents[PendingOn(s)], 1)

\* An operation that finds the right thread running leaves the right thread running.
StaysHighest == OnHighest => OnHighest'

Kept == IInv' /\ InOrder /\ StaysHighest

LEMMA PendedKept ==
    ASSUME IInv, \A s \in Semaphore : contents'[PendingOn(s)] = contents[PendingOn(s)],
           counter' = counter, currentPriority' = currentPriority
    PROVE  PendedAreCounted' /\ PendedByPriority' /\ InOrder
<1>1. \A s \in Semaphore : On(PendingOn(s))' = On(PendingOn(s))
    BY DEF On
<1>2. InOrder
    BY <1>1 DEF InOrder
<1> QED BY <1>2 DEF IInv, PendedAreCounted, PendedByPriority, Falling

LEMMA TimersKept ==
    ASSUME IInv, timers' = timers
    PROVE  QueueSound' /\ Timed' = Timed
BY DEF IInv, QueueSound, queue, Timed

\* Operations that move none.
NoneIsKept ==
    /\ Types' /\ QueueSound'
    /\ \A u \in Thread : SameThread(u) /\ SameTimer(u)
    /\ \A m \in Monitor : pOwner[m] # NULL /\ On(BlockedOn(m)) # {} => pOwner'[m] # NULL
    /\ PendedAreCounted' /\ PendedByPriority'

LEMMA NoneMoves ==
    ASSUME IInv, Arrived(contents, currentPriority), currentPriority' = currentPriority,
           NoneIsKept
    PROVE  IInv'
<1> USE DEF NoneIsKept
<1>1. \A j \in ListNames : On(j)' = On(j)
    BY DEF Arrived, On
<1>2. ASSUME NEW u \in Thread PROVE Placed(u)' /\ Clocked(u)'
    <2>1. StaysPut(u) /\ SameThread(u) /\ SameTimer(u)
        BY <1>1 DEF StaysPut
    <2>2. Placed(u) /\ Clocked(u)
        BY DEF IInv
    <2> QED BY <2>1, <2>2, StillPlaced, StillClocked
<1>3. IdleIsReady'
    BY ThreadFacts DEF IInv, IdleIsReady, SameThread, Active
<1>4. JoinedAreAlive'
    BY <1>1, NamesAreNames DEF IInv, JoinedAreAlive, SameThread, Active
<1>5. BlockedAreOwned'
    BY <1>1, NamesAreNames DEF IInv, BlockedAreOwned
<1>6. CurrentIsFirst' /\ Sound(lists, contents)'
    BY DEF CurrentIsFirst, Arrived
<1> QED BY <1>2, <1>3, <1>4, <1>5, <1>6 DEF IInv

LEMMA ListsUnchanged ==
    ASSUME IInv, lists' = lists
    PROVE  /\ contents' = contents
           /\ current' = current => Arrived(contents, currentPriority) /\ StaysHighest
<1>1. contents' = contents
    BY DEF contents
<1>2. current' = current => Arrived(contents, currentPriority)
    BY <1>1 DEF IInv, Types, CurrentIsFirst, Arrived
<1>3. current' = current => StaysHighest
    BY DEF StaysHighest, OnHighest
<1> QED BY <1>1, <1>2, <1>3

\* The current thread goes to list to, and another is switched to.
LEMMA CurrentDeparts ==
    ASSUME IInv, NEW to, NotRunning(to), current # IdleThread, NEW t \in Thread, t = current,
           generatedContextSwitch(moveCurrentThreadFromRunningThreads(lists, to))
    PROVE  \E F : /\ Arrived(F, currentPriority) /\ OnHighest'
                  /\ MovesTo(t, to) /\ Goes(contents, F, t, to) /\ Same(contents, F, to)
<1>1. PICK F : /\ Sound(moveCurrentThreadFromRunningThreads(lists, to), F)
               /\ Goes(contents, F, t, to) /\ Same(contents, F, to)
    BY CurrentMoved
<1>2. ByPriority(F, currentPriority)
    BY <1>1, RunningByPriority, GoesByPriority DEF NotRunning
<1>3. NonEmpty(F) # {}
    <2>1. currentPriority[IdleThread] \in Priorities
          /\ IdleThread \in On(RunningAt(currentPriority[IdleThread]))
          /\ RunningAt(currentPriority[IdleThread]) \in ListNames
        BY CurrentFacts, NamesAreNames
    <2>2. IdleThread \in Members(F[RunningAt(currentPriority[IdleThread])])
        BY <1>1, <2>1 DEF Goes, On
    <2> QED BY <1>1, <2>1, <2>2, IdleKeeps
<1>4. Arrived(F, currentPriority) /\ OnHighest'
    BY <1>1, <1>2, <1>3, Generated
<1>5. MovesTo(t, to)
    BY <1>1, <1>4, ArrivedOn
<1> QED BY <1>1, <1>4, <1>5

\* A thread leaves the k-th place of list l for the running list of its priority.
LEMMA ThreadWakes ==
    ASSUME IInv, NEW l, NotRunning(l), NEW k \in 1 .. Len(contents[l]),
           NEW t, t = contents[l][k], NEW L,
           L = addThreadToRunningThreads(RemoveOne(lists, l, t), t),
           noContextSwitch(L) \/ conditionalContextSwitch(L, currentPriority)
    PROVE  /\ t \in Thread /\ t \in On(l) /\ t # current
           /\ RunningAt(currentPriority[t]) \in ListNames
           /\ conditionalContextSwitch(L, currentPriority) => OnHighest'
           /\ \E F : /\ Arrived(F, currentPriority)
                     /\ MovesTo(t, RunningAt(currentPriority[t]))
                     /\ Same(contents, F, l) /\ F[l] = Without(contents[l], k)
<1>1. Sound(lists, contents) /\ Types /\ currentPriority \in [Thread -> Priorities]
    BY DEF IInv, Types
<1>2. t \in On(l) /\ l \in ListNames
    BY DEF On, Members, NotRunning
<1>3. t \in Thread
    BY <1>1, <1>2, MembersAreThreads DEF On
<1>4. RunningAt(currentPriority[t]) \in ListNames /\ currentPriority[t] \in Priorities
    BY <1>1, <1>3, NamesAreNames
<1>5. t # current
    BY <1>2, CurrentFacts DEF NotRunning
<1>6. PICK F : /\ Sound(addThreadToRunningThreads(RemoveOne(lists, l, contents[l][k]), contents[l][k]), F)
               /\ Goes(contents, F, contents[l][k], RunningAt(currentPriority[contents[l][k]]))
               /\ Same(contents, F, l) /\ F[l] = Without(contents[l], k)
               /\ \A p \in Priorities : contents[RunningAt(p)] # <<>> =>
                     F[RunningAt(p)] # <<>> /\ F[RunningAt(p)][1] = contents[RunningAt(p)][1]
    BY <1>1, Released
<1>7. Sound(L, F) /\ Goes(contents, F, t, RunningAt(currentPriority[t]))
    BY <1>6
<1>8. First(F, currentPriority, current) /\ current \in Thread
    BY <1>6, CurrentFacts, FirstKept DEF First
<1>9. ByPriority(F, currentPriority)
    <2>1. \A p \in Priorities : RunningAt(currentPriority[t]) = RunningAt(p) => p = currentPriority[t]
        BY NamesDiffer
    <2>2. ByPriority(contents, currentPriority)
        BY RunningByPriority
    <2> QED BY <1>3, <1>7, <2>1, <2>2, GoesByPriority
<1>11. Arrived(F, currentPriority)
    <2>1. CASE noContextSwitch(L)
        BY <1>7, <1>8, <2>1, NoSwitch
    <2>2. CASE conditionalContextSwitch(L, currentPriority)
        BY <1>1, <1>7, <1>8, <1>9, <2>2, Conditional
    <2> QED BY <2>1, <2>2
<1>12. conditionalContextSwitch(L, currentPriority) => OnHighest'
    BY <1>1, <1>7, <1>8, <1>9, Conditional
<1>13. MovesTo(t, RunningAt(currentPriority[t]))
    BY <1>7, <1>11, ArrivedOn
<1> QED BY <1>2, <1>3, <1>4, <1>5, <1>6, <1>11, <1>12, <1>13

\* A thread whose entry is not on the timer queue, where none is expected.
LEMMA ClockStopped ==
    ASSUME NEW t, NEW to \in ListNames, MovesTo(t, to), to # AsleepList,
           \A m \in Monitor : to # WaitingOn(m), t \notin Timed'
    PROVE  Clocked(t)'
<1>1. ~TimedOut(t)'
    BY NamesAreNames DEF MovesTo, TimedOut
<1> QED BY <1>1 DEF Clocked

LEMMA NotTimed ==
    ASSUME IInv, NEW t \in Thread, NEW l \in ListNames, t \in On(l), l # AsleepList,
           \A m \in Monitor : l # WaitingOn(m)
    PROVE  t \notin Timed
<1>1. Clocked(t) /\ \A k \in ListNames : t \in On(k) <=> k = l
    BY OnList DEF IInv
<1> QED BY <1>1, NamesAreNames DEF Clocked, TimedOut

LEMMA CurrentNotTimed ==
    ASSUME IInv
    PROVE  current \notin Timed
BY CurrentFacts, NotTimed, NamesDiffer

-----------------------------------------------------------------------------
(* Monitors. *)

LEMMA EnterKeeps ==
    ASSUME IInv, NEW m \in Monitor, MonitorEnter(m)
    PROVE  Kept
<1>1. /\ state' = state /\ currentPriority' = currentPriority /\ timers' = timers
      /\ timerCallback' = timerCallback /\ counter' = counter
      /\ pJoinedThread' = pJoinedThread /\ pWaitMonitor' = pWaitMonitor
      /\ current # IdleThread /\ Types
    BY DEF MonitorEnter, threadVars, waitVars, timerVars, monitorVars, Calls, IInv
<1>2. QueueSound' /\ Timed' = Timed
    BY <1>1, TimersKept
<1>3. CASE lists' = lists /\ current' = current /\ activeStatus' = activeStatus
           /\ (pOwner' = pOwner \/ pOwner' = [pOwner EXCEPT ![m] = current])
           /\ depth' \in [Monitor -> Nat]
    <2>1. Arrived(contents, currentPriority) /\ contents' = contents /\ StaysHighest
        BY <1>3, ListsUnchanged
    <2>2. PendedAreCounted' /\ PendedByPriority' /\ InOrder
        BY <1>1, <2>1, PendedKept
    <2>3. Types'
        BY <1>1, <1>3 DEF MonitorEnter, Types, waitVars, timerVars, monitorVars, ThreadOrNull
    <2>4. \A u \in Thread : SameThread(u) /\ SameTimer(u)
        BY <1>1, <1>2, <1>3 DEF SameThread, SameTimer
    <2>5. \A n \in Monitor : pOwner[n] # NULL /\ On(BlockedOn(n)) # {} => pOwner'[n] # NULL
        BY <1>1, <1>3, ThreadFacts DEF Types
    <2>6. IInv'
        BY <1>1, <1>2, <2>1, <2>2, <2>3, <2>4, <2>5, NoneMoves DEF NoneIsKept
    <2> QED BY <2>1, <2>2, <2>6 DEF Kept
<1>4. CASE /\ pOwner[m] \notin {NULL, current}
           /\ activeStatus' = [activeStatus EXCEPT ![current] = "BLOCKED_ON_MONITOR"]
           /\ generatedContextSwitch(moveCurrentThreadFromRunningThreads(lists, BlockedOn(m)))
           /\ pOwner' = pOwner
    <2>1. NotRunning(BlockedOn(m)) /\ BlockedOn(m) \in ListNames
        BY NotRunningNames, NamesAreNames
    <2>3. PICK t \in Thread : t = current
        BY <1>1 DEF Types
    <2>2. PICK F : /\ Arrived(F, currentPriority) /\ OnHighest'
                   /\ MovesTo(t, BlockedOn(m)) /\ Same(contents, F, BlockedOn(m))
        BY <1>1, <1>4, <2>1, <2>3, CurrentDeparts
    <2>6. Arrived(F, currentPriority)
        BY <2>2
    <2>7. MovesTo(t, BlockedOn(m))
        BY <2>2
    <2>8. \A s \in Semaphore : contents'[PendingOn(s)] = contents[PendingOn(s)]
        BY <2>2, <2>6, NotRunningNames, NamesDiffer DEF Arrived, Same
    <2>9. Types'
        BY <1>1, <1>4, <2>6 DEF MonitorEnter, Types, waitVars, timerVars, monitorVars, Arrived, Status
    <2>10. OthersKept(t)
        BY <1>1, <1>2, <1>4, <2>3 DEF OthersKept, SameThread, SameTimer, Types
    <2>11. Active(t) /\ activeStatus'[t] = "BLOCKED_ON_MONITOR" /\ pWaitMonitor[t] = NULL
        BY <1>1, <1>4, <2>3, CurrentFacts DEF Types
    <2>12. Active(t)' /\ Shows(t, BlockedOn(m))'
        BY <1>1, <2>11 DEF Active, Shows, ShowsMonitor
    <2>13. Clocked(t)'
        <3>1. t \notin Timed
            BY <2>3, CurrentNotTimed
        <3> QED BY <1>2, <2>1, <2>7, <3>1, NamesDiffer, ClockStopped
    <2>14. OwnersStay(BlockedOn(m))
        BY <1>4, NamesDiffer DEF OwnersStay
    <2>15. MoveIsKept(t, BlockedOn(m))
        BY <1>1, <1>2, <2>3, <2>8, <2>9, <2>10, <2>12, <2>13, <2>14, PendedKept, NamesDiffer
           DEF MoveIsKept
    <2>16. IInv'
        BY <1>1, <2>1, <2>6, <2>7, <2>15, OneMoves
    <2>17. InOrder
        BY <1>1, <2>8, PendedKept
    <2> QED BY <2>2, <2>16, <2>17 DEF Kept, StaysHighest
<1>5. \A e \in Nat : [depth EXCEPT ![m] = e] \in [Monitor -> Nat]
    BY <1>1 DEF Types
<1>6. depth \in [Monitor -> Nat] /\ depth[m] + 1 \in Nat /\ 1 \in Nat
    BY <1>1 DEF Types
<1> QED BY <1>3, <1>4, <1>5, <1>6 DEF MonitorEnter, monitorVars

\* The front of a list as the code reads it.
LEMMA FrontRead ==
    ASSUME IInv, NEW l \in ListNames
    PROVE  /\ lists.head[l] = NULL <=> contents[l] = <<>>
           /\ contents[l] = <<>> <=> On(l) = {}
           /\ lists.head[l] # NULL => /\ lists.head[l] = contents[l][1]
                                      /\ 1 \in 1 .. Len(contents[l])
                                      /\ lists.head[l] \in Thread
                                      /\ lists.head[l] \in On(l)
<1>1. Sound(lists, contents) /\ NULL \notin Thread
    BY ThreadFacts DEF IInv
<1>2. /\ lists.head[l] = IF contents[l] = <<>> THEN NULL ELSE contents[l][1]
      /\ contents[l] # <<>> => contents[l][1] \in Thread /\ 1 \in 1 .. Len(contents[l])
    BY <1>1, SoundIsFunction DEF Sound
<1>3. /\ contents[l] = <<>> <=> On(l) = {}
      /\ contents[l] # <<>> => contents[l][1] \in On(l)
    BY <1>1, MembersAreThreads DEF On
<1> QED BY <1>1, <1>2, <1>3

\* releaseBlockedThread hands the monitor to t.
LEMMA ReleaseEffect ==
    ASSUME NEW L, NEW m, NEW W, NEW A, releaseBlockedThread(L, m, W, A),
           NEW t, t = firstBlocked(L, m), t # NULL
    PROVE  /\ pOwner' = [pOwner EXCEPT ![m] = t]
           /\ depth' = [depth EXCEPT ![m] = IF W[t] # NULL THEN waitMonitorDepth[t] ELSE 1]
           /\ pWaitMonitor' = [W EXCEPT ![t] = NULL]
           /\ activeStatus' = [A EXCEPT ![t] = "RUNNING"]
           /\ afterRelease(L, m) = addThreadToRunningThreads(RemoveOne(L, BlockedOn(m), t), t)
           /\ acquires(t, m, W)
BY DEF releaseBlockedThread, acquires, afterRelease

\* A thread that was on list l is on the running list of its priority.
LEMMA WokenKeeps ==
    ASSUME IInv, NEW l, NotRunning(l), NEW t \in Thread, NEW F, Arrived(F, currentPriority),
           MovesTo(t, RunningAt(currentPriority[t])), t \in On(l),
           Types', QueueSound', OthersKept(t), state' = state,
           currentPriority' = currentPriority,
           activeStatus'[t] = "RUNNING", pWaitMonitor'[t] = NULL, t \notin Timed',
           \A n \in Monitor : pOwner[n] # NULL => pOwner'[n] # NULL,
           PendedAreCounted', PendedByPriority'
    PROVE  IInv'
<1>1. PICK r \in ListNames : r = RunningAt(currentPriority[t])
    BY NamesAreNames DEF IInv, Types
<1>2. Active(t) /\ l \in ListNames
    BY OnList DEF IInv, NotRunning
<1>3. Active(t)' /\ Shows(t, r)'
    BY <1>1, <1>2 DEF Active, Shows, ShowsOther
<1>4. Clocked(t)'
    BY <1>1, NamesDiffer, ClockStopped
<1>5. OwnersStay(r)
    BY <1>1, NamesDiffer DEF OwnersStay
<1>6. MoveIsKept(t, r)
    BY <1>1, <1>3, <1>4, <1>5, NamesDiffer DEF MoveIsKept
<1> QED BY <1>1, <1>6, OneMoves

LEMMA ExitKeeps ==
    ASSUME IInv, NEW m \in Monitor, MonitorExit(m)
    PROVE  Kept
<1>1. /\ state' = state /\ currentPriority' = currentPriority /\ timers' = timers
      /\ timerCallback' = timerCallback /\ counter' = counter
      /\ pJoinedThread' = pJoinedThread /\ waitMonitorDepth' = waitMonitorDepth
      /\ current # IdleThread /\ Types
    BY DEF MonitorExit, threadVars, waitVars, timerVars, monitorVars, Calls, IInv
<1>2. QueueSound' /\ Timed' = Timed
    BY <1>1, TimersKept
<1>3. BlockedOn(m) \in ListNames /\ NotRunning(BlockedOn(m))
    BY NotRunningNames, NamesAreNames
<1>4. CASE /\ lists' = lists /\ current' = current /\ activeStatus' = activeStatus
           /\ pWaitMonitor' = pWaitMonitor /\ depth' \in [Monitor -> Nat]
           /\ \/ pOwner' = pOwner
              \/ lists.head[BlockedOn(m)] = NULL /\ pOwner' = [pOwner EXCEPT ![m] = NULL]
    <2>1. Arrived(contents, currentPriority) /\ contents' = contents /\ StaysHighest
        BY <1>4, ListsUnchanged
    <2>2. PendedAreCounted' /\ PendedByPriority' /\ InOrder
        BY <1>1, <2>1, PendedKept
    <2>3. Types'
        BY <1>1, <1>4 DEF MonitorExit, Types, waitVars, timerVars, monitorVars, ThreadOrNull
    <2>4. \A u \in Thread : SameThread(u) /\ SameTimer(u)
        BY <1>1, <1>2, <1>4 DEF SameThread, SameTimer
    <2>5. \A n \in Monitor : pOwner[n] # NULL /\ On(BlockedOn(n)) # {} => pOwner'[n] # NULL
        BY <1>1, <1>3, <1>4, FrontRead DEF Types
    <2>6. IInv'
        BY <1>1, <1>2, <2>1, <2>2, <2>3, <2>4, <2>5, NoneMoves DEF NoneIsKept
    <2> QED BY <2>1, <2>2, <2>6 DEF Kept
<1>5. CASE /\ lists.head[BlockedOn(m)] # NULL
           /\ releaseBlockedThread(lists, m, pWaitMonitor, activeStatus)
           /\ conditionalContextSwitch(afterRelease(lists, m), currentPriority)
    <2> DEFINE l == BlockedOn(m)
    <2>1. PICK t \in Thread : t = lists.head[l] /\ t = contents[l][1] /\ 1 \in 1 .. Len(contents[l])
                              /\ t \in On(l)
        BY <1>3, <1>5, FrontRead
    <2>2. t = firstBlocked(lists, m) /\ t # NULL
        BY <2>1, ThreadFacts DEF firstBlocked
    <2>3. /\ pOwner' = [pOwner EXCEPT ![m] = t]
          /\ depth' = [depth EXCEPT ![m] = IF pWaitMonitor[t] # NULL THEN waitMonitorDepth[t] ELSE 1]
          /\ pWaitMonitor' = [pWaitMonitor EXCEPT ![t] = NULL]
          /\ activeStatus' = [activeStatus EXCEPT ![t] = "RUNNING"]
          /\ afterRelease(lists, m) = addThreadToRunningThreads(RemoveOne(lists, l, t), t)
        BY <1>5, <2>2, ReleaseEffect
    <2>4. conditionalContextSwitch(addThreadToRunningThreads(RemoveOne(lists, l, t), t), currentPriority)
        BY <1>5, <2>3
    <2>5. /\ t # current /\ RunningAt(currentPriority[t]) \in ListNames
          /\ \E F : /\ Arrived(F, currentPriority)
                    /\ MovesTo(t, RunningAt(currentPriority[t]))
                    /\ Same(contents, F, l) /\ F[l] = Without(contents[l], 1)
        BY <1>3, <2>1, <2>4, ThreadWakes
    <2>6. PICK F : /\ Arrived(F, currentPriority)
                   /\ MovesTo(t, RunningAt(currentPriority[t]))
                   /\ Same(contents, F, l)
        BY <2>5
    <2>9. \A s \in Semaphore : contents'[PendingOn(s)] = contents[PendingOn(s)]
        BY <2>6, NotRunningNames, NamesDiffer DEF Arrived, Same
    <2>10. Types'
        BY <1>1, <2>3, <2>6 DEF MonitorExit, Types, timerVars, Arrived, Status, ThreadOrNull
    <2>11. OthersKept(t)
        BY <1>1, <1>2, <2>3 DEF OthersKept, SameThread, SameTimer, Types
    <2>12. activeStatus'[t] = "RUNNING" /\ pWaitMonitor'[t] = NULL
        BY <1>1, <2>3 DEF Types
    <2>13. t \notin Timed'
        BY <1>2, <1>3, <2>1, NotTimed, NamesDiffer
    <2>14. \A n \in Monitor : pOwner[n] # NULL => pOwner'[n] # NULL
        BY <1>1, <2>3, ThreadFacts DEF Types
    <2>15. PendedAreCounted' /\ PendedByPriority' /\ InOrder
        BY <1>1, <2>9, PendedKept
    <2>16. IInv'
        BY <1>1, <1>2, <1>3, <2>1, <2>6, <2>10, <2>11, <2>12, <2>13, <2>14, <2>15, WokenKeeps
    <2>17. OnHighest'
        BY <1>3, <2>1, <2>4, ThreadWakes
    <2> QED BY <2>15, <2>16, <2>17 DEF Kept, StaysHighest
<1>6. CASE depth[m] > 1 /\ depth' = [depth EXCEPT ![m] = @ - 1]
           /\ UNCHANGED <<current, lists, activeStatus, pOwner, pWaitMonitor>>
    BY <1>1, <1>4, <1>6 DEF Types
<1>7. CASE depth[m] = 1 /\ lists.head[BlockedOn(m)] = NULL /\ depth' = [depth EXCEPT ![m] = 0]
           /\ pOwner' = [pOwner EXCEPT ![m] = NULL]
           /\ UNCHANGED <<current, lists, activeStatus, pWaitMonitor>>
    BY <1>1, <1>4, <1>7 DEF Types
<1> QED BY <1>5, <1>6, <1>7 DEF MonitorExit

-----------------------------------------------------------------------------
(* The timer queue. *)

\* T is a well formed timer queue of the threads S.
TimerQueue(T, S) ==
    \E C : /\ Represents(T, {TimerList}, Thread, C)
           /\ DOMAIN T = {"head", "next", "prev"}
           /\ Members(C[TimerList]) = S

LEMMA QueueRead ==
    ASSUME QueueSound
    PROVE  TimerQueue(timers, Timed)
BY DEF QueueSound, TimerQueue, Timed

LEMMA QueueLeft ==
    ASSUME NEW S, TimerQueue(timers', S)
    PROVE  QueueSound' /\ Timed' = S
<1>1. PICK C : /\ Represents(timers', {TimerList}, Thread, C)
               /\ DOMAIN timers' = {"head", "next", "prev"}
               /\ Members(C[TimerList]) = S
    BY DEF TimerQueue
<1>2. AsSequence(timers', TimerList) = C[TimerList]
    BY <1>1, ThreadFacts, ContentsRead
<1>3. C = [l \in {TimerList} |-> C[l]]
    BY <1>1 DEF Represents
<1>4. queue' = C
    BY <1>2, <1>3 DEF queue
<1> QED BY <1>1, <1>4 DEF QueueSound, Timed

LEMMA TimerRemoved ==
    ASSUME NEW T, NEW S, TimerQueue(T, S), NEW t \in S
    PROVE  TimerQueue(removeTimerCallback(T, t), S \ {t})
<1>1. PICK C : /\ Represents(T, {TimerList}, Thread, C)
               /\ DOMAIN T = {"head", "next", "prev"}
               /\ Members(C[TimerList]) = S
    BY DEF TimerQueue
<1>2. PICK k \in 1 .. Len(C[TimerList]) : t = C[TimerList][k]
    BY <1>1 DEF Members
<1> DEFINE D == [C EXCEPT ![TimerList] = Without(C[TimerList], k)]
           M == RemoveOne(T, TimerList, C[TimerList][k])
<1>3. Represents(M, {TimerList}, Thread, D) /\ SameOthers(T, M)
    BY <1>1, ThreadFacts, RemovedOne
<1>4. Members(Without(C[TimerList], k)) = S \ {t}
    <2>1. /\ C[TimerList] \in Seq(Thread)
          /\ \A i, j \in 1 .. Len(C[TimerList]) : C[TimerList][i] = C[TimerList][j] => i = j
        BY <1>1, Contents
    <2>2. Members(Without(C[TimerList], k)) = Members(C[TimerList]) \ {C[TimerList][k]}
        BY <2>1, WithoutKth
    <2> QED BY <1>1, <1>2, <2>2
<1>5. D[TimerList] = Without(C[TimerList], k)
    BY <1>1 DEF Represents
<1> HIDE DEF D
<1>6. M = removeTimerCallback(T, t)
    BY <1>2 DEF removeTimerCallback
<1> QED BY <1>1, <1>3, <1>4, <1>5, <1>6 DEF TimerQueue, SameOthers

\* setTimerCallback, whatever the times are.
LEMMA TimerSet ==
    ASSUME IInv, NEW callback, setTimerCallback(callback), NEW t \in Thread, t = current
    PROVE  /\ QueueSound' /\ Timed' = Timed \cup {t}
           /\ timerCallback' = [timerCallback EXCEPT ![t] = callback]
<1> DEFINE q == queue[TimerList]
           M == [timers EXCEPT !.next[t] = NULL]
           later(k) == {q[j] : j \in k .. Len(q)}
<1>1. AsSequence(timers, TimerList) = q
    BY DEF queue
<1>2. PICK k \in 1 .. Len(q) + 1 : timers' = AddOneSorted(M, TimerList, t, later(k))
    <2>1. LaterParts = {later(k) : k \in 1 .. Len(q) + 1}
        BY <1>1 DEF LaterParts
    <2>2. PICK S \in LaterParts : timers' = AddOneSorted([timers EXCEPT !.next[current] = NULL],
                                                         TimerList, current, S)
        BY DEF setTimerCallback
    <2>3. PICK k \in 1 .. Len(q) + 1 : S = later(k)
        BY <2>1
    <2> HIDE DEF later
    <2> QED BY <2>2, <2>3
<1>3. Represents(timers, {TimerList}, Thread, queue) /\ DOMAIN timers = {"head", "next", "prev"}
    BY DEF IInv, QueueSound
<1>4. OnNone({TimerList}, queue, t)
    BY CurrentNotTimed DEF OnNone, Timed
<1>5. Represents(M, {TimerList}, Thread, queue)
    BY <1>3, <1>4, ThreadFacts, PointerCleared
<1>6. /\ q \in Seq(Thread) /\ Len(q) \in Nat
      /\ \A i, j \in 1 .. Len(q) : q[i] = q[j] => i = j
    BY <1>3, Contents
<1>7. PICK at \in 0 .. Len(q) : at = k - 1
    BY <1>6
<1>8. \A i \in 1 .. Len(q) : q[i] \in later(k) <=> i > at
    <2> HIDE DEF q
    <2> SUFFICES ASSUME NEW i \in 1 .. Len(q) PROVE q[i] \in later(k) <=> i > at
        OBVIOUS
    <2>1. i > at => i \in k .. Len(q)
        BY <1>6, <1>7
    <2>2. \A j \in k .. Len(q) : j \in 1 .. Len(q) /\ j > at
        BY <1>6, <1>7
    <2> QED BY <1>6, <2>1, <2>2
<1> DEFINE D == [queue EXCEPT ![TimerList] = Inserted(q, at, t)]
<1>9. Represents(timers', {TimerList}, Thread, D) /\ SameOthers(M, timers')
    <2>1. \A i \in 1 .. Len(queue[TimerList]) : queue[TimerList][i] \in later(k) <=> i > at
        BY <1>8
    <2>2. at \in 0 .. Len(queue[TimerList])
        BY <1>7
    <2> HIDE DEF later, M
    <2>3. /\ Represents(AddOneSorted(M, TimerList, t, later(k)), {TimerList}, Thread,
                        [queue EXCEPT ![TimerList] = Inserted(queue[TimerList], at, t)])
          /\ SameOthers(M, AddOneSorted(M, TimerList, t, later(k)))
        BY <1>4, <1>5, <2>1, <2>2, ThreadFacts, AddedSorted
    <2> QED BY <1>2, <2>3
<1>10. DOMAIN timers' = {"head", "next", "prev"}
    <2>1. DOMAIN M = DOMAIN timers
        BY <1>3 DEF Represents, IsMemory
    <2> QED BY <1>3, <1>9, <2>1 DEF SameOthers
<1>11. Members(D[TimerList]) = Timed \cup {t}
    <2>1. D[TimerList] = Inserted(q, at, t)
        BY <1>3 DEF Represents
    <2>2. Members(Inserted(q, at, t)) = Members(q) \cup {t}
        <3> HIDE DEF q
        <3>1. q \in Seq(Thread) /\ at \in 0 .. Len(q) /\ t \in Thread
            BY <1>6, <1>7
        <3> QED BY <3>1, InsertedOne
    <2> QED BY <2>1, <2>2 DEF Timed
<1> HIDE DEF D
<1>12. TimerQueue(timers', Timed \cup {t})
    BY <1>9, <1>10, <1>11 DEF TimerQueue
<1> QED BY <1>12, QueueLeft DEF setTimerCallback

-----------------------------------------------------------------------------
(* Waiting threads. *)

\* A thread on the asleep list of a monitor, and its timer.
LEMMA WaiterFacts ==
    ASSUME IInv, NEW m \in Monitor, NEW t, t \in On(WaitingOn(m))
    PROVE  /\ t \in Thread /\ Active(t) /\ pWaitMonitor[t] = m /\ AsleepOnMonitor(t)
           /\ t \in Timed <=> activeStatus[t] = "ASLEEP_TIMED_OUT_ON_MONITOR"
           /\ t # current /\ t # IdleThread
           /\ \A k \in ListNames : t \in On(k) <=> k = WaitingOn(m)
<1>1. WaitingOn(m) \in ListNames
    BY NamesAreNames
<1>2. t \in Thread
    BY <1>1, MembersAreThreads DEF IInv, On
<1>3. Active(t) /\ Shows(t, WaitingOn(m)) /\ \A k \in ListNames : t \in On(k) <=> k = WaitingOn(m)
    BY <1>1, <1>2, OnList DEF IInv
<1>4. pWaitMonitor[t] = m /\ AsleepOnMonitor(t)
    BY <1>3, ShownByList
<1>5. t # current /\ t # IdleThread
    BY <1>4, CurrentFacts DEF IInv, IdleIsReady, AsleepOnMonitor
<1>6. t \notin On(AsleepList)
    BY <1>3, NamesDiffer, NamesAreNames
<1>7. t \in Timed <=> activeStatus[t] = "ASLEEP_TIMED_OUT_ON_MONITOR"
    BY <1>2, <1>6 DEF IInv, Clocked, TimedOut
<1> QED BY <1>2, <1>3, <1>4, <1>5, <1>7

LEMMA WaiterUntimed ==
    ASSUME IInv, NEW m \in Monitor, NEW t, t \in On(WaitingOn(m)),
           timers' = IF activeStatus[t] = "ASLEEP_TIMED_OUT_ON_MONITOR"
                     THEN removeTimerCallback(timers, t) ELSE timers
    PROVE  QueueSound' /\ Timed' = Timed \ {t}
<1>1. t \in Timed <=> activeStatus[t] = "ASLEEP_TIMED_OUT_ON_MONITOR"
    BY WaiterFacts
<1>2. CASE t \in Timed
    <2>1. TimerQueue(removeTimerCallback(timers, t), Timed \ {t})
        BY <1>2, QueueRead, TimerRemoved DEF IInv
    <2>2. TimerQueue(timers', Timed \ {t})
        BY <1>1, <1>2, <2>1
    <2> QED BY <2>2, QueueLeft
<1>3. CASE t \notin Timed
    <2>1. timers' = timers
        BY <1>1, <1>3
    <2> QED BY <1>3, <2>1, TimersKept
<1> QED BY <1>2, <1>3

\* The thread chosen depends on nothing but the running lists.
LEMMA SameHighest ==
    ASSUME NEW L, NEW D, Sound(L, D), NEW M, NEW F, Sound(M, F), NonEmpty(D) # {},
           \A p \in Priorities :
               D[RunningAt(p)] = <<>> <=> F[RunningAt(p)] = <<>>,
           D[RunningAt(getHighestPriority(L.map))][1] = F[RunningAt(getHighestPriority(L.map))][1]
    PROVE  getHighestPriorityThread(M) = getHighestPriorityThread(L)
<1>1. M.map = L.map /\ L.map = NonEmpty(D)
    BY DEF Sound, NonEmpty
<1>2. PICK p \in Priorities : p = getHighestPriority(L.map) /\ D[RunningAt(p)] # <<>>
    BY <1>1, HighestIsThere DEF NonEmpty
<1>3. RunningAt(p) \in ListNames
    BY NamesAreNames
<1>4. L.head[RunningAt(p)] = D[RunningAt(p)][1]
    BY <1>2, <1>3, SoundIsFunction DEF Sound
<1>5. M.head[RunningAt(p)] = F[RunningAt(p)][1]
    <2>1. F[RunningAt(p)] # <<>>
        BY <1>2
    <2> QED BY <1>3, <2>1, SoundIsFunction DEF Sound
<1> QED BY <1>1, <1>2, <1>4, <1>5 DEF getHighestPriorityThread

\* A waiter at the k-th place of its list goes to the end of the monitor's blocked list.
LEMMA WaiterBlocks ==
    ASSUME IInv, NEW m \in Monitor, NEW k \in 1 .. Len(contents[WaitingOn(m)]),
           NEW t, t = contents[WaitingOn(m)][k], NEW L,
           Sound(L, Added(Removed(contents, WaitingOn(m), k), BlockedOn(m),
                          contents[WaitingOn(m)][k])),
           noContextSwitch(L) \/ conditionalContextSwitch(L, currentPriority)
    PROVE  /\ t \in On(WaitingOn(m)) /\ StaysHighest
           /\ contents'[WaitingOn(m)] = Without(contents[WaitingOn(m)], k)
           /\ contents'[BlockedOn(m)] = Append(contents[BlockedOn(m)], t)
           /\ \A j : NotRunning(j) /\ j # WaitingOn(m) /\ j # BlockedOn(m)
                         => contents'[j] = contents[j]
           /\ \E F : /\ Arrived(F, currentPriority) /\ MovesTo(t, BlockedOn(m))
                     /\ \A j : NotRunning(j) /\ j # WaitingOn(m) /\ j # BlockedOn(m)
                                   => F[j] = contents[j]
<1> DEFINE l == WaitingOn(m)
           to == BlockedOn(m)
           F == Added(Removed(contents, l, k), to, contents[l][k])
<1>1. /\ l \in ListNames /\ to \in ListNames /\ l # to /\ NotRunning(l) /\ NotRunning(to)
      /\ Sound(lists, contents)
    BY NamesAreNames, NamesDiffer, NotRunningNames DEF IInv
<1>2. t \in On(l)
    BY DEF On, Members
<1>3. t \in Thread
    BY <1>2, WaiterFacts
<1>4. /\ Goes(contents, F, contents[l][k], to)
      /\ \A j \in ListNames : j # to =>
             F[j] = IF j = l THEN Without(contents[l], k) ELSE contents[j]
    BY <1>1, LeavesAndJoins
<1>5. Sound(L, F)
    OBVIOUS
<1> HIDE DEF F
<1>6. Goes(contents, F, t, to)
    BY <1>4
<1>7. \A p \in Priorities : F[RunningAt(p)] = contents[RunningAt(p)]
    BY <1>1, <1>4, NamesAreNames DEF NotRunning
<1>8. ByPriority(F, currentPriority)
    BY <1>7, RunningByPriority DEF ByPriority
<1>9. First(F, currentPriority, current) /\ current \in Thread
    BY <1>7, CurrentFacts DEF First
<1>10. currentPriority \in [Thread -> Priorities]
    BY DEF IInv, Types
<1>11. Arrived(F, currentPriority) /\ StaysHighest
    <2>1. CASE noContextSwitch(L)
        <3>1. Arrived(F, currentPriority)
            BY <1>5, <1>9, <2>1, NoSwitch
        <3>2. NonEmpty(contents) # {}
            BY CurrentFacts DEF NonEmpty
        <3>3. getHighestPriority(lists.map) \in Priorities
            BY <1>1, <3>2, HighestIsThere DEF Sound, NonEmpty
        <3>4. getHighestPriorityThread(L) = getHighestPriorityThread(lists)
            BY <1>1, <1>5, <1>7, <3>2, <3>3, SameHighest
        <3> QED BY <2>1, <3>1, <3>4 DEF StaysHighest, OnHighest, noContextSwitch
    <2>2. CASE conditionalContextSwitch(L, currentPriority)
        BY <1>5, <1>8, <1>9, <1>10, <2>2, Conditional DEF StaysHighest
    <2> QED BY <2>1, <2>2
<1>12. MovesTo(t, to)
    BY <1>6, <1>11, ArrivedOn
<1>13. \A j : NotRunning(j) /\ j # l /\ j # to => F[j] = contents[j]
    BY <1>4 DEF NotRunning
<1>14. /\ contents'[l] = Without(contents[l], k) /\ contents'[to] = Append(contents[to], t)
       /\ \A j : NotRunning(j) /\ j # l /\ j # to => contents'[j] = contents[j]
    <2>1. F[l] = Without(contents[l], k) /\ F[to] = Append(contents[to], t)
        BY <1>1, <1>4, <1>6 DEF Goes
    <2>2. \A j : NotRunning(j) => contents'[j] = F[j]
        BY <1>11 DEF Arrived
    <2> QED BY <1>1, <1>13, <2>1, <2>2
<1> QED BY <1>2, <1>11, <1>12, <1>13, <1>14

LEMMA BlockedKeeps ==
    ASSUME IInv, NEW m \in Monitor, NEW t \in Thread, t \in On(WaitingOn(m)),
           NEW F, Arrived(F, currentPriority), MovesTo(t, BlockedOn(m)),
           Types', QueueSound', OthersKept(t), state' = state,
           currentPriority' = currentPriority,
           activeStatus'[t] \in {activeStatus[t], "BLOCKED_ON_MONITOR"},
           pWaitMonitor' = pWaitMonitor, t \notin Timed',
           pOwner' = pOwner, pOwner[m] # NULL,
           PendedAreCounted', PendedByPriority'
    PROVE  IInv'
<1>1. /\ Active(t) /\ pWaitMonitor[t] = m /\ AsleepOnMonitor(t) /\ t # IdleThread
      /\ BlockedOn(m) \in ListNames
    BY WaiterFacts, NamesAreNames
<1>2. Active(t)' /\ Shows(t, BlockedOn(m))'
    BY <1>1 DEF Active, Shows, ShowsMonitor, AsleepOnMonitor
<1>3. Clocked(t)'
    BY <1>1, NamesDiffer, ClockStopped
<1>4. OwnersStay(BlockedOn(m))
    BY NamesDiffer DEF OwnersStay
<1>5. MoveIsKept(t, BlockedOn(m))
    BY <1>1, <1>2, <1>3, <1>4, NamesDiffer DEF MoveIsKept
<1> QED BY <1>1, <1>5, OneMoves

LEMMA NotifyKeeps ==
    ASSUME IInv, NEW m \in Monitor, MonitorNotify(m)
    PROVE  Kept
<1> DEFINE l == WaitingOn(m)
<1>1. /\ state' = state /\ activeStatus' = activeStatus /\ currentPriority' = currentPriority
      /\ pJoinedThread' = pJoinedThread /\ pWaitMonitor' = pWaitMonitor
      /\ timerCallback' = timerCallback /\ pOwner' = pOwner /\ counter' = counter
      /\ pOwner[m] = current /\ lists.head[l] # NULL /\ Types
    BY DEF MonitorNotify, threadVars, waitVars, monitorVars, IInv
<1>2. /\ l \in ListNames /\ NotRunning(l) /\ NotRunning(BlockedOn(m)) /\ l # BlockedOn(m)
    BY NamesAreNames, NotRunningNames, NamesDiffer
<1>3. PICK t \in Thread : t = lists.head[l] /\ t = contents[l][1] /\ 1 \in 1 .. Len(contents[l])
                          /\ t \in On(l)
    BY <1>1, <1>2, FrontRead
<1>4. QueueSound' /\ Timed' = Timed \ {t}
    BY <1>3, WaiterUntimed DEF MonitorNotify
<1> DEFINE L == MoveOneFrontToEnd(lists, BlockedOn(m), l)
<1>5. conditionalContextSwitch(L, currentPriority)
    BY DEF MonitorNotify
<1>6. Sound(L, Added(Removed(contents, l, 1), BlockedOn(m), contents[l][1]))
    <2>1. contents[l] # <<>> /\ Sound(lists, contents)
        BY <1>1, <1>2, FrontRead DEF IInv
    <2> QED BY <1>2, <2>1, OtherMoved
<1> HIDE DEF L
<1>7. /\ StaysHighest
      /\ \E F : /\ Arrived(F, currentPriority) /\ MovesTo(t, BlockedOn(m))
                /\ \A j : NotRunning(j) /\ j # l /\ j # BlockedOn(m) => F[j] = contents[j]
    BY <1>3, <1>5, <1>6, WaiterBlocks
<1>8. PICK F : /\ Arrived(F, currentPriority) /\ MovesTo(t, BlockedOn(m))
               /\ \A j : NotRunning(j) /\ j # l /\ j # BlockedOn(m) => F[j] = contents[j]
    BY <1>7
<1>9. \A s \in Semaphore : contents'[PendingOn(s)] = contents[PendingOn(s)]
    BY <1>8, NotRunningNames, NamesDiffer DEF Arrived
<1>10. PendedAreCounted' /\ PendedByPriority' /\ InOrder
    BY <1>1, <1>9, PendedKept
<1>11. Types'
    <2>1. current' \in Thread
        BY <1>8 DEF Arrived
    <2>2. interruptedFlag' = [interruptedFlag EXCEPT ![t] = FALSE]
        BY <1>3 DEF MonitorNotify
    <2> QED BY <1>1, <2>1, <2>2 DEF MonitorNotify, Types, waitVars, monitorVars
<1>12. OthersKept(t)
    BY <1>1, <1>4 DEF OthersKept, SameThread, SameTimer
<1>13. pOwner[m] # NULL
    BY <1>1, ThreadFacts DEF Types
<1>14. IInv'
    BY <1>1, <1>3, <1>4, <1>8, <1>10, <1>11, <1>12, <1>13, BlockedKeeps
<1> QED BY <1>7, <1>10, <1>14 DEF Kept

LEMMA SleepKeeps ==
    ASSUME IInv, ThreadSleep
    PROVE  Kept
<1>1. /\ state' = state /\ currentPriority' = currentPriority /\ counter' = counter
      /\ pJoinedThread' = pJoinedThread /\ pWaitMonitor' = pWaitMonitor /\ pOwner' = pOwner
      /\ activeStatus' = [activeStatus EXCEPT ![current] = "ASLEEP_TIMED_OUT"]
      /\ setTimerCallback("threadSleepExpired")
      /\ generatedContextSwitch(moveCurrentThreadFromRunningThreads(lists, AsleepList))
      /\ current # IdleThread /\ Types
    BY DEF ThreadSleep, waitVars, monitorVars, Calls, IInv
<1>2. PICK t \in Thread : t = current
    BY <1>1 DEF Types
<1>3. /\ QueueSound' /\ Timed' = Timed \cup {t}
      /\ timerCallback' = [timerCallback EXCEPT ![t] = "threadSleepExpired"]
    BY <1>1, <1>2, TimerSet
<1>4. NotRunning(AsleepList) /\ AsleepList \in ListNames
    BY NotRunningNames, NamesAreNames
<1>5. PICK F : /\ Arrived(F, currentPriority) /\ OnHighest'
               /\ MovesTo(t, AsleepList) /\ Same(contents, F, AsleepList)
    BY <1>1, <1>2, <1>4, CurrentDeparts
<1>6. \A s \in Semaphore : contents'[PendingOn(s)] = contents[PendingOn(s)]
    BY <1>5, NotRunningNames, NamesDiffer DEF Arrived, Same
<1>7. PendedAreCounted' /\ PendedByPriority' /\ InOrder
    BY <1>1, <1>6, PendedKept
<1>8. Types'
    <2>1. current' \in Thread
        BY <1>5 DEF Arrived
    <2> QED BY <1>1, <1>3, <2>1 DEF ThreadSleep, Types, waitVars, monitorVars, Status
<1>9. OthersKept(t)
    BY <1>1, <1>2, <1>3 DEF OthersKept, SameThread, SameTimer, Types
<1>10. /\ Active(t) /\ pWaitMonitor[t] = NULL /\ activeStatus'[t] = "ASLEEP_TIMED_OUT"
       /\ timerCallback'[t] = "threadSleepExpired"
    BY <1>1, <1>2, <1>3, CurrentFacts DEF Types
<1>11. Active(t)' /\ Shows(t, AsleepList)'
    BY <1>1, <1>10 DEF Active, Shows, ShowsOther
<1>12. Clocked(t)'
    <2>1. t \in On(AsleepList)'
        BY <1>4, <1>5 DEF MovesTo
    <2> QED BY <1>3, <1>10, <2>1 DEF Clocked, TimedOut
<1>13. MoveIsKept(t, AsleepList)
    BY <1>1, <1>2, <1>3, <1>7, <1>8, <1>9, <1>11, <1>12, NamesDiffer DEF MoveIsKept, OwnersStay
<1>14. IInv'
    BY <1>1, <1>4, <1>5, <1>13, OneMoves
<1> QED BY <1>5, <1>7, <1>14 DEF Kept, StaysHighest

LEMMA JoinKeeps ==
    ASSUME IInv, Disciplined, NEW u \in Thread, ThreadJoin(u)
    PROVE  Kept
<1>1. /\ state' = state /\ currentPriority' = currentPriority /\ counter' = counter
      /\ pWaitMonitor' = pWaitMonitor /\ pOwner' = pOwner /\ timers' = timers
      /\ timerCallback' = timerCallback
      /\ pJoinedThread' = [pJoinedThread EXCEPT ![current] = u]
      /\ activeStatus' = [activeStatus EXCEPT ![current] = "BLOCKED_ON_THREAD_DEATH"]
      /\ generatedContextSwitch(moveCurrentThreadFromRunningThreads(lists, Joining(u)))
      /\ current # IdleThread /\ Types
    BY DEF ThreadJoin, waitVars, timerVars, monitorVars, Calls, IInv
<1>2. PICK t \in Thread : t = current
    BY <1>1 DEF Types
<1>3. QueueSound' /\ Timed' = Timed
    BY <1>1, TimersKept
<1>4. NotRunning(Joining(u)) /\ Joining(u) \in ListNames
    BY NotRunningNames, NamesAreNames
<1>5. PICK F : /\ Arrived(F, currentPriority) /\ OnHighest'
               /\ MovesTo(t, Joining(u)) /\ Same(contents, F, Joining(u))
    BY <1>1, <1>2, <1>4, CurrentDeparts
<1>6. \A s \in Semaphore : contents'[PendingOn(s)] = contents[PendingOn(s)]
    BY <1>5, NotRunningNames, NamesDiffer DEF Arrived, Same
<1>7. PendedAreCounted' /\ PendedByPriority' /\ InOrder
    BY <1>1, <1>6, PendedKept
<1>8. Types'
    <2>1. current' \in Thread
        BY <1>5 DEF Arrived
    <2> QED BY <1>1, <2>1 DEF ThreadJoin, Types, waitVars, monitorVars, Status, ThreadOrNull
<1>9. OthersKept(t)
    BY <1>1, <1>2, <1>3 DEF OthersKept, SameThread, SameTimer, Types
<1>10. /\ Active(t) /\ pWaitMonitor[t] = NULL /\ activeStatus'[t] = "BLOCKED_ON_THREAD_DEATH"
       /\ pJoinedThread'[t] = u
    BY <1>1, <1>2, CurrentFacts DEF Types
<1>11. Active(t)' /\ Shows(t, Joining(u))'
    BY <1>1, <1>10 DEF Active, Shows, ShowsOther
<1>12. Clocked(t)'
    <2>1. t \notin Timed'
        BY <1>2, <1>3, CurrentNotTimed
    <2> QED BY <1>4, <1>5, <2>1, NamesDiffer, ClockStopped
<1>13. \A v \in Thread : Joining(u) = Joining(v) => Active(v)
    <2>1. Active(u)
        BY DEF ThreadJoin, Calls, Disciplined
    <2> QED BY <2>1, NamesDiffer
<1>14. MoveIsKept(t, Joining(u))
    BY <1>1, <1>2, <1>3, <1>7, <1>8, <1>9, <1>11, <1>12, <1>13, NamesDiffer DEF MoveIsKept, OwnersStay
<1>15. IInv'
    BY <1>1, <1>4, <1>5, <1>14, OneMoves
<1> QED BY <1>5, <1>7, <1>15 DEF Kept, StaysHighest

-----------------------------------------------------------------------------
(* Yields, the rescheduler, and the tick: no thread moves. *)

Untouched ==
    /\ state' = state /\ activeStatus' = activeStatus /\ interruptedFlag' = interruptedFlag
    /\ pJoinedThread' = pJoinedThread /\ currentPriority' = currentPriority
    /\ pWaitMonitor' = pWaitMonitor /\ waitMonitorDepth' = waitMonitorDepth
    /\ timers' = timers /\ timerCallback' = timerCallback
    /\ pOwner' = pOwner /\ depth' = depth /\ counter' = counter
    /\ nesting' = nesting
    /\ reschedulerEnabledIndicator' \in Nat
    /\ tick' \in {"none", "scheduled", "conditional"}

LEMMA OnlyTurned ==
    ASSUME IInv, Untouched, Arrived(contents, currentPriority)
    PROVE  IInv' /\ InOrder
<1>1. /\ state' = state /\ activeStatus' = activeStatus /\ currentPriority' = currentPriority
      /\ pJoinedThread' = pJoinedThread /\ pWaitMonitor' = pWaitMonitor
      /\ timers' = timers /\ timerCallback' = timerCallback /\ pOwner' = pOwner
      /\ counter' = counter /\ Types
    BY DEF Untouched, IInv
<1>2. QueueSound' /\ Timed' = Timed
    BY <1>1, TimersKept
<1>3. \A s \in Semaphore : contents'[PendingOn(s)] = contents[PendingOn(s)]
    BY NotRunningNames DEF Arrived
<1>4. PendedAreCounted' /\ PendedByPriority' /\ InOrder
    BY <1>1, <1>3, PendedKept
<1>5. Types'
    BY <1>1 DEF Untouched, Types, Arrived
<1>6. \A u \in Thread : SameThread(u) /\ SameTimer(u)
    BY <1>1, <1>2 DEF SameThread, SameTimer
<1>7. NoneIsKept
    BY <1>1, <1>2, <1>4, <1>5, <1>6 DEF NoneIsKept
<1> QED BY <1>1, <1>4, <1>7, NoneMoves

LEMMA ConditionalKeeps ==
    ASSUME IInv, Untouched, conditionalContextSwitch(lists, currentPriority)
    PROVE  IInv' /\ InOrder /\ OnHighest'
<1>1. /\ Sound(lists, contents) /\ currentPriority \in [Thread -> Priorities]
      /\ current \in Thread /\ First(contents, currentPriority, current)
    BY DEF IInv, Types, CurrentIsFirst
<1>2. Arrived(contents, currentPriority) /\ OnHighest'
    BY <1>1, RunningByPriority, Conditional
<1> QED BY <1>2, OnlyTurned

LEMMA UnchangedKeeps ==
    ASSUME IInv, Untouched, lists' = lists, current' = current
    PROVE  Kept
BY ListsUnchanged, OnlyTurned DEF Kept

\* The current thread's list, turned.
LEMMA CurrentTurned ==
    ASSUME IInv
    PROVE  LET r == RunningAt(currentPriority[current])
               L == RotateOneFrontToEnd(lists, r)
               F == Turned(contents, r)
           IN  /\ Sound(L, F) /\ F \in [ListNames -> Seq(Thread)] /\ L.map = lists.map
               /\ \A j \in ListNames : Members(F[j]) = Members(contents[j])
               /\ \A j \in ListNames : j # r => F[j] = contents[j] /\ L.head[j] = lists.head[j]
               /\ ByPriority(F, currentPriority) /\ NonEmpty(F) # {}
<1> DEFINE r == RunningAt(currentPriority[current])
           L == RotateOneFrontToEnd(lists, r)
           F == Turned(contents, r)
<1>1. /\ r \in ListNames /\ Sound(lists, contents) /\ contents[r] # <<>>
      /\ contents \in [ListNames -> Seq(Thread)]
    BY CurrentFacts DEF IInv, Sound, Pointers, Represents
<1>2. Sound(L, F)
    BY <1>1, ListTurned
<1>3. F = [contents EXCEPT ![r] = Rotated(contents[r])]
    BY DEF Turned
<1>4. Rotated(contents[r]) \in Seq(Thread) /\ Members(Rotated(contents[r])) = Members(contents[r])
    BY <1>1, TurnedList
<1>5. /\ F \in [ListNames -> Seq(Thread)]
      /\ \A j \in ListNames : Members(F[j]) = Members(contents[j])
      /\ \A j \in ListNames : j # r => F[j] = contents[j]
    BY <1>1, <1>3, <1>4
<1>6. L.map = lists.map /\ \A j \in ListNames : j # r => L.head[j] = lists.head[j]
    <2>1. lists.head[r] # NULL /\ lists.head \in [ListNames -> Thread \cup {NULL}]
        BY <1>1, FrontRead DEF Sound, Pointers, Represents, IsMemory
    <2>2. L = [lists EXCEPT !.head[r] = lists.next[lists.head[r]]]
        BY <2>1 DEF RotateOneFrontToEnd
    <2> HIDE DEF L
    <2> QED BY <1>1, <2>1, <2>2 DEF Sound, Pointers, Represents, IsMemory
<1> HIDE DEF F, L
<1>7. ByPriority(F, currentPriority)
    BY <1>5, RunningByPriority, NamesAreNames DEF ByPriority
<1>8. NonEmpty(F) # {}
    <2>1. /\ currentPriority[IdleThread] \in Priorities
          /\ IdleThread \in Members(F[RunningAt(currentPriority[IdleThread])])
        BY <1>5, CurrentFacts, NamesAreNames DEF On
    <2> QED BY <1>2, <2>1, IdleKeeps
<1> QED BY <1>2, <1>5, <1>6, <1>7, <1>8 DEF F, L

LEMMA TurnArrives ==
    ASSUME IInv, Arrived(Turned(contents, RunningAt(currentPriority[current])), currentPriority)
    PROVE  Arrived(contents, currentPriority)
<1> DEFINE F == Turned(contents, RunningAt(currentPriority[current]))
<1>1. /\ \A j \in ListNames : Members(F[j]) = Members(contents[j])
      /\ \A j \in ListNames : j # RunningAt(currentPriority[current]) => F[j] = contents[j]
    BY CurrentTurned
<1>2. Arrived(F, currentPriority)
    OBVIOUS
<1> HIDE DEF F
<1>3. \A j : NotRunning(j) => F[j] = contents[j]
    BY <1>1, CurrentFacts DEF NotRunning
<1> QED BY <1>1, <1>2, <1>3 DEF Arrived

LEMMA WeakYieldKeeps ==
    ASSUME IInv, WeakYield
    PROVE  Kept
<1>1. Untouched
    BY DEF WeakYield, Untouched, threadVars, waitVars, timerVars, monitorVars, IInv, Types
<1>2. conditionalContextSwitch(lists, currentPriority)
    BY DEF WeakYield
<1> QED BY <1>1, <1>2, ConditionalKeeps DEF Kept, StaysHighest

LEMMA StrongYieldKeeps ==
    ASSUME IInv, StrongYield
    PROVE  Kept
<1> DEFINE p == currentPriority[current]
           L == RotateOneFrontToEnd(lists, RunningAt(p))
           F == Turned(contents, RunningAt(p))
<1>1. Untouched
    BY DEF StrongYield, Untouched, threadVars, waitVars, timerVars, monitorVars, IInv, Types
<1>2. /\ Sound(L, F) /\ F \in [ListNames -> Seq(Thread)] /\ L.map = lists.map
      /\ ByPriority(F, currentPriority) /\ NonEmpty(F) # {}
      /\ \A j \in ListNames : Members(F[j]) = Members(contents[j])
    BY CurrentTurned
<1>3. /\ RunningAt(p) \in ListNames /\ p \in Priorities /\ current \in Thread
      /\ contents[RunningAt(p)] # <<>>
    BY CurrentFacts
<1>4. CASE L.head[RunningAt(p)] # current
    <2>1. generatedContextSwitch(L)
        BY <1>4 DEF StrongYield
    <2> HIDE DEF L, F
    <2>2. Arrived(F, currentPriority) /\ OnHighest'
        BY <1>2, <2>1, Generated
    <2>3. IInv' /\ InOrder
        BY <1>1, <2>2, TurnArrives, OnlyTurned DEF F
    <2> QED BY <2>2, <2>3 DEF Kept, StaysHighest
<1>5. CASE L.head[RunningAt(p)] = current
    <2>1. noContextSwitch(L)
        BY <1>5 DEF StrongYield
    <2> HIDE DEF L, F
    <2>2. First(F, currentPriority, current)
        <3>1. current # NULL
            BY <1>3, ThreadFacts
        <3>2. L.head[RunningAt(p)] = IF F[RunningAt(p)] = <<>> THEN NULL ELSE F[RunningAt(p)][1]
            BY <1>2, <1>3, SoundIsFunction DEF Sound
        <3> QED BY <1>5, <3>1, <3>2 DEF First
    <2>3. Arrived(F, currentPriority)
        BY <1>2, <1>3, <2>1, <2>2, NoSwitch
    <2>4. IInv' /\ InOrder
        BY <1>1, <2>3, TurnArrives, OnlyTurned DEF F
    <2>5. StaysHighest
        <3> SUFFICES ASSUME OnHighest PROVE OnHighest'
            BY DEF StaysHighest
        <3>1. Sound(lists, contents) /\ NonEmpty(contents) # {}
            BY <1>3 DEF IInv, NonEmpty
        <3>2. currentPriority[current] = getHighestPriority(lists.map)
            BY <3>1, RunningByPriority, HighestIsFirst DEF OnHighest
        <3>3. getHighestPriorityThread(L) = current
            BY <1>2, <1>5, <3>2 DEF getHighestPriorityThread
        <3> QED BY <2>1, <3>3 DEF OnHighest, noContextSwitch
    <2> QED BY <2>4, <2>5 DEF Kept
<1> QED BY <1>4, <1>5

LEMMA DisableKeeps ==
    ASSUME IInv, DisableRescheduler
    PROVE  Kept
<1>1. Untouched /\ lists' = lists /\ current' = current
    BY DEF DisableRescheduler, Untouched, threadVars, waitVars, timerVars, monitorVars, IInv, Types
<1> QED BY <1>1, UnchangedKeeps

LEMMA EnableKeeps ==
    ASSUME IInv, EnableRescheduler
    PROVE  Kept
<1>1. Untouched
    BY DEF EnableRescheduler, Untouched, threadVars, waitVars, timerVars, monitorVars, IInv, Types
<1>2. CASE conditionalContextSwitch(lists, currentPriority)
    BY <1>1, <1>2, ConditionalKeeps DEF Kept, StaysHighest
<1>3. CASE noContextSwitch(lists)
    BY <1>1, <1>3, UnchangedKeeps DEF noContextSwitch
<1> QED BY <1>2, <1>3 DEF EnableRescheduler

LEMMA TickInterruptKeeps ==
    ASSUME IInv, NEW kind \in {"scheduled", "conditional"}, TickInterrupt(kind)
    PROVE  Kept
<1>1. Untouched /\ lists' = lists /\ current' = current
    BY DEF TickInterrupt, Untouched, threadVars, waitVars, timerVars, monitorVars, IInv, Types
<1> QED BY <1>1, UnchangedKeeps

LEMMA TickReturnsKeeps ==
    ASSUME IInv, TickReturns
    PROVE  Kept /\ OnHighest'
<1> DEFINE L == RotateOneFrontToEnd(lists, RunningAt(currentPriority[current]))
           F == Turned(contents, RunningAt(currentPriority[current]))
<1>1. Untouched
    BY DEF TickReturns, Untouched, threadVars, waitVars, timerVars, monitorVars, IInv, Types
<1>2. CASE conditionalContextSwitch(lists, currentPriority)
    BY <1>1, <1>2, ConditionalKeeps DEF Kept, StaysHighest
<1>3. CASE generatedContextSwitch(L)
    <2>1. Sound(L, F) /\ ByPriority(F, currentPriority) /\ NonEmpty(F) # {}
        BY CurrentTurned
    <2> HIDE DEF L, F
    <2>2. Arrived(F, currentPriority) /\ OnHighest'
        BY <1>3, <2>1, Generated
    <2>3. IInv' /\ InOrder
        BY <1>1, <2>2, TurnArrives, OnlyTurned DEF F
    <2> QED BY <2>2, <2>3 DEF Kept, StaysHighest
<1> QED BY <1>2, <1>3 DEF TickReturns

-----------------------------------------------------------------------------
(* The timeouts. *)

LEMMA FirstTimed ==
    ASSUME IInv, timers.head[TimerList] # NULL
    PROVE  /\ timers.head[TimerList] \in Thread /\ timers.head[TimerList] \in Timed
           /\ RemoveOneFromFront(timers, TimerList)
                  = removeTimerCallback(timers, timers.head[TimerList])
<1> DEFINE q == queue[TimerList]
<1>1. Represents(timers, {TimerList}, Thread, queue)
    BY DEF IInv, QueueSound
<1>2. /\ Len(q) \in Nat /\ \A k \in 1 .. Len(q) : q[k] \in Thread
      /\ timers.head[TimerList] = IF Len(q) = 0 THEN NULL ELSE q[1]
    BY <1>1, Contents
<1> HIDE DEF q
<1>3. 1 \in 1 .. Len(q) /\ timers.head[TimerList] = q[1]
    BY <1>2
<1>4. timers.head[TimerList] \in Members(q) /\ timers.head[TimerList] \in Thread
    BY <1>2, <1>3 DEF Members
<1> QED BY <1>4 DEF RemoveOneFromFront, removeTimerCallback, Timed, q

LEMMA ExpiryKeeps ==
    ASSUME IInv, TimerExpires
    PROVE  IInv' /\ InOrder
<1> DEFINE h == timers.head[TimerList]
<1>1. /\ state' = state /\ currentPriority' = currentPriority /\ counter' = counter
      /\ pJoinedThread' = pJoinedThread /\ timerCallback' = timerCallback /\ current' = current
      /\ waitMonitorDepth' = waitMonitorDepth /\ nesting' = nesting /\ tick' = tick
      /\ reschedulerEnabledIndicator' = reschedulerEnabledIndicator
      /\ h # NULL /\ timers' = RemoveOneFromFront(timers, TimerList) /\ Types
    BY DEF TimerExpires, IInv
<1>2. PICK t \in Thread : t = h /\ t \in Timed
                          /\ RemoveOneFromFront(timers, TimerList) = removeTimerCallback(timers, t)
    BY <1>1, FirstTimed
<1>3. QueueSound' /\ Timed' = Timed \ {t}
    <2>1. TimerQueue(timers, Timed)
        BY QueueRead DEF IInv
    <2>2. TimerQueue(timers', Timed \ {t})
        BY <1>1, <1>2, <2>1, TimerRemoved
    <2> QED BY <2>2, QueueLeft
<1>4. \/ timerCallback[t] = "threadSleepExpired" /\ threadSleepExpired(t)
      \/ timerCallback[t] = "monitorWaitExpired" /\ monitorWaitExpired(t)
    BY <1>2 DEF TimerExpires
<1>5. TimedOut(t) /\ timerCallback[t] = IF activeStatus[t] = "ASLEEP_TIMED_OUT"
                                        THEN "threadSleepExpired" ELSE "monitorWaitExpired"
    BY <1>2 DEF IInv, Clocked
<1>6. CASE t \in On(AsleepList)
    <2>1. NotRunning(AsleepList) /\ AsleepList \in ListNames
        BY NotRunningNames, NamesAreNames
    <2>2. Shows(t, AsleepList)
        BY <1>6, <2>1, OnList DEF IInv
    <2>3. activeStatus[t] = "ASLEEP_TIMED_OUT" /\ pWaitMonitor[t] = NULL
        BY <2>2, ShownByList
    <2>4. threadSleepExpired(t)
        BY <1>4, <1>5, <2>3
    <2>5. PICK k \in 1 .. Len(contents[AsleepList]) : t = contents[AsleepList][k]
        BY <1>6 DEF On, Members
    <2> DEFINE L == addThreadToRunningThreads(RemoveOne(lists, AsleepList, t), t)
    <2>6. noContextSwitch(L)
        BY <1>1, <2>4 DEF threadSleepExpired, noContextSwitch
    <2>7. \E F : /\ Arrived(F, currentPriority)
                 /\ MovesTo(t, RunningAt(currentPriority[t]))
                 /\ Same(contents, F, AsleepList) /\ F[AsleepList] = Without(contents[AsleepList], k)
        BY <2>1, <2>5, <2>6, ThreadWakes
    <2>8. PICK F : /\ Arrived(F, currentPriority)
                   /\ MovesTo(t, RunningAt(currentPriority[t])) /\ Same(contents, F, AsleepList)
        BY <2>7
    <2>9. \A s \in Semaphore : contents'[PendingOn(s)] = contents[PendingOn(s)]
        BY <2>8, NotRunningNames, NamesDiffer DEF Arrived, Same
    <2>10. PendedAreCounted' /\ PendedByPriority' /\ InOrder
        BY <1>1, <2>9, PendedKept
    <2>11. /\ interruptedFlag' = [interruptedFlag EXCEPT ![t] = FALSE]
           /\ activeStatus' = [activeStatus EXCEPT ![t] = "RUNNING"]
           /\ pWaitMonitor' = pWaitMonitor /\ pOwner' = pOwner /\ depth' = depth
        BY <2>4 DEF threadSleepExpired, monitorVars
    <2>12. Types'
        BY <1>1, <2>11 DEF Types, Status
    <2>13. OthersKept(t)
        BY <1>1, <1>3, <2>11 DEF OthersKept, SameThread, SameTimer, Types
    <2>14. activeStatus'[t] = "RUNNING" /\ pWaitMonitor'[t] = NULL
        BY <1>1, <2>3, <2>11 DEF Types
    <2>15. t \notin Timed'
        BY <1>3
    <2>16. IInv'
        BY <1>1, <1>3, <1>6, <2>1, <2>8, <2>10, <2>11, <2>12, <2>13, <2>14, <2>15, WokenKeeps
    <2> QED BY <2>10, <2>16
<1>7. CASE t \notin On(AsleepList)
    <2>1. PICK m \in Monitor : t \in On(WaitingOn(m))
        BY <1>5, <1>7 DEF TimedOut
    <2> DEFINE l == WaitingOn(m)
    <2>2. /\ pWaitMonitor[t] = m /\ AsleepOnMonitor(t)
        BY <2>1, WaiterFacts
    <2>3. monitorWaitExpired(t)
        BY <1>4, <1>5, <2>2 DEF AsleepOnMonitor
    <2>4. NotRunning(l) /\ l \in ListNames /\ NotRunning(BlockedOn(m)) /\ l # BlockedOn(m)
        BY NotRunningNames, NamesAreNames, NamesDiffer
    <2>5. PICK k \in 1 .. Len(contents[l]) : t = contents[l][k]
        BY <2>1 DEF On, Members
    <2>6. t \notin Timed' /\ interruptedFlag' = interruptedFlag
        BY <1>3, <2>3 DEF monitorWaitExpired
    <2>7. CASE /\ pOwner[m] # NULL
               /\ lists' = AddOneToEnd(RemoveOne(lists, l, t), BlockedOn(m), t)
               /\ activeStatus' = [activeStatus EXCEPT ![t] = "BLOCKED_ON_MONITOR"]
               /\ UNCHANGED <<monitorVars, pWaitMonitor>>
        <3>1. pOwner' = pOwner /\ depth' = depth /\ pWaitMonitor' = pWaitMonitor
            BY <2>7 DEF monitorVars
        <3> DEFINE L == AddOneToEnd(RemoveOne(lists, l, t), BlockedOn(m), t)
        <3>2. noContextSwitch(L)
            BY <1>1, <2>7 DEF noContextSwitch
        <3>3. Sound(L, Added(Removed(contents, l, k), BlockedOn(m), contents[l][k]))
            <4>1. Sound(lists, contents)
                BY DEF IInv
            <4>2. Sound(RemoveOne(lists, l, contents[l][k]), Removed(contents, l, k))
                BY <2>4, <4>1, OtherRemoved
            <4>3. Gone(contents, Removed(contents, l, k), contents[l][k])
                BY <2>4, <4>1, Leaves
            <4>4. OnNone(ListNames, Removed(contents, l, k), t)
                BY <2>5, <4>3 DEF Gone
            <4>5. Sound(RemoveOne(lists, l, t), Removed(contents, l, k))
                BY <2>5, <4>2
            <4>6. Sound(L, Added(Removed(contents, l, k), BlockedOn(m), t))
                BY <2>4, <4>4, <4>5, OtherAdded
            <4> QED BY <2>5, <4>6
        <3> HIDE DEF L
        <3>4. \E F : /\ Arrived(F, currentPriority) /\ MovesTo(t, BlockedOn(m))
                     /\ \A j : NotRunning(j) /\ j # l /\ j # BlockedOn(m) => F[j] = contents[j]
            BY <2>5, <3>2, <3>3, WaiterBlocks
        <3>5. PICK F : /\ Arrived(F, currentPriority) /\ MovesTo(t, BlockedOn(m))
                       /\ \A j : NotRunning(j) /\ j # l /\ j # BlockedOn(m) => F[j] = contents[j]
            BY <3>4
        <3>6. \A s \in Semaphore : contents'[PendingOn(s)] = contents[PendingOn(s)]
            BY <3>5, NotRunningNames, NamesDiffer DEF Arrived
        <3>7. PendedAreCounted' /\ PendedByPriority' /\ InOrder
            BY <1>1, <3>6, PendedKept
        <3>8. Types'
            BY <1>1, <2>6, <2>7, <3>1 DEF Types, Status
        <3>9. OthersKept(t)
            BY <1>1, <1>3, <2>7, <3>1 DEF OthersKept, SameThread, SameTimer, Types
        <3>10. activeStatus'[t] = "BLOCKED_ON_MONITOR"
            BY <1>1, <2>7 DEF Types
        <3>11. IInv'
            BY <1>1, <1>3, <2>1, <2>6, <2>7, <3>1, <3>5, <3>7, <3>8, <3>9, <3>10, BlockedKeeps
        <3> QED BY <3>7, <3>11
    <2>8. CASE /\ pOwner[m] = NULL
               /\ acquires(t, m, pWaitMonitor)
               /\ lists' = addThreadToRunningThreads(RemoveOne(lists, l, t), t)
               /\ activeStatus' = [activeStatus EXCEPT ![t] = "RUNNING"]
        <3>1. /\ pOwner' = [pOwner EXCEPT ![m] = t]
              /\ pWaitMonitor' = [pWaitMonitor EXCEPT ![t] = NULL]
              /\ depth' = [depth EXCEPT ![m] = IF pWaitMonitor[t] # NULL THEN waitMonitorDepth[t] ELSE 1]
            BY <2>8 DEF acquires
        <3> DEFINE L == addThreadToRunningThreads(RemoveOne(lists, l, t), t)
        <3>2. noContextSwitch(L)
            BY <1>1, <2>8 DEF noContextSwitch
        <3>3. \E F : /\ Arrived(F, currentPriority)
                     /\ MovesTo(t, RunningAt(currentPriority[t]))
                     /\ Same(contents, F, l) /\ F[l] = Without(contents[l], k)
            BY <2>4, <2>5, <3>2, ThreadWakes
        <3>4. PICK F : /\ Arrived(F, currentPriority)
                       /\ MovesTo(t, RunningAt(currentPriority[t])) /\ Same(contents, F, l)
            BY <3>3
        <3>5. \A s \in Semaphore : contents'[PendingOn(s)] = contents[PendingOn(s)]
            BY <3>4, NotRunningNames, NamesDiffer DEF Arrived, Same
        <3>6. PendedAreCounted' /\ PendedByPriority' /\ InOrder
            BY <1>1, <3>5, PendedKept
        <3>7. Types'
            BY <1>1, <2>6, <2>8, <3>1 DEF Types, Status, ThreadOrNull
        <3>8. OthersKept(t)
            BY <1>1, <1>3, <2>8, <3>1 DEF OthersKept, SameThread, SameTimer, Types
        <3>9. activeStatus'[t] = "RUNNING" /\ pWaitMonitor'[t] = NULL
            BY <1>1, <2>8, <3>1 DEF Types
        <3>10. \A n \in Monitor : pOwner[n] # NULL => pOwner'[n] # NULL
            BY <1>1, <3>1, ThreadFacts DEF Types
        <3>11. IInv'
            BY <1>1, <1>3, <2>1, <2>4, <2>6, <3>4, <3>6, <3>7, <3>8, <3>9, <3>10, WokenKeeps
        <3> QED BY <3>6, <3>11
    <2> QED BY <2>2, <2>3, <2>7, <2>8 DEF monitorWaitExpired
<1> QED BY <1>6, <1>7

-----------------------------------------------------------------------------
(* Semaphores. *)

LEMMA FallingWithout ==
    ASSUME NEW P, NEW s \in Seq(Thread), Falling(P, s), s # <<>>
    PROVE  Falling(P, Without(s, 1))
<1>1. Len(s) \in Nat /\ Len(s) # 0
    OBVIOUS
<1>2. Len(Without(s, 1)) = Len(s) - 1
      /\ \A i \in 1 .. Len(s) - 1 : Without(s, 1)[i] = s[i + 1]
    BY <1>1 DEF Without
<1> SUFFICES ASSUME NEW i \in 1 .. Len(s) - 1, NEW j \in 1 .. Len(s) - 1, i <= j
             PROVE  P[Without(s, 1)[j]] <= P[Without(s, 1)[i]]
    BY <1>2 DEF Falling
<1>3. i + 1 \in 1 .. Len(s) /\ j + 1 \in 1 .. Len(s) /\ i + 1 <= j + 1
    BY <1>1
<1>4. P[s[j + 1]] <= P[s[i + 1]]
    BY <1>3 DEF Falling
<1> QED BY <1>2, <1>4

LEMMA PrioritiesAreNumbers ==
    ASSUME NEW P \in [Thread -> Priorities]
    PROVE  \A u \in Thread : P[u] \in Int
<1>1. \A p \in Priorities : p \in Int
    BY PriorityType
<1> QED BY <1>1

LEMMA SlotOfPriority ==
    ASSUME NEW P \in [Thread -> Priorities], NEW s \in Seq(Thread), Falling(P, s),
           NEW t \in Thread
    PROVE  \E at \in 0 .. Len(s) : \A i \in 1 .. Len(s) : P[t] > P[s[i]] <=> i > at
<1> DEFINE I == {i \in 1 .. Len(s) : P[t] > P[s[i]]}
<1>0. \A u \in Thread : P[u] \in Int
    BY PrioritiesAreNumbers
<1>1. Len(s) \in Nat /\ \A i \in 1 .. Len(s) : s[i] \in Thread /\ P[s[i]] \in Int
    <2>1. Len(s) \in Nat /\ \A i \in 1 .. Len(s) : s[i] \in Thread
        OBVIOUS
    <2> QED BY <1>0, <2>1
<1>2. P[t] \in Int
    BY <1>0
<1>3. CASE I = {}
    <2>1. \A i \in 1 .. Len(s) : ~(P[t] > P[s[i]])
        BY <1>3
    <2>2. \A i \in 1 .. Len(s) : ~(i > Len(s))
        BY <1>1
    <2>3. Len(s) \in 0 .. Len(s)
        BY <1>1
    <2> QED BY <2>1, <2>2, <2>3
<1>4. CASE I # {}
    <2>1. PICK n \in I : \A j \in I : n <= j
        <3>1. I \subseteq Nat
            BY <1>1
        <3> HIDE DEF I
        <3> QED BY <1>4, <3>1, LeastNatural
    <2>2. PICK at \in 0 .. Len(s) : at = n - 1
        BY <1>1
    <2>3. \A i \in 1 .. Len(s) : P[t] > P[s[i]] => i > at
        BY <1>1, <2>1, <2>2
    <2>4. ASSUME NEW i \in 1 .. Len(s), i > at
          PROVE  P[t] > P[s[i]]
        <3>1. n \in 1 .. Len(s) /\ n <= i /\ P[t] > P[s[n]]
            BY <1>1, <2>2, <2>4
        <3>2. P[s[i]] <= P[s[n]]
            BY <3>1 DEF Falling
        <3> QED BY <1>1, <1>2, <3>1, <3>2
    <2> QED BY <2>3, <2>4
<1> QED BY <1>3, <1>4

LEMMA FallingInserted ==
    ASSUME NEW P \in [Thread -> Priorities], NEW s \in Seq(Thread), Falling(P, s),
           NEW t \in Thread, NEW at \in 0 .. Len(s),
           \A i \in 1 .. Len(s) : P[t] > P[s[i]] <=> i > at
    PROVE  Falling(P, Inserted(s, at, t))
<1> DEFINE v == Inserted(s, at, t)
<1>0. \A u \in Thread : P[u] \in Int
    BY PrioritiesAreNumbers
<1>1. Len(s) \in Nat /\ \A i \in 1 .. Len(s) : s[i] \in Thread /\ P[s[i]] \in Int
    <2>1. Len(s) \in Nat /\ \A i \in 1 .. Len(s) : s[i] \in Thread
        OBVIOUS
    <2> QED BY <1>0, <2>1
<1>2. P[t] \in Int
    BY <1>0
<1>3. /\ Len(v) = Len(s) + 1
      /\ \A i \in 1 .. Len(s) + 1 :
             v[i] = IF i <= at THEN s[i] ELSE IF i = at + 1 THEN t ELSE s[i - 1]
    BY InsertedOne
<1> HIDE DEF v
<1>4. \A i, j \in 1 .. Len(s) : i <= j => P[s[j]] <= P[s[i]]
    BY DEF Falling
<1> SUFFICES ASSUME NEW i \in 1 .. Len(s) + 1, NEW j \in 1 .. Len(s) + 1, i <= j
             PROVE  P[v[j]] <= P[v[i]]
    BY <1>3 DEF Falling, v
<1>5. CASE j <= at
    <2>1. i \in 1 .. Len(s) /\ j \in 1 .. Len(s) /\ v[i] = s[i] /\ v[j] = s[j]
        BY <1>1, <1>3, <1>5
    <2> QED BY <1>4, <2>1
<1>6. CASE i <= at /\ j = at + 1
    <2>1. i \in 1 .. Len(s) /\ v[i] = s[i] /\ v[j] = t /\ ~(i > at)
        BY <1>1, <1>3, <1>6
    <2> QED BY <1>1, <1>2, <2>1
<1>7. CASE i <= at /\ j > at + 1
    <2>1. PICK b \in 1 .. Len(s) : b = j - 1
        BY <1>1, <1>7
    <2>2. i \in 1 .. Len(s) /\ v[i] = s[i] /\ v[j] = s[b] /\ i <= b
        BY <1>1, <1>3, <1>7, <2>1
    <2> QED BY <1>4, <2>2
<1>8. CASE i = at + 1 /\ j = at + 1
    <2>1. v[i] = t /\ v[j] = t
        BY <1>1, <1>3, <1>8
    <2> QED BY <1>2, <2>1
<1>9. CASE i = at + 1 /\ j > at + 1
    <2>1. PICK b \in 1 .. Len(s) : b = j - 1
        BY <1>1, <1>9
    <2>2. v[i] = t /\ v[j] = s[b] /\ b > at
        BY <1>1, <1>3, <1>9, <2>1
    <2> QED BY <1>1, <1>2, <2>2
<1>10. CASE i > at + 1 /\ j > at + 1
    <2>1. PICK b \in 1 .. Len(s) : b = j - 1
        BY <1>1, <1>10
    <2>2. PICK a \in 1 .. Len(s) : a = i - 1
        BY <1>1, <1>10
    <2>3. v[i] = s[a] /\ v[j] = s[b] /\ a <= b
        BY <1>1, <1>3, <1>10, <2>1, <2>2
    <2> QED BY <1>4, <2>3
<1> QED BY <1>1, <1>5, <1>6, <1>7, <1>8, <1>9, <1>10

\* The queue of one semaphore and its counter change.
LEMMA OnePended ==
    ASSUME IInv, NEW s \in Semaphore, counter' = [counter EXCEPT ![s] = counter'[s]],
           currentPriority' = currentPriority,
           \A r \in Semaphore : r # s => contents'[PendingOn(r)] = contents[PendingOn(r)],
           Len(contents'[PendingOn(s)]) = IF counter'[s] < 0 THEN -counter'[s] ELSE 0,
           Falling(currentPriority, contents'[PendingOn(s)]),
           \/ On(PendingOn(s)) \subseteq On(PendingOn(s))'
           \/ contents'[PendingOn(s)] = Without(contents[PendingOn(s)], 1)
    PROVE  PendedAreCounted' /\ PendedByPriority' /\ InOrder
<1>1. \A r \in Semaphore : r # s => counter'[r] = counter[r]
    BY DEF IInv, Types
<1>2. PendedAreCounted'
    BY <1>1 DEF IInv, PendedAreCounted
<1>3. PendedByPriority'
    BY DEF IInv, PendedByPriority, Falling
<1>4. InOrder
    BY DEF InOrder, On
<1> QED BY <1>2, <1>3, <1>4

LEMMA PendedFacts ==
    ASSUME IInv, NEW s \in Semaphore
    PROVE  /\ Len(contents[PendingOn(s)]) = IF counter[s] < 0 THEN -counter[s] ELSE 0
           /\ Falling(currentPriority, contents[PendingOn(s)])
           /\ contents[PendingOn(s)] \in Seq(Thread)
           /\ counter[s] \in Int
<1>1. Len(contents[PendingOn(s)]) = IF counter[s] < 0 THEN -counter[s] ELSE 0
    BY DEF IInv, PendedAreCounted
<1>2. Falling(currentPriority, contents[PendingOn(s)])
    BY DEF IInv, PendedByPriority
<1>3. contents \in [ListNames -> Seq(Thread)] /\ PendingOn(s) \in ListNames
    BY NamesAreNames DEF IInv, Sound, Pointers, Represents
<1>4. counter[s] \in Int
    BY DEF IInv, Types
<1> QED BY <1>1, <1>2, <1>3, <1>4

LEMMA PostKeeps ==
    ASSUME IInv, NEW s \in Semaphore, SemaphorePost(s)
    PROVE  Kept
<1> DEFINE l == PendingOn(s)
<1>1. /\ state' = state /\ currentPriority' = currentPriority /\ timers' = timers
      /\ timerCallback' = timerCallback /\ pOwner' = pOwner /\ interruptedFlag' = interruptedFlag
      /\ pJoinedThread' = pJoinedThread /\ pWaitMonitor' = pWaitMonitor
      /\ counter' = [counter EXCEPT ![s] = @ + 1] /\ Types
    BY DEF SemaphorePost, waitVars, timerVars, monitorVars, IInv
<1>2. counter[s] \in Int /\ counter'[s] = counter[s] + 1
      /\ counter' = [counter EXCEPT ![s] = counter'[s]]
    BY <1>1 DEF Types
<1>3. QueueSound' /\ Timed' = Timed
    BY <1>1, TimersKept
<1>4. /\ l \in ListNames /\ NotRunning(l)
      /\ \A r \in Semaphore : PendingOn(r) \in ListNames /\ (r # s => PendingOn(r) # l)
    BY NotRunningNames, NamesAreNames, NamesDiffer
<1>5. /\ Len(contents[l]) = IF counter[s] < 0 THEN -counter[s] ELSE 0
      /\ Falling(currentPriority, contents[l]) /\ contents[l] \in Seq(Thread)
    BY PendedFacts
<1>6. CASE ~PostReleases(s) /\ UNCHANGED <<current, lists, activeStatus>>
    <2>1. Arrived(contents, currentPriority) /\ contents' = contents /\ StaysHighest
        BY <1>6, ListsUnchanged
    <2>2. On(PendingOn(s))' = On(PendingOn(s))
        BY <2>1 DEF On
    <2>3. Len(contents'[l]) = IF counter'[s] < 0 THEN -counter'[s] ELSE 0
        BY <1>2, <1>5, <1>6, <2>1 DEF PostReleases
    <2>4. Falling(currentPriority, contents'[l])
          /\ \A r \in Semaphore : r # s => contents'[PendingOn(r)] = contents[PendingOn(r)]
        BY <1>5, <2>1
    <2>5. PendedAreCounted' /\ PendedByPriority' /\ InOrder
        BY <1>1, <1>2, <2>2, <2>3, <2>4, OnePended
    <2>6. Types'
        BY <1>1, <1>2, <1>6 DEF SemaphorePost, Types, waitVars, monitorVars
    <2>7. \A u \in Thread : SameThread(u) /\ SameTimer(u)
        BY <1>1, <1>3, <1>6 DEF SameThread, SameTimer
    <2>8. IInv'
        BY <1>1, <1>3, <2>1, <2>5, <2>6, <2>7, NoneMoves DEF NoneIsKept
    <2> QED BY <2>1, <2>5, <2>8 DEF Kept
<1>7. CASE PostReleases(s)
    <2>1. contents[l] # <<>> /\ Len(contents[l]) = -counter[s]
        BY <1>2, <1>5, <1>7 DEF PostReleases
    <2>2. PICK t \in Thread : t = lists.head[l] /\ t = contents[l][1] /\ 1 \in 1 .. Len(contents[l])
                              /\ t \in On(l) /\ lists.head[l] # NULL
        BY <1>4, <2>1, FrontRead
    <2> DEFINE L == addThreadToRunningThreads(RemoveOne(lists, l, t), t)
    <2>3. conditionalContextSwitch(L, currentPriority)
          /\ activeStatus' = [activeStatus EXCEPT ![t] = "RUNNING"]
        BY <1>7, <2>2 DEF SemaphorePost, RemoveOneFromFront
    <2>4. /\ OnHighest'
          /\ \E F : /\ Arrived(F, currentPriority)
                    /\ MovesTo(t, RunningAt(currentPriority[t]))
                    /\ Same(contents, F, l) /\ F[l] = Without(contents[l], 1)
        BY <1>4, <2>2, <2>3, ThreadWakes
    <2> HIDE DEF L
    <2>5. PICK F : /\ Arrived(F, currentPriority)
                   /\ MovesTo(t, RunningAt(currentPriority[t]))
                   /\ Same(contents, F, l) /\ F[l] = Without(contents[l], 1)
        BY <2>4
    <2>6. contents'[l] = Without(contents[l], 1)
          /\ \A r \in Semaphore : r # s => contents'[PendingOn(r)] = contents[PendingOn(r)]
        BY <1>4, <2>5, NotRunningNames DEF Arrived, Same
    <2>7. Len(contents'[l]) = IF counter'[s] < 0 THEN -counter'[s] ELSE 0
        <3>1. Len(Without(contents[l], 1)) = Len(contents[l]) - 1
            BY <1>5, <2>2, WithoutOne
        <3> QED BY <1>2, <1>7, <2>1, <2>6, <3>1 DEF PostReleases
    <2>8. Falling(currentPriority, contents'[l])
        BY <1>5, <2>1, <2>6, FallingWithout
    <2>9. PendedAreCounted' /\ PendedByPriority' /\ InOrder
        BY <1>1, <1>2, <2>6, <2>7, <2>8, OnePended
    <2>10. Types'
        <3>1. current' \in Thread
            BY <2>5 DEF Arrived
        <3> QED BY <1>1, <1>2, <2>3, <3>1 DEF SemaphorePost, Types, waitVars, monitorVars, Status
    <2>11. OthersKept(t)
        BY <1>1, <1>3, <2>3 DEF OthersKept, SameThread, SameTimer, Types
    <2>12. activeStatus'[t] = "RUNNING" /\ pWaitMonitor'[t] = NULL
        <3>1. Shows(t, l)
            BY <1>4, <2>2, OnList DEF IInv
        <3>2. pWaitMonitor[t] = NULL
            BY <3>1, ShownByList
        <3> QED BY <1>1, <2>3, <3>2 DEF Types
    <2>13. t \notin Timed'
        BY <1>3, <1>4, <2>2, NotTimed, NamesDiffer
    <2>14. IInv'
        BY <1>1, <1>3, <1>4, <2>2, <2>5, <2>9, <2>10, <2>11, <2>12, <2>13, WokenKeeps
    <2> QED BY <2>4, <2>9, <2>14 DEF Kept, StaysHighest
<1> QED BY <1>6, <1>7 DEF SemaphorePost

\* The current thread goes to its place in the queue of a semaphore.
LEMMA CurrentPends ==
    ASSUME IInv, NEW s \in Semaphore, NEW t \in Thread, t = current, current # IdleThread,
           generatedContextSwitch(moveCurrentThreadToSemaphoreQueue(lists, s))
    PROVE  /\ OnHighest'
           /\ \E F : /\ Arrived(F, currentPriority) /\ MovesTo(t, PendingOn(s))
                     /\ Same(contents, F, PendingOn(s))
                     /\ Len(F[PendingOn(s)]) = Len(contents[PendingOn(s)]) + 1
                     /\ Falling(currentPriority, F[PendingOn(s)])
<1> DEFINE l == PendingOn(s)
           q == contents[l]
           later == {u \in Thread : currentPriority[t] > currentPriority[u]}
<1>1. l \in ListNames /\ NotRunning(l)
    BY NotRunningNames, NamesAreNames
<1>2. Falling(currentPriority, q) /\ q \in Seq(Thread) /\ currentPriority \in [Thread -> Priorities]
    BY PendedFacts DEF IInv, Types
<1>3. Sound(lists, contents) /\ First(contents, currentPriority, current)
    BY DEF IInv, CurrentIsFirst
<1>4. PICK G : /\ Sound(removeCurrentThreadFromRunningThreads(lists), G)
               /\ Gone(contents, G, current) /\ \A j : NotRunning(j) => G[j] = contents[j]
    BY <1>3, CurrentRemoved
<1>5. G[l] = q /\ OnNone(ListNames, G, t) /\ G \in [ListNames -> Seq(Thread)]
    BY <1>1, <1>4 DEF Gone, Sound, Pointers, Represents
<1>6. PICK at \in 0 .. Len(q) :
          \A i \in 1 .. Len(q) : currentPriority[t] > currentPriority[q[i]] <=> i > at
    BY <1>2, SlotOfPriority
<1>7. \A i \in 1 .. Len(q) : q[i] \in later <=> i > at
    <2>1. \A i \in 1 .. Len(q) : q[i] \in Thread
        BY <1>2
    <2> QED BY <1>6, <2>1
<1> DEFINE F == AddedAt(G, l, at, t)
           L == moveCurrentThreadToSemaphoreQueue(lists, s)
<1>8. Sound(L, F)
    <2> DEFINE M == removeCurrentThreadFromRunningThreads(lists)
    <2>1. L = AddOneSorted(M, l, t, later)
        BY DEF moveCurrentThreadToSemaphoreQueue
    <2>2. Sound(M, G) /\ at \in 0 .. Len(G[l])
        BY <1>4, <1>5
    <2>3. \A i \in 1 .. Len(G[l]) : G[l][i] \in later <=> i > at
        BY <1>5, <1>7
    <2> HIDE DEF M, later, L, l, q
    <2>4. NotRunning(l)
        BY <1>1
    <2>5. OnNone(ListNames, G, t)
        BY <1>5
    <2>6. Sound(AddOneSorted(M, l, t, later), AddedAt(G, l, at, t))
        BY <2>2, <2>3, <2>4, <2>5, OtherSorted
    <2> QED BY <2>1, <2>6
<1>9. /\ Len(Inserted(q, at, t)) = Len(q) + 1
      /\ Members(Inserted(q, at, t)) = Members(q) \cup {t}
    <2> HIDE DEF q
    <2>1. q \in Seq(Thread) /\ at \in 0 .. Len(q) /\ t \in Thread
        BY <1>2, <1>6
    <2> QED BY <2>1, InsertedOne
<1>10. \A j \in ListNames : F[j] = IF j = l THEN Inserted(q, at, t) ELSE G[j]
    BY <1>1, <1>5 DEF AddedAt
<1>11. Falling(currentPriority, Inserted(q, at, t))
    BY <1>2, <1>6, FallingInserted
<1> HIDE DEF F, L, q
<1>12. \A j \in ListNames : Members(F[j]) = IF j = l THEN On(j) \cup {t} ELSE On(j) \ {t}
    BY <1>1, <1>4, <1>9, <1>10 DEF Gone, On, q
<1>13. ByPriority(F, currentPriority)
    <2>1. \A p \in Priorities : Members(F[RunningAt(p)]) \subseteq Members(contents[RunningAt(p)])
        BY <1>1, <1>12, NamesAreNames DEF NotRunning, On
    <2> QED BY <2>1, RunningByPriority DEF ByPriority
<1>14. NonEmpty(F) # {}
    <2>1. currentPriority[IdleThread] \in Priorities
          /\ IdleThread \in On(RunningAt(currentPriority[IdleThread]))
          /\ RunningAt(currentPriority[IdleThread]) \in ListNames
        BY CurrentFacts, NamesAreNames
    <2>2. IdleThread \in Members(F[RunningAt(currentPriority[IdleThread])])
        BY <1>1, <1>12, <2>1 DEF NotRunning
    <2> QED BY <1>8, <2>1, <2>2, IdleKeeps
<1>15. Arrived(F, currentPriority) /\ OnHighest'
    BY <1>8, <1>13, <1>14, Generated DEF L
<1>16. MovesTo(t, l)
    <2>1. \A j \in ListNames : On(j)' = Members(F[j])
        BY <1>15 DEF Arrived, On
    <2> QED BY <1>12, <2>1 DEF MovesTo
<1>17. Same(contents, F, l)
    BY <1>4, <1>10 DEF Same, NotRunning
<1>18. Len(F[l]) = Len(contents[l]) + 1 /\ Falling(currentPriority, F[l])
    BY <1>1, <1>9, <1>10, <1>11 DEF q
<1> QED BY <1>15, <1>16, <1>17, <1>18

LEMMA PendKeeps ==
    ASSUME IInv, NEW s \in Semaphore, SemaphorePend(s)
    PROVE  Kept
<1> DEFINE l == PendingOn(s)
<1>1. /\ state' = state /\ currentPriority' = currentPriority /\ timers' = timers
      /\ timerCallback' = timerCallback /\ pOwner' = pOwner /\ interruptedFlag' = interruptedFlag
      /\ pJoinedThread' = pJoinedThread /\ pWaitMonitor' = pWaitMonitor
      /\ counter' = [counter EXCEPT ![s] = @ - 1] /\ current # IdleThread /\ Types
    BY DEF SemaphorePend, waitVars, timerVars, monitorVars, Calls, IInv
<1>2. counter[s] \in Int /\ counter'[s] = counter[s] - 1
      /\ counter' = [counter EXCEPT ![s] = counter'[s]]
    BY <1>1 DEF Types
<1>3. QueueSound' /\ Timed' = Timed
    BY <1>1, TimersKept
<1>4. l \in ListNames /\ NotRunning(l) /\ \A r \in Semaphore : r # s => PendingOn(r) # l
    BY NotRunningNames, NamesAreNames, NamesDiffer
<1>5. /\ Len(contents[l]) = IF counter[s] < 0 THEN -counter[s] ELSE 0
      /\ Falling(currentPriority, contents[l])
    BY PendedFacts
<1>6. CASE counter[s] > 0 /\ UNCHANGED <<current, lists, activeStatus>>
    <2>1. Arrived(contents, currentPriority) /\ contents' = contents /\ StaysHighest
        BY <1>6, ListsUnchanged
    <2>2. On(PendingOn(s))' = On(PendingOn(s))
        BY <2>1 DEF On
    <2>3. Len(contents'[l]) = IF counter'[s] < 0 THEN -counter'[s] ELSE 0
        BY <1>2, <1>5, <1>6, <2>1
    <2>4. Falling(currentPriority, contents'[l])
          /\ \A r \in Semaphore : r # s => contents'[PendingOn(r)] = contents[PendingOn(r)]
        BY <1>5, <2>1
    <2>5. PendedAreCounted' /\ PendedByPriority' /\ InOrder
        BY <1>1, <1>2, <2>2, <2>3, <2>4, OnePended
    <2>6. Types'
        BY <1>1, <1>2, <1>6 DEF SemaphorePend, Types, waitVars, monitorVars
    <2>7. \A u \in Thread : SameThread(u) /\ SameTimer(u)
        BY <1>1, <1>3, <1>6 DEF SameThread, SameTimer
    <2>8. IInv'
        BY <1>1, <1>3, <2>1, <2>5, <2>6, <2>7, NoneMoves DEF NoneIsKept
    <2> QED BY <2>1, <2>5, <2>8 DEF Kept
<1>7. CASE /\ counter[s] <= 0
           /\ activeStatus' = [activeStatus EXCEPT ![current] = "BLOCKED_ON_SEMAPHORE"]
           /\ generatedContextSwitch(moveCurrentThreadToSemaphoreQueue(lists, s))
    <2>1. PICK t \in Thread : t = current
        BY <1>1 DEF Types
    <2>2. PICK F : /\ Arrived(F, currentPriority) /\ MovesTo(t, l) /\ OnHighest'
                   /\ Same(contents, F, l)
                   /\ Len(F[l]) = Len(contents[l]) + 1 /\ Falling(currentPriority, F[l])
        BY <1>1, <1>7, <2>1, CurrentPends
    <2>3. contents'[l] = F[l]
          /\ \A r \in Semaphore : r # s => contents'[PendingOn(r)] = contents[PendingOn(r)]
        BY <1>4, <2>2, NotRunningNames DEF Arrived, Same
    <2>4. Len(contents'[l]) = IF counter'[s] < 0 THEN -counter'[s] ELSE 0
        BY <1>2, <1>5, <1>7, <2>2, <2>3
    <2>5. Falling(currentPriority, contents'[l])
        BY <2>2, <2>3
    <2>6. On(PendingOn(s)) \subseteq On(PendingOn(s))'
        BY <1>4, <2>2 DEF MovesTo
    <2>7. PendedAreCounted' /\ PendedByPriority' /\ InOrder
        BY <1>1, <1>2, <2>3, <2>4, <2>5, <2>6, OnePended
    <2>8. Types'
        <3>1. current' \in Thread
            BY <2>2 DEF Arrived
        <3> QED BY <1>1, <1>2, <1>7, <3>1 DEF SemaphorePend, Types, waitVars, monitorVars, Status
    <2>9. OthersKept(t)
        BY <1>1, <1>3, <1>7, <2>1 DEF OthersKept, SameThread, SameTimer, Types
    <2>10. Active(t) /\ pWaitMonitor[t] = NULL /\ activeStatus'[t] = "BLOCKED_ON_SEMAPHORE"
        BY <1>1, <1>7, <2>1, CurrentFacts DEF Types
    <2>11. Active(t)' /\ Shows(t, l)'
        BY <1>1, <2>10 DEF Active, Shows, ShowsOther
    <2>12. Clocked(t)'
        <3>1. t \notin Timed'
            BY <1>3, <2>1, CurrentNotTimed
        <3> QED BY <1>4, <2>2, <3>1, NamesDiffer, ClockStopped
    <2>13. MoveIsKept(t, l)
        BY <1>1, <1>3, <2>1, <2>7, <2>8, <2>9, <2>11, <2>12, NamesDiffer DEF MoveIsKept, OwnersStay
    <2>14. IInv'
        BY <1>1, <1>4, <2>2, <2>13, OneMoves
    <2> QED BY <2>2, <2>7, <2>14 DEF Kept, StaysHighest
<1> QED BY <1>6, <1>7 DEF SemaphorePend

-----------------------------------------------------------------------------
(* Starting a thread. *)

LEMMA ScheduleKeeps ==
    ASSUME IInv, NEW t \in Thread, NEW m \in Monitor \cup {NULL}, ScheduleNewThread(t, m)
    PROVE  IInv' /\ InOrder
<1>1. /\ state' = [state EXCEPT ![t] = "ACTIVE"] /\ state[t] = "NOT_STARTED"
      /\ current' = current /\ interruptedFlag' = interruptedFlag
      /\ pJoinedThread' = pJoinedThread /\ currentPriority' = currentPriority
      /\ pWaitMonitor' = pWaitMonitor /\ waitMonitorDepth' = waitMonitorDepth
      /\ timers' = timers /\ timerCallback' = timerCallback /\ counter' = counter
      /\ reschedulerEnabledIndicator' = reschedulerEnabledIndicator /\ tick' = tick
      /\ Types
    BY DEF ScheduleNewThread, waitVars, timerVars, IInv
<1>2. QueueSound' /\ Timed' = Timed
    BY <1>1, TimersKept
<1>3. ~Active(t) /\ OnNone(ListNames, contents, t) /\ pWaitMonitor[t] = NULL
    BY <1>1, NotActive DEF Active
<1>4. t # IdleThread /\ t \notin Timed
    <2>1. ~TimedOut(t)
        BY <1>3, NamesAreNames DEF TimedOut, On, OnNone, IInv, Placed, AsleepOnMonitor
    <2> QED BY <1>3, <2>1 DEF IInv, IdleIsReady, Clocked
<1>5. /\ Sound(lists, contents) /\ current \in Thread
      /\ First(contents, currentPriority, current) /\ currentPriority[current] \in Priorities
    BY CurrentFacts DEF IInv, CurrentIsFirst
<1>6. CASE /\ activeStatus' = [activeStatus EXCEPT ![t] = "RUNNING"]
           /\ lists' = addThreadToRunningThreads(lists, t)
           /\ \/ UNCHANGED <<monitorVars, nesting>>
              \/ /\ m \in Monitor /\ pOwner' = [pOwner EXCEPT ![m] = t]
                 /\ depth' = [depth EXCEPT ![m] = 1] /\ nesting' = [nesting EXCEPT ![t][m] = 1]
    <2> DEFINE L == addThreadToRunningThreads(lists, t)
    <2>1. PICK F : /\ Sound(L, F) /\ Goes(contents, F, t, RunningAt(currentPriority[t]))
                   /\ \A j : NotRunning(j) => F[j] = contents[j]
                   /\ \A p \in Priorities : contents[RunningAt(p)] # <<>> =>
                         F[RunningAt(p)] # <<>> /\ F[RunningAt(p)][1] = contents[RunningAt(p)][1]
        BY <1>1, <1>3, <1>5, MadeRunnable
    <2>2. First(F, currentPriority, current)
        BY <1>5, <2>1, FirstKept
    <2>3. noContextSwitch(L)
        BY <1>1, <1>6 DEF noContextSwitch
    <2> HIDE DEF L
    <2>4. Arrived(F, currentPriority)
        BY <1>5, <2>1, <2>2, <2>3, NoSwitch
    <2>5. PICK r \in ListNames : r = RunningAt(currentPriority[t])
        BY <1>1, NamesAreNames DEF Types
    <2>6. MovesTo(t, r)
        BY <2>1, <2>4, <2>5, ArrivedOn
    <2>7. \A s \in Semaphore : contents'[PendingOn(s)] = contents[PendingOn(s)]
        BY <2>1, <2>4, NotRunningNames DEF Arrived
    <2>8. PendedAreCounted' /\ PendedByPriority' /\ InOrder
        BY <1>1, <2>7, PendedKept
    <2>9. Types'
        <3>1. pOwner' \in [Monitor -> ThreadOrNull] /\ depth' \in [Monitor -> Nat]
              /\ nesting' \in [Thread -> [Monitor -> Nat]]
            <4>1. CASE UNCHANGED <<monitorVars, nesting>>
                BY <1>1, <4>1 DEF Types, monitorVars
            <4>2. CASE /\ m \in Monitor /\ pOwner' = [pOwner EXCEPT ![m] = t]
                       /\ depth' = [depth EXCEPT ![m] = 1]
                       /\ nesting' = [nesting EXCEPT ![t][m] = 1]
                <5>1. pOwner' \in [Monitor -> ThreadOrNull] /\ depth' \in [Monitor -> Nat]
                    BY <1>1, <4>2 DEF Types, ThreadOrNull
                <5>2. nesting' \in [Thread -> [Monitor -> Nat]]
                    BY <1>1, <4>2 DEF Types
                <5> QED BY <5>1, <5>2
            <4> QED BY <1>6, <4>1, <4>2
        <3> QED BY <1>1, <1>6, <3>1 DEF Types, Status
    <2>10. OthersKept(t)
        BY <1>1, <1>2, <1>6 DEF OthersKept, SameThread, SameTimer, Types
    <2>11. Active(t)' /\ activeStatus'[t] = "RUNNING" /\ pWaitMonitor'[t] = NULL
        BY <1>1, <1>3, <1>6 DEF Active, Types
    <2>12. Shows(t, r)'
        BY <1>1, <2>5, <2>11 DEF Shows, ShowsOther
    <2>13. Clocked(t)'
        BY <1>2, <1>4, <2>5, <2>6, NamesDiffer, ClockStopped
    <2>14. OwnersStay(r)
        BY <1>1, <1>6, <2>5, NamesDiffer, ThreadFacts DEF OwnersStay, Types, monitorVars
    <2>15. MoveIsKept(t, r)
        BY <1>2, <1>4, <2>5, <2>8, <2>9, <2>10, <2>11, <2>12, <2>13, <2>14, NamesDiffer DEF MoveIsKept
    <2>16. IInv'
        BY <1>1, <2>4, <2>6, <2>15, OneMoves
    <2> QED BY <2>8, <2>16
<1>7. CASE /\ m \in Monitor /\ pOwner[m] # NULL
           /\ nesting' = [nesting EXCEPT ![t][m] = 1]
           /\ activeStatus' = [activeStatus EXCEPT ![t] = "BLOCKED_ON_MONITOR"]
           /\ lists' = AddOneToEnd(lists, BlockedOn(m), t)
           /\ UNCHANGED monitorVars
    <2> DEFINE to == BlockedOn(m)
               L == AddOneToEnd(lists, to, t)
               F == Added(contents, to, t)
    <2>1. to \in ListNames /\ NotRunning(to)
        BY <1>7, NotRunningNames, NamesAreNames
    <2>2. Sound(L, F)
        BY <1>3, <1>5, <2>1, OtherAdded
    <2>3. \A j \in ListNames :
              /\ F[j] = IF j = to THEN Append(contents[j], t) ELSE contents[j]
              /\ Members(F[j]) = IF j = to THEN Members(contents[j]) \cup {t} ELSE Members(contents[j])
        <3>1. contents \in [ListNames -> Seq(Thread)]
            BY <1>5 DEF Sound, Pointers, Represents
        <3> QED BY <2>1, <3>1, Joins
    <2> HIDE DEF F
    <2>4. Goes(contents, F, t, to) /\ \A j : NotRunning(j) /\ j # to => F[j] = contents[j]
        BY <1>3, <2>3 DEF Goes, OnNone, NotRunning
    <2>5. First(F, currentPriority, current)
        BY <1>5, <2>1, <2>3, NamesAreNames DEF First, NotRunning
    <2>6. noContextSwitch(L)
        BY <1>1, <1>7 DEF noContextSwitch
    <2> HIDE DEF L
    <2>7. Arrived(F, currentPriority)
        BY <1>5, <2>2, <2>5, <2>6, NoSwitch
    <2>8. MovesTo(t, to)
        BY <2>4, <2>7, ArrivedOn
    <2>9. \A s \in Semaphore : contents'[PendingOn(s)] = contents[PendingOn(s)]
        BY <2>4, <2>7, NotRunningNames, NamesDiffer DEF Arrived
    <2>10. PendedAreCounted' /\ PendedByPriority' /\ InOrder
        BY <1>1, <2>9, PendedKept
    <2>11. pOwner' = pOwner /\ depth' = depth
        BY <1>7 DEF monitorVars
    <2>12. Types'
        BY <1>1, <1>7, <2>11 DEF Types, Status
    <2>13. OthersKept(t)
        BY <1>1, <1>2, <1>7 DEF OthersKept, SameThread, SameTimer, Types
    <2>14. Active(t)' /\ activeStatus'[t] = "BLOCKED_ON_MONITOR" /\ pWaitMonitor'[t] = NULL
        BY <1>1, <1>3, <1>7 DEF Active, Types
    <2>15. Shows(t, to)'
        BY <1>7, <2>14 DEF Shows, ShowsMonitor
    <2>16. Clocked(t)'
        BY <1>2, <1>4, <2>1, <2>8, NamesDiffer, ClockStopped
    <2>17. OwnersStay(to)
        BY <1>7, <2>11, NamesDiffer DEF OwnersStay
    <2>18. MoveIsKept(t, to)
        BY <1>2, <1>4, <2>10, <2>12, <2>13, <2>14, <2>15, <2>16, <2>17, NamesDiffer DEF MoveIsKept
    <2>19. IInv'
        BY <1>1, <2>1, <2>7, <2>8, <2>18, OneMoves
    <2> QED BY <2>10, <2>19
<1> QED BY <1>1, <1>6, <1>7 DEF ScheduleNewThread

-----------------------------------------------------------------------------
(* Interrupting a thread, and its priority. *)

LEMMA InterruptKeeps ==
    ASSUME IInv, Disciplined, NEW t \in Thread, InterruptThread(t)
    PROVE  Kept
<1>1. /\ state' = state /\ pJoinedThread' = pJoinedThread /\ currentPriority' = currentPriority
      /\ waitMonitorDepth' = waitMonitorDepth /\ timerCallback' = timerCallback
      /\ counter' = counter /\ nesting' = nesting /\ tick' = tick
      /\ reschedulerEnabledIndicator' = reschedulerEnabledIndicator
      /\ interruptedFlag' = [interruptedFlag EXCEPT ![t] = TRUE]
      /\ t # IdleThread /\ state[t] # "NOT_STARTED" /\ MayInterrupt(t) /\ Types
    BY DEF InterruptThread, IInv
<1>2. {"CarefulInterrupt", "LetSleep"} \subseteq Disciplines
    BY DEF InterruptThread, Calls, Disciplined
<1>3. activeStatus[t] # "ASLEEP_TIMED_OUT"
    BY <1>1, <1>2 DEF MayInterrupt
<1>4. Placed(t) /\ NULL \notin Monitor
    BY SchedulerAssumption DEF IInv
<1>5. Active(t) \/ activeStatus[t] = "RUNNING"
    BY <1>1, <1>4 DEF Placed, Active, Types
<1>6. CASE InterruptOther(t)
    <2>1. /\ lists' = lists /\ current' = current /\ activeStatus' = activeStatus
          /\ timers' = timers /\ pOwner' = pOwner /\ depth' = depth /\ pWaitMonitor' = pWaitMonitor
        BY <1>6 DEF InterruptOther, monitorVars
    <2>2. Arrived(contents, currentPriority) /\ contents' = contents /\ StaysHighest
        BY <2>1, ListsUnchanged
    <2>3. PendedAreCounted' /\ PendedByPriority' /\ InOrder
        BY <1>1, <2>2, PendedKept
    <2>4. QueueSound' /\ Timed' = Timed
        BY <2>1, TimersKept
    <2>5. Types'
        BY <1>1, <2>1 DEF Types
    <2>6. \A u \in Thread : SameThread(u) /\ SameTimer(u)
        BY <1>1, <2>1, <2>4 DEF SameThread, SameTimer
    <2>7. IInv'
        BY <1>1, <2>1, <2>2, <2>3, <2>4, <2>5, <2>6, NoneMoves DEF NoneIsKept
    <2> QED BY <2>2, <2>3, <2>7 DEF Kept
<1>7. CASE InterruptJoiner(t)
    <2>1. /\ activeStatus[t] = "BLOCKED_ON_THREAD_DEATH"
          /\ activeStatus' = [activeStatus EXCEPT ![t] = "RUNNING"]
          /\ timers' = timers /\ pOwner' = pOwner /\ depth' = depth /\ pWaitMonitor' = pWaitMonitor
        BY <1>7 DEF InterruptJoiner, monitorVars
    <2>2. Active(t)
        BY <1>5, <2>1
    <2>3. PICK u \in Thread : u = pJoinedThread[t] /\ t \in On(Joining(u))
        BY <1>4, <2>1, <2>2, WithStatus
    <2> DEFINE l == Joining(u)
    <2>4. NotRunning(l) /\ l \in ListNames
        BY NotRunningNames, NamesAreNames
    <2>5. PICK k \in 1 .. Len(contents[l]) : t = contents[l][k]
        BY <2>3 DEF On, Members
    <2> DEFINE L == addThreadToRunningThreads(RemoveOne(lists, l, t), t)
    <2>6. conditionalContextSwitch(L, currentPriority)
        BY <1>7, <2>3 DEF InterruptJoiner
    <2>7. /\ OnHighest'
          /\ \E F : /\ Arrived(F, currentPriority)
                    /\ MovesTo(t, RunningAt(currentPriority[t]))
                    /\ Same(contents, F, l) /\ F[l] = Without(contents[l], k)
        BY <2>4, <2>5, <2>6, ThreadWakes
    <2> HIDE DEF L
    <2>8. PICK F : /\ Arrived(F, currentPriority)
                   /\ MovesTo(t, RunningAt(currentPriority[t])) /\ Same(contents, F, l)
        BY <2>7
    <2>9. \A s \in Semaphore : contents'[PendingOn(s)] = contents[PendingOn(s)]
        BY <2>8, NotRunningNames, NamesDiffer DEF Arrived, Same
    <2>10. PendedAreCounted' /\ PendedByPriority' /\ InOrder
        BY <1>1, <2>9, PendedKept
    <2>11. QueueSound' /\ Timed' = Timed
        BY <2>1, TimersKept
    <2>12. Types'
        <3>1. current' \in Thread
            BY <2>8 DEF Arrived
        <3> QED BY <1>1, <2>1, <3>1 DEF Types, Status
    <2>13. OthersKept(t)
        BY <1>1, <2>1, <2>11 DEF OthersKept, SameThread, SameTimer, Types
    <2>14. activeStatus'[t] = "RUNNING" /\ pWaitMonitor'[t] = NULL
        <3>1. Shows(t, l)
            BY <2>3, <2>4, OnList DEF IInv
        <3>2. pWaitMonitor[t] = NULL
            BY <3>1, ShownByList
        <3> QED BY <1>1, <2>1, <3>2 DEF Types
    <2>15. t \notin Timed'
        BY <2>3, <2>4, <2>11, NotTimed, NamesDiffer
    <2>16. IInv'
        BY <1>1, <2>1, <2>3, <2>4, <2>8, <2>10, <2>11, <2>12, <2>13, <2>14, <2>15, WokenKeeps
    <2> QED BY <2>7, <2>10, <2>16 DEF Kept, StaysHighest
<1>8. CASE InterruptWaiter(t)
    <2> DEFINE m == pWaitMonitor[t]
               l == WaitingOn(m)
    <2>1. AsleepOnMonitor(t)
        BY <1>8 DEF InterruptWaiter
    <2>2. Active(t)
        BY <1>5, <2>1 DEF AsleepOnMonitor
    <2>3. m \in Monitor
        BY <1>4, <2>1, <2>2, WithStatus
    <2> HIDE DEF m
    <2>4. /\ NotRunning(l) /\ l \in ListNames /\ NotRunning(BlockedOn(m)) /\ l # BlockedOn(m)
          /\ BlockedOn(m) \in ListNames
        BY <2>3, NotRunningNames, NamesAreNames, NamesDiffer
    <2>5. t \in EntriesOf(lists, l) \ {lists.head[l]}
        BY <1>1, <1>2, <2>1 DEF MayInterrupt, m
    <2>6. t \in On(l) /\ lists.head[l] # t
        BY <2>4, <2>5, SequencesRead DEF IInv, Sound, On
    <2>7. PICK k \in 1 .. Len(contents[l]) : t = contents[l][k]
        BY <2>6 DEF On, Members
    <2>8. afterInterruptedWait(t) = RemoveOne(lists, l, t)
        BY <2>6 DEF afterInterruptedWait, RemoveOne
    <2>9. timers' = IF activeStatus[t] = "ASLEEP_TIMED_OUT_ON_MONITOR"
                    THEN removeTimerCallback(timers, t) ELSE timers
        BY <1>8 DEF InterruptWaiter
    <2>10. QueueSound' /\ Timed' = Timed \ {t}
        BY <2>3, <2>6, <2>9, WaiterUntimed
    <2>11. CASE /\ pOwner[m] # NULL
                /\ activeStatus' = [activeStatus EXCEPT ![t] = "BLOCKED_ON_MONITOR"]
                /\ noContextSwitch(AddOneToEnd(afterInterruptedWait(t), BlockedOn(m), t))
                /\ UNCHANGED <<monitorVars, pWaitMonitor>>
        <3>1. pOwner' = pOwner /\ depth' = depth /\ pWaitMonitor' = pWaitMonitor
            BY <2>11 DEF monitorVars
        <3> DEFINE L == AddOneToEnd(RemoveOne(lists, l, t), BlockedOn(m), t)
        <3>2. noContextSwitch(L)
            BY <2>8, <2>11
        <3>3. Sound(L, Added(Removed(contents, l, k), BlockedOn(m), contents[l][k]))
            <4>1. Sound(lists, contents)
                BY DEF IInv
            <4>2. Sound(RemoveOne(lists, l, contents[l][k]), Removed(contents, l, k))
                BY <2>4, <4>1, OtherRemoved
            <4>3. Gone(contents, Removed(contents, l, k), contents[l][k])
                BY <2>4, <4>1, Leaves
            <4>4. OnNone(ListNames, Removed(contents, l, k), t)
                BY <2>7, <4>3 DEF Gone
            <4>5. Sound(RemoveOne(lists, l, t), Removed(contents, l, k))
                BY <2>7, <4>2
            <4>6. Sound(L, Added(Removed(contents, l, k), BlockedOn(m), t))
                BY <2>4, <4>4, <4>5, OtherAdded
            <4> QED BY <2>7, <4>6
        <3> HIDE DEF L
        <3>4. /\ StaysHighest
              /\ \E F : /\ Arrived(F, currentPriority) /\ MovesTo(t, BlockedOn(m))
                        /\ \A j : NotRunning(j) /\ j # l /\ j # BlockedOn(m) => F[j] = contents[j]
            BY <2>3, <2>7, <3>2, <3>3, WaiterBlocks
        <3>5. PICK F : /\ Arrived(F, currentPriority) /\ MovesTo(t, BlockedOn(m))
                       /\ \A j : NotRunning(j) /\ j # l /\ j # BlockedOn(m) => F[j] = contents[j]
            BY <3>4
        <3>6. \A s \in Semaphore : contents'[PendingOn(s)] = contents[PendingOn(s)]
            BY <3>5, NotRunningNames, NamesDiffer DEF Arrived
        <3>7. PendedAreCounted' /\ PendedByPriority' /\ InOrder
            BY <1>1, <3>6, PendedKept
        <3>8. Types'
            <4>1. current' \in Thread
                BY <3>5 DEF Arrived
            <4> QED BY <1>1, <2>11, <3>1, <4>1 DEF Types, Status
        <3>9. OthersKept(t)
            BY <1>1, <2>10, <2>11, <3>1 DEF OthersKept, SameThread, SameTimer, Types
        <3>10. activeStatus'[t] = "BLOCKED_ON_MONITOR" /\ t \notin Timed'
            BY <1>1, <2>10, <2>11 DEF Types
        <3>11. IInv'
            BY <1>1, <2>3, <2>6, <2>10, <2>11, <3>1, <3>5, <3>7, <3>8, <3>9, <3>10, BlockedKeeps
        <3> QED BY <3>4, <3>7, <3>11 DEF Kept
    <2>12. CASE /\ pOwner[m] = NULL
                /\ acquires(t, m, pWaitMonitor)
                /\ activeStatus' = [activeStatus EXCEPT ![t] = "RUNNING"]
                /\ conditionalContextSwitch(addThreadToRunningThreads(afterInterruptedWait(t), t),
                                            currentPriority)
        <3>1. /\ pOwner' = [pOwner EXCEPT ![m] = t]
              /\ pWaitMonitor' = [pWaitMonitor EXCEPT ![t] = NULL]
              /\ depth' = [depth EXCEPT ![m] = IF pWaitMonitor[t] # NULL THEN waitMonitorDepth[t] ELSE 1]
            BY <2>12 DEF acquires
        <3> DEFINE L == addThreadToRunningThreads(RemoveOne(lists, l, t), t)
        <3>2. conditionalContextSwitch(L, currentPriority)
            BY <2>8, <2>12
        <3>3. /\ OnHighest'
              /\ \E F : /\ Arrived(F, currentPriority)
                        /\ MovesTo(t, RunningAt(currentPriority[t]))
                        /\ Same(contents, F, l) /\ F[l] = Without(contents[l], k)
            BY <2>4, <2>7, <3>2, ThreadWakes
        <3> HIDE DEF L
        <3>4. PICK F : /\ Arrived(F, currentPriority)
                       /\ MovesTo(t, RunningAt(currentPriority[t])) /\ Same(contents, F, l)
            BY <3>3
        <3>5. \A s \in Semaphore : contents'[PendingOn(s)] = contents[PendingOn(s)]
            BY <3>4, NotRunningNames, NamesDiffer DEF Arrived, Same
        <3>6. PendedAreCounted' /\ PendedByPriority' /\ InOrder
            BY <1>1, <3>5, PendedKept
        <3>7. Types'
            <4>1. current' \in Thread
                BY <3>4 DEF Arrived
            <4> QED BY <1>1, <2>3, <2>12, <3>1, <4>1 DEF Types, Status, ThreadOrNull
        <3>8. OthersKept(t)
            BY <1>1, <2>10, <2>12, <3>1 DEF OthersKept, SameThread, SameTimer, Types
        <3>9. activeStatus'[t] = "RUNNING" /\ pWaitMonitor'[t] = NULL /\ t \notin Timed'
            BY <1>1, <2>10, <2>12, <3>1 DEF Types
        <3>10. \A n \in Monitor : pOwner[n] # NULL => pOwner'[n] # NULL
            BY <1>1, <3>1, ThreadFacts DEF Types
        <3>11. IInv'
            BY <1>1, <2>4, <2>6, <2>10, <3>4, <3>6, <3>7, <3>8, <3>9, <3>10, WokenKeeps
        <3> QED BY <3>3, <3>6, <3>11 DEF Kept, StaysHighest
    <2> QED BY <1>8, <2>11, <2>12 DEF InterruptWaiter, m
<1> QED BY <1>3, <1>6, <1>7, <1>8 DEF InterruptThread, InterruptSleeper

\* A runnable thread other than the current one goes to the list of its new priority.
LEMMA OtherPriorityChanged ==
    ASSUME IInv, NEW t \in Thread, t # current, t \in On(RunningAt(currentPriority[t])),
           NEW p \in Priorities, NEW P, P \in [Thread -> Priorities], P[t] = p,
           \A u \in Thread : u # t => P[u] = currentPriority[u],
           conditionalContextSwitch(changeOtherThreadPriority(lists, t, p), P)
    PROVE  /\ OnHighest'
           /\ \E F : /\ Arrived(F, P) /\ MovesTo(t, RunningAt(p))
                     /\ \A j : NotRunning(j) => F[j] = contents[j]
<1> DEFINE old == currentPriority[t]
           r == RunningAt(old)
           to == RunningAt(p)
<1>1. /\ currentPriority \in [Thread -> Priorities] /\ old \in Priorities
      /\ Sound(lists, contents) /\ r \in ListNames /\ to \in ListNames
      /\ current \in Thread
    BY NamesAreNames DEF IInv, Types
<1>2. PICK k \in 1 .. Len(contents[r]) : t = contents[r][k]
    BY DEF On, Members
<1> DEFINE G == Removed(contents, r, k)
           M == removePriority(RemoveOne(lists, r, t), old)
           F == Added(G, to, t)
           L == changeOtherThreadPriority(lists, t, p)
<1>3. Sound(M, G)
    <2>1. Sound(removePriority(RemoveOne(lists, r, contents[r][k]), old), G)
        BY <1>1, RunningRemoved
    <2> QED BY <1>2, <2>1
<1>4. /\ Gone(contents, G, t) /\ G \in [ListNames -> Seq(Thread)]
      /\ \A j \in ListNames : G[j] = IF j = r THEN Without(contents[r], k) ELSE contents[j]
    <2>1. /\ Gone(contents, G, contents[r][k]) /\ G \in [ListNames -> Seq(Thread)]
          /\ \A j \in ListNames : G[j] = IF j = r THEN Without(contents[r], k) ELSE contents[j]
        BY <1>1, Leaves
    <2> QED BY <1>2, <2>1
<1> HIDE DEF G, M
<1>5. OnNone(ListNames, G, t)
    BY <1>4 DEF Gone
<1>6. Sound(L, F)
    <2>1. Sound(addToPriorityMap(AddOneToEnd(M, to, t), p), F)
        BY <1>3, <1>5, RunningAdded
    <2> QED BY <2>1 DEF changeOtherThreadPriority, M
<1>7. \A j \in ListNames :
          /\ F[j] = IF j = to THEN Append(G[j], t) ELSE G[j]
          /\ Members(F[j]) = IF j = to THEN Members(G[j]) \cup {t} ELSE Members(G[j])
    BY <1>1, <1>4, Joins
<1>8. F[to] = Inserted(G[to], Len(G[to]), t) /\ G[to] \in Seq(Thread)
    BY <1>1, <1>4 DEF Added
<1> HIDE DEF F, L
<1>9. \A j \in ListNames : Members(F[j]) = IF j = to THEN On(j) \cup {t} ELSE On(j) \ {t}
    BY <1>4, <1>7 DEF Gone, On
<1>10. P \in [Thread -> Priorities] /\ P[t] = p /\ \A u \in Thread : u # t => P[u] = currentPriority[u]
    OBVIOUS
<1>11. ByPriority(F, P)
    <2> SUFFICES ASSUME NEW q \in Priorities, NEW u \in Members(F[RunningAt(q)])
                 PROVE  P[u] = q
        BY DEF ByPriority
    <2>1. RunningAt(q) \in ListNames
        BY NamesAreNames
    <2>2. CASE u = t
        <3>1. RunningAt(q) = to
            BY <1>9, <2>1, <2>2
        <3> QED BY <1>10, <2>2, <3>1, NamesDiffer
    <2>3. CASE u # t
        <3>1. u \in On(RunningAt(q))
            BY <1>9, <2>1, <2>3
        <3>2. u \in Thread /\ currentPriority[u] = q
            BY <1>1, <2>1, <3>1, MembersAreThreads, RunningByPriority DEF On, ByPriority
        <3> QED BY <1>10, <2>3, <3>2
    <2> QED BY <2>2, <2>3
<1>12. First(F, P, current)
    <2> DEFINE c == RunningAt(currentPriority[current])
    <2>1. c \in ListNames /\ contents[c] # <<>> /\ contents[c][1] = current
        BY CurrentFacts
    <2>2. G[c] # <<>> /\ G[c][1] = current
        <3>1. CASE c # r
            BY <1>4, <2>1, <3>1
        <3>2. CASE c = r
            <4>1. k # 1
                BY <1>2, <2>1, <3>2
            <4>2. /\ contents[r] \in Seq(Thread)
                  /\ \A i, j \in 1 .. Len(contents[r]) : contents[r][i] = contents[r][j] => i = j
                BY <1>1, Contents DEF Sound, Pointers
            <4>3. Without(contents[r], k) # <<>> /\ Without(contents[r], k)[1] = contents[r][1]
                BY <4>1, <4>2, WithoutKth
            <4> QED BY <1>1, <1>4, <2>1, <3>2, <4>3
        <3> QED BY <3>1, <3>2
    <2>3. F[c] # <<>> /\ F[c][1] = current
        <3>1. CASE c # to
            BY <1>7, <2>1, <2>2, <3>1
        <3>2. CASE c = to
            <4>1. /\ Inserted(G[to], Len(G[to]), t) # <<>>
                  /\ Inserted(G[to], Len(G[to]), t)[1] = IF G[to] = <<>> THEN t ELSE G[to][1]
                BY <1>8, InsertedLast
            <4> QED BY <1>8, <2>2, <3>2, <4>1
        <3> QED BY <3>1, <3>2
    <2>4. P[current] = currentPriority[current]
        BY <1>1, <1>10
    <2> QED BY <2>3, <2>4 DEF First
<1>13. Arrived(F, P) /\ OnHighest'
    BY <1>1, <1>6, <1>10, <1>11, <1>12, Conditional DEF L
<1>14. MovesTo(t, to)
    <2>1. \A j \in ListNames : On(j)' = Members(F[j])
        BY <1>13 DEF Arrived, On
    <2> QED BY <1>9, <2>1 DEF MovesTo
<1>15. \A j : NotRunning(j) => F[j] = contents[j]
    BY <1>1, <1>4, <1>7 DEF NotRunning
<1> QED BY <1>13, <1>14, <1>15

\* The pended threads are in order of any priorities that differ on other threads only.
LEMMA StillByPriority ==
    ASSUME IInv, NEW t \in Thread, activeStatus[t] # "BLOCKED_ON_SEMAPHORE" \/ ~Active(t),
           \A u \in Thread : u # t => currentPriority'[u] = currentPriority[u],
           \A s \in Semaphore : contents'[PendingOn(s)] = contents[PendingOn(s)]
    PROVE  PendedByPriority'
<1> SUFFICES ASSUME NEW s \in Semaphore,
                    NEW i \in 1 .. Len(contents[PendingOn(s)]),
                    NEW j \in 1 .. Len(contents[PendingOn(s)]), i <= j
             PROVE  currentPriority'[contents[PendingOn(s)][j]]
                        <= currentPriority'[contents[PendingOn(s)][i]]
    BY DEF PendedByPriority, Falling
<1> DEFINE l == PendingOn(s)
<1>1. l \in ListNames
    BY NamesAreNames
<1>2. ASSUME NEW n \in 1 .. Len(contents[l])
      PROVE  currentPriority'[contents[l][n]] = currentPriority[contents[l][n]]
    <2> DEFINE u == contents[l][n]
    <2>1. u \in On(l)
        BY DEF On, Members
    <2>2. u \in Thread
        BY <1>1, <2>1, MembersAreThreads DEF IInv, On
    <2>3. Active(u) /\ Shows(u, l)
        BY <1>1, <2>1, <2>2, OnList DEF IInv
    <2>4. activeStatus[u] = "BLOCKED_ON_SEMAPHORE"
        BY <2>3, ShownByList
    <2>5. u # t
        BY <2>3, <2>4
    <2> QED BY <2>2, <2>5
<1>3. currentPriority[contents[l][j]] <= currentPriority[contents[l][i]]
    BY PendedFacts DEF Falling
<1> QED BY <1>2, <1>3

LEMMA SetPriorityKeeps ==
    ASSUME IInv, Disciplined, NEW t \in Thread, NEW p \in NewPriorities, SetPriority(t, p)
    PROVE  Kept
<1>1. /\ state' = state /\ activeStatus' = activeStatus /\ interruptedFlag' = interruptedFlag
      /\ pJoinedThread' = pJoinedThread /\ pWaitMonitor' = pWaitMonitor
      /\ waitMonitorDepth' = waitMonitorDepth /\ timers' = timers
      /\ timerCallback' = timerCallback /\ pOwner' = pOwner /\ depth' = depth
      /\ counter' = counter /\ nesting' = nesting /\ tick' = tick
      /\ reschedulerEnabledIndicator' = reschedulerEnabledIndicator
      /\ currentPriority' = [currentPriority EXCEPT ![t] = p] /\ t # IdleThread /\ Types
    BY DEF SetPriority, threadVars, waitVars, timerVars, monitorVars, IInv
<1>2. {"OtherPriority", "PendFirst"} \subseteq Disciplines
    BY DEF SetPriority, Calls, Disciplined
<1>3. t # current /\ activeStatus[t] # "BLOCKED_ON_SEMAPHORE"
    BY <1>2 DEF SetPriority
<1>4. p \in Priorities /\ currentPriority' \in [Thread -> Priorities]
      /\ \A u \in Thread : u # t => currentPriority'[u] = currentPriority[u]
    BY <1>1 DEF Priorities, Types
<1>5. QueueSound' /\ Timed' = Timed
    BY <1>1, TimersKept
<1>6. ASSUME \A s \in Semaphore : contents'[PendingOn(s)] = contents[PendingOn(s)]
      PROVE  PendedAreCounted' /\ PendedByPriority' /\ InOrder
    <2>1. PendedByPriority'
        BY <1>3, <1>4, <1>6, StillByPriority
    <2>2. PendedAreCounted'
        BY <1>1, <1>6 DEF IInv, PendedAreCounted
    <2>3. \A s \in Semaphore : On(PendingOn(s))' = On(PendingOn(s))
        BY <1>6 DEF On
    <2> QED BY <2>1, <2>2, <2>3 DEF InOrder
<1>7. OthersKept(t)
    BY <1>1, <1>4, <1>5 DEF OthersKept, SameThread, SameTimer
<1>8. \A u \in Thread : Active(u) => Active(u)'
    BY <1>1 DEF Active
<1>9. IdleIsReady'
    BY <1>1 DEF IInv, IdleIsReady, Active
<1>10. CASE /\ Active(t) /\ activeStatus[t] = "RUNNING"
            /\ conditionalContextSwitch(changeOtherThreadPriority(lists, t, p), currentPriority')
    <2>1. t \in On(RunningAt(currentPriority[t]))
        <3>1. Placed(t) /\ NULL \notin Monitor
            BY SchedulerAssumption DEF IInv
        <3> QED BY <1>10, <3>1, WithStatus
    <2>2. OnHighest' /\ \E F : /\ Arrived(F, currentPriority') /\ MovesTo(t, RunningAt(p))
                               /\ \A j : NotRunning(j) => F[j] = contents[j]
        <3>1. /\ currentPriority' \in [Thread -> Priorities] /\ currentPriority'[t] = p
              /\ \A u \in Thread : u # t => currentPriority'[u] = currentPriority[u]
              /\ t # current /\ p \in Priorities
              /\ conditionalContextSwitch(changeOtherThreadPriority(lists, t, p), currentPriority')
            BY <1>1, <1>3, <1>4, <1>10 DEF Types
        <3> QED BY <2>1, <3>1, OtherPriorityChanged
    <2>3. PICK F : /\ Arrived(F, currentPriority') /\ MovesTo(t, RunningAt(p))
                   /\ \A j : NotRunning(j) => F[j] = contents[j]
        BY <2>2
    <2>4. \A s \in Semaphore : contents'[PendingOn(s)] = contents[PendingOn(s)]
        BY <2>3, NotRunningNames DEF Arrived
    <2>5. PendedAreCounted' /\ PendedByPriority' /\ InOrder
        BY <1>6, <2>4
    <2>6. Types'
        <3>1. current' \in Thread
            BY <2>3 DEF Arrived
        <3> QED BY <1>1, <1>4, <3>1 DEF Types
    <2>7. PICK r \in ListNames : r = RunningAt(p)
        BY <1>4, NamesAreNames
    <2>8. \A j \in ListNames : t \in On(j)' <=> j = r
        BY <2>3, <2>7 DEF MovesTo
    <2>9. ASSUME NEW u \in Thread PROVE Placed(u)' /\ Clocked(u)'
        <3>1. CASE u # t
            <4>1. SameThread(u) /\ SameTimer(u) /\ Placed(u) /\ Clocked(u)
                BY <1>7, <3>1 DEF OthersKept, IInv
            <4>2. StaysPut(u)
                BY <2>3, <3>1 DEF StaysPut, MovesTo
            <4> QED BY <4>1, <4>2, StillPlaced, StillClocked
        <3>2. CASE u = t
            <4>1. pWaitMonitor[t] = NULL
                <5>1. Shows(t, RunningAt(currentPriority[t]))
                    BY <1>1, <2>1, NamesAreNames, OnList DEF IInv, Types
                <5> QED BY <5>1, ShownByList
            <4>2. Active(t)' /\ Shows(t, r)'
                BY <1>1, <1>10, <2>7, <4>1 DEF Active, Shows, ShowsOther, Types
            <4>3. Placed(t)'
                BY <2>8, <4>2 DEF Placed
            <4>4. t \notin Timed'
                BY <1>1, <1>5, <2>1, NamesAreNames, NamesDiffer, NotTimed DEF Types
            <4>5. Clocked(t)'
                BY <2>3, <2>7, <4>4, NamesDiffer, ClockStopped
            <4> QED BY <3>2, <4>3, <4>5
        <3> QED BY <3>1, <3>2
    <2>10. JoinedAreAlive' /\ BlockedAreOwned'
        <3>1. \A u \in Thread : On(Joining(u))' \subseteq On(Joining(u))
            BY <2>3, NamesAreNames, NamesDiffer DEF MovesTo
        <3>2. \A m \in Monitor : On(BlockedOn(m))' \subseteq On(BlockedOn(m))
            BY <2>3, NamesAreNames, NamesDiffer DEF MovesTo
        <3> QED BY <1>1, <1>8, <3>1, <3>2 DEF IInv, JoinedAreAlive, BlockedAreOwned
    <2>11. CurrentIsFirst' /\ Sound(lists, contents)'
        BY <2>3 DEF CurrentIsFirst, Arrived
    <2>12. IInv'
        BY <1>5, <1>9, <2>5, <2>6, <2>9, <2>10, <2>11 DEF IInv
    <2> QED BY <2>2, <2>5, <2>12 DEF Kept, StaysHighest
<1>11. CASE ~(Active(t) /\ activeStatus[t] = "RUNNING") /\ UNCHANGED <<lists, current>>
    <2>1. contents' = contents /\ StaysHighest
        BY <1>11, ListsUnchanged
    <2>2. PendedAreCounted' /\ PendedByPriority' /\ InOrder
        BY <1>6, <2>1
    <2>3. Types'
        BY <1>1, <1>4, <1>11 DEF Types
    <2>4. \A j : On(j)' = On(j)
        BY <2>1 DEF On
    <2>5. ASSUME NEW u \in Thread PROVE Placed(u)' /\ Clocked(u)'
        <3>1. Placed(u) /\ Clocked(u)
            BY DEF IInv
        <3>2. CASE u # t
            <4>1. SameThread(u) /\ SameTimer(u) /\ StaysPut(u)
                BY <1>7, <2>4, <3>2 DEF OthersKept, StaysPut
            <4> QED BY <3>1, <4>1, StillPlaced, StillClocked
        <3>3. CASE u = t
            <4>1. Active(t) => \A l : Shows(t, l) => Shows(t, l)'
                BY <1>1, <1>11 DEF Shows, ShowsMonitor, ShowsOther, AsleepOnMonitor
            <4>2. Active(t)' <=> Active(t)
                BY <1>1 DEF Active
            <4>3. Placed(t)'
                BY <1>1, <2>4, <3>1, <3>3, <4>1, <4>2 DEF Placed
            <4>4. TimedOut(t)' <=> TimedOut(t)
                BY <1>1, <2>4 DEF TimedOut
            <4>5. Clocked(t)'
                BY <1>1, <1>5, <3>1, <3>3, <4>4 DEF Clocked
            <4> QED BY <3>3, <4>3, <4>5
        <3> QED BY <3>2, <3>3
    <2>6. JoinedAreAlive' /\ BlockedAreOwned'
        BY <1>1, <1>8, <2>4 DEF IInv, JoinedAreAlive, BlockedAreOwned
    <2>7. CurrentIsFirst' /\ Sound(lists, contents)'
        BY <1>1, <1>3, <1>4, <1>11, <2>1 DEF IInv, CurrentIsFirst, First, Types
    <2>8. IInv'
        BY <1>5, <1>9, <2>2, <2>3, <2>5, <2>6, <2>7 DEF IInv
    <2> QED BY <2>1, <2>2, <2>8 DEF Kept
<1> QED BY <1>1, <1>3, <1>10, <1>11 DEF SetPriority

-----------------------------------------------------------------------------
(* Operations that move several threads. *)

LEMMA SomeMove ==
    ASSUME IInv, NEW S, NEW F, Arrived(F, currentPriority),
           currentPriority' = currentPriority,
           \A u \in Thread : u \notin S => SameThread(u) /\ SameTimer(u) /\ StaysPut(u),
           \A u \in Thread : u \in S => Placed(u)' /\ Clocked(u)',
           Types', QueueSound', IdleIsReady', JoinedAreAlive', BlockedAreOwned',
           PendedAreCounted', PendedByPriority'
    PROVE  IInv'
<1>1. ASSUME NEW u \in Thread PROVE Placed(u)' /\ Clocked(u)'
    <2>1. CASE u \notin S
        <3>1. SameThread(u) /\ SameTimer(u) /\ StaysPut(u) /\ Placed(u) /\ Clocked(u)
            BY <2>1 DEF IInv
        <3> QED BY <3>1, StillPlaced, StillClocked
    <2> QED BY <2>1
<1>2. CurrentIsFirst' /\ Sound(lists, contents)'
    BY DEF CurrentIsFirst, Arrived
<1> QED BY <1>1, <1>2 DEF IInv

\* The timer a waiter is given.
LEMMA WaitTimer ==
    ASSUME IInv, NEW timeout \in BOOLEAN, NEW t \in Thread, t = current,
           IF timeout THEN setTimerCallback("monitorWaitExpired") ELSE UNCHANGED timerVars
    PROVE  /\ QueueSound' /\ Timed' = IF timeout THEN Timed \cup {t} ELSE Timed
           /\ timerCallback' \in [Thread -> {"none", "threadSleepExpired", "monitorWaitExpired"}]
           /\ timeout => timerCallback'[t] = "monitorWaitExpired"
           /\ \A u \in Thread : u # t => SameTimer(u)
<1>1. timerCallback \in [Thread -> {"none", "threadSleepExpired", "monitorWaitExpired"}]
    BY DEF IInv, Types
<1>2. CASE timeout
    <2>1. /\ QueueSound' /\ Timed' = Timed \cup {t}
          /\ timerCallback' = [timerCallback EXCEPT ![t] = "monitorWaitExpired"]
        BY <1>2, TimerSet
    <2> QED BY <1>1, <1>2, <2>1 DEF SameTimer
<1>3. CASE ~timeout
    <2>1. timers' = timers /\ timerCallback' = timerCallback
        BY <1>3 DEF timerVars
    <2>2. QueueSound' /\ Timed' = Timed
        BY <2>1, TimersKept
    <2> QED BY <1>1, <1>3, <2>1, <2>2 DEF SameTimer
<1> QED BY <1>2, <1>3

\* The current thread goes to list l, and the first thread blocked on m becomes runnable.
LEMMA MovedAndReleased ==
    ASSUME IInv, NEW m \in Monitor, NEW t \in Thread, t = current, current # IdleThread,
           contents[BlockedOn(m)] # <<>>,
           generatedContextSwitch(afterRelease(
               moveCurrentThreadFromRunningThreads(lists, WaitingOn(m)), m))
    PROVE  LET L == moveCurrentThreadFromRunningThreads(lists, WaitingOn(m))
               u == contents[BlockedOn(m)][1]
           IN  /\ firstBlocked(L, m) = u /\ u \in Thread /\ u \in On(BlockedOn(m))
               /\ OnHighest'
               /\ \E F : Arrived(F, currentPriority)
               /\ \A s \in Semaphore : contents'[PendingOn(s)] = contents[PendingOn(s)]
               /\ contents'[WaitingOn(m)] = Append(contents[WaitingOn(m)], t)
               /\ contents'[BlockedOn(m)] = Without(contents[BlockedOn(m)], 1)
               /\ \A n \in Monitor : n # m =>
                      /\ contents'[WaitingOn(n)] = contents[WaitingOn(n)]
                      /\ contents'[BlockedOn(n)] = contents[BlockedOn(n)]
               /\ \A j \in ListNames :
                      On(j)' = IF j = RunningAt(currentPriority[u]) THEN (On(j) \ {t}) \cup {u}
                               ELSE IF j = WaitingOn(m) THEN On(j) \cup {t}
                               ELSE On(j) \ {t, u}
<1> DEFINE l == WaitingOn(m)
           b == BlockedOn(m)
           u == contents[b][1]
           L == moveCurrentThreadFromRunningThreads(lists, l)
           r == RunningAt(currentPriority[u])
<1>1. /\ l \in ListNames /\ NotRunning(l) /\ b \in ListNames /\ NotRunning(b) /\ l # b
    BY NotRunningNames, NamesAreNames, NamesDiffer
<1>2. PICK F : Sound(L, F) /\ Goes(contents, F, t, l) /\ Same(contents, F, l)
    BY <1>1, CurrentMoved
<1>3. F[b] = contents[b]
    BY <1>1, <1>2 DEF Same
<1> HIDE DEF L
<1>4. L.head[b] = u /\ u \in Thread /\ 1 \in 1 .. Len(F[b]) /\ u \in On(b) /\ u # NULL
    <2>1. /\ L.head[b] = IF F[b] = <<>> THEN NULL ELSE F[b][1]
          /\ F[b] # <<>> => F[b][1] \in Thread /\ 1 \in 1 .. Len(F[b])
        BY <1>1, <1>2, SoundIsFunction DEF Sound
    <2>2. contents[b][1] \in Members(contents[b])
        BY <1>1, MembersAreThreads DEF IInv
    <2> QED BY <1>3, <2>1, <2>2, ThreadFacts DEF On
<1>5. firstBlocked(L, m) = u
    BY <1>4 DEF firstBlocked
<1>6. afterRelease(L, m) = addThreadToRunningThreads(RemoveOne(L, b, F[b][1]), F[b][1])
    BY <1>3, <1>4, <1>5 DEF afterRelease
<1>7. Types
    BY DEF IInv
<1>8. PICK G : /\ Sound(addThreadToRunningThreads(RemoveOne(L, b, F[b][1]), F[b][1]), G)
               /\ Goes(F, G, F[b][1], RunningAt(currentPriority[F[b][1]]))
               /\ Same(F, G, b) /\ G[b] = Without(F[b], 1)
    BY <1>1, <1>2, <1>4, <1>7, Released
<1>9. Sound(afterRelease(L, m), G) /\ Goes(F, G, u, r)
    BY <1>3, <1>6, <1>8
<1>10. ByPriority(F, currentPriority)
    BY <1>2, RunningByPriority, GoesByPriority, <1>1 DEF NotRunning
<1>11. ByPriority(G, currentPriority)
    <2>1. \A p \in Priorities : RunningAt(currentPriority[u]) = RunningAt(p) => p = currentPriority[u]
        BY NamesDiffer
    <2> QED BY <1>4, <1>9, <1>10, <2>1, GoesByPriority
<1> HIDE DEF l, b, u
<1>12. r \in ListNames /\ r # l
    BY <1>1, <1>4, NamesAreNames DEF IInv, Types, NotRunning
<1>13. u # t /\ u # IdleThread
    <2>1. \A j \in ListNames : current \in On(j) <=> j = RunningAt(currentPriority[current])
        BY CurrentFacts
    <2>2. IdleThread \in On(RunningAt(currentPriority[IdleThread])) /\ IdleThread \in Thread
          /\ currentPriority[IdleThread] \in Priorities
        BY CurrentFacts
    <2>3. currentPriority[current] \in Priorities
        BY CurrentFacts
    <2>4. u # t
        BY <1>1, <1>4, <2>1, <2>3 DEF NotRunning
    <2>5. \A k \in ListNames : u \in On(k) <=> k = b
        BY <1>1, <1>4, OnList DEF IInv
    <2>6. u # IdleThread
        BY <1>1, <2>2, <2>5, NamesAreNames DEF NotRunning
    <2> QED BY <2>4, <2>6
<1>14. \A j \in ListNames : Members(G[j]) = IF j = r THEN (On(j) \ {t}) \cup {u}
                                            ELSE IF j = l THEN On(j) \cup {t}
                                            ELSE On(j) \ {t, u}
    <2>1. \A j \in ListNames : Members(F[j]) = IF j = l THEN On(j) \cup {t} ELSE On(j) \ {t}
        BY <1>2 DEF Goes, On
    <2>2. \A j \in ListNames : Members(G[j]) = IF j = r THEN Members(F[j]) \cup {u}
                                               ELSE Members(F[j]) \ {u}
        BY <1>9 DEF Goes
    <2>3. u \notin On(l)
        BY <1>1, <1>4, OnList DEF IInv
    <2> SUFFICES ASSUME NEW j \in ListNames
                 PROVE  Members(G[j]) = IF j = r THEN (On(j) \ {t}) \cup {u}
                                        ELSE IF j = l THEN On(j) \cup {t}
                                        ELSE On(j) \ {t, u}
        OBVIOUS
    <2> HIDE DEF r
    <2>4. CASE j = r
        <3>1. Members(G[j]) = (On(j) \ {t}) \cup {u}
            BY <1>12, <2>1, <2>2, <2>4
        <3> QED BY <2>4, <3>1
    <2>5. CASE j = l
        <3>1. Members(G[j]) = (On(j) \cup {t}) \ {u}
            BY <1>12, <2>1, <2>2, <2>5
        <3> QED BY <1>12, <1>13, <2>3, <2>5, <3>1
    <2>6. CASE j # r /\ j # l
        <3>1. Members(G[j]) = (On(j) \ {t}) \ {u}
            BY <2>1, <2>2, <2>6
        <3> QED BY <2>6, <3>1
    <2> QED BY <2>4, <2>5, <2>6
<1>15. NonEmpty(G) # {}
    <2>1. currentPriority[IdleThread] \in Priorities
          /\ IdleThread \in On(RunningAt(currentPriority[IdleThread]))
          /\ RunningAt(currentPriority[IdleThread]) \in ListNames
        BY CurrentFacts, NamesAreNames
    <2>2. IdleThread \in Members(G[RunningAt(currentPriority[IdleThread])])
        BY <1>13, <1>14, <2>1
    <2> QED BY <1>9, <2>1, <2>2, IdleKeeps
<1>16. generatedContextSwitch(afterRelease(L, m))
    BY DEF L, l
<1>17. Arrived(G, currentPriority) /\ OnHighest'
    BY <1>9, <1>11, <1>15, <1>16, Generated
<1>18. \A j \in ListNames : On(j)' = Members(G[j])
    BY <1>17 DEF Arrived, On
<1>19. \A s \in Semaphore : contents'[PendingOn(s)] = contents[PendingOn(s)]
    <2>1. \A s \in Semaphore : NotRunning(PendingOn(s)) /\ PendingOn(s) # l /\ PendingOn(s) # b
        BY NotRunningNames, NamesDiffer DEF l, b
    <2>2. \A s \in Semaphore : G[PendingOn(s)] = contents[PendingOn(s)]
        BY <1>2, <1>8, <2>1 DEF Same
    <2> QED BY <1>17, <2>1, <2>2 DEF Arrived
<1>20. /\ contents'[l] = Append(contents[l], t) /\ contents'[b] = Without(contents[b], 1)
       /\ \A n \in Monitor : n # m => /\ contents'[WaitingOn(n)] = contents[WaitingOn(n)]
                                      /\ contents'[BlockedOn(n)] = contents[BlockedOn(n)]
    <2>1. \A j : NotRunning(j) => contents'[j] = G[j]
        BY <1>17 DEF Arrived
    <2>2. G[l] = F[l] /\ F[l] = Append(contents[l], t) /\ G[b] = Without(contents[b], 1)
        BY <1>1, <1>2, <1>3, <1>8 DEF Same, Goes
    <2>3. \A j : NotRunning(j) /\ j # l /\ j # b => G[j] = contents[j]
        BY <1>2, <1>8 DEF Same
    <2>4. \A n \in Monitor : n # m =>
              /\ NotRunning(WaitingOn(n)) /\ WaitingOn(n) # l /\ WaitingOn(n) # b
              /\ NotRunning(BlockedOn(n)) /\ BlockedOn(n) # l /\ BlockedOn(n) # b
        BY NotRunningNames, NamesDiffer DEF l, b
    <2> QED BY <1>1, <2>1, <2>2, <2>3, <2>4
<1> QED BY <1>4, <1>5, <1>14, <1>17, <1>18, <1>19, <1>20 DEF L, l, b, u

LEMMA WaitKeeps ==
    ASSUME IInv, NEW m \in Monitor, NEW timeout \in BOOLEAN, MonitorWait(m, timeout)
    PROVE  Kept
<1> DEFINE l == WaitingOn(m)
           b == BlockedOn(m)
           L == moveCurrentThreadFromRunningThreads(lists, l)
           how == IF timeout THEN "ASLEEP_TIMED_OUT_ON_MONITOR" ELSE "ASLEEP_ON_MONITOR"
           W == [pWaitMonitor EXCEPT ![current] = m]
           A == [activeStatus EXCEPT ![current] = how]
<1>1. /\ state' = state /\ currentPriority' = currentPriority /\ counter' = counter
      /\ pJoinedThread' = pJoinedThread /\ interruptedFlag' = interruptedFlag
      /\ waitMonitorDepth' = [waitMonitorDepth EXCEPT ![current] = depth[m]]
      /\ nesting' = nesting /\ tick' = tick
      /\ reschedulerEnabledIndicator' = reschedulerEnabledIndicator
      /\ current # IdleThread /\ pOwner[m] = current /\ Types
    BY DEF MonitorWait, Calls, IInv
<1>2. /\ releaseBlockedThread(L, m, W, A)
      /\ generatedContextSwitch(afterRelease(L, m))
      /\ IF timeout THEN setTimerCallback("monitorWaitExpired") ELSE UNCHANGED timerVars
    BY DEF MonitorWait
<1>3. PICK t \in Thread : t = current
    BY <1>1 DEF Types
<1>4. /\ QueueSound' /\ Timed' = IF timeout THEN Timed \cup {t} ELSE Timed
      /\ timerCallback' \in [Thread -> {"none", "threadSleepExpired", "monitorWaitExpired"}]
      /\ timeout => timerCallback'[t] = "monitorWaitExpired"
      /\ \A u \in Thread : u # t => SameTimer(u)
    BY <1>2, <1>3, WaitTimer
<1>5. /\ l \in ListNames /\ NotRunning(l) /\ b \in ListNames /\ NotRunning(b) /\ l # b
    BY NotRunningNames, NamesAreNames, NamesDiffer
<1>6. Active(t) /\ t \notin Timed /\ how \in Status
    BY <1>3, CurrentFacts, CurrentNotTimed DEF Status
<1> HIDE DEF how
<1>7. ASSUME activeStatus'[t] = how, pWaitMonitor'[t] = m, t \in On(l)'
      PROVE  Active(t)' /\ Shows(t, l)' /\ Clocked(t)'
    <2>1. Active(t)'
        BY <1>1, <1>6 DEF Active
    <2>2. Shows(t, l)'
        BY <1>7 DEF Shows, ShowsMonitor, AsleepOnMonitor, how
    <2>3. CASE timeout
        <3>1. TimedOut(t)' /\ activeStatus'[t] # "ASLEEP_TIMED_OUT"
            BY <1>7, <2>3 DEF TimedOut, how
        <3>2. t \in Timed' /\ timerCallback'[t] = "monitorWaitExpired"
            BY <1>4, <2>3
        <3>3. Clocked(t)'
            BY <3>1, <3>2 DEF Clocked
        <3> QED BY <2>1, <2>2, <3>3
    <2>4. CASE ~timeout /\ t \notin On(AsleepList)'
        <3>1. ~TimedOut(t)'
            BY <1>7, <2>4 DEF TimedOut, how
        <3>2. t \notin Timed'
            BY <1>4, <1>6, <2>4
        <3>3. Clocked(t)'
            BY <3>1, <3>2 DEF Clocked
        <3> QED BY <2>1, <2>2, <3>3
    <2>5. t \notin On(AsleepList)'
        <3>1. AsleepList \in ListNames /\ AsleepList # l
            BY NamesAreNames, NamesDiffer
        <3>2. CASE contents[b] = <<>>
            <4>1. PICK F : Sound(L, F) /\ Goes(contents, F, current, l) /\ Same(contents, F, l)
                BY <1>5, CurrentMoved
            <4> HIDE DEF L, l, b
            <4>2. L.head[b] = NULL
                <5>1. F[b] = contents[b]
                    BY <1>5, <4>1 DEF Same
                <5> QED BY <1>5, <3>2, <4>1, <5>1, SoundIsFunction DEF Sound
            <4>3. afterRelease(L, m) = L
                BY <4>2 DEF afterRelease, firstBlocked, b
            <4>4. PICK G : MovesTo(t, l) /\ Same(contents, G, l)
                BY <1>1, <1>2, <1>3, <1>5, <4>3, CurrentDeparts DEF L
            <4> QED BY <3>1, <4>4 DEF MovesTo
        <3>3. CASE contents[b] # <<>>
            <4>1. \A j \in ListNames :
                      On(j)' = IF j = RunningAt(currentPriority[contents[b][1]])
                               THEN (On(j) \ {t}) \cup {contents[b][1]}
                               ELSE IF j = WaitingOn(m) THEN On(j) \cup {t}
                               ELSE On(j) \ {t, contents[b][1]}
                BY <1>1, <1>2, <1>3, <3>3, MovedAndReleased
            <4> QED BY <3>1, <4>1, NamesDiffer
        <3> QED BY <3>2, <3>3
    <2> QED BY <2>1, <2>2, <2>3, <2>4, <2>5
<1>8. CASE contents[b] = <<>>
    <2>1. PICK F : Sound(L, F) /\ Goes(contents, F, current, l) /\ Same(contents, F, l)
        BY <1>5, CurrentMoved
    <2>2. firstBlocked(L, m) = NULL
        <3> HIDE DEF L, l
        <3>1. F[b] = contents[b]
            BY <1>5, <2>1 DEF Same
        <3> QED BY <1>5, <1>8, <2>1, <3>1, SoundIsFunction DEF Sound, firstBlocked
    <2> HIDE DEF L, W, A
    <2>3. /\ afterRelease(L, m) = L /\ pOwner' = [pOwner EXCEPT ![m] = NULL]
          /\ pWaitMonitor' = W /\ activeStatus' = A /\ depth' = depth
        BY <1>2, <2>2 DEF afterRelease, releaseBlockedThread
    <2>4. PICK G : /\ Arrived(G, currentPriority) /\ OnHighest'
                   /\ MovesTo(t, l) /\ Same(contents, G, l)
        BY <1>1, <1>2, <1>3, <1>5, <2>3, CurrentDeparts DEF L
    <2>5. \A s \in Semaphore : contents'[PendingOn(s)] = contents[PendingOn(s)]
        BY <2>4, NotRunningNames, NamesDiffer DEF Arrived, Same
    <2>6. PendedAreCounted' /\ PendedByPriority' /\ InOrder
        BY <1>1, <2>5, PendedKept
    <2>7. Types'
        <3>1. current' \in Thread
            BY <2>4 DEF Arrived
        <3> QED BY <1>1, <1>4, <1>6, <2>3, <3>1 DEF Types, ThreadOrNull, W, A
    <2>8. OthersKept(t)
        BY <1>1, <1>3, <1>4, <2>3 DEF OthersKept, SameThread, Types, W, A
    <2>9. activeStatus'[t] = how /\ pWaitMonitor'[t] = m /\ t \in On(l)'
        BY <1>1, <1>3, <1>5, <2>3, <2>4 DEF Types, W, A, MovesTo
    <2>10. Active(t)' /\ Shows(t, l)' /\ Clocked(t)'
        BY <1>7, <2>9
    <2>11. OwnersStay(l)
        <3>1. On(BlockedOn(m))' = {}
            <4>1. On(b) = {}
                BY <1>5, <1>8, FrontRead
            <4> QED BY <1>5, <2>4, <4>1 DEF MovesTo
        <3>2. \A n \in Monitor : n # m => pOwner'[n] = pOwner[n]
            BY <1>1, <2>3 DEF Types
        <3> QED BY <3>1, <3>2, NamesDiffer DEF OwnersStay
    <2>12. MoveIsKept(t, l)
        BY <1>1, <1>3, <1>4, <2>6, <2>7, <2>8, <2>10, <2>11, NamesDiffer DEF MoveIsKept
    <2>13. IInv'
        BY <1>1, <1>5, <2>4, <2>12, OneMoves
    <2> QED BY <2>4, <2>6, <2>13 DEF Kept, StaysHighest
<1>9. CASE contents[b] # <<>>
    <2>0. contents[b][1] \in Thread
        BY <1>1, <1>2, <1>3, <1>9, MovedAndReleased
    <2> PICK u \in Thread : u = contents[b][1]
        BY <2>0
    <2>r. currentPriority[u] \in Priorities /\ RunningAt(currentPriority[u]) \in ListNames
        BY <1>1, NamesAreNames DEF Types
    <2> PICK r \in ListNames : r = RunningAt(currentPriority[u])
        BY <2>r
    <2>1. /\ firstBlocked(L, m) = u /\ u \in Thread /\ u \in On(b)
          /\ OnHighest'
          /\ \A s \in Semaphore : contents'[PendingOn(s)] = contents[PendingOn(s)]
          /\ \A j \in ListNames :
                 On(j)' = IF j = r THEN (On(j) \ {t}) \cup {u}
                          ELSE IF j = l THEN On(j) \cup {t}
                          ELSE On(j) \ {t, u}
        BY <1>1, <1>2, <1>3, <1>9, MovedAndReleased
    <2>2. PICK F : Arrived(F, currentPriority)
        BY <1>1, <1>2, <1>3, <1>9, MovedAndReleased
    <2> HIDE DEF L, W, A
    <2>3. u # NULL /\ r # l /\ r # b /\ currentPriority[u] \in Priorities
        BY <1>5, <2>r, ThreadFacts DEF NotRunning
    <2>4. /\ pOwner' = [pOwner EXCEPT ![m] = u]
          /\ depth' = [depth EXCEPT ![m] = IF W[u] # NULL THEN waitMonitorDepth[u] ELSE 1]
          /\ pWaitMonitor' = [W EXCEPT ![u] = NULL]
          /\ activeStatus' = [A EXCEPT ![u] = "RUNNING"]
        BY <1>2, <2>1, <2>3, ReleaseEffect
    <2>5. u # t /\ Active(u) /\ \A k \in ListNames : u \in On(k) <=> k = b
        <3>1. \A j \in ListNames : t \in On(j) <=> j = RunningAt(currentPriority[t])
            BY <1>3, CurrentFacts
        <3>2. currentPriority[t] \in Priorities
            BY <1>1 DEF Types
        <3>3. Active(u) /\ \A k \in ListNames : u \in On(k) <=> k = b
            BY <1>5, <2>1, OnList DEF IInv
        <3> QED BY <1>5, <2>1, <3>1, <3>2, <3>3 DEF NotRunning
    <2>6. /\ activeStatus'[u] = "RUNNING" /\ pWaitMonitor'[u] = NULL
          /\ activeStatus'[t] = how /\ pWaitMonitor'[t] = m
        BY <1>1, <1>3, <2>1, <2>4, <2>5 DEF Types, W, A
    <2>7. /\ \A j \in ListNames : u \in On(j)' <=> j = r
          /\ \A j \in ListNames : t \in On(j)' <=> j = l
          /\ \A v \in Thread : v # u /\ v # t => StaysPut(v)
        <3>1. b # l /\ u # t /\ u \notin On(l)
            BY <1>5, <2>5
        <3>2. ASSUME NEW j \in ListNames PROVE (u \in On(j)' <=> j = r) /\ (t \in On(j)' <=> j = l)
            <4>1. CASE j = r
                <5>1. On(j)' = (On(j) \ {t}) \cup {u}
                    BY <2>1, <4>1
                <5> QED BY <2>3, <3>1, <4>1, <5>1
            <4>2. CASE j = l
                <5>1. On(j)' = On(j) \cup {t}
                    BY <2>1, <2>3, <4>2
                <5> QED BY <2>3, <3>1, <4>2, <5>1
            <4>3. CASE j # r /\ j # l
                <5>1. On(j)' = On(j) \ {t, u}
                    BY <2>1, <4>3
                <5> QED BY <4>3, <5>1
            <4> QED BY <4>1, <4>2, <4>3
        <3>4. \A v \in Thread : v # u /\ v # t => StaysPut(v)
            BY <2>1 DEF StaysPut
        <3> QED BY <3>2, <3>4
    <2>8. PendedAreCounted' /\ PendedByPriority' /\ InOrder
        BY <1>1, <2>1, PendedKept
    <2>9. Types'
        <3>1. current' \in Thread
            BY <2>2 DEF Arrived
        <3>2. W \in [Thread -> Monitor \cup {NULL}] /\ A \in [Thread -> Status]
            BY <1>1, <1>6 DEF Types, W, A
        <3>3. depth' \in [Monitor -> Nat] /\ pOwner' \in [Monitor -> ThreadOrNull]
            BY <1>1, <2>1, <2>4 DEF Types, ThreadOrNull
        <3>4. pWaitMonitor' \in [Thread -> Monitor \cup {NULL}] /\ activeStatus' \in [Thread -> Status]
            BY <2>4, <3>2 DEF Status
        <3>5. waitMonitorDepth' \in [Thread -> Nat]
            BY <1>1 DEF Types
        <3> QED BY <1>1, <1>4, <3>1, <3>3, <3>4, <3>5 DEF Types
    <2>10. ASSUME NEW v \in Thread, v \notin {t, u}
           PROVE  SameThread(v) /\ SameTimer(v) /\ StaysPut(v)
        <3>1. activeStatus'[v] = activeStatus[v] /\ pWaitMonitor'[v] = pWaitMonitor[v]
            BY <1>1, <1>3, <2>1, <2>4, <2>10 DEF Types, W, A
        <3> QED BY <1>1, <1>4, <2>7, <2>10, <3>1 DEF SameThread
    <2>11. Placed(t)' /\ Clocked(t)'
        BY <1>5, <1>7, <2>6, <2>7 DEF Placed
    <2>12. Placed(u)' /\ Clocked(u)'
        <3>1. Active(u)' /\ Shows(u, r)'
            BY <1>1, <2>5, <2>6 DEF Active, Shows, ShowsOther
        <3>2. u \notin Timed'
            BY <1>4, <1>5, <2>1, <2>5, NotTimed, NamesDiffer
        <3>3. ~TimedOut(u)'
            BY <2>7, NamesAreNames, NamesDiffer DEF TimedOut
        <3> QED BY <2>3, <2>7, <3>1, <3>2, <3>3 DEF Placed, Clocked
    <2>13. IdleIsReady'
        <3>1. Active(IdleThread) /\ activeStatus[IdleThread] = "RUNNING" /\ IdleThread \in Thread
            BY ThreadFacts DEF IInv, IdleIsReady
        <3>2. IdleThread # t
            BY <1>1, <1>3
        <3> QED BY <1>1, <1>3, <2>1, <2>4, <3>1, <3>2 DEF IdleIsReady, Active, Types, A
    <2>14. JoinedAreAlive'
        <3>1. \A v \in Thread : On(Joining(v))' \subseteq On(Joining(v))
            BY <2>1, NamesAreNames, NamesDiffer
        <3> QED BY <1>1, <3>1 DEF IInv, JoinedAreAlive, Active
    <2>15. BlockedAreOwned'
        <3>1. \A n \in Monitor : On(BlockedOn(n))' \subseteq On(BlockedOn(n))
            BY <2>1, NamesAreNames, NamesDiffer
        <3>2. \A n \in Monitor : pOwner[n] # NULL => pOwner'[n] # NULL
            BY <1>1, <2>1, <2>3, <2>4 DEF Types
        <3> QED BY <3>1, <3>2 DEF IInv, BlockedAreOwned
    <2>16. IInv'
        <3>1. \A v \in Thread : v \notin {t, u} => SameThread(v) /\ SameTimer(v) /\ StaysPut(v)
            BY <2>10
        <3>2. \A v \in Thread : v \in {t, u} => Placed(v)' /\ Clocked(v)'
            BY <2>11, <2>12
        <3> QED BY <1>1, <1>4, <2>2, <2>8, <2>9, <2>13, <2>14, <2>15, <3>1, <3>2, SomeMove
    <2> QED BY <2>1, <2>8, <2>16 DEF Kept, StaysHighest
<1> QED BY <1>8, <1>9

-----------------------------------------------------------------------------
(* Notifying every waiter. *)

\* The memories of the timer queue.
TimerMemory ==
    [head : [{TimerList} -> ThreadOrNull], next : [Thread -> ThreadOrNull],
     prev : [Thread -> ThreadOrNull]]

LEMMA QueueIsMemory ==
    ASSUME NEW T, NEW S, TimerQueue(T, S)
    PROVE  T \in TimerMemory
BY DEF TimerQueue, Represents, IsMemory, TimerMemory, ThreadOrNull

\* timersWithout, for a list of waiters: the entries of the first k are gone after k turns.
LEMMA WaitersUntimed ==
    ASSUME IInv, NEW m \in Monitor, timers' = timersWithout(contents[WaitingOn(m)])
    PROVE  QueueSound' /\ Timed' = Timed \ On(WaitingOn(m))
<1> DEFINE l == WaitingOn(m)
           S(k) == Timed \ {contents[l][i] : i \in 1 .. k}
<1>1. l \in ListNames
    BY NamesAreNames
<1>2. PICK q : q = contents[l]
    OBVIOUS
<1> DEFINE n == Len(q)
           timedOut(t) == activeStatus[t] = "ASLEEP_TIMED_OUT_ON_MONITOR"
           step(k, M) == IF timedOut(q[k]) THEN removeTimerCallback(M, q[k]) ELSE M
           f == [k \in 1 .. n |-> [M \in TimerMemory |->
                    IF step(k, M) \in TimerMemory THEN step(k, M) ELSE M]]
<1>3. /\ n \in Nat /\ \A k \in 1 .. n : q[k] \in On(l)
      /\ \A i, j \in 1 .. n : q[i] = q[j] => i = j
    <2>1. Represents(lists, ListNames, Thread, contents)
        BY DEF IInv, Sound, Pointers
    <2>2. /\ n \in Nat /\ \A i, j \in 1 .. n : q[i] = q[j] => i = j
        BY <1>1, <1>2, <2>1, Contents
    <2>3. \A k \in 1 .. n : q[k] \in Members(q)
        BY DEF Members
    <2> QED BY <1>2, <2>2, <2>3 DEF On
<1>4. ASSUME NEW k \in 1 .. n, NEW M, TimerQueue(M, S(k - 1))
      PROVE  TimerQueue(step(k, M), S(k)) /\ step(k, M) \in TimerMemory
    <2>1. q[k] \in Timed <=> timedOut(q[k])
        BY <1>3, WaiterFacts
    <2>2. S(k) = S(k - 1) \ {q[k]}
        BY <1>2, <1>3
    <2>3. q[k] \in S(k - 1) <=> q[k] \in Timed
        <3>1. \A i \in 1 .. k - 1 : i \in 1 .. n /\ i # k
            BY <1>3
        <3>2. \A i \in 1 .. k - 1 : q[i] # q[k]
            BY <1>3, <3>1
        <3> QED BY <1>2, <3>2
    <2> HIDE DEF S
    <2>4. TimerQueue(step(k, M), S(k))
        <3>1. CASE timedOut(q[k])
            <4>1. q[k] \in S(k - 1)
                BY <2>1, <2>3, <3>1
            <4>2. TimerQueue(removeTimerCallback(M, q[k]), S(k - 1) \ {q[k]})
                BY <1>4, <4>1, TimerRemoved
            <4> QED BY <2>2, <3>1, <4>2
        <3>2. CASE ~timedOut(q[k])
            <4>1. S(k) = S(k - 1)
                BY <2>1, <2>2, <2>3, <3>2
            <4> QED BY <1>4, <3>2, <4>1
        <3> QED BY <3>1, <3>2
    <2> QED BY <2>4, QueueIsMemory
<1>5. TimerQueue(timers, S(0)) /\ timers \in TimerMemory
    <2>1. S(0) = Timed
        OBVIOUS
    <2> HIDE DEF S
    <2> QED BY <2>1, QueueRead, QueueIsMemory DEF IInv
<1> HIDE DEF S, timedOut
<1>6. PICK u \in [0 .. n -> TimerMemory] :
          u = [k \in 0 .. n |-> IF k = 0 THEN timers ELSE f[k][u[k - 1]]]
    <2>1. f \in [1 .. n -> [TimerMemory -> TimerMemory]]
        OBVIOUS
    <2> HIDE DEF f, n
    <2>2. \E u : Stepping(u, n, TimerMemory, timers, f)
        BY <1>3, <1>5, <2>1, StepByStep
    <2> QED BY <2>2 DEF Stepping
<1>7. ASSUME NEW k \in 1 .. n, TimerQueue(u[k - 1], S(k - 1))
      PROVE  u[k] = step(k, u[k - 1]) /\ TimerQueue(u[k], S(k))
    <2>1. u[k - 1] \in TimerMemory /\ u[k] = f[k][u[k - 1]]
        <3> HIDE DEF f, n
        <3>1. k - 1 \in 0 .. n /\ k \in 0 .. n /\ k # 0
            BY <1>3
        <3>2. u[k] = IF k = 0 THEN timers ELSE f[k][u[k - 1]]
            BY <1>6, <3>1, Zenon
        <3> QED BY <1>6, <3>1, <3>2
    <2>2. TimerQueue(step(k, u[k - 1]), S(k)) /\ step(k, u[k - 1]) \in TimerMemory
        BY <1>4, <1>7
    <2> HIDE DEF step
    <2>3. f[k][u[k - 1]] = step(k, u[k - 1])
        BY <2>1, <2>2
    <2> QED BY <2>1, <2>2, <2>3
<1>8. \A k \in 0 .. n : TimerQueue(u[k], S(k))
    <2> DEFINE G == {k \in 0 .. n : TimerQueue(u[k], S(k))}
    <2>1. 0 \in G
        <3>1. u[0] = timers
            <4> HIDE DEF f
            <4> QED BY <1>3, <1>6
        <3> QED BY <1>3, <1>5, <3>1
    <2>2. ASSUME NEW k \in 1 .. n, k - 1 \in G PROVE k \in G
        <3>1. TimerQueue(u[k - 1], S(k - 1))
            BY <2>2
        <3>2. TimerQueue(u[k], S(k))
            BY <1>7, <3>1
        <3> QED BY <3>2
    <2> HIDE DEF G, n
    <2>3. 0 .. n \subseteq G
        BY <1>3, <2>1, <2>2, UpTo
    <2> QED BY <2>3 DEF G
<1>9. u = [k \in 0 .. n |-> IF k = 0 THEN timers ELSE step(k, u[k - 1])]
    <2>1. \A k \in 1 .. n : u[k] = step(k, u[k - 1])
        <3>1. \A k \in 1 .. n : k - 1 \in 0 .. n
            BY <1>3
        <3> QED BY <1>7, <1>8, <3>1
    <2>2. u[0] = timers
        <3> HIDE DEF f
        <3> QED BY <1>3, <1>6
    <2>3. u = [k \in 0 .. n |-> u[k]]
        BY <1>6
    <2> HIDE DEF step
    <2>4. \A k \in 0 .. n : u[k] = IF k = 0 THEN timers ELSE step(k, u[k - 1])
        BY <1>3, <2>1, <2>2
    <2> QED BY <2>3, <2>4
<1>10. PICK w : /\ w = [k \in 0 .. n |-> IF k = 0 THEN timers ELSE step(k, w[k - 1])]
                /\ timersWithout(q) = w[n]
    <2> DEFINE v == CHOOSE v : v = [k \in 0 .. n |-> IF k = 0 THEN timers ELSE step(k, v[k - 1])]
    <2>1. timersWithout(q) = v[n]
        BY DEF timersWithout, timedOut
    <2>2. v = [k \in 0 .. n |-> IF k = 0 THEN timers ELSE step(k, v[k - 1])]
        <3> HIDE DEF step
        <3> QED BY <1>9
    <2> HIDE DEF v
    <2> QED BY <2>1, <2>2
<1>11. \A k \in 0 .. n : w[k] = u[k]
    <2> DEFINE G == {k \in 0 .. n : w[k] = u[k]}
    <2> HIDE DEF step
    <2>1. 0 \in G
        BY <1>3, <1>9, <1>10
    <2>2. ASSUME NEW k \in 1 .. n, k - 1 \in G PROVE k \in G
        <3>1. k \in 0 .. n /\ k # 0 /\ w[k - 1] = u[k - 1]
            BY <1>3, <2>2
        <3>2. w[k] = step(k, w[k - 1]) /\ u[k] = step(k, u[k - 1])
            BY <1>9, <1>10, <3>1
        <3> QED BY <3>1, <3>2
    <2> HIDE DEF G, n
    <2>3. 0 .. n \subseteq G
        BY <1>3, <2>1, <2>2, UpTo
    <2> QED BY <2>3 DEF G
<1>12. TimerQueue(timers', S(n))
    <2>1. n \in 0 .. n
        BY <1>3
    <2>2. timers' = w[n]
        BY <1>2, <1>10
    <2> HIDE DEF n
    <2> QED BY <1>8, <1>11, <2>1, <2>2
<1>13. S(n) = Timed \ On(l)
    BY <1>2 DEF S, On, Members
<1> QED BY <1>12, <1>13, QueueLeft

LEMMA NotifyAllKeeps ==
    ASSUME IInv, NEW m \in Monitor, MonitorNotifyAll(m)
    PROVE  Kept
<1> DEFINE l == WaitingOn(m)
           b == BlockedOn(m)
           L == MoveAllToEnd(lists, b, l)
           F == [contents EXCEPT ![b] = contents[b] \o contents[l], ![l] = <<>>]
<1>1. /\ state' = state /\ activeStatus' = activeStatus /\ currentPriority' = currentPriority
      /\ pJoinedThread' = pJoinedThread /\ pWaitMonitor' = pWaitMonitor
      /\ timerCallback' = timerCallback /\ pOwner' = pOwner /\ counter' = counter
      /\ depth' = depth /\ waitMonitorDepth' = waitMonitorDepth /\ tick' = tick
      /\ nesting' = nesting /\ reschedulerEnabledIndicator' = reschedulerEnabledIndicator
      /\ pOwner[m] = current /\ Types
    BY DEF MonitorNotifyAll, threadVars, waitVars, monitorVars, IInv
<1>2. /\ l \in ListNames /\ b \in ListNames /\ NotRunning(l) /\ NotRunning(b) /\ l # b
      /\ b # AsleepList /\ \A n \in Monitor : b # WaitingOn(n)
    BY NamesAreNames, NotRunningNames, NamesDiffer
<1>3. /\ Sound(lists, contents) /\ contents \in [ListNames -> Seq(Thread)]
      /\ currentPriority \in [Thread -> Priorities] /\ current \in Thread
    BY <1>1, SoundIsFunction DEF IInv, Types, Sound
<1>4. QueueSound' /\ Timed' = Timed \ On(l)
    <2>1. AsSequence(lists, l) = contents[l]
        BY <1>2 DEF contents, SequencesOf
    <2>2. timers' = timersWithout(contents[l])
        BY <2>1 DEF MonitorNotifyAll
    <2> QED BY <2>2, WaitersUntimed
<1>5. conditionalContextSwitch(L, currentPriority)
    BY DEF MonitorNotifyAll
<1>6. Sound(L, F)
    BY <1>2, <1>3, OthersMoved
<1>7. \A j \in ListNames : F[j] = IF j = b THEN contents[b] \o contents[l]
                                  ELSE IF j = l THEN <<>> ELSE contents[j]
    BY <1>2, <1>3
<1>8. Members(contents[b] \o contents[l]) = On(b) \cup On(l) /\ Members(<<>>) = {}
    <2>1. contents[b] \in Seq(Thread) /\ contents[l] \in Seq(Thread)
        BY <1>2, <1>3
    <2>2. \A s, t \in Seq(Thread) : Members(s \o t) = Members(s) \cup Members(t)
        <3> SUFFICES ASSUME NEW s \in Seq(Thread), NEW t \in Seq(Thread)
                     PROVE  Members(s \o t) = Members(s) \cup Members(t)
            OBVIOUS
        <3>1. /\ Len(s) \in Nat /\ Len(t) \in Nat /\ Len(s \o t) = Len(s) + Len(t)
              /\ \A i \in 1 .. Len(s) + Len(t) :
                     (s \o t)[i] = IF i <= Len(s) THEN s[i] ELSE t[i - Len(s)]
            BY LenProperties, ConcatProperties
        <3>2. ASSUME NEW x \in Members(s \o t) PROVE x \in Members(s) \cup Members(t)
            <4>1. PICK i \in 1 .. Len(s) + Len(t) : x = (s \o t)[i]
                BY <3>1, <3>2 DEF Members
            <4>2. CASE i <= Len(s)
                <5>1. i \in 1 .. Len(s) /\ x = s[i]
                    BY <3>1, <4>1, <4>2
                <5> QED BY <5>1 DEF Members
            <4>3. CASE ~(i <= Len(s))
                <5>1. i - Len(s) \in 1 .. Len(t) /\ x = t[i - Len(s)]
                    BY <3>1, <4>1, <4>3
                <5> QED BY <5>1 DEF Members
            <4> QED BY <4>2, <4>3
        <3>3. ASSUME NEW x \in Members(s) PROVE x \in Members(s \o t)
            <4>1. PICK i \in 1 .. Len(s) : x = s[i]
                BY <3>3 DEF Members
            <4>2. i \in 1 .. Len(s \o t) /\ x = (s \o t)[i]
                BY <3>1, <4>1
            <4> QED BY <4>2 DEF Members
        <3>4. ASSUME NEW x \in Members(t) PROVE x \in Members(s \o t)
            <4>1. PICK i \in 1 .. Len(t) : x = t[i]
                BY <3>4 DEF Members
            <4>2. PICK j \in 1 .. Len(s) + Len(t) : j = Len(s) + i
                BY <3>1
            <4>3. j \in 1 .. Len(s \o t) /\ x = (s \o t)[j]
                BY <3>1, <4>1, <4>2
            <4> QED BY <4>3 DEF Members
        <3> QED BY <3>2, <3>3, <3>4
    <2>3. Members(<<>>) = {}
        BY DEF Members
    <2> QED BY <2>1, <2>2, <2>3 DEF On
<1> HIDE DEF F, L
<1>9. \A j : NotRunning(j) /\ j # l /\ j # b => F[j] = contents[j]
    BY <1>7 DEF NotRunning
<1>10. \A p \in Priorities : F[RunningAt(p)] = contents[RunningAt(p)]
    BY <1>2, <1>7, NamesAreNames DEF NotRunning
<1>11. ByPriority(F, currentPriority)
    BY <1>10, RunningByPriority DEF ByPriority
<1>12. First(F, currentPriority, current)
    BY <1>10, CurrentFacts DEF First
<1>13. Arrived(F, currentPriority) /\ OnHighest'
    BY <1>3, <1>5, <1>6, <1>11, <1>12, Conditional
<1>14. \A j \in ListNames : On(j)' = IF j = b THEN On(b) \cup On(l)
                                     ELSE IF j = l THEN {} ELSE On(j)
    BY <1>7, <1>8, <1>13 DEF Arrived, On
<1>15. PendedAreCounted' /\ PendedByPriority' /\ InOrder
    <2>1. \A s \in Semaphore : contents'[PendingOn(s)] = contents[PendingOn(s)]
        BY <1>9, <1>13, NotRunningNames, NamesDiffer DEF Arrived
    <2> QED BY <1>1, <2>1, PendedKept
<1>16. Types'
    <2>1. current' \in Thread
        BY <1>13 DEF Arrived
    <2>2. interruptedFlag' \in [Thread -> BOOLEAN]
        BY <1>1 DEF MonitorNotifyAll, Types
    <2> QED BY <1>1, <2>1, <2>2 DEF Types
<1>17. ASSUME NEW u \in Thread, u \notin On(l)
       PROVE  SameThread(u) /\ SameTimer(u) /\ StaysPut(u)
    <2>1. StaysPut(u)
        BY <1>2, <1>14, <1>17 DEF StaysPut
    <2> QED BY <1>1, <1>4, <1>17, <2>1 DEF SameThread, SameTimer
<1>18. ASSUME NEW u \in Thread, u \in On(l) PROVE Placed(u)' /\ Clocked(u)'
    <2>1. /\ Active(u) /\ pWaitMonitor[u] = m /\ AsleepOnMonitor(u)
          /\ \A k \in ListNames : u \in On(k) <=> k = l
        BY <1>18, WaiterFacts
    <2>2. \A k \in ListNames : u \in On(k)' <=> k = b
        BY <1>2, <1>14, <2>1
    <2>3. Active(u)' /\ Shows(u, b)'
        BY <1>1, <2>1 DEF Active, Shows, ShowsMonitor, AsleepOnMonitor
    <2>4. Placed(u)'
        BY <1>2, <2>2, <2>3 DEF Placed
    <2>5. u \notin Timed'
        BY <1>4, <1>18
    <2>6. ~TimedOut(u)'
        BY <1>2, <2>2, NamesAreNames DEF TimedOut
    <2>7. Clocked(u)'
        BY <2>5, <2>6 DEF Clocked
    <2> QED BY <2>4, <2>7
<1>19. IdleIsReady'
    BY <1>1 DEF IInv, IdleIsReady, Active
<1>20. JoinedAreAlive'
    <2>1. \A v \in Thread : On(Joining(v))' = On(Joining(v))
        BY <1>14, NamesAreNames, NamesDiffer
    <2> QED BY <1>1, <2>1 DEF IInv, JoinedAreAlive, Active
<1>21. BlockedAreOwned'
    <2>1. \A n \in Monitor : n # m => On(BlockedOn(n))' = On(BlockedOn(n))
        BY <1>14, NamesAreNames, NamesDiffer
    <2>2. pOwner'[m] # NULL
        BY <1>1, <1>3, ThreadFacts
    <2> QED BY <1>1, <2>1, <2>2 DEF IInv, BlockedAreOwned
<1>22. IInv'
    BY <1>1, <1>4, <1>13, <1>15, <1>16, <1>17, <1>18, <1>19, <1>20, <1>21, SomeMove
<1> QED BY <1>13, <1>15, <1>22 DEF Kept, StaysHighest

-----------------------------------------------------------------------------
(* The death of a thread. *)

ListMemory ==
    [head : [ListNames -> ThreadOrNull], next : [Thread -> ThreadOrNull],
     prev : [Thread -> ThreadOrNull], map : SUBSET Priorities]

LEMMA SoundIsMemory ==
    ASSUME NEW L, NEW D, Sound(L, D)
    PROVE  L \in ListMemory
<1>1. /\ L.head \in [ListNames -> ThreadOrNull] /\ L.next \in [Thread -> ThreadOrNull]
      /\ L.prev \in [Thread -> ThreadOrNull] /\ DOMAIN L = {"head", "next", "prev", "map"}
      /\ L = [x \in DOMAIN L |-> L[x]]
    BY DEF Sound, Pointers, Represents, IsMemory, ThreadOrNull
<1>2. L.map \in SUBSET Priorities
    BY DEF Sound, NonEmpty
<1> QED BY <1>1, <1>2 DEF ListMemory

\* After the first k threads of q, the threads on list l, have become runnable.
Unjoined(D, l, q, k) ==
    /\ Len(D[l]) = Len(q) - k
    /\ \A i \in 1 .. Len(q) - k : D[l][i] = q[k + i]
    /\ Same(contents, D, l)
    /\ \A u \in Thread, j \in ListNames :
           u \in Members(D[j]) <=>
               IF \E i \in 1 .. k : u = q[i] THEN j = RunningAt(currentPriority[u])
               ELSE u \in On(j)
    /\ First(D, currentPriority, current)

LEMMA UnjoinedNext ==
    ASSUME IInv, NEW l, NotRunning(l), NEW q, q = contents[l], NEW k \in 1 .. Len(q),
           NEW M, NEW D, Sound(M, D), Unjoined(D, l, q, k - 1)
    PROVE  \E F : /\ Sound(addThreadToRunningThreads(RemoveOneFromFront(M, l), q[k]), F)
                  /\ Unjoined(F, l, q, k)
<1>1. l \in ListNames /\ Types
    BY DEF NotRunning, IInv
<1>2. /\ q \in Seq(Thread) /\ Len(q) \in Nat /\ \A i \in 1 .. Len(q) : q[i] \in Thread
      /\ \A i, j \in 1 .. Len(q) : q[i] = q[j] => i = j
    <2>1. Represents(lists, ListNames, Thread, contents)
        BY DEF IInv, Sound, Pointers
    <2> QED BY <1>1, <2>1, Contents
<1>3. k - 1 \in 0 .. Len(q) - 1 /\ k \in Int /\ Len(q) - (k - 1) \in Nat
    BY <1>2
<1>4. PICK a : a = k - 1
    OBVIOUS
<1>5. a \in Nat /\ a + 1 = k /\ Len(q) - a \in Nat /\ Len(q) - a > 0 /\ 1 \in 1 .. Len(q) - a
      /\ a \in 0 .. Len(q) /\ Len(q) - k = Len(q) - a - 1
    BY <1>2, <1>4
<1>6. Unjoined(D, l, q, a)
    BY <1>4
<1>7. PICK s : s = D[l]
    OBVIOUS
<1>8. s \in Seq(Thread) /\ Len(s) = Len(q) - a /\ s[1] = q[k] /\ s # <<>>
      /\ \A i \in 1 .. Len(s) : s[i] = q[a + i]
    <2>1. s \in Seq(Thread) /\ (s = <<>> <=> Len(s) = 0)
        BY <1>1, <1>7, SoundIsFunction DEF Sound
    <2>2. Len(s) = Len(q) - a /\ \A i \in 1 .. Len(q) - a : s[i] = q[a + i]
        BY <1>6, <1>7 DEF Unjoined
    <2> QED BY <1>5, <2>1, <2>2
<1>9. 1 \in 1 .. Len(D[l]) /\ D[l][1] = q[k]
    BY <1>5, <1>7, <1>8
<1>10. RemoveOneFromFront(M, l) = RemoveOne(M, l, D[l][1])
    <2>1. M.head[l] = D[l][1] /\ M.head[l] \in Thread
        BY <1>1, <1>7, <1>8, SoundIsFunction DEF Sound
    <2> QED BY <2>1, ThreadFacts DEF RemoveOneFromFront
<1>11. PICK F : /\ Sound(addThreadToRunningThreads(RemoveOne(M, l, D[l][1]), D[l][1]), F)
                /\ Goes(D, F, D[l][1], RunningAt(currentPriority[D[l][1]]))
                /\ Same(D, F, l) /\ F[l] = Without(D[l], 1)
                /\ \A p \in Priorities : D[RunningAt(p)] # <<>> =>
                      F[RunningAt(p)] # <<>> /\ F[RunningAt(p)][1] = D[RunningAt(p)][1]
    BY <1>1, <1>9, Released
<1>12. Sound(addThreadToRunningThreads(RemoveOneFromFront(M, l), q[k]), F)
    BY <1>9, <1>10, <1>11
<1>13. Len(F[l]) = Len(q) - k /\ \A i \in 1 .. Len(q) - k : F[l][i] = q[k + i]
    <2>1. 1 \in 1 .. Len(s)
        BY <1>5, <1>8
    <2>2. Len(Without(s, 1)) = Len(s) - 1
          /\ \A i \in 1 .. Len(s) - 1 : Without(s, 1)[i] = IF i < 1 THEN s[i] ELSE s[i + 1]
        BY <1>8, <2>1, WithoutOne
    <2>3. F[l] = Without(s, 1)
        BY <1>7, <1>11
    <2>4. ASSUME NEW i \in 1 .. Len(q) - k PROVE F[l][i] = q[k + i]
        <3>1. i \in 1 .. Len(s) - 1 /\ i + 1 \in 1 .. Len(s) /\ a + (i + 1) = k + i /\ ~(i < 1)
            BY <1>2, <1>5, <1>8
        <3>2. F[l][i] = s[i + 1]
            BY <2>2, <2>3, <3>1
        <3>3. s[i + 1] = q[a + (i + 1)]
            BY <1>8, <3>1
        <3> QED BY <3>1, <3>2, <3>3
    <2> QED BY <1>2, <1>5, <1>8, <2>2, <2>3, <2>4
<1>14. Same(contents, F, l)
    BY <1>6, <1>11 DEF Unjoined, Same
<1>15. First(F, currentPriority, current)
    <2>1. First(D, currentPriority, current) /\ currentPriority[current] \in Priorities
        BY <1>6, CurrentFacts DEF Unjoined
    <2> QED BY <1>11, <2>1, FirstKept
<1>16. ASSUME NEW u \in Thread, NEW j \in ListNames
       PROVE  u \in Members(F[j]) <=>
                  IF \E i \in 1 .. k : u = q[i] THEN j = RunningAt(currentPriority[u])
                  ELSE u \in On(j)
    <2>1. Members(F[j]) = IF j = RunningAt(currentPriority[q[k]])
                          THEN Members(D[j]) \cup {q[k]} ELSE Members(D[j]) \ {q[k]}
        BY <1>9, <1>11 DEF Goes
    <2>2. CASE u = q[k]
        <3>1. k \in 1 .. k
            BY <1>2
        <3> QED BY <2>1, <2>2, <3>1
    <2>3. CASE u # q[k]
        <3>1. u \in Members(F[j]) <=> u \in Members(D[j])
            BY <2>1, <2>3
        <3>2. u \in Members(D[j]) <=>
                  IF \E i \in 1 .. a : u = q[i] THEN j = RunningAt(currentPriority[u])
                  ELSE u \in On(j)
            BY <1>6 DEF Unjoined
        <3>3. (\E i \in 1 .. k : u = q[i]) <=> \E i \in 1 .. a : u = q[i]
            <4>1. \A i \in 1 .. a : i \in 1 .. k
                BY <1>5
            <4>2. \A i \in 1 .. k : i # k => i \in 1 .. a
                BY <1>5
            <4> QED BY <2>3, <4>1, <4>2
        <3> QED BY <3>1, <3>2, <3>3
    <2> QED BY <2>2, <2>3
<1>17. Unjoined(F, l, q, k)
    BY <1>13, <1>14, <1>15, <1>16 DEF Unjoined
<1> QED BY <1>12, <1>17

\* releaseJoinedThreads.
LEMMA AllUnjoined ==
    ASSUME IInv, NEW l, l = Joining(current), NEW q, q = contents[l]
    PROVE  \E D : Sound(afterReleasingJoined(lists, q), D) /\ Unjoined(D, l, q, Len(q))
<1> DEFINE n == Len(q)
           step(k, M) == addThreadToRunningThreads(RemoveOneFromFront(M, l), q[k])
           Good(k, M) == \E D : Sound(M, D) /\ Unjoined(D, l, q, k)
           f == [k \in 1 .. n |-> [M \in ListMemory |->
                    IF step(k, M) \in ListMemory THEN step(k, M) ELSE M]]
<1>1. NotRunning(l) /\ l \in ListNames
    BY NotRunningNames, CurrentFacts DEF NotRunning
<1>2. n \in Nat
    BY <1>1, SoundIsFunction DEF IInv, Sound
<1>3. ASSUME NEW k, NEW M, Good(k, M) PROVE M \in ListMemory
    BY <1>3, SoundIsMemory
<1>4. ASSUME NEW k \in 1 .. n, NEW M, Good(k - 1, M)
      PROVE  Good(k, step(k, M)) /\ step(k, M) \in ListMemory
    <2>1. PICK D : Sound(M, D) /\ Unjoined(D, l, q, k - 1)
        BY <1>4
    <2>2. \E F : Sound(step(k, M), F) /\ Unjoined(F, l, q, k)
        BY <1>1, <2>1, UnjoinedNext
    <2> HIDE DEF step
    <2> QED BY <1>3, <2>2
<1>5. Good(0, lists)
    <2>1. Sound(lists, contents)
        BY DEF IInv
    <2>2. Unjoined(contents, l, q, 0)
        <3>1. \A i \in 1 .. 0 : FALSE
            OBVIOUS
        <3>2. First(contents, currentPriority, current)
            BY DEF IInv, CurrentIsFirst
        <3>3. Len(q) - 0 = Len(q) /\ \A i \in 1 .. Len(q) : 0 + i = i
            BY <1>2
        <3> QED BY <3>1, <3>2, <3>3 DEF Unjoined, Same, On
    <2> QED BY <2>1, <2>2
<1> HIDE DEF Good
<1>6. PICK u \in [0 .. n -> ListMemory] :
          u = [k \in 0 .. n |-> IF k = 0 THEN lists ELSE f[k][u[k - 1]]]
    <2>1. f \in [1 .. n -> [ListMemory -> ListMemory]]
        OBVIOUS
    <2>2. lists \in ListMemory
        BY <1>3, <1>5
    <2> HIDE DEF f, n
    <2>3. \E u : Stepping(u, n, ListMemory, lists, f)
        BY <1>2, <2>1, <2>2, StepByStep
    <2> QED BY <2>3 DEF Stepping
<1> HIDE DEF step
<1>7. ASSUME NEW k \in 1 .. n, Good(k - 1, u[k - 1])
      PROVE  u[k] = step(k, u[k - 1]) /\ Good(k, u[k])
    <2>1. u[k - 1] \in ListMemory /\ u[k] = f[k][u[k - 1]]
        <3> HIDE DEF f, n
        <3>1. k - 1 \in 0 .. n /\ k \in 0 .. n /\ k # 0
            BY <1>2
        <3>2. u[k] = IF k = 0 THEN lists ELSE f[k][u[k - 1]]
            BY <1>6, <3>1, Zenon
        <3> QED BY <1>6, <3>1, <3>2
    <2>2. Good(k, step(k, u[k - 1])) /\ step(k, u[k - 1]) \in ListMemory
        BY <1>4, <1>7
    <2>3. f[k][u[k - 1]] = step(k, u[k - 1])
        BY <2>1, <2>2
    <2> QED BY <2>1, <2>2, <2>3
<1>8. \A k \in 0 .. n : Good(k, u[k])
    <2> DEFINE G == {k \in 0 .. n : Good(k, u[k])}
    <2>1. 0 \in G
        <3>1. u[0] = lists
            <4> HIDE DEF f
            <4> QED BY <1>2, <1>6
        <3> QED BY <1>2, <1>5, <3>1
    <2>2. ASSUME NEW k \in 1 .. n, k - 1 \in G PROVE k \in G
        <3>1. Good(k - 1, u[k - 1])
            BY <2>2
        <3>2. Good(k, u[k])
            BY <1>7, <3>1
        <3> QED BY <3>2
    <2> HIDE DEF G, n
    <2>3. 0 .. n \subseteq G
        BY <1>2, <2>1, <2>2, UpTo
    <2> QED BY <2>3 DEF G
<1>9. u = [k \in 0 .. n |-> IF k = 0 THEN lists ELSE step(k, u[k - 1])]
    <2>1. \A k \in 1 .. n : u[k] = step(k, u[k - 1])
        <3>1. \A k \in 1 .. n : k - 1 \in 0 .. n
            BY <1>2
        <3> QED BY <1>7, <1>8, <3>1
    <2>2. u[0] = lists
        <3> HIDE DEF f
        <3> QED BY <1>2, <1>6
    <2>3. u = [k \in 0 .. n |-> u[k]]
        BY <1>6
    <2>4. \A k \in 0 .. n : u[k] = IF k = 0 THEN lists ELSE step(k, u[k - 1])
        BY <1>2, <2>1, <2>2
    <2> QED BY <2>3, <2>4
<1>10. PICK w : /\ w = [k \in 0 .. n |-> IF k = 0 THEN lists ELSE step(k, w[k - 1])]
                /\ afterReleasingJoined(lists, q) = w[n]
    <2> DEFINE v == CHOOSE v : v = [k \in 0 .. n |-> IF k = 0 THEN lists ELSE step(k, v[k - 1])]
    <2>1. afterReleasingJoined(lists, q) = v[n]
        BY DEF afterReleasingJoined, step
    <2>2. v = [k \in 0 .. n |-> IF k = 0 THEN lists ELSE step(k, v[k - 1])]
        BY <1>9
    <2> HIDE DEF v
    <2> QED BY <2>1, <2>2
<1>11. \A k \in 0 .. n : w[k] = u[k]
    <2> DEFINE G == {k \in 0 .. n : w[k] = u[k]}
    <2>1. 0 \in G
        BY <1>2, <1>9, <1>10
    <2>2. ASSUME NEW k \in 1 .. n, k - 1 \in G PROVE k \in G
        <3>1. k \in 0 .. n /\ k # 0 /\ w[k - 1] = u[k - 1]
            BY <1>2, <2>2
        <3>2. w[k] = step(k, w[k - 1]) /\ u[k] = step(k, u[k - 1])
            BY <1>9, <1>10, <3>1
        <3> QED BY <3>1, <3>2
    <2> HIDE DEF G, n
    <2>3. 0 .. n \subseteq G
        BY <1>2, <2>1, <2>2, UpTo
    <2> QED BY <2>3 DEF G
<1>12. Good(n, afterReleasingJoined(lists, q))
    <2>1. n \in 0 .. n
        BY <1>2
    <2> HIDE DEF n
    <2> QED BY <1>8, <1>10, <1>11, <2>1
<1> QED BY <1>12 DEF Good

\* Where the threads are when the current one has died.
LEMMA CurrentDies ==
    ASSUME IInv, NEW t \in Thread, t = current, current # IdleThread,
           generatedContextSwitch(removeCurrentThreadFromRunningThreads(
               afterReleasingJoined(lists, contents[Joining(t)])))
    PROVE  /\ OnHighest'
           /\ \E F : Arrived(F, currentPriority)
           /\ \A s \in Semaphore : contents'[PendingOn(s)] = contents[PendingOn(s)]
           /\ \A j : NotRunning(j) /\ j # Joining(t) => contents'[j] = contents[j]
           /\ \A u \in Thread, j \in ListNames :
                  u \in On(j)' <=>
                      /\ u # t
                      /\ IF u \in On(Joining(t)) THEN j = RunningAt(currentPriority[u])
                         ELSE u \in On(j)
<1>1. PICK l : l = Joining(t)
    OBVIOUS
<1>2. PICK q : q = contents[l]
    OBVIOUS
<1>3. /\ l \in ListNames /\ NotRunning(l) /\ Sound(lists, contents)
      /\ currentPriority \in [Thread -> Priorities]
    BY <1>1, NotRunningNames DEF NotRunning, IInv, Types
<1>4. PICK L : L = afterReleasingJoined(lists, q)
    OBVIOUS
<1>5. PICK D : Sound(L, D) /\ Unjoined(D, l, q, Len(q))
    BY <1>1, <1>2, <1>4, AllUnjoined
<1>6. \A u : (\E i \in 1 .. Len(q) : u = q[i]) <=> u \in On(l)
    BY <1>2 DEF On, Members
<1>7. \A u \in Thread, j \in ListNames :
          u \in Members(D[j]) <=>
              IF u \in On(l) THEN j = RunningAt(currentPriority[u]) ELSE u \in On(j)
    <2>1. \A u \in Thread, j \in ListNames :
              u \in Members(D[j]) <=>
                  IF \E i \in 1 .. Len(q) : u = q[i] THEN j = RunningAt(currentPriority[u])
                  ELSE u \in On(j)
        BY <1>5 DEF Unjoined
    <2> QED BY <1>6, <2>1
<1>8. First(D, currentPriority, current) /\ Same(contents, D, l)
    BY <1>5 DEF Unjoined
<1>9. PICK F : /\ Sound(removeCurrentThreadFromRunningThreads(L), F)
               /\ Gone(D, F, current)
               /\ \A j : NotRunning(j) => F[j] = D[j]
    BY <1>5, <1>8, CurrentRemoved
<1>10. \A j \in ListNames : Members(F[j]) = Members(D[j]) \ {t}
    BY <1>9 DEF Gone
<1>11. ByPriority(F, currentPriority)
    <2> SUFFICES ASSUME NEW p \in Priorities, NEW u \in Members(F[RunningAt(p)])
                 PROVE  currentPriority[u] = p
        BY DEF ByPriority
    <2>1. RunningAt(p) \in ListNames
        BY NamesAreNames
    <2>2. u \in Thread /\ u \in Members(D[RunningAt(p)])
        BY <1>9, <1>10, <2>1, MembersAreThreads
    <2>3. CASE u \in On(l)
        BY <1>7, <2>1, <2>2, <2>3, NamesDiffer
    <2>4. CASE u \notin On(l)
        BY <1>7, <2>1, <2>2, <2>4, RunningByPriority DEF ByPriority, On
    <2> QED BY <2>3, <2>4
<1>12. NonEmpty(F) # {}
    <2>1. /\ currentPriority[IdleThread] \in Priorities /\ IdleThread \in Thread
          /\ IdleThread \in On(RunningAt(currentPriority[IdleThread]))
          /\ RunningAt(currentPriority[IdleThread]) \in ListNames
        BY CurrentFacts, NamesAreNames
    <2>2. IdleThread \in Members(D[RunningAt(currentPriority[IdleThread])])
        BY <1>7, <2>1
    <2>3. IdleThread \in Members(F[RunningAt(currentPriority[IdleThread])])
        BY <1>10, <2>1, <2>2
    <2> QED BY <1>9, <2>1, <2>3, IdleKeeps
<1>13. generatedContextSwitch(removeCurrentThreadFromRunningThreads(L))
    BY <1>1, <1>2, <1>4
<1>14. Arrived(F, currentPriority) /\ OnHighest'
    <2> HIDE DEF removeCurrentThreadFromRunningThreads
    <2> QED BY <1>9, <1>11, <1>12, <1>13, Generated
<1>15. \A j \in ListNames : On(j)' = Members(D[j]) \ {t}
    BY <1>10, <1>14 DEF Arrived, On
<1>16. \A s \in Semaphore : contents'[PendingOn(s)] = contents[PendingOn(s)]
    <2>1. \A s \in Semaphore : NotRunning(PendingOn(s)) /\ PendingOn(s) # l
        BY <1>1, NotRunningNames, NamesDiffer
    <2> QED BY <1>8, <1>9, <1>14, <2>1 DEF Arrived, Same
<1>17. ASSUME NEW u \in Thread, NEW j \in ListNames
       PROVE  u \in On(j)' <=>
                  /\ u # t
                  /\ IF u \in On(l) THEN j = RunningAt(currentPriority[u]) ELSE u \in On(j)
    BY <1>7, <1>15
<1>18. \A j : NotRunning(j) /\ j # l => contents'[j] = contents[j]
    BY <1>8, <1>9, <1>14 DEF Arrived, Same
<1> QED BY <1>1, <1>14, <1>16, <1>17, <1>18

LEMMA RemoveKeeps ==
    ASSUME IInv, RemoveThread
    PROVE  Kept
<1>1. PICK t \in Thread : t = current
    BY DEF IInv, Types
<1>2. PICK l : l = Joining(t)
    OBVIOUS
<1>3. l \in ListNames /\ NotRunning(l) /\ l # AsleepList /\ \A m \in Monitor : l # WaitingOn(m)
    BY <1>2, NotRunningNames, NamesDiffer DEF NotRunning
<1>4. AsSequence(lists, l) = contents[l] /\ EntriesOf(lists, l) = On(l)
    BY <1>3, SequencesRead DEF IInv, Sound, On
<1>5. /\ state' = [state EXCEPT ![t] = "FINISHED"] /\ currentPriority' = currentPriority
      /\ pJoinedThread' = pJoinedThread /\ pWaitMonitor' = pWaitMonitor
      /\ waitMonitorDepth' = waitMonitorDepth /\ timers' = timers
      /\ timerCallback' = timerCallback /\ pOwner' = pOwner /\ depth' = depth
      /\ counter' = counter /\ tick' = tick /\ nesting' = nesting
      /\ reschedulerEnabledIndicator' = reschedulerEnabledIndicator
      /\ activeStatus' = [u \in Thread |-> IF u \in On(l) THEN "RUNNING" ELSE activeStatus[u]]
      /\ interruptedFlag' = [u \in Thread |-> interruptedFlag[u] /\ u \notin On(l)]
      /\ t # IdleThread /\ Types
    BY <1>1, <1>2, <1>4 DEF RemoveThread, waitVars, timerVars, monitorVars, Calls, IInv
<1>6. generatedContextSwitch(removeCurrentThreadFromRunningThreads(
          afterReleasingJoined(lists, contents[Joining(t)])))
    BY <1>1, <1>2, <1>4 DEF RemoveThread
<1>7. /\ OnHighest'
      /\ \E F : Arrived(F, currentPriority)
      /\ \A s \in Semaphore : contents'[PendingOn(s)] = contents[PendingOn(s)]
      /\ \A u \in Thread, j \in ListNames :
             u \in On(j)' <=>
                 /\ u # t
                 /\ IF u \in On(Joining(t)) THEN j = RunningAt(currentPriority[u])
                    ELSE u \in On(j)
    BY <1>1, <1>5, <1>6, CurrentDies
<1>8. PICK F : Arrived(F, currentPriority)
    BY <1>7
<1>9. \A u \in Thread, j \in ListNames :
          u \in On(j)' <=>
              /\ u # t
              /\ IF u \in On(l) THEN j = RunningAt(currentPriority[u]) ELSE u \in On(j)
    BY <1>2, <1>7
<1>10. QueueSound' /\ Timed' = Timed
    BY <1>5, TimersKept
<1>11. PendedAreCounted' /\ PendedByPriority' /\ InOrder
    BY <1>5, <1>7, PendedKept
<1>12. Types'
    <2>1. current' \in Thread
        BY <1>8 DEF Arrived
    <2>2. activeStatus' \in [Thread -> Status]
        BY <1>5 DEF Types, Status
    <2>3. interruptedFlag' \in [Thread -> BOOLEAN]
        BY <1>5 DEF Types
    <2>4. state' \in [Thread -> {"NOT_STARTED", "ACTIVE", "FINISHED"}]
        BY <1>5 DEF Types
    <2> QED BY <1>5, <2>1, <2>2, <2>3, <2>4 DEF Types
<1>13. t \notin On(l) /\ activeStatus[t] = "RUNNING" /\ pWaitMonitor[t] = NULL /\ t \notin Timed
    <2>1. \A j \in ListNames : t \in On(j) <=> j = RunningAt(currentPriority[t])
        BY <1>1, CurrentFacts
    <2>2. currentPriority[t] \in Priorities
        BY <1>5 DEF Types
    <2>3. activeStatus[t] = "RUNNING" /\ pWaitMonitor[t] = NULL
        BY <1>1, CurrentFacts
    <2>4. t \notin Timed
        BY <1>1, CurrentNotTimed
    <2> QED BY <1>3, <2>1, <2>2, <2>3, <2>4 DEF NotRunning
<1>14. ASSUME NEW u \in Thread, u # t PROVE Active(u)' <=> Active(u)
    BY <1>5, <1>14 DEF Active, Types
<1>15. ASSUME NEW u \in Thread, u # t, u \notin On(l)
       PROVE  SameThread(u) /\ SameTimer(u) /\ StaysPut(u)
    <2>1. StaysPut(u)
        BY <1>9, <1>15 DEF StaysPut
    <2>2. SameThread(u)
        BY <1>5, <1>15 DEF SameThread, Types
    <2>3. SameTimer(u)
        BY <1>5, <1>10 DEF SameTimer
    <2> QED BY <2>1, <2>2, <2>3
<1>16. Placed(t)' /\ Clocked(t)'
    <2>1. state'[t] = "FINISHED" /\ activeStatus'[t] = "RUNNING" /\ pWaitMonitor'[t] = NULL
        BY <1>5, <1>13 DEF Types
    <2>2. \A k \in ListNames : t \notin On(k)'
        BY <1>9
    <2>3. Placed(t)'
        BY <2>1, <2>2 DEF Placed, Active
    <2>4. t \notin Timed' /\ ~TimedOut(t)'
        BY <1>10, <1>13, <2>1, <2>2, NamesAreNames DEF TimedOut
    <2> QED BY <2>3, <2>4 DEF Clocked
<1>17. ASSUME NEW u \in Thread, u \in On(l) PROVE Placed(u)' /\ Clocked(u)'
    <2>1. Active(u) /\ Shows(u, l)
        BY <1>3, <1>17, OnList DEF IInv
    <2>2. u # t /\ pWaitMonitor[u] = NULL
        BY <1>2, <1>13, <1>17, <2>1, ShownByList
    <2>3. PICK r \in ListNames : r = RunningAt(currentPriority[u])
        BY <1>5, NamesAreNames DEF Types
    <2>4. \A k \in ListNames : u \in On(k)' <=> k = r
        BY <1>9, <1>17, <2>2, <2>3
    <2>5. activeStatus'[u] = "RUNNING"
        BY <1>5, <1>17
    <2>6. Active(u)' /\ Shows(u, r)'
        BY <1>5, <1>14, <2>1, <2>2, <2>3, <2>5 DEF Shows, ShowsOther
    <2>7. Placed(u)'
        BY <2>4, <2>6 DEF Placed
    <2>8. u \notin Timed'
        BY <1>3, <1>10, <1>17, NotTimed
    <2>9. ~TimedOut(u)'
        BY <2>3, <2>4, <2>5, NamesAreNames, NamesDiffer DEF TimedOut
    <2> QED BY <2>7, <2>8, <2>9 DEF Clocked
<1>18. IdleIsReady'
    <2>1. Active(IdleThread) /\ activeStatus[IdleThread] = "RUNNING" /\ IdleThread \in Thread
        BY ThreadFacts DEF IInv, IdleIsReady
    <2>2. Active(IdleThread)'
        BY <1>5, <1>14, <2>1
    <2> QED BY <1>5, <2>1, <2>2 DEF IdleIsReady
<1>19. JoinedAreAlive'
    <2> SUFFICES ASSUME NEW v \in Thread, NEW u \in Thread, v \in On(Joining(u))'
                 PROVE  Active(u)'
        BY DEF JoinedAreAlive
    <2>1. Joining(u) \in ListNames /\ currentPriority[v] \in Priorities
        BY <1>5, NamesAreNames DEF Types
    <2>2. v \notin On(l) /\ v \in On(Joining(u))
        BY <1>9, <2>1, NamesDiffer
    <2>3. u # t
        BY <1>2, <2>2
    <2>4. Active(u)
        BY <2>2 DEF IInv, JoinedAreAlive
    <2> QED BY <1>14, <2>3, <2>4
<1>20. BlockedAreOwned'
    <2> SUFFICES ASSUME NEW m \in Monitor, NEW u \in Thread, u \in On(BlockedOn(m))'
                 PROVE  pOwner'[m] # NULL
        BY DEF BlockedAreOwned
    <2>1. BlockedOn(m) \in ListNames
        BY NamesAreNames
    <2>2. u \in On(BlockedOn(m))
        BY <1>9, <2>1, NamesDiffer
    <2> QED BY <1>5, <2>2 DEF IInv, BlockedAreOwned
<1>21. IInv'
    <2>1. PICK S : S = On(l) \cup {t}
        OBVIOUS
    <2>2. \A u \in Thread : u \notin S => SameThread(u) /\ SameTimer(u) /\ StaysPut(u)
        BY <1>15, <2>1
    <2>3. \A u \in Thread : u \in S => Placed(u)' /\ Clocked(u)'
        BY <1>16, <1>17, <2>1
    <2> QED BY <1>5, <1>8, <1>10, <1>11, <1>12, <1>18, <1>19, <1>20, <2>2, <2>3, SomeMove
<1> QED BY <1>7, <1>11, <1>21 DEF Kept, StaysHighest

-----------------------------------------------------------------------------
(* The invariant holds, and what every step does. *)

LEMMA EmptyRepresents ==
    ASSUME NEW Ls, NEW E
    PROVE  Represents(EmptyLists(Ls, E), Ls, E, [l \in Ls |-> <<>>])
<1> DEFINE mem == EmptyLists(Ls, E)
           C == [l \in Ls |-> <<>>]
<1>1. Len(<<>>) = 0 /\ <<>> \in Seq(E)
    BY EmptySeq
<1>2. IsMemory(mem, Ls, E)
    BY DEF IsMemory, EmptyLists
<1>3. C \in [Ls -> Seq(E)] /\ \A l \in Ls : C[l] = <<>> /\ Len(C[l]) = 0
    BY <1>1
<1> HIDE DEF C
<1>4. Apart(Ls, C)
    BY <1>3 DEF Apart
<1>5. \A l \in Ls : mem.head[l] = NULL
    BY DEF EmptyLists
<1>6. \A l \in Ls : mem.head[l] = Front(C[l]) /\ Circle(mem, C[l])
    BY <1>3, <1>5 DEF Front, Circle
<1> QED BY <1>2, <1>3, <1>4, <1>6 DEF Represents, C

\* The idle thread is alone on the lists.
LEMMA InitLists ==
    ASSUME Init
    PROVE  \E D : /\ Sound(lists, D)
                  /\ \A l \in ListNames :
                        D[l] = IF l = RunningAt(InitialPriority[IdleThread])
                               THEN <<IdleThread>> ELSE <<>>
<1> DEFINE p == InitialPriority[IdleThread]
           r == RunningAt(p)
           C == [l \in ListNames |-> <<>>]
           D == [C EXCEPT ![r] = Inserted(C[r], Len(C[r]), IdleThread)]
           empty == EmptyLists(ListNames, Thread)
           one == AddOneToEnd(empty, r, IdleThread)
<1>1. p \in Priorities /\ r \in ListNames /\ IdleThread \in Thread /\ NULL \notin Thread
    BY NamesAreNames, ThreadFacts DEF Priorities
<1>2. Represents(empty, ListNames, Thread, C)
    BY EmptyRepresents
<1>3. C[r] = <<>> /\ <<>> \in Seq(Thread) /\ \A l \in ListNames : C[l] = <<>>
    BY <1>1
<1>4. OnNone(ListNames, C, IdleThread)
    BY DEF OnNone, Members
<1> HIDE DEF C
<1>5. Represents(one, ListNames, Thread, D)
    BY <1>1, <1>2, <1>4, AddedToEnd
<1>6. \A l \in ListNames : D[l] = IF l = r THEN <<IdleThread>> ELSE <<>>
    <2>1. Inserted(<<>>, Len(<<>>), IdleThread) = Append(<<>>, IdleThread)
        BY <1>1, <1>3, InsertedLast
    <2>2. Append(<<>>, IdleThread) = <<IdleThread>>
        OBVIOUS
    <2>3. C \in [ListNames -> Seq(Thread)]
        BY <1>2 DEF Represents
    <2> QED BY <1>1, <1>3, <2>1, <2>2, <2>3
<1>7. lists = [head |-> one.head, next |-> one.next, prev |-> one.prev, map |-> {p}]
    BY DEF Init
<1> HIDE DEF D, one, p
<1>8. Represents(lists, ListNames, Thread, D)
    BY <1>5, <1>7 DEF Represents, IsMemory, Circle
<1>9. NonEmpty(D) = {p}
    <2>1. <<IdleThread>> # <<>>
        OBVIOUS
    <2>2. \A q \in Priorities : D[RunningAt(q)] # <<>> <=> q = p
        BY <1>6, <2>1, NamesDiffer, NamesAreNames
    <2> QED BY <1>1, <2>2 DEF NonEmpty
<1>10. Sound(lists, D)
    BY <1>7, <1>8, <1>9 DEF Sound, Pointers
<1> QED BY <1>6, <1>10 DEF p

LEMMA InitHolds ==
    ASSUME Init
    PROVE  IInv
<1>1. PICK D : /\ Sound(lists, D)
               /\ \A l \in ListNames : D[l] = IF l = RunningAt(InitialPriority[IdleThread])
                                              THEN <<IdleThread>> ELSE <<>>
    BY InitLists
<1>2. contents = D /\ Sound(lists, contents)
    BY <1>1, SoundRead DEF contents
<1>3. PICK r \in ListNames : r = RunningAt(InitialPriority[IdleThread])
    BY ThreadFacts, NamesAreNames DEF Priorities
<1>4. Len(<<>>) = 0 /\ Len(<<IdleThread>>) = 1 /\ <<IdleThread>>[1] = IdleThread
      /\ <<IdleThread>> # <<>>
    OBVIOUS
<1>5. \A l \in ListNames : /\ l = r => contents[l] = <<IdleThread>>
                           /\ l # r => contents[l] = <<>>
                           /\ On(l) = IF l = r THEN {IdleThread} ELSE {}
    <2>1. Members(<<>>) = {} /\ Members(<<IdleThread>>) = {IdleThread}
        BY DEF Members
    <2> QED BY <1>1, <1>2, <1>3, <2>1 DEF On
<1>6. InitialPriority \in [Thread -> Priorities] /\ InitialCount \in [Semaphore -> Int]
    BY SchedulerAssumption DEF Priorities
<1>7. Types
    BY <1>6, ThreadFacts DEF Init, Types, Status, ThreadOrNull
<1>8. QueueSound /\ Timed = {}
    <2> DEFINE C == [l \in {TimerList} |-> <<>>]
    <2>1. timers = EmptyLists({TimerList}, Thread)
        BY DEF Init
    <2>2. Represents(timers, {TimerList}, Thread, C)
        BY <2>1, EmptyRepresents
    <2>3. AsSequence(timers, TimerList) = C[TimerList]
        BY <2>2, ThreadFacts, ContentsRead
    <2>4. queue = C
        BY <2>3 DEF queue
    <2>5. DOMAIN timers = {"head", "next", "prev"}
        BY <2>1 DEF EmptyLists
    <2> QED BY <2>2, <2>4, <2>5 DEF QueueSound, Timed, Members
<1>9. ASSUME NEW t \in Thread PROVE Placed(t) /\ Clocked(t)
    <2>1. ~TimedOut(t) /\ t \notin Timed
        <3>1. r # AsleepList /\ \A m \in Monitor : r # WaitingOn(m)
            BY <1>3, NamesDiffer
        <3> QED BY <1>5, <1>8, <3>1, NamesAreNames DEF TimedOut
    <2>2. CASE t = IdleThread
        <3>1. Active(t) /\ Shows(t, r)
            BY <1>3, <2>2 DEF Init, Active, Shows, ShowsOther
        <3>2. \A k \in ListNames : t \in On(k) <=> k = r
            BY <1>5, <2>2
        <3>3. Placed(t)
            BY <3>1, <3>2 DEF Placed
        <3> QED BY <2>1, <3>3 DEF Clocked
    <2>3. CASE t # IdleThread
        <3>1. state[t] = "NOT_STARTED" /\ activeStatus[t] = "ASLEEP_TIMED_OUT"
              /\ pWaitMonitor[t] = NULL
            BY <2>3 DEF Init
        <3>2. \A k \in ListNames : t \notin On(k)
            BY <1>5, <2>3
        <3>3. Placed(t)
            BY <3>1, <3>2 DEF Placed, Active
        <3> QED BY <2>1, <3>3 DEF Clocked
    <2> QED BY <2>2, <2>3
<1>10. CurrentIsFirst
    BY <1>3, <1>4, <1>5 DEF Init, CurrentIsFirst, First
<1>11. IdleIsReady
    BY ThreadFacts DEF Init, IdleIsReady, Active
<1>12. JoinedAreAlive /\ BlockedAreOwned
    <2>1. \A u \in Thread : On(Joining(u)) = {}
        BY <1>3, <1>5, NamesAreNames, NamesDiffer
    <2>2. \A m \in Monitor : On(BlockedOn(m)) = {}
        BY <1>3, <1>5, NamesAreNames, NamesDiffer
    <2> QED BY <2>1, <2>2 DEF JoinedAreAlive, BlockedAreOwned
<1>13. PendedAreCounted /\ PendedByPriority
    <2>1. \A s \in Semaphore : contents[PendingOn(s)] = <<>>
        BY <1>3, <1>5, NamesAreNames, NamesDiffer
    <2>2. \A s \in Semaphore : ~(counter[s] < 0)
        BY SchedulerAssumption DEF Init
    <2> QED BY <1>4, <2>1, <2>2 DEF PendedAreCounted, PendedByPriority, Falling
<1> QED BY <1>2, <1>7, <1>8, <1>9, <1>10, <1>11, <1>12, <1>13 DEF IInv

\* What a step leaves: the invariant, the order of the semaphores' queues, and the right
\* thread running.
Started == \E t \in Thread : state[t] = "NOT_STARTED" /\ state'[t] = "ACTIVE"

SwitchesInTime == tick' = "none" /\ (tick # "none" \/ OnHighest) /\ ~Started => OnHighest'

LEMMA KeptInTime ==
    ASSUME Kept, tick = "none"
    PROVE  IInv' /\ InOrder /\ SwitchesInTime
BY DEF Kept, StaysHighest, SwitchesInTime

LEMMA NextHolds ==
    ASSUME IInv, Disciplined, Next
    PROVE  IInv' /\ InOrder /\ SwitchesInTime
<1>1. CASE \E m \in Monitor : MonitorEnter(m)
    BY <1>1, EnterKeeps, KeptInTime DEF MonitorEnter, Calls, ThreadRuns
<1>2. CASE \E m \in Monitor : MonitorExit(m)
    BY <1>2, ExitKeeps, KeptInTime DEF MonitorExit, Calls, ThreadRuns
<1>3. CASE \E m \in Monitor, timeout \in BOOLEAN : MonitorWait(m, timeout)
    BY <1>3, WaitKeeps, KeptInTime DEF MonitorWait, Calls, ThreadRuns
<1>4. CASE \E m \in Monitor : MonitorNotify(m)
    BY <1>4, NotifyKeeps, KeptInTime DEF MonitorNotify, Calls, ThreadRuns
<1>5. CASE \E m \in Monitor : MonitorNotifyAll(m)
    BY <1>5, NotifyAllKeeps, KeptInTime DEF MonitorNotifyAll, Calls, ThreadRuns
<1>6. CASE ThreadSleep
    BY <1>6, SleepKeeps, KeptInTime DEF ThreadSleep, Calls, ThreadRuns
<1>7. CASE WeakYield
    BY <1>7, WeakYieldKeeps, KeptInTime DEF WeakYield, Calls, ThreadRuns
<1>8. CASE StrongYield
    BY <1>8, StrongYieldKeeps, KeptInTime DEF StrongYield, ThreadRuns
<1>9. CASE \E t \in Thread : ThreadJoin(t)
    BY <1>9, JoinKeeps, KeptInTime DEF ThreadJoin, Calls, ThreadRuns
<1>10. CASE RemoveThread
    BY <1>10, RemoveKeeps, KeptInTime DEF RemoveThread, Calls, ThreadRuns
<1>11. CASE \E t \in Thread, m \in Monitor \cup {NULL} : ScheduleNewThread(t, m)
    <2>1. PICK t \in Thread, m \in Monitor \cup {NULL} : ScheduleNewThread(t, m)
        BY <1>11
    <2>2. IInv' /\ InOrder
        BY <2>1, ScheduleKeeps
    <2>3. state[t] = "NOT_STARTED" /\ state' = [state EXCEPT ![t] = "ACTIVE"]
        BY <2>1 DEF ScheduleNewThread
    <2>4. Started
        BY <2>3 DEF Started, IInv, Types
    <2> QED BY <2>2, <2>4 DEF SwitchesInTime
<1>12. CASE \E t \in Thread : InterruptThread(t)
    BY <1>12, InterruptKeeps, KeptInTime DEF InterruptThread, Calls, ThreadRuns
<1>13. CASE \E s \in Semaphore : SemaphorePost(s)
    BY <1>13, PostKeeps, KeptInTime DEF SemaphorePost, Calls, ThreadRuns
<1>14. CASE \E s \in Semaphore : SemaphorePend(s)
    BY <1>14, PendKeeps, KeptInTime DEF SemaphorePend, Calls, ThreadRuns
<1>15. CASE \E t \in Thread, p \in NewPriorities : SetPriority(t, p)
    BY <1>15, SetPriorityKeeps, KeptInTime DEF SetPriority, Calls, ThreadRuns
<1>16. CASE DisableRescheduler
    BY <1>16, DisableKeeps, KeptInTime DEF DisableRescheduler, Calls, ThreadRuns
<1>17. CASE EnableRescheduler
    BY <1>17, EnableKeeps, KeptInTime DEF EnableRescheduler, Calls, ThreadRuns
<1>18. CASE \E kind \in {"scheduled", "conditional"} : TickInterrupt(kind)
    BY <1>18, TickInterruptKeeps, KeptInTime DEF TickInterrupt
<1>19. CASE TimerExpires
    <2>1. IInv' /\ InOrder
        BY <1>19, ExpiryKeeps
    <2>2. tick' # "none"
        BY <1>19 DEF TimerExpires
    <2> QED BY <2>1, <2>2 DEF SwitchesInTime
<1>20. CASE TickReturns
    BY <1>20, TickReturnsKeeps DEF Kept, SwitchesInTime
<1> QED BY <1>1, <1>2, <1>3, <1>4, <1>5, <1>6, <1>7, <1>8, <1>9, <1>10, <1>11, <1>12, <1>13,
           <1>14, <1>15, <1>16, <1>17, <1>18, <1>19, <1>20 DEF Next

LEMMA StutterHolds ==
    ASSUME IInv, UNCHANGED vars
    PROVE  IInv'
<1>1. /\ state' = state /\ activeStatus' = activeStatus /\ interruptedFlag' = interruptedFlag
      /\ pJoinedThread' = pJoinedThread /\ currentPriority' = currentPriority
      /\ pWaitMonitor' = pWaitMonitor /\ waitMonitorDepth' = waitMonitorDepth
      /\ timers' = timers /\ timerCallback' = timerCallback
      /\ pOwner' = pOwner /\ depth' = depth /\ counter' = counter /\ nesting' = nesting
      /\ reschedulerEnabledIndicator' = reschedulerEnabledIndicator /\ tick' = tick
      /\ lists' = lists /\ current' = current
    BY DEF vars, threadVars, waitVars, timerVars, monitorVars
<1>2. Untouched
    BY <1>1 DEF Untouched, IInv, Types
<1> QED BY <1>1, <1>2, UnchangedKeeps DEF Kept

\* Where the threads are, for callers that keep the disciplines: after any calls, timeouts
\* and interrupts, in any order, the pointers of every list are those of a sequence of
\* threads, an active thread is on the one list its structure shows, the threads on the
\* timer queue are those asleep until a time, and each queue is in its order.
THEOREM SchedulerInvariance ==
    ASSUME Disciplined
    PROVE  Spec => []IInv
<1>1. Init => IInv
    BY InitHolds
<1>2. IInv /\ [Next]_vars => IInv'
    BY NextHolds, StutterHolds
<1> QED BY <1>1, <1>2, PTL DEF Spec

\* The list that holds a thread, and what a reader sees of the lists.
LEMMA ListsRead ==
    ASSUME IInv
    PROVE  /\ lists \in ListMemory /\ timers \in TimerMemory
           /\ lists.map = {p \in Priorities : lists.head[RunningAt(p)] # NULL}
           /\ lists.head[RunningAt(currentPriority[current])] = current
           /\ EntriesOf(timers, TimerList) = Timed
           /\ \A l \in ListNames :
                 /\ WellFormed(lists, l)
                 /\ EntriesOf(lists, l) = On(l)
                 /\ Cardinality(EntriesOf(lists, l)) = Len(contents[l])
                 /\ lists.head[l] # NULL => \E t \in Thread : t \in On(l)
<1>1. Sound(lists, contents) /\ QueueSound
    BY DEF IInv
<1>2. lists \in ListMemory /\ timers \in TimerMemory
    BY <1>1, SoundIsMemory, QueueRead, QueueIsMemory
<1>3. lists.map = {p \in Priorities : lists.head[RunningAt(p)] # NULL}
    <2>1. \A p \in Priorities : lists.head[RunningAt(p)] # NULL <=> contents[RunningAt(p)] # <<>>
        BY NamesAreNames, FrontRead
    <2> QED BY <1>1, <2>1 DEF Sound, NonEmpty
<1>4. lists.head[RunningAt(currentPriority[current])] = current
    BY CurrentFacts, FrontRead
<1>5. EntriesOf(timers, TimerList) = Timed
    BY <1>1, ThreadFacts, ContentsRead DEF QueueSound, Timed
<1>6. \A l \in ListNames :
          /\ WellFormed(lists, l)
          /\ EntriesOf(lists, l) = On(l)
          /\ Cardinality(EntriesOf(lists, l)) = Len(contents[l])
    BY <1>1, SequencesRead DEF Sound, On
<1>7. \A l \in ListNames : lists.head[l] # NULL => \E t \in Thread : t \in On(l)
    BY FrontRead
<1> QED BY <1>2, <1>3, <1>4, <1>5, <1>6, <1>7

LEMMA OneListEach ==
    ASSUME IInv
    PROVE  StoredInOnePlace
<1>1. \A l \in ListNames : WellFormed(lists, l) /\ EntriesOf(lists, l) = On(l)
    BY ListsRead
<1>2. ASSUME NEW t \in Thread
      PROVE  Cardinality(ListsHolding(t)) = IF Active(t) THEN 1 ELSE 0
    <2>1. Placed(t) /\ ListsHolding(t) = {l \in ListNames : t \in On(l)}
        BY <1>1 DEF ListsHolding, IInv
    <2>2. CASE Active(t)
        <3>1. PICK l \in ListNames : \A k \in ListNames : t \in On(k) <=> k = l
            BY <2>1, <2>2 DEF Placed
        <3>2. ListsHolding(t) = {l}
            BY <2>1, <3>1
        <3> QED BY <2>2, <3>2, FS_Singleton
    <2>3. CASE ~Active(t)
        <3>1. ListsHolding(t) = {}
            BY <2>1, <2>3 DEF Placed
        <3> QED BY <2>3, <3>1, FS_EmptySet
    <2> QED BY <2>2, <2>3
<1> QED BY <1>1, <1>2 DEF StoredInOnePlace

\* thread.h:101, an active thread is in exactly one of six places at all times, and no
\* operation leaves a list whose pointers do not close; the priority map shows the running
\* lists that are not empty; whoever executes is at the front of the list of its priority.
THEOREM WhereThreadsAre ==
    ASSUME Disciplined
    PROVE  Spec => []ThreadsAreWhereTheyShow
<1>1. IInv => ThreadsAreWhereTheyShow
    <2> SUFFICES ASSUME IInv PROVE ThreadsAreWhereTheyShow
        OBVIOUS
    <2>1. TypeOK
        BY ListsRead DEF IInv, Types, TypeOK, ListMemory, TimerMemory
    <2>2. MapShowsRunningLists /\ CurrentAtFront
        BY ListsRead DEF MapShowsRunningLists, CurrentAtFront
    <2> QED BY <2>1, <2>2, OneListEach DEF ThreadsAreWhereTheyShow
<1> QED BY <1>1, SchedulerInvariance, PTL

\* The tick finds the timer of every thread asleep until a time, and the thread on the list
\* its callback takes it off; whoever is blocked on a monitor is blocked on one with an
\* owner, who will exit it.
THEOREM SleepersAreFound ==
    ASSUME Disciplined
    PROVE  Spec => []SleepersWillBeWoken
<1>1. IInv => SleepersWillBeWoken
    <2> SUFFICES ASSUME IInv PROVE SleepersWillBeWoken
        OBVIOUS
    <2>1. /\ EntriesOf(timers, TimerList) = Timed /\ Timed \subseteq Thread
          /\ \A l \in ListNames : EntriesOf(lists, l) = On(l)
        <3>1. timers.next \in [Thread -> ThreadOrNull] /\ queue[TimerList] \in Seq(Thread)
            BY DEF IInv, QueueSound, Represents, IsMemory, ThreadOrNull
        <3>2. Timed \subseteq Thread
            BY <3>1, LenProperties, ElementOfSeq DEF Timed, Members
        <3> QED BY <3>2, ListsRead
    <2>2. AsleepList \in ListNames /\ \A m \in Monitor : WaitingOn(m) \in ListNames
        BY NamesAreNames
    <2>3. NULL \notin Monitor
        BY SchedulerAssumption
    <2>4. ASSUME NEW t \in Timed
          PROVE  IF timerCallback[t] = "threadSleepExpired"
                 THEN t \in EntriesOf(lists, AsleepList)
                 ELSE pWaitMonitor[t] # NULL /\ t \in EntriesOf(lists, WaitingOn(pWaitMonitor[t]))
        <3>1. t \in Thread /\ Placed(t) /\ Clocked(t)
            BY <2>1 DEF IInv
        <3>2. CASE t \in On(AsleepList)
            <4>1. activeStatus[t] = "ASLEEP_TIMED_OUT"
                BY <2>2, <3>1, <3>2, OnList, ShownByList
            <4>2. timerCallback[t] = "threadSleepExpired"
                BY <3>1, <4>1 DEF Clocked
            <4> QED BY <2>1, <2>2, <3>2, <4>2
        <3>3. CASE t \notin On(AsleepList)
            <4>1. PICK m \in Monitor : /\ activeStatus[t] = "ASLEEP_TIMED_OUT_ON_MONITOR"
                                       /\ t \in On(WaitingOn(m))
                BY <3>1, <3>3 DEF Clocked, TimedOut
            <4>2. timerCallback[t] # "threadSleepExpired"
                BY <3>1, <4>1 DEF Clocked
            <4>3. pWaitMonitor[t] = m
                BY <4>1, WaiterFacts
            <4> QED BY <2>1, <2>2, <2>3, <4>1, <4>2, <4>3
        <3> QED BY <3>2, <3>3
    <2>5. TimersOfTimedOut
        BY <2>1, <2>4 DEF TimersOfTimedOut
    <2>6. ASSUME NEW t \in Thread,
                 \/ t \in EntriesOf(lists, AsleepList)
                 \/ /\ activeStatus[t] = "ASLEEP_TIMED_OUT_ON_MONITOR"
                    /\ t \in EntriesOf(lists, WaitingOn(pWaitMonitor[t]))
          PROVE  t \in Timed
        <3>1. Placed(t) /\ Clocked(t)
            BY DEF IInv
        <3>2. CASE t \in EntriesOf(lists, AsleepList)
            BY <2>1, <2>2, <3>1, <3>2 DEF Clocked, TimedOut
        <3>3. CASE /\ activeStatus[t] = "ASLEEP_TIMED_OUT_ON_MONITOR"
                   /\ t \in EntriesOf(lists, WaitingOn(pWaitMonitor[t]))
            <4>1. Active(t)
                BY <3>1, <3>3 DEF Placed
            <4>2. pWaitMonitor[t] \in Monitor
                BY <2>3, <3>1, <3>3, <4>1, WithStatus DEF AsleepOnMonitor
            <4>3. t \in On(WaitingOn(pWaitMonitor[t]))
                BY <2>1, <2>2, <3>3, <4>2
            <4> QED BY <3>1, <3>3, <4>2, <4>3 DEF Clocked, TimedOut
        <3> QED BY <2>6, <3>2, <3>3
    <2>7. TimedOutHaveTimers
        BY <2>1, <2>6 DEF TimedOutHaveTimers
    <2>8. BlockedMonitorIsOwned
        <3>1. \A m \in Monitor : BlockedOn(m) \in ListNames
            BY NamesAreNames
        <3> QED BY <3>1, ListsRead DEF BlockedMonitorIsOwned, IInv, BlockedAreOwned
    <2> QED BY <2>5, <2>7, <2>8, OneListEach DEF SleepersWillBeWoken
<1> QED BY <1>1, SchedulerInvariance, PTL

\* A thread that has joined another waits for one that can still die: its death releases
\* every thread on its list.
THEOREM JoinedWillDie ==
    ASSUME Disciplined
    PROVE  Spec => []JoinedThreadIsAlive
<1>1. IInv => JoinedThreadIsAlive
    BY ListsRead, NamesAreNames DEF JoinedThreadIsAlive, IInv, JoinedAreAlive
<1> QED BY <1>1, SchedulerInvariance, PTL

\* The counter of a semaphore, when it is negative, is the number of threads on its queue.
THEOREM PendedAreTheDebt ==
    ASSUME Disciplined
    PROVE  Spec => []CounterCountsPended
<1>1. IInv => CounterCountsPended
    BY ListsRead, NamesAreNames DEF CounterCountsPended, IInv, PendedAreCounted
<1> QED BY <1>1, SchedulerInvariance, PTL

\* A post releases a thread of the highest priority of those pended (psPlatform.h:10),
\* whatever else happens in the step.
THEOREM HighestGoesFirst ==
    ASSUME Disciplined
    PROVE  Spec => HighestReleasedFirst
<1>1. IInv /\ IInv' /\ InOrder => ReleasesHighest
    <2> SUFFICES ASSUME IInv, IInv', InOrder, NEW s \in Semaphore,
                        NEW t \in EntriesOf(lists, PendingOn(s)),
                        NEW u \in EntriesOf(lists, PendingOn(s)),
                        t \notin EntriesOf(lists', PendingOn(s)),
                        u \in EntriesOf(lists', PendingOn(s))
                 PROVE  currentPriority[t] >= currentPriority[u]
        BY DEF ReleasesHighest
    <2>1. PICK l \in ListNames : l = PendingOn(s)
        BY NamesAreNames
    <2>2. t \in On(l) /\ u \in On(l)
        BY <2>1, ListsRead
    <2>3. EntriesOf(lists', l) = On(l)'
        <3>1. Sound(lists', contents')
            BY DEF IInv
        <3> QED BY <3>1, SequencesRead DEF Sound, On
    <2>4. t \notin On(l)' /\ u \in On(l)'
        BY <2>1, <2>3
    <2>5. contents'[l] = Without(contents[l], 1)
        BY <2>1, <2>2, <2>4 DEF InOrder
    <2>6. PICK q : q = contents[l]
        OBVIOUS
    <2>7. /\ q \in Seq(Thread) /\ Len(q) \in Nat
          /\ \A i \in 1 .. Len(q) : q[i] \in Thread
          /\ \A i, j \in 1 .. Len(q) : q[i] = q[j] => i = j
        BY <2>1, <2>6, Contents DEF IInv, Sound, Pointers
    <2>8. PICK i \in 1 .. Len(q), j \in 1 .. Len(q) : t = q[i] /\ u = q[j]
        BY <2>2, <2>6 DEF On, Members
    <2>9. 1 \in 1 .. Len(q)
        BY <2>7, <2>8
    <2>10. Members(Without(q, 1)) = Members(q) \ {q[1]}
        BY <2>7, <2>9, WithoutKth
    <2>11. t = q[1]
        BY <2>2, <2>4, <2>5, <2>6, <2>10 DEF On
    <2>12. currentPriority[q[j]] <= currentPriority[q[1]]
        BY <2>1, <2>6, <2>7, <2>8, <2>9 DEF IInv, PendedByPriority, Falling
    <2>13. currentPriority[t] \in Int /\ currentPriority[u] \in Int
        BY <2>7, <2>8, PrioritiesAreNumbers DEF IInv, Types
    <2> QED BY <2>8, <2>11, <2>12, <2>13
<1>2. Disciplined
    OBVIOUS
<1>3. IInv /\ IInv' /\ [Next]_vars => [ReleasesHighest]_vars
    BY <1>1, <1>2, NextHolds
<1> QED BY <1>3, SchedulerInvariance, PTL DEF Spec, HighestReleasedFirst

\* schedule.c:24, a completed operation leaves the first thread of the highest priority
\* running if it found it running, and so does every tick, whatever the timers woke.
THEOREM SwitchesAreMade ==
    ASSUME Disciplined
    PROVE  Spec => NoSwitchIsMissed
<1>1. IInv /\ [Next]_vars => [SwitchesInTime]_vars
    BY NextHolds
<1>2. [SwitchesInTime]_vars =>
          [/\ tick' = "none"
           /\ tick # "none" \/ current = getHighestPriorityThread(lists)
           /\ ~\E t \in Thread : state[t] = "NOT_STARTED" /\ state'[t] = "ACTIVE"
           => current' = getHighestPriorityThread(lists')]_vars
    BY DEF SwitchesInTime, OnHighest, Started, getHighestPriorityThread, getHighestPriority
<1> QED BY <1>1, <1>2, SchedulerInvariance, PTL DEF Spec, NoSwitchIsMissed

-----------------------------------------------------------------------------
(* The monitors of module Monitors: what the lists, the owners and the depths *)
(* are to it, before a step and after it.                                     *)

MonitorProofs == INSTANCE Monitors_proofs WITH
    owner   <- pOwner,
    depth   <- shownDepth,
    entry   <- blockedQueue,
    waiting <- waitQueue,
    saved   <- savedDepth,
    inside  <- nesting

\* What module Monitors assumes of its constants, this one assumes too.
LEMMA MonitorsAssumed == NULL \notin Thread /\ MaxDepth \in Nat
BY SchedulerAssumption

\* A thread that has a monitor to get back has a depth to get it back at; a thread that
\* has not started has entered none.
DepthsSaved == \A t \in Thread : pWaitMonitor[t] # NULL => waitMonitorDepth[t] > 0
OutsideAtFirst == \A t \in Thread : state[t] = "NOT_STARTED" =>
                      \A m \in Monitor : nesting[t][m] = 0

MonitorsInv == IInv /\ DepthsSaved /\ OutsideAtFirst /\ MonitorsOf!IInv

LEMMA QueuesRead ==
    /\ blockedQueue = [m \in Monitor |-> contents[BlockedOn(m)]]
    /\ waitQueue = [m \in Monitor |-> contents[WaitingOn(m)]]
    /\ blockedQueue' = [m \in Monitor |-> contents'[BlockedOn(m)]]
    /\ waitQueue' = [m \in Monitor |-> contents'[WaitingOn(m)]]
<1>1. \A m \in Monitor : BlockedOn(m) \in ListNames /\ WaitingOn(m) \in ListNames
    BY NamesAreNames
<1> QED BY <1>1 DEF blockedQueue, waitQueue, contents, SequencesOf

\* What an operation that leaves the lists F makes of the queues.
LEMMA QueuesBecome ==
    ASSUME NEW F, NEW P, Arrived(F, P), NEW m \in Monitor,
           \A j : NotRunning(j) /\ j # BlockedOn(m) /\ j # WaitingOn(m) => F[j] = contents[j]
    PROVE  /\ blockedQueue' = [blockedQueue EXCEPT ![m] = F[BlockedOn(m)]]
           /\ waitQueue' = [waitQueue EXCEPT ![m] = F[WaitingOn(m)]]
<1>1. \A n \in Monitor : contents'[BlockedOn(n)] = F[BlockedOn(n)]
                         /\ contents'[WaitingOn(n)] = F[WaitingOn(n)]
    BY NotRunningNames DEF Arrived
<1>2. \A n \in Monitor : n # m => F[BlockedOn(n)] = contents[BlockedOn(n)]
                                  /\ F[WaitingOn(n)] = contents[WaitingOn(n)]
    BY NotRunningNames, NamesDiffer
<1> QED BY <1>1, <1>2, QueuesRead

LEMMA QueuesStay ==
    ASSUME NEW F, NEW P, Arrived(F, P),
           \A m \in Monitor : /\ F[BlockedOn(m)] = contents[BlockedOn(m)]
                              /\ F[WaitingOn(m)] = contents[WaitingOn(m)]
    PROVE  blockedQueue' = blockedQueue /\ waitQueue' = waitQueue
<1>1. \A n \in Monitor : contents'[BlockedOn(n)] = F[BlockedOn(n)]
                         /\ contents'[WaitingOn(n)] = F[WaitingOn(n)]
    BY NotRunningNames DEF Arrived
<1> QED BY <1>1, QueuesRead

\* A step that touches neither the queues nor the rest.
LEMMA MonitorsStutter ==
    ASSUME blockedQueue' = blockedQueue, waitQueue' = waitQueue, pOwner' = pOwner,
           depth' = depth, pWaitMonitor' = pWaitMonitor,
           waitMonitorDepth' = waitMonitorDepth, nesting' = nesting
    PROVE  UNCHANGED MonitorsOf!vars
BY DEF MonitorsOf!vars, shownDepth, savedDepth

LEMMA OnQueue ==
    ASSUME NEW m \in Monitor
    PROVE  /\ MonitorsOf!On(blockedQueue[m]) = On(BlockedOn(m))
           /\ MonitorsOf!On(waitQueue[m]) = On(WaitingOn(m))
BY QueuesRead DEF MonitorsOf!On, On, Members

\* A thread on none of the lists of the monitors may call their API.
LEMMA ReadyWhenElsewhere ==
    ASSUME NEW t, \A m \in Monitor : t \notin On(BlockedOn(m)) /\ t \notin On(WaitingOn(m))
    PROVE  MonitorsOf!Ready(t)
BY OnQueue DEF MonitorsOf!Ready, MonitorsOf!Queued

LEMMA CurrentIsReady ==
    ASSUME IInv
    PROVE  MonitorsOf!Ready(current) /\ current \in Thread /\ current # NULL
           /\ savedDepth[current] = 0 /\ [savedDepth EXCEPT ![current] = 0] = savedDepth
<1>1. /\ current \in Thread /\ pWaitMonitor[current] = NULL /\ currentPriority[current] \in Priorities
      /\ \A l \in ListNames : current \in On(l) <=> l = RunningAt(currentPriority[current])
    BY CurrentFacts
<1>2. MonitorsOf!Ready(current)
    BY <1>1, NamesAreNames, NamesDiffer, ReadyWhenElsewhere
<1>3. savedDepth[current] = 0
    BY <1>1 DEF savedDepth
<1> QED BY <1>1, <1>2, <1>3, ThreadFacts DEF savedDepth

\* The program of a thread that executes is inside the monitors it owns, and no others.
LEMMA ReadyOwner ==
    ASSUME MonitorsInv, NEW t \in Thread, MonitorsOf!Ready(t), NEW m \in Monitor
    PROVE  /\ nesting[t][m] \in Nat /\ shownDepth[m] \in Nat
           /\ nesting[t][m] > 0 => pOwner[m] = t
           /\ pOwner[m] = t => /\ shownDepth[m] = nesting[t][m] /\ shownDepth[m] > 0
                               /\ shownDepth[m] = depth[m]
<1>1. MonitorsOf!IInv /\ t # NULL
    BY ThreadFacts DEF MonitorsInv
<1>2. nesting[t][m] \in Nat /\ shownDepth[m] \in Nat
    BY <1>1 DEF MonitorsOf!IInv, MonitorsOf!TypeOK
<1>3. nesting[t][m] > 0 => pOwner[m] = t
    BY <1>1 DEF MonitorsOf!IInv, MonitorsOf!InsideOwnsOrQueues, MonitorsOf!Ready
<1>4. pOwner[m] = t => shownDepth[m] = nesting[t][m] /\ shownDepth[m] > 0
    BY <1>1 DEF MonitorsOf!IInv, MonitorsOf!OwnerIsInside
<1>5. pOwner[m] = t => shownDepth[m] = depth[m]
    BY <1>1 DEF shownDepth
<1> QED BY <1>2, <1>3, <1>4, <1>5

\* The queues' sequences, in the words of module Monitors.
LEMMA QueueForms ==
    ASSUME NEW q \in Seq(Thread)
    PROVE  /\ q # <<>> => Head(q) = q[1] /\ Tail(q) = Without(q, 1) /\ q[1] \in Thread
           /\ \A k \in 1 .. Len(q) : MonitorsOf!RemoveAt(q, k) = Without(q, k)
<1>1. ASSUME q # <<>> PROVE Head(q) = q[1] /\ Tail(q) = Without(q, 1) /\ q[1] \in Thread
  <2>1. /\ Head(q) = q[1] /\ Tail(q) \in Seq(Thread) /\ Len(Tail(q)) = Len(q) - 1
        /\ \A i \in 1 .. Len(Tail(q)) : Tail(q)[i] = q[i + 1]
        /\ Len(q) \in Nat /\ 1 <= Len(q) /\ q[1] \in Thread
      BY <1>1, SMT
  <2>2. Tail(q) = [i \in 1 .. Len(q) - 1 |-> Tail(q)[i]]
    <3>1. Tail(q) \in [1 .. Len(Tail(q)) -> Thread]
        BY <2>1, LenProperties
    <3> QED BY <2>1, <3>1
  <2>3. \A i \in 1 .. Len(q) - 1 : (IF i < 1 THEN q[i] ELSE q[i + 1]) = Tail(q)[i]
      BY <2>1, SMT
  <2> QED BY <2>1, <2>2, <2>3 DEF Without
<1>2. ASSUME NEW k \in 1 .. Len(q)
      PROVE  MonitorsOf!RemoveAt(q, k) = Without(q, k)
  <2> DEFINE r == MonitorsOf!RemoveAt(q, k)
  <2>1. r = MonitorProofs!RemoveAt(q, k)
      BY DEF MonitorsOf!RemoveAt, MonitorProofs!RemoveAt
  <2>2. /\ r \in Seq(Thread) /\ Len(r) = Len(q) - 1 /\ Len(q) \in Nat
        /\ \A j \in 1 .. Len(q) - 1 : r[j] = IF j < k THEN q[j] ELSE q[j + 1]
      BY <2>1, MonitorsAssumed, MonitorProofs!PlacesLeft
  <2> HIDE DEF r
  <2>3. r = [j \in 1 .. Len(q) - 1 |-> r[j]]
    <3>1. r \in [1 .. Len(r) -> Thread]
        BY <2>2, LenProperties
    <3> QED BY <2>2, <3>1
  <2>4. r = Without(q, k)
      BY <2>2, <2>3 DEF Without
  <2> QED BY <2>4 DEF r
<1> QED BY <1>1, <1>2

\* setMonitorDepth gives t the monitor at the depth t has saved.
LEMMA AcquireSimulated ==
    ASSUME Types, DepthsSaved, NEW t \in Thread, NEW m \in Monitor,
           NEW W \in [Thread -> Monitor \cup {NULL}], acquires(t, m, W),
           NEW S, S \in [Thread -> Nat], S[t] = savedDepth[t], W[t] = pWaitMonitor[t],
           \A u \in Thread : u # t => S[u] = IF W[u] = NULL THEN 0 ELSE waitMonitorDepth'[u]
    PROVE  MonitorsOf!Acquire(t, m, S)
<1>1. /\ pOwner' = [pOwner EXCEPT ![m] = t]
      /\ depth' = [depth EXCEPT ![m] = IF W[t] # NULL THEN waitMonitorDepth[t] ELSE 1]
      /\ pWaitMonitor' = [W EXCEPT ![t] = NULL]
    BY DEF acquires
<1>2. /\ pOwner \in [Monitor -> ThreadOrNull] /\ depth \in [Monitor -> Nat]
      /\ waitMonitorDepth \in [Thread -> Nat] /\ t # NULL
    BY ThreadFacts DEF Types
<1>3. MonitorsOf!DepthOf(t, S) = IF W[t] # NULL THEN waitMonitorDepth[t] ELSE 1
  <2>1. S[t] = IF W[t] = NULL THEN 0 ELSE waitMonitorDepth[t]
      BY DEF savedDepth
  <2>2. W[t] # NULL => waitMonitorDepth[t] > 0 /\ waitMonitorDepth[t] \in Nat
      BY <1>2 DEF DepthsSaved
  <2>3. W[t] # NULL => waitMonitorDepth[t] # 0
      BY <2>2
  <2> QED BY <2>1, <2>3 DEF MonitorsOf!DepthOf
<1>4. shownDepth' = [shownDepth EXCEPT ![m] = MonitorsOf!DepthOf(t, S)]
  <2>1. \A n \in Monitor : shownDepth'[n] = IF n = m THEN MonitorsOf!DepthOf(t, S)
                                            ELSE shownDepth[n]
      BY <1>1, <1>2, <1>3 DEF shownDepth
  <2>2. shownDepth' = [n \in Monitor |-> shownDepth'[n]] /\ shownDepth = [n \in Monitor |-> shownDepth[n]]
      BY DEF shownDepth
  <2> QED BY <2>1, <2>2
<1>5. savedDepth' = [S EXCEPT ![t] = 0]
  <2>1. \A u \in Thread : savedDepth'[u] = IF u = t THEN 0 ELSE S[u]
      BY <1>1, <1>2 DEF savedDepth
  <2>2. savedDepth' = [u \in Thread |-> savedDepth'[u]] /\ S = [u \in Thread |-> S[u]]
      BY DEF savedDepth
  <2> QED BY <2>1, <2>2
<1> QED BY <1>1, <1>4, <1>5 DEF MonitorsOf!Acquire

\* A step of the monitors, or none.
Simulated == /\ MonitorsOf!Next \/ UNCHANGED MonitorsOf!vars
             /\ DepthsSaved' /\ OutsideAtFirst'

LEMMA SavedKept ==
    ASSUME DepthsSaved, OutsideAtFirst, waitMonitorDepth' = waitMonitorDepth,
           \A t \in Thread : pWaitMonitor'[t] \in {NULL, pWaitMonitor[t]},
           \A t \in Thread : state'[t] = "NOT_STARTED" =>
               state[t] = "NOT_STARTED" /\ nesting'[t] = nesting[t]
    PROVE  DepthsSaved' /\ OutsideAtFirst'
BY DEF DepthsSaved, OutsideAtFirst

LEMMA StutterSimulated ==
    ASSUME DepthsSaved, OutsideAtFirst,
           \A m \in Monitor : /\ contents'[BlockedOn(m)] = contents[BlockedOn(m)]
                              /\ contents'[WaitingOn(m)] = contents[WaitingOn(m)],
           pOwner' = pOwner, depth' = depth, pWaitMonitor' = pWaitMonitor,
           waitMonitorDepth' = waitMonitorDepth, nesting' = nesting,
           \A t \in Thread : state'[t] = "NOT_STARTED" => state[t] = "NOT_STARTED"
    PROVE  Simulated
<1>1. blockedQueue' = blockedQueue /\ waitQueue' = waitQueue
    BY QueuesRead
<1>2. UNCHANGED MonitorsOf!vars
    BY <1>1, MonitorsStutter
<1>3. DepthsSaved' /\ OutsideAtFirst'
    BY SavedKept
<1> QED BY <1>2, <1>3 DEF Simulated

\* The monitors' lists after a step that leaves the lists F.
LEMMA StutterOfLists ==
    ASSUME DepthsSaved, OutsideAtFirst, NEW F, NEW P, Arrived(F, P),
           \A m \in Monitor : /\ F[BlockedOn(m)] = contents[BlockedOn(m)]
                              /\ F[WaitingOn(m)] = contents[WaitingOn(m)],
           pOwner' = pOwner, depth' = depth, pWaitMonitor' = pWaitMonitor,
           waitMonitorDepth' = waitMonitorDepth, nesting' = nesting,
           \A t \in Thread : state'[t] = "NOT_STARTED" => state[t] = "NOT_STARTED"
    PROVE  Simulated
<1>1. \A m \in Monitor : /\ contents'[BlockedOn(m)] = contents[BlockedOn(m)]
                         /\ contents'[WaitingOn(m)] = contents[WaitingOn(m)]
    BY NotRunningNames DEF Arrived
<1> QED BY <1>1, StutterSimulated

\* A step that leaves the lists of the monitors as they are but for those of m.
LEMMA OfListsButOne ==
    ASSUME NEW D, NEW F, NEW l, Same(D, F, l), \A m \in Monitor : l # BlockedOn(m) /\ l # WaitingOn(m)
    PROVE  \A m \in Monitor : F[BlockedOn(m)] = D[BlockedOn(m)] /\ F[WaitingOn(m)] = D[WaitingOn(m)]
BY NotRunningNames DEF Same

\* The current thread's state is that of a thread that has started.
LEMMA CurrentStarted ==
    ASSUME IInv
    PROVE  state[current] # "NOT_STARTED"
<1>1. state[current] = "ACTIVE"
    BY CurrentFacts DEF Active
<1> QED BY <1>1

\* A step in which the program of t enters a monitor or leaves one.
LEMMA SavedKeptButOne ==
    ASSUME MonitorsInv, NEW t \in Thread, state'[t] # "NOT_STARTED",
           waitMonitorDepth' = waitMonitorDepth,
           \A u \in Thread : pWaitMonitor'[u] \in {NULL, pWaitMonitor[u]},
           \A u \in Thread : u # t => state'[u] = state[u] /\ nesting'[u] = nesting[u]
    PROVE  DepthsSaved' /\ OutsideAtFirst'
<1>1. DepthsSaved /\ OutsideAtFirst
    BY DEF MonitorsInv
<1>2. \A u \in Thread : state'[u] = "NOT_STARTED" =>
          state[u] = "NOT_STARTED" /\ nesting'[u] = nesting[u]
    OBVIOUS
<1> QED BY <1>1, <1>2, SavedKept

LEMMA EnterSimulated ==
    ASSUME MonitorsInv, NEW m \in Monitor, MonitorEnter(m)
    PROVE  Simulated
<1>1. /\ IInv /\ DepthsSaved /\ OutsideAtFirst /\ Types /\ current # IdleThread
      /\ state' = state /\ pWaitMonitor' = pWaitMonitor /\ waitMonitorDepth' = waitMonitorDepth
      /\ nesting[current][m] < MaxDepth /\ nesting' = [nesting EXCEPT ![current][m] = @ + 1]
    BY DEF MonitorEnter, MonitorsInv, IInv, waitVars, Calls
<1>2. PICK t \in Thread : t = current
    BY <1>1 DEF Types
<1>3. MonitorsOf!Ready(t) /\ t # NULL /\ savedDepth[t] = 0 /\ [savedDepth EXCEPT ![t] = 0] = savedDepth
      /\ pWaitMonitor[t] = NULL /\ state'[t] # "NOT_STARTED"
    BY <1>1, <1>2, CurrentIsReady, CurrentStarted, CurrentFacts
<1>4. DepthsSaved' /\ OutsideAtFirst'
  <2>1. \A u \in Thread : u # t => state'[u] = state[u] /\ nesting'[u] = nesting[u]
      BY <1>1, <1>2 DEF Types
  <2>2. \A u \in Thread : pWaitMonitor'[u] \in {NULL, pWaitMonitor[u]}
      BY <1>1
  <2> QED BY <1>1, <1>3, <2>1, <2>2, SavedKeptButOne
<1>5. savedDepth' = savedDepth
    BY <1>1 DEF savedDepth
<1>6. ASSUME waitQueue' = waitQueue,
             MonitorsOf!EnterFree(t, m) \/ MonitorsOf!EnterAgain(t, m) \/ MonitorsOf!Block(t, m)
      PROVE  Simulated
  <2>1. MonitorsOf!Enter(t, m)
      BY <1>1, <1>2, <1>3, <1>6 DEF MonitorsOf!Enter
  <2> QED BY <1>4, <2>1 DEF Simulated, MonitorsOf!Next
<1>7. ASSUME lists' = lists PROVE blockedQueue' = blockedQueue /\ waitQueue' = waitQueue
    BY <1>7 DEF blockedQueue, waitQueue
<1>8. CASE pOwner[m] = NULL /\ pOwner' = [pOwner EXCEPT ![m] = current]
           /\ depth' = [depth EXCEPT ![m] = 1] /\ lists' = lists
  <2>1. acquires(t, m, pWaitMonitor)
      BY <1>1, <1>2, <1>3, <1>8 DEF acquires, Types
  <2>2. /\ savedDepth \in [Thread -> Nat]
        /\ \A u \in Thread : savedDepth[u] = IF pWaitMonitor[u] = NULL THEN 0 ELSE waitMonitorDepth'[u]
      BY <1>1 DEF savedDepth, Types
  <2>3. pWaitMonitor \in [Thread -> Monitor \cup {NULL}]
      BY <1>1 DEF Types
  <2>4. MonitorsOf!Acquire(t, m, savedDepth)
      BY <1>1, <2>1, <2>2, <2>3, AcquireSimulated
  <2>5. MonitorsOf!EnterFree(t, m)
      BY <1>7, <1>8, <2>4 DEF MonitorsOf!EnterFree
  <2> QED BY <1>6, <1>7, <1>8, <2>5
<1>9. CASE pOwner[m] = current /\ depth' = [depth EXCEPT ![m] = @ + 1]
           /\ pOwner' = pOwner /\ lists' = lists
  <2>1. shownDepth' = [shownDepth EXCEPT ![m] = @ + 1]
      BY <1>1, <1>2, <1>3, <1>9 DEF shownDepth, Types
  <2>2. MonitorsOf!EnterAgain(t, m)
      BY <1>2, <1>5, <1>7, <1>9, <2>1 DEF MonitorsOf!EnterAgain
  <2> QED BY <1>6, <1>7, <1>9, <2>2
<1>10. CASE /\ pOwner[m] \notin {NULL, current} /\ pOwner' = pOwner /\ depth' = depth
            /\ generatedContextSwitch(moveCurrentThreadFromRunningThreads(lists, BlockedOn(m)))
  <2>1. /\ NotRunning(BlockedOn(m)) /\ BlockedOn(m) \in ListNames /\ WaitingOn(m) # BlockedOn(m)
        /\ NotRunning(WaitingOn(m))
      BY NotRunningNames, NamesAreNames, NamesDiffer
  <2>2. PICK F : /\ Arrived(F, currentPriority) /\ Goes(contents, F, t, BlockedOn(m))
                 /\ Same(contents, F, BlockedOn(m))
      BY <1>1, <1>2, <1>10, <2>1, CurrentDeparts
  <2>3. F[BlockedOn(m)] = Append(contents[BlockedOn(m)], t) /\ F[WaitingOn(m)] = contents[WaitingOn(m)]
      BY <2>1, <2>2 DEF Goes, Same
  <2>4. \A j : NotRunning(j) /\ j # BlockedOn(m) /\ j # WaitingOn(m) => F[j] = contents[j]
      BY <2>2 DEF Same
  <2>5. /\ blockedQueue' = [blockedQueue EXCEPT ![m] = F[BlockedOn(m)]]
        /\ waitQueue' = [waitQueue EXCEPT ![m] = F[WaitingOn(m)]]
      BY <2>2, <2>4, QueuesBecome
  <2>6. blockedQueue' = [blockedQueue EXCEPT ![m] = Append(@, t)] /\ waitQueue' = waitQueue
      BY <2>3, <2>5, QueuesRead
  <2>7. shownDepth' = shownDepth
      BY <1>10 DEF shownDepth
  <2>8. MonitorsOf!Block(t, m)
      BY <1>2, <1>5, <1>10, <2>6, <2>7 DEF MonitorsOf!Block
  <2> QED BY <1>6, <2>6, <2>8
<1> QED BY <1>8, <1>9, <1>10 DEF MonitorEnter, monitorVars

\* The monitor passes to the thread u that has been blocked longest.
LEMMA HandOverSimulated ==
    ASSUME IInv, DepthsSaved, NEW m \in Monitor, contents[BlockedOn(m)] # <<>>,
           NEW u, u = contents[BlockedOn(m)][1],
           NEW W \in [Thread -> Monitor \cup {NULL}], acquires(u, m, W),
           NEW S, S \in [Thread -> Nat], S[u] = savedDepth[u], W[u] = pWaitMonitor[u],
           \A x \in Thread : x # u => S[x] = IF W[x] = NULL THEN 0 ELSE waitMonitorDepth'[x],
           contents'[BlockedOn(m)] = Without(contents[BlockedOn(m)], 1),
           \A n \in Monitor : n # m => contents'[BlockedOn(n)] = contents[BlockedOn(n)]
    PROVE  MonitorsOf!HandOver(m, S)
<1>1. contents[BlockedOn(m)] \in Seq(Thread)
    BY NamesAreNames, SoundIsFunction DEF IInv, Sound
<1>2. /\ Head(contents[BlockedOn(m)]) = u /\ u \in Thread
      /\ Tail(contents[BlockedOn(m)]) = Without(contents[BlockedOn(m)], 1)
    BY <1>1, QueueForms
<1>3. blockedQueue[m] = contents[BlockedOn(m)]
    BY QueuesRead
<1>4. blockedQueue' = [blockedQueue EXCEPT ![m] = Tail(@)]
  <2>1. \A n \in Monitor : contents'[BlockedOn(n)] =
            IF n = m THEN Tail(contents[BlockedOn(m)]) ELSE contents[BlockedOn(n)]
      BY <1>2
  <2> QED BY <2>1, QueuesRead
<1>5. MonitorsOf!Acquire(u, m, S)
  <2>1. Types
      BY DEF IInv
  <2> QED BY <1>2, <2>1, AcquireSimulated
<1> QED BY <1>2, <1>3, <1>4, <1>5 DEF MonitorsOf!HandOver

\* Nobody is blocked on the monitor: it becomes free.
LEMMA FreedSimulated ==
    ASSUME Types, NEW m \in Monitor, contents[BlockedOn(m)] = <<>>,
           pOwner' = [pOwner EXCEPT ![m] = NULL],
           \A n \in Monitor : n # m => depth'[n] = depth[n],
           NEW S, savedDepth' = S,
           \A n \in Monitor : contents'[BlockedOn(n)] = contents[BlockedOn(n)]
    PROVE  MonitorsOf!HandOver(m, S)
<1>1. blockedQueue[m] = <<>> /\ blockedQueue' = blockedQueue
    BY QueuesRead
<1>2. shownDepth' = [shownDepth EXCEPT ![m] = 0]
  <2>1. \A n \in Monitor : shownDepth'[n] = IF n = m THEN 0 ELSE shownDepth[n]
      BY DEF shownDepth, Types
  <2>2. shownDepth' = [n \in Monitor |-> shownDepth'[n]] /\ shownDepth = [n \in Monitor |-> shownDepth[n]]
      BY DEF shownDepth
  <2> QED BY <2>1, <2>2
<1> QED BY <1>1, <1>2 DEF MonitorsOf!HandOver

LEMMA ExitSimulated ==
    ASSUME MonitorsInv, NEW m \in Monitor, MonitorExit(m)
    PROVE  Simulated
<1>1. /\ IInv /\ DepthsSaved /\ OutsideAtFirst /\ Types /\ current # IdleThread
      /\ state' = state /\ waitMonitorDepth' = waitMonitorDepth /\ currentPriority' = currentPriority
      /\ nesting[current][m] > 0 /\ nesting' = [nesting EXCEPT ![current][m] = @ - 1]
    BY DEF MonitorExit, MonitorsInv, IInv, Calls
<1>2. PICK t \in Thread : t = current
    BY <1>1 DEF Types
<1>3. MonitorsOf!Ready(t) /\ t # NULL /\ state'[t] # "NOT_STARTED"
    BY <1>1, <1>2, CurrentIsReady, CurrentStarted
<1>4. pOwner[m] = t /\ shownDepth[m] = depth[m] /\ depth[m] > 0
    BY <1>1, <1>2, <1>3, ReadyOwner
<1>5. ASSUME waitQueue' = waitQueue, \A u \in Thread : pWaitMonitor'[u] \in {NULL, pWaitMonitor[u]},
             MonitorsOf!ExitInner(t, m)
             \/ (shownDepth[m] = 1 /\ MonitorsOf!HandOver(m, savedDepth))
      PROVE  Simulated
  <2>1. MonitorsOf!Exit(t, m)
      BY <1>1, <1>2, <1>3, <1>5 DEF MonitorsOf!Exit
  <2>2. \A u \in Thread : u # t => state'[u] = state[u] /\ nesting'[u] = nesting[u]
      BY <1>1, <1>2 DEF Types
  <2>3. DepthsSaved' /\ OutsideAtFirst'
      BY <1>1, <1>3, <1>5, <2>2, SavedKeptButOne
  <2> QED BY <2>1, <2>3 DEF Simulated, MonitorsOf!Next
<1>6. ASSUME lists' = lists
      PROVE  contents' = contents /\ blockedQueue' = blockedQueue /\ waitQueue' = waitQueue
    BY <1>6 DEF blockedQueue, waitQueue, contents
<1>7. CASE depth[m] > 1 /\ depth' = [depth EXCEPT ![m] = @ - 1] /\ pOwner' = pOwner
           /\ pWaitMonitor' = pWaitMonitor /\ lists' = lists
  <2>1. shownDepth' = [shownDepth EXCEPT ![m] = @ - 1]
      BY <1>1, <1>3, <1>4, <1>7 DEF shownDepth, Types
  <2>2. savedDepth' = savedDepth
      BY <1>1, <1>7 DEF savedDepth
  <2>3. MonitorsOf!ExitInner(t, m)
      BY <1>4, <1>6, <1>7, <2>1, <2>2 DEF MonitorsOf!ExitInner
  <2>4. \A u \in Thread : pWaitMonitor'[u] \in {NULL, pWaitMonitor[u]}
      BY <1>7
  <2> QED BY <1>5, <1>6, <1>7, <2>3, <2>4
<1>8. CASE /\ depth[m] = 1 /\ depth' = [depth EXCEPT ![m] = 0] /\ lists.head[BlockedOn(m)] = NULL
           /\ pOwner' = [pOwner EXCEPT ![m] = NULL] /\ pWaitMonitor' = pWaitMonitor /\ lists' = lists
  <2>1. contents[BlockedOn(m)] = <<>>
      BY <1>1, <1>8, NamesAreNames, FrontRead
  <2>2. savedDepth' = savedDepth
      BY <1>1, <1>8 DEF savedDepth
  <2>3. \A n \in Monitor : n # m => depth'[n] = depth[n]
      BY <1>1, <1>8 DEF Types
  <2>4. \A n \in Monitor : contents'[BlockedOn(n)] = contents[BlockedOn(n)]
      BY <1>6, <1>8
  <2>5. MonitorsOf!HandOver(m, savedDepth)
      BY <1>1, <1>8, <2>1, <2>2, <2>3, <2>4, FreedSimulated
  <2>6. \A u \in Thread : pWaitMonitor'[u] \in {NULL, pWaitMonitor[u]}
      BY <1>8
  <2> QED BY <1>4, <1>5, <1>6, <1>8, <2>5, <2>6
<1>9. CASE /\ depth[m] = 1 /\ lists.head[BlockedOn(m)] # NULL
           /\ releaseBlockedThread(lists, m, pWaitMonitor, activeStatus)
           /\ conditionalContextSwitch(afterRelease(lists, m), currentPriority)
  <2> DEFINE b == BlockedOn(m)
  <2>1. /\ NotRunning(b) /\ b \in ListNames /\ \A n \in Monitor : b # WaitingOn(n)
        /\ \A n \in Monitor : NotRunning(WaitingOn(n)) /\ NotRunning(BlockedOn(n))
        /\ \A n \in Monitor : n # m => BlockedOn(n) # b
      BY NotRunningNames, NamesAreNames, NamesDiffer
  <2>2. PICK u : u = lists.head[b]
      OBVIOUS
  <2>3. u = contents[b][1] /\ 1 \in 1 .. Len(contents[b]) /\ u \in Thread /\ contents[b] # <<>>
      BY <1>1, <1>9, <2>1, <2>2, FrontRead
  <2>4. u = firstBlocked(lists, m) /\ u # NULL
      BY <1>9, <2>2 DEF firstBlocked
  <2>5. /\ afterRelease(lists, m) = addThreadToRunningThreads(RemoveOne(lists, b, u), u)
        /\ acquires(u, m, pWaitMonitor)
      BY <1>9, <2>4, ReleaseEffect
  <2> HIDE DEF b
  <2>6. PICK F : Arrived(F, currentPriority) /\ Same(contents, F, b) /\ F[b] = Without(contents[b], 1)
      BY <1>1, <1>9, <2>1, <2>3, <2>5, ThreadWakes
  <2>7. /\ contents'[b] = Without(contents[b], 1)
        /\ \A n \in Monitor : n # m => contents'[BlockedOn(n)] = contents[BlockedOn(n)]
        /\ \A n \in Monitor : contents'[WaitingOn(n)] = contents[WaitingOn(n)]
      BY <2>1, <2>6 DEF Arrived, Same
  <2>8. waitQueue' = waitQueue
      BY <2>7, QueuesRead
  <2>9. /\ savedDepth \in [Thread -> Nat] /\ pWaitMonitor \in [Thread -> Monitor \cup {NULL}]
        /\ \A x \in Thread : savedDepth[x] = IF pWaitMonitor[x] = NULL THEN 0 ELSE waitMonitorDepth'[x]
      BY <1>1 DEF savedDepth, Types
  <2>10. MonitorsOf!HandOver(m, savedDepth)
      BY <1>1, <2>3, <2>5, <2>7, <2>9, HandOverSimulated DEF b
  <2>11. \A x \in Thread : pWaitMonitor'[x] \in {NULL, pWaitMonitor[x]}
      BY <1>1, <2>5, <2>9 DEF acquires
  <2> QED BY <1>4, <1>5, <1>9, <2>8, <2>10, <2>11
<1> QED BY <1>7, <1>8, <1>9 DEF MonitorExit

LEMMA WaitSimulated ==
    ASSUME MonitorsInv, NEW m \in Monitor, NEW timeout \in BOOLEAN, MonitorWait(m, timeout)
    PROVE  Simulated
<1> DEFINE l == WaitingOn(m)
           b == BlockedOn(m)
           L == moveCurrentThreadFromRunningThreads(lists, l)
           how == IF timeout THEN "ASLEEP_TIMED_OUT_ON_MONITOR" ELSE "ASLEEP_ON_MONITOR"
           W == [pWaitMonitor EXCEPT ![current] = m]
           A == [activeStatus EXCEPT ![current] = how]
           S == [savedDepth EXCEPT ![current] = shownDepth[m]]
<1>1. /\ IInv /\ DepthsSaved /\ OutsideAtFirst /\ Types /\ current # IdleThread
      /\ state' = state /\ nesting' = nesting
      /\ waitMonitorDepth' = [waitMonitorDepth EXCEPT ![current] = depth[m]]
      /\ pOwner[m] = current
    BY DEF MonitorWait, MonitorsInv, IInv, Calls
<1>2. /\ releaseBlockedThread(L, m, W, A)
      /\ generatedContextSwitch(afterRelease(L, m))
    BY DEF MonitorWait
<1>3. PICK t \in Thread : t = current
    BY <1>1 DEF Types
<1>4. MonitorsOf!Ready(t) /\ t # NULL /\ m # NULL
    BY <1>1, <1>3, CurrentIsReady, SchedulerAssumption
<1>5. pOwner[m] = t /\ shownDepth[m] = depth[m] /\ depth[m] > 0 /\ shownDepth[m] \in Nat
    BY <1>1, <1>3, <1>4, ReadyOwner
<1>6. /\ l \in ListNames /\ NotRunning(l) /\ b \in ListNames /\ NotRunning(b) /\ l # b
      /\ \A n \in Monitor : /\ NotRunning(WaitingOn(n)) /\ NotRunning(BlockedOn(n))
                            /\ BlockedOn(n) # l /\ WaitingOn(n) # b
                            /\ n # m => BlockedOn(n) # b /\ WaitingOn(n) # l
    BY NotRunningNames, NamesAreNames, NamesDiffer
<1>7. /\ W \in [Thread -> Monitor \cup {NULL}] /\ S \in [Thread -> Nat]
      /\ W[t] = m /\ \A x \in Thread : x # t => W[x] = pWaitMonitor[x] /\ S[x] = savedDepth[x]
      /\ \A x \in Thread : S[x] = IF W[x] = NULL THEN 0 ELSE waitMonitorDepth'[x]
  <2>1. savedDepth \in [Thread -> Nat]
      BY <1>1 DEF savedDepth, Types
  <2>2. /\ W \in [Thread -> Monitor \cup {NULL}] /\ S \in [Thread -> Nat] /\ W[t] = m
        /\ S[t] = depth[m] /\ waitMonitorDepth'[t] = depth[m]
      BY <1>1, <1>3, <1>5, <2>1 DEF Types
  <2>3. \A x \in Thread : x # t => /\ W[x] = pWaitMonitor[x] /\ S[x] = savedDepth[x]
                                   /\ waitMonitorDepth'[x] = waitMonitorDepth[x]
      BY <1>1, <1>3, <2>1 DEF Types
  <2> HIDE DEF W, S
  <2>4. \A x \in Thread : x # t => S[x] = IF W[x] = NULL THEN 0 ELSE waitMonitorDepth'[x]
      BY <2>3 DEF savedDepth
  <2> QED BY <1>4, <2>2, <2>3, <2>4
<1>8. ASSUME contents'[l] = Append(contents[l], t), MonitorsOf!HandOver(m, S),
             \A n \in Monitor : n # m => contents'[WaitingOn(n)] = contents[WaitingOn(n)],
             \A x \in Thread : pWaitMonitor'[x] \in {NULL, W[x]}
      PROVE  Simulated
  <2>1. waitQueue' = [waitQueue EXCEPT ![m] = Append(@, t)]
      BY <1>8, QueuesRead
  <2>2. MonitorsOf!Wait(t, m)
      BY <1>1, <1>3, <1>4, <1>5, <1>8, <2>1 DEF MonitorsOf!Wait
  <2> HIDE DEF W
  <2>3. DepthsSaved'
    <3>1. waitMonitorDepth'[t] = depth[m]
        BY <1>1, <1>3 DEF Types
    <3>2. \A x \in Thread : x # t => waitMonitorDepth'[x] = waitMonitorDepth[x]
        BY <1>1, <1>3 DEF Types
    <3>3. \A x \in Thread : x # t => pWaitMonitor'[x] \in {NULL, pWaitMonitor[x]}
        BY <1>7, <1>8
    <3> QED BY <1>1, <1>5, <3>1, <3>2, <3>3 DEF DepthsSaved
  <2>4. OutsideAtFirst'
      BY <1>1 DEF OutsideAtFirst
  <2> QED BY <2>2, <2>3, <2>4 DEF Simulated, MonitorsOf!Next
<1>9. CASE contents[b] = <<>>
  <2>1. PICK F : Sound(L, F) /\ Goes(contents, F, current, l) /\ Same(contents, F, l)
      BY <1>1, <1>6, CurrentMoved
  <2> HIDE DEF L, W, A, S, l, b
  <2>2. L.head[b] = NULL
    <3>1. F[b] = contents[b]
        BY <1>6, <2>1 DEF Same
    <3> QED BY <1>6, <1>9, <2>1, <3>1, SoundIsFunction DEF Sound
  <2>3. /\ afterRelease(L, m) = L /\ pOwner' = [pOwner EXCEPT ![m] = NULL]
        /\ pWaitMonitor' = W /\ depth' = depth
      BY <1>2, <2>2 DEF releaseBlockedThread, afterRelease, firstBlocked, b
  <2>4. PICK G : /\ Arrived(G, currentPriority) /\ Goes(contents, G, t, l)
                 /\ Same(contents, G, l)
      BY <1>1, <1>2, <1>3, <1>6, <2>3, CurrentDeparts DEF L
  <2>5. /\ contents'[l] = Append(contents[l], t)
        /\ \A n \in Monitor : n # m => contents'[WaitingOn(n)] = contents[WaitingOn(n)]
        /\ \A n \in Monitor : contents'[BlockedOn(n)] = contents[BlockedOn(n)]
      BY <1>6, <2>4 DEF Arrived, Goes, Same
  <2>6. savedDepth' = S
    <3>1. \A x \in Thread : savedDepth'[x] = S[x]
        BY <1>7, <2>3 DEF savedDepth
    <3>2. savedDepth' = [x \in Thread |-> savedDepth'[x]] /\ S = [x \in Thread |-> S[x]]
        BY <1>7 DEF savedDepth
    <3> QED BY <3>1, <3>2
  <2>7. MonitorsOf!HandOver(m, S)
      BY <1>1, <1>9, <2>3, <2>5, <2>6, FreedSimulated DEF b
  <2>8. \A x \in Thread : pWaitMonitor'[x] \in {NULL, W[x]}
      BY <2>3
  <2> QED BY <1>8, <2>5, <2>7, <2>8
<1>10. CASE contents[b] # <<>>
  <2>1. PICK u : u = contents[b][1]
      OBVIOUS
  <2>2. /\ firstBlocked(L, m) = u /\ u \in Thread /\ u \in On(b)
        /\ contents'[l] = Append(contents[l], t)
        /\ contents'[b] = Without(contents[b], 1)
        /\ \A n \in Monitor : n # m => /\ contents'[WaitingOn(n)] = contents[WaitingOn(n)]
                                       /\ contents'[BlockedOn(n)] = contents[BlockedOn(n)]
      BY <1>1, <1>2, <1>3, <1>10, <2>1, MovedAndReleased
  <2> HIDE DEF L, W, A, S, l, b
  <2>3. u # NULL /\ u # t
    <3>1. t \notin On(b)
        BY <1>1, <1>3, <1>6, CurrentFacts DEF NotRunning
    <3> QED BY <2>2, <3>1, ThreadFacts
  <2>4. acquires(u, m, W)
      BY <1>2, <2>2, <2>3, ReleaseEffect
  <2>5. S[u] = savedDepth[u] /\ W[u] = pWaitMonitor[u]
      BY <1>7, <2>2, <2>3
  <2>6. MonitorsOf!HandOver(m, S)
    <3>1. /\ contents[BlockedOn(m)] # <<>> /\ u = contents[BlockedOn(m)][1]
          /\ contents'[BlockedOn(m)] = Without(contents[BlockedOn(m)], 1)
          /\ \A n \in Monitor : n # m => contents'[BlockedOn(n)] = contents[BlockedOn(n)]
        BY <1>10, <2>1, <2>2 DEF b
    <3>2. /\ W \in [Thread -> Monitor \cup {NULL}] /\ S \in [Thread -> Nat]
          /\ \A x \in Thread : x # u => S[x] = IF W[x] = NULL THEN 0 ELSE waitMonitorDepth'[x]
        BY <1>7
    <3> QED BY <1>1, <2>4, <2>5, <3>1, <3>2, HandOverSimulated
  <2>7. \A x \in Thread : pWaitMonitor'[x] \in {NULL, W[x]}
      BY <1>7, <2>2, <2>4 DEF acquires
  <2> QED BY <1>8, <2>2, <2>6, <2>7
<1> QED BY <1>9, <1>10

\* A waiter taken off its list and added to the blocked list.
LEMMA WaiterRelinked ==
    ASSUME IInv, NEW m \in Monitor, NEW k \in 1 .. Len(contents[WaitingOn(m)]),
           NEW t, t = contents[WaitingOn(m)][k]
    PROVE  Sound(AddOneToEnd(RemoveOne(lists, WaitingOn(m), t), BlockedOn(m), t),
                 Added(Removed(contents, WaitingOn(m), k), BlockedOn(m),
                       contents[WaitingOn(m)][k]))
<1> DEFINE l == WaitingOn(m)
<1>1. Sound(lists, contents) /\ NotRunning(l) /\ l \in ListNames /\ NotRunning(BlockedOn(m))
    BY NotRunningNames, NamesAreNames DEF IInv
<1>2. Sound(RemoveOne(lists, l, contents[l][k]), Removed(contents, l, k))
    BY <1>1, OtherRemoved
<1>3. /\ contents[l][k] \in Thread
      /\ Gone(contents, Removed(contents, l, k), contents[l][k])
    BY <1>1, Leaves
<1>4. t \in Thread /\ OnNone(ListNames, Removed(contents, l, k), t)
    BY <1>3 DEF Gone
<1>5. Sound(RemoveOne(lists, l, t), Removed(contents, l, k))
    BY <1>2
<1>6. Sound(AddOneToEnd(RemoveOne(lists, l, t), BlockedOn(m), t),
            Added(Removed(contents, l, k), BlockedOn(m), t))
    BY <1>1, <1>4, <1>5, OtherAdded
<1> QED BY <1>6

\* The lists of m change, the other monitors' do not.
OnlyListsOf(m) ==
    \A n \in Monitor : n # m => /\ contents'[WaitingOn(n)] = contents[WaitingOn(n)]
                                /\ contents'[BlockedOn(n)] = contents[BlockedOn(n)]

\* The k-th waiter is woken by its timeout or by an interrupt.
LEMMA AwakenSimulated ==
    ASSUME MonitorsInv, NEW m \in Monitor, NEW k \in 1 .. Len(contents[WaitingOn(m)]),
           NEW t, t = contents[WaitingOn(m)][k], OnlyListsOf(m),
           contents'[WaitingOn(m)] = Without(contents[WaitingOn(m)], k),
           state' = state, nesting' = nesting, waitMonitorDepth' = waitMonitorDepth,
           \/ /\ pOwner[m] = NULL /\ acquires(t, m, pWaitMonitor)
              /\ contents'[BlockedOn(m)] = contents[BlockedOn(m)]
           \/ /\ pOwner[m] # NULL
              /\ contents'[BlockedOn(m)] = Append(contents[BlockedOn(m)], t)
              /\ pOwner' = pOwner /\ depth' = depth /\ pWaitMonitor' = pWaitMonitor
    PROVE  Simulated
<1>1. IInv /\ DepthsSaved /\ OutsideAtFirst /\ Types
    BY DEF MonitorsInv, IInv
<1>2. waitQueue[m] = contents[WaitingOn(m)] /\ contents[WaitingOn(m)] \in Seq(Thread)
    BY <1>1, QueuesRead, NamesAreNames, SoundIsFunction DEF IInv, Sound
<1>3. waitQueue[m][k] = t /\ k \in 1 .. Len(waitQueue[m])
    BY <1>2
<1>4. waitQueue' = [waitQueue EXCEPT ![m] = MonitorsOf!RemoveAt(@, k)]
  <2>1. MonitorsOf!RemoveAt(contents[WaitingOn(m)], k) = Without(contents[WaitingOn(m)], k)
      BY <1>2, QueueForms
  <2>2. \A n \in Monitor : contents'[WaitingOn(n)] =
            IF n = m THEN MonitorsOf!RemoveAt(contents[WaitingOn(m)], k) ELSE contents[WaitingOn(n)]
      BY <2>1 DEF OnlyListsOf
  <2> QED BY <2>2, QueuesRead
<1>5. ASSUME \/ pOwner[m] = NULL /\ MonitorsOf!Acquire(t, m, savedDepth) /\ blockedQueue' = blockedQueue
             \/ /\ pOwner[m] # NULL /\ blockedQueue' = [blockedQueue EXCEPT ![m] = Append(@, t)]
                /\ pOwner' = pOwner /\ shownDepth' = shownDepth /\ savedDepth' = savedDepth,
             \A u \in Thread : pWaitMonitor'[u] \in {NULL, pWaitMonitor[u]}
      PROVE  Simulated
  <2>1. MonitorsOf!Awaken(m, k)
      BY <1>3, <1>4, <1>5 DEF MonitorsOf!Awaken
  <2>2. \A u \in Thread : state'[u] = "NOT_STARTED" =>
            state[u] = "NOT_STARTED" /\ nesting'[u] = nesting[u]
      OBVIOUS
  <2>3. DepthsSaved' /\ OutsideAtFirst'
      BY <1>1, <1>5, <2>2, SavedKept
  <2>4. MonitorsOf!Next
      BY <1>3, <2>1 DEF MonitorsOf!Next
  <2> QED BY <2>3, <2>4 DEF Simulated
<1>6. CASE pOwner[m] = NULL /\ acquires(t, m, pWaitMonitor)
           /\ contents'[BlockedOn(m)] = contents[BlockedOn(m)]
  <2>1. blockedQueue' = blockedQueue
    <3>1. \A n \in Monitor : contents'[BlockedOn(n)] = contents[BlockedOn(n)]
        BY <1>6 DEF OnlyListsOf
    <3> QED BY <3>1, QueuesRead
  <2>2. /\ savedDepth \in [Thread -> Nat] /\ pWaitMonitor \in [Thread -> Monitor \cup {NULL}]
        /\ \A x \in Thread : savedDepth[x] = IF pWaitMonitor[x] = NULL THEN 0 ELSE waitMonitorDepth'[x]
      BY <1>1 DEF savedDepth, Types
  <2>3. t \in Thread
      BY <1>2
  <2>4. MonitorsOf!Acquire(t, m, savedDepth)
      BY <1>1, <1>6, <2>2, <2>3, AcquireSimulated
  <2>5. \A u \in Thread : pWaitMonitor'[u] \in {NULL, pWaitMonitor[u]}
      BY <1>6, <2>2 DEF acquires
  <2> QED BY <1>5, <1>6, <2>1, <2>4, <2>5
<1>7. CASE /\ pOwner[m] # NULL
           /\ contents'[BlockedOn(m)] = Append(contents[BlockedOn(m)], t)
           /\ pOwner' = pOwner /\ depth' = depth /\ pWaitMonitor' = pWaitMonitor
  <2>1. blockedQueue' = [blockedQueue EXCEPT ![m] = Append(@, t)]
    <3>1. \A n \in Monitor : contents'[BlockedOn(n)] =
              IF n = m THEN Append(contents[BlockedOn(m)], t) ELSE contents[BlockedOn(n)]
        BY <1>7 DEF OnlyListsOf
    <3> QED BY <3>1, QueuesRead
  <2>2. shownDepth' = shownDepth /\ savedDepth' = savedDepth
      BY <1>7 DEF shownDepth, savedDepth
  <2>3. \A u \in Thread : pWaitMonitor'[u] \in {NULL, pWaitMonitor[u]}
      BY <1>7
  <2> QED BY <1>5, <1>7, <2>1, <2>2, <2>3
<1> QED BY <1>6, <1>7

\* A step of the current thread, which owns m, that changes nothing but the queues of m.
LEMMA NotifierFacts ==
    ASSUME MonitorsInv, NEW m \in Monitor, pOwner[m] = current,
           state' = state, nesting' = nesting, waitMonitorDepth' = waitMonitorDepth,
           pWaitMonitor' = pWaitMonitor, pOwner' = pOwner, depth' = depth
    PROVE  /\ MonitorsOf!Ready(current) /\ current \in Thread
           /\ shownDepth' = shownDepth /\ savedDepth' = savedDepth
           /\ DepthsSaved' /\ OutsideAtFirst'
<1>1. IInv /\ DepthsSaved /\ OutsideAtFirst
    BY DEF MonitorsInv
<1>2. MonitorsOf!Ready(current) /\ current \in Thread
    BY <1>1, CurrentIsReady
<1>3. shownDepth' = shownDepth /\ savedDepth' = savedDepth
    BY DEF shownDepth, savedDepth
<1>4. DepthsSaved' /\ OutsideAtFirst'
    BY <1>1, SavedKept
<1> QED BY <1>2, <1>3, <1>4

LEMMA NotifySimulated ==
    ASSUME MonitorsInv, NEW m \in Monitor, MonitorNotify(m)
    PROVE  Simulated
<1> DEFINE l == WaitingOn(m)
<1>1. /\ state' = state /\ pWaitMonitor' = pWaitMonitor /\ waitMonitorDepth' = waitMonitorDepth
      /\ pOwner' = pOwner /\ depth' = depth /\ nesting' = nesting
      /\ pOwner[m] = current /\ lists.head[l] # NULL /\ IInv
    BY DEF MonitorNotify, waitVars, monitorVars, MonitorsInv
<1>2. /\ l \in ListNames /\ NotRunning(l) /\ NotRunning(BlockedOn(m)) /\ l # BlockedOn(m)
      /\ \A n \in Monitor : n # m => /\ NotRunning(WaitingOn(n)) /\ NotRunning(BlockedOn(n))
                                     /\ WaitingOn(n) # l /\ BlockedOn(n) # l
                                     /\ WaitingOn(n) # BlockedOn(m) /\ BlockedOn(n) # BlockedOn(m)
    BY NamesAreNames, NotRunningNames, NamesDiffer
<1>3. PICK t \in Thread : t = contents[l][1] /\ 1 \in 1 .. Len(contents[l]) /\ contents[l] # <<>>
    BY <1>1, <1>2, FrontRead
<1> DEFINE L == MoveOneFrontToEnd(lists, BlockedOn(m), l)
<1>4. conditionalContextSwitch(L, currentPriority)
    BY DEF MonitorNotify
<1>5. Sound(L, Added(Removed(contents, l, 1), BlockedOn(m), contents[l][1]))
  <2>1. Sound(lists, contents)
      BY <1>1 DEF IInv
  <2> QED BY <1>2, <1>3, <2>1, OtherMoved
<1> HIDE DEF L
<1>6. /\ contents'[l] = Without(contents[l], 1)
      /\ contents'[BlockedOn(m)] = Append(contents[BlockedOn(m)], t)
      /\ \A j : NotRunning(j) /\ j # l /\ j # BlockedOn(m) => contents'[j] = contents[j]
    BY <1>1, <1>3, <1>4, <1>5, WaiterBlocks
<1>7. Head(contents[l]) = t /\ Tail(contents[l]) = Without(contents[l], 1)
  <2>1. contents[l] \in Seq(Thread)
      BY <1>1, <1>2, SoundIsFunction DEF IInv, Sound
  <2> QED BY <1>3, <2>1, QueueForms
<1>8. /\ waitQueue[m] = contents[l]
      /\ waitQueue' = [waitQueue EXCEPT ![m] = Tail(@)]
      /\ blockedQueue' = [blockedQueue EXCEPT ![m] = Append(@, Head(waitQueue[m]))]
  <2>1. \A n \in Monitor :
            /\ contents'[WaitingOn(n)] = IF n = m THEN Tail(contents[l]) ELSE contents[WaitingOn(n)]
            /\ contents'[BlockedOn(n)] = IF n = m THEN Append(contents[BlockedOn(m)], Head(contents[l]))
                                         ELSE contents[BlockedOn(n)]
      BY <1>2, <1>6, <1>7
  <2> QED BY <2>1, QueuesRead
<1>9. /\ MonitorsOf!Ready(current) /\ current \in Thread
      /\ shownDepth' = shownDepth /\ savedDepth' = savedDepth /\ DepthsSaved' /\ OutsideAtFirst'
    BY <1>1, NotifierFacts
<1>10. MonitorsOf!Notify(current, m)
    BY <1>1, <1>3, <1>8, <1>9 DEF MonitorsOf!Notify
<1> QED BY <1>9, <1>10 DEF Simulated, MonitorsOf!Next

LEMMA NotifyAllSimulated ==
    ASSUME MonitorsInv, NEW m \in Monitor, MonitorNotifyAll(m)
    PROVE  Simulated
<1> DEFINE l == WaitingOn(m)
           b == BlockedOn(m)
           L == MoveAllToEnd(lists, b, l)
           F == [contents EXCEPT ![b] = contents[b] \o contents[l], ![l] = <<>>]
<1>1. /\ state' = state /\ pWaitMonitor' = pWaitMonitor /\ waitMonitorDepth' = waitMonitorDepth
      /\ pOwner' = pOwner /\ depth' = depth /\ nesting' = nesting
      /\ pOwner[m] = current /\ lists.head[l] # NULL /\ IInv
      /\ conditionalContextSwitch(L, currentPriority)
    BY DEF MonitorNotifyAll, waitVars, monitorVars, MonitorsInv
<1>2. /\ l \in ListNames /\ b \in ListNames /\ NotRunning(l) /\ NotRunning(b) /\ l # b
      /\ \A n \in Monitor : n # m => /\ NotRunning(WaitingOn(n)) /\ NotRunning(BlockedOn(n))
                                     /\ WaitingOn(n) # l /\ BlockedOn(n) # l
                                     /\ WaitingOn(n) # b /\ BlockedOn(n) # b
    BY NamesAreNames, NotRunningNames, NamesDiffer
<1>3. contents[l] # <<>>
    BY <1>1, <1>2, FrontRead
<1>4. /\ Sound(lists, contents) /\ contents \in [ListNames -> Seq(Thread)]
      /\ currentPriority \in [Thread -> Priorities] /\ current \in Thread
    BY <1>1, SoundIsFunction DEF IInv, Types, Sound
<1>5. Sound(L, F)
    BY <1>2, <1>4, OthersMoved
<1>6. \A j \in ListNames : F[j] = IF j = b THEN contents[b] \o contents[l]
                                  ELSE IF j = l THEN <<>> ELSE contents[j]
    BY <1>2, <1>4
<1> HIDE DEF F, L
<1>7. \A p \in Priorities : F[RunningAt(p)] = contents[RunningAt(p)]
    BY <1>2, <1>6, NamesAreNames DEF NotRunning
<1>8. ByPriority(F, currentPriority)
    BY <1>1, <1>7, RunningByPriority DEF ByPriority
<1>9. First(F, currentPriority, current)
    BY <1>1, <1>7, CurrentFacts DEF First
<1>10. Arrived(F, currentPriority)
    BY <1>1, <1>4, <1>5, <1>8, <1>9, Conditional
<1>11. \A n \in Monitor :
           /\ contents'[WaitingOn(n)] = IF n = m THEN <<>> ELSE contents[WaitingOn(n)]
           /\ contents'[BlockedOn(n)] = IF n = m THEN contents[b] \o contents[l]
                                        ELSE contents[BlockedOn(n)]
    BY <1>2, <1>6, <1>10 DEF Arrived, NotRunning
<1>12. /\ waitQueue[m] = contents[l]
       /\ waitQueue' = [waitQueue EXCEPT ![m] = <<>>]
       /\ blockedQueue' = [blockedQueue EXCEPT ![m] = @ \o waitQueue[m]]
    BY <1>11, QueuesRead
<1>13. /\ MonitorsOf!Ready(current) /\ current \in Thread
       /\ shownDepth' = shownDepth /\ savedDepth' = savedDepth /\ DepthsSaved' /\ OutsideAtFirst'
    BY <1>1, NotifierFacts
<1>14. MonitorsOf!NotifyAll(current, m)
    BY <1>1, <1>3, <1>12, <1>13 DEF MonitorsOf!NotifyAll
<1> QED BY <1>13, <1>14 DEF Simulated, MonitorsOf!Next

\* What a timeout or an interrupt does to a waiter.
LEMMA WaiterSimulated ==
    ASSUME MonitorsInv, NEW m \in Monitor, NEW t, t \in On(WaitingOn(m)),
           state' = state, nesting' = nesting, waitMonitorDepth' = waitMonitorDepth,
           NEW L, NEW M,
           L = addThreadToRunningThreads(RemoveOne(lists, WaitingOn(m), t), t),
           M = AddOneToEnd(RemoveOne(lists, WaitingOn(m), t), BlockedOn(m), t),
           \/ /\ pOwner[m] = NULL /\ acquires(t, m, pWaitMonitor)
              /\ noContextSwitch(L) \/ conditionalContextSwitch(L, currentPriority)
           \/ /\ pOwner[m] # NULL /\ noContextSwitch(M)
              /\ pOwner' = pOwner /\ depth' = depth /\ pWaitMonitor' = pWaitMonitor
    PROVE  Simulated
<1> DEFINE l == WaitingOn(m)
<1>1. IInv
    BY DEF MonitorsInv
<1>2. PICK k \in 1 .. Len(contents[l]) : t = contents[l][k]
    BY DEF On, Members
<1>3. /\ NotRunning(l) /\ NotRunning(BlockedOn(m)) /\ l # BlockedOn(m)
      /\ \A n \in Monitor : /\ NotRunning(WaitingOn(n)) /\ NotRunning(BlockedOn(n))
                            /\ BlockedOn(n) # l /\ WaitingOn(n) # BlockedOn(m)
                            /\ n # m => WaitingOn(n) # l /\ BlockedOn(n) # BlockedOn(m)
    BY NotRunningNames, NamesDiffer
<1>4. CASE /\ pOwner[m] = NULL /\ acquires(t, m, pWaitMonitor)
           /\ noContextSwitch(L) \/ conditionalContextSwitch(L, currentPriority)
  <2>1. PICK F : /\ Arrived(F, currentPriority)
                 /\ Same(contents, F, l) /\ F[l] = Without(contents[l], k)
      BY <1>1, <1>2, <1>3, <1>4, ThreadWakes
  <2>2. contents'[l] = Without(contents[l], k) /\ OnlyListsOf(m)
        /\ contents'[BlockedOn(m)] = contents[BlockedOn(m)]
      BY <1>3, <2>1 DEF Arrived, Same, OnlyListsOf
  <2> QED BY <1>2, <1>4, <2>2, AwakenSimulated
<1>5. CASE /\ pOwner[m] # NULL /\ noContextSwitch(M)
           /\ pOwner' = pOwner /\ depth' = depth /\ pWaitMonitor' = pWaitMonitor
  <2>1. Sound(M, Added(Removed(contents, l, k), BlockedOn(m), contents[l][k]))
      BY <1>1, <1>2, WaiterRelinked
  <2>2. /\ contents'[l] = Without(contents[l], k)
        /\ contents'[BlockedOn(m)] = Append(contents[BlockedOn(m)], t)
        /\ \A j : NotRunning(j) /\ j # l /\ j # BlockedOn(m) => contents'[j] = contents[j]
      BY <1>1, <1>2, <1>5, <2>1, WaiterBlocks
  <2>3. OnlyListsOf(m)
      BY <1>3, <2>2 DEF OnlyListsOf
  <2> QED BY <1>2, <1>5, <2>2, <2>3, AwakenSimulated
<1> QED BY <1>4, <1>5

\* A thread that wakes from another list is no business of the monitors.
LEMMA WakingSimulated ==
    ASSUME MonitorsInv, NEW l, NotRunning(l), \A m \in Monitor : l # BlockedOn(m) /\ l # WaitingOn(m),
           NEW t, t \in On(l), NEW L, L = addThreadToRunningThreads(RemoveOne(lists, l, t), t),
           noContextSwitch(L) \/ conditionalContextSwitch(L, currentPriority),
           pOwner' = pOwner, depth' = depth, pWaitMonitor' = pWaitMonitor,
           waitMonitorDepth' = waitMonitorDepth, nesting' = nesting, state' = state
    PROVE  Simulated
<1>1. IInv /\ DepthsSaved /\ OutsideAtFirst
    BY DEF MonitorsInv
<1>2. PICK k \in 1 .. Len(contents[l]) : t = contents[l][k]
    BY DEF On, Members
<1>3. PICK F : Arrived(F, currentPriority) /\ Same(contents, F, l)
    BY <1>1, <1>2, ThreadWakes
<1>4. \A m \in Monitor : /\ F[BlockedOn(m)] = contents[BlockedOn(m)]
                         /\ F[WaitingOn(m)] = contents[WaitingOn(m)]
    BY <1>3, OfListsButOne
<1> QED BY <1>1, <1>3, <1>4, StutterOfLists

LEMMA ExpirySimulated ==
    ASSUME MonitorsInv, TimerExpires
    PROVE  Simulated
<1> DEFINE h == timers.head[TimerList]
<1>1. /\ state' = state /\ nesting' = nesting /\ waitMonitorDepth' = waitMonitorDepth
      /\ current' = current /\ h # NULL /\ IInv
    BY DEF TimerExpires, MonitorsInv
<1>2. PICK t \in Thread : t = h /\ t \in Timed
    BY <1>1, FirstTimed
<1>3. \/ timerCallback[t] = "threadSleepExpired" /\ threadSleepExpired(t)
      \/ timerCallback[t] = "monitorWaitExpired" /\ monitorWaitExpired(t)
    BY <1>2 DEF TimerExpires
<1>4. TimedOut(t) /\ timerCallback[t] = IF activeStatus[t] = "ASLEEP_TIMED_OUT"
                                        THEN "threadSleepExpired" ELSE "monitorWaitExpired"
    BY <1>1, <1>2 DEF IInv, Clocked
<1>5. CASE t \in On(AsleepList)
  <2>1. NotRunning(AsleepList) /\ AsleepList \in ListNames
        /\ \A m \in Monitor : AsleepList # BlockedOn(m) /\ AsleepList # WaitingOn(m)
      BY NotRunningNames, NamesAreNames, NamesDiffer
  <2>2. Shows(t, AsleepList)
      BY <1>1, <1>5, <2>1, OnList DEF IInv
  <2>3. activeStatus[t] = "ASLEEP_TIMED_OUT"
      BY <2>2, ShownByList
  <2>4. threadSleepExpired(t)
      BY <1>3, <1>4, <2>3
  <2>5. PICK L : L = addThreadToRunningThreads(RemoveOne(lists, AsleepList, t), t)
      OBVIOUS
  <2>6. noContextSwitch(L) /\ pOwner' = pOwner /\ depth' = depth /\ pWaitMonitor' = pWaitMonitor
      BY <1>1, <2>4, <2>5 DEF threadSleepExpired, noContextSwitch, monitorVars
  <2> QED BY <1>1, <1>5, <2>1, <2>5, <2>6, WakingSimulated
<1>6. CASE t \notin On(AsleepList)
  <2>1. PICK m \in Monitor : t \in On(WaitingOn(m))
      BY <1>4, <1>6 DEF TimedOut
  <2>2. /\ pWaitMonitor[t] = m /\ AsleepOnMonitor(t)
      BY <1>1, <2>1, WaiterFacts
  <2>3. monitorWaitExpired(t)
      BY <1>3, <1>4, <2>2 DEF AsleepOnMonitor
  <2>4. PICK L : L = addThreadToRunningThreads(RemoveOne(lists, WaitingOn(m), t), t)
      OBVIOUS
  <2>5. PICK M : M = AddOneToEnd(RemoveOne(lists, WaitingOn(m), t), BlockedOn(m), t)
      OBVIOUS
  <2>6. \/ pOwner[m] = NULL /\ acquires(t, m, pWaitMonitor) /\ noContextSwitch(L)
        \/ /\ pOwner[m] # NULL /\ noContextSwitch(M)
           /\ pOwner' = pOwner /\ depth' = depth /\ pWaitMonitor' = pWaitMonitor
      BY <1>1, <2>2, <2>3, <2>4, <2>5 DEF monitorWaitExpired, noContextSwitch, monitorVars
  <2> QED BY <1>1, <2>1, <2>4, <2>5, <2>6, WaiterSimulated
<1> QED BY <1>5, <1>6

LEMMA InterruptSimulated ==
    ASSUME MonitorsInv, Disciplined, NEW t \in Thread, InterruptThread(t)
    PROVE  Simulated
<1>1. /\ state' = state /\ waitMonitorDepth' = waitMonitorDepth /\ nesting' = nesting
      /\ state[t] # "NOT_STARTED" /\ MayInterrupt(t) /\ Types /\ IInv
      /\ DepthsSaved /\ OutsideAtFirst
    BY DEF InterruptThread, MonitorsInv, IInv
<1>2. {"CarefulInterrupt", "LetSleep"} \subseteq Disciplines
    BY DEF InterruptThread, Calls, Disciplined
<1>3. activeStatus[t] # "ASLEEP_TIMED_OUT"
    BY <1>1, <1>2 DEF MayInterrupt
<1>4. Placed(t) /\ NULL \notin Monitor
    BY <1>1, SchedulerAssumption DEF IInv
<1>5. Active(t) \/ activeStatus[t] = "RUNNING"
    BY <1>1, <1>4 DEF Placed, Active, Types
<1>6. CASE InterruptOther(t)
  <2>1. /\ lists' = lists /\ pOwner' = pOwner /\ depth' = depth /\ pWaitMonitor' = pWaitMonitor
      BY <1>6 DEF InterruptOther, monitorVars
  <2>2. contents' = contents
      BY <2>1 DEF contents
  <2> QED BY <1>1, <2>1, <2>2, StutterSimulated
<1>7. CASE InterruptJoiner(t)
  <2>1. /\ activeStatus[t] = "BLOCKED_ON_THREAD_DEATH"
        /\ pOwner' = pOwner /\ depth' = depth /\ pWaitMonitor' = pWaitMonitor
      BY <1>7 DEF InterruptJoiner, monitorVars
  <2>2. PICK u \in Thread : u = pJoinedThread[t] /\ t \in On(Joining(u))
      BY <1>4, <1>5, <2>1, WithStatus
  <2>3. NotRunning(Joining(u)) /\ \A m \in Monitor : Joining(u) # BlockedOn(m) /\ Joining(u) # WaitingOn(m)
      BY NotRunningNames, NamesDiffer
  <2>4. PICK L : L = addThreadToRunningThreads(RemoveOne(lists, Joining(u), t), t)
      OBVIOUS
  <2>5. conditionalContextSwitch(L, currentPriority)
      BY <1>7, <2>2, <2>4 DEF InterruptJoiner
  <2> QED BY <1>1, <2>1, <2>2, <2>3, <2>4, <2>5, WakingSimulated
<1>8. CASE InterruptWaiter(t)
  <2>1. PICK m : m = pWaitMonitor[t]
      OBVIOUS
  <2>2. AsleepOnMonitor(t)
      BY <1>8 DEF InterruptWaiter
  <2>3. Active(t)
      BY <1>5, <2>2 DEF AsleepOnMonitor
  <2>4. m \in Monitor /\ WaitingOn(m) \in ListNames
      BY <1>4, <2>1, <2>2, <2>3, WithStatus, NamesAreNames
  <2>5. t \in EntriesOf(lists, WaitingOn(m)) \ {lists.head[WaitingOn(m)]}
      BY <1>1, <1>2, <2>1, <2>2 DEF MayInterrupt
  <2>6. t \in On(WaitingOn(m)) /\ lists.head[WaitingOn(m)] # t
      BY <1>1, <2>4, <2>5, SequencesRead DEF IInv, Sound, On
  <2>7. afterInterruptedWait(t) = RemoveOne(lists, WaitingOn(m), t)
      BY <2>6 DEF afterInterruptedWait, RemoveOne
  <2>8. PICK L : L = addThreadToRunningThreads(RemoveOne(lists, WaitingOn(m), t), t)
      OBVIOUS
  <2>9. PICK M : M = AddOneToEnd(RemoveOne(lists, WaitingOn(m), t), BlockedOn(m), t)
      OBVIOUS
  <2>10. \/ /\ pOwner[m] = NULL /\ acquires(t, m, pWaitMonitor)
            /\ conditionalContextSwitch(L, currentPriority)
         \/ /\ pOwner[m] # NULL /\ noContextSwitch(M)
            /\ pOwner' = pOwner /\ depth' = depth /\ pWaitMonitor' = pWaitMonitor
      BY <1>8, <2>1, <2>7, <2>8, <2>9 DEF InterruptWaiter, monitorVars
  <2> QED BY <1>1, <2>4, <2>6, <2>8, <2>9, <2>10, WaiterSimulated
<1> QED BY <1>3, <1>6, <1>7, <1>8 DEF InterruptThread, InterruptSleeper

-----------------------------------------------------------------------------
(* Operations that are no business of the monitors. *)

\* A step that turns or leaves the lists, and changes nothing else of the threads.
LEMMA TurnsSimulated ==
    ASSUME MonitorsInv, Untouched, Arrived(contents, currentPriority)
    PROVE  Simulated
<1>1. /\ DepthsSaved /\ OutsideAtFirst /\ state' = state
      /\ pOwner' = pOwner /\ depth' = depth /\ pWaitMonitor' = pWaitMonitor
      /\ waitMonitorDepth' = waitMonitorDepth /\ nesting' = nesting
    BY DEF MonitorsInv, Untouched
<1> QED BY <1>1, StutterOfLists

LEMMA ConditionalSimulated ==
    ASSUME MonitorsInv, Untouched, conditionalContextSwitch(lists, currentPriority)
    PROVE  Simulated
<1>1. /\ Sound(lists, contents) /\ currentPriority \in [Thread -> Priorities]
      /\ current \in Thread /\ First(contents, currentPriority, current) /\ IInv
    BY DEF MonitorsInv, IInv, Types, CurrentIsFirst
<1>2. Arrived(contents, currentPriority)
    BY <1>1, RunningByPriority, Conditional
<1> QED BY <1>2, TurnsSimulated

LEMMA RestSimulated ==
    ASSUME MonitorsInv, Untouched, lists' = lists, current' = current
    PROVE  Simulated
<1>1. IInv
    BY DEF MonitorsInv
<1> QED BY <1>1, ListsUnchanged, TurnsSimulated

LEMMA WeakYieldSimulated ==
    ASSUME MonitorsInv, WeakYield
    PROVE  Simulated
<1>1. Untouched
    BY DEF WeakYield, Untouched, threadVars, waitVars, timerVars, monitorVars, IInv, Types, MonitorsInv
<1> QED BY <1>1, ConditionalSimulated DEF WeakYield

LEMMA StrongYieldSimulated ==
    ASSUME MonitorsInv, StrongYield
    PROVE  Simulated
<1> DEFINE p == currentPriority[current]
           L == RotateOneFrontToEnd(lists, RunningAt(p))
           F == Turned(contents, RunningAt(p))
<1>1. Untouched /\ IInv
    BY DEF StrongYield, Untouched, threadVars, waitVars, timerVars, monitorVars, IInv, Types, MonitorsInv
<1>2. /\ Sound(L, F) /\ F \in [ListNames -> Seq(Thread)]
      /\ ByPriority(F, currentPriority) /\ NonEmpty(F) # {}
    BY <1>1, CurrentTurned
<1>3. /\ RunningAt(p) \in ListNames /\ p \in Priorities /\ current \in Thread
    BY <1>1, CurrentFacts
<1>4. CASE L.head[RunningAt(p)] # current
  <2>1. generatedContextSwitch(L)
      BY <1>4 DEF StrongYield
  <2> HIDE DEF L, F
  <2>2. Arrived(F, currentPriority)
      BY <1>2, <2>1, Generated
  <2> QED BY <1>1, <2>2, TurnArrives, TurnsSimulated DEF F
<1>5. CASE L.head[RunningAt(p)] = current
  <2>1. noContextSwitch(L)
      BY <1>5 DEF StrongYield
  <2> HIDE DEF L, F
  <2>2. First(F, currentPriority, current)
    <3>1. current # NULL
        BY <1>3, ThreadFacts
    <3>2. L.head[RunningAt(p)] = IF F[RunningAt(p)] = <<>> THEN NULL ELSE F[RunningAt(p)][1]
        BY <1>2, <1>3, SoundIsFunction DEF Sound
    <3> QED BY <1>5, <3>1, <3>2 DEF First
  <2>3. Arrived(F, currentPriority)
      BY <1>2, <1>3, <2>1, <2>2, NoSwitch
  <2> QED BY <1>1, <2>3, TurnArrives, TurnsSimulated DEF F
<1> QED BY <1>4, <1>5

LEMMA DisableSimulated ==
    ASSUME MonitorsInv, DisableRescheduler
    PROVE  Simulated
<1>1. Untouched /\ lists' = lists /\ current' = current
    BY DEF DisableRescheduler, Untouched, threadVars, waitVars, timerVars, monitorVars,
           MonitorsInv, IInv, Types
<1> QED BY <1>1, RestSimulated

LEMMA EnableSimulated ==
    ASSUME MonitorsInv, EnableRescheduler
    PROVE  Simulated
<1>1. Untouched
    BY DEF EnableRescheduler, Untouched, threadVars, waitVars, timerVars, monitorVars,
           MonitorsInv, IInv, Types
<1>2. CASE conditionalContextSwitch(lists, currentPriority)
    BY <1>1, <1>2, ConditionalSimulated
<1>3. CASE noContextSwitch(lists)
    BY <1>1, <1>3, RestSimulated DEF noContextSwitch
<1> QED BY <1>2, <1>3 DEF EnableRescheduler

LEMMA TickInterruptSimulated ==
    ASSUME MonitorsInv, NEW kind \in {"scheduled", "conditional"}, TickInterrupt(kind)
    PROVE  Simulated
<1>1. Untouched /\ lists' = lists /\ current' = current
    BY DEF TickInterrupt, Untouched, threadVars, waitVars, timerVars, monitorVars,
           MonitorsInv, IInv, Types
<1> QED BY <1>1, RestSimulated

LEMMA TickReturnsSimulated ==
    ASSUME MonitorsInv, TickReturns
    PROVE  Simulated
<1> DEFINE L == RotateOneFrontToEnd(lists, RunningAt(currentPriority[current]))
           F == Turned(contents, RunningAt(currentPriority[current]))
<1>1. Untouched /\ IInv
    BY DEF TickReturns, Untouched, threadVars, waitVars, timerVars, monitorVars,
           MonitorsInv, IInv, Types
<1>2. CASE conditionalContextSwitch(lists, currentPriority)
    BY <1>1, <1>2, ConditionalSimulated
<1>3. CASE generatedContextSwitch(L)
  <2>1. Sound(L, F) /\ ByPriority(F, currentPriority) /\ NonEmpty(F) # {}
      BY <1>1, CurrentTurned
  <2> HIDE DEF L, F
  <2>2. Arrived(F, currentPriority)
      BY <1>3, <2>1, Generated
  <2> QED BY <1>1, <2>2, TurnArrives, TurnsSimulated DEF F
<1> QED BY <1>2, <1>3 DEF TickReturns

\* The current thread goes to a list that is none of the monitors'.
LEMMA DepartureSimulated ==
    ASSUME MonitorsInv, NEW l, NotRunning(l), \A m \in Monitor : l # BlockedOn(m) /\ l # WaitingOn(m),
           current # IdleThread,
           generatedContextSwitch(moveCurrentThreadFromRunningThreads(lists, l)),
           pOwner' = pOwner, depth' = depth, pWaitMonitor' = pWaitMonitor,
           waitMonitorDepth' = waitMonitorDepth, nesting' = nesting, state' = state
    PROVE  Simulated
<1>1. IInv /\ DepthsSaved /\ OutsideAtFirst
    BY DEF MonitorsInv
<1>2. PICK t \in Thread : t = current
    BY <1>1 DEF IInv, Types
<1>3. PICK F : Arrived(F, currentPriority) /\ Same(contents, F, l)
    BY <1>1, <1>2, CurrentDeparts
<1>4. \A m \in Monitor : /\ F[BlockedOn(m)] = contents[BlockedOn(m)]
                         /\ F[WaitingOn(m)] = contents[WaitingOn(m)]
    BY <1>3, OfListsButOne
<1> QED BY <1>1, <1>3, <1>4, StutterOfLists

LEMMA SleepSimulated ==
    ASSUME MonitorsInv, ThreadSleep
    PROVE  Simulated
<1>1. /\ current # IdleThread
      /\ generatedContextSwitch(moveCurrentThreadFromRunningThreads(lists, AsleepList))
      /\ pOwner' = pOwner /\ depth' = depth /\ pWaitMonitor' = pWaitMonitor
      /\ waitMonitorDepth' = waitMonitorDepth /\ nesting' = nesting /\ state' = state
    BY DEF ThreadSleep, Calls, waitVars, monitorVars
<1>2. NotRunning(AsleepList) /\ \A m \in Monitor : AsleepList # BlockedOn(m) /\ AsleepList # WaitingOn(m)
    BY NotRunningNames, NamesDiffer
<1> QED BY <1>1, <1>2, DepartureSimulated

LEMMA JoinSimulated ==
    ASSUME MonitorsInv, NEW u \in Thread, ThreadJoin(u)
    PROVE  Simulated
<1>1. /\ current # IdleThread
      /\ generatedContextSwitch(moveCurrentThreadFromRunningThreads(lists, Joining(u)))
      /\ pOwner' = pOwner /\ depth' = depth /\ pWaitMonitor' = pWaitMonitor
      /\ waitMonitorDepth' = waitMonitorDepth /\ nesting' = nesting /\ state' = state
    BY DEF ThreadJoin, Calls, waitVars, monitorVars
<1>2. NotRunning(Joining(u)) /\ \A m \in Monitor : Joining(u) # BlockedOn(m) /\ Joining(u) # WaitingOn(m)
    BY NotRunningNames, NamesDiffer
<1> QED BY <1>1, <1>2, DepartureSimulated

LEMMA PostSimulated ==
    ASSUME MonitorsInv, NEW s \in Semaphore, SemaphorePost(s)
    PROVE  Simulated
<1>1. /\ pOwner' = pOwner /\ depth' = depth /\ pWaitMonitor' = pWaitMonitor
      /\ waitMonitorDepth' = waitMonitorDepth /\ nesting' = nesting /\ state' = state
      /\ IInv /\ DepthsSaved /\ OutsideAtFirst
    BY DEF SemaphorePost, waitVars, monitorVars, MonitorsInv
<1>2. PICK l : l = PendingOn(s)
    OBVIOUS
<1>3. /\ NotRunning(l) /\ l \in ListNames
      /\ \A m \in Monitor : l # BlockedOn(m) /\ l # WaitingOn(m)
    BY <1>2, NotRunningNames, NamesAreNames, NamesDiffer
<1>4. CASE lists' = lists
  <2>1. contents' = contents
      BY <1>4 DEF contents
  <2> QED BY <1>1, <2>1, StutterSimulated
<1>5. CASE PostReleases(s)
  <2>1. Len(contents[l]) = (IF counter[s] < 0 THEN -counter[s] ELSE 0) /\ counter[s] \in Int
        /\ contents[l] \in Seq(Thread)
      BY <1>1, <1>2, PendedFacts
  <2>2. contents[l] # <<>>
    <3>1. counter[s] + 1 <= 0
        BY <1>5 DEF PostReleases
    <3>2. Len(contents[l]) # 0
        BY <2>1, <3>1
    <3> QED BY <3>2
  <2>3. PICK t \in Thread : t = lists.head[l] /\ t \in On(l) /\ lists.head[l] # NULL
      BY <1>1, <1>3, <2>2, FrontRead
  <2>4. PICK L : L = addThreadToRunningThreads(RemoveOne(lists, l, t), t)
      OBVIOUS
  <2>5. conditionalContextSwitch(L, currentPriority)
      BY <1>2, <1>5, <2>3, <2>4 DEF SemaphorePost, RemoveOneFromFront
  <2> QED BY <1>1, <1>3, <2>3, <2>4, <2>5, WakingSimulated
<1> QED BY <1>4, <1>5 DEF SemaphorePost

LEMMA PendSimulated ==
    ASSUME MonitorsInv, NEW s \in Semaphore, SemaphorePend(s)
    PROVE  Simulated
<1>1. /\ pOwner' = pOwner /\ depth' = depth /\ pWaitMonitor' = pWaitMonitor
      /\ waitMonitorDepth' = waitMonitorDepth /\ nesting' = nesting /\ state' = state
      /\ IInv /\ DepthsSaved /\ OutsideAtFirst /\ current # IdleThread
    BY DEF SemaphorePend, Calls, waitVars, monitorVars, MonitorsInv
<1>2. PICK t \in Thread : t = current
    BY <1>1 DEF IInv, Types
<1>3. \A m \in Monitor : PendingOn(s) # BlockedOn(m) /\ PendingOn(s) # WaitingOn(m)
    BY NamesDiffer
<1>4. CASE lists' = lists
  <2>1. contents' = contents
      BY <1>4 DEF contents
  <2> QED BY <1>1, <2>1, StutterSimulated
<1>5. CASE generatedContextSwitch(moveCurrentThreadToSemaphoreQueue(lists, s))
  <2>1. PICK F : Arrived(F, currentPriority) /\ Same(contents, F, PendingOn(s))
      BY <1>1, <1>2, <1>5, CurrentPends
  <2>2. \A m \in Monitor : /\ F[BlockedOn(m)] = contents[BlockedOn(m)]
                           /\ F[WaitingOn(m)] = contents[WaitingOn(m)]
      BY <1>3, <2>1, OfListsButOne
  <2> QED BY <1>1, <2>1, <2>2, StutterOfLists
<1> QED BY <1>4, <1>5 DEF SemaphorePend

LEMMA SetPrioritySimulated ==
    ASSUME MonitorsInv, Disciplined, NEW t \in Thread, NEW p \in NewPriorities, SetPriority(t, p)
    PROVE  Simulated
<1>1. /\ pOwner' = pOwner /\ depth' = depth /\ pWaitMonitor' = pWaitMonitor
      /\ waitMonitorDepth' = waitMonitorDepth /\ nesting' = nesting /\ state' = state
      /\ currentPriority' = [currentPriority EXCEPT ![t] = p] /\ Types
      /\ IInv /\ DepthsSaved /\ OutsideAtFirst
    BY DEF SetPriority, threadVars, waitVars, monitorVars, MonitorsInv, IInv
<1>2. "OtherPriority" \in Disciplines
    BY DEF SetPriority, Calls, Disciplined
<1>3. t # current
    BY <1>2 DEF SetPriority
<1>4. p \in Priorities /\ currentPriority' \in [Thread -> Priorities] /\ currentPriority'[t] = p
      /\ \A u \in Thread : u # t => currentPriority'[u] = currentPriority[u]
    BY <1>1 DEF Priorities, Types
<1>5. CASE lists' = lists
  <2>1. contents' = contents
      BY <1>5 DEF contents
  <2> QED BY <1>1, <2>1, StutterSimulated
<1>6. CASE /\ Active(t) /\ activeStatus[t] = "RUNNING"
           /\ conditionalContextSwitch(changeOtherThreadPriority(lists, t, p), currentPriority')
  <2>1. t \in On(RunningAt(currentPriority[t]))
    <3>1. Placed(t) /\ NULL \notin Monitor
        BY <1>1, SchedulerAssumption DEF IInv
    <3> QED BY <1>6, <3>1, WithStatus
  <2>2. PICK P \in [Thread -> Priorities] : P = currentPriority'
      BY <1>4
  <2>3. \E F : Arrived(F, P) /\ \A j : NotRunning(j) => F[j] = contents[j]
    <3>1. /\ P[t] = p /\ \A u \in Thread : u # t => P[u] = currentPriority[u]
          /\ conditionalContextSwitch(changeOtherThreadPriority(lists, t, p), P)
        BY <1>4, <1>6, <2>2
    <3> QED BY <1>1, <1>3, <1>4, <2>1, <3>1, OtherPriorityChanged
  <2>4. PICK F : Arrived(F, P) /\ \A j : NotRunning(j) => F[j] = contents[j]
      BY <2>3
  <2>5. \A m \in Monitor : /\ F[BlockedOn(m)] = contents[BlockedOn(m)]
                           /\ F[WaitingOn(m)] = contents[WaitingOn(m)]
      BY <2>4, NotRunningNames
  <2> QED BY <1>1, <2>4, <2>5, StutterOfLists
<1> QED BY <1>1, <1>3, <1>5, <1>6 DEF SetPriority

LEMMA RemoveSimulated ==
    ASSUME MonitorsInv, RemoveThread
    PROVE  Simulated
<1>1. /\ pOwner' = pOwner /\ depth' = depth /\ pWaitMonitor' = pWaitMonitor
      /\ waitMonitorDepth' = waitMonitorDepth /\ nesting' = nesting
      /\ state' = [state EXCEPT ![current] = "FINISHED"] /\ current # IdleThread
      /\ IInv /\ DepthsSaved /\ OutsideAtFirst /\ Types
    BY DEF RemoveThread, Calls, waitVars, monitorVars, MonitorsInv, IInv
<1>2. PICK t \in Thread : t = current
    BY <1>1 DEF Types
<1>3. PICK l \in ListNames : l = Joining(t)
    BY NamesAreNames
<1>4. AsSequence(lists, l) = contents[l]
    BY DEF contents, SequencesOf
<1>5. generatedContextSwitch(removeCurrentThreadFromRunningThreads(
          afterReleasingJoined(lists, contents[Joining(t)])))
    BY <1>2, <1>3, <1>4 DEF RemoveThread
<1>6. \A j : NotRunning(j) /\ j # Joining(t) => contents'[j] = contents[j]
    BY <1>1, <1>2, <1>5, CurrentDies
<1>7. \A m \in Monitor : /\ contents'[BlockedOn(m)] = contents[BlockedOn(m)]
                         /\ contents'[WaitingOn(m)] = contents[WaitingOn(m)]
    BY <1>6, NotRunningNames, NamesDiffer
<1>8. \A u \in Thread : state'[u] = "NOT_STARTED" => state[u] = "NOT_STARTED"
    BY <1>1 DEF Types
<1> QED BY <1>1, <1>7, <1>8, StutterSimulated

\* A thread is started outside every monitor or inside one, which it enters or is blocked on.
LEMMA ScheduleSimulated ==
    ASSUME MonitorsInv, MaxDepth > 0, NEW t \in Thread, NEW m \in Monitor \cup {NULL},
           ScheduleNewThread(t, m)
    PROVE  Simulated
<1>1. /\ state' = [state EXCEPT ![t] = "ACTIVE"] /\ state[t] = "NOT_STARTED" /\ current' = current
      /\ pWaitMonitor' = pWaitMonitor /\ waitMonitorDepth' = waitMonitorDepth
      /\ IInv /\ DepthsSaved /\ OutsideAtFirst /\ Types /\ NULL \notin Monitor
    BY SchedulerAssumption DEF ScheduleNewThread, waitVars, MonitorsInv, IInv
<1>2. ~Active(t) /\ OnNone(ListNames, contents, t) /\ pWaitMonitor[t] = NULL
    BY <1>1, NotActive DEF Active
<1>3. /\ Sound(lists, contents) /\ current \in Thread /\ contents \in [ListNames -> Seq(Thread)]
      /\ First(contents, currentPriority, current) /\ currentPriority[current] \in Priorities
    BY <1>1, CurrentFacts DEF IInv, CurrentIsFirst, Sound, Pointers, Represents
<1>4. \A u \in Thread : /\ u # t => state'[u] = state[u]
                        /\ state'[u] = "NOT_STARTED" => state[u] = "NOT_STARTED"
                        /\ state'[t] # "NOT_STARTED"
    BY <1>1 DEF Types
<1>5. MonitorsOf!Ready(t) /\ savedDepth[t] = 0 /\ savedDepth' = savedDepth
      /\ savedDepth \in [Thread -> Nat] /\ t # NULL
  <2>1. \A n \in Monitor : t \notin On(BlockedOn(n)) /\ t \notin On(WaitingOn(n))
      BY <1>2, NamesAreNames DEF OnNone, On
  <2> QED BY <1>1, <1>2, <2>1, ReadyWhenElsewhere, ThreadFacts DEF savedDepth, Types
\* The lists when the thread becomes runnable.
<1>6. ASSUME lists' = addThreadToRunningThreads(lists, t)
      PROVE  \E F : Arrived(F, currentPriority) /\ \A j : NotRunning(j) => F[j] = contents[j]
  <2>1. PICK L : L = addThreadToRunningThreads(lists, t)
      OBVIOUS
  <2>2. PICK F : /\ Sound(L, F) /\ \A j : NotRunning(j) => F[j] = contents[j]
                 /\ \A p \in Priorities : contents[RunningAt(p)] # <<>> =>
                       F[RunningAt(p)] # <<>> /\ F[RunningAt(p)][1] = contents[RunningAt(p)][1]
      BY <1>1, <1>2, <1>3, <2>1, MadeRunnable
  <2>3. First(F, currentPriority, current)
      BY <1>3, <2>2, FirstKept
  <2>4. noContextSwitch(L)
      BY <1>1, <1>6, <2>1 DEF noContextSwitch
  <2>5. Arrived(F, currentPriority)
      BY <1>3, <2>2, <2>3, <2>4, NoSwitch
  <2> QED BY <2>2, <2>5
<1>7. CASE /\ m = NULL /\ lists' = addThreadToRunningThreads(lists, t)
           /\ UNCHANGED <<monitorVars, nesting>>
  <2>1. PICK F : Arrived(F, currentPriority) /\ \A j : NotRunning(j) => F[j] = contents[j]
      BY <1>6, <1>7
  <2>2. \A n \in Monitor : /\ F[BlockedOn(n)] = contents[BlockedOn(n)]
                           /\ F[WaitingOn(n)] = contents[WaitingOn(n)]
      BY <2>1, NotRunningNames
  <2>3. pOwner' = pOwner /\ depth' = depth /\ nesting' = nesting
      BY <1>7 DEF monitorVars
  <2> QED BY <1>1, <1>4, <2>1, <2>2, <2>3, StutterOfLists
<1>8. ASSUME m \in Monitor, nesting' = [nesting EXCEPT ![t][m] = 1], waitQueue' = waitQueue,
             MonitorsOf!EnterFree(t, m) \/ MonitorsOf!Block(t, m)
      PROVE  Simulated
  <2>1. nesting[t][m] = 0
      BY <1>1, <1>8 DEF OutsideAtFirst
  <2>2. nesting' = [nesting EXCEPT ![t][m] = @ + 1]
    <3>1. nesting[t][m] + 1 = 1
        BY <2>1
    <3> QED BY <1>8, <3>1
  <2>3. nesting[t][m] < MaxDepth
      BY <2>1
  <2>4. MonitorsOf!Enter(t, m)
      BY <1>5, <1>8, <2>2, <2>3 DEF MonitorsOf!Enter
  <2>5. MonitorsOf!Next
      BY <1>8, <2>4 DEF MonitorsOf!Next
  <2>6. \A u \in Thread : u # t => nesting'[u] = nesting[u]
      BY <1>1, <1>8 DEF Types
  <2>7. DepthsSaved' /\ OutsideAtFirst'
      BY <1>1, <1>4, <2>6, SavedKeptButOne
  <2> QED BY <2>5, <2>7 DEF Simulated
<1>9. CASE /\ m # NULL /\ pOwner[m] = NULL /\ pOwner' = [pOwner EXCEPT ![m] = t]
           /\ depth' = [depth EXCEPT ![m] = 1] /\ nesting' = [nesting EXCEPT ![t][m] = 1]
           /\ lists' = addThreadToRunningThreads(lists, t)
  <2>1. m \in Monitor
      BY <1>9
  <2>2. PICK F : Arrived(F, currentPriority) /\ \A j : NotRunning(j) => F[j] = contents[j]
      BY <1>6, <1>9
  <2>3. blockedQueue' = blockedQueue /\ waitQueue' = waitQueue
      BY <2>2, NotRunningNames, QueuesStay
  <2>4. acquires(t, m, pWaitMonitor)
      BY <1>1, <1>2, <1>9 DEF acquires, Types
  <2>5. /\ \A u \in Thread : savedDepth[u] = IF pWaitMonitor[u] = NULL THEN 0 ELSE waitMonitorDepth'[u]
        /\ pWaitMonitor \in [Thread -> Monitor \cup {NULL}]
      BY <1>1 DEF savedDepth, Types
  <2>6. MonitorsOf!Acquire(t, m, savedDepth)
      BY <1>1, <1>5, <2>1, <2>4, <2>5, AcquireSimulated
  <2>7. MonitorsOf!EnterFree(t, m)
      BY <1>9, <2>3, <2>6 DEF MonitorsOf!EnterFree
  <2> QED BY <1>8, <1>9, <2>1, <2>3, <2>7
<1>10. CASE /\ m # NULL /\ pOwner[m] # NULL /\ nesting' = [nesting EXCEPT ![t][m] = 1]
            /\ lists' = AddOneToEnd(lists, BlockedOn(m), t) /\ UNCHANGED monitorVars
  <2>1. m \in Monitor /\ pOwner' = pOwner /\ depth' = depth
      BY <1>10 DEF monitorVars
  <2>2. PICK to \in ListNames : to = BlockedOn(m)
      BY <2>1, NamesAreNames
  <2>3. NotRunning(to) /\ to # WaitingOn(m) /\ NotRunning(WaitingOn(m)) /\ WaitingOn(m) \in ListNames
      BY <2>1, <2>2, NotRunningNames, NamesDiffer, NamesAreNames
  <2>4. PICK L : L = AddOneToEnd(lists, to, t)
      OBVIOUS
  <2>5. PICK F : F = Added(contents, to, t)
      OBVIOUS
  <2>6. Sound(L, F)
      BY <1>2, <1>3, <2>3, <2>4, <2>5, OtherAdded
  <2>7. \A j \in ListNames : F[j] = IF j = to THEN Append(contents[j], t) ELSE contents[j]
      BY <1>3, <2>5, Joins
  <2>8. First(F, currentPriority, current)
      BY <1>3, <2>3, <2>7, NamesAreNames DEF First, NotRunning
  <2>9. noContextSwitch(L)
      BY <1>1, <1>10, <2>2, <2>4 DEF noContextSwitch
  <2>10. Arrived(F, currentPriority)
      BY <1>3, <2>6, <2>8, <2>9, NoSwitch
  <2>11. \A j : NotRunning(j) /\ j # BlockedOn(m) /\ j # WaitingOn(m) => F[j] = contents[j]
      BY <2>2, <2>7 DEF NotRunning
  <2>12. /\ blockedQueue' = [blockedQueue EXCEPT ![m] = F[BlockedOn(m)]]
         /\ waitQueue' = [waitQueue EXCEPT ![m] = F[WaitingOn(m)]]
      BY <2>1, <2>10, <2>11, QueuesBecome
  <2>13. F[BlockedOn(m)] = Append(contents[BlockedOn(m)], t) /\ F[WaitingOn(m)] = contents[WaitingOn(m)]
      BY <2>2, <2>3, <2>7
  <2>14. blockedQueue' = [blockedQueue EXCEPT ![m] = Append(@, t)] /\ waitQueue' = waitQueue
      BY <2>1, <2>12, <2>13, QueuesRead
  <2>15. pOwner[m] # t
    <3>1. nesting[t][m] = 0
        BY <1>1, <2>1 DEF OutsideAtFirst
    <3>2. pOwner[m] = t => shownDepth[m] = nesting[t][m] /\ shownDepth[m] > 0
        BY <1>5, <2>1, ReadyOwner
    <3> QED BY <3>1, <3>2
  <2>16. shownDepth' = shownDepth
      BY <2>1 DEF shownDepth
  <2>17. MonitorsOf!Block(t, m)
      BY <1>5, <1>10, <2>1, <2>14, <2>15, <2>16 DEF MonitorsOf!Block
  <2> QED BY <1>8, <1>10, <2>1, <2>14, <2>17
<1> QED BY <1>7, <1>9, <1>10 DEF ScheduleNewThread

LEMMA NextSimulated ==
    ASSUME MonitorsInv, Disciplined, MaxDepth > 0, Next
    PROVE  Simulated
<1>1. CASE \E m \in Monitor : MonitorEnter(m)
    BY <1>1, EnterSimulated
<1>2. CASE \E m \in Monitor : MonitorExit(m)
    BY <1>2, ExitSimulated
<1>3. CASE \E m \in Monitor, timeout \in BOOLEAN : MonitorWait(m, timeout)
    BY <1>3, WaitSimulated
<1>4. CASE \E m \in Monitor : MonitorNotify(m)
    BY <1>4, NotifySimulated
<1>5. CASE \E m \in Monitor : MonitorNotifyAll(m)
    BY <1>5, NotifyAllSimulated
<1>6. CASE ThreadSleep \/ WeakYield \/ StrongYield \/ RemoveThread
    BY <1>6, SleepSimulated, WeakYieldSimulated, StrongYieldSimulated, RemoveSimulated
<1>7. CASE \E t \in Thread : ThreadJoin(t)
    BY <1>7, JoinSimulated
<1>8. CASE \E t \in Thread, m \in Monitor \cup {NULL} : ScheduleNewThread(t, m)
    BY <1>8, ScheduleSimulated
<1>9. CASE \E t \in Thread : InterruptThread(t)
    BY <1>9, InterruptSimulated
<1>10. CASE \E s \in Semaphore : SemaphorePost(s)
    BY <1>10, PostSimulated
<1>11. CASE \E s \in Semaphore : SemaphorePend(s)
    BY <1>11, PendSimulated
<1>12. CASE \E t \in Thread, p \in NewPriorities : SetPriority(t, p)
    BY <1>12, SetPrioritySimulated
<1>13. CASE DisableRescheduler \/ EnableRescheduler
    BY <1>13, DisableSimulated, EnableSimulated
<1>14. CASE \E kind \in {"scheduled", "conditional"} : TickInterrupt(kind)
    BY <1>14, TickInterruptSimulated
<1>15. CASE TimerExpires \/ TickReturns
    BY <1>15, ExpirySimulated, TickReturnsSimulated
<1> QED BY <1>1, <1>2, <1>3, <1>4, <1>5, <1>6, <1>7, <1>8, <1>9, <1>10, <1>11, <1>12, <1>13,
           <1>14, <1>15 DEF Next

LEMMA NothingSimulated ==
    ASSUME MonitorsInv, UNCHANGED vars
    PROVE  Simulated
<1>1. /\ state' = state /\ pOwner' = pOwner /\ depth' = depth /\ pWaitMonitor' = pWaitMonitor
      /\ waitMonitorDepth' = waitMonitorDepth /\ nesting' = nesting /\ lists' = lists
    BY DEF vars, threadVars, waitVars, monitorVars
<1>2. contents' = contents /\ DepthsSaved /\ OutsideAtFirst
    BY <1>1 DEF contents, MonitorsInv
<1> QED BY <1>1, <1>2, StutterSimulated

\* The two instances of the monitors are one: Monitors_proofs extends Monitors.
LEMMA SameInvariant ==
    /\ MonitorsOf!IInv <=> MonitorProofs!IInv
    /\ MonitorsOf!IInv' <=> MonitorProofs!IInv'
BY DEF MonitorsOf!IInv, MonitorProofs!IInv, MonitorsOf!TypeOK, MonitorProofs!TypeOK,
       MonitorsOf!QueuedOnce, MonitorProofs!QueuedOnce, MonitorsOf!Distinct,
       MonitorProofs!Distinct, MonitorsOf!Queued, MonitorProofs!Queued, MonitorsOf!On,
       MonitorProofs!On, MonitorsOf!OwnerIsInside, MonitorProofs!OwnerIsInside,
       MonitorsOf!InsideOwnsOrQueues, MonitorProofs!InsideOwnsOrQueues,
       MonitorsOf!QueuedKnowsItsDepth, MonitorProofs!QueuedKnowsItsDepth,
       MonitorsOf!DepthOf, MonitorProofs!DepthOf, MonitorsOf!Ready, MonitorProofs!Ready,
       MonitorsOf!BlockedMonitorIsOwned, MonitorProofs!BlockedMonitorIsOwned

LEMMA SameSteps ==
    /\ MonitorsOf!vars = MonitorProofs!vars /\ MonitorsOf!vars' = MonitorProofs!vars'
    /\ MonitorsOf!Next => MonitorProofs!Next
<1> USE DEF MonitorsOf!Ready, MonitorProofs!Ready, MonitorsOf!Queued, MonitorProofs!Queued,
            MonitorsOf!On, MonitorProofs!On, MonitorsOf!Acquire, MonitorProofs!Acquire,
            MonitorsOf!DepthOf, MonitorProofs!DepthOf, MonitorsOf!HandOver, MonitorProofs!HandOver
<1>1. MonitorsOf!vars = MonitorProofs!vars /\ MonitorsOf!vars' = MonitorProofs!vars'
    BY DEF MonitorsOf!vars, MonitorProofs!vars
<1>2. \A t, m : MonitorsOf!Enter(t, m) => MonitorProofs!Enter(t, m)
    BY DEF MonitorsOf!Enter, MonitorProofs!Enter, MonitorsOf!EnterFree, MonitorProofs!EnterFree,
           MonitorsOf!EnterAgain, MonitorProofs!EnterAgain, MonitorsOf!Block, MonitorProofs!Block
<1>3. \A t, m : MonitorsOf!Exit(t, m) => MonitorProofs!Exit(t, m)
    BY DEF MonitorsOf!Exit, MonitorProofs!Exit, MonitorsOf!ExitInner, MonitorProofs!ExitInner
<1>4. \A t, m : MonitorsOf!Wait(t, m) => MonitorProofs!Wait(t, m)
    BY DEF MonitorsOf!Wait, MonitorProofs!Wait
<1>5. \A t, m : MonitorsOf!Notify(t, m) => MonitorProofs!Notify(t, m)
    BY DEF MonitorsOf!Notify, MonitorProofs!Notify
<1>6. \A t, m : MonitorsOf!NotifyAll(t, m) => MonitorProofs!NotifyAll(t, m)
    BY DEF MonitorsOf!NotifyAll, MonitorProofs!NotifyAll
<1>7. \A m, k : MonitorsOf!Awaken(m, k) => MonitorProofs!Awaken(m, k)
    BY DEF MonitorsOf!Awaken, MonitorProofs!Awaken, MonitorsOf!RemoveAt, MonitorProofs!RemoveAt
<1> QED BY <1>1, <1>2, <1>3, <1>4, <1>5, <1>6, <1>7 DEF MonitorsOf!Next, MonitorProofs!Next

LEMMA MonitorsInvAtFirst ==
    ASSUME Init
    PROVE  MonitorsOf!Init /\ MonitorsInv
<1>1. IInv
    BY InitHolds
<1>2. PICK D : /\ Sound(lists, D)
               /\ \A l \in ListNames : D[l] = IF l = RunningAt(InitialPriority[IdleThread])
                                              THEN <<IdleThread>> ELSE <<>>
    BY InitLists
<1>3. contents = D
    BY <1>2, SoundRead DEF contents
<1>4. \A m \in Monitor : contents[BlockedOn(m)] = <<>> /\ contents[WaitingOn(m)] = <<>>
  <2>1. \A m \in Monitor : /\ BlockedOn(m) \in ListNames /\ WaitingOn(m) \in ListNames
                           /\ BlockedOn(m) # RunningAt(InitialPriority[IdleThread])
                           /\ WaitingOn(m) # RunningAt(InitialPriority[IdleThread])
      BY NamesAreNames, NamesDiffer
  <2> QED BY <1>2, <1>3, <2>1
<1>5. blockedQueue = [m \in Monitor |-> <<>>] /\ waitQueue = [m \in Monitor |-> <<>>]
    BY <1>4, QueuesRead
<1>6. /\ pOwner = [m \in Monitor |-> NULL] /\ pWaitMonitor = [t \in Thread |-> NULL]
      /\ nesting = [t \in Thread |-> [m \in Monitor |-> 0]]
    BY DEF Init
<1>7. shownDepth = [m \in Monitor |-> 0] /\ savedDepth = [t \in Thread |-> 0]
    BY <1>6 DEF shownDepth, savedDepth
<1>8. MonitorsOf!Init
    BY <1>5, <1>6, <1>7 DEF MonitorsOf!Init
<1>9. MonitorsOf!IInv
  <2>1. MonitorProofs!Init
      BY <1>8 DEF MonitorsOf!Init, MonitorProofs!Init
  <2>2. MonitorProofs!IInv
      BY <2>1, MonitorsAssumed, MonitorProofs!InvAtFirst
  <2> QED BY <2>2, SameInvariant
<1>10. DepthsSaved /\ OutsideAtFirst
    BY <1>6 DEF DepthsSaved, OutsideAtFirst
<1> QED BY <1>1, <1>8, <1>9, <1>10 DEF MonitorsInv

LEMMA MonitorsInvKept ==
    ASSUME MonitorsInv, Disciplined, MaxDepth > 0, [Next]_vars
    PROVE  [MonitorsOf!Next]_(MonitorsOf!vars) /\ MonitorsInv'
<1>1. Simulated
    BY NextSimulated, NothingSimulated
<1>2. IInv'
    BY NextHolds, StutterHolds DEF MonitorsInv
<1>3. MonitorsOf!IInv'
  <2>1. MonitorProofs!IInv /\ [MonitorProofs!Next]_(MonitorProofs!vars)
      BY <1>1, SameInvariant, SameSteps DEF MonitorsInv, Simulated
  <2>2. MonitorProofs!IInv'
      BY <2>1, MonitorsAssumed, MonitorProofs!InvKept
  <2> QED BY <2>2, SameInvariant
<1> QED BY <1>1, <1>2, <1>3 DEF Simulated, MonitorsInv

\* thread.h and schedule.h, the scheduler's lists, owners and depths do what the monitors
\* promise: every call, timeout and interrupt, with its queues turned, its priorities changed
\* and its timers run, is one step of module Monitors or leaves the monitors alone.
THEOREM MonitorsAreImplemented ==
    ASSUME Disciplined, MaxDepth > 0
    PROVE  Spec => ImplementsMonitors
<1>1. Init => MonitorsOf!Init /\ MonitorsInv
    BY MonitorsInvAtFirst
<1>2. MonitorsInv /\ [Next]_vars => [MonitorsOf!Next]_(MonitorsOf!vars) /\ MonitorsInv'
    BY MonitorsInvKept
<1> QED BY <1>1, <1>2, PTL DEF Spec, ImplementsMonitors, MonitorsOf!Spec

\* What the scheduler's own words for it are: a thread on a running list is on none of the
\* monitors' lists.
LEMMA RunnableIsReady ==
    ASSUME IInv, NEW t \in Thread, Runnable(t)
    PROVE  MonitorsOf!Ready(t)
<1>1. PICK p \in Priorities : t \in On(RunningAt(p)) /\ RunningAt(p) \in ListNames
    BY ListsRead, NamesAreNames DEF Runnable
<1>2. \A k \in ListNames : t \in On(k) => k = RunningAt(p)
    BY <1>1 DEF IInv, Placed
<1>3. \A m \in Monitor : t \notin On(BlockedOn(m)) /\ t \notin On(WaitingOn(m))
    BY <1>2, NamesAreNames, NamesDiffer
<1> QED BY <1>3, ReadyWhenElsewhere

LEMMA MonitorsInvariance ==
    ASSUME Disciplined, MaxDepth > 0
    PROVE  Spec => []MonitorsInv
<1>1. Init => MonitorsInv
    BY MonitorsInvAtFirst
<1>2. MonitorsInv /\ [Next]_vars => MonitorsInv'
    BY MonitorsInvKept
<1> QED BY <1>1, <1>2, PTL DEF Spec

\* A thread that can run owns every monitor its program is inside, at exactly the depth it
\* entered it, after any waits, notifications, timeouts, interrupts and hand-overs.
THEOREM RunnersOwnWhatTheyAreIn ==
    ASSUME Disciplined, MaxDepth > 0
    PROVE  Spec => []InsideMeansOwner
<1>1. MonitorsInv => InsideMeansOwner
  <2> SUFFICES ASSUME MonitorsInv, NEW t \in Thread, NEW m \in Monitor, Runnable(t),
                      nesting[t][m] > 0
               PROVE  pOwner[m] = t /\ depth[m] = nesting[t][m]
      BY DEF InsideMeansOwner
  <2>1. MonitorsOf!Ready(t)
      BY RunnableIsReady DEF MonitorsInv
  <2> QED BY <2>1, ReadyOwner
<1> QED BY <1>1, MonitorsInvariance, PTL

\* Whatever a thread that gives a monitor up does, wakes or switches to, the monitor goes to
\* the thread at the front of its blocked list if there is one: nobody barges in.
THEOREM LongestBlockedGetsIt ==
    ASSUME Disciplined, MaxDepth > 0
    PROVE  Spec => HandedToLongestBlocked
<1> DEFINE Given == \A m \in Monitor :
               (pOwner[m] # NULL /\ pOwner'[m] # pOwner[m] /\ lists.head[BlockedOn(m)] # NULL)
                   => pOwner'[m] = lists.head[BlockedOn(m)]
<1>1. ASSUME MonitorsInv, [Next]_vars PROVE Given
  <2> SUFFICES ASSUME NEW m \in Monitor, pOwner[m] # NULL, pOwner'[m] # pOwner[m],
                      lists.head[BlockedOn(m)] # NULL
               PROVE  pOwner'[m] = lists.head[BlockedOn(m)]
      OBVIOUS
  <2>1. MonitorsOf!Next
    <3>1. Simulated
        BY <1>1, NextSimulated, NothingSimulated
    <3> QED BY <3>1 DEF Simulated, MonitorsOf!vars
  <2>2. MonitorProofs!IInv /\ MonitorProofs!Next
      BY <1>1, <2>1, SameInvariant, SameSteps DEF MonitorsInv
  <2>3. pOwner'[m] = IF blockedQueue[m] = <<>> THEN NULL ELSE Head(blockedQueue[m])
      BY <2>2, MonitorsAssumed, MonitorProofs!PassesOn
  <2>4. PICK q \in Seq(Thread) : q = blockedQueue[m] /\ q = contents[BlockedOn(m)]
      BY <1>1, QueuesRead, NamesAreNames, SoundIsFunction DEF MonitorsInv, IInv, Sound
  <2>5. lists.head[BlockedOn(m)] = IF q = <<>> THEN NULL ELSE q[1]
      BY <1>1, <2>4, NamesAreNames, SoundIsFunction DEF MonitorsInv, IInv, Sound
  <2>6. q # <<>>
      BY <2>5
  <2> QED BY <2>3, <2>4, <2>5, <2>6, QueueForms
<1>2. MonitorsInv /\ [Next]_vars => [Given]_vars
    BY <1>1
<1> QED BY <1>2, MonitorsInvariance, PTL DEF Spec, HandedToLongestBlocked

=============================================================================
