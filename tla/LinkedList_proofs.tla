-------------------------- MODULE LinkedList_proofs --------------------------
(***************************************************************************)
(* For any lists and entries: while an entry is only added when it is on   *)
(* no list and only removed from the list it is on, the pointers that each *)
(* function of linkedList.c writes are those of the sequences the lists    *)
(* stand for, changed as the function says.                                *)
(***************************************************************************)
EXTENDS LinkedList, SequenceTheorems, FiniteSetTheorems, WellFoundedInduction, TLAPS

Members(s) == {s[k] : k \in 1 .. Len(s)}

Front(s) == IF s = <<>> THEN NULL ELSE s[1]

\* The places behind and before place k of a circle of n.
Behind(k, n) == IF k = n THEN 1 ELSE k + 1
Before(k, n) == IF k = 1 THEN n ELSE k - 1

\* s with n behind the first at entries, and s without its k-th entry.
Inserted(s, at, n) ==
    [i \in 1 .. Len(s) + 1 |->
        IF i <= at THEN s[i] ELSE IF i = at + 1 THEN n ELSE s[i - 1]]

Without(s, k) == [i \in 1 .. Len(s) - 1 |-> IF i < k THEN s[i] ELSE s[i + 1]]

\* The pointers of the entries of s lead round s and back.
Circle(mem, s) ==
    \A k \in 1 .. Len(s) : /\ mem.next[s[k]] = s[Behind(k, Len(s))]
                           /\ mem.prev[s[k]] = s[Before(k, Len(s))]

IsMemory(mem, Ls, E) ==
    /\ mem = [x \in DOMAIN mem |-> mem[x]]
    /\ {"head", "next", "prev"} \subseteq DOMAIN mem
    /\ mem.head \in [Ls -> E \cup {NULL}]
    /\ mem.next \in [E -> E \cup {NULL}]
    /\ mem.prev \in [E -> E \cup {NULL}]

\* The other fields of a memory are left alone.
SameOthers(mem, mem2) ==
    /\ DOMAIN mem2 = DOMAIN mem
    /\ \A x \in DOMAIN mem \ {"head", "next", "prev"} : mem2[x] = mem[x]

\* No entry is in two places.
Apart(Ls, C) ==
    \A k, l \in Ls : \A i \in 1 .. Len(C[k]), j \in 1 .. Len(C[l]) :
        C[k][i] = C[l][j] => k = l /\ i = j

\* The lists Ls of mem are the sequences C.
Represents(mem, Ls, E, C) ==
    /\ IsMemory(mem, Ls, E)
    /\ C \in [Ls -> Seq(E)]
    /\ Apart(Ls, C)
    /\ \A l \in Ls : mem.head[l] = Front(C[l]) /\ Circle(mem, C[l])

OnNone(Ls, C, n) == \A l \in Ls : n \notin Members(C[l])

\* What a sequence is when an entry is put in.
LEMMA InsertedOne ==
    ASSUME NEW E, NEW s \in Seq(E), NEW at \in 0 .. Len(s), NEW n \in E
    PROVE  /\ Inserted(s, at, n) \in Seq(E) /\ Inserted(s, at, n) # <<>>
           /\ Len(Inserted(s, at, n)) = Len(s) + 1 /\ Len(Inserted(s, at, n)) \in Nat
           /\ Members(Inserted(s, at, n)) = Members(s) \cup {n}
           /\ \A i \in 1 .. Len(s) + 1 :
                 Inserted(s, at, n)[i] =
                     IF i <= at THEN s[i] ELSE IF i = at + 1 THEN n ELSE s[i - 1]
<1> DEFINE v == Inserted(s, at, n)
<1>1. Len(s) \in Nat /\ \A i \in 1 .. Len(s) : s[i] \in E
    BY LenProperties, ElementOfSeq
<1>2. v \in [1 .. Len(s) + 1 -> E]
    BY <1>1 DEF Inserted
<1>3. v \in Seq(E)
    BY <1>1, <1>2, SeqDef
<1>4. Len(v) = Len(s) + 1
    BY <1>1, <1>2, <1>3, LenProperties
<1>5. \A i \in 1 .. Len(s) + 1 :
          v[i] = IF i <= at THEN s[i] ELSE IF i = at + 1 THEN n ELSE s[i - 1]
    BY DEF Inserted
<1> HIDE DEF v
<1>6. ASSUME NEW x \in Members(v) PROVE x \in Members(s) \cup {n}
    <2>1. PICK i \in 1 .. Len(s) + 1 : x = v[i]
        BY <1>4, <1>6 DEF Members
    <2>2. CASE i <= at
        <3>1. i \in 1 .. Len(s) /\ x = s[i]
            BY <2>1, <2>2, <1>1, <1>5
        <3> QED BY <3>1 DEF Members
    <2>3. CASE i > at + 1
        <3>1. i - 1 \in 1 .. Len(s) /\ x = s[i - 1]
            BY <2>1, <2>3, <1>1, <1>5
        <3> QED BY <3>1 DEF Members
    <2>4. CASE i = at + 1
        BY <2>1, <2>4, <1>1, <1>5
    <2> QED BY <2>2, <2>3, <2>4, <1>1
<1>7. ASSUME NEW x \in Members(s) PROVE x \in Members(v)
    <2>1. PICK i \in 1 .. Len(s) : x = s[i]
        BY <1>7 DEF Members
    <2>2. CASE i <= at
        <3>1. i \in 1 .. Len(v) /\ x = v[i]
            BY <2>1, <2>2, <1>1, <1>4, <1>5
        <3> QED BY <3>1 DEF Members
    <2>3. CASE i > at
        <3>1. i + 1 \in 1 .. Len(v) /\ x = v[i + 1]
            BY <2>1, <2>3, <1>1, <1>4, <1>5
        <3> QED BY <3>1 DEF Members
    <2> QED BY <2>2, <2>3, <1>1
<1>8. n \in Members(v)
    <2>1. at + 1 \in 1 .. Len(v) /\ v[at + 1] = n
        BY <1>1, <1>4, <1>5
    <2> QED BY <2>1 DEF Members
<1>9. v # <<>>
    BY <1>4, <1>1, EmptySeq
<1> QED BY <1>1, <1>3, <1>4, <1>5, <1>6, <1>7, <1>8, <1>9 DEF v

\* What is left when an entry is taken out.
LEMMA WithoutOne ==
    ASSUME NEW E, NEW s \in Seq(E), NEW k \in 1 .. Len(s)
    PROVE  /\ Without(s, k) \in Seq(E)
           /\ Len(Without(s, k)) = Len(s) - 1 /\ Len(Without(s, k)) \in Nat
           /\ Without(s, k) = <<>> <=> Len(s) = 1
           /\ \A i \in 1 .. Len(s) - 1 :
                 Without(s, k)[i] = IF i < k THEN s[i] ELSE s[i + 1]
           /\ (\A i, j \in 1 .. Len(s) : s[i] = s[j] => i = j)
                  => Members(Without(s, k)) = Members(s) \ {s[k]}
<1> DEFINE v == Without(s, k)
<1>1. Len(s) \in Nat /\ \A i \in 1 .. Len(s) : s[i] \in E
    BY LenProperties, ElementOfSeq
<1>2. v \in [1 .. Len(s) - 1 -> E] /\ Len(s) - 1 \in Nat
    BY <1>1 DEF Without
<1>3. v \in Seq(E)
    BY <1>1, <1>2, SeqDef
<1>4. Len(v) = Len(s) - 1
    BY <1>1, <1>2, <1>3, LenProperties
<1>5. \A i \in 1 .. Len(s) - 1 : v[i] = IF i < k THEN s[i] ELSE s[i + 1]
    BY DEF Without
<1> HIDE DEF v
<1>6. ASSUME \A i, j \in 1 .. Len(s) : s[i] = s[j] => i = j
      PROVE  Members(v) = Members(s) \ {s[k]}
    <2>1. ASSUME NEW x \in Members(v) PROVE x \in Members(s) \ {s[k]}
        <3>1. PICK i \in 1 .. Len(s) - 1 : x = v[i]
            BY <1>4, <2>1 DEF Members
        <3>2. CASE i < k
            <4>1. i \in 1 .. Len(s) /\ x = s[i] /\ i # k
                BY <3>1, <3>2, <1>1, <1>5
            <4> QED BY <4>1, <1>6 DEF Members
        <3>3. CASE i >= k
            <4>1. i + 1 \in 1 .. Len(s) /\ x = s[i + 1] /\ i + 1 # k
                BY <3>1, <3>3, <1>1, <1>5
            <4> QED BY <4>1, <1>6 DEF Members
        <3> QED BY <3>2, <3>3, <1>1
    <2>2. ASSUME NEW x \in Members(s), x # s[k] PROVE x \in Members(v)
        <3>1. PICK i \in 1 .. Len(s) : x = s[i]
            BY <2>2 DEF Members
        <3>2. CASE i < k
            <4>1. i \in 1 .. Len(v) /\ x = v[i]
                BY <3>1, <3>2, <1>1, <1>4, <1>5
            <4> QED BY <4>1 DEF Members
        <3>3. CASE i > k
            <4>1. i - 1 \in 1 .. Len(v) /\ x = v[i - 1]
                BY <3>1, <3>3, <1>1, <1>4, <1>5
            <4> QED BY <4>1 DEF Members
        <3> QED BY <3>1, <3>2, <3>3, <1>1, <2>2
    <2> QED BY <2>1, <2>2
<1>7. v = <<>> <=> Len(s) = 1
    BY <1>1, <1>3, <1>4, EmptySeq
<1> QED BY <1>1, <1>2, <1>3, <1>4, <1>5, <1>6, <1>7 DEF v

\* What every list of a memory is.
LEMMA Contents ==
    ASSUME NEW mem, NEW Ls, NEW E, NEW C, Represents(mem, Ls, E, C), NEW l \in Ls
    PROVE  /\ C[l] \in Seq(E) /\ Len(C[l]) \in Nat
           /\ \A k \in 1 .. Len(C[l]) : C[l][k] \in E
           /\ \A i, j \in 1 .. Len(C[l]) : C[l][i] = C[l][j] => i = j
           /\ C[l] = <<>> <=> Len(C[l]) = 0
           /\ mem.head[l] = IF Len(C[l]) = 0 THEN NULL ELSE C[l][1]
<1>1. C[l] \in Seq(E)
    BY DEF Represents
<1>2. Len(C[l]) \in Nat /\ \A k \in 1 .. Len(C[l]) : C[l][k] \in E
    BY <1>1, LenProperties, ElementOfSeq
<1>3. C[l] = <<>> <=> Len(C[l]) = 0
    BY <1>1, <1>2, EmptySeq
<1> QED BY <1>1, <1>2, <1>3 DEF Represents, Apart, Front

\* v is s, of N entries, with n behind the first at, which puts it between x and y.
Between(N, s, v, n, at, x, y) ==
    /\ N \in Nat /\ at \in 0 .. N
    /\ \A i, j \in 1 .. N : s[i] = s[j] => i = j
    /\ \A k \in 1 .. N : s[k] # n
    /\ \A i \in 1 .. N + 1 :
          v[i] = IF i <= at THEN s[i] ELSE IF i = at + 1 THEN n ELSE s[i - 1]
    /\ x = IF N = 0 THEN n ELSE s[Before(at + 1, N)]
    /\ y = IF N = 0 THEN n ELSE s[Behind(at, N)]

\* Where an entry is put in, the pointers of four places are written: going round the
\* new sequence forwards, ...
LEMMA SplicedForwards ==
    ASSUME NEW N, NEW s, NEW v, NEW n, NEW at, NEW x, NEW y, Between(N, s, v, n, at, x, y),
           NEW nx, \A k \in 1 .. N : nx[s[k]] = s[Behind(k, N)],
           NEW nx2,
           \A k \in 1 .. N + 1 :
               nx2[v[k]] = IF v[k] = n THEN y ELSE IF v[k] = x THEN n ELSE nx[v[k]],
           NEW k \in 1 .. N + 1
    PROVE  nx2[v[k]] = v[Behind(k, N + 1)]
<1> USE DEF Between
<1>1. CASE k = at + 1
    <2>1. nx2[v[k]] = y
        BY <1>1
    <2>2. CASE N = 0
        BY <1>1, <2>1, <2>2 DEF Behind
    <2>3. CASE N # 0 /\ at = N
        BY <1>1, <2>1, <2>3 DEF Behind
    <2>4. CASE N # 0 /\ at # N
        BY <1>1, <2>1, <2>4 DEF Behind
    <2> QED BY <2>2, <2>3, <2>4
<1>2. CASE k < at
    <2>1. v[k] = s[k] /\ v[k + 1] = s[k + 1] /\ k \in 1 .. N /\ N # 0
        BY <1>2
    <2>2. x = s[at] /\ at \in 1 .. N
        BY <1>2, <2>1 DEF Before
    <2>3. s[k] # n /\ s[k] # x
        BY <2>1, <2>2, <1>2
    <2>4. nx2[v[k]] = nx[s[k]] /\ nx[s[k]] = s[k + 1]
        BY <2>1, <2>3, <1>2 DEF Behind
    <2> QED BY <2>1, <2>4, <1>2 DEF Behind
<1>3. CASE k = at
    <2>1. v[k] = s[k] /\ v[k + 1] = n /\ k \in 1 .. N /\ N # 0
        BY <1>3
    <2>2. x = s[k]
        BY <1>3, <2>1 DEF Before
    <2>3. nx2[v[k]] = n
        BY <2>1, <2>2
    <2> QED BY <2>1, <2>3, <1>3 DEF Behind
<1>4. CASE k > at + 1
    <2>1. v[k] = s[k - 1] /\ k - 1 \in 1 .. N /\ N # 0
        BY <1>4
    <2>2. nx[s[k - 1]] = s[Behind(k - 1, N)] /\ s[k - 1] # n
        BY <2>1
    <2>3. CASE k = N + 1 /\ at = 0
        <3>1. x = s[N]
            BY <2>1, <2>3 DEF Before
        <3>2. nx2[v[k]] = n
            BY <2>1, <2>2, <2>3, <3>1
        <3> QED BY <3>2, <2>3 DEF Behind
    <2>4. CASE k = N + 1 /\ at # 0
        <3>1. x = s[at] /\ at \in 1 .. N /\ at # k - 1
            BY <2>1, <2>4, <1>4 DEF Before
        <3>2. nx2[v[k]] = nx[s[k - 1]]
            BY <2>1, <2>2, <3>1
        <3>3. v[1] = s[1]
            BY <3>1
        <3> QED BY <3>2, <3>3, <2>2, <2>4 DEF Behind
    <2>5. CASE k # N + 1
        <3>1. x = s[Before(at + 1, N)] /\ Before(at + 1, N) \in 1 .. N
              /\ Before(at + 1, N) # k - 1
            BY <2>1, <2>5, <1>4 DEF Before
        <3>2. nx2[v[k]] = nx[s[k - 1]]
            BY <2>1, <2>2, <3>1
        <3>3. v[k + 1] = s[k] /\ Behind(k - 1, N) = k /\ Behind(k, N + 1) = k + 1
            BY <2>5, <1>4 DEF Behind
        <3> QED BY <3>2, <3>3, <2>2
    <2> QED BY <2>3, <2>4, <2>5
<1> QED BY <1>1, <1>2, <1>3, <1>4

\* ... and backwards.
LEMMA SplicedBackwards ==
    ASSUME NEW N, NEW s, NEW v, NEW n, NEW at, NEW x, NEW y, Between(N, s, v, n, at, x, y),
           NEW pv, \A k \in 1 .. N : pv[s[k]] = s[Before(k, N)],
           NEW pv2,
           \A k \in 1 .. N + 1 :
               pv2[v[k]] = IF v[k] = n THEN x ELSE IF v[k] = y THEN n ELSE pv[v[k]],
           NEW k \in 1 .. N + 1
    PROVE  pv2[v[k]] = v[Before(k, N + 1)]
<1> USE DEF Between
<1>1. CASE k = at + 1
    <2>1. pv2[v[k]] = x
        BY <1>1
    <2>2. CASE N = 0
        BY <1>1, <2>1, <2>2 DEF Before
    <2>3. CASE N # 0 /\ at = 0
        BY <1>1, <2>1, <2>3 DEF Before
    <2>4. CASE N # 0 /\ at # 0
        BY <1>1, <2>1, <2>4 DEF Before
    <2> QED BY <2>2, <2>3, <2>4
<1>2. CASE k > at + 2
    <2>1. v[k] = s[k - 1] /\ v[k - 1] = s[k - 2] /\ k - 1 \in 1 .. N /\ N # 0
        BY <1>2
    <2>2. y = s[at + 1] /\ at + 1 \in 1 .. N
        BY <1>2, <2>1 DEF Behind
    <2>3. s[k - 1] # n /\ s[k - 1] # y
        BY <2>1, <2>2, <1>2
    <2>4. pv2[v[k]] = pv[s[k - 1]] /\ pv[s[k - 1]] = s[Before(k - 1, N)]
        BY <2>1, <2>3
    <2>5. Before(k - 1, N) = k - 2 /\ Before(k, N + 1) = k - 1
        BY <1>2 DEF Before
    <2> QED BY <2>1, <2>4, <2>5
<1>3. CASE k = at + 2
    <2>1. v[k] = s[k - 1] /\ v[k - 1] = n /\ k - 1 \in 1 .. N /\ N # 0
        BY <1>3
    <2>2. y = s[k - 1]
        BY <1>3, <2>1 DEF Behind
    <2>3. pv2[v[k]] = n
        BY <2>1, <2>2
    <2> QED BY <2>1, <2>3, <1>3 DEF Before
<1>4. CASE k <= at
    <2>1. v[k] = s[k] /\ k \in 1 .. N /\ N # 0
        BY <1>4
    <2>2. pv[s[k]] = s[Before(k, N)] /\ s[k] # n
        BY <2>1
    <2>3. CASE k = 1 /\ at = N
        <3>1. y = s[1]
            BY <2>1, <2>3 DEF Behind
        <3>2. pv2[v[k]] = n
            BY <2>1, <2>2, <2>3, <3>1
        <3>3. v[N + 1] = n
            BY <2>3
        <3> QED BY <3>2, <3>3, <2>3 DEF Before
    <2>4. CASE ~(k = 1 /\ at = N)
        <3>1. y = s[Behind(at, N)] /\ Behind(at, N) \in 1 .. N /\ Behind(at, N) # k
            BY <2>1, <2>4, <1>4 DEF Behind
        <3>2. pv2[v[k]] = pv[s[k]]
            BY <2>1, <2>2, <3>1
        <3>3. v[Before(k, N + 1)] = s[Before(k, N)]
            <4>1. CASE k = 1
                BY <4>1, <2>4, <1>4 DEF Before
            <4>2. CASE k # 1
                BY <4>2, <2>1, <1>4 DEF Before
            <4> QED BY <4>1, <4>2
        <3> QED BY <3>2, <3>3, <2>2
    <2> QED BY <2>3, <2>4
<1> QED BY <1>1, <1>2, <1>3, <1>4


\* The entries n comes between when it is put behind the first at of s.
Earlier(s, at, n) == IF Len(s) = 0 THEN n ELSE s[Before(at + 1, Len(s))]
Later(s, at, n) == IF Len(s) = 0 THEN n ELSE s[Behind(at, Len(s))]

\* What the functions that add an entry to list l, which is s, write.
PutIn(mem, mem2, Ls, E, l, s, at, n) ==
    /\ IsMemory(mem2, Ls, E)
    /\ \A z \in E : mem2.next[z] = IF z = n THEN Later(s, at, n)
                                   ELSE IF z = Earlier(s, at, n) THEN n ELSE mem.next[z]
    /\ \A z \in E : mem2.prev[z] = IF z = n THEN Earlier(s, at, n)
                                   ELSE IF z = Later(s, at, n) THEN n ELSE mem.prev[z]
    /\ \A k \in Ls : mem2.head[k] = IF k = l /\ at = 0 THEN n ELSE mem.head[k]

\* An entry that is on no list and is put between two neighbours of a list is on it there.
LEMMA Spliced ==
    ASSUME NEW mem, NEW Ls, NEW E, NEW C, Represents(mem, Ls, E, C), NEW l \in Ls,
           NEW n \in E, OnNone(Ls, C, n), NEW at \in 0 .. Len(C[l]),
           NEW mem2, PutIn(mem, mem2, Ls, E, l, C[l], at, n)
    PROVE  Represents(mem2, Ls, E, [C EXCEPT ![l] = Inserted(C[l], at, n)])
<1> DEFINE s == C[l]
           N == Len(s)
           x == Earlier(s, at, n)
           y == Later(s, at, n)
           v == Inserted(s, at, n)
           D == [C EXCEPT ![l] = v]
<1>1. /\ s \in Seq(E) /\ Len(s) = N /\ N \in Nat
      /\ \A k \in 1 .. N : s[k] \in E
      /\ \A i, j \in 1 .. N : s[i] = s[j] => i = j
      /\ s = <<>> <=> N = 0
    BY Contents
<1>2. /\ v \in Seq(E) /\ v # <<>> /\ Len(v) = N + 1
      /\ \A i \in 1 .. N + 1 :
            v[i] = IF i <= at THEN s[i] ELSE IF i = at + 1 THEN n ELSE s[i - 1]
    <2>1. s \in Seq(E) /\ at \in 0 .. Len(s) /\ n \in E
        BY <1>1
    <2> HIDE DEF s
    <2>2. /\ v \in Seq(E) /\ v # <<>> /\ Len(v) = Len(s) + 1
          /\ \A i \in 1 .. Len(s) + 1 :
                v[i] = IF i <= at THEN s[i] ELSE IF i = at + 1 THEN n ELSE s[i - 1]
        BY <2>1, InsertedOne
    <2> QED BY <1>1, <2>2
<1>3. C \in [Ls -> Seq(E)] /\ D \in [Ls -> Seq(E)]
      /\ D[l] = v /\ \A k \in Ls : k # l => D[k] = C[k]
    BY <1>2 DEF Represents
<1>4. \A k \in Ls : \A i \in 1 .. Len(C[k]) : C[k][i] # n
    BY DEF OnNone, Members
<1>5. \A k \in Ls : k # l => \A i \in 1 .. Len(C[k]), j \in 1 .. N : C[k][i] # s[j]
    BY DEF Represents, Apart
<1>6. \A k \in 1 .. N : s[k] # n
    BY <1>4
<1>7. /\ x = IF N = 0 THEN n ELSE s[Before(at + 1, N)]
      /\ y = IF N = 0 THEN n ELSE s[Behind(at, N)]
    BY DEF Earlier, Later
<1>8. Represents(mem, Ls, E, C) /\ mem.head[l] = Front(s) /\ Circle(mem, s)
    BY DEF Represents
<1>0. /\ IsMemory(mem2, Ls, E) /\ at \in 0 .. N
      /\ \A z \in E : mem2.next[z] = IF z = n THEN y ELSE IF z = x THEN n ELSE mem.next[z]
      /\ \A z \in E : mem2.prev[z] = IF z = n THEN x ELSE IF z = y THEN n ELSE mem.prev[z]
      /\ \A k \in Ls : mem2.head[k] = IF k = l /\ at = 0 THEN n ELSE mem.head[k]
    BY DEF PutIn
<1> HIDE DEF s, v, D, N, x, y
<1>9. ASSUME NEW k \in Ls, k # l PROVE mem2.head[k] = Front(C[k]) /\ Circle(mem2, C[k])
    <2>1. mem2.head[k] = Front(C[k]) /\ Circle(mem, C[k])
        BY <1>0, <1>8, <1>9 DEF Represents
    <2>2. ASSUME NEW i \in 1 .. Len(C[k])
          PROVE  mem2.next[C[k][i]] = mem.next[C[k][i]] /\ mem2.prev[C[k][i]] = mem.prev[C[k][i]]
        <3>1. C[k][i] \in E /\ C[k][i] # n
            BY <1>4, Contents
        <3>2. N # 0 => Before(at + 1, N) \in 1 .. N /\ Behind(at, N) \in 1 .. N
            BY <1>0, <1>1 DEF Before, Behind
        <3>3. \A j \in 1 .. N : C[k][i] # s[j]
            BY <1>5, <1>9
        <3>4. C[k][i] # x /\ C[k][i] # y
            BY <3>1, <3>2, <3>3, <1>7
        <3> QED BY <1>0, <3>1, <3>4
    <2> QED BY <2>1, <2>2 DEF Circle
<1>10. Apart(Ls, D)
    <2> SUFFICES ASSUME NEW k \in Ls, NEW k2 \in Ls, NEW i \in 1 .. Len(D[k]),
                        NEW j \in 1 .. Len(D[k2]), D[k][i] = D[k2][j]
                 PROVE  k = k2 /\ i = j
        BY DEF Apart
    <2>1. Apart(Ls, C)
        BY <1>8 DEF Represents
    <2>2. \A h \in 1 .. N + 1 : v[h] = n \/ \E g \in 1 .. N : v[h] = s[g]
        BY <1>0, <1>1, <1>2
    <2>3. CASE k = l /\ k2 = l
        <3>1. i \in 1 .. N + 1 /\ j \in 1 .. N + 1 /\ v[i] = v[j]
            BY <2>3, <1>2, <1>3
        <3> DEFINE g(h) == IF h <= at THEN h ELSE h - 1
        <3>2. \A h \in 1 .. N + 1 : h # at + 1 => v[h] = s[g(h)] /\ g(h) \in 1 .. N
            BY <1>0, <1>1, <1>2
        <3>3. v[at + 1] = n
            BY <1>0, <1>1, <1>2
        <3>4. CASE i = at + 1 \/ j = at + 1
            <4>1. \A h \in 1 .. N + 1 : h # at + 1 => v[h] # n
                BY <3>2, <1>6
            <4> QED BY <1>0, <3>1, <3>3, <3>4, <4>1, <2>3
        <3>5. CASE i # at + 1 /\ j # at + 1
            <4>1. g(i) = g(j)
                BY <1>0, <3>1, <3>2, <3>5, <1>1
            <4>2. i = j
                BY <1>0, <3>1, <3>5, <4>1
            <4> QED BY <4>2, <2>3
        <3> QED BY <3>4, <3>5
    <2>4. CASE k = l /\ k2 # l
        <3>1. i \in 1 .. N + 1 /\ j \in 1 .. Len(C[k2]) /\ v[i] = C[k2][j]
            BY <2>4, <1>2, <1>3
        <3> QED BY <3>1, <2>2, <2>4, <1>4, <1>5
    <2>5. CASE k # l /\ k2 = l
        <3>1. j \in 1 .. N + 1 /\ i \in 1 .. Len(C[k]) /\ v[j] = C[k][i]
            BY <2>5, <1>2, <1>3
        <3> QED BY <3>1, <2>2, <2>5, <1>4, <1>5
    <2>6. CASE k # l /\ k2 # l
        BY <2>6, <1>3, <2>1 DEF Apart
    <2> QED BY <2>3, <2>4, <2>5, <2>6
<1>11. mem2.head[l] = Front(v)
    <2>1. v[1] = IF at = 0 THEN n ELSE s[1]
        BY <1>0, <1>1, <1>2
    <2> QED BY <1>0, <1>1, <1>2, <2>1, <1>8 DEF Front
<1>12. Circle(mem2, v)
    <2>1. /\ \A k \in 1 .. N : mem.next[s[k]] = s[Behind(k, N)]
          /\ \A k \in 1 .. N : mem.prev[s[k]] = s[Before(k, N)]
        BY <1>1, <1>8 DEF Circle
    <2>2. \A k \in 1 .. N + 1 : v[k] \in E
        BY <1>2, ElementOfSeq
    <2> DEFINE nx == mem.next  nx2 == mem2.next  pv == mem.prev  pv2 == mem2.prev
    <2>3. \A k \in 1 .. N + 1 :
             nx2[v[k]] = IF v[k] = n THEN y ELSE IF v[k] = x THEN n ELSE nx[v[k]]
        BY <1>0, <2>2
    <2>4. \A k \in 1 .. N + 1 :
             pv2[v[k]] = IF v[k] = n THEN x ELSE IF v[k] = y THEN n ELSE pv[v[k]]
        BY <1>0, <2>2
    <2>5. \A k \in 1 .. N : nx[s[k]] = s[Behind(k, N)]
        BY <2>1
    <2>6. \A k \in 1 .. N : pv[s[k]] = s[Before(k, N)]
        BY <2>1
    <2> HIDE DEF nx, nx2, pv, pv2
    <2>7. Between(N, s, v, n, at, x, y)
        BY <1>0, <1>1, <1>2, <1>6, <1>7 DEF Between
    <2>8. ASSUME NEW k \in 1 .. N + 1 PROVE nx2[v[k]] = v[Behind(k, N + 1)]
        BY <2>3, <2>5, <2>7, SplicedForwards, SMTT(30)
    <2>9. ASSUME NEW k \in 1 .. N + 1 PROVE pv2[v[k]] = v[Before(k, N + 1)]
        BY <2>4, <2>6, <2>7, SplicedBackwards, SMTT(30)
    <2> QED BY <1>2, <2>8, <2>9 DEF Circle, nx2, pv2
<1>13. \A k \in Ls : mem2.head[k] = Front(D[k]) /\ Circle(mem2, D[k])
    BY <1>3, <1>9, <1>11, <1>12
<1> QED BY <1>0, <1>3, <1>10, <1>13 DEF Represents, D, v, s

\* doubleListAddOneToEnd, for an entry that is on no list.
LEMMA AddedToEnd ==
    ASSUME NEW mem, NEW Ls, NEW E, NEW C, NULL \notin E, Represents(mem, Ls, E, C),
           NEW l \in Ls, NEW n \in E, OnNone(Ls, C, n)
    PROVE  /\ Represents(AddOneToEnd(mem, l, n), Ls, E,
                         [C EXCEPT ![l] = Inserted(C[l], Len(C[l]), n)])
           /\ SameOthers(mem, AddOneToEnd(mem, l, n))
<1> DEFINE s == C[l]
           N == Len(s)
           first == mem.head[l]
           last == mem.prev[first]
           mem2 == AddOneToEnd(mem, l, n)
           x == Earlier(s, N, n)
           y == Later(s, N, n)
<1>1. /\ N \in Nat
      /\ \A k \in 1 .. N : s[k] \in E
      /\ first = IF N = 0 THEN NULL ELSE s[1]
    BY Contents
<1>2. IsMemory(mem, Ls, E) /\ Circle(mem, s)
    BY DEF Represents
<1>3. N # 0 => last = s[N]
    BY <1>1, <1>2 DEF Circle, Before
<1>4. \A k \in 1 .. N : s[k] # n
    BY DEF OnNone, Members
<1>5. N # 0 => /\ first = s[1] /\ first \in E /\ first # n /\ first # NULL
               /\ last \in E /\ last # n
    BY <1>1, <1>3, <1>4
<1>6. /\ N = 0 => x = n /\ y = n
      /\ N # 0 => x = last /\ y = first
    BY <1>1, <1>3, <1>5 DEF Before, Behind, Earlier, Later
<1> HIDE DEF x, y, s, N
<1>7. /\ IsMemory(mem2, Ls, E) /\ SameOthers(mem, mem2)
      /\ \A z \in E : mem2.next[z] = IF z = n THEN y ELSE IF z = x THEN n ELSE mem.next[z]
      /\ \A z \in E : mem2.prev[z] = IF z = n THEN x ELSE IF z = y THEN n ELSE mem.prev[z]
      /\ \A k \in Ls : mem2.head[k] = IF k = l /\ N = 0 THEN n ELSE mem.head[k]
    <2>1. CASE N = 0
        <3>1. first = NULL /\ x = n /\ y = n
            BY <2>1, <1>1, <1>6
        <3>2. mem2 = [mem EXCEPT !.head[l] = n, !.next[n] = n, !.prev[n] = n]
            BY <3>1 DEF AddOneToEnd
        <3> HIDE DEF mem2, first, last
        <3>3. /\ IsMemory(mem2, Ls, E) /\ SameOthers(mem, mem2)
              /\ mem2.head = [mem.head EXCEPT ![l] = n]
              /\ mem2.next = [mem.next EXCEPT ![n] = n]
              /\ mem2.prev = [mem.prev EXCEPT ![n] = n]
            BY <1>2, <3>2 DEF IsMemory, SameOthers
        <3> QED BY <1>2, <2>1, <3>1, <3>3 DEF IsMemory
    <2>2. CASE N # 0
        <3>1. mem2 = [mem EXCEPT !.next[n] = first, !.prev[n] = last,
                                 !.prev[first] = n, !.next[last] = n]
            BY <2>2, <1>5 DEF AddOneToEnd
        <3> HIDE DEF mem2, first, last
        <3>2. /\ IsMemory(mem2, Ls, E) /\ SameOthers(mem, mem2)
              /\ mem2.head = mem.head
              /\ mem2.next = [[mem.next EXCEPT ![n] = first] EXCEPT ![last] = n]
              /\ mem2.prev = [[mem.prev EXCEPT ![n] = last] EXCEPT ![first] = n]
            BY <1>2, <1>5, <2>2, <3>1 DEF IsMemory, SameOthers
        <3> QED BY <1>2, <1>5, <1>6, <2>2, <3>2 DEF IsMemory
    <2> QED BY <2>1, <2>2
<1>8. PutIn(mem, mem2, Ls, E, l, C[l], N, n) /\ N \in 0 .. Len(C[l])
    BY <1>1, <1>7 DEF PutIn, x, y, N, s
<1> HIDE DEF mem2
<1>9. Represents(mem2, Ls, E, [C EXCEPT ![l] = Inserted(C[l], N, n)])
    BY <1>8, Spliced
<1> QED BY <1>7, <1>9 DEF mem2, N, s

-----------------------------------------------------------------------------

\* v is s, of N entries, without its k-th.
LeftOf(N, s, v, k) ==
    /\ N \in Nat /\ k \in 1 .. N
    /\ \A i, j \in 1 .. N : s[i] = s[j] => i = j
    /\ \A i \in 1 .. N - 1 : v[i] = IF i < k THEN s[i] ELSE s[i + 1]

\* When the neighbours of the k-th entry are joined the way forwards is round v, ...
LEMMA JoinedForwards ==
    ASSUME NEW N, NEW s, NEW v, NEW k, LeftOf(N, s, v, k),
           NEW nx, \A i \in 1 .. N : nx[s[i]] = s[Behind(i, N)],
           NEW nx2,
           \A i \in 1 .. N :
               nx2[s[i]] = IF s[i] = s[Before(k, N)] THEN s[Behind(k, N)] ELSE nx[s[i]],
           NEW i \in 1 .. N - 1
    PROVE  nx2[v[i]] = v[Behind(i, N - 1)]
<1> USE DEF LeftOf
<1>1. Before(k, N) \in 1 .. N /\ Behind(k, N) \in 1 .. N
    BY DEF Before, Behind
<1>2. \A j \in 1 .. N :
          nx2[s[j]] = IF j = Before(k, N) THEN s[Behind(k, N)] ELSE s[Behind(j, N)]
    BY <1>1
<1>3. CASE i < k - 1
    <2>1. v[i] = s[i] /\ v[i + 1] = s[i + 1] /\ i \in 1 .. N /\ i # Before(k, N)
        BY <1>3 DEF Before
    <2>2. Behind(i, N) = i + 1 /\ Behind(i, N - 1) = i + 1
        BY <1>3 DEF Behind
    <2> QED BY <1>2, <2>1, <2>2
<1>4. CASE i = k - 1
    <2>1. v[i] = s[i] /\ i \in 1 .. N /\ i = Before(k, N)
        BY <1>4 DEF Before
    <2>2. nx2[v[i]] = s[Behind(k, N)]
        BY <1>2, <2>1
    <2>3. CASE k = N
        <3>1. Behind(k, N) = 1 /\ Behind(i, N - 1) = 1 /\ v[1] = s[1]
            BY <1>4, <2>3 DEF Behind
        <3> QED BY <2>2, <3>1
    <2>4. CASE k # N
        <3>1. Behind(k, N) = k + 1 /\ Behind(i, N - 1) = k /\ v[k] = s[k + 1]
            BY <1>4, <2>4 DEF Behind
        <3> QED BY <2>2, <3>1
    <2> QED BY <2>3, <2>4
<1>5. CASE i >= k
    <2>1. v[i] = s[i + 1] /\ i + 1 \in 1 .. N
        BY <1>5
    <2>2. CASE i = N - 1 /\ k = 1
        <3>1. Before(k, N) = i + 1 /\ Behind(k, N) = 2 /\ Behind(i, N - 1) = 1 /\ v[1] = s[2]
            BY <1>5, <2>2 DEF Before, Behind
        <3> QED BY <1>2, <2>1, <3>1
    <2>3. CASE i = N - 1 /\ k # 1
        <3>1. Before(k, N) # i + 1 /\ Behind(i + 1, N) = 1 /\ Behind(i, N - 1) = 1 /\ v[1] = s[1]
            BY <1>5, <2>3 DEF Before, Behind
        <3> QED BY <1>2, <2>1, <3>1
    <2>4. CASE i # N - 1
        <3>1. Before(k, N) # i + 1 /\ Behind(i + 1, N) = i + 2 /\ Behind(i, N - 1) = i + 1
              /\ v[i + 1] = s[i + 2]
            BY <1>5, <2>4 DEF Before, Behind
        <3> QED BY <1>2, <2>1, <3>1
    <2> QED BY <2>2, <2>3, <2>4
<1> QED BY <1>3, <1>4, <1>5

\* ... and so is the way back.
LEMMA JoinedBackwards ==
    ASSUME NEW N, NEW s, NEW v, NEW k, LeftOf(N, s, v, k),
           NEW pv, \A i \in 1 .. N : pv[s[i]] = s[Before(i, N)],
           NEW pv2,
           \A i \in 1 .. N :
               pv2[s[i]] = IF s[i] = s[Behind(k, N)] THEN s[Before(k, N)] ELSE pv[s[i]],
           NEW i \in 1 .. N - 1
    PROVE  pv2[v[i]] = v[Before(i, N - 1)]
<1> USE DEF LeftOf
<1>1. Before(k, N) \in 1 .. N /\ Behind(k, N) \in 1 .. N
    BY DEF Before, Behind
<1>2. \A j \in 1 .. N :
          pv2[s[j]] = IF j = Behind(k, N) THEN s[Before(k, N)] ELSE s[Before(j, N)]
    BY <1>1
<1>3. CASE i > k
    <2>1. v[i] = s[i + 1] /\ v[i - 1] = s[i] /\ i + 1 \in 1 .. N /\ i + 1 # Behind(k, N)
        BY <1>3 DEF Behind
    <2>2. Before(i + 1, N) = i /\ Before(i, N - 1) = i - 1
        BY <1>3 DEF Before
    <2> QED BY <1>2, <2>1, <2>2
<1>4. CASE i = k
    <2>1. v[i] = s[i + 1] /\ i + 1 \in 1 .. N /\ i + 1 = Behind(k, N)
        BY <1>4 DEF Behind
    <2>2. pv2[v[i]] = s[Before(k, N)]
        BY <1>2, <2>1
    <2>3. CASE k = 1
        <3>1. Before(k, N) = N /\ Before(i, N - 1) = N - 1 /\ v[N - 1] = s[N]
            BY <1>4, <2>3 DEF Before
        <3> QED BY <2>2, <3>1
    <2>4. CASE k # 1
        <3>1. Before(k, N) = k - 1 /\ Before(i, N - 1) = k - 1 /\ v[k - 1] = s[k - 1]
            BY <1>4, <2>4 DEF Before
        <3> QED BY <2>2, <3>1
    <2> QED BY <2>3, <2>4
<1>5. CASE i < k
    <2>1. v[i] = s[i] /\ i \in 1 .. N
        BY <1>5
    <2>2. CASE i = 1 /\ k = N
        <3>1. Behind(k, N) = i /\ Before(k, N) = N - 1 /\ Before(i, N - 1) = N - 1
              /\ v[N - 1] = s[N - 1]
            BY <1>5, <2>2 DEF Before, Behind
        <3> QED BY <1>2, <2>1, <3>1
    <2>3. CASE i = 1 /\ k # N
        <3>1. Behind(k, N) # i /\ Before(i, N) = N /\ Before(i, N - 1) = N - 1 /\ v[N - 1] = s[N]
            BY <1>5, <2>3 DEF Before, Behind
        <3> QED BY <1>2, <2>1, <3>1
    <2>4. CASE i # 1
        <3>1. Behind(k, N) # i /\ Before(i, N) = i - 1 /\ Before(i, N - 1) = i - 1
              /\ v[i - 1] = s[i - 1]
            BY <1>5, <2>4 DEF Before, Behind
        <3> QED BY <1>2, <2>1, <3>1
    <2> QED BY <2>2, <2>3, <2>4
<1> QED BY <1>3, <1>4, <1>5

\* What the functions that take the k-th entry off list l, which is s, write.
TakenOut(mem, mem2, Ls, E, l, s, k) ==
    /\ IsMemory(mem2, Ls, E)
    /\ \A z \in E : mem2.next[z] = IF z = s[Before(k, Len(s))] THEN s[Behind(k, Len(s))]
                                   ELSE mem.next[z]
    /\ \A z \in E : mem2.prev[z] = IF z = s[Behind(k, Len(s))] THEN s[Before(k, Len(s))]
                                   ELSE mem.prev[z]
    /\ \A h \in Ls : mem2.head[h] = IF h # l \/ k # 1 THEN mem.head[h]
                                    ELSE IF Len(s) = 1 THEN NULL ELSE s[2]

\* A list of which an entry has been taken out is what is left.
LEMMA Closed ==
    ASSUME NEW mem, NEW Ls, NEW E, NEW C, Represents(mem, Ls, E, C), NEW l \in Ls,
           NEW k \in 1 .. Len(C[l]), NEW mem2, TakenOut(mem, mem2, Ls, E, l, C[l], k)
    PROVE  Represents(mem2, Ls, E, [C EXCEPT ![l] = Without(C[l], k)])
<1> DEFINE s == C[l]
           N == Len(s)
           x == s[Before(k, N)]
           y == s[Behind(k, N)]
           v == Without(s, k)
           D == [C EXCEPT ![l] = v]
<1>1. /\ s \in Seq(E) /\ N \in Nat
      /\ \A i \in 1 .. N : s[i] \in E
      /\ \A i, j \in 1 .. N : s[i] = s[j] => i = j
    BY Contents
<1>2. /\ v \in Seq(E) /\ Len(v) = N - 1
      /\ v = <<>> <=> N = 1
      /\ \A i \in 1 .. N - 1 : v[i] = IF i < k THEN s[i] ELSE s[i + 1]
    <2>1. s \in Seq(E) /\ k \in 1 .. Len(s)
        BY <1>1
    <2> HIDE DEF s
    <2> QED BY <2>1, WithoutOne
<1>3. C \in [Ls -> Seq(E)] /\ D \in [Ls -> Seq(E)]
      /\ D[l] = v /\ \A h \in Ls : h # l => D[h] = C[h]
    BY <1>2 DEF Represents
<1>4. \A h \in Ls : h # l => \A i \in 1 .. Len(C[h]), j \in 1 .. N : C[h][i] # s[j]
    BY DEF Represents, Apart
<1>5. Represents(mem, Ls, E, C) /\ mem.head[l] = Front(s) /\ Circle(mem, s)
    BY DEF Represents
<1>6. /\ IsMemory(mem2, Ls, E) /\ k \in 1 .. N
      /\ \A z \in E : mem2.next[z] = IF z = x THEN y ELSE mem.next[z]
      /\ \A z \in E : mem2.prev[z] = IF z = y THEN x ELSE mem.prev[z]
      /\ \A h \in Ls : mem2.head[h] = IF h # l \/ k # 1 THEN mem.head[h]
                                      ELSE IF N = 1 THEN NULL ELSE s[2]
    BY DEF TakenOut
<1>7. Before(k, N) \in 1 .. N /\ Behind(k, N) \in 1 .. N
    BY <1>1 DEF Before, Behind
<1>8. x = s[Before(k, N)] /\ y = s[Behind(k, N)]
    OBVIOUS
<1> HIDE DEF s, v, D, N, x, y
<1>9. ASSUME NEW h \in Ls, h # l PROVE mem2.head[h] = Front(C[h]) /\ Circle(mem2, C[h])
    <2>1. mem2.head[h] = Front(C[h]) /\ Circle(mem, C[h])
        BY <1>5, <1>6, <1>9 DEF Represents
    <2>2. ASSUME NEW i \in 1 .. Len(C[h])
          PROVE  mem2.next[C[h][i]] = mem.next[C[h][i]] /\ mem2.prev[C[h][i]] = mem.prev[C[h][i]]
        <3>1. C[h][i] \in E
            BY Contents
        <3>2. C[h][i] # x /\ C[h][i] # y
            BY <1>4, <1>7, <1>8, <1>9
        <3> QED BY <1>6, <3>1, <3>2
    <2> QED BY <2>1, <2>2 DEF Circle
<1>10. Apart(Ls, D)
    <2> SUFFICES ASSUME NEW g \in Ls, NEW h \in Ls, NEW i \in 1 .. Len(D[g]),
                        NEW j \in 1 .. Len(D[h]), D[g][i] = D[h][j]
                 PROVE  g = h /\ i = j
        BY DEF Apart
    <2>1. Apart(Ls, C)
        BY <1>5 DEF Represents
    <2> DEFINE p(a) == IF a < k THEN a ELSE a + 1
    <2>2. \A a \in 1 .. N - 1 : p(a) \in 1 .. N /\ v[a] = s[p(a)]
        BY <1>1, <1>2, <1>6
    <2>3. \A a, b \in 1 .. N - 1 : p(a) = p(b) => a = b
        BY <1>1, <1>6
    <2> HIDE DEF p
    <2>4. CASE g = l /\ h = l
        <3>1. i \in 1 .. N - 1 /\ j \in 1 .. N - 1 /\ v[i] = v[j]
            BY <2>4, <1>2, <1>3
        <3>2. p(i) \in 1 .. N /\ p(j) \in 1 .. N /\ s[p(i)] = s[p(j)]
            BY <3>1, <2>2
        <3>3. p(i) = p(j)
            BY <3>2, <1>1
        <3>4. i = j
            BY <3>1, <3>3, <2>3
        <3> QED BY <3>4, <2>4
    <2>5. CASE g = l /\ h # l
        <3>1. i \in 1 .. N - 1 /\ j \in 1 .. Len(C[h]) /\ C[h][j] = v[i]
            BY <2>5, <1>2, <1>3
        <3> QED BY <3>1, <2>2, <2>5, <1>4
    <2>6. CASE g # l /\ h = l
        <3>1. i \in 1 .. Len(C[g]) /\ j \in 1 .. N - 1 /\ C[g][i] = v[j]
            BY <2>6, <1>2, <1>3
        <3> QED BY <3>1, <2>2, <2>6, <1>4
    <2>7. CASE g # l /\ h # l
        BY <2>7, <1>3, <2>1 DEF Apart
    <2> QED BY <2>4, <2>5, <2>6, <2>7
<1>11. mem2.head[l] = Front(v)
    <2>1. N > 1 => v[1] = IF k = 1 THEN s[2] ELSE s[1]
        BY <1>1, <1>2, <1>6
    <2>2. s # <<>>
        BY <1>1, <1>6, EmptySeq DEF N
    <2> QED BY <1>1, <1>2, <1>5, <1>6, <2>1, <2>2 DEF Front
<1>12. Circle(mem2, v)
    <2>1. /\ \A i \in 1 .. N : mem.next[s[i]] = s[Behind(i, N)]
          /\ \A i \in 1 .. N : mem.prev[s[i]] = s[Before(i, N)]
        BY <1>5 DEF Circle, N
    <2> DEFINE nx == mem.next  nx2 == mem2.next  pv == mem.prev  pv2 == mem2.prev
    <2>2. \A i \in 1 .. N : nx2[s[i]] = IF s[i] = s[Before(k, N)] THEN s[Behind(k, N)] ELSE nx[s[i]]
        BY <1>1, <1>6, <1>8
    <2>3. \A i \in 1 .. N : pv2[s[i]] = IF s[i] = s[Behind(k, N)] THEN s[Before(k, N)] ELSE pv[s[i]]
        BY <1>1, <1>6, <1>8
    <2>4. \A i \in 1 .. N : nx[s[i]] = s[Behind(i, N)]
        BY <2>1
    <2>5. \A i \in 1 .. N : pv[s[i]] = s[Before(i, N)]
        BY <2>1
    <2> HIDE DEF nx, nx2, pv, pv2
    <2>6. LeftOf(N, s, v, k)
        BY <1>1, <1>2, <1>6 DEF LeftOf
    <2>7. ASSUME NEW i \in 1 .. N - 1 PROVE nx2[v[i]] = v[Behind(i, N - 1)]
        BY <2>2, <2>4, <2>6, JoinedForwards, SMTT(30)
    <2>8. ASSUME NEW i \in 1 .. N - 1 PROVE pv2[v[i]] = v[Before(i, N - 1)]
        BY <2>3, <2>5, <2>6, JoinedBackwards, SMTT(30)
    <2> QED BY <1>2, <2>7, <2>8 DEF Circle, nx2, pv2
<1>13. \A h \in Ls : mem2.head[h] = Front(D[h]) /\ Circle(mem2, D[h])
    BY <1>3, <1>9, <1>11, <1>12
<1> QED BY <1>3, <1>6, <1>10, <1>13 DEF Represents, D, v, s

\* doubleListRemoveOne, for an entry that is on the list it is given.
LEMMA RemovedOne ==
    ASSUME NEW mem, NEW Ls, NEW E, NEW C, NULL \notin E, Represents(mem, Ls, E, C),
           NEW l \in Ls, NEW k \in 1 .. Len(C[l])
    PROVE  /\ Represents(RemoveOne(mem, l, C[l][k]), Ls, E,
                         [C EXCEPT ![l] = Without(C[l], k)])
           /\ SameOthers(mem, RemoveOne(mem, l, C[l][k]))
<1> DEFINE s == C[l]
           N == Len(s)
           n == s[k]
           x == mem.prev[n]
           y == mem.next[n]
           U == Unlink(mem, n)
           mem2 == RemoveOne(mem, l, n)
<1>1. /\ N \in Nat /\ k \in 1 .. N
      /\ \A i \in 1 .. N : s[i] \in E
      /\ \A i, j \in 1 .. N : s[i] = s[j] => i = j
      /\ mem.head[l] = s[1]
    BY Contents
<1>2. IsMemory(mem, Ls, E) /\ Circle(mem, s)
    BY DEF Represents
<1>3. x = s[Before(k, N)] /\ y = s[Behind(k, N)]
    BY <1>2 DEF Circle
<1>4. Before(k, N) \in 1 .. N /\ Behind(k, N) \in 1 .. N
    BY <1>1 DEF Before, Behind
<1>5. x \in E /\ y \in E /\ n \in E
    BY <1>1, <1>3, <1>4
<1> HIDE DEF s, N
<1>6. U = [mem EXCEPT !.next[x] = y, !.prev[y] = x]
    BY DEF Unlink
<1> HIDE DEF U, x, y, n
<1>7. /\ IsMemory(U, Ls, E) /\ SameOthers(mem, U)
      /\ U.head = mem.head
      /\ U.next = [mem.next EXCEPT ![x] = y]
      /\ U.prev = [mem.prev EXCEPT ![y] = x]
    BY <1>2, <1>5, <1>6 DEF IsMemory, SameOthers
<1>8. /\ n = s[k] /\ y = mem.next[n]
      /\ k = 1 <=> mem.head[l] = n
      /\ k = 1 => (N = 1 <=> mem.next[n] = n)
    BY <1>1, <1>3, <1>4 DEF n, y, Behind
<1>9. /\ IsMemory(mem2, Ls, E) /\ SameOthers(mem, mem2)
      /\ \A z \in E : mem2.next[z] = IF z = x THEN y ELSE mem.next[z]
      /\ \A z \in E : mem2.prev[z] = IF z = y THEN x ELSE mem.prev[z]
      /\ \A h \in Ls : mem2.head[h] = IF h # l \/ k # 1 THEN mem.head[h]
                                      ELSE IF N = 1 THEN NULL ELSE s[2]
    <2>1. CASE k # 1
        <3>1. mem2 = U
            BY <1>8, <2>1 DEF RemoveOne, U
        <3> HIDE DEF mem2
        <3> QED BY <1>2, <1>5, <1>7, <2>1, <3>1 DEF IsMemory
    <2>2. CASE k = 1 /\ N = 1
        <3>1. mem2 = [mem EXCEPT !.head[l] = NULL]
            BY <1>8, <2>2 DEF RemoveOne
        <3>2. x = n /\ y = n
            BY <2>2, <1>3, <1>8 DEF Before, Behind
        <3> HIDE DEF mem2
        <3>3. mem.prev[n] = x /\ mem.next[n] = y
            BY DEF x, y
        <3>4. /\ IsMemory(mem2, Ls, E) /\ SameOthers(mem, mem2)
              /\ mem2.head = [mem.head EXCEPT ![l] = NULL]
              /\ mem2.next = mem.next /\ mem2.prev = mem.prev
            BY <1>2, <3>1 DEF IsMemory, SameOthers
        <3> QED BY <1>2, <1>5, <2>2, <3>2, <3>3, <3>4 DEF IsMemory
    <2>3. CASE k = 1 /\ N # 1
        <3>1. mem2 = [U EXCEPT !.head[l] = y]
            BY <1>8, <2>3 DEF RemoveOne, U
        <3>2. y = s[2]
            BY <2>3, <1>3 DEF Behind
        <3> HIDE DEF mem2
        <3>3. /\ IsMemory(mem2, Ls, E) /\ SameOthers(mem, mem2)
              /\ mem2.head = [U.head EXCEPT ![l] = y]
              /\ mem2.next = U.next /\ mem2.prev = U.prev
            BY <1>5, <1>7, <3>1 DEF IsMemory, SameOthers
        <3> QED BY <1>2, <1>5, <1>7, <2>3, <3>2, <3>3 DEF IsMemory
    <2> QED BY <2>1, <2>2, <2>3
<1>10. TakenOut(mem, mem2, Ls, E, l, C[l], k)
    BY <1>3, <1>9 DEF TakenOut, s, N
<1> HIDE DEF mem2
<1>11. Represents(mem2, Ls, E, [C EXCEPT ![l] = Without(C[l], k)])
    BY <1>10, Closed
<1> QED BY <1>9, <1>11 DEF mem2, n, s

-----------------------------------------------------------------------------

Rotated(s) == [i \in 1 .. Len(s) |-> s[Behind(i, Len(s))]]

\* doubleListRotateOneFrontToEnd: only the list pointer moves.
LEMMA RotatedOne ==
    ASSUME NEW mem, NEW Ls, NEW E, NEW C, NULL \notin E, Represents(mem, Ls, E, C), NEW l \in Ls
    PROVE  /\ Represents(RotateOneFrontToEnd(mem, l), Ls, E, [C EXCEPT ![l] = Rotated(C[l])])
           /\ SameOthers(mem, RotateOneFrontToEnd(mem, l))
           /\ Members(Rotated(C[l])) = Members(C[l])
           /\ Len(Rotated(C[l])) = Len(C[l])
<1> DEFINE s == C[l]
           N == Len(s)
           v == Rotated(s)
           D == [C EXCEPT ![l] = v]
           mem2 == RotateOneFrontToEnd(mem, l)
<1>1. /\ s \in Seq(E) /\ N \in Nat
      /\ \A i \in 1 .. N : s[i] \in E
      /\ \A i, j \in 1 .. N : s[i] = s[j] => i = j
      /\ s = <<>> <=> N = 0
      /\ mem.head[l] = IF N = 0 THEN NULL ELSE s[1]
    BY Contents
<1>2. /\ \A i \in 1 .. N : Behind(i, N) \in 1 .. N /\ Before(i, N) \in 1 .. N
      /\ \A i \in 1 .. N : Before(Behind(i, N), N) = i /\ Behind(Before(i, N), N) = i
      /\ \A i, j \in 1 .. N : Behind(i, N) = Behind(j, N) => i = j
    <2> HIDE DEF N
    <2> QED BY <1>1 DEF Behind, Before
<1>3. \A i \in 1 .. N : v[i] = s[Behind(i, N)]
    BY DEF Rotated
<1>4. v \in Seq(E) /\ Len(v) = N
    <2>1. v \in [1 .. N -> E]
        BY <1>1, <1>2 DEF Rotated
    <2>2. v \in Seq(E)
        BY <1>1, <2>1, SeqDef
    <2> HIDE DEF v, N
    <2> QED BY <1>1, <2>1, <2>2, LenProperties
<1>5. C \in [Ls -> Seq(E)] /\ D \in [Ls -> Seq(E)]
      /\ D[l] = v /\ \A h \in Ls : h # l => D[h] = C[h]
    BY <1>4 DEF Represents
<1>6. /\ \A i \in 1 .. N : mem.next[s[i]] = s[Behind(i, N)]
      /\ \A i \in 1 .. N : mem.prev[s[i]] = s[Before(i, N)]
      /\ IsMemory(mem, Ls, E)
    BY DEF Represents, Circle
<1>7. /\ IsMemory(mem2, Ls, E) /\ SameOthers(mem, mem2)
      /\ mem2.next = mem.next /\ mem2.prev = mem.prev
      /\ \A h \in Ls : mem2.head[h] = IF h = l /\ N # 0 THEN v[1] ELSE mem.head[h]
    <2> HIDE DEF s, N, v
    <2>1. CASE N = 0
        <3>1. mem2 = mem
            BY <2>1, <1>1 DEF RotateOneFrontToEnd
        <3> QED BY <2>1, <3>1, <1>6 DEF SameOthers
    <2>2. CASE N # 0
        <3>1. 1 \in 1 .. N /\ mem.head[l] = s[1] /\ s[1] \in E
            BY <2>2, <1>1
        <3>2. mem.next[s[1]] = v[1] /\ v[1] \in E /\ mem.head[l] # NULL
            BY <3>1, <1>1, <1>2, <1>3, <1>6
        <3>3. mem2 = [mem EXCEPT !.head[l] = v[1]]
            BY <3>1, <3>2 DEF RotateOneFrontToEnd
        <3> HIDE DEF mem2
        <3>4. /\ IsMemory(mem2, Ls, E) /\ SameOthers(mem, mem2)
              /\ mem2.next = mem.next /\ mem2.prev = mem.prev
              /\ mem2.head = [mem.head EXCEPT ![l] = v[1]]
            BY <1>6, <3>2, <3>3 DEF IsMemory, SameOthers
        <3> QED BY <1>6, <2>2, <3>4 DEF IsMemory
    <2> QED BY <2>1, <2>2
<1>8. Represents(mem, Ls, E, C) /\ mem.head[l] = Front(s)
    BY DEF Represents
<1>9. s = C[l]
    OBVIOUS
<1>10. N = Len(s)
    OBVIOUS
<1> HIDE DEF s, N, v, D, mem2
<1>11. Apart(Ls, D)
    <2> SUFFICES ASSUME NEW g \in Ls, NEW h \in Ls, NEW i \in 1 .. Len(D[g]),
                        NEW j \in 1 .. Len(D[h]), D[g][i] = D[h][j]
                 PROVE  g = h /\ i = j
        BY DEF Apart
    <2>1. Apart(Ls, C)
        BY <1>8 DEF Represents
    <2>2. \A a \in 1 .. N : Behind(a, N) \in 1 .. Len(C[l]) /\ v[a] = C[l][Behind(a, N)]
        BY <1>2, <1>3, <1>9, <1>10
    <2>3. CASE g = l /\ h = l
        <3>1. i \in 1 .. N /\ j \in 1 .. N /\ v[i] = v[j]
            BY <2>3, <1>4, <1>5
        <3>2. s[Behind(i, N)] = s[Behind(j, N)] /\ Behind(i, N) \in 1 .. N /\ Behind(j, N) \in 1 .. N
            BY <3>1, <1>2, <1>3
        <3>3. Behind(i, N) = Behind(j, N)
            BY <3>2, <1>1
        <3> QED BY <3>1, <3>3, <2>3, <1>2
    <2>4. CASE g = l /\ h # l
        <3>1. i \in 1 .. N /\ j \in 1 .. Len(C[h]) /\ v[i] = C[h][j]
            BY <2>4, <1>4, <1>5
        <3> QED BY <3>1, <2>1, <2>2, <2>4 DEF Apart
    <2>5. CASE g # l /\ h = l
        <3>1. j \in 1 .. N /\ i \in 1 .. Len(C[g]) /\ v[j] = C[g][i]
            BY <2>5, <1>4, <1>5
        <3> QED BY <3>1, <2>1, <2>2, <2>5 DEF Apart
    <2>6. CASE g # l /\ h # l
        BY <2>6, <1>5, <2>1 DEF Apart
    <2> QED BY <2>3, <2>4, <2>5, <2>6
<1>12. ASSUME NEW h \in Ls PROVE mem2.head[h] = Front(D[h]) /\ Circle(mem2, D[h])
    <2>1. mem.head[h] = Front(C[h]) /\ Circle(mem, C[h])
        BY <1>8 DEF Represents
    <2>2. CASE h # l
        BY <2>1, <2>2, <1>5, <1>7 DEF Circle
    <2>3. CASE h = l
        <3>1. v = <<>> <=> N = 0
            BY <1>1, <1>4, EmptySeq
        <3>2. mem2.head[l] = Front(v)
            BY <3>1, <1>1, <1>7 DEF Front
        <3>3. ASSUME NEW i \in 1 .. N
              PROVE  mem2.next[v[i]] = v[Behind(i, N)] /\ mem2.prev[v[i]] = v[Before(i, N)]
            <4>1. v[i] = s[Behind(i, N)] /\ Behind(i, N) \in 1 .. N /\ Before(i, N) \in 1 .. N
                BY <1>2, <1>3
            <4>2. mem.next[v[i]] = s[Behind(Behind(i, N), N)]
                BY <4>1, <1>6
            <4>3. mem.prev[v[i]] = s[i]
                BY <4>1, <1>2, <1>6
            <4>4. v[Behind(i, N)] = s[Behind(Behind(i, N), N)]
                BY <4>1, <1>3
            <4>5. v[Before(i, N)] = s[i]
                BY <4>1, <1>2, <1>3
            <4> QED BY <4>2, <4>3, <4>4, <4>5, <1>7
        <3>4. Circle(mem2, v)
            BY <3>3, <1>4 DEF Circle
        <3> QED BY <3>2, <3>4, <2>3, <1>5
    <2> QED BY <2>2, <2>3
<1>13. Represents(mem2, Ls, E, D)
    BY <1>5, <1>7, <1>11, <1>12 DEF Represents
<1>14. ASSUME NEW x \in Members(v) PROVE x \in Members(s)
    <2>1. PICK i \in 1 .. N : x = v[i]
        BY <1>14, <1>4 DEF Members
    <2>2. Behind(i, N) \in 1 .. N /\ x = s[Behind(i, N)]
        BY <2>1, <1>2, <1>3
    <2> QED BY <2>2, <1>10 DEF Members
<1>15. ASSUME NEW x \in Members(s) PROVE x \in Members(v)
    <2>1. PICK i \in 1 .. N : x = s[i]
        BY <1>15, <1>10 DEF Members
    <2>2. Before(i, N) \in 1 .. N /\ x = v[Before(i, N)]
        BY <2>1, <1>2, <1>3
    <2> QED BY <2>2, <1>4 DEF Members
<1>16. Members(v) = Members(s)
    BY <1>14, <1>15
<1> QED BY <1>4, <1>7, <1>13, <1>16 DEF mem2, D, v, s, N

\* doubleListMoveAllToEnd, from one list to another.
LEMMA MovedAll ==
    ASSUME NEW mem, NEW Ls, NEW E, NEW C, NULL \notin E, Represents(mem, Ls, E, C),
           NEW dest \in Ls, NEW source \in Ls, dest # source
    PROVE  /\ Represents(MoveAllToEnd(mem, dest, source), Ls, E,
                         [C EXCEPT ![dest] = C[dest] \o C[source], ![source] = <<>>])
           /\ SameOthers(mem, MoveAllToEnd(mem, dest, source))
<1> DEFINE s == C[source]
           d == C[dest]
           M == Len(s)
           N == Len(d)
           v == d \o s
           D == [C EXCEPT ![dest] = v, ![source] = <<>>]
           src == mem.head[source]
           dst == mem.head[dest]
           mem2 == MoveAllToEnd(mem, dest, source)
<1>1. /\ s \in Seq(E) /\ M \in Nat
      /\ \A i \in 1 .. M : s[i] \in E
      /\ \A i, j \in 1 .. M : s[i] = s[j] => i = j
      /\ s = <<>> <=> M = 0
      /\ src = IF M = 0 THEN NULL ELSE s[1]
    BY Contents
<1>2. /\ d \in Seq(E) /\ N \in Nat
      /\ \A i \in 1 .. N : d[i] \in E
      /\ \A i, j \in 1 .. N : d[i] = d[j] => i = j
      /\ d = <<>> <=> N = 0
      /\ dst = IF N = 0 THEN NULL ELSE d[1]
    BY Contents
<1>3. \A i \in 1 .. N, j \in 1 .. M : d[i] # s[j]
    BY DEF Represents, Apart
<1>4. /\ v \in Seq(E) /\ Len(v) = N + M
      /\ \A i \in 1 .. N + M : v[i] = IF i <= N THEN d[i] ELSE s[i - N]
    <2> HIDE DEF s, d
    <2> QED BY <1>1, <1>2, ConcatProperties
<1>5. /\ C \in [Ls -> Seq(E)] /\ D \in [Ls -> Seq(E)]
      /\ D[dest] = v /\ D[source] = <<>>
      /\ \A h \in Ls : h # dest /\ h # source => D[h] = C[h]
    <2>1. <<>> \in Seq(E)
        BY EmptySeq
    <2> QED BY <1>4, <2>1 DEF Represents
<1>6. /\ \A i \in 1 .. M : mem.next[s[i]] = s[Behind(i, M)]
      /\ \A i \in 1 .. M : mem.prev[s[i]] = s[Before(i, M)]
      /\ \A i \in 1 .. N : mem.next[d[i]] = d[Behind(i, N)]
      /\ \A i \in 1 .. N : mem.prev[d[i]] = d[Before(i, N)]
      /\ IsMemory(mem, Ls, E)
    BY DEF Represents, Circle
<1>7. /\ Represents(mem, Ls, E, C) /\ Apart(Ls, C)
      /\ \A h \in Ls : mem.head[h] = Front(C[h]) /\ Circle(mem, C[h])
    BY DEF Represents
<1>8. s = C[source] /\ d = C[dest] /\ N = Len(d) /\ M = Len(s)
    OBVIOUS
<1> HIDE DEF s, d, N, M, v, D, src, dst
<1>9. Apart(Ls, D)
    <2> SUFFICES ASSUME NEW g \in Ls, NEW h \in Ls, NEW i \in 1 .. Len(D[g]),
                        NEW j \in 1 .. Len(D[h]), D[g][i] = D[h][j]
                 PROVE  g = h /\ i = j
        BY DEF Apart
    <2>1. Len(<<>>) = 0
        BY EmptySeq
    <2>2. g # source /\ h # source
        BY <2>1, <1>5
    <2>3. \A a \in 1 .. N + M : \/ a \in 1 .. N /\ v[a] = C[dest][a]
                                \/ a > N /\ a - N \in 1 .. M /\ v[a] = C[source][a - N]
        <3> SUFFICES ASSUME NEW a \in 1 .. N + M
                     PROVE  \/ a \in 1 .. N /\ v[a] = d[a]
                            \/ a > N /\ a - N \in 1 .. M /\ v[a] = s[a - N]
            BY <1>8
        <3>1. CASE a <= N
            BY <3>1, <1>1, <1>2, <1>4
        <3>2. CASE a > N
            <4>1. v[a] = s[a - N]
                BY <3>2, <1>2, <1>4
            <4> QED BY <4>1, <3>2, <1>1, <1>2
        <3> QED BY <3>1, <3>2, <1>1, <1>2
    <2>4. CASE g = dest /\ h = dest
        <3>1. i \in 1 .. N + M /\ j \in 1 .. N + M /\ v[i] = v[j]
            BY <2>4, <1>4, <1>5
        <3>2. CASE i <= N /\ j <= N
            <4>1. d[i] = d[j] /\ i \in 1 .. N /\ j \in 1 .. N
                BY <3>1, <3>2, <1>2, <1>4
            <4> QED BY <4>1, <2>4, <1>2
        <3>3. CASE i > N /\ j > N
            <4>1. \E a, b \in 1 .. M : a = i - N /\ b = j - N
                BY <3>1, <3>3, <1>1, <1>2
            <4>2. PICK a, b \in 1 .. M : a = i - N /\ b = j - N
                BY <4>1
            <4>3. v[i] = s[a] /\ v[j] = s[b]
                BY <3>1, <3>3, <4>2, <1>2, <1>4
            <4>4. a = b
                BY <3>1, <4>3, <1>1
            <4> QED BY <3>1, <4>2, <4>4, <2>4, <1>2
        <3>4. CASE i <= N /\ j > N
            <4>1. d[i] = s[j - N] /\ i \in 1 .. N /\ j - N \in 1 .. M
                BY <3>1, <3>4, <1>1, <1>2, <1>4
            <4> QED BY <4>1, <1>3
        <3>5. CASE i > N /\ j <= N
            <4>1. s[i - N] = d[j] /\ i - N \in 1 .. M /\ j \in 1 .. N
                BY <3>1, <3>5, <1>1, <1>2, <1>4
            <4> QED BY <4>1, <1>3
        <3> QED BY <3>1, <3>2, <3>3, <3>4, <3>5, <1>1, <1>2
    <2>5. CASE g = dest /\ h # dest
        <3>1. i \in 1 .. N + M /\ j \in 1 .. Len(C[h]) /\ v[i] = C[h][j]
            BY <2>2, <2>5, <1>4, <1>5
        <3>2. \A a \in 1 .. N : C[dest][a] # C[h][j]
            BY <3>1, <2>5, <1>7, <1>8 DEF Apart
        <3>3. \A a \in 1 .. M : C[source][a] # C[h][j]
            BY <3>1, <2>2, <1>7, <1>8 DEF Apart
        <3> QED BY <3>1, <3>2, <3>3, <2>3
    <2>6. CASE g # dest /\ h = dest
        <3>1. j \in 1 .. N + M /\ i \in 1 .. Len(C[g]) /\ v[j] = C[g][i]
            BY <2>2, <2>6, <1>4, <1>5
        <3>2. \A a \in 1 .. N : C[dest][a] # C[g][i]
            BY <3>1, <2>6, <1>7, <1>8 DEF Apart
        <3>3. \A a \in 1 .. M : C[source][a] # C[g][i]
            BY <3>1, <2>2, <1>7, <1>8 DEF Apart
        <3> QED BY <3>1, <3>2, <3>3, <2>3
    <2>7. CASE g # dest /\ h # dest
        BY <2>2, <2>7, <1>5, <1>7 DEF Apart
    <2> QED BY <2>4, <2>5, <2>6, <2>7
<1>10. /\ IsMemory(mem2, Ls, E) /\ SameOthers(mem, mem2)
       /\ \A z \in E : mem2.next[z] = IF M # 0 /\ N # 0 /\ z = s[M] THEN d[1]
                                      ELSE IF M # 0 /\ N # 0 /\ z = d[N] THEN s[1] ELSE mem.next[z]
       /\ \A z \in E : mem2.prev[z] = IF M # 0 /\ N # 0 /\ z = s[1] THEN d[N]
                                      ELSE IF M # 0 /\ N # 0 /\ z = d[1] THEN s[M] ELSE mem.prev[z]
       /\ \A h \in Ls : mem2.head[h] = IF h = source THEN NULL
                                       ELSE IF h = dest /\ N = 0 THEN src ELSE mem.head[h]
    <2>1. CASE M = 0
        <3>1. mem2 = mem /\ mem.head[source] = NULL
            BY <2>1, <1>1 DEF MoveAllToEnd, src
        <3>2. N = 0 => mem.head[dest] = NULL /\ src = NULL
            BY <2>1, <1>1, <1>2 DEF dst
        <3> QED BY <2>1, <3>1, <3>2, <1>6 DEF SameOthers
    <2>2. CASE M # 0 /\ N = 0
        <3>1. src = s[1] /\ src # NULL /\ dst = NULL /\ src \in E
            BY <2>2, <1>1, <1>2
        <3>2. mem2 = [mem EXCEPT !.head[dest] = src, !.head[source] = NULL]
            BY <3>1 DEF MoveAllToEnd, src, dst
        <3> HIDE DEF mem2
        <3>3. /\ IsMemory(mem2, Ls, E) /\ SameOthers(mem, mem2)
              /\ mem2.head = [[mem.head EXCEPT ![dest] = src] EXCEPT ![source] = NULL]
              /\ mem2.next = mem.next /\ mem2.prev = mem.prev
            BY <1>6, <3>1, <3>2 DEF IsMemory, SameOthers
        <3> QED BY <1>6, <2>2, <3>3 DEF IsMemory
    <2>3. CASE M # 0 /\ N # 0
        <3>1. src = s[1] /\ src # NULL /\ dst # NULL /\ dst = d[1]
            BY <2>3, <1>1, <1>2
        <3>2. mem.prev[src] = s[M] /\ mem.prev[dst] = d[N]
            BY <2>3, <3>1, <1>1, <1>2, <1>6 DEF Before
        <3>3. s[1] \in E /\ s[M] \in E /\ d[1] \in E /\ d[N] \in E
              /\ s[M] # d[N] /\ s[1] # d[1]
            BY <2>3, <1>1, <1>2, <1>3
        <3>4. mem2 = [mem EXCEPT !.next[s[M]] = d[1], !.prev[s[1]] = d[N],
                                 !.prev[d[1]] = s[M], !.next[d[N]] = s[1],
                                 !.head[source] = NULL]
            BY <3>1, <3>2 DEF MoveAllToEnd, src, dst
        <3>5. \E a, b, c, e \in E : a = s[1] /\ b = s[M] /\ c = d[1] /\ e = d[N]
            BY <3>3
        <3>6. PICK a, b, c, e \in E : a = s[1] /\ b = s[M] /\ c = d[1] /\ e = d[N]
            BY <3>5
        <3>7. mem2 = [mem EXCEPT !.next[b] = c, !.prev[a] = e, !.prev[c] = b, !.next[e] = a,
                                 !.head[source] = NULL]
            BY <3>4, <3>6
        <3> HIDE DEF mem2
        <3>8. /\ IsMemory(mem2, Ls, E) /\ SameOthers(mem, mem2)
              /\ mem2.head = [mem.head EXCEPT ![source] = NULL]
              /\ mem2.next = [[mem.next EXCEPT ![b] = c] EXCEPT ![e] = a]
              /\ mem2.prev = [[mem.prev EXCEPT ![a] = e] EXCEPT ![c] = b]
            BY <1>6, <3>7 DEF IsMemory, SameOthers
        <3>9. b # e /\ a # c
            BY <3>3, <3>6
        <3> QED BY <1>6, <2>3, <3>6, <3>8, <3>9 DEF IsMemory
    <2> QED BY <2>1, <2>2, <2>3
<1> HIDE DEF mem2
<1>11. ASSUME NEW h \in Ls, h # dest, h # source
       PROVE  mem2.head[h] = Front(D[h]) /\ Circle(mem2, D[h])
    <2>1. D[h] = C[h] /\ mem2.head[h] = mem.head[h]
        BY <1>5, <1>10, <1>11
    <2>2. ASSUME NEW i \in 1 .. Len(C[h])
          PROVE  mem2.next[C[h][i]] = mem.next[C[h][i]] /\ mem2.prev[C[h][i]] = mem.prev[C[h][i]]
        <3>1. C[h][i] \in E
            BY <1>7, Contents
        <3>2. /\ \A j \in 1 .. N : C[h][i] # d[j]
              /\ \A j \in 1 .. M : C[h][i] # s[j]
            BY <1>7, <1>8, <1>11 DEF Apart
        <3>3. N # 0 => C[h][i] # d[1] /\ C[h][i] # d[N]
            BY <3>2, <1>2
        <3>4. M # 0 => C[h][i] # s[1] /\ C[h][i] # s[M]
            BY <3>2, <1>1
        <3> QED BY <3>1, <3>3, <3>4, <1>10
    <2>3. mem.head[h] = Front(C[h]) /\ Circle(mem, C[h])
        BY <1>7
    <2>4. Circle(mem2, C[h])
        BY <2>2, <2>3 DEF Circle
    <2> QED BY <2>1, <2>3, <2>4
<1>12. mem2.head[source] = Front(D[source]) /\ Circle(mem2, D[source])
    <2>1. Len(<<>>) = 0
        BY EmptySeq
    <2> QED BY <2>1, <1>5, <1>10 DEF Front, Circle
<1>13. mem2.head[dest] = Front(v)
    <2>1. v = <<>> <=> N = 0 /\ M = 0
        BY <1>1, <1>2, <1>4, EmptySeq
    <2>2. N # 0 => v[1] = d[1]
        BY <1>1, <1>2, <1>4
    <2>3. N = 0 /\ M # 0 => v[1] = s[1]
        BY <1>1, <1>2, <1>4
    <2>4. mem2.head[dest] = IF N = 0 THEN src ELSE dst
        BY <1>10 DEF dst
    <2> QED BY <2>1, <2>2, <2>3, <2>4, <1>1, <1>2 DEF Front
<1>14. Circle(mem2, v)
    <2>1. ASSUME NEW i \in 1 .. N + M
          PROVE  mem2.next[v[i]] = v[Behind(i, N + M)] /\ mem2.prev[v[i]] = v[Before(i, N + M)]
        <3>1. CASE M = 0
            <4>1. v[i] = d[i] /\ i \in 1 .. N /\ N + M = N
                BY <3>1, <1>2, <1>4
            <4>2. mem2.next[v[i]] = d[Behind(i, N)] /\ mem2.prev[v[i]] = d[Before(i, N)]
                BY <4>1, <3>1, <1>2, <1>6, <1>10
            <4>3. Behind(i, N) \in 1 .. N /\ Before(i, N) \in 1 .. N
                BY <4>1, <1>2 DEF Behind, Before
            <4>4. v[Behind(i, N)] = d[Behind(i, N)] /\ v[Before(i, N)] = d[Before(i, N)]
                BY <4>3, <3>1, <1>2, <1>4
            <4> QED BY <4>1, <4>2, <4>4
        <3>2. CASE N = 0
            <4>1. v[i] = s[i] /\ i \in 1 .. M /\ N + M = M
                BY <3>2, <1>1, <1>4
            <4>2. mem2.next[v[i]] = s[Behind(i, M)] /\ mem2.prev[v[i]] = s[Before(i, M)]
                BY <4>1, <3>2, <1>1, <1>6, <1>10
            <4>3. Behind(i, M) \in 1 .. M /\ Before(i, M) \in 1 .. M
                BY <4>1, <1>1 DEF Behind, Before
            <4>4. v[Behind(i, M)] = s[Behind(i, M)] /\ v[Before(i, M)] = s[Before(i, M)]
                BY <4>3, <3>2, <1>1, <1>4
            <4> QED BY <4>1, <4>2, <4>4
        <3>3. CASE M # 0 /\ N # 0 /\ i <= N
            <4>1. v[i] = d[i] /\ i \in 1 .. N /\ d[i] \in E
                BY <3>3, <1>2, <1>4
            <4>2. \A j \in 1 .. M : d[i] # s[j]
                BY <4>1, <1>3
            <4>3. d[i] # s[1] /\ d[i] # s[M]
                BY <4>2, <3>3, <1>1
            <4>4. mem2.next[v[i]] = IF i = N THEN s[1] ELSE d[Behind(i, N)]
                BY <4>1, <4>3, <3>3, <1>2, <1>6, <1>10
            <4>5. mem2.prev[v[i]] = IF i = 1 THEN s[M] ELSE d[Before(i, N)]
                BY <4>1, <4>3, <3>3, <1>2, <1>6, <1>10
            <4>6. v[Behind(i, N + M)] = IF i = N THEN s[1] ELSE d[i + 1]
                BY <3>3, <1>1, <1>2, <1>4 DEF Behind
            <4>7. v[Before(i, N + M)] = IF i = 1 THEN s[M] ELSE d[i - 1]
                BY <3>3, <1>1, <1>2, <1>4 DEF Before
            <4> QED BY <4>1, <4>4, <4>5, <4>6, <4>7 DEF Behind, Before
        <3>4. CASE M # 0 /\ N # 0 /\ i > N
            <4> DEFINE j == i - N
            <4>1. v[i] = s[j] /\ j \in 1 .. M /\ s[j] \in E
                BY <3>4, <1>1, <1>2, <1>4
            <4>2. \A h \in 1 .. N : s[j] # d[h]
                BY <4>1, <1>3
            <4>3. s[j] # d[1] /\ s[j] # d[N]
                BY <4>2, <3>4, <1>2
            <4>4. mem2.next[v[i]] = IF j = M THEN d[1] ELSE s[Behind(j, M)]
                BY <4>1, <4>3, <3>4, <1>1, <1>6, <1>10
            <4>5. mem2.prev[v[i]] = IF j = 1 THEN d[N] ELSE s[Before(j, M)]
                BY <4>1, <4>3, <3>4, <1>1, <1>6, <1>10
            <4>6. v[Behind(i, N + M)] = IF j = M THEN d[1] ELSE s[j + 1]
                BY <3>4, <1>1, <1>2, <1>4 DEF Behind
            <4>7. v[Before(i, N + M)] = IF j = 1 THEN d[N] ELSE s[j - 1]
                <5>1. Before(i, N + M) = i - 1 /\ i - 1 \in 1 .. N + M
                    BY <3>4, <1>1, <1>2 DEF Before
                <5>2. v[i - 1] = IF i - 1 <= N THEN d[i - 1] ELSE s[i - 1 - N]
                    BY <5>1, <1>4
                <5>3. CASE j = 1
                    BY <5>1, <5>2, <5>3, <1>1, <1>2
                <5>4. CASE j # 1
                    <6>1. i - 1 > N /\ i - 1 - N = j - 1
                        BY <5>4, <3>4, <1>1, <1>2
                    <6> QED BY <5>1, <5>2, <5>4, <6>1, <1>1, <1>2
                <5> QED BY <5>3, <5>4
            <4> QED BY <4>1, <4>4, <4>5, <4>6, <4>7 DEF Behind, Before
        <3> QED BY <3>1, <3>2, <3>3, <3>4, <1>1, <1>2
    <2> QED BY <2>1, <1>4 DEF Circle
<1>15. \A h \in Ls : mem2.head[h] = Front(D[h]) /\ Circle(mem2, D[h])
    BY <1>5, <1>11, <1>12, <1>13, <1>14
<1>16. Represents(mem2, Ls, E, D)
    BY <1>5, <1>9, <1>10, <1>15 DEF Represents
<1> QED BY <1>10, <1>16 DEF mem2, D, v, s, d

\* doubleListRemoveOneFromFront.
LEMMA RemovedFront ==
    ASSUME NEW mem, NEW Ls, NEW E, NEW C, NULL \notin E, Represents(mem, Ls, E, C),
           NEW l \in Ls, C[l] # <<>>
    PROVE  /\ Represents(RemoveOneFromFront(mem, l), Ls, E,
                         [C EXCEPT ![l] = Without(C[l], 1)])
           /\ SameOthers(mem, RemoveOneFromFront(mem, l))
<1>1. Len(C[l]) \in Nat \ {0} /\ mem.head[l] = C[l][1] /\ C[l][1] \in E
    BY Contents
<1>2. 1 \in 1 .. Len(C[l])
    BY <1>1
<1>3. RemoveOneFromFront(mem, l) = RemoveOne(mem, l, C[l][1])
    BY <1>1 DEF RemoveOneFromFront
<1> QED BY <1>2, <1>3, RemovedOne

LEMMA SameOthersTwice ==
    ASSUME NEW mem, NEW mem2, NEW mem3, SameOthers(mem, mem2), SameOthers(mem2, mem3)
    PROVE  SameOthers(mem, mem3)
BY DEF SameOthers

\* doubleListMoveOneFrontToEnd, from one list to another.
LEMMA MovedOne ==
    ASSUME NEW mem, NEW Ls, NEW E, NEW C, NULL \notin E, Represents(mem, Ls, E, C),
           NEW dest \in Ls, NEW source \in Ls, dest # source, C[source] # <<>>
    PROVE  LET s == C[source]
               d == C[dest]
           IN  /\ Represents(MoveOneFrontToEnd(mem, dest, source), Ls, E,
                             [C EXCEPT ![source] = Without(s, 1),
                                       ![dest] = Inserted(d, Len(d), s[1])])
               /\ SameOthers(mem, MoveOneFrontToEnd(mem, dest, source))
<1> DEFINE s == C[source]
           d == C[dest]
           n == s[1]
           mem2 == RemoveOneFromFront(mem, source)
           D == [C EXCEPT ![source] = Without(s, 1)]
           mem3 == AddOneToEnd(mem2, dest, n)
           F == [D EXCEPT ![dest] = Inserted(D[dest], Len(D[dest]), n)]
<1>1. Len(s) \in Nat \ {0} /\ mem.head[source] = n /\ n \in E
    BY Contents
<1>2. Represents(mem2, Ls, E, D) /\ SameOthers(mem, mem2)
    BY RemovedFront
<1>3. /\ C \in [Ls -> Seq(E)] /\ D[dest] = d
      /\ \A l \in Ls : D[l] = IF l = source THEN Without(s, 1) ELSE C[l]
    BY DEF Represents
<1>4. OnNone(Ls, D, n)
    <2>1. Members(Without(s, 1)) = Members(s) \ {n}
        <3>1. s \in Seq(E) /\ 1 \in 1 .. Len(s) /\ \A i, j \in 1 .. Len(s) : s[i] = s[j] => i = j
            BY <1>1, Contents
        <3> HIDE DEF s
        <3> QED BY <3>1, WithoutOne
    <2>2. \A l \in Ls : l # source => n \notin Members(C[l])
        <3>1. 1 \in 1 .. Len(C[source])
            BY <1>1
        <3> QED BY <3>1 DEF Represents, Apart, Members
    <2> QED BY <1>3, <2>1, <2>2 DEF OnNone
<1> HIDE DEF mem2, D
<1>5. Represents(mem3, Ls, E, F) /\ SameOthers(mem2, mem3)
    BY <1>1, <1>2, <1>4, AddedToEnd
<1>6. F = [C EXCEPT ![source] = Without(s, 1), ![dest] = Inserted(d, Len(d), n)]
    BY <1>3 DEF D
<1>7. mem3 = MoveOneFrontToEnd(mem, dest, source)
    BY <1>1 DEF MoveOneFrontToEnd, mem2
<1> HIDE DEF mem3, F
<1>8. SameOthers(mem, mem3)
    BY <1>2, <1>5, SameOthersTwice
<1> QED BY <1>5, <1>6, <1>7, <1>8

\* A stale pointer of an entry that is on no list can be anything.
LEMMA PointerCleared ==
    ASSUME NEW mem, NEW Ls, NEW E, NEW C, NULL \notin E, Represents(mem, Ls, E, C),
           NEW n \in E, OnNone(Ls, C, n)
    PROVE  Represents([mem EXCEPT !.next[n] = NULL], Ls, E, C)
<1> DEFINE mem2 == [mem EXCEPT !.next[n] = NULL]
<1>1. /\ IsMemory(mem2, Ls, E) /\ mem2.head = mem.head /\ mem2.prev = mem.prev
      /\ mem2.next = [mem.next EXCEPT ![n] = NULL]
    BY DEF Represents, IsMemory
<1> HIDE DEF mem2
<1>2. ASSUME NEW l \in Ls PROVE Circle(mem2, C[l])
    <2>1. Circle(mem, C[l])
        BY DEF Represents
    <2>2. \A k \in 1 .. Len(C[l]) : C[l][k] # n /\ C[l][k] \in E
        BY Contents DEF OnNone, Members
    <2>3. mem.next \in [E -> E \cup {NULL}]
        BY DEF Represents, IsMemory
    <2> QED BY <1>1, <2>1, <2>2, <2>3 DEF Circle
<1>3. Represents(mem2, Ls, E, C)
    BY <1>1, <1>2 DEF Represents
<1> QED BY <1>3 DEF mem2

-----------------------------------------------------------------------------
(* Readers of the pointers. *)

LEMMA LeastNatural ==
    ASSUME NEW I, I \subseteq Nat, I # {}
    PROVE  \E i \in I : \A j \in I : i <= j
<1>1. PICK i \in I : \A j \in I : ~ (<<j, i>> \in OpToRel(<, Nat))
    BY NatLessThanWellFounded, WFMin
<1>2. ASSUME NEW j \in I PROVE i <= j
    <2>1. i \in Nat /\ j \in Nat
        OBVIOUS
    <2>2. j < i => <<j, i>> \in OpToRel(<, Nat)
        BY <2>1, Zenon DEF OpToRel
    <2>3. ~ (j < i)
        BY <1>1, <2>2, Zenon
    <2> QED BY <2>1, <2>3, SMT
<1> QED BY <1>2

\* What holds at 0, and at the next place wherever it holds, holds at every place.
LEMMA UpTo ==
    ASSUME NEW n \in Nat, NEW S, 0 \in S, \A k \in 1 .. n : k - 1 \in S => k \in S
    PROVE  0 .. n \subseteq S
<1> DEFINE I == (0 .. n) \ S
<1> SUFFICES ASSUME I # {} PROVE FALSE
    OBVIOUS
<1>1. I \subseteq Nat
    OBVIOUS
<1> HIDE DEF I
<1>2. PICK i \in I : \A j \in I : i <= j
    BY <1>1, LeastNatural
<1>3. i \in 1 .. n /\ i \notin S
    BY <1>2 DEF I
<1>4. i - 1 \in 0 .. n /\ i - 1 \notin S
    BY <1>3
<1>5. i - 1 \in I
    BY <1>4 DEF I
<1> QED BY <1>2, <1>3, <1>5

\* A function that takes each step from the one before exists.
Stepping(w, n, T, a, f) ==
    /\ w \in [0 .. n -> T]
    /\ w = [k \in 0 .. n |-> IF k = 0 THEN a ELSE f[k][w[k - 1]]]

LEMMA StepByStep ==
    ASSUME NEW n \in Nat, NEW T, NEW a \in T, NEW f, f \in [1 .. n -> [T -> T]]
    PROVE  \E w : Stepping(w, n, T, a, f)
<1> DEFINE Walks(m, w) == /\ w \in [0 .. m -> T] /\ w[0] = a
                          /\ \A k \in 1 .. m : w[k] = f[k][w[k - 1]]
           S == {m \in 0 .. n : \E w : Walks(m, w)}
<1>1. 0 \in S
    <2>1. Walks(0, [k \in 0 .. 0 |-> a])
        OBVIOUS
    <2>2. \E w : Walks(0, w)
        BY <2>1
    <2> QED BY <2>2
<1>2. ASSUME NEW m \in 1 .. n, m - 1 \in S PROVE m \in S
    <2>1. PICK w : Walks(m - 1, w)
        BY <1>2
    <2> DEFINE v == [k \in 0 .. m |-> IF k = m THEN f[m][w[m - 1]] ELSE w[k]]
    <2>2. w[m - 1] \in T /\ f[m] \in [T -> T]
        BY <2>1
    <2>3. v \in [0 .. m -> T] /\ v[0] = a
        BY <2>1, <2>2
    <2>4. \A k \in 1 .. m : v[k] = f[k][v[k - 1]]
        BY <2>1
    <2>5. Walks(m, v)
        BY <2>3, <2>4
    <2> HIDE DEF v, Walks
    <2> QED BY <2>5
<1> HIDE DEF S
<1>3. 0 .. n \subseteq S
    BY <1>1, <1>2, UpTo
<1>4. n \in S
    BY <1>3
<1>5. PICK w : Walks(n, w)
    BY <1>4 DEF S
<1>6. w = [k \in 0 .. n |-> w[k]]
    BY <1>5
<1>7. \A k \in 0 .. n : w[k] = IF k = 0 THEN a ELSE f[k][w[k - 1]]
    BY <1>5
<1>8. w = [k \in 0 .. n |-> IF k = 0 THEN a ELSE f[k][w[k - 1]]]
    BY <1>6, <1>7
<1>9. Stepping(w, n, T, a, f)
    BY <1>5, <1>8 DEF Stepping
<1> QED BY <1>9

\* No list is longer than there are entries.
LEMMA ListFits ==
    ASSUME NEW mem, NEW Ls, NEW E, NEW C, Represents(mem, Ls, E, C), NEW l \in Ls,
           IsFiniteSet(E)
    PROVE  Cardinality(E) \in Nat /\ Len(C[l]) <= Cardinality(E) /\ DOMAIN mem.next = E
<1> DEFINE s == C[l]
           N == Len(s)
<1>1. /\ s \in Seq(E) /\ N \in Nat
      /\ \A i, j \in 1 .. N : s[i] = s[j] => i = j
    BY Contents
<1>2. s \in [1 .. N -> E]
    <2> HIDE DEF s
    <2> QED BY <1>1, LenProperties
<1> HIDE DEF s, N
<1>3. s \in Injection(1 .. N, E)
    BY <1>1, <1>2 DEF Injection, IsInjective
<1>4. Cardinality(1 .. N) <= Cardinality(E)
    BY <1>3, FS_Injection
<1>5. Cardinality(1 .. N) = IF 1 > N THEN 0 ELSE N - 1 + 1
    BY <1>1, FS_Interval
<1>6. Cardinality(E) \in Nat
    BY FS_CardinalityType
<1>7. DOMAIN mem.next = E
    BY DEF Represents, IsMemory
<1> QED BY <1>1, <1>4, <1>5, <1>6, <1>7 DEF N, s

\* The iteration meets the entries of the list in order, and then begins again.
LEMMA Walked ==
    ASSUME NEW mem, NEW Ls, NEW E, NEW C, NULL \notin E, Represents(mem, Ls, E, C),
           NEW l \in Ls, IsFiniteSet(E)
    PROVE  LET w == Walk(mem, l)
           IN  /\ DOMAIN w = 0 .. Cardinality(E)
               /\ C[l] # <<>> => \A k \in 0 .. Cardinality(E) : w[k] \in Members(C[l])
               /\ \A k \in 0 .. Cardinality(E) : k < Len(C[l]) => w[k] = C[l][k + 1]
<1> DEFINE s == C[l]
           N == Len(s)
           n == Cardinality(E)
           T == E \cup {NULL}
           first == mem.head[l]
           step(x) == IF x = NULL THEN NULL ELSE mem.next[x]
           w == Walk(mem, l)
           f == [k \in 1 .. n |-> [x \in T |-> step(x)]]
<1>1. n \in Nat /\ DOMAIN mem.next = E
    BY ListFits
<1>2. /\ N \in Nat /\ \A k \in 1 .. N : s[k] \in E
      /\ s = <<>> <=> N = 0
      /\ first = IF N = 0 THEN NULL ELSE s[1]
    BY Contents
<1>3. /\ mem.next \in [E -> T] /\ first \in T
      /\ \A k \in 1 .. N : mem.next[s[k]] = s[Behind(k, N)]
    BY DEF Represents, IsMemory, Circle
<1>4. f \in [1 .. n -> [T -> T]]
    BY <1>3
<1>5. w = CHOOSE v : v = [k \in 0 .. n |-> IF k = 0 THEN first ELSE step(v[k - 1])]
    BY <1>1 DEF Walk
<1>6. PICK u \in [0 .. n -> T] : u = [k \in 0 .. n |-> IF k = 0 THEN first ELSE f[k][u[k - 1]]]
    <2> HIDE DEF f, T, n, first
    <2>1. n \in Nat /\ first \in T /\ f \in [1 .. n -> [T -> T]]
        BY <1>1, <1>3, <1>4
    <2>2. \E u : Stepping(u, n, T, first, f)
        BY <2>1, StepByStep
    <2> QED BY <2>2 DEF Stepping
<1>7. u = [k \in 0 .. n |-> IF k = 0 THEN first ELSE step(u[k - 1])]
    <2>1. \A k \in 1 .. n : u[k - 1] \in T
        BY <1>1
    <2>2. \A k \in 1 .. n : f[k][u[k - 1]] = step(u[k - 1])
        BY <2>1
    <2> HIDE DEF f, step
    <2>3. \A k \in 0 .. n : u[k] = IF k = 0 THEN first ELSE step(u[k - 1])
        BY <1>1, <1>6, <2>2
    <2>4. u = [k \in 0 .. n |-> u[k]]
        BY <1>6
    <2> QED BY <2>3, <2>4
<1>8. w = [k \in 0 .. n |-> IF k = 0 THEN first ELSE step(w[k - 1])]
    <2> HIDE DEF w
    <2> QED BY <1>5, <1>7
<1> HIDE DEF w, f
<1>9. DOMAIN w = 0 .. n
    BY <1>8
<1>10. /\ 0 \in 0 .. n /\ w[0] = first
       /\ \A k \in 1 .. n : w[k] = step(w[k - 1])
    BY <1>1, <1>8
<1>11. ASSUME s # <<>>, NEW k \in 0 .. n PROVE w[k] \in Members(s)
    <2> DEFINE S == {m \in 0 .. n : w[m] \in Members(s)}
    <2>1. 0 \in S
        BY <1>1, <1>2, <1>10, <1>11 DEF Members
    <2>2. ASSUME NEW m \in 1 .. n, m - 1 \in S PROVE m \in S
        <3>1. PICK j \in 1 .. N : w[m - 1] = s[j]
            BY <2>2 DEF Members
        <3>2. s[j] # NULL
            BY <1>2
        <3>3. w[m] = s[Behind(j, N)]
            BY <1>3, <1>10, <3>1, <3>2
        <3>4. Behind(j, N) \in 1 .. N
            BY <1>2 DEF Behind
        <3> QED BY <3>3, <3>4 DEF Members
    <2> HIDE DEF S
    <2>3. 0 .. n \subseteq S
        <3> HIDE DEF n
        <3> QED BY <1>1, <2>1, <2>2, UpTo
    <2>4. k \in S
        BY <2>3
    <2> QED BY <2>4 DEF S
<1>12. ASSUME NEW k \in 0 .. n, k < N PROVE w[k] = s[k + 1]
    <2> DEFINE S == {m \in 0 .. n : m < N => w[m] = s[m + 1]}
    <2>1. 0 \in S
        BY <1>1, <1>2, <1>10
    <2>2. ASSUME NEW m \in 1 .. n, m - 1 \in S PROVE m \in S
        <3> SUFFICES ASSUME m < N PROVE w[m] = s[m + 1]
            OBVIOUS
        <3>1. w[m - 1] = s[m] /\ m \in 1 .. N
            BY <1>2, <2>2
        <3>2. s[m] # NULL /\ mem.next[s[m]] = s[Behind(m, N)]
            BY <1>2, <1>3, <3>1
        <3>3. Behind(m, N) = m + 1
            BY DEF Behind
        <3> QED BY <1>10, <3>1, <3>2, <3>3
    <2> HIDE DEF S
    <2>3. 0 .. n \subseteq S
        <3> HIDE DEF n
        <3> QED BY <1>1, <2>1, <2>2, UpTo
    <2>4. k \in S
        BY <2>3
    <2> QED BY <2>4, <1>12 DEF S
<1> HIDE DEF s, n, N
<1>13. /\ DOMAIN w = 0 .. n
       /\ s # <<>> => \A k \in 0 .. n : w[k] \in Members(s)
       /\ \A k \in 0 .. n : k < N => w[k] = s[k + 1]
    BY <1>9, <1>11, <1>12
<1> QED BY <1>13 DEF s, N, n, w

\* What a reader sees of a list is the sequence it stands for.
LEMMA ContentsRead ==
    ASSUME NEW mem, NEW Ls, NEW E, NEW C, NULL \notin E, Represents(mem, Ls, E, C),
           NEW l \in Ls, IsFiniteSet(E)
    PROVE  /\ EntriesOf(mem, l) = Members(C[l])
           /\ Cardinality(EntriesOf(mem, l)) = Len(C[l])
           /\ AsSequence(mem, l) = C[l]
           /\ WellFormed(mem, l)
<1> DEFINE s == C[l]
           N == Len(s)
           n == Cardinality(E)
           w == Walk(mem, l)
<1>1. n \in Nat /\ N <= n
    BY ListFits
<1>2. /\ s \in Seq(E) /\ N \in Nat /\ \A k \in 1 .. N : s[k] \in E
      /\ \A i, j \in 1 .. N : s[i] = s[j] => i = j
      /\ s = <<>> <=> N = 0
      /\ mem.head[l] = IF N = 0 THEN NULL ELSE s[1]
    BY Contents
<1>3. /\ DOMAIN w = 0 .. n
      /\ s # <<>> => \A k \in 0 .. n : w[k] \in Members(s)
      /\ \A k \in 0 .. n : k < N => w[k] = s[k + 1]
    BY Walked
<1>4. \A k \in 1 .. N : /\ mem.next[s[k]] = s[Behind(k, N)]
                        /\ mem.prev[s[k]] = s[Before(k, N)]
    BY DEF Represents, Circle
<1> HIDE DEF s, N, n, w
<1>5. N = Len(s)
    BY DEF N
<1>6. EntriesOf(mem, l) = Members(s)
    <2>1. CASE N = 0
        <3>1. EntriesOf(mem, l) = {}
            BY <2>1, <1>2 DEF EntriesOf
        <3>2. Members(s) = {}
            BY <2>1, <1>5 DEF Members
        <3> QED BY <3>1, <3>2
    <2>2. CASE N # 0
        <3>1. mem.head[l] # NULL
            BY <2>2, <1>2
        <3>2. EntriesOf(mem, l) = {w[k] : k \in 0 .. n} \ {NULL}
            BY <3>1, <1>3 DEF EntriesOf, w
        <3>3. ASSUME NEW x \in Members(s) PROVE x \in {w[k] : k \in 0 .. n} \ {NULL}
            <4>1. PICK k \in 1 .. N : x = s[k]
                BY <1>5, <3>3 DEF Members
            <4>2. k - 1 \in 0 .. n /\ w[k - 1] = s[k - 1 + 1]
                BY <1>1, <1>2, <1>3
            <4>3. x # NULL /\ x = w[k - 1]
                BY <4>1, <4>2, <1>2
            <4> QED BY <4>2, <4>3
        <3>4. \A k \in 0 .. n : w[k] \in Members(s)
            BY <2>2, <1>2, <1>3
        <3> QED BY <3>2, <3>3, <3>4
    <2> QED BY <2>1, <2>2
<1>7. Cardinality(EntriesOf(mem, l)) = N
    <2>1. s \in [1 .. N -> E]
        BY <1>2, <1>5, LenProperties
    <2> DEFINE M == Members(s)
    <2>2. s \in Bijection(1 .. N, M)
        <3>1. s \in Injection(1 .. N, M)
            BY <1>2, <1>5, <2>1 DEF Injection, IsInjective, Members
        <3>2. s \in Surjection(1 .. N, M)
            BY <1>2, <1>5, <2>1 DEF Surjection, Members
        <3> QED BY <3>1, <3>2 DEF Bijection
    <2>3. IsFiniteSet(1 .. N) /\ Cardinality(1 .. N) = IF 1 > N THEN 0 ELSE N - 1 + 1
        BY <1>2, FS_Interval
    <2> HIDE DEF M
    <2>4. Cardinality(M) = Cardinality(1 .. N)
        <3>1. ExistsBijection(1 .. N, M)
            BY <2>2 DEF ExistsBijection
        <3> QED BY <2>3, <3>1, FS_Bijection
    <2> QED BY <1>2, <1>6, <2>3, <2>4 DEF M
<1>8. AsSequence(mem, l) = s
    <2>1. AsSequence(mem, l) = [k \in 1 .. N |-> w[k - 1]]
        BY <1>7 DEF AsSequence, w
    <2>2. \A k \in 1 .. N : w[k - 1] = s[k]
        <3> SUFFICES ASSUME NEW k \in 1 .. N PROVE w[k - 1] = s[k]
            OBVIOUS
        <3>1. k - 1 \in 0 .. n /\ k - 1 < N /\ k - 1 + 1 = k
            BY <1>1, <1>2
        <3> QED BY <3>1, <1>3
    <2>3. s = [k \in 1 .. N |-> s[k]]
        BY <1>2, <1>5, LenProperties
    <2>4. [k \in 1 .. N |-> w[k - 1]] = [k \in 1 .. N |-> s[k]]
        BY <2>2
    <2> QED BY <2>1, <2>3, <2>4
<1>9. WellFormed(mem, l)
    <2> SUFFICES ASSUME NEW x \in Members(s)
                 PROVE  /\ mem.next[x] \in Members(s) /\ mem.prev[x] \in Members(s)
                        /\ mem.prev[mem.next[x]] = x
                        /\ mem.next[mem.prev[x]] = x
        BY <1>6 DEF WellFormed
    <2>1. PICK k \in 1 .. N : x = s[k]
        BY <1>5 DEF Members
    <2>2. Behind(k, N) \in 1 .. N /\ Before(k, N) \in 1 .. N
          /\ Before(Behind(k, N), N) = k /\ Behind(Before(k, N), N) = k
        BY <1>2 DEF Behind, Before
    <2>3. mem.next[x] = s[Behind(k, N)] /\ mem.prev[x] = s[Before(k, N)]
        BY <2>1, <1>4
    <2>4. mem.prev[mem.next[x]] = s[k] /\ mem.next[mem.prev[x]] = s[k]
        BY <2>2, <2>3, <1>4
    <2> QED BY <2>1, <2>2, <2>3, <2>4, <1>5 DEF Members
<1> QED BY <1>6, <1>7, <1>8, <1>9 DEF s, N

\* An entry is put between x and y: four pointers are written.
PutBetween(mem, n, x, y) ==
    [mem EXCEPT !.next[n] = y, !.prev[n] = x, !.prev[y] = n, !.next[x] = n]

LEMMA WrittenBetween ==
    ASSUME NEW mem, NEW Ls, NEW E, IsMemory(mem, Ls, E), NULL \notin E,
           NEW n \in E, NEW x \in E, NEW y \in E, x # n, y # n
    PROVE  /\ IsMemory(PutBetween(mem, n, x, y), Ls, E)
           /\ SameOthers(mem, PutBetween(mem, n, x, y))
           /\ PutBetween(mem, n, x, y).head = mem.head
           /\ \A z \in E : PutBetween(mem, n, x, y).next[z] =
                               IF z = n THEN y ELSE IF z = x THEN n ELSE mem.next[z]
           /\ \A z \in E : PutBetween(mem, n, x, y).prev[z] =
                               IF z = n THEN x ELSE IF z = y THEN n ELSE mem.prev[z]
<1> DEFINE mem2 == PutBetween(mem, n, x, y)
<1>1. /\ IsMemory(mem2, Ls, E) /\ SameOthers(mem, mem2)
      /\ mem2.head = mem.head
      /\ mem2.next = [[mem.next EXCEPT ![n] = y] EXCEPT ![x] = n]
      /\ mem2.prev = [[mem.prev EXCEPT ![n] = x] EXCEPT ![y] = n]
    BY DEF PutBetween, IsMemory, SameOthers
<1> HIDE DEF mem2
<1>2. /\ \A z \in E : mem2.next[z] = IF z = n THEN y ELSE IF z = x THEN n ELSE mem.next[z]
      /\ \A z \in E : mem2.prev[z] = IF z = n THEN x ELSE IF z = y THEN n ELSE mem.prev[z]
    BY <1>1 DEF IsMemory
<1> QED BY <1>1, <1>2 DEF mem2

\* Where the walk of doubleListAddOneSorted stops.
SortedSlot(mem, l, later) ==
    LET first == mem.head[l]
        advance(x) == IF mem.next[x] = first \/ mem.next[x] \in later
                      THEN x ELSE mem.next[x]
        walk[k \in 0 .. Cardinality(DOMAIN mem.next)] ==
            IF k = 0 THEN first ELSE advance(walk[k - 1])
    IN  walk[Cardinality(DOMAIN mem.next)]

\* The walk stops at the last entry that is not among the later ones.
LEMMA SlotFound ==
    ASSUME NEW mem, NEW Ls, NEW E, NEW C, NULL \notin E, Represents(mem, Ls, E, C),
           NEW l \in Ls, IsFiniteSet(E), NEW later, NEW at \in 1 .. Len(C[l]),
           \A i \in 1 .. Len(C[l]) : C[l][i] \in later <=> i > at
    PROVE  SortedSlot(mem, l, later) = C[l][at]
<1> DEFINE s == C[l]
           N == Len(s)
           n == Cardinality(E)
           first == mem.head[l]
           advance(x) == IF mem.next[x] = first \/ mem.next[x] \in later
                         THEN x ELSE mem.next[x]
           T == Members(s)
           w == CHOOSE v : v = [k \in 0 .. n |-> IF k = 0 THEN first ELSE advance(v[k - 1])]
           f == [k \in 1 .. n |-> [x \in T |-> advance(x)]]
           stop(k) == IF k < at THEN k ELSE at
<1>1. n \in Nat /\ N <= n /\ DOMAIN mem.next = E
    BY ListFits
<1>2. /\ N \in Nat /\ \A k \in 1 .. N : s[k] \in E
      /\ \A i, j \in 1 .. N : s[i] = s[j] => i = j
      /\ N # 0 /\ first = s[1] /\ at \in 1 .. N
    BY Contents
<1>3. \A k \in 1 .. N : mem.next[s[k]] = s[Behind(k, N)]
    BY DEF Represents, Circle
<1>4. \A i \in 1 .. N : s[i] \in later <=> i > at
    OBVIOUS
<1>5. SortedSlot(mem, l, later) = w[n]
    BY <1>1 DEF SortedSlot
<1> HIDE DEF s, N, n, first
<1>6. N = Len(s) /\ first \in T
    BY <1>2 DEF N, Members
<1>7. \A k \in 1 .. N : advance(s[k]) = IF k < at THEN s[k + 1]
                                        ELSE IF k = at THEN s[k] ELSE advance(s[k])
    <2> SUFFICES ASSUME NEW k \in 1 .. N, k <= at
                 PROVE  advance(s[k]) = IF k < at THEN s[k + 1] ELSE s[k]
        BY <1>2
    <2>1. CASE k < at
        <3>1. k + 1 \in 1 .. N /\ mem.next[s[k]] = s[k + 1] /\ k + 1 # 1
            BY <1>2, <1>3, <2>1 DEF Behind
        <3>2. s[k + 1] # first /\ s[k + 1] \notin later
            BY <1>2, <1>4, <2>1, <3>1
        <3> QED BY <2>1, <3>1, <3>2
    <2>2. CASE k = at /\ k = N
        BY <1>2, <1>3, <2>2 DEF Behind
    <2>3. CASE k = at /\ k # N
        <3>1. k + 1 \in 1 .. N /\ mem.next[s[k]] = s[k + 1]
            BY <1>2, <1>3, <2>3 DEF Behind
        <3>2. s[k + 1] \in later
            BY <1>2, <1>4, <2>3, <3>1
        <3> QED BY <2>3, <3>1, <3>2
    <2> QED BY <1>2, <2>1, <2>2, <2>3
<1>8. \A k \in 1 .. N : advance(s[k]) \in T
    <2> SUFFICES ASSUME NEW k \in 1 .. N PROVE advance(s[k]) \in T
        OBVIOUS
    <2>1. Behind(k, N) \in 1 .. N
        BY <1>2 DEF Behind
    <2> QED BY <1>3, <1>6, <2>1 DEF Members
<1>9. f \in [1 .. n -> [T -> T]]
    <2>1. \A x \in T : advance(x) \in T
        BY <1>6, <1>8 DEF Members
    <2> HIDE DEF advance, T
    <2> QED BY <2>1
<1>10. PICK u \in [0 .. n -> T] : u = [k \in 0 .. n |-> IF k = 0 THEN first ELSE f[k][u[k - 1]]]
    <2> HIDE DEF f, T
    <2>1. n \in Nat /\ first \in T /\ f \in [1 .. n -> [T -> T]]
        BY <1>1, <1>6, <1>9
    <2>2. \E u : Stepping(u, n, T, first, f)
        BY <2>1, StepByStep
    <2> QED BY <2>2 DEF Stepping
<1>11. u = [k \in 0 .. n |-> IF k = 0 THEN first ELSE advance(u[k - 1])]
    <2>1. \A k \in 1 .. n : u[k - 1] \in T
        <3> HIDE DEF T, f
        <3> QED BY <1>1
    <2>2. \A k \in 1 .. n : f[k][u[k - 1]] = advance(u[k - 1])
        <3> HIDE DEF T, advance
        <3> QED BY <2>1
    <2> HIDE DEF f, advance, T
    <2>3. \A k \in 0 .. n : u[k] = IF k = 0 THEN first ELSE advance(u[k - 1])
        BY <1>1, <1>10, <2>2
    <2>4. u = [k \in 0 .. n |-> u[k]]
        BY <1>10
    <2> QED BY <2>3, <2>4
<1>12. w = [k \in 0 .. n |-> IF k = 0 THEN first ELSE advance(w[k - 1])]
    <2> HIDE DEF advance
    <2> QED BY <1>11
<1> HIDE DEF w, f, advance, T
<1>13. w[0] = first /\ \A k \in 1 .. n : w[k] = advance(w[k - 1])
    BY <1>1, <1>12
<1> DEFINE S == {k \in 0 .. n : w[k] = s[stop(k + 1)]}
<1>14. 0 \in S
    <2>1. stop(1) = 1
        BY <1>2
    <2> HIDE DEF stop
    <2> QED BY <1>1, <1>2, <1>13, <2>1
<1>15. ASSUME NEW k \in 1 .. n, k - 1 \in S PROVE k \in S
    <2>1. w[k - 1] = s[stop(k)] /\ k \in Int
        BY <1>1, <1>15
    <2>2. w[k] = advance(s[stop(k)])
        BY <1>13, <2>1
    <2>3. stop(k) \in 1 .. N /\ stop(k) <= at
        BY <1>2, <2>1
    <2>4. stop(k + 1) = IF stop(k) < at THEN stop(k) + 1 ELSE stop(k)
        BY <1>2, <2>1
    <2> HIDE DEF stop
    <2>5. advance(s[stop(k)]) = s[stop(k + 1)]
        BY <1>2, <1>7, <2>3, <2>4
    <2> QED BY <2>2, <2>5
<1> HIDE DEF S
<1>16. 0 .. n \subseteq S
    BY <1>1, <1>14, <1>15, UpTo
<1>17. w[n] = s[stop(n + 1)]
    BY <1>1, <1>16 DEF S
<1>18. stop(n + 1) = at
    BY <1>1, <1>2
<1> HIDE DEF stop
<1> QED BY <1>5, <1>17, <1>18 DEF s

\* doubleListAddOneSorted, when the later entries are those behind the first at.
LEMMA AddedSorted ==
    ASSUME NEW mem, NEW Ls, NEW E, NEW C, NULL \notin E, Represents(mem, Ls, E, C),
           NEW l \in Ls, IsFiniteSet(E), NEW n \in E, OnNone(Ls, C, n),
           NEW later, NEW at \in 0 .. Len(C[l]),
           \A i \in 1 .. Len(C[l]) : C[l][i] \in later <=> i > at
    PROVE  /\ Represents(AddOneSorted(mem, l, n, later), Ls, E,
                         [C EXCEPT ![l] = Inserted(C[l], at, n)])
           /\ SameOthers(mem, AddOneSorted(mem, l, n, later))
<1> DEFINE s == C[l]
           N == Len(s)
           first == mem.head[l]
           mem2 == AddOneSorted(mem, l, n, later)
           x == Earlier(s, at, n)
           y == Later(s, at, n)
<1>1. /\ N \in Nat
      /\ \A k \in 1 .. N : s[k] \in E
      /\ first = IF N = 0 THEN NULL ELSE s[1]
    BY Contents
<1>2. IsMemory(mem, Ls, E) /\ Circle(mem, s)
    BY DEF Represents
<1>3. \A k \in 1 .. N : s[k] # n
    BY DEF OnNone, Members
<1>4. at \in 0 .. N /\ \A i \in 1 .. N : s[i] \in later <=> i > at
    OBVIOUS
<1>5. /\ N = 0 => x = n /\ y = n
      /\ N # 0 /\ at = 0 => x = s[N] /\ y = s[1]
      /\ at # 0 => x = s[at] /\ y = s[Behind(at, N)]
    BY <1>1, <1>4 DEF Before, Behind, Earlier, Later
<1>6. at # 0 => SortedSlot(mem, l, later) = s[at]
    <2> SUFFICES ASSUME at # 0 PROVE SortedSlot(mem, l, later) = C[l][at]
        OBVIOUS
    <2>1. at \in 1 .. Len(C[l])
        BY <1>1, <1>4
    <2> QED BY <2>1, SlotFound
<1>7. mem2 = IF first = NULL
             THEN [mem EXCEPT !.head[l] = n, !.next[n] = n, !.prev[n] = n]
             ELSE IF first \in later
             THEN [[mem EXCEPT !.next[n] = first, !.prev[n] = mem.prev[first],
                               !.prev[first] = n, !.next[mem.prev[first]] = n]
                       EXCEPT !.head[l] = n]
             ELSE [mem EXCEPT !.next[n] = mem.next[SortedSlot(mem, l, later)],
                              !.prev[n] = SortedSlot(mem, l, later),
                              !.prev[mem.next[SortedSlot(mem, l, later)]] = n,
                              !.next[SortedSlot(mem, l, later)] = n]
    BY DEF AddOneSorted, SortedSlot
<1> HIDE DEF x, y, s, N, mem2
<1>8. /\ IsMemory(mem2, Ls, E) /\ SameOthers(mem, mem2)
      /\ \A z \in E : mem2.next[z] = IF z = n THEN y ELSE IF z = x THEN n ELSE mem.next[z]
      /\ \A z \in E : mem2.prev[z] = IF z = n THEN x ELSE IF z = y THEN n ELSE mem.prev[z]
      /\ \A k \in Ls : mem2.head[k] = IF k = l /\ at = 0 THEN n ELSE mem.head[k]
    <2>1. CASE N = 0
        <3>1. first = NULL /\ x = n /\ y = n /\ at = 0
            BY <2>1, <1>1, <1>4, <1>5
        <3>2. mem2 = [mem EXCEPT !.head[l] = n, !.next[n] = n, !.prev[n] = n]
            BY <3>1, <1>7
        <3> HIDE DEF first
        <3>3. /\ IsMemory(mem2, Ls, E) /\ SameOthers(mem, mem2)
              /\ mem2.head = [mem.head EXCEPT ![l] = n]
              /\ mem2.next = [mem.next EXCEPT ![n] = n]
              /\ mem2.prev = [mem.prev EXCEPT ![n] = n]
            BY <1>2, <3>2 DEF IsMemory, SameOthers
        <3> QED BY <1>2, <2>1, <3>1, <3>3 DEF IsMemory
    <2>2. CASE N # 0 /\ at = 0
        <3>1. /\ 1 \in 1 .. N /\ N \in 1 .. N /\ first = s[1] /\ y = s[1] /\ x = s[N]
              /\ s[1] \in E /\ s[N] \in E /\ s[1] \in later
            BY <2>2, <1>1, <1>4, <1>5
        <3>2. mem.prev[first] = s[N]
            BY <1>2, <2>2, <3>1 DEF Circle, Before, N
        <3>3. first = y /\ mem.prev[first] = x /\ x \in E /\ y \in E /\ x # n /\ y # n
              /\ first # NULL
            BY <1>3, <3>1, <3>2
        <3> DEFINE mem1 == PutBetween(mem, n, x, y)
        <3>4. mem2 = [mem1 EXCEPT !.head[l] = n]
            BY <1>7, <3>1, <3>3 DEF PutBetween
        <3> HIDE DEF first
        <3>5. IsMemory(mem, Ls, E) /\ x \in E /\ y \in E /\ x # n /\ y # n
            BY <1>2, <3>3
        <3>6. /\ IsMemory(mem1, Ls, E) /\ SameOthers(mem, mem1)
              /\ mem1.head = mem.head
              /\ \A z \in E : mem1.next[z] = IF z = n THEN y ELSE IF z = x THEN n ELSE mem.next[z]
              /\ \A z \in E : mem1.prev[z] = IF z = n THEN x ELSE IF z = y THEN n ELSE mem.prev[z]
            BY <3>5, WrittenBetween
        <3> HIDE DEF mem1
        <3>7. /\ IsMemory(mem2, Ls, E) /\ SameOthers(mem, mem2)
              /\ mem2.head = [mem1.head EXCEPT ![l] = n]
              /\ mem2.next = mem1.next /\ mem2.prev = mem1.prev
            BY <3>4, <3>6 DEF IsMemory, SameOthers
        <3> QED BY <1>2, <2>2, <3>6, <3>7 DEF IsMemory
    <2>3. CASE at # 0
        <3>1. /\ at \in 1 .. N /\ N # 0 /\ 1 \in 1 .. N /\ Behind(at, N) \in 1 .. N
              /\ first = s[1] /\ y = s[Behind(at, N)] /\ x = s[at]
              /\ s[1] \notin later
            BY <2>3, <1>1, <1>4, <1>5 DEF Behind
        <3>2. mem.next[x] = y
            BY <1>2, <3>1 DEF Circle, N
        <3>3. x \in E /\ y \in E /\ x # n /\ y # n /\ first \in E
            BY <1>1, <1>3, <3>1
        <3> DEFINE mem1 == PutBetween(mem, n, x, y)
        <3>4. mem2 = mem1
            BY <1>6, <1>7, <2>3, <3>1, <3>2, <3>3 DEF PutBetween
        <3>5. IsMemory(mem, Ls, E) /\ x \in E /\ y \in E /\ x # n /\ y # n
            BY <1>2, <3>3
        <3>6. /\ IsMemory(mem1, Ls, E) /\ SameOthers(mem, mem1)
              /\ mem1.head = mem.head
              /\ \A z \in E : mem1.next[z] = IF z = n THEN y ELSE IF z = x THEN n ELSE mem.next[z]
              /\ \A z \in E : mem1.prev[z] = IF z = n THEN x ELSE IF z = y THEN n ELSE mem.prev[z]
            BY <3>5, WrittenBetween
        <3> HIDE DEF mem1
        <3>7. at # 0
            BY <2>3
        <3> QED BY <3>4, <3>6, <3>7
    <2> QED BY <2>1, <2>2, <2>3
<1>9. PutIn(mem, mem2, Ls, E, l, C[l], at, n) /\ at \in 0 .. Len(C[l])
    BY <1>8 DEF PutIn, x, y, s
<1>10. Represents(mem2, Ls, E, [C EXCEPT ![l] = Inserted(C[l], at, n)])
    BY <1>9, Spliced
<1> QED BY <1>8, <1>10 DEF mem2

=============================================================================
