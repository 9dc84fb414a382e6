-------------------------- MODULE HeapSafety_proofs --------------------------
(***************************************************************************)
(* For a heap of any size and any requests, while nothing interrupts a     *)
(* call: the headers tile the heap, what a block knows of its neighbours   *)
(* is so, the free list is exact, garbage and nothing else is released,    *)
(* and the heap implements Allocator.                                      *)
(***************************************************************************)
EXTENDS HeapSafety, FiniteSetTheorems, WellFoundedInduction, TLAPS

AllKinds == {"none", "free", "nonCollectible", "white", "black"}

Header == [size : 0 .. HeapSize, kind : AllKinds, back : Pointer, forward : Pointer,
           pPreviousFree : Pointer]

Memory == [Address -> Header]

BlocksOf(B) == {a \in Address : B[a].kind # "none"}

-----------------------------------------------------------------------------
(* Lists.  A list is its entries s[1] to s[n].                             *)

Place(s, n, k) == IF k \in 1 .. n THEN s[k] ELSE NULL

On(s, n) == {s[k] : k \in 1 .. n}

\* From first on the pointers of the entries lead along s and back.
Linked(B, s, n, first) ==
    /\ n \in Nat /\ s \in [1 .. n -> Address]
    /\ \A i, j \in 1 .. n : s[i] = s[j] => i = j
    /\ first = Place(s, n, 1)
    /\ \A k \in 1 .. n : /\ B[s[k]].pPreviousFree = Place(s, n, k - 1)
                         /\ B[s[k]].forward = Place(s, n, k + 1)

Without(s, n, k) == [i \in 1 .. n - 1 |-> IF i < k THEN s[i] ELSE s[i + 1]]

Before(a, s, n) == [i \in 1 .. n + 1 |-> IF i = 1 THEN a ELSE s[i - 1]]

InPlaceOf(s, n, k, a) == [i \in 1 .. n |-> IF i = k THEN a ELSE s[i]]

Together(r, m, s, n) == [i \in 1 .. m + n |-> IF i <= m THEN r[i] ELSE s[i - m]]

\* No block and no pointer to none are the same.
LEMMA NullIsNoAddress ==
    ASSUME HeapAssumption
    PROVE  /\ NULL \notin Address /\ Other \notin Address /\ NULL # Other
           /\ HeapSize \in Nat /\ MinimumBlock \in Nat \ {0} /\ MinimumBlock <= HeapSize
           /\ NULL # HeapSize /\ Address \subseteq Nat
BY DEF HeapAssumption, Address

\* What stands at the two ends of a list.
LEMMA Ends ==
    ASSUME HeapAssumption, NEW B, NEW s, NEW n, NEW first, Linked(B, s, n, first)
    PROVE  /\ first \in Address \cup {NULL}
           /\ first = NULL <=> n = 0
           /\ \A k \in Int : Place(s, n, k) \in Address \cup {NULL}
           /\ \A k \in 1 .. n : s[k] \in Address /\ Place(s, n, k) = s[k]
           /\ \A k \in 1 .. n : /\ Place(s, n, k - 1) = NULL <=> k = 1
                                /\ Place(s, n, k + 1) = NULL <=> k = n
           /\ On(s, n) \subseteq Address
BY NullIsNoAddress DEF Linked, Place, On

\* A list is what its entries say of each other, whatever else changes.
LEMMA LinkedSame ==
    ASSUME NEW B, NEW B2, NEW s, NEW n, NEW first, Linked(B, s, n, first),
           \A a \in On(s, n) : /\ B2[a].pPreviousFree = B[a].pPreviousFree
                               /\ B2[a].forward = B[a].forward
    PROVE  Linked(B2, s, n, first)
BY DEF Linked, On

\* The entries that are left when one is taken out, ...
LEMMA WithoutOne ==
    ASSUME NEW n \in Nat, NEW s \in [1 .. n -> Address], NEW k \in 1 .. n,
           \A i, j \in 1 .. n : s[i] = s[j] => i = j
    PROVE  /\ Without(s, n, k) \in [1 .. n - 1 -> Address]
           /\ On(Without(s, n, k), n - 1) = On(s, n) \ {s[k]}
           /\ \A i, j \in 1 .. n - 1 : Without(s, n, k)[i] = Without(s, n, k)[j] => i = j
<1> DEFINE v == Without(s, n, k)
<1>1. \A i \in 1 .. n - 1 : v[i] = IF i < k THEN s[i] ELSE s[i + 1]
    BY DEF Without
<1>2. v \in [1 .. n - 1 -> Address]
    BY DEF Without
<1>3. ASSUME NEW a \in On(s, n), a # s[k] PROVE a \in On(v, n - 1)
    <2>1. PICK i \in 1 .. n : a = s[i]
        BY DEF On
    <2>2. CASE i < k
        BY <1>1, <2>1, <2>2 DEF On
    <2>3. CASE i > k
        <3>1. v[i - 1] = s[i] /\ i - 1 \in 1 .. n - 1
            BY <1>1, <2>3
        <3> QED BY <2>1, <3>1 DEF On
    <2> QED BY <2>1, <2>2, <2>3, <1>3
<1>4. ASSUME NEW a \in On(v, n - 1) PROVE a \in On(s, n) /\ a # s[k]
    <2>1. PICK i \in 1 .. n - 1 : a = v[i]
        BY DEF On
    <2> QED BY <1>1, <2>1 DEF On
<1>5. \A i, j \in 1 .. n - 1 : v[i] = v[j] => i = j
    BY <1>1
<1> HIDE DEF v
<1> QED BY <1>2, <1>3, <1>4, <1>5 DEF v

\* Unlink, one field at a time.
LEMMA Unlink_Does ==
    ASSUME HeapAssumption, NEW B \in Memory, NEW s, NEW n, NEW first,
           Linked(B, s, n, first), NEW k \in 1 .. n
    PROVE  LET U == Unlink([block |-> B, list |-> first], s[k])
           IN  /\ U.block \in Memory
               /\ \A x \in Address :
                     /\ U.block[x].size = B[x].size /\ U.block[x].kind = B[x].kind
                     /\ U.block[x].back = B[x].back
                     /\ U.block[x].forward =
                            IF k > 1 /\ x = s[k - 1] THEN Place(s, n, k + 1) ELSE B[x].forward
                     /\ U.block[x].pPreviousFree =
                            IF k < n /\ x = s[k + 1] THEN Place(s, n, k - 1)
                            ELSE B[x].pPreviousFree
               /\ U.list = IF k = 1 THEN Place(s, n, 2) ELSE first
<1> DEFINE a == s[k]
           previous == B[a].pPreviousFree
           next == B[a].forward
           B1 == IF previous = NULL THEN B ELSE [B EXCEPT ![previous].forward = next]
           B2 == IF next = NULL THEN B1 ELSE [B1 EXCEPT ![next].pPreviousFree = previous]
           U == Unlink([block |-> B, list |-> first], a)
<1>1. /\ previous = Place(s, n, k - 1) /\ next = Place(s, n, k + 1)
      /\ previous \in Address \cup {NULL} /\ next \in Address \cup {NULL}
      /\ previous = NULL <=> k = 1
      /\ next = NULL <=> k = n
    <2>1. previous = Place(s, n, k - 1) /\ next = Place(s, n, k + 1)
        BY DEF Linked
    <2>2. k - 1 \in Int /\ k + 1 \in Int
        BY DEF Linked
    <2>3. \A j \in Int : Place(s, n, j) \in Address \cup {NULL}
        BY Ends
    <2>4. \A j \in 1 .. n : Place(s, n, j - 1) = NULL <=> j = 1
        BY Ends
    <2>5. \A j \in 1 .. n : Place(s, n, j + 1) = NULL <=> j = n
        BY Ends
    <2> QED BY <2>1, <2>2, <2>3, <2>4, <2>5, Zenon
<1>2. /\ k > 1 => previous = s[k - 1]
      /\ k < n => next = s[k + 1]
      /\ n \in Nat
    BY <1>1 DEF Place, Linked
<1>3. U = [block |-> B2, list |-> IF previous = NULL THEN next ELSE first]
    BY DEF Unlink
<1>4. previous \in Pointer /\ next \in Pointer
    BY <1>1 DEF Pointer
<1>5. /\ B1 \in Memory
      /\ \A x \in Address :
            /\ B1[x].size = B[x].size /\ B1[x].kind = B[x].kind /\ B1[x].back = B[x].back
            /\ B1[x].forward = IF x = previous THEN next ELSE B[x].forward
            /\ B1[x].pPreviousFree = B[x].pPreviousFree
    <2> HIDE DEF previous, next
    <2> QED BY <1>1, <1>4, NullIsNoAddress DEF Memory, Header
<1>6. /\ B2 \in Memory
      /\ \A x \in Address :
            /\ B2[x].size = B[x].size /\ B2[x].kind = B[x].kind /\ B2[x].back = B[x].back
            /\ B2[x].forward = IF x = previous THEN next ELSE B[x].forward
            /\ B2[x].pPreviousFree = IF x = next THEN previous ELSE B[x].pPreviousFree
    <2> HIDE DEF previous, next, B1
    <2> QED BY <1>1, <1>4, <1>5, NullIsNoAddress DEF Memory, Header
<1>7. U.block = B2 /\ U.list = IF previous = NULL THEN next ELSE first
    <2> HIDE DEF B2
    <2> QED BY <1>3
<1>8. \A x \in Address : /\ x = previous <=> k > 1 /\ x = s[k - 1]
                         /\ x = next <=> k < n /\ x = s[k + 1]
    BY <1>1, <1>2, NullIsNoAddress
<1>9. U.list = IF k = 1 THEN Place(s, n, 2) ELSE first
    BY <1>1, <1>7
<1> HIDE DEF U, B2, B1, previous, next
<1>10. ASSUME NEW x \in Address
       PROVE /\ U.block[x].size = B[x].size /\ U.block[x].kind = B[x].kind
             /\ U.block[x].back = B[x].back
             /\ U.block[x].forward =
                    IF k > 1 /\ x = s[k - 1] THEN Place(s, n, k + 1) ELSE B[x].forward
             /\ U.block[x].pPreviousFree =
                    IF k < n /\ x = s[k + 1] THEN Place(s, n, k - 1) ELSE B[x].pPreviousFree
    BY <1>1, <1>6, <1>7, <1>8
<1> QED
    BY <1>6, <1>7, <1>9, <1>10 DEF U

\* What is left is the list without the block.
LEMMA Unlinked ==
    ASSUME HeapAssumption, NEW B \in Memory, NEW s, NEW n, NEW first,
           Linked(B, s, n, first), NEW k \in 1 .. n
    PROVE  LET U == Unlink([block |-> B, list |-> first], s[k])
           IN  Linked(U.block, Without(s, n, k), n - 1, U.list)
<1> DEFINE U == Unlink([block |-> B, list |-> first], s[k])
           v == Without(s, n, k)
<1>1. /\ n \in Nat /\ s \in [1 .. n -> Address]
      /\ \A i, j \in 1 .. n : s[i] = s[j] => i = j
      /\ first = Place(s, n, 1)
      /\ \A i \in 1 .. n : /\ B[s[i]].pPreviousFree = Place(s, n, i - 1)
                           /\ B[s[i]].forward = Place(s, n, i + 1)
    BY DEF Linked
<1>2. /\ v \in [1 .. n - 1 -> Address]
      /\ \A i, j \in 1 .. n - 1 : v[i] = v[j] => i = j
    <2>1. n \in Nat /\ s \in [1 .. n -> Address] /\ \A i, j \in 1 .. n : s[i] = s[j] => i = j
        BY <1>1
    <2>2. v \in [1 .. n - 1 -> Address]
        BY <2>1, WithoutOne
    <2>3. \A i, j \in 1 .. n - 1 : v[i] = v[j] => i = j
        BY <2>1, WithoutOne
    <2> QED BY <2>2, <2>3
<1>3. \A i \in 1 .. n - 1 : v[i] = IF i < k THEN s[i] ELSE s[i + 1]
    BY DEF Without
<1>4. /\ \A x \in Address :
            /\ U.block[x].forward =
                   IF k > 1 /\ x = s[k - 1] THEN Place(s, n, k + 1) ELSE B[x].forward
            /\ U.block[x].pPreviousFree =
                   IF k < n /\ x = s[k + 1] THEN Place(s, n, k - 1) ELSE B[x].pPreviousFree
      /\ U.list = IF k = 1 THEN Place(s, n, 2) ELSE first
    BY Unlink_Does
<1> HIDE DEF U, v
<1>5. U.list = Place(v, n - 1, 1)
    BY <1>1, <1>3, <1>4 DEF Place
<1>6. ASSUME NEW i \in 1 .. n - 1
      PROVE /\ U.block[v[i]].pPreviousFree = Place(v, n - 1, i - 1)
            /\ U.block[v[i]].forward = Place(v, n - 1, i + 1)
    <2> DEFINE j == IF i < k THEN i ELSE i + 1
    <2>1. j \in 1 .. n /\ v[i] = s[j] /\ s[j] \in Address /\ j # k
        BY <1>1, <1>3
    <2>2. /\ B[s[j]].pPreviousFree = Place(s, n, j - 1)
          /\ B[s[j]].forward = Place(s, n, j + 1)
        BY <1>1, <2>1
    <2>3. U.block[s[j]].forward = IF j = k - 1 THEN Place(s, n, k + 1) ELSE Place(s, n, j + 1)
        BY <1>1, <1>4, <2>1, <2>2, SMTT(30)
    <2>4. U.block[s[j]].pPreviousFree =
              IF j = k + 1 THEN Place(s, n, k - 1) ELSE Place(s, n, j - 1)
        BY <1>1, <1>4, <2>1, <2>2
    <2>5. Place(v, n - 1, i + 1) = IF j = k - 1 THEN Place(s, n, k + 1) ELSE Place(s, n, j + 1)
        BY <1>1, <1>3, <2>1 DEF Place
    <2>6. Place(v, n - 1, i - 1) = IF j = k + 1 THEN Place(s, n, k - 1) ELSE Place(s, n, j - 1)
        BY <1>1, <1>3, <2>1 DEF Place
    <2> QED BY <2>1, <2>3, <2>4, <2>5, <2>6
<1> QED
    BY <1>1, <1>2, <1>5, <1>6 DEF Linked, U, v

\* A block that is put before the list.
LEMMA Pushed ==
    ASSUME HeapAssumption, NEW B, NEW B2, NEW s, NEW n, NEW first, Linked(B, s, n, first),
           NEW a \in Address \ On(s, n),
           \A x \in On(s, n) : /\ B2[x].forward = B[x].forward
                               /\ B2[x].pPreviousFree = IF x = first THEN a
                                                        ELSE B[x].pPreviousFree,
           B2[a].forward = first, B2[a].pPreviousFree = NULL
    PROVE  /\ Linked(B2, Before(a, s, n), n + 1, a)
           /\ On(Before(a, s, n), n + 1) = On(s, n) \cup {a}
           /\ Place(Before(a, s, n), n + 1, n + 1) = IF n = 0 THEN a ELSE Place(s, n, n)
<1> DEFINE v == Before(a, s, n)
<1>1. /\ n \in Nat /\ s \in [1 .. n -> Address]
      /\ \A i, j \in 1 .. n : s[i] = s[j] => i = j
      /\ first = Place(s, n, 1)
      /\ \A i \in 1 .. n : /\ B[s[i]].pPreviousFree = Place(s, n, i - 1)
                           /\ B[s[i]].forward = Place(s, n, i + 1)
    BY DEF Linked
<1>2. v \in [1 .. n + 1 -> Address]
    BY <1>1 DEF Before
<1>3. /\ v[1] = a
      /\ \A i \in 1 .. n + 1 : i # 1 => v[i] = s[i - 1] /\ i - 1 \in 1 .. n
      /\ \A i \in 1 .. n : v[i + 1] = s[i] /\ i + 1 \in 1 .. n + 1
    BY <1>1 DEF Before
<1>4. \A i \in 1 .. n : s[i] \in On(s, n) /\ s[i] # a
    BY DEF On
<1> HIDE DEF v
<1>5. \A i, j \in 1 .. n + 1 : v[i] = v[j] => i = j
    <2> SUFFICES ASSUME NEW i \in 1 .. n + 1, NEW j \in 1 .. n + 1, v[i] = v[j] PROVE i = j
        OBVIOUS
    <2>1. CASE i = 1 \/ j = 1
        BY <1>3, <1>4, <2>1
    <2>2. CASE i # 1 /\ j # 1
        BY <1>1, <1>3, <2>2
    <2> QED BY <2>1, <2>2
<1>6. \A i \in Int : Place(v, n + 1, i + 1) = IF i = 0 THEN a ELSE Place(s, n, i)
    BY <1>1, <1>3 DEF Place
<1>7. ASSUME NEW i \in 1 .. n + 1
      PROVE /\ B2[v[i]].pPreviousFree = Place(v, n + 1, i - 1)
            /\ B2[v[i]].forward = Place(v, n + 1, i + 1)
    <2>1. CASE i = 1
        <3>1. Place(v, n + 1, 0) = NULL
            BY <1>1 DEF Place
        <3>2. Place(v, n + 1, 2) = first
            BY <1>1, <1>6
        <3> QED BY <2>1, <3>1, <3>2, <1>3
    <2>2. CASE i # 1
        <3> DEFINE k == i - 1
        <3>1. k \in 1 .. n /\ v[i] = s[k] /\ i = k + 1
            BY <1>3, <2>2
        <3>2. /\ B2[s[k]].forward = Place(s, n, k + 1)
              /\ B2[s[k]].pPreviousFree = IF s[k] = first THEN a ELSE Place(s, n, k - 1)
            BY <1>1, <1>4, <3>1
        <3>3. s[k] = first <=> k = 1
            BY <1>1, <3>1 DEF Place
        <3>4. /\ Place(v, n + 1, i + 1) = Place(s, n, k + 1)
              /\ Place(v, n + 1, i - 1) = IF k = 1 THEN a ELSE Place(s, n, k - 1)
            BY <1>6, <1>1, <3>1
        <3> QED BY <3>1, <3>2, <3>3, <3>4
    <2> QED BY <2>1, <2>2
<1>8. a = Place(v, n + 1, 1)
    BY <1>1, <1>3 DEF Place
<1>9. Linked(B2, v, n + 1, a)
    BY <1>1, <1>2, <1>5, <1>7, <1>8 DEF Linked
<1>10. On(v, n + 1) = On(s, n) \cup {a}
    <2>1. ASSUME NEW x \in On(v, n + 1) PROVE x \in On(s, n) \cup {a}
        BY <1>3 DEF On
    <2>2. ASSUME NEW x \in On(s, n) PROVE x \in On(v, n + 1)
        BY <1>3 DEF On
    <2>3. a \in On(v, n + 1)
        BY <1>1, <1>3 DEF On
    <2> QED BY <2>1, <2>2, <2>3
<1>11. Place(v, n + 1, n + 1) = IF n = 0 THEN a ELSE Place(s, n, n)
    BY <1>1, <1>6
<1> QED
    BY <1>9, <1>10, <1>11 DEF v

\* A block that takes the place of another.
LEMMA InPlaceOne ==
    ASSUME NEW n \in Nat, NEW s \in [1 .. n -> Address], NEW k \in 1 .. n,
           NEW a \in Address \ On(s, n), \A i, j \in 1 .. n : s[i] = s[j] => i = j
    PROVE  On(InPlaceOf(s, n, k, a), n) = (On(s, n) \ {s[k]}) \cup {a}
<1> DEFINE v == InPlaceOf(s, n, k, a)
<1>1. \A i \in 1 .. n : v[i] = IF i = k THEN a ELSE s[i]
    BY DEF InPlaceOf
<1>2. \A i \in 1 .. n : s[i] \in On(s, n) /\ s[i] # a
    BY DEF On
<1> HIDE DEF v
<1>3. ASSUME NEW x \in On(v, n) PROVE x \in (On(s, n) \ {s[k]}) \cup {a}
    BY <1>1, <1>2 DEF On
<1>4. ASSUME NEW x \in On(s, n) \ {s[k]} PROVE x \in On(v, n)
    BY <1>1 DEF On
<1>5. a \in On(v, n)
    BY <1>1 DEF On
<1> QED BY <1>3, <1>4, <1>5 DEF v

\* An entry whose place another takes (JoinNext of memoryFree).
LEMMA Replaced ==
    ASSUME HeapAssumption, NEW B, NEW B2, NEW s, NEW n, NEW first, Linked(B, s, n, first),
           NEW k \in 1 .. n, NEW a \in Address \ On(s, n),
           \A x \in On(s, n) \ {s[k]} :
               /\ B2[x].forward = IF x = B[s[k]].pPreviousFree THEN a ELSE B[x].forward
               /\ B2[x].pPreviousFree = IF x = B[s[k]].forward THEN a
                                        ELSE B[x].pPreviousFree,
           B2[a].forward = B[s[k]].forward, B2[a].pPreviousFree = B[s[k]].pPreviousFree
    PROVE  Linked(B2, InPlaceOf(s, n, k, a), n, IF k = 1 THEN a ELSE first)
<1> DEFINE v == InPlaceOf(s, n, k, a)
<1>1. /\ n \in Nat /\ s \in [1 .. n -> Address]
      /\ \A i, j \in 1 .. n : s[i] = s[j] => i = j
      /\ first = Place(s, n, 1)
      /\ \A i \in 1 .. n : /\ B[s[i]].pPreviousFree = Place(s, n, i - 1)
                           /\ B[s[i]].forward = Place(s, n, i + 1)
    BY DEF Linked
<1>2. v \in [1 .. n -> Address] /\ \A i \in 1 .. n : v[i] = IF i = k THEN a ELSE s[i]
    BY <1>1 DEF InPlaceOf
<1>3. \A i \in 1 .. n : s[i] \in On(s, n) /\ s[i] # a
    BY DEF On
<1> HIDE DEF v
<1>4. \A i, j \in 1 .. n : v[i] = v[j] => i = j
    BY <1>1, <1>2, <1>3
<1>5. \A i \in Int : Place(v, n, i) = IF i = k THEN a ELSE Place(s, n, i)
    BY <1>1, <1>2 DEF Place
<1>6. ASSUME NEW i \in 1 .. n
      PROVE /\ B2[v[i]].pPreviousFree = Place(v, n, i - 1)
            /\ B2[v[i]].forward = Place(v, n, i + 1)
    <2>1. CASE i = k
        BY <1>1, <1>2, <1>5, <2>1
    <2>2. CASE i # k
        <3>1. v[i] = s[i] /\ s[i] \in On(s, n) \ {s[k]} /\ s[i] \in Address
            BY <1>1, <1>2, <1>3, <2>2
        <3>2. s[i] = B[s[k]].pPreviousFree <=> i = k - 1
            <4>1. B[s[k]].pPreviousFree = Place(s, n, k - 1)
                BY <1>1
            <4>2. CASE k - 1 \in 1 .. n
                BY <1>1, <4>1, <4>2 DEF Place
            <4>3. CASE k - 1 \notin 1 .. n
                BY <3>1, <4>1, <4>3, NullIsNoAddress DEF Place
            <4> QED BY <4>2, <4>3
        <3>3. s[i] = B[s[k]].forward <=> i = k + 1
            <4>1. B[s[k]].forward = Place(s, n, k + 1)
                BY <1>1
            <4>2. CASE k + 1 \in 1 .. n
                BY <1>1, <4>1, <4>2 DEF Place
            <4>3. CASE k + 1 \notin 1 .. n
                BY <3>1, <4>1, <4>3, NullIsNoAddress DEF Place
            <4> QED BY <4>2, <4>3
        <3>4. B2[v[i]].forward = IF i = k - 1 THEN a ELSE Place(s, n, i + 1)
            BY <1>1, <3>1, <3>2
        <3>5. B2[v[i]].pPreviousFree = IF i = k + 1 THEN a ELSE Place(s, n, i - 1)
            BY <1>1, <3>1, <3>3
        <3> QED BY <1>1, <1>5, <3>4, <3>5
    <2> QED BY <2>1, <2>2
<1>7. (IF k = 1 THEN a ELSE first) = Place(v, n, 1)
    BY <1>1, <1>5
<1> QED
    BY <1>1, <1>2, <1>4, <1>6, <1>7 DEF Linked, v

\* A list before another.
LEMMA Appended ==
    ASSUME HeapAssumption, NEW B, NEW B2, NEW s, NEW n, NEW first, Linked(B, s, n, first),
           NEW r, NEW m, NEW released, Linked(B, r, m, released), m # 0,
           On(s, n) \cap On(r, m) = {},
           \A x \in On(s, n) \cup On(r, m) :
               /\ B2[x].forward = IF x = Place(r, m, m) THEN first ELSE B[x].forward
               /\ B2[x].pPreviousFree = IF x = first THEN Place(r, m, m)
                                        ELSE B[x].pPreviousFree
    PROVE  /\ Linked(B2, Together(r, m, s, n), m + n, released)
           /\ On(Together(r, m, s, n), m + n) = On(r, m) \cup On(s, n)
<1> DEFINE v == Together(r, m, s, n)
<1>1. /\ n \in Nat /\ s \in [1 .. n -> Address]
      /\ \A i, j \in 1 .. n : s[i] = s[j] => i = j
      /\ first = Place(s, n, 1)
      /\ \A i \in 1 .. n : /\ B[s[i]].pPreviousFree = Place(s, n, i - 1)
                           /\ B[s[i]].forward = Place(s, n, i + 1)
    BY DEF Linked
<1>2. /\ m \in Nat /\ r \in [1 .. m -> Address]
      /\ \A i, j \in 1 .. m : r[i] = r[j] => i = j
      /\ released = Place(r, m, 1)
      /\ \A i \in 1 .. m : /\ B[r[i]].pPreviousFree = Place(r, m, i - 1)
                           /\ B[r[i]].forward = Place(r, m, i + 1)
    BY DEF Linked
<1>3. /\ v \in [1 .. m + n -> Address]
      /\ \A i \in 1 .. m : v[i] = r[i] /\ i \in 1 .. m + n
      /\ \A i \in 1 .. n : v[m + i] = s[i] /\ m + i \in 1 .. m + n
    BY <1>1, <1>2 DEF Together
<1>4. \A i \in 1 .. m + n : i \in 1 .. m \/ \E j \in 1 .. n : i = m + j
    <2> SUFFICES ASSUME NEW i \in 1 .. m + n, i \notin 1 .. m PROVE \E j \in 1 .. n : i = m + j
        OBVIOUS
    <2>1. i - m \in 1 .. n /\ i = m + (i - m)
        BY <1>1, <1>2
    <2> QED BY <2>1
<1>5. \A i \in 1 .. m, j \in 1 .. n : r[i] # s[j]
    BY DEF On
<1>6. /\ \A i \in 1 .. n : s[i] \in On(s, n)
      /\ \A i \in 1 .. m : r[i] \in On(r, m)
    BY DEF On
<1> HIDE DEF v
<1>7. \A i, j \in 1 .. m + n : v[i] = v[j] => i = j
    <2> SUFFICES ASSUME NEW i \in 1 .. m + n, NEW j \in 1 .. m + n, v[i] = v[j] PROVE i = j
        OBVIOUS
    <2>1. CASE i \in 1 .. m /\ j \in 1 .. m
        BY <1>2, <1>3, <2>1
    <2>2. CASE i \in 1 .. m /\ j \notin 1 .. m
        <3>1. PICK l \in 1 .. n : j = m + l
            BY <1>4, <2>2
        <3> QED BY <1>3, <1>5, <2>2, <3>1
    <2>3. CASE i \notin 1 .. m /\ j \in 1 .. m
        <3>1. PICK l \in 1 .. n : i = m + l
            BY <1>4, <2>3
        <3> QED BY <1>3, <1>5, <2>3, <3>1
    <2>4. CASE i \notin 1 .. m /\ j \notin 1 .. m
        <3>1. PICK l \in 1 .. n : j = m + l
            BY <1>4, <2>4
        <3>2. PICK k \in 1 .. n : i = m + k
            BY <1>4, <2>4
        <3>3. s[l] = s[k]
            BY <1>3, <3>1, <3>2
        <3>4. l = k
            BY <1>1, <3>3
        <3> QED BY <3>1, <3>2, <3>4
    <2> QED BY <2>1, <2>2, <2>3, <2>4
<1>8. \A i \in Int : i <= m => Place(v, m + n, i) = Place(r, m, i)
    BY <1>1, <1>2, <1>3 DEF Place
<1>9. \A i \in Int : i > 0 => Place(v, m + n, m + i) = Place(s, n, i)
    BY <1>1, <1>2, <1>3 DEF Place
<1>10. Place(r, m, m) = r[m] /\ m \in 1 .. m
    BY <1>2 DEF Place
<1>11. ASSUME NEW i \in 1 .. m
       PROVE /\ B2[r[i]].pPreviousFree = Place(v, m + n, i - 1)
             /\ B2[r[i]].forward = Place(v, m + n, i + 1)
    <2>1. r[i] # first
        BY <1>1, <1>2, <1>5, NullIsNoAddress DEF Place
    <2>2. B2[r[i]].pPreviousFree = Place(r, m, i - 1)
        BY <1>2, <1>6, <2>1
    <2>3. B2[r[i]].forward = IF i = m THEN first ELSE Place(r, m, i + 1)
        BY <1>2, <1>6, <1>10
    <2>4. Place(v, m + n, i - 1) = Place(r, m, i - 1)
        BY <1>2, <1>8
    <2>5. Place(v, m + n, i + 1) = IF i = m THEN first ELSE Place(r, m, i + 1)
        BY <1>1, <1>2, <1>8, <1>9
    <2> QED BY <2>2, <2>3, <2>4, <2>5
<1>12. ASSUME NEW i \in 1 .. n
       PROVE /\ B2[s[i]].pPreviousFree = Place(v, m + n, m + i - 1)
             /\ B2[s[i]].forward = Place(v, m + n, m + i + 1)
    <2>1. s[i] # Place(r, m, m)
        BY <1>5, <1>10
    <2>2. s[i] = first <=> i = 1
        BY <1>1 DEF Place
    <2>3. B2[s[i]].forward = Place(s, n, i + 1)
        BY <1>1, <1>6, <2>1
    <2>4. B2[s[i]].pPreviousFree = IF i = 1 THEN Place(r, m, m) ELSE Place(s, n, i - 1)
        BY <1>1, <1>6, <2>2
    <2>5. Place(v, m + n, m + i + 1) = Place(s, n, i + 1)
        BY <1>1, <1>2, <1>9
    <2>6. Place(v, m + n, m + i - 1) = IF i = 1 THEN Place(r, m, m) ELSE Place(s, n, i - 1)
        <3>1. CASE i = 1
            BY <1>2, <1>8, <3>1
        <3>2. CASE i # 1
            <4>1. i - 1 \in Int /\ i - 1 > 0 /\ m + (i - 1) = m + i - 1
                BY <1>2, <3>2
            <4>2. Place(v, m + n, m + (i - 1)) = Place(s, n, i - 1)
                BY <1>9, <4>1
            <4> QED BY <3>2, <4>1, <4>2
        <3> QED BY <3>1, <3>2
    <2> QED BY <2>3, <2>4, <2>5, <2>6
<1>13. \A i \in 1 .. m + n : /\ B2[v[i]].pPreviousFree = Place(v, m + n, i - 1)
                             /\ B2[v[i]].forward = Place(v, m + n, i + 1)
    <2> SUFFICES ASSUME NEW i \in 1 .. m + n
                 PROVE  /\ B2[v[i]].pPreviousFree = Place(v, m + n, i - 1)
                        /\ B2[v[i]].forward = Place(v, m + n, i + 1)
        OBVIOUS
    <2>1. CASE i \in 1 .. m
        BY <1>3, <1>11, <2>1
    <2>2. CASE i \notin 1 .. m
        <3>1. PICK l \in 1 .. n : i = m + l
            BY <1>4, <2>2
        <3> QED
            <4>1. i = m + l /\ v[m + l] = s[l]
                BY <1>3, <3>1
            <4>2. m + l - 1 = i - 1 /\ m + l + 1 = i + 1
                BY <1>1, <1>2, <3>1, <4>1
            <4> QED BY <1>12, <4>1, <4>2
    <2> QED BY <2>1, <2>2
<1>14. released = Place(v, m + n, 1)
    BY <1>2, <1>8
<1>15. On(v, m + n) = On(r, m) \cup On(s, n)
    <2>1. ASSUME NEW x \in On(v, m + n) PROVE x \in On(r, m) \cup On(s, n)
        BY <1>3, <1>4 DEF On
    <2>2. ASSUME NEW x \in On(r, m) PROVE x \in On(v, m + n)
        BY <1>3 DEF On
    <2>3. ASSUME NEW x \in On(s, n) PROVE x \in On(v, m + n)
        BY <1>3 DEF On
    <2> QED BY <2>1, <2>2, <2>3
<1> QED
    BY <1>1, <1>2, <1>3, <1>7, <1>13, <1>14, <1>15 DEF Linked, v

-----------------------------------------------------------------------------
(* The blocks in the heap. *)

FreeOf(B) == {a \in BlocksOf(B) : B[a].kind = "free"}

\* p is the block that ends where a begins, or there is none.
IsBefore(B, p, a) ==
    IF a = 0 THEN p = NULL ELSE p \in BlocksOf(B) /\ getFollowingBlock(B, p) = a

Tiled(B) ==
    /\ 0 \in BlocksOf(B)
    /\ \A a \in BlocksOf(B) :
          /\ B[a].size >= MinimumBlock
          /\ getFollowingBlock(B, a) \in BlocksOf(B) \cup {HeapSize}
          /\ \A x \in a + 1 .. getFollowingBlock(B, a) - 1 : x \notin BlocksOf(B)

Neighbours(B) ==
    \A a \in BlocksOf(B) :
        /\ B[a].kind \in {"free", "nonCollectible"} => IsBefore(B, B[a].back, a)
        /\ B[a].kind = "nonCollectible" =>
              B[a].forward = NextContiguous(getFollowingBlock(B, a))

\* No free block is left beside another.
Apart(B) ==
    \A a, b \in BlocksOf(B) :
        B[a].kind = "free" /\ b = getFollowingBlock(B, a) => B[b].kind # "free"

Geometry(B) == B \in Memory /\ Tiled(B) /\ Neighbours(B) /\ Apart(B)

\* What is left alone outside x to n - 1, except that the block at n may be told what is
\* before it; the pointers of the free list are not spoken of.
SameOutside(B, B2, x, n) ==
    \A y \in Address \ (x .. n - 1) :
        /\ B2[y].kind = B[y].kind /\ B2[y].size = B[y].size
        /\ y # n => B2[y].back = B[y].back
        /\ B[y].kind = "nonCollectible" => B2[y].forward = B[y].forward

\* Two blocks do not overlap.
LEMMA BlocksDoNotOverlap ==
    ASSUME HeapAssumption, NEW B \in Memory, Tiled(B),
           NEW a \in BlocksOf(B), NEW b \in BlocksOf(B), a < b
    PROVE  getFollowingBlock(B, a) <= b
<1>1. a \in Nat /\ b \in Nat /\ B[a].size \in Nat
    BY NullIsNoAddress DEF BlocksOf, Memory, Header
<1> QED
    BY <1>1 DEF Tiled, getFollowingBlock

\* The distance to an address is what lies between.
LEMMA DistanceIsSum ==
    ASSUME NEW a \in Nat, NEW x \in Nat, NEW y \in Nat, NEW n \in Nat, NEW h \in Nat,
           n = a + x + y, n <= h
    PROVE  n - a = x + y /\ n - a \in 0 .. h
OBVIOUS

\* A block is inside the heap.
LEMMA Extents ==
    ASSUME HeapAssumption, NEW B \in Memory, Tiled(B), NEW a \in BlocksOf(B)
    PROVE  /\ a \in Address /\ a \in Nat /\ B[a].size \in Nat /\ B[a].size > 0
           /\ getFollowingBlock(B, a) = a + B[a].size
           /\ a < getFollowingBlock(B, a) /\ getFollowingBlock(B, a) <= HeapSize
           /\ getFollowingBlock(B, a) \in Nat
           /\ B[a].kind \in AllKinds \ {"none"}
<1>1. a \in Address /\ a \in Nat /\ B[a].size \in Nat /\ B[a].kind \in AllKinds \ {"none"}
    BY NullIsNoAddress DEF BlocksOf, Memory, Header
<1>2. B[a].size >= MinimumBlock /\ getFollowingBlock(B, a) \in BlocksOf(B) \cup {HeapSize}
    BY DEF Tiled
<1> QED
    BY <1>1, <1>2, NullIsNoAddress DEF getFollowingBlock, BlocksOf, Address

\* There is one block before another.
LEMMA OnePredecessor ==
    ASSUME HeapAssumption, NEW B \in Memory, Tiled(B),
           NEW p, NEW q, NEW a \in 0 .. HeapSize, IsBefore(B, p, a), IsBefore(B, q, a)
    PROVE  p = q
<1>1. CASE a = 0
    BY <1>1 DEF IsBefore
<1>2. CASE a # 0
    <2>1. /\ p \in BlocksOf(B) /\ getFollowingBlock(B, p) = a
          /\ q \in BlocksOf(B) /\ getFollowingBlock(B, q) = a
        BY <1>2 DEF IsBefore
    <2>2. p \in Nat /\ q \in Nat /\ p < a /\ q < a
        BY <2>1, Extents
    <2>3. ~(p < q) /\ ~(q < p)
        BY <2>1, <2>2, BlocksDoNotOverlap
    <2> QED BY <2>2, <2>3
<1> QED BY <1>1, <1>2

\* The blocks from x to n - 1 become one free block.
Merged(B, B2, x, n) ==
    /\ B2 \in Memory
    /\ B2[x].kind = "free" /\ B2[x].size = n - x /\ IsBefore(B, B2[x].back, x)
    /\ \A y \in x + 1 .. n - 1 : B2[y].kind = "none"
    /\ SameOutside(B, B2, x, n)
    /\ n # HeapSize => B[n].kind # "free"
    /\ n # HeapSize /\ B[n].kind = "nonCollectible" => B2[n].back = x

\* Joining what follows a block to it keeps the heap's geometry, if no free block is before it.
LEMMA MergeKeeps ==
    ASSUME HeapAssumption, NEW B, NEW B2, Geometry(B),
           NEW x \in BlocksOf(B), NEW n \in BlocksOf(B) \cup {HeapSize}, x < n,
           Merged(B, B2, x, n),
           \A y \in BlocksOf(B) : getFollowingBlock(B, y) = x => B[y].kind # "free"
    PROVE  Geometry(B2) /\ BlocksOf(B2) = BlocksOf(B) \ (x + 1 .. n - 1)
<1>1. B \in Memory /\ Tiled(B) /\ Neighbours(B) /\ Apart(B) /\ B2 \in Memory
    BY DEF Geometry, Merged
<1>2. x \in Nat /\ n \in Nat /\ HeapSize \in Nat /\ n <= HeapSize /\ x \in Address
    BY <1>1, NullIsNoAddress DEF BlocksOf, Address
<1>3. BlocksOf(B2) = BlocksOf(B) \ (x + 1 .. n - 1)
    <2>1. ASSUME NEW y \in Address
          PROVE B2[y].kind # "none" <=> B[y].kind # "none" /\ y \notin x + 1 .. n - 1
        <3>0. y \in Int
            BY <1>2 DEF Address
        <3>1. CASE y = x
            <4>1. B2[x].kind = "free" /\ B[x].kind # "none"
                BY DEF Merged, BlocksOf
            <4> QED BY <3>1, <4>1, <1>2
        <3>2. CASE y \in x + 1 .. n - 1
            BY <3>2 DEF Merged
        <3>3. CASE y \in Address \ (x .. n - 1)
            BY <3>3, <1>2, <3>0 DEF Merged, SameOutside
        <3> QED BY <3>0, <3>1, <3>2, <3>3, <1>2
    <2> QED BY <2>1 DEF BlocksOf
<1>4. /\ getFollowingBlock(B2, x) = n /\ x \in BlocksOf(B2)
      /\ n \in BlocksOf(B2) \cup {HeapSize}
    <2>1. x + (n - x) = n
        BY <1>2
    <2>2. B2[x].size = n - x
        BY DEF Merged
    <2> QED BY <1>2, <1>3, <2>1, <2>2 DEF getFollowingBlock
<1>5. ASSUME NEW y \in BlocksOf(B2), y # x
      PROVE /\ y \in BlocksOf(B) /\ y \in Address \ (x .. n - 1) /\ y \in Nat
            /\ getFollowingBlock(B2, y) = getFollowingBlock(B, y)
            /\ B2[y].size = B[y].size /\ B2[y].kind = B[y].kind
            /\ y < x => getFollowingBlock(B, y) <= x
            /\ y >= n \/ y < x
    <2>1. y \in BlocksOf(B) /\ y \notin x .. n - 1 /\ y \in Address /\ y \in Nat
        <3>1. y \in BlocksOf(B) /\ y \notin x + 1 .. n - 1
            BY <1>3, <1>5
        <3>2. y \in Address /\ y \in Nat
            BY <3>1, NullIsNoAddress DEF BlocksOf
        <3> QED BY <3>1, <3>2, <1>2, <1>5
    <2>2. B2[y].size = B[y].size /\ B2[y].kind = B[y].kind
        BY <2>1 DEF Merged, SameOutside
    <2>3. y < x => getFollowingBlock(B, y) <= x
        BY <2>1, <1>1, BlocksDoNotOverlap
    <2> QED BY <2>1, <2>2, <2>3, <1>2 DEF getFollowingBlock
<1>6. Tiled(B2)
    <2>1. 0 \in BlocksOf(B2)
        BY <1>1, <1>2, <1>3 DEF Tiled
    <2>2. ASSUME NEW y \in BlocksOf(B2)
          PROVE /\ B2[y].size >= MinimumBlock
                /\ getFollowingBlock(B2, y) \in BlocksOf(B2) \cup {HeapSize}
                /\ \A z \in y + 1 .. getFollowingBlock(B2, y) - 1 : z \notin BlocksOf(B2)
        <3>1. CASE y = x
            <4>1. B[x].size >= MinimumBlock /\ getFollowingBlock(B, x) <= n
                <5>1. CASE n = HeapSize
                    BY <5>1, <1>1, Extents DEF Tiled
                <5>2. CASE n \in BlocksOf(B)
                    BY <5>2, <1>1, BlocksDoNotOverlap DEF Tiled
                <5> QED BY <5>1, <5>2
            <4>2. B[x].size \in Nat /\ getFollowingBlock(B, x) = x + B[x].size
                BY <1>1, Extents
            <4>3. B2[x].size >= MinimumBlock
                <5>1. B2[x].size = n - x
                    BY DEF Merged
                <5> QED BY <4>1, <4>2, <5>1, <1>2, NullIsNoAddress
            <4> QED BY <3>1, <4>3, <1>2, <1>3, <1>4
        <3>2. CASE y # x
            <4>1. /\ B[y].size >= MinimumBlock
                  /\ getFollowingBlock(B, y) \in BlocksOf(B) \cup {HeapSize}
                  /\ \A z \in y + 1 .. getFollowingBlock(B, y) - 1 : z \notin BlocksOf(B)
                BY <1>1, <1>5, <3>2 DEF Tiled
            <4>2. y < getFollowingBlock(B, y) /\ getFollowingBlock(B, y) \in Nat
                BY <1>1, <1>5, <3>2, Extents
            <4>3. getFollowingBlock(B, y) \notin x + 1 .. n - 1
                BY <1>2, <1>5, <3>2, <4>2
            <4> QED BY <1>3, <1>5, <3>2, <4>1, <4>3
        <3> QED BY <3>1, <3>2
    <2> QED BY <2>1, <2>2 DEF Tiled
<1>7. ASSUME NEW p, NEW a \in BlocksOf(B2), IsBefore(B, p, a), a <= x \/ a > n
      PROVE IsBefore(B2, p, a)
    <2>1. CASE a = 0
        BY <2>1, <1>7 DEF IsBefore
    <2>2. CASE a # 0
        <3>1. p \in BlocksOf(B) /\ getFollowingBlock(B, p) = a /\ p \in Nat /\ p < a
            BY <2>2, <1>7, <1>1, Extents DEF IsBefore
        <3>2. p # x /\ p \notin x + 1 .. n - 1
            <4>1. CASE a <= x
                BY <4>1, <3>1, <1>2
            <4>2. CASE a > n
                <5>1. n \in BlocksOf(B) /\ a \in Nat
                    BY <4>2, <1>1, <1>2, <1>3, NullIsNoAddress DEF BlocksOf, Address
                <5>2. ~(p < n)
                    BY <5>1, <4>2, <3>1, <1>1, <1>2, BlocksDoNotOverlap
                <5> QED BY <5>2, <3>1, <1>2
            <4> QED BY <4>1, <4>2, <1>7
        <3>3. p \in BlocksOf(B2)
            BY <3>1, <3>2, <1>3
        <3>4. getFollowingBlock(B2, p) = a
            BY <3>1, <3>2, <3>3, <1>5
        <3> QED BY <3>3, <3>4, <2>2 DEF IsBefore
    <2> QED BY <2>1, <2>2
<1>8. Neighbours(B2)
    <2> SUFFICES ASSUME NEW a \in BlocksOf(B2)
                 PROVE  /\ B2[a].kind \in {"free", "nonCollectible"} => IsBefore(B2, B2[a].back, a)
                        /\ B2[a].kind = "nonCollectible" =>
                              B2[a].forward = NextContiguous(getFollowingBlock(B2, a))
        BY DEF Neighbours
    <2>1. CASE a = x
        <3>1. B2[x].kind = "free" /\ IsBefore(B, B2[x].back, x)
            BY DEF Merged
        <3>2. IsBefore(B2, B2[x].back, x)
            BY <3>1, <1>2, <1>4, <1>7
        <3> QED BY <2>1, <3>1, <3>2
    <2>2. CASE a # x
        <3>1. /\ B[a].kind \in {"free", "nonCollectible"} => IsBefore(B, B[a].back, a)
              /\ B[a].kind = "nonCollectible" =>
                    B[a].forward = NextContiguous(getFollowingBlock(B, a))
            BY <2>2, <1>5, <1>1 DEF Neighbours
        <3>2. B2[a].kind = "nonCollectible" =>
                 B2[a].forward = NextContiguous(getFollowingBlock(B2, a))
            BY <2>2, <1>5, <3>1 DEF Merged, SameOutside
        <3>3. CASE a = n
            <4>1. B[n].kind # "free" /\ (B[n].kind = "nonCollectible" => B2[n].back = x)
                BY <3>3, <1>2 DEF Merged, BlocksOf, Address
            <4>2. IsBefore(B2, x, n)
                BY <1>2, <1>4 DEF IsBefore
            <4> QED BY <2>2, <3>2, <3>3, <4>1, <4>2, <1>5
        <3>4. CASE a # n
            <4>1. B2[a].back = B[a].back
                BY <2>2, <3>4, <1>5 DEF Merged, SameOutside
            <4>2. a <= x \/ a > n
                BY <2>2, <3>4, <1>2, <1>5
            <4> QED BY <2>2, <3>1, <3>2, <4>1, <4>2, <1>5, <1>7
        <3> QED BY <3>3, <3>4
    <2> QED BY <2>1, <2>2
<1>9. Apart(B2)
    <2> SUFFICES ASSUME NEW a \in BlocksOf(B2), NEW b \in BlocksOf(B2), B2[a].kind = "free",
                        b = getFollowingBlock(B2, a), B2[b].kind = "free"
                 PROVE  FALSE
        BY DEF Apart
    <2>1. CASE a = x
        <3>1. b = n /\ n \in Address /\ n # HeapSize
            BY <2>1, <1>2, <1>4 DEF BlocksOf, Address
        <3>2. B[n].kind # "free" /\ B2[n].kind = B[n].kind
            BY <3>1, <1>2, <1>5 DEF Merged
        <3> QED BY <3>1, <3>2
    <2>2. CASE a # x /\ b = x
        BY <2>2, <1>5
    <2>3. CASE a # x /\ b # x
        BY <2>3, <1>5, <1>1 DEF Apart
    <2> QED BY <2>1, <2>2, <2>3
<1> QED
    BY <1>1, <1>3, <1>6, <1>8, <1>9 DEF Geometry

\* No block begins, ends or changes its neighbours.
SameExtents(B, B2) ==
    /\ B2 \in Memory
    /\ \A y \in Address :
          /\ B2[y].size = B[y].size
          /\ B2[y].kind = "none" <=> B[y].kind = "none"
          /\ B2[y].kind = "free" => B[y].kind = "free" /\ B2[y].back = B[y].back
          /\ B2[y].kind = "nonCollectible" =>
                /\ B[y].kind \in {"free", "nonCollectible"} /\ B2[y].back = B[y].back
                /\ B2[y].forward = NextContiguous(getFollowingBlock(B, y))

\* Nor does a change of links, or of kinds to one that is not free, disturb the geometry.
LEMMA SameKeeps ==
    ASSUME HeapAssumption, NEW B, NEW B2, Geometry(B), SameExtents(B, B2)
    PROVE  /\ Geometry(B2) /\ BlocksOf(B2) = BlocksOf(B)
           /\ \A y \in Address : getFollowingBlock(B2, y) = getFollowingBlock(B, y)
<1>1. B \in Memory /\ Tiled(B) /\ Neighbours(B) /\ Apart(B) /\ B2 \in Memory
    BY DEF Geometry, SameExtents
<1>2. BlocksOf(B2) = BlocksOf(B)
    BY DEF SameExtents, BlocksOf
<1>3. \A y \in Address : /\ getFollowingBlock(B2, y) = getFollowingBlock(B, y)
                         /\ B2[y].size = B[y].size
    BY DEF SameExtents, getFollowingBlock
<1>4. \A y \in BlocksOf(B) : y \in Address
    BY DEF BlocksOf
<1>5. Tiled(B2)
    BY <1>1, <1>2, <1>3, <1>4 DEF Tiled
<1>6. \A p, a : IsBefore(B2, p, a) <=> IsBefore(B, p, a)
    BY <1>2, <1>3, <1>4 DEF IsBefore
<1>7. Neighbours(B2)
    <2> SUFFICES ASSUME NEW a \in BlocksOf(B)
                 PROVE  /\ B2[a].kind \in {"free", "nonCollectible"} => IsBefore(B2, B2[a].back, a)
                        /\ B2[a].kind = "nonCollectible" =>
                              B2[a].forward = NextContiguous(getFollowingBlock(B2, a))
        BY <1>2 DEF Neighbours
    <2>1. B2[a].kind \in {"free", "nonCollectible"} =>
             B[a].kind \in {"free", "nonCollectible"} /\ B2[a].back = B[a].back
        BY <1>4 DEF SameExtents
    <2>2. B[a].kind \in {"free", "nonCollectible"} => IsBefore(B, B[a].back, a)
        BY <1>1 DEF Neighbours
    <2>3. B2[a].kind = "nonCollectible" =>
             B2[a].forward = NextContiguous(getFollowingBlock(B2, a))
        BY <1>3, <1>4 DEF SameExtents
    <2> QED BY <1>6, <2>1, <2>2, <2>3
<1>8. Apart(B2)
    BY <1>1, <1>2, <1>3, <1>4 DEF Apart, SameExtents
<1> QED
    BY <1>1, <1>2, <1>3, <1>5, <1>7, <1>8 DEF Geometry

\* The end of the free block a becomes the block new.
SplitOff(B, B2, a, new) ==
    /\ B2 \in Memory
    /\ B2[a].kind = "free" /\ B2[a].size = new - a /\ B2[a].back = B[a].back
    /\ B2[new].kind \in {"nonCollectible", "white", "black"}
    /\ B2[new].size = getFollowingBlock(B, a) - new
    /\ B2[new].kind = "nonCollectible" =>
          B2[new].back = a /\ B2[new].forward = NextContiguous(getFollowingBlock(B, a))
    /\ \A y \in Address \ {a, new} :
          /\ B2[y].kind = B[y].kind /\ B2[y].size = B[y].size
          /\ B2[y].back = IF y = getFollowingBlock(B, a) /\ B[y].kind = "nonCollectible"
                          THEN new ELSE B[y].back
          /\ B[y].kind = "nonCollectible" => B2[y].forward = B[y].forward

\* Nor does splitting a free block.
LEMMA SplitKeeps ==
    ASSUME HeapAssumption, NEW B, NEW B2, Geometry(B), NEW a \in BlocksOf(B),
           B[a].kind = "free", NEW new \in Nat, new - a >= MinimumBlock,
           getFollowingBlock(B, a) - new >= MinimumBlock, SplitOff(B, B2, a, new)
    PROVE  Geometry(B2) /\ BlocksOf(B2) = BlocksOf(B) \cup {new} /\ new \notin BlocksOf(B)
           /\ new \in Address
<1> DEFINE n == getFollowingBlock(B, a)
<1>1. B \in Memory /\ Tiled(B) /\ Neighbours(B) /\ Apart(B) /\ B2 \in Memory
    BY DEF Geometry, SplitOff
<1>2. /\ a \in Address /\ a \in Nat /\ n \in Nat /\ n <= HeapSize /\ a < n
      /\ MinimumBlock \in Nat /\ MinimumBlock > 0 /\ HeapSize \in Nat
    BY <1>1, Extents, NullIsNoAddress
<1>3. n \in BlocksOf(B) \cup {HeapSize} /\ \A z \in a + 1 .. n - 1 : z \notin BlocksOf(B)
    BY <1>1 DEF Tiled
<1> HIDE DEF n
<1>4. a < new /\ new < n /\ new \in Address /\ new \notin BlocksOf(B)
    <2>1. n - new >= MinimumBlock
        BY DEF n
    <2> QED BY <1>2, <1>3, <2>1 DEF Address
<1>5. BlocksOf(B2) = BlocksOf(B) \cup {new}
    <2>1. ASSUME NEW y \in Address PROVE B2[y].kind # "none" <=> B[y].kind # "none" \/ y = new
        <3>1. CASE y = a
            <4>1. B2[a].kind = "free" /\ B[a].kind = "free"
                BY DEF SplitOff
            <4> QED BY <3>1, <4>1
        <3>2. CASE y = new
            <4>1. B2[new].kind \in {"nonCollectible", "white", "black"}
                BY DEF SplitOff
            <4> QED BY <3>2, <4>1
        <3>3. CASE y \in Address \ {a, new}
            BY <3>3 DEF SplitOff
        <3> QED BY <3>1, <3>2, <3>3
    <2> QED BY <2>1, <1>4 DEF BlocksOf
<1>6. getFollowingBlock(B2, a) = new /\ getFollowingBlock(B2, new) = n
    <2>1. B2[a].size = new - a /\ B2[new].size = n - new
        BY DEF SplitOff, n
    <2> QED BY <1>2, <1>4, <2>1 DEF getFollowingBlock
<1>7. ASSUME NEW y \in BlocksOf(B2), y # a, y # new
      PROVE /\ y \in BlocksOf(B) /\ y \in Address \ {a, new} /\ y \in Nat
            /\ getFollowingBlock(B2, y) = getFollowingBlock(B, y)
            /\ B2[y].size = B[y].size /\ B2[y].kind = B[y].kind
            /\ y < a => getFollowingBlock(B, y) <= a
            /\ y >= n \/ y < a
    <2>1. y \in BlocksOf(B) /\ y \in Address
        BY <1>5, <1>7 DEF BlocksOf
    <2>2. y \in Nat
        BY <2>1, NullIsNoAddress
    <2>3. B2[y].size = B[y].size /\ B2[y].kind = B[y].kind
        BY <2>1, <1>7 DEF SplitOff
    <2>4. y < a => getFollowingBlock(B, y) <= a
        BY <2>1, <1>1, BlocksDoNotOverlap
    <2>5. y >= n \/ y < a
        BY <2>1, <2>2, <1>2, <1>3, <1>7
    <2> QED BY <2>1, <2>2, <2>3, <2>4, <2>5, <1>7 DEF getFollowingBlock
<1>8. Tiled(B2)
    <2>1. 0 \in BlocksOf(B2)
        BY <1>1, <1>5 DEF Tiled
    <2>2. ASSUME NEW y \in BlocksOf(B2)
          PROVE /\ B2[y].size >= MinimumBlock
                /\ getFollowingBlock(B2, y) \in BlocksOf(B2) \cup {HeapSize}
                /\ \A z \in y + 1 .. getFollowingBlock(B2, y) - 1 : z \notin BlocksOf(B2)
        <3>1. CASE y = a
            <4>1. B2[a].size >= MinimumBlock
                BY DEF SplitOff
            <4>2. \A z \in a + 1 .. new - 1 : z \notin BlocksOf(B2)
                BY <1>2, <1>3, <1>4, <1>5
            <4> QED BY <3>1, <4>1, <4>2, <1>5, <1>6
        <3>2. CASE y = new
            <4>1. B2[new].size >= MinimumBlock
                BY DEF SplitOff
            <4>2. \A z \in new + 1 .. n - 1 : z \notin BlocksOf(B2)
                BY <1>2, <1>3, <1>4, <1>5
            <4> QED BY <3>2, <4>1, <4>2, <1>3, <1>5, <1>6
        <3>3. CASE y # a /\ y # new
            <4>1. /\ B[y].size >= MinimumBlock
                  /\ getFollowingBlock(B, y) \in BlocksOf(B) \cup {HeapSize}
                  /\ \A z \in y + 1 .. getFollowingBlock(B, y) - 1 : z \notin BlocksOf(B)
                BY <1>1, <1>7, <3>3 DEF Tiled
            <4>2. new \notin y + 1 .. getFollowingBlock(B, y) - 1
                <5>1. getFollowingBlock(B, y) \in Nat
                    BY <1>1, <1>7, <3>3, Extents
                <5>2. CASE y < a
                    BY <5>1, <5>2, <1>2, <1>4, <1>7, <3>3
                <5>3. CASE y >= n
                    BY <5>1, <5>3, <1>2, <1>4, <1>7, <3>3
                <5> QED BY <5>2, <5>3, <1>7, <3>3
            <4> QED BY <1>5, <1>7, <3>3, <4>1, <4>2
        <3> QED BY <3>1, <3>2, <3>3
    <2> QED BY <2>1, <2>2 DEF Tiled
<1>9. ASSUME NEW p, NEW b \in BlocksOf(B), IsBefore(B, p, b), b # n
      PROVE IsBefore(B2, p, b)
    <2>1. CASE b = 0
        BY <2>1, <1>9 DEF IsBefore
    <2>2. CASE b # 0
        <3>1. p \in BlocksOf(B) /\ getFollowingBlock(B, p) = b
            BY <2>2, <1>9 DEF IsBefore
        <3>2. p # a /\ p # new /\ p \in BlocksOf(B2)
            BY <3>1, <1>9, <1>4, <1>5 DEF n
        <3>3. getFollowingBlock(B2, p) = b
            BY <3>1, <3>2, <1>7
        <3> QED BY <3>2, <3>3, <2>2 DEF IsBefore
    <2> QED BY <2>1, <2>2
<1>10. Neighbours(B2)
    <2> SUFFICES ASSUME NEW b \in BlocksOf(B2)
                 PROVE  /\ B2[b].kind \in {"free", "nonCollectible"} => IsBefore(B2, B2[b].back, b)
                        /\ B2[b].kind = "nonCollectible" =>
                              B2[b].forward = NextContiguous(getFollowingBlock(B2, b))
        BY DEF Neighbours
    <2>1. CASE b = a
        <3>1. B2[a].kind = "free" /\ B2[a].back = B[a].back
            BY DEF SplitOff
        <3>2. IsBefore(B, B[a].back, a)
            BY <1>1 DEF Neighbours
        <3>3. IsBefore(B2, B2[a].back, a)
            BY <3>1, <3>2, <1>2, <1>9
        <3> QED BY <2>1, <3>1, <3>3
    <2>2. CASE b = new
        <3>1. B2[new].kind # "free"
            BY DEF SplitOff
        <3>2. B2[new].kind = "nonCollectible" =>
                 B2[new].back = a /\ B2[new].forward = NextContiguous(n)
            BY DEF SplitOff, n
        <3>3. IsBefore(B2, a, new)
            BY <1>2, <1>4, <1>5, <1>6 DEF IsBefore
        <3> QED BY <2>2, <3>1, <3>2, <3>3, <1>6
    <2>3. CASE b # a /\ b # new
        <3>1. /\ B[b].kind \in {"free", "nonCollectible"} => IsBefore(B, B[b].back, b)
              /\ B[b].kind = "nonCollectible" =>
                    B[b].forward = NextContiguous(getFollowingBlock(B, b))
            BY <2>3, <1>7, <1>1 DEF Neighbours
        <3>2. B2[b].kind = "nonCollectible" =>
                 B2[b].forward = NextContiguous(getFollowingBlock(B2, b))
            BY <2>3, <1>7, <3>1 DEF SplitOff
        <3>3. B2[b].back = IF b = n /\ B[b].kind = "nonCollectible" THEN new ELSE B[b].back
            BY <2>3, <1>7 DEF SplitOff, n
        <3>4. CASE b = n
            <4>1. B[n].kind # "free"
                BY <3>4, <2>3, <1>1, <1>7 DEF Apart, n
            <4>2. IsBefore(B2, new, n)
                BY <1>2, <1>4, <1>5, <1>6 DEF IsBefore
            <4> QED BY <2>3, <3>2, <3>3, <3>4, <4>1, <4>2, <1>7
        <3>5. CASE b # n
            BY <2>3, <3>1, <3>2, <3>3, <3>5, <1>7, <1>9
        <3> QED BY <3>4, <3>5
    <2> QED BY <2>1, <2>2, <2>3
<1>11. Apart(B2)
    <2> SUFFICES ASSUME NEW b \in BlocksOf(B2), NEW d \in BlocksOf(B2), B2[b].kind = "free",
                        d = getFollowingBlock(B2, b), B2[d].kind = "free"
                 PROVE  FALSE
        BY DEF Apart
    <2>1. B2[new].kind # "free" /\ B[a].kind = "free"
        BY DEF SplitOff
    <2>2. CASE b = a
        BY <2>1, <2>2, <1>6
    <2>3. CASE b # a
        <3>1. b # new /\ d # new
            BY <2>1
        <3>2. b \in BlocksOf(B) /\ B[b].kind = "free" /\ d = getFollowingBlock(B, b)
            BY <2>3, <3>1, <1>7
        <3>3. d \in BlocksOf(B) /\ B[d].kind = "free"
            BY <2>1, <3>1, <1>7
        <3> QED BY <3>2, <3>3, <1>1 DEF Apart
    <2> QED BY <2>2, <2>3
<1> QED
    BY <1>1, <1>4, <1>5, <1>8, <1>10, <1>11 DEF Geometry

Allocated(B) == BlocksOf(B) \ FreeOf(B)

\* What is joined is one free block.
LEMMA MergedIsFree ==
    ASSUME HeapAssumption, NEW B, NEW B2, Geometry(B),
           NEW x \in BlocksOf(B), NEW n \in BlocksOf(B) \cup {HeapSize}, x < n,
           Merged(B, B2, x, n)
    PROVE  /\ FreeOf(B2) = (FreeOf(B) \ (x .. n - 1)) \cup {x}
           /\ Allocated(B2) = Allocated(B) \ (x .. n - 1)
           /\ \A y \in Allocated(B2) : B2[y].kind = B[y].kind /\ B2[y].size = B[y].size
<1>1. x \in Nat /\ n \in Nat /\ x \in Address
    BY NullIsNoAddress DEF BlocksOf
<1>2. \A y \in Address : y \in Nat
    BY NullIsNoAddress
<1>3. ASSUME NEW y \in Address \ (x .. n - 1)
      PROVE B2[y].kind = B[y].kind /\ B2[y].size = B[y].size
    BY DEF Merged, SameOutside
<1>4. ASSUME NEW y \in x .. n - 1, y \in Address
      PROVE (B2[y].kind = "free" /\ y = x) \/ (B2[y].kind = "none" /\ y # x)
    <2>1. CASE y = x
        <3>1. B2[x].kind = "free"
            BY DEF Merged
        <3> QED BY <2>1, <3>1
    <2>2. CASE y # x
        <3>1. y \in x + 1 .. n - 1
            BY <1>1, <2>2
        <3> QED BY <3>1, <2>2 DEF Merged
    <2> QED BY <2>1, <2>2
<1>5. x \in x .. n - 1
    BY <1>1
<1>6. FreeOf(B2) = (FreeOf(B) \ (x .. n - 1)) \cup {x}
    <2>1. ASSUME NEW y \in Address
          PROVE y \in FreeOf(B2) <=> y \in (FreeOf(B) \ (x .. n - 1)) \cup {x}
        <3>1. CASE y \in x .. n - 1
            BY <3>1, <1>4 DEF FreeOf, BlocksOf
        <3>2. CASE y \notin x .. n - 1
            BY <3>2, <1>3, <1>5 DEF FreeOf, BlocksOf
        <3> QED BY <3>1, <3>2
    <2>2. FreeOf(B2) \subseteq Address /\ FreeOf(B) \subseteq Address
        BY DEF FreeOf, BlocksOf
    <2> QED BY <2>1, <2>2, <1>1
<1>7. Allocated(B2) = Allocated(B) \ (x .. n - 1)
    <2>1. ASSUME NEW y \in Address
          PROVE y \in Allocated(B2) <=> y \in Allocated(B) \ (x .. n - 1)
        <3>1. CASE y \in x .. n - 1
            BY <3>1, <1>4 DEF Allocated, FreeOf, BlocksOf
        <3>2. CASE y \notin x .. n - 1
            BY <3>2, <1>3 DEF Allocated, FreeOf, BlocksOf
        <3> QED BY <3>1, <3>2
    <2>2. Allocated(B2) \subseteq Address /\ Allocated(B) \subseteq Address
        BY DEF Allocated, BlocksOf
    <2> QED BY <2>1, <2>2
<1>8. \A y \in Allocated(B2) : B2[y].kind = B[y].kind /\ B2[y].size = B[y].size
    BY <1>3, <1>7 DEF Allocated, BlocksOf
<1> QED BY <1>6, <1>7, <1>8

-----------------------------------------------------------------------------
(* What the operations do to the fields. *)

LEMMA TellNext_Does ==
    ASSUME HeapAssumption, NEW B \in Memory, NEW n \in Nat, NEW a \in Pointer
    PROVE  /\ TellNext(B, n, a) \in Memory
           /\ \A y \in Address :
                 /\ TellNext(B, n, a)[y].kind = B[y].kind
                 /\ TellNext(B, n, a)[y].size = B[y].size
                 /\ TellNext(B, n, a)[y].forward = B[y].forward
                 /\ TellNext(B, n, a)[y].pPreviousFree = B[y].pPreviousFree
                 /\ TellNext(B, n, a)[y].back =
                        IF y = n /\ B[y].kind = "nonCollectible" THEN a ELSE B[y].back
<1>1. CASE isNotPastHeapEnd(n) /\ isAllocatedNonCollectible(B, n)
    <2>1. TellNext(B, n, a) = [B EXCEPT ![n].back = a]
        BY <1>1 DEF TellNext
    <2>2. n \in Address
        BY <1>1, NullIsNoAddress DEF isNotPastHeapEnd, Address
    <2>3. B[n].kind = "nonCollectible"
        BY <1>1 DEF isAllocatedNonCollectible
    <2> QED BY <2>1, <2>2, <2>3 DEF Memory, Header
<1>2. CASE ~(isNotPastHeapEnd(n) /\ isAllocatedNonCollectible(B, n))
    <2>1. TellNext(B, n, a) = B
        BY <1>2 DEF TellNext
    <2>2. \A y \in Address : y = n => B[y].kind # "nonCollectible"
        BY <1>2, NullIsNoAddress DEF isNotPastHeapEnd, isAllocatedNonCollectible, Address
    <2> QED BY <2>1, <2>2
<1> QED BY <1>1, <1>2

LEMMA Forget_Does ==
    ASSUME HeapAssumption, NEW B \in Memory, NEW S
    PROVE  /\ Forget(B, S) \in Memory
           /\ \A y \in S \cap Address : Forget(B, S)[y] = Garbage
           /\ \A y \in Address \ S : Forget(B, S)[y] = B[y]
<1>1. Garbage \in Header
    BY NullIsNoAddress DEF Garbage, Header, Pointer, AllKinds
<1> QED
    BY <1>1 DEF Forget, Memory

LEMMA MemoryFields ==
    ASSUME HeapAssumption, NEW B \in Memory, NEW a \in Address
    PROVE  /\ B[a].kind \in AllKinds /\ B[a].size \in Nat
           /\ B[a].back \in Pointer /\ B[a].forward \in Pointer
           /\ B[a].pPreviousFree \in Pointer
BY NullIsNoAddress DEF Memory, Header

-----------------------------------------------------------------------------
(* memoryFree. *)

\* The free list holds the blocks in S.
OnFreeList(B, first, S) ==
    \E n \in Nat : \E s \in [1 .. n -> Address] : Linked(B, s, n, first) /\ On(s, n) = S

\* The released block a is part of the free block that begins at x and ends before n.
ReleasedIn(B, H, a, x, n) ==
    /\ x \in BlocksOf(B) /\ n \in BlocksOf(B) \cup {HeapSize} /\ x <= a /\ a < n
    /\ Merged(B, H.block, x, n)
    /\ \A y \in BlocksOf(B) : getFollowingBlock(B, y) = x => B[y].kind # "free"
    /\ \A y \in BlocksOf(B) \cap (x .. n - 1) : y = a \/ B[y].kind = "free"
    /\ OnFreeList(H.block, H.list, (FreeOf(B) \ (x .. n - 1)) \cup {x})

\* What memoryFree reads of the neighbours of a block.
LEMMA AroundBlock ==
    ASSUME HeapAssumption, NEW B, Geometry(B), NEW a \in BlocksOf(B),
           B[a].kind = "nonCollectible"
    PROVE  /\ IsBefore(B, B[a].back, a)
           /\ B[a].back # NULL => /\ B[a].back \in BlocksOf(B) /\ B[a].back < a
                                  /\ getFollowingBlock(B, B[a].back) = a
           /\ B[a].back = NULL => a = 0
           /\ B[a].forward # NULL => /\ B[a].forward \in BlocksOf(B)
                                     /\ B[a].forward = getFollowingBlock(B, a)
           /\ B[a].forward = NULL => getFollowingBlock(B, a) = HeapSize
           /\ getFollowingBlock(B, a) \in BlocksOf(B) \cup {HeapSize}
           /\ B[a].forward # NULL <=> getFollowingBlock(B, a) # HeapSize
<1>1. B \in Memory /\ Tiled(B) /\ Neighbours(B) /\ Apart(B)
    BY DEF Geometry
<1>2. IsBefore(B, B[a].back, a) /\ B[a].forward = NextContiguous(getFollowingBlock(B, a))
    BY <1>1 DEF Neighbours
<1>3. getFollowingBlock(B, a) \in BlocksOf(B) \cup {HeapSize}
    BY <1>1 DEF Tiled
<1>4. getFollowingBlock(B, a) \in Nat /\ getFollowingBlock(B, a) <= HeapSize
    BY <1>1, Extents
<1>5. B[a].forward = IF getFollowingBlock(B, a) = HeapSize THEN NULL
                     ELSE getFollowingBlock(B, a)
    BY <1>2, <1>4, NullIsNoAddress DEF NextContiguous, isNotPastHeapEnd
<1>6. getFollowingBlock(B, a) # HeapSize =>
         getFollowingBlock(B, a) \in BlocksOf(B) /\ getFollowingBlock(B, a) # NULL
    BY <1>3, NullIsNoAddress DEF BlocksOf
<1>7. B[a].back # NULL => B[a].back \in BlocksOf(B) /\ getFollowingBlock(B, B[a].back) = a
    BY <1>2 DEF IsBefore
<1>8. B[a].back # NULL => B[a].back < a
    BY <1>1, <1>7, Extents
<1>9. B[a].back = NULL => a = 0
    BY <1>1, <1>2, NullIsNoAddress DEF IsBefore, BlocksOf
<1> QED BY <1>2, <1>3, <1>5, <1>6, <1>7, <1>8, <1>9

\* The blocks from one to the end of another that follows it.
LEMMA OneBlock ==
    ASSUME HeapAssumption, NEW B \in Memory, Tiled(B), NEW a \in BlocksOf(B),
           NEW y \in BlocksOf(B) \cap (a .. getFollowingBlock(B, a) - 1)
    PROVE  y = a
<1>1. y \in Nat /\ a \in Nat /\ a <= y
    BY Extents
<1>2. getFollowingBlock(B, a) \in Nat /\ y < getFollowingBlock(B, a)
    BY <1>1, Extents
<1>3. ~(a < y)
    BY <1>1, <1>2, BlocksDoNotOverlap
<1> QED BY <1>1, <1>3

\* The block before a block is the only one that ends there.
LEMMA EndsWhereItBegins ==
    ASSUME HeapAssumption, NEW B \in Memory, Tiled(B), NEW a \in BlocksOf(B),
           NEW p, IsBefore(B, p, a),
           NEW y \in BlocksOf(B), getFollowingBlock(B, y) = a
    PROVE  y = p /\ p # NULL
<1>1. y < a /\ y \in Nat /\ y \in Address /\ a \in Nat /\ a \in Address
    BY Extents
<1>2. IsBefore(B, y, a) /\ a \in 0 .. HeapSize
    BY <1>1, NullIsNoAddress DEF IsBefore, Address
<1>3. y = p
    BY <1>2, OnePredecessor
<1> QED BY <1>1, <1>3, NullIsNoAddress

\* Nothing is free beside it.
LEMMA PutFirst_Does ==
    ASSUME HeapAssumption, NEW B, Geometry(B), NEW first, OnFreeList(B, first, FreeOf(B)),
           NEW a \in BlocksOf(B), B[a].kind = "nonCollectible",
           B[a].back # NULL => B[B[a].back].kind # "free",
           B[a].forward # NULL => B[B[a].forward].kind # "free"
    PROVE  ReleasedIn(B, PutFirst([block |-> B, list |-> first], a), a, a,
                      getFollowingBlock(B, a))
<1> DEFINE H == PutFirst([block |-> B, list |-> first], a)
           n == getFollowingBlock(B, a)
           B1 == IF first = NULL THEN B ELSE [B EXCEPT ![first].pPreviousFree = a]
<1>1. B \in Memory /\ Tiled(B) /\ Neighbours(B) /\ Apart(B)
    BY DEF Geometry
<1>2. /\ a \in Address /\ a \in Nat /\ n \in Nat /\ a < n /\ n = a + B[a].size
      /\ B[a].size \in Nat /\ n <= HeapSize /\ n \in BlocksOf(B) \cup {HeapSize}
    BY <1>1, Extents, AroundBlock
<1>3. PICK m \in Nat : \E s \in [1 .. m -> Address] :
         Linked(B, s, m, first) /\ On(s, m) = FreeOf(B)
    BY DEF OnFreeList
<1>30. PICK s \in [1 .. m -> Address] : Linked(B, s, m, first) /\ On(s, m) = FreeOf(B)
    BY <1>3
<1>4. first \in Address \cup {NULL} /\ (first # NULL => first \in FreeOf(B))
    <2>1. first \in Address \cup {NULL}
        BY <1>30, Ends
    <2>2. first = NULL <=> m = 0
        BY <1>30, Ends
    <2>3. first = Place(s, m, 1)
        BY <1>30 DEF Linked
    <2>4. m # 0 => s[1] \in On(s, m) /\ first = s[1]
        BY <2>3 DEF On, Place
    <2> QED BY <1>30, <2>1, <2>2, <2>4
<1>5. a \notin FreeOf(B) /\ a # first
    BY <1>2, <1>4, NullIsNoAddress DEF FreeOf
<1>6. /\ B1 \in Memory
      /\ \A y \in Address :
            /\ B1[y].kind = B[y].kind /\ B1[y].size = B[y].size /\ B1[y].back = B[y].back
            /\ B1[y].forward = B[y].forward
            /\ B1[y].pPreviousFree = IF y = first THEN a ELSE B[y].pPreviousFree
    BY <1>1, <1>2, <1>4, NullIsNoAddress DEF Memory, Header, Pointer
<1>7. H = [block |-> [B1 EXCEPT ![a].kind = "free", ![a].forward = first,
                                ![a].pPreviousFree = NULL],
           list |-> a]
    BY DEF PutFirst
<1> HIDE DEF B1, H, n
<1>8. /\ H.block \in Memory
      /\ H.block[a].kind = "free" /\ H.block[a].size = B[a].size
      /\ H.block[a].back = B[a].back
      /\ H.block[a].forward = first /\ H.block[a].pPreviousFree = NULL
      /\ \A y \in Address \ {a} : H.block[y] = B1[y]
      /\ H.list = a
    <2>1. first \in Pointer /\ NULL \in Pointer /\ "free" \in AllKinds
        BY <1>4 DEF Pointer, AllKinds
    <2>2. H.block = [B1 EXCEPT ![a].kind = "free", ![a].forward = first,
                               ![a].pPreviousFree = NULL]
        BY <1>7
    <2>3. H.list = a
        BY <1>7
    <2>4. H.block \in Memory
        BY <1>2, <1>6, <2>1, <2>2 DEF Memory, Header
    <2> QED BY <1>2, <1>6, <2>2, <2>3, <2>4 DEF Memory, Header
<1>9. Merged(B, H.block, a, n)
    <2>1. \A y \in a + 1 .. n - 1 : H.block[y].kind = "none"
        <3> SUFFICES ASSUME NEW y \in a + 1 .. n - 1 PROVE H.block[y].kind = "none"
            OBVIOUS
        <3>1. y \in Address \ {a}
            BY <1>2, NullIsNoAddress DEF Address
        <3>2. y \notin BlocksOf(B)
            BY <1>1 DEF Tiled, n
        <3> QED BY <3>1, <3>2, <1>6, <1>8 DEF BlocksOf
    <2>2. SameOutside(B, H.block, a, n)
        BY <1>2, <1>6, <1>8 DEF SameOutside
    <2>3. IsBefore(B, H.block[a].back, a)
        BY <1>8, AroundBlock
    <2>4. n # HeapSize => n = B[a].forward /\ B[n].kind # "free"
        BY AroundBlock DEF n
    <2>5. n # HeapSize /\ B[n].kind = "nonCollectible" => H.block[n].back = a
        <3> SUFFICES ASSUME n # HeapSize, B[n].kind = "nonCollectible" PROVE H.block[n].back = a
            OBVIOUS
        <3>1. n \in BlocksOf(B) /\ n \in Address
            BY <1>2 DEF BlocksOf
        <3>2. IsBefore(B, B[n].back, n) /\ IsBefore(B, a, n)
            BY <3>1, <1>1, <1>2 DEF Neighbours, IsBefore, n
        <3>3. B[n].back = a
            BY <3>1, <3>2, <1>1, <1>2, OnePredecessor
        <3> QED BY <3>1, <3>3, <1>2, <1>6, <1>8
    <2>6. H.block[a].size = n - a
        BY <1>2, <1>8
    <2> QED BY <1>8, <2>1, <2>2, <2>3, <2>4, <2>5, <2>6 DEF Merged
<1>10. \A y \in BlocksOf(B) : getFollowingBlock(B, y) = a => B[y].kind # "free"
    <2> SUFFICES ASSUME NEW y \in BlocksOf(B), getFollowingBlock(B, y) = a
                 PROVE  B[y].kind # "free"
        OBVIOUS
    <2>1. y = B[a].back /\ B[a].back # NULL
        BY <1>1, EndsWhereItBegins, AroundBlock
    <2> QED BY <2>1
<1>11. \A y \in BlocksOf(B) \cap (a .. n - 1) : y = a
    BY <1>1, OneBlock DEF n
<1>12. OnFreeList(H.block, H.list, (FreeOf(B) \ (a .. n - 1)) \cup {a})
    <2>1. FreeOf(B) \ (a .. n - 1) = FreeOf(B)
        BY <1>5, <1>11 DEF FreeOf
    <2>2. \A y \in On(s, m) : /\ H.block[y].forward = B[y].forward
                              /\ H.block[y].pPreviousFree = IF y = first THEN a
                                                            ELSE B[y].pPreviousFree
        BY <1>30, <1>5, <1>6, <1>8 DEF FreeOf, BlocksOf
    <2>3. Linked(H.block, Before(a, s, m), m + 1, a)
        BY <1>2, <1>30, <1>5, <1>8, <2>2, Pushed
    <2>4. On(Before(a, s, m), m + 1) = On(s, m) \cup {a}
        BY <1>2, <1>30, <1>5, <1>8, <2>2, Pushed
    <2>5. Before(a, s, m) \in [1 .. m + 1 -> Address] /\ m + 1 \in Nat
        BY <2>3 DEF Linked
    <2> QED BY <1>30, <1>8, <2>1, <2>3, <2>4, <2>5 DEF OnFreeList
<1> QED
    BY <1>2, <1>9, <1>10, <1>11, <1>12 DEF ReleasedIn, H, n

\* The list is left as it is by what does not touch the fields of its blocks.
LEMMA SameList ==
    ASSUME HeapAssumption, NEW B, NEW B2, NEW first, NEW S, OnFreeList(B, first, S),
           \A y \in S : /\ B2[y].forward = B[y].forward
                        /\ B2[y].pPreviousFree = B[y].pPreviousFree
    PROVE  OnFreeList(B2, first, S)
<1>1. PICK m \in Nat : \E s \in [1 .. m -> Address] : Linked(B, s, m, first) /\ On(s, m) = S
    BY DEF OnFreeList
<1>2. PICK s \in [1 .. m -> Address] : Linked(B, s, m, first) /\ On(s, m) = S
    BY <1>1
<1>3. Linked(B2, s, m, first)
    BY <1>2, LinkedSame
<1> QED BY <1>2, <1>3 DEF OnFreeList

\* Only the block before it is free.
LEMMA JoinPrevious_Does ==
    ASSUME HeapAssumption, NEW B, Geometry(B), NEW first, OnFreeList(B, first, FreeOf(B)),
           NEW a \in BlocksOf(B), B[a].kind = "nonCollectible",
           B[a].back # NULL, B[B[a].back].kind = "free",
           B[a].forward # NULL => B[B[a].forward].kind # "free"
    PROVE  ReleasedIn(B, JoinPrevious([block |-> B, list |-> first], a, B[a].back, B[a].forward),
                      a, B[a].back, getFollowingBlock(B, a))
<1> DEFINE p == B[a].back
           next == B[a].forward
           n == getFollowingBlock(B, a)
           B1 == IF next = NULL THEN B ELSE TellNext(B, next, p)
           B2 == [B1 EXCEPT ![p].size = @ + B1[a].size]
           H == JoinPrevious([block |-> B, list |-> first], a, p, next)
<1>1. B \in Memory /\ Tiled(B) /\ Neighbours(B) /\ Apart(B)
    BY DEF Geometry
<1>2. /\ a \in Address /\ a \in Nat /\ n \in Nat /\ a < n /\ n = a + B[a].size
      /\ B[a].size \in Nat /\ n <= HeapSize /\ n \in BlocksOf(B) \cup {HeapSize}
    BY <1>1, Extents, AroundBlock
<1>3. /\ p \in BlocksOf(B) /\ getFollowingBlock(B, p) = a /\ p \in Address /\ p \in Nat
      /\ p < a /\ B[p].size \in Nat /\ a = p + B[p].size /\ p \in Pointer
    BY <1>1, Extents, AroundBlock DEF Pointer
<1>4. /\ next # NULL => next = n /\ n \in BlocksOf(B) /\ n \in Nat
      /\ next = NULL => n = HeapSize
    BY <1>2, AroundBlock
<1>5. /\ B1 \in Memory
      /\ \A y \in Address :
            /\ B1[y].kind = B[y].kind /\ B1[y].size = B[y].size
            /\ B1[y].forward = B[y].forward /\ B1[y].pPreviousFree = B[y].pPreviousFree
            /\ B1[y].back = IF y = n /\ B[y].kind = "nonCollectible" THEN p ELSE B[y].back
    <2>1. CASE next = NULL
        <3>1. B1 = B /\ n \notin Address
            BY <2>1, <1>4, NullIsNoAddress DEF Address
        <3> HIDE DEF B1
        <3> QED BY <3>1, <1>1
    <2>2. CASE next # NULL
        <3>1. B1 = TellNext(B, n, p)
            BY <2>2, <1>4
        <3> HIDE DEF B1, n, p
        <3>2. /\ TellNext(B, n, p) \in Memory
              /\ \A y \in Address :
                    /\ TellNext(B, n, p)[y].kind = B[y].kind
                    /\ TellNext(B, n, p)[y].size = B[y].size
                    /\ TellNext(B, n, p)[y].forward = B[y].forward
                    /\ TellNext(B, n, p)[y].pPreviousFree = B[y].pPreviousFree
                    /\ TellNext(B, n, p)[y].back =
                           IF y = n /\ B[y].kind = "nonCollectible" THEN p ELSE B[y].back
            BY <1>1, <1>2, <1>3, TellNext_Does
        <3> QED BY <3>1, <3>2
    <2> QED BY <2>1, <2>2
<1>6. H = [block |-> Forget(B2, {a}), list |-> first]
    BY DEF JoinPrevious
<1> HIDE DEF B1
<1>7. /\ B2 \in Memory /\ B2[p].size = n - p
      /\ \A y \in Address :
            /\ B2[y].kind = B[y].kind /\ B2[y].forward = B[y].forward
            /\ B2[y].pPreviousFree = B[y].pPreviousFree
            /\ B2[y].back = B1[y].back
            /\ y # p => B2[y].size = B[y].size
    <2>1. B1[p].size + B1[a].size = n - p /\ n - p \in 0 .. HeapSize
        BY <1>2, <1>3, <1>5, NullIsNoAddress
    <2>2. B2 = [B1 EXCEPT ![p].size = n - p]
        BY <1>3, <1>5, <2>1 DEF Memory, Header
    <2> HIDE DEF B2, p, n
    <2> QED BY <1>3, <1>5, <2>1, <2>2 DEF Memory, Header
<1> HIDE DEF B2, H
<1>8. /\ H.block \in Memory /\ H.list = first /\ H.block[a].kind = "none"
      /\ \A y \in Address \ {a} : H.block[y] = B2[y]
    <2>1. H.block = Forget(B2, {a}) /\ H.list = first
        BY <1>6
    <2>2. Forget(B2, {a}) \in Memory
        BY <1>7, Forget_Does
    <2>3. Forget(B2, {a})[a] = Garbage
        BY <1>2, <1>7, Forget_Does
    <2>4. \A y \in Address \ {a} : Forget(B2, {a})[y] = B2[y]
        BY <1>7, Forget_Does
    <2> QED BY <2>1, <2>2, <2>3, <2>4 DEF Garbage
<1>9. \A y \in BlocksOf(B) \cap (p .. n - 1) : y = p \/ y = a
    <2> SUFFICES ASSUME NEW y \in BlocksOf(B) \cap (p .. n - 1) PROVE y = p \/ y = a
        OBVIOUS
    <2>1. y \in p .. a - 1 \/ y \in a .. n - 1
        BY <1>2, <1>3
    <2>2. y \in p .. getFollowingBlock(B, p) - 1 => y = p
        BY <1>1, <1>3, OneBlock
    <2>3. y \in a .. getFollowingBlock(B, a) - 1 => y = a
        BY <1>1, OneBlock
    <2> QED BY <1>3, <2>1, <2>2, <2>3 DEF n
<1>10. B[p].kind = "free" /\ \A y \in BlocksOf(B) : getFollowingBlock(B, y) = p => B[y].kind # "free"
    BY <1>1, <1>3 DEF Apart
<1>11. Merged(B, H.block, p, n)
    <2>1. \A y \in p + 1 .. n - 1 : H.block[y].kind = "none"
        <3> SUFFICES ASSUME NEW y \in p + 1 .. n - 1, y # a PROVE H.block[y].kind = "none"
            BY <1>8
        <3>1. y \in Address \ {a} /\ y # p /\ y \in p .. n - 1
            BY <1>2, <1>3, NullIsNoAddress DEF Address
        <3>2. y \notin BlocksOf(B)
            BY <1>9, <3>1
        <3> QED BY <3>1, <3>2, <1>7, <1>8 DEF BlocksOf
    <2>2. SameOutside(B, H.block, p, n)
        <3> SUFFICES ASSUME NEW y \in Address \ (p .. n - 1)
                     PROVE  /\ H.block[y].kind = B[y].kind /\ H.block[y].size = B[y].size
                            /\ y # n => H.block[y].back = B[y].back
                            /\ H.block[y].forward = B[y].forward
            BY DEF SameOutside
        <3>1. y # a /\ y # p
            BY <1>2, <1>3
        <3> QED BY <3>1, <1>5, <1>7, <1>8
    <2>3. /\ H.block[p].kind = "free" /\ H.block[p].size = n - p
          /\ IsBefore(B, H.block[p].back, p)
        <3>1. IsBefore(B, B[p].back, p)
            BY <1>1, <1>3, <1>10 DEF Neighbours
        <3> QED BY <3>1, <1>2, <1>3, <1>5, <1>7, <1>8, <1>10
    <2>4. n # HeapSize => B[n].kind # "free"
        BY <1>4 
    <2>5. n # HeapSize /\ B[n].kind = "nonCollectible" => H.block[n].back = p
        BY <1>2, <1>4, <1>5, <1>7, <1>8, NullIsNoAddress DEF BlocksOf
    <2> QED BY <1>8, <2>1, <2>2, <2>3, <2>4, <2>5 DEF Merged
<1>12. (FreeOf(B) \ (p .. n - 1)) \cup {p} = FreeOf(B)
    <2>1. p \in FreeOf(B) /\ a \notin FreeOf(B) /\ FreeOf(B) \subseteq BlocksOf(B)
        BY <1>3, <1>10 DEF FreeOf
    <2> QED BY <2>1, <1>9
<1>13. OnFreeList(H.block, H.list, FreeOf(B))
    <2>1. \A y \in FreeOf(B) : y \in Address \ {a}
        BY DEF FreeOf, BlocksOf
    <2> QED BY <2>1, <1>7, <1>8, SameList
<1>14. \A y \in BlocksOf(B) \cap (p .. n - 1) : y = a \/ B[y].kind = "free"
    BY <1>9, <1>10
<1>15. ReleasedIn(B, H, a, p, n)
    <2> HIDE DEF p, n
    <2>1. p <= a /\ n \in BlocksOf(B) \cup {HeapSize}
        BY <1>2, <1>3
    <2>2. \A y \in BlocksOf(B) : getFollowingBlock(B, y) = p => B[y].kind # "free"
        BY <1>10
    <2>3. OnFreeList(H.block, H.list, (FreeOf(B) \ (p .. n - 1)) \cup {p})
        BY <1>12, <1>13, Zenon
    <2> QED BY <1>2, <1>3, <2>1, <2>2, <2>3, <1>11, <1>14 DEF ReleasedIn
<1> QED
    BY <1>15 DEF H, n, p

\* A block of the free list has a place on it.
LEMMA PlaceOnList ==
    ASSUME HeapAssumption, NEW B, NEW first, NEW S, OnFreeList(B, first, S), NEW a \in S
    PROVE  \E m \in Nat : \E s \in [1 .. m -> Address] : \E k \in 1 .. m :
              Linked(B, s, m, first) /\ On(s, m) = S /\ s[k] = a
<1>1. PICK m \in Nat : \E s \in [1 .. m -> Address] : Linked(B, s, m, first) /\ On(s, m) = S
    BY DEF OnFreeList
<1>2. PICK s \in [1 .. m -> Address] : Linked(B, s, m, first) /\ On(s, m) = S
    BY <1>1
<1>3. PICK k \in 1 .. m : s[k] = a
    BY <1>2 DEF On
<1> QED BY <1>2, <1>3

\* The pointers of an entry stay on the list.
LEMMA OnListPointers ==
    ASSUME HeapAssumption, NEW B, NEW s, NEW m, NEW first, Linked(B, s, m, first),
           NEW k \in 1 .. m
    PROVE  /\ B[s[k]].pPreviousFree \in On(s, m) \cup {NULL}
           /\ B[s[k]].forward \in On(s, m) \cup {NULL}
           /\ B[s[k]].pPreviousFree = NULL <=> k = 1
           /\ B[s[k]].forward = NULL <=> k = m
<1>1. /\ B[s[k]].pPreviousFree = Place(s, m, k - 1) /\ B[s[k]].forward = Place(s, m, k + 1)
      /\ m \in Nat
    BY DEF Linked
<1>2. \A j \in Int : Place(s, m, j) \in On(s, m) \cup {NULL}
    BY DEF Place, On
<1>3. \A j \in 1 .. m : Place(s, m, j - 1) = NULL <=> j = 1
    BY Ends
<1>4. \A j \in 1 .. m : Place(s, m, j + 1) = NULL <=> j = m
    BY Ends
<1>5. k - 1 \in Int /\ k + 1 \in Int
    BY <1>1
<1> QED BY <1>1, <1>2, <1>3, <1>4, <1>5, Zenon

\* Only the block after it is free.
LEMMA JoinNext_Does ==
    ASSUME HeapAssumption, NEW B, Geometry(B), NEW first, OnFreeList(B, first, FreeOf(B)),
           NEW a \in BlocksOf(B), B[a].kind = "nonCollectible",
           B[a].back # NULL => B[B[a].back].kind # "free",
           B[a].forward # NULL, B[B[a].forward].kind = "free"
    PROVE  ReleasedIn(B, JoinNext([block |-> B, list |-> first], a, B[a].forward), a, a,
                      getFollowingBlock(B, B[a].forward))
<1> DEFINE next == B[a].forward
           n == getFollowingBlock(B, next)
           before == B[next].pPreviousFree
           after == B[next].forward
           B1 == IF before = NULL THEN B ELSE [B EXCEPT ![before].forward = a]
           B2 == IF after = NULL THEN B1 ELSE [B1 EXCEPT ![after].pPreviousFree = a]
           B3 == TellNext(B2, getFollowingBlock(B2, next), a)
           B4 == [B3 EXCEPT ![a].kind = "free", ![a].pPreviousFree = before,
                            ![a].forward = after, ![a].size = @ + B3[next].size]
           H == JoinNext([block |-> B, list |-> first], a, next)
<1>1. B \in Memory /\ Tiled(B) /\ Neighbours(B) /\ Apart(B)
    BY DEF Geometry
<1>2. /\ next \in BlocksOf(B) /\ next = getFollowingBlock(B, a) /\ next \in FreeOf(B)
      /\ a \in Address /\ a \in Nat /\ a \in Pointer /\ a < next /\ next = a + B[a].size
      /\ B[a].size \in Nat
    BY <1>1, Extents, AroundBlock DEF FreeOf, Pointer
<1>3. /\ next \in Address /\ next \in Nat /\ next < n /\ n \in Nat /\ n <= HeapSize
      /\ B[next].size \in Nat /\ n = next + B[next].size
      /\ n \in BlocksOf(B) \cup {HeapSize}
    BY <1>1, <1>2, Extents DEF Tiled
<1>4. PICK m \in Nat : \E s \in [1 .. m -> Address] : \E k \in 1 .. m :
              Linked(B, s, m, first) /\ On(s, m) = FreeOf(B) /\ s[k] = next
    BY <1>2, PlaceOnList
<1>5. PICK s \in [1 .. m -> Address] : \E k \in 1 .. m :
              Linked(B, s, m, first) /\ On(s, m) = FreeOf(B) /\ s[k] = next
    BY <1>4
<1>6. PICK k \in 1 .. m : Linked(B, s, m, first) /\ On(s, m) = FreeOf(B) /\ s[k] = next
    BY <1>5
<1>7. /\ before \in FreeOf(B) \cup {NULL} /\ after \in FreeOf(B) \cup {NULL}
      /\ before = NULL <=> k = 1
    BY <1>6, OnListPointers
<1>8. /\ FreeOf(B) \subseteq Address /\ a \notin FreeOf(B) /\ a # before /\ a # after
      /\ FreeOf(B) \subseteq BlocksOf(B)
    BY <1>2, <1>7, NullIsNoAddress DEF FreeOf, BlocksOf
<1>9. H = [block |-> Forget(B4, {next}), list |-> IF before = NULL THEN a ELSE first]
    <2> DEFINE R == [block |-> B, list |-> first]
    <2>1. R.block = B /\ R.list = first
        OBVIOUS
    <2> HIDE DEF R
    <2>2. JoinNext(R, a, next) =
              [block |-> Forget(B4, {next}), list |-> IF before = NULL THEN a ELSE first]
        BY <2>1 DEF JoinNext
    <2> QED BY <2>2 DEF R
<1> HIDE DEF n, before, after, next
<1>10. /\ B1 \in Memory
       /\ \A y \in Address :
             /\ B1[y].kind = B[y].kind /\ B1[y].size = B[y].size /\ B1[y].back = B[y].back
             /\ B1[y].forward = IF y = before THEN a ELSE B[y].forward
             /\ B1[y].pPreviousFree = B[y].pPreviousFree
    BY <1>1, <1>2, <1>7, <1>8, NullIsNoAddress DEF Memory, Header
<1> HIDE DEF B1
<1>11. /\ B2 \in Memory
       /\ \A y \in Address :
             /\ B2[y].kind = B[y].kind /\ B2[y].size = B[y].size /\ B2[y].back = B[y].back
             /\ B2[y].forward = IF y = before THEN a ELSE B[y].forward
             /\ B2[y].pPreviousFree = IF y = after THEN a ELSE B[y].pPreviousFree
    <2>1. CASE after = NULL
        <3>1. B2 = B1 /\ \A y \in Address : y # after
            BY <2>1, NullIsNoAddress
        <3> HIDE DEF B2
        <3> QED BY <3>1, <1>10
    <2>2. CASE after # NULL
        <3>1. B2 = [B1 EXCEPT ![after].pPreviousFree = a] /\ after \in Address
            BY <2>2, <1>7, <1>8
        <3> HIDE DEF B2
        <3>2. B2 \in Memory
            BY <1>2, <1>10, <3>1 DEF Memory, Header
        <3> QED BY <1>2, <1>10, <3>1, <3>2 DEF Memory, Header
    <2> QED BY <2>1, <2>2
<1> HIDE DEF B2
<1>12. getFollowingBlock(B2, next) = n
    BY <1>3, <1>11 DEF getFollowingBlock
<1>13. B3 = TellNext(B2, n, a)
    BY <1>12
<1> HIDE DEF B3
<1>14. /\ B3 \in Memory
       /\ \A y \in Address :
             /\ B3[y].kind = B[y].kind /\ B3[y].size = B[y].size
             /\ B3[y].back = IF y = n /\ B[y].kind = "nonCollectible" THEN a ELSE B[y].back
             /\ B3[y].forward = IF y = before THEN a ELSE B[y].forward
             /\ B3[y].pPreviousFree = IF y = after THEN a ELSE B[y].pPreviousFree
    <2>1. /\ TellNext(B2, n, a) \in Memory
          /\ \A y \in Address :
                /\ TellNext(B2, n, a)[y].kind = B2[y].kind
                /\ TellNext(B2, n, a)[y].size = B2[y].size
                /\ TellNext(B2, n, a)[y].forward = B2[y].forward
                /\ TellNext(B2, n, a)[y].pPreviousFree = B2[y].pPreviousFree
                /\ TellNext(B2, n, a)[y].back =
                       IF y = n /\ B2[y].kind = "nonCollectible" THEN a ELSE B2[y].back
        BY <1>2, <1>3, <1>11, TellNext_Does
    <2> QED BY <1>11, <1>13, <2>1
<1>15. /\ B4 \in Memory /\ B4[a].kind = "free" /\ B4[a].size = n - a
       /\ B4[a].back = B[a].back /\ B4[a].forward = after /\ B4[a].pPreviousFree = before
       /\ \A y \in Address \ {a} : B4[y] = B3[y]
    <2>1. B3[a].size + B3[next].size = n - a /\ n - a \in 0 .. HeapSize
        <3>1. B3[a].size = B[a].size /\ B3[next].size = B[next].size
            BY <1>2, <1>3, <1>14
        <3>2. n = a + B[a].size + B[next].size
            BY <1>2, <1>3
        <3>3. n - a = B[a].size + B[next].size /\ n - a \in 0 .. HeapSize
            <4>1. /\ a \in Nat /\ B[a].size \in Nat /\ B[next].size \in Nat
                  /\ n \in Nat /\ n <= HeapSize /\ HeapSize \in Nat
                BY <1>2, <1>3, NullIsNoAddress
            <4> QED BY <3>2, <4>1, DistanceIsSum
        <3> QED BY <3>1, <3>3
    <2>2. B4 = [B3 EXCEPT ![a].kind = "free", ![a].pPreviousFree = before,
                          ![a].forward = after, ![a].size = n - a]
        BY <1>2, <1>14, <2>1 DEF Memory, Header
    <2>3. "free" \in AllKinds /\ before \in Pointer /\ after \in Pointer
        BY <1>7, <1>8 DEF AllKinds, Pointer
    <2>4. a # n
        BY <1>2, <1>3
    <2> HIDE DEF B4
    <2>5. B4 \in Memory
        <3>1. B3[a] \in Header
            BY <1>2, <1>14 DEF Memory
        <3>2. [B3[a] EXCEPT !.kind = "free", !.pPreviousFree = before,
                            !.forward = after, !.size = n - a] \in Header
            BY <2>1, <2>3, <3>1 DEF Header
        <3>3. B4 = [B3 EXCEPT ![a] = [B3[a] EXCEPT !.kind = "free", !.pPreviousFree = before,
                                                   !.forward = after, !.size = n - a]]
            BY <1>2, <1>14, <2>2 DEF Memory, Header
        <3> QED BY <1>2, <1>14, <3>2, <3>3 DEF Memory
    <2> QED BY <1>2, <1>14, <2>2, <2>4, <2>5 DEF Memory, Header
<1> HIDE DEF B4, H
<1>16. /\ H.block \in Memory /\ H.list = (IF before = NULL THEN a ELSE first)
       /\ H.block[next].kind = "none"
       /\ \A y \in Address \ {next} : H.block[y] = B4[y]
    <2>1. H.block = Forget(B4, {next}) /\ H.list = IF before = NULL THEN a ELSE first
        BY <1>9
    <2>2. Forget(B4, {next}) \in Memory
        BY <1>15, Forget_Does
    <2>3. Forget(B4, {next})[next] = Garbage
        BY <1>3, <1>15, Forget_Does
    <2>4. \A y \in Address \ {next} : Forget(B4, {next})[y] = B4[y]
        BY <1>15, Forget_Does
    <2> QED BY <2>1, <2>2, <2>3, <2>4 DEF Garbage
<1>17. \A y \in BlocksOf(B) \cap (a .. n - 1) : y = a \/ y = next
    <2> SUFFICES ASSUME NEW y \in BlocksOf(B) \cap (a .. n - 1) PROVE y = a \/ y = next
        OBVIOUS
    <2>1. y \in a .. next - 1 \/ y \in next .. n - 1
        BY <1>2, <1>3
    <2>2. y \in a .. getFollowingBlock(B, a) - 1 => y = a
        BY <1>1, OneBlock
    <2>3. y \in next .. getFollowingBlock(B, next) - 1 => y = next
        BY <1>1, <1>2, OneBlock
    <2> QED BY <1>2, <2>1, <2>2, <2>3 DEF n
<1>18. \A y \in BlocksOf(B) : getFollowingBlock(B, y) = a => B[y].kind # "free"
    BY <1>1, EndsWhereItBegins, AroundBlock
<1>19. Merged(B, H.block, a, n)
    <2>1. \A y \in a + 1 .. n - 1 : H.block[y].kind = "none"
        <3> SUFFICES ASSUME NEW y \in a + 1 .. n - 1, y # next PROVE H.block[y].kind = "none"
            BY <1>16
        <3>1. y \in Address \ {next} /\ y # a /\ y \in a .. n - 1
            BY <1>2, <1>3, NullIsNoAddress DEF Address
        <3>2. y \notin BlocksOf(B)
            BY <1>17, <3>1
        <3> QED BY <3>1, <3>2, <1>14, <1>15, <1>16 DEF BlocksOf
    <2>2. SameOutside(B, H.block, a, n)
        <3> SUFFICES ASSUME NEW y \in Address \ (a .. n - 1)
                     PROVE  /\ H.block[y].kind = B[y].kind /\ H.block[y].size = B[y].size
                            /\ y # n => H.block[y].back = B[y].back
                            /\ B[y].kind = "nonCollectible" => H.block[y].forward = B[y].forward
            BY DEF SameOutside
        <3>1. y # a /\ y # next
            BY <1>2, <1>3
        <3>2. B[y].kind = "nonCollectible" => y # before
            BY <1>7, NullIsNoAddress DEF FreeOf
        <3> QED BY <3>1, <3>2, <1>14, <1>15, <1>16
    <2>3. /\ H.block[a].kind = "free" /\ H.block[a].size = n - a
          /\ IsBefore(B, H.block[a].back, a)
        <3>1. IsBefore(B, B[a].back, a) /\ a # next
            BY <1>2, AroundBlock
        <3> QED BY <3>1, <1>2, <1>15, <1>16
    <2>4. n # HeapSize => B[n].kind # "free"
        BY <1>1, <1>2, <1>3 DEF Apart, FreeOf, n
    <2>5. n # HeapSize /\ B[n].kind = "nonCollectible" => H.block[n].back = a
        <3> SUFFICES ASSUME n # HeapSize, B[n].kind = "nonCollectible" PROVE H.block[n].back = a
            OBVIOUS
        <3>1. n \in Address /\ n # a /\ n # next
            BY <1>2, <1>3 DEF BlocksOf
        <3> QED BY <3>1, <1>14, <1>15, <1>16
    <2> QED BY <1>16, <2>1, <2>2, <2>3, <2>4, <2>5 DEF Merged
<1>20. (FreeOf(B) \ (a .. n - 1)) \cup {a} = (FreeOf(B) \ {next}) \cup {a}
    BY <1>2, <1>3, <1>8, <1>17
<1>21. OnFreeList(H.block, H.list, (FreeOf(B) \ {next}) \cup {a})
    <2>1. \A y \in On(s, m) \ {s[k]} :
             /\ H.block[y].forward = IF y = B[s[k]].pPreviousFree THEN a ELSE B[y].forward
             /\ H.block[y].pPreviousFree = IF y = B[s[k]].forward THEN a
                                           ELSE B[y].pPreviousFree
        BY <1>6, <1>8, <1>14, <1>15, <1>16 DEF before, after
    <2>2. /\ H.block[a].forward = B[s[k]].forward
          /\ H.block[a].pPreviousFree = B[s[k]].pPreviousFree
        BY <1>2, <1>6, <1>15, <1>16 DEF before, after
    <2>3. a \in Address \ On(s, m)
        BY <1>2, <1>6, <1>8
    <2>4. Linked(H.block, InPlaceOf(s, m, k, a), m, IF k = 1 THEN a ELSE first)
        BY <1>6, <2>1, <2>2, <2>3, Replaced
    <2>5. On(InPlaceOf(s, m, k, a), m) = (On(s, m) \ {s[k]}) \cup {a}
        <3>1. \A i, j \in 1 .. m : s[i] = s[j] => i = j
            BY <1>6 DEF Linked
        <3> QED BY <2>3, <3>1, InPlaceOne
    <2>6. InPlaceOf(s, m, k, a) \in [1 .. m -> Address]
        BY <2>4 DEF Linked
    <2>7. H.list = IF k = 1 THEN a ELSE first
        BY <1>7, <1>16
    <2> QED BY <1>6, <2>4, <2>5, <2>6, <2>7 DEF OnFreeList
<1>22. \A y \in BlocksOf(B) \cap (a .. n - 1) : y = a \/ B[y].kind = "free"
    BY <1>2, <1>17 DEF FreeOf
<1>23. ReleasedIn(B, H, a, a, n)
    <2>1. a <= a /\ a < n
        BY <1>2, <1>3
    <2> QED BY <1>3, <2>1, <1>18, <1>19, <1>20, <1>21, <1>22 DEF ReleasedIn
<1> QED
    BY <1>23 DEF H, n, next

\* Only the list's pointers of its blocks, which are S, differ.
SameButLinks(B, B2, S) ==
    /\ B2 \in Memory
    /\ \A x \in Address :
          /\ B2[x].size = B[x].size /\ B2[x].kind = B[x].kind /\ B2[x].back = B[x].back
          /\ x \notin S => /\ B2[x].forward = B[x].forward
                          /\ B2[x].pPreviousFree = B[x].pPreviousFree

\* Only links of free blocks were written.
LEMMA LinksKeep ==
    ASSUME HeapAssumption, NEW B, NEW B2, Geometry(B), NEW S, S \subseteq FreeOf(B),
           SameButLinks(B, B2, S)
    PROVE  /\ Geometry(B2) /\ BlocksOf(B2) = BlocksOf(B) /\ FreeOf(B2) = FreeOf(B)
           /\ \A y \in Address : /\ getFollowingBlock(B2, y) = getFollowingBlock(B, y)
                                 /\ B2[y].kind = B[y].kind /\ B2[y].size = B[y].size
<1>1. \A y \in Address : /\ B2[y].size = B[y].size /\ B2[y].kind = B[y].kind
                         /\ B2[y].back = B[y].back
                         /\ y \notin S => B2[y].forward = B[y].forward
    BY DEF SameButLinks
<1>2. ASSUME NEW y \in Address, B[y].kind = "nonCollectible"
      PROVE  B2[y].forward = NextContiguous(getFollowingBlock(B, y))
    <2>1. y \notin S
        BY <1>2 DEF FreeOf
    <2>2. B[y].forward = NextContiguous(getFollowingBlock(B, y))
        BY <1>2 DEF Geometry, Neighbours, BlocksOf
    <2> QED BY <1>1, <2>1, <2>2
<1>3. B2 \in Memory
    BY DEF SameButLinks
<1>4. SameExtents(B, B2)
    BY <1>1, <1>2, <1>3 DEF SameExtents
<1>5. Geometry(B2) /\ BlocksOf(B2) = BlocksOf(B)
      /\ \A y \in Address : getFollowingBlock(B2, y) = getFollowingBlock(B, y)
    BY <1>4, SameKeeps
<1>6. FreeOf(B2) = FreeOf(B)
    BY <1>1, <1>5 DEF FreeOf, BlocksOf
<1> QED BY <1>1, <1>5, <1>6

\* A list loses a block.
LEMMA UnlinkedList ==
    ASSUME HeapAssumption, NEW B \in Memory, NEW first, NEW S, OnFreeList(B, first, S),
           NEW a \in S, NEW U, U = Unlink([block |-> B, list |-> first], a)
    PROVE  SameButLinks(B, U.block, S) /\ OnFreeList(U.block, U.list, S \ {a})
<1>1. PICK m \in Nat : \E s \in [1 .. m -> Address] : \E k \in 1 .. m :
              Linked(B, s, m, first) /\ On(s, m) = S /\ s[k] = a
    BY PlaceOnList
<1>2. PICK s \in [1 .. m -> Address] : \E k \in 1 .. m :
              Linked(B, s, m, first) /\ On(s, m) = S /\ s[k] = a
    BY <1>1
<1>3. PICK k \in 1 .. m : Linked(B, s, m, first) /\ On(s, m) = S /\ s[k] = a
    BY <1>2
<1>4. U = Unlink([block |-> B, list |-> first], s[k])
    BY <1>3
<1>5. /\ U.block \in Memory
      /\ \A x \in Address :
            /\ U.block[x].size = B[x].size /\ U.block[x].kind = B[x].kind
            /\ U.block[x].back = B[x].back
            /\ U.block[x].forward =
                   IF k > 1 /\ x = s[k - 1] THEN Place(s, m, k + 1) ELSE B[x].forward
            /\ U.block[x].pPreviousFree =
                   IF k < m /\ x = s[k + 1] THEN Place(s, m, k - 1) ELSE B[x].pPreviousFree
    BY <1>3, <1>4, Unlink_Does
<1>6. ASSUME NEW x \in Address, x \notin S
      PROVE  U.block[x].forward = B[x].forward /\ U.block[x].pPreviousFree = B[x].pPreviousFree
    <2>1. (k > 1 => k - 1 \in 1 .. m) /\ (k < m => k + 1 \in 1 .. m)
        OBVIOUS
    <2>2. (k > 1 => s[k - 1] \in On(s, m)) /\ (k < m => s[k + 1] \in On(s, m))
        BY <2>1 DEF On
    <2> QED BY <1>3, <1>5, <1>6, <2>2
<1>7. Linked(U.block, Without(s, m, k), m - 1, U.list)
    BY <1>3, <1>4, Unlinked
<1>8. On(Without(s, m, k), m - 1) = S \ {a}
    <2>1. \A i, j \in 1 .. m : s[i] = s[j] => i = j
        BY <1>3 DEF Linked
    <2>2. On(Without(s, m, k), m - 1) = On(s, m) \ {s[k]}
        BY <2>1, WithoutOne
    <2> QED BY <1>3, <2>2
<1>9. OnFreeList(U.block, U.list, S \ {a})
    <2>1. Without(s, m, k) \in [1 .. m - 1 -> Address] /\ m - 1 \in Nat
        BY <1>7 DEF Linked
    <2> QED BY <1>7, <1>8, <2>1 DEF OnFreeList
<1> QED
    BY <1>5, <1>6, <1>9 DEF SameButLinks

\* Both neighbours are free.
LEMMA JoinThree_Does ==
    ASSUME HeapAssumption, NEW B, Geometry(B), NEW first, OnFreeList(B, first, FreeOf(B)),
           NEW a \in BlocksOf(B), B[a].kind = "nonCollectible",
           B[a].back # NULL, B[B[a].back].kind = "free",
           B[a].forward # NULL, B[B[a].forward].kind = "free"
    PROVE  ReleasedIn(B, JoinThree([block |-> B, list |-> first], a, B[a].back, B[a].forward),
                      a, B[a].back, getFollowingBlock(B, B[a].forward))
<1> DEFINE p == B[a].back
           next == B[a].forward
           n == getFollowingBlock(B, next)
           U == Unlink([block |-> B, list |-> first], next)
           B1 == TellNext(U.block, getFollowingBlock(U.block, next), p)
           B2 == [B1 EXCEPT ![p].size = @ + B1[a].size + B1[next].size]
           H == JoinThree([block |-> B, list |-> first], a, p, next)
<1>1. B \in Memory /\ Tiled(B) /\ Neighbours(B) /\ Apart(B)
    BY DEF Geometry
<1>2. /\ next \in BlocksOf(B) /\ next = getFollowingBlock(B, a) /\ next \in FreeOf(B)
      /\ a \in Address /\ a \in Nat /\ a < next /\ next = a + B[a].size
      /\ B[a].size \in Nat
    BY <1>1, Extents, AroundBlock DEF FreeOf
<1>3. /\ next \in Address /\ next \in Nat /\ next < n /\ n \in Nat /\ n <= HeapSize
      /\ B[next].size \in Nat /\ n = next + B[next].size
      /\ n \in BlocksOf(B) \cup {HeapSize}
    BY <1>1, <1>2, Extents DEF Tiled
<1>4. /\ p \in BlocksOf(B) /\ getFollowingBlock(B, p) = a /\ p \in Address /\ p \in Nat
      /\ p < a /\ B[p].size \in Nat /\ a = p + B[p].size /\ p \in Pointer
    BY <1>1, Extents, AroundBlock DEF Pointer
<1>5. /\ FreeOf(B) \subseteq Address /\ a \notin FreeOf(B) /\ p \in FreeOf(B)
      /\ FreeOf(B) \subseteq BlocksOf(B)
    BY <1>4 DEF FreeOf, BlocksOf
<1>6. H = [block |-> Forget(B2, {a, next}), list |-> U.list]
    BY DEF JoinThree
<1>60. U = Unlink([block |-> B, list |-> first], next)
    OBVIOUS
<1> HIDE DEF U
<1> HIDE DEF n, next, p
<1>61. /\ p \in Nat /\ a \in Nat /\ next \in Nat /\ n \in Nat
       /\ p < a /\ a < next /\ next < n
    BY <1>2, <1>3, <1>4
<1>7. /\ U.block \in Memory
      /\ \A x \in Address :
            /\ U.block[x].size = B[x].size /\ U.block[x].kind = B[x].kind
            /\ U.block[x].back = B[x].back
            /\ x \notin FreeOf(B) => U.block[x].forward = B[x].forward
    <2>1. SameButLinks(B, U.block, FreeOf(B))
        BY <1>1, <1>2, <1>60, UnlinkedList
    <2> QED BY <2>1 DEF SameButLinks
<1>8. OnFreeList(U.block, U.list, FreeOf(B) \ {next})
    BY <1>1, <1>2, <1>60, UnlinkedList
<1>9. getFollowingBlock(U.block, next) = n
    BY <1>3, <1>7 DEF getFollowingBlock
<1>10. B1 = TellNext(U.block, n, p)
    BY <1>9
<1> HIDE DEF B1
<1>11. /\ B1 \in Memory
       /\ \A y \in Address :
             /\ B1[y].kind = B[y].kind /\ B1[y].size = B[y].size
             /\ B1[y].back = IF y = n /\ B[y].kind = "nonCollectible" THEN p ELSE B[y].back
             /\ B1[y].forward = U.block[y].forward
             /\ B1[y].pPreviousFree = U.block[y].pPreviousFree
    <2>1. /\ TellNext(U.block, n, p) \in Memory
          /\ \A y \in Address :
                /\ TellNext(U.block, n, p)[y].kind = U.block[y].kind
                /\ TellNext(U.block, n, p)[y].size = U.block[y].size
                /\ TellNext(U.block, n, p)[y].forward = U.block[y].forward
                /\ TellNext(U.block, n, p)[y].pPreviousFree = U.block[y].pPreviousFree
                /\ TellNext(U.block, n, p)[y].back =
                       IF y = n /\ U.block[y].kind = "nonCollectible" THEN p ELSE U.block[y].back
        BY <1>3, <1>4, <1>7, TellNext_Does
    <2> QED BY <1>7, <1>10, <2>1
<1>12. /\ B2 \in Memory /\ B2[p].size = n - p
       /\ \A y \in Address :
             /\ B2[y].kind = B[y].kind /\ B2[y].back = B1[y].back
             /\ B2[y].forward = U.block[y].forward
             /\ B2[y].pPreviousFree = U.block[y].pPreviousFree
             /\ y # p => B2[y].size = B[y].size
    <2>1. B1[p].size + B1[a].size + B1[next].size = n - p /\ n - p \in 0 .. HeapSize
        <3>1. /\ B1[p].size = B[p].size /\ B1[a].size = B[a].size
              /\ B1[next].size = B[next].size
            BY <1>2, <1>3, <1>4, <1>11
        <3>2. n = p + B[p].size + B[a].size + B[next].size
            BY <1>2, <1>3, <1>4
        <3>3. /\ p \in Nat /\ B[p].size \in Nat /\ B[a].size \in Nat /\ B[next].size \in Nat
              /\ n \in Nat /\ n <= HeapSize /\ HeapSize \in Nat
            BY <1>2, <1>3, <1>4, NullIsNoAddress
        <3>4. n - p = B[p].size + B[a].size + B[next].size /\ n - p \in 0 .. HeapSize
            BY <3>2, <3>3
        <3> QED BY <3>1, <3>4
    <2>2. B2 = [B1 EXCEPT ![p].size = n - p]
        BY <1>4, <1>11, <2>1 DEF Memory, Header
    <2> HIDE DEF B2
    <2> QED BY <1>4, <1>11, <2>1, <2>2 DEF Memory, Header
<1> HIDE DEF B2, H
<1>13. /\ H.block \in Memory /\ H.list = U.list
       /\ H.block[a].kind = "none" /\ H.block[next].kind = "none"
       /\ \A y \in Address \ {a, next} : H.block[y] = B2[y]
    <2>1. H.block = Forget(B2, {a, next}) /\ H.list = U.list
        BY <1>6
    <2>2. Forget(B2, {a, next}) \in Memory
        BY <1>12, Forget_Does
    <2>3. \A y \in {a, next} \cap Address : Forget(B2, {a, next})[y] = Garbage
        BY <1>12, Forget_Does
    <2>4. \A y \in Address \ {a, next} : Forget(B2, {a, next})[y] = B2[y]
        BY <1>12, Forget_Does
    <2>5. a \in Address /\ next \in Address /\ Garbage.kind = "none"
        BY <1>2, <1>3 DEF Garbage
    <2> QED BY <2>1, <2>2, <2>3, <2>4, <2>5
<1>14. \A y \in BlocksOf(B) \cap (p .. n - 1) : y = p \/ y = a \/ y = next
    <2> SUFFICES ASSUME NEW y \in BlocksOf(B) \cap (p .. n - 1)
                 PROVE  y = p \/ y = a \/ y = next
        OBVIOUS
    <2>1. y \in p .. a - 1 \/ y \in a .. next - 1 \/ y \in next .. n - 1
        BY <1>61
    <2>2. y \in p .. getFollowingBlock(B, p) - 1 => y = p
        BY <1>1, <1>4, OneBlock
    <2>3. y \in a .. getFollowingBlock(B, a) - 1 => y = a
        BY <1>1, OneBlock
    <2>4. y \in next .. getFollowingBlock(B, next) - 1 => y = next
        BY <1>1, <1>2, OneBlock
    <2> QED BY <1>2, <1>4, <2>1, <2>2, <2>3, <2>4 DEF n
<1>15. /\ B[p].kind = "free"
       /\ \A y \in BlocksOf(B) : getFollowingBlock(B, y) = p => B[y].kind # "free"
    BY <1>1, <1>4, <1>5 DEF Apart, FreeOf
<1>16. Merged(B, H.block, p, n)
    <2>1. \A y \in p + 1 .. n - 1 : H.block[y].kind = "none"
        <3> SUFFICES ASSUME NEW y \in p + 1 .. n - 1, y # a, y # next
                     PROVE  H.block[y].kind = "none"
            BY <1>13
        <3>1. y \in Address \ {a, next} /\ y # p /\ y \in p .. n - 1
            BY <1>3, <1>4, NullIsNoAddress DEF Address
        <3>2. y \notin BlocksOf(B)
            BY <1>14, <3>1
        <3> QED BY <3>1, <3>2, <1>12, <1>13 DEF BlocksOf
    <2>2. SameOutside(B, H.block, p, n)
        <3> SUFFICES ASSUME NEW y \in Address \ (p .. n - 1)
                     PROVE  /\ H.block[y].kind = B[y].kind /\ H.block[y].size = B[y].size
                            /\ y # n => H.block[y].back = B[y].back
                            /\ B[y].kind = "nonCollectible" => H.block[y].forward = B[y].forward
            BY DEF SameOutside
        <3>1. y # a /\ y # next /\ y # p
            BY <1>61
        <3>2. B[y].kind = "nonCollectible" => y \notin FreeOf(B)
            BY DEF FreeOf
        <3> QED BY <3>1, <3>2, <1>7, <1>11, <1>12, <1>13
    <2>3. /\ H.block[p].kind = "free" /\ H.block[p].size = n - p
          /\ IsBefore(B, H.block[p].back, p)
        <3>1. IsBefore(B, B[p].back, p) /\ p # a /\ p # next /\ p # n
            <4>1. IsBefore(B, B[p].back, p)
                BY <1>1, <1>4, <1>15 DEF Neighbours
            <4> QED BY <4>1, <1>61
        <3> QED BY <3>1, <1>4, <1>11, <1>12, <1>13, <1>15
    <2>4. n # HeapSize => B[n].kind # "free"
        BY <1>1, <1>2, <1>3 DEF Apart, FreeOf, n
    <2>5. n # HeapSize /\ B[n].kind = "nonCollectible" => H.block[n].back = p
        <3> SUFFICES ASSUME n # HeapSize, B[n].kind = "nonCollectible" PROVE H.block[n].back = p
            OBVIOUS
        <3>1. n \in Address /\ n # a /\ n # next
            BY <1>2, <1>3 DEF BlocksOf
        <3> QED BY <3>1, <1>11, <1>12, <1>13
    <2> QED BY <1>13, <2>1, <2>2, <2>3, <2>4, <2>5 DEF Merged
<1>17. (FreeOf(B) \ (p .. n - 1)) \cup {p} = FreeOf(B) \ {next}
    <2>1. next \in p .. n - 1 /\ p # next
        BY <1>61
    <2> QED BY <2>1, <1>5, <1>14
<1>18. OnFreeList(H.block, H.list, FreeOf(B) \ {next})
    <2>1. \A y \in FreeOf(B) \ {next} :
             /\ H.block[y].forward = U.block[y].forward
             /\ H.block[y].pPreviousFree = U.block[y].pPreviousFree
        BY <1>5, <1>12, <1>13
    <2> QED BY <2>1, <1>8, <1>13, SameList
<1>19. \A y \in BlocksOf(B) \cap (p .. n - 1) : y = a \/ B[y].kind = "free"
    BY <1>2, <1>14, <1>15 DEF FreeOf
<1>20. ReleasedIn(B, H, a, p, n)
    <2>1. p <= a /\ a < n
        BY <1>61
    <2> QED BY <1>3, <1>4, <2>1, <1>15, <1>16, <1>17, <1>18, <1>19 DEF ReleasedIn
<1> QED
    BY <1>20 DEF H, n, next, p

\* Whatever its neighbours are.
LEMMA Release_Does ==
    ASSUME HeapAssumption, NEW B, Geometry(B), NEW first, OnFreeList(B, first, FreeOf(B)),
           NEW a \in BlocksOf(B), B[a].kind = "nonCollectible",
           NEW H, H = Release([block |-> B, list |-> first], a, B[a].back, B[a].forward)
    PROVE  \E x, n : ReleasedIn(B, H, a, x, n)
<1> DEFINE R == [block |-> B, list |-> first]
           previousIsFree == B[a].back # NULL /\ B[B[a].back].kind = "free"
           nextIsFree == B[a].forward # NULL /\ B[B[a].forward].kind = "free"
<1>1. R.block = B
    OBVIOUS
<1>2. H = Release(R, a, B[a].back, B[a].forward)
    OBVIOUS
<1> HIDE DEF R
<1>3. H = CASE previousIsFree /\ nextIsFree   -> JoinThree(R, a, B[a].back, B[a].forward)
            [] previousIsFree /\ ~nextIsFree  -> JoinPrevious(R, a, B[a].back, B[a].forward)
            [] ~previousIsFree /\ nextIsFree  -> JoinNext(R, a, B[a].forward)
            [] ~previousIsFree /\ ~nextIsFree -> PutFirst(R, a)
    BY <1>1, <1>2 DEF Release, isFree
<1>4. CASE previousIsFree /\ nextIsFree
    <2>1. H = JoinThree(R, a, B[a].back, B[a].forward)
        BY <1>3, <1>4
    <2> QED BY <2>1, <1>4, JoinThree_Does DEF R
<1>5. CASE previousIsFree /\ ~nextIsFree
    <2>1. H = JoinPrevious(R, a, B[a].back, B[a].forward)
        BY <1>3, <1>5
    <2> QED BY <2>1, <1>5, JoinPrevious_Does DEF R
<1>6. CASE ~previousIsFree /\ nextIsFree
    <2>1. H = JoinNext(R, a, B[a].forward)
        BY <1>3, <1>6
    <2> QED BY <2>1, <1>6, JoinNext_Does DEF R
<1>7. CASE ~previousIsFree /\ ~nextIsFree
    <2>1. H = PutFirst(R, a)
        BY <1>3, <1>7
    <2> QED BY <2>1, <1>7, PutFirst_Does DEF R
<1> QED BY <1>4, <1>5, <1>6, <1>7

\* memoryFree, whichever of its four cases it is.
LEMMA ReleaseKeeps ==
    ASSUME HeapAssumption, NEW B, Geometry(B), NEW first, OnFreeList(B, first, FreeOf(B)),
           NEW a \in BlocksOf(B), B[a].kind = "nonCollectible",
           NEW H, H = Release([block |-> B, list |-> first], a, B[a].back, B[a].forward)
    PROVE  /\ Geometry(H.block)
           /\ OnFreeList(H.block, H.list, FreeOf(H.block))
           /\ Allocated(H.block) = Allocated(B) \ {a}
           /\ \A y \in Allocated(B) \ {a} :
                 H.block[y].kind = B[y].kind /\ H.block[y].size = B[y].size
<1>1. PICK x, n : ReleasedIn(B, H, a, x, n)
    BY Release_Does
<1>2. /\ x \in BlocksOf(B) /\ n \in BlocksOf(B) \cup {HeapSize} /\ x <= a /\ a < n
      /\ Merged(B, H.block, x, n)
      /\ \A y \in BlocksOf(B) : getFollowingBlock(B, y) = x => B[y].kind # "free"
      /\ \A y \in BlocksOf(B) \cap (x .. n - 1) : y = a \/ B[y].kind = "free"
      /\ OnFreeList(H.block, H.list, (FreeOf(B) \ (x .. n - 1)) \cup {x})
    BY <1>1 DEF ReleasedIn
<1>3. x \in Nat /\ n \in Nat /\ a \in Nat /\ x < n /\ a \in x .. n - 1
    <2>1. x \in Nat /\ n \in Nat /\ a \in Nat
        BY <1>2, NullIsNoAddress DEF BlocksOf
    <2> QED BY <1>2, <2>1
<1>4. Geometry(H.block)
    BY <1>2, <1>3, MergeKeeps
<1>5. /\ FreeOf(H.block) = (FreeOf(B) \ (x .. n - 1)) \cup {x}
      /\ Allocated(H.block) = Allocated(B) \ (x .. n - 1)
      /\ \A y \in Allocated(H.block) : H.block[y].kind = B[y].kind /\ H.block[y].size = B[y].size
    <2>1. x \in BlocksOf(B) /\ n \in BlocksOf(B) \cup {HeapSize} /\ x < n /\ Merged(B, H.block, x, n)
        BY <1>2, <1>3
    <2> QED BY <2>1, MergedIsFree, Zenon
<1>8. \A y \in Allocated(B) : y \in x .. n - 1 => y = a
    BY <1>2 DEF Allocated, FreeOf
<1> QED BY <1>2, <1>3, <1>4, <1>5, <1>8

-----------------------------------------------------------------------------
(* The walk along the free list. *)

LEMMA MinOfNaturals ==
    ASSUME NEW I, I \subseteq Nat, I # {}
    PROVE  Min(I) \in I /\ \A i \in I : Min(I) <= i
<1>1. PICK x \in I : \A y \in I : ~ (<<y, x>> \in OpToRel(<, Nat))
    BY NatLessThanWellFounded, WFMin
<1>2. ASSUME NEW y \in I PROVE x <= y
    <2>1. x \in Nat /\ y \in Nat
        OBVIOUS
    <2>2. y < x => <<y, x>> \in OpToRel(<, Nat)
        BY <2>1, Zenon DEF OpToRel
    <2>3. ~ (y < x)
        BY <1>1, <2>2, Zenon
    <2> QED
        BY <2>1, <2>3, SMT
<1> QED
    BY <1>2 DEF Min

WalkOf(s, n) == [k \in 0 .. HeapSize |-> Place(s, n, k + 1)]

\* A reader of a list meets its entries in order, then NULL: by the least place at which
\* it would not.
LEMMA Walked ==
    ASSUME HeapAssumption, NEW B, NEW s, NEW n, NEW first, Linked(B, s, n, first)
    PROVE  Walk(B, first) = WalkOf(s, n)
<1> DEFINE Step(w) ==
               [k \in 0 .. HeapSize |->
                   IF k = 0 THEN first
                   ELSE IF w[k - 1] \notin Address THEN NULL ELSE B[w[k - 1]].forward]
           v == WalkOf(s, n)
           w == Walk(B, first)
<1>0. w = CHOOSE x : x = Step(x)
    BY DEF Walk
<1>1. v = Step(v)
    <2> SUFFICES ASSUME NEW k \in 0 .. HeapSize PROVE v[k] = Step(v)[k]
        BY DEF WalkOf
    <2>1. v[k] = Place(s, n, k + 1)
        BY DEF WalkOf
    <2>2. CASE k = 0
        BY <2>1, <2>2 DEF Linked
    <2>3. CASE k # 0
        <3>1. v[k - 1] = Place(s, n, k) /\ k - 1 \in 0 .. HeapSize /\ HeapSize \in Nat
            BY <2>3, NullIsNoAddress DEF WalkOf
        <3>2. CASE k \in 1 .. n
            <4>1. v[k - 1] = s[k] /\ s[k] \in Address
                BY <3>1, <3>2 DEF Place, Linked
            <4>2. B[s[k]].forward = Place(s, n, k + 1)
                BY <3>2 DEF Linked
            <4> QED BY <4>1, <4>2, <2>1, <2>3
        <3>3. CASE k \notin 1 .. n
            <4>1. v[k - 1] = NULL /\ NULL \notin Address
                BY <3>1, <3>3, NullIsNoAddress DEF Place
            <4>2. k + 1 \notin 1 .. n
                BY <3>3, <3>1, <2>3 DEF Linked
            <4> QED BY <4>1, <4>2, <2>1, <2>3 DEF Place
        <3> QED BY <3>2, <3>3
    <2> QED BY <2>2, <2>3
<1>2. w = Step(w)
    BY <1>0, <1>1
<1> HIDE DEF w, v
<1> DEFINE I == {k \in 0 .. HeapSize : w[k] # v[k]}
<1>3. I = {}
    <2> SUFFICES ASSUME I # {} PROVE FALSE
        OBVIOUS
    <2> DEFINE k == Min(I)
    <2>1. I \subseteq Nat
        BY NullIsNoAddress
    <2> HIDE DEF I
    <2>2. k \in I /\ \A i \in I : k <= i
        BY <2>1, MinOfNaturals
    <2> HIDE DEF k
    <2>3. k \in 0 .. HeapSize /\ w[k] # v[k] /\ k \in Nat
        BY <2>1, <2>2 DEF I
    <2>4. k # 0
        <3>1. w[0] = first /\ v[0] = first
            BY <1>1, <1>2, NullIsNoAddress
        <3> QED BY <3>1, <2>3
    <2>5. k - 1 \in 0 .. HeapSize /\ k - 1 \notin I
        BY <2>2, <2>3, <2>4, NullIsNoAddress
    <2>6. w[k - 1] = v[k - 1]
        BY <2>5 DEF I
    <2>7. w[k] = Step(w)[k] /\ v[k] = Step(v)[k]
        BY <1>1, <1>2
    <2>8. Step(w)[k] = Step(v)[k]
        BY <2>3, <2>6
    <2> QED BY <2>3, <2>7, <2>8
<1>4. \A k \in 0 .. HeapSize : w[k] = v[k]
    BY <1>3
<1>5. w = [k \in 0 .. HeapSize |-> w[k]] /\ v = [k \in 0 .. HeapSize |-> v[k]]
    BY <1>1, <1>2
<1>6. w = v
    BY <1>4, <1>5
<1> QED BY <1>6 DEF w, v

\* No list is longer than the heap.
LEMMA ListFits ==
    ASSUME HeapAssumption, NEW B, NEW s, NEW n, NEW first, Linked(B, s, n, first)
    PROVE  n \in Nat /\ n <= HeapSize
<1>1. n \in Nat /\ s \in [1 .. n -> Address] /\ \A i, j \in 1 .. n : s[i] = s[j] => i = j
    BY DEF Linked
<1>2. s \in Injection(1 .. n, Address)
    BY <1>1 DEF Injection, IsInjective
<1>3. IsFiniteSet(Address) /\ Cardinality(Address) = HeapSize
    <2>1. 0 \in Int /\ HeapSize - 1 \in Int /\ HeapSize >= 1
        BY NullIsNoAddress
    <2>2. IsFiniteSet(0 .. HeapSize - 1)
        BY <2>1, FS_Interval
    <2>3. Cardinality(0 .. HeapSize - 1) = IF 0 > HeapSize - 1 THEN 0 ELSE HeapSize - 1 - 0 + 1
        BY <2>1, FS_Interval
    <2> QED BY <2>1, <2>2, <2>3, NullIsNoAddress DEF Address
<1>4. Cardinality(1 .. n) <= Cardinality(Address)
    BY <1>2, <1>3, FS_Injection
<1>5. Cardinality(1 .. n) = IF 1 > n THEN 0 ELSE n - 1 + 1
    BY <1>1, FS_Interval
<1> QED BY <1>1, <1>3, <1>4, <1>5, NullIsNoAddress

\* What is found by walking along the list is the list.
LEMMA FreeListIs ==
    ASSUME HeapAssumption, NEW B, NEW s, NEW n, NEW first, Linked(B, s, n, first)
    PROVE  FreeList(B, first) = s /\ DOMAIN FreeList(B, first) = 1 .. n
<1>1. n \in Nat /\ n <= HeapSize /\ s \in [1 .. n -> Address]
    BY ListFits DEF Linked
<1>2. Walk(B, first) = WalkOf(s, n)
    BY Walked
<1> DEFINE w == WalkOf(s, n)
           J == {i \in DOMAIN w : w[i] \in Address}
<1>3. \A k \in 0 .. HeapSize : w[k] = Place(s, n, k + 1)
    BY DEF WalkOf
<1>4. J = 0 .. n - 1
    <2>1. DOMAIN w = 0 .. HeapSize
        BY DEF WalkOf
    <2> HIDE DEF w
    <2>2. ASSUME NEW k \in 0 .. HeapSize PROVE w[k] \in Address <=> k \in 0 .. n - 1
        BY <1>1, <1>3, NullIsNoAddress DEF Place
    <2>3. 0 .. n - 1 \subseteq 0 .. HeapSize
        BY <1>1, NullIsNoAddress
    <2> QED BY <2>1, <2>2, <2>3
<1>5. Cardinality(J) = n
    <2>1. Cardinality(0 .. n - 1) = IF 0 > n - 1 THEN 0 ELSE n - 1 - 0 + 1
        BY <1>1, FS_Interval
    <2> HIDE DEF J
    <2>2. Cardinality(J) = Cardinality(0 .. n - 1)
        BY <1>4
    <2> QED BY <1>1, <2>1, <2>2
<1>6. FreeList(B, first) = [k \in 1 .. Cardinality(J) |-> w[k - 1]]
    BY <1>2 DEF FreeList
<1> HIDE DEF J, w
<1>7. \A k \in 1 .. n : w[k - 1] = s[k]
    <2> SUFFICES ASSUME NEW k \in 1 .. n PROVE w[k - 1] = s[k]
        OBVIOUS
    <2>1. k - 1 \in 0 .. HeapSize /\ k - 1 + 1 = k
        BY <1>1, NullIsNoAddress
    <2>2. w[k - 1] = Place(s, n, k)
        BY <1>3, <2>1
    <2> QED BY <2>2 DEF Place
<1>8. FreeList(B, first) = [k \in 1 .. n |-> s[k]]
    BY <1>5, <1>6, <1>7
<1> QED BY <1>1, <1>8

-----------------------------------------------------------------------------
(* The inductive invariant, of a heap in which nothing interrupts a call. *)

\* What a thread inside memoryFree has read is still so.
Readings == [pBlock : Address, previous : Pointer, next : Pointer]

FreeingIsExact(B, f, w) ==
    /\ f \in [Thread -> {NULL} \cup Readings]
    /\ \A t \in Thread : f[t] # NULL =>
          /\ w.phase = "none"
          /\ \A u \in Thread : f[u] # NULL => u = t
          /\ f[t].pBlock \in BlocksOf(B) /\ B[f[t].pBlock].kind = "nonCollectible"
          /\ f[t].previous = B[f[t].pBlock].back
          /\ f[t].next = B[f[t].pBlock].forward

\* The sweep knows where it is, and has left nothing behind.
SweepPlace == (0 .. HeapSize) \cup {NULL}
Sweeps == [phase : {"none", "check", "run", "swept"}, pCollectibleBlock : SweepPlace,
           pPreviousContiguous : SweepPlace, pNonCollectibleBlock : SweepPlace,
           pReleasedMemoryBlocks : SweepPlace, pLastInReleasedList : SweepPlace]

SweepIsExact(B, w) ==
    LET c == w.pCollectibleBlock
        n == w.pNonCollectibleBlock
    IN  /\ w \in Sweeps
        /\ w.phase = "none" => w = Idle
        /\ w.phase \in {"check", "run"} =>
              /\ c \in BlocksOf(B) /\ IsBefore(B, w.pPreviousContiguous, c)
              /\ \A x \in BlocksOf(B) : x < c => B[x].kind # "white"
        /\ w.phase = "run" =>
              /\ B[c].kind = "white" /\ n \in BlocksOf(B) \cup {HeapSize} /\ c < n
              /\ \A x \in BlocksOf(B) \cap (c .. n - 1) : B[x].kind \in {"white", "free"}
        /\ w.phase = "swept" => \A x \in BlocksOf(B) : B[x].kind # "white"

\* The blocks of a run are on no list.
InRun(w) == IF w.phase = "run" THEN w.pCollectibleBlock .. w.pNonCollectibleBlock - 1 ELSE {}

OnReleasedList(B, first, last, R) ==
    \E m \in Nat : \E r \in [1 .. m -> Address] :
        Linked(B, r, m, first) /\ On(r, m) = R /\ last = Place(r, m, m)

\* The free list holds the blocks in S, the list of released blocks those in R.
Lists(B, first, w, S, R) ==
    /\ OnFreeList(B, first, S)
    /\ OnReleasedList(B, w.pReleasedMemoryBlocks, w.pLastInReleasedList, R)
    /\ S \subseteq Address /\ R \subseteq Address
    /\ S \cap R = {} /\ S \cup R = FreeOf(B) \ InRun(w)
    /\ w.phase \in {"check", "run"} => \A x \in R : x < w.pCollectibleBlock

ListsAreExact(B, first, w) == \E S, R : Lists(B, first, w, S, R)

HeapInv ==
    /\ Geometry(block)
    /\ FreeingIsExact(block, freeing, sweep)
    /\ SweepIsExact(block, sweep)
    /\ ListsAreExact(block, pFreeList, sweep)

\* Between collections there is one list.
LEMMA NoReleased ==
    ASSUME HeapAssumption, NEW B, NEW last, NEW R, OnReleasedList(B, NULL, last, R)
    PROVE  R = {}
<1>1. PICK m \in Nat : \E r \in [1 .. m -> Address] :
        Linked(B, r, m, NULL) /\ On(r, m) = R /\ last = Place(r, m, m)
    BY DEF OnReleasedList
<1>2. PICK r \in [1 .. m -> Address] : Linked(B, r, m, NULL) /\ On(r, m) = R
    BY <1>1
<1>3. m = 0
    <2>1. NULL = NULL <=> m = 0
        BY <1>2, Ends
    <2> QED BY <2>1
<1> QED BY <1>2, <1>3 DEF On

\* No list of released blocks, no released block.
LEMMA NothingReleased ==
    ASSUME HeapAssumption, NEW B
    PROVE  OnReleasedList(B, NULL, NULL, {})
<1> DEFINE r == [i \in 1 .. 0 |-> 0]
<1>1. r \in [1 .. 0 -> Address] /\ 0 \in Nat
    OBVIOUS
<1>2. Linked(B, r, 0, NULL) /\ On(r, 0) = {} /\ NULL = Place(r, 0, 0)
    BY DEF Linked, On, Place
<1> QED BY <1>1, <1>2 DEF OnReleasedList

\* When no sweep is under way every free block is on the free list.
LEMMA IdleList ==
    ASSUME HeapAssumption, NEW B, NEW first, NEW w, SweepIsExact(B, w),
           ListsAreExact(B, first, w), w.phase = "none"
    PROVE  w = Idle /\ OnFreeList(B, first, FreeOf(B))
<1>1. w = Idle /\ w.pReleasedMemoryBlocks = NULL /\ InRun(w) = {}
    BY DEF SweepIsExact, Idle, InRun
<1>2. PICK S, R : Lists(B, first, w, S, R)
    BY DEF ListsAreExact
<1>3. R = {}
    BY <1>1, <1>2, NoReleased DEF Lists
<1> QED BY <1>1, <1>2, <1>3 DEF Lists

\* Conversely, when a call leaves the sweep where it was.
LEMMA IdleAgain ==
    ASSUME HeapAssumption, NEW B, NEW first, NEW w, w = Idle, OnFreeList(B, first, FreeOf(B))
    PROVE  SweepIsExact(B, w) /\ ListsAreExact(B, first, w)
<1>1. w.phase = "none" /\ w.pReleasedMemoryBlocks = NULL /\ w.pLastInReleasedList = NULL
    BY DEF Idle
<1>2. w \in Sweeps
    BY DEF Idle, Sweeps, SweepPlace
<1>3. OnReleasedList(B, NULL, NULL, {})
    BY NothingReleased
<1>4. FreeOf(B) \subseteq Address
    BY DEF FreeOf, BlocksOf
<1>5. InRun(w) = {}
    BY <1>1 DEF InRun
<1>6. Lists(B, first, w, FreeOf(B), {})
    BY <1>1, <1>3, <1>4, <1>5 DEF Lists
<1>7. SweepIsExact(B, w)
    BY <1>1, <1>2 DEF SweepIsExact
<1> QED BY <1>6, <1>7 DEF ListsAreExact

\* The invariant holds of the heap that initializeHeap leaves.
LEMMA HeapInvInit ==
    ASSUME HeapAssumption, HeapInit
    PROVE  HeapInv
<1>1. /\ block \in Memory /\ BlocksOf(block) = {0} /\ FreeOf(block) = {0}
      /\ block[0] = [size |-> HeapSize, kind |-> "free", back |-> NULL,
                     forward |-> NULL, pPreviousFree |-> NULL]
    <2>1. 0 \in Address /\ \A a \in Address : a > 0 <=> a # 0
        BY NullIsNoAddress DEF Address
    <2>2. Garbage \in Header /\ Garbage.kind = "none"
        BY NullIsNoAddress DEF Garbage, Header, Pointer, AllKinds
    <2>3. [size |-> HeapSize, kind |-> "free", back |-> NULL,
           forward |-> NULL, pPreviousFree |-> NULL] \in Header
        BY NullIsNoAddress DEF Header, Pointer, AllKinds
    <2>4. \A a \in Address : block[a] = IF a > 0 THEN Garbage
                  ELSE [size |-> HeapSize, kind |-> "free", back |-> NULL,
                        forward |-> NULL, pPreviousFree |-> NULL]
        BY DEF HeapInit
    <2>5. block \in Memory
        BY <2>2, <2>3 DEF HeapInit, Memory
    <2>6. BlocksOf(block) = {0}
        BY <2>1, <2>2, <2>4 DEF BlocksOf
    <2> QED BY <2>1, <2>4, <2>5, <2>6 DEF FreeOf
<1>2. getFollowingBlock(block, 0) = HeapSize
    BY <1>1, NullIsNoAddress DEF getFollowingBlock
<1>3. Geometry(block)
    <2>1. Tiled(block)
        BY <1>1, <1>2, NullIsNoAddress DEF Tiled
    <2>2. Neighbours(block)
        BY <1>1 DEF Neighbours, IsBefore
    <2>3. Apart(block)
        BY <1>1, <1>2, NullIsNoAddress DEF Apart
    <2> QED BY <1>1, <2>1, <2>2, <2>3 DEF Geometry
<1>4. OnFreeList(block, pFreeList, FreeOf(block))
    <2> DEFINE s == [i \in 1 .. 1 |-> 0]
    <2>1. 0 \in Address
        BY <1>1 DEF BlocksOf
    <2>2. s \in [1 .. 1 -> Address] /\ 1 \in Nat /\ s[1] = 0 /\ \A k \in 1 .. 1 : k = 1
        BY <2>1
    <2> HIDE DEF s
    <2>3. On(s, 1) = {0}
        BY <2>2 DEF On
    <2>4. Place(s, 1, 1) = 0 /\ Place(s, 1, 0) = NULL /\ Place(s, 1, 2) = NULL
        BY <2>2 DEF Place
    <2>5. pFreeList = 0
        BY DEF HeapInit
    <2>6. Linked(block, s, 1, pFreeList)
        BY <1>1, <2>2, <2>4, <2>5 DEF Linked
    <2> QED BY <1>1, <2>2, <2>3, <2>6 DEF OnFreeList
<1>5. SweepIsExact(block, sweep) /\ ListsAreExact(block, pFreeList, sweep)
    BY <1>4, IdleAgain DEF HeapInit
<1>6. FreeingIsExact(block, freeing, sweep)
    BY DEF HeapInit, FreeingIsExact
<1> QED BY <1>3, <1>5, <1>6 DEF HeapInv

-----------------------------------------------------------------------------
(* What the steps leave. *)

\* No thread is inside memoryFree, wherever the sweep goes.
LEMMA NoneFreeing ==
    ASSUME NEW B, NEW f, NEW w, FreeingIsExact(B, f, w), w.phase # "none",
           NEW B2, NEW w2
    PROVE  FreeingIsExact(B2, f, w2)
BY DEF FreeingIsExact

\* Allocated blocks are as they were, those that are no more were white.
OnlyWhiteGone(B, B2) ==
    /\ Allocated(B2) \subseteq Allocated(B)
    /\ \A y \in Allocated(B2) : B2[y].kind = B[y].kind /\ B2[y].size = B[y].size
    /\ \A y \in Allocated(B) \ Allocated(B2) : B[y].kind = "white"

\* What memoryFree reads is so.
LEMMA FreeingReads ==
    ASSUME HeapAssumption, ~Preemptive, HeapInv, NEW t \in Thread, NEW a \in Owned,
           memoryFreeReads(t, a)
    PROVE  HeapInv' /\ block' = block
<1>1. /\ sweep.phase = "none" /\ \A u \in Thread : freeing[u] = NULL
      /\ block' = block /\ pFreeList' = pFreeList /\ sweep' = sweep
      /\ freeing' = [freeing EXCEPT ![t] =
           [pBlock |-> a, previous |-> block[a].back, next |-> block[a].forward]]
    BY DEF memoryFreeReads, Uninterrupted
<1>2. a \in Address /\ a \in BlocksOf(block) /\ block[a].kind = "nonCollectible"
    BY DEF Owned, BlocksOf, isAllocatedNonCollectible
<1>3. block \in Memory
    BY DEF HeapInv, Geometry
<1> DEFINE reading == [pBlock |-> a, previous |-> block[a].back, next |-> block[a].forward]
<1>4. reading \in Readings
    BY <1>2, <1>3, MemoryFields DEF Readings
<1>5. /\ reading.pBlock = a /\ reading.previous = block[a].back
      /\ reading.next = block[a].forward
    OBVIOUS
<1> HIDE DEF reading
<1>6. freeing \in [Thread -> {NULL} \cup Readings] /\ freeing' = [freeing EXCEPT ![t] = reading]
    BY <1>1 DEF HeapInv, FreeingIsExact, reading
<1>7. FreeingIsExact(block', freeing', sweep')
    BY <1>1, <1>2, <1>4, <1>5, <1>6 DEF FreeingIsExact
<1> QED BY <1>1, <1>7 DEF HeapInv

\* Nothing has happened since to make it untrue.
LEMMA Freeing ==
    ASSUME HeapAssumption, HeapInv, NEW t \in Thread, memoryFree(t)
    PROVE  /\ HeapInv' /\ freeing[t].pBlock \in Allocated(block)
           /\ block[freeing[t].pBlock].kind = "nonCollectible"
           /\ Allocated(block') = Allocated(block) \ {freeing[t].pBlock}
           /\ \A y \in Allocated(block) \ {freeing[t].pBlock} :
                 block'[y].kind = block[y].kind /\ block'[y].size = block[y].size
           /\ sweep.phase = "none"
<1> DEFINE f == freeing[t]
           a == f.pBlock
           H == Release([block |-> block, list |-> pFreeList], a, f.previous, f.next)
<1>1. /\ f # NULL /\ freeing' = [freeing EXCEPT ![t] = NULL] /\ sweep' = sweep
      /\ block' = H.block /\ pFreeList' = H.list
    BY DEF memoryFree
<1>2. /\ sweep.phase = "none" /\ \A u \in Thread : freeing[u] # NULL => u = t
      /\ a \in BlocksOf(block) /\ block[a].kind = "nonCollectible"
      /\ f.previous = block[a].back /\ f.next = block[a].forward
      /\ freeing \in [Thread -> {NULL} \cup Readings]
    BY <1>1 DEF HeapInv, FreeingIsExact
<1>3. sweep = Idle /\ OnFreeList(block, pFreeList, FreeOf(block))
    BY <1>2, IdleList DEF HeapInv
<1>4. H = Release([block |-> block, list |-> pFreeList], a, block[a].back, block[a].forward)
    BY <1>2
<1> HIDE DEF H, a, f
<1>5. Geometry(block)
    BY DEF HeapInv
<1>6. /\ Geometry(H.block)
      /\ OnFreeList(H.block, H.list, FreeOf(H.block))
      /\ Allocated(H.block) = Allocated(block) \ {a}
      /\ \A y \in Allocated(block) \ {a} :
            H.block[y].kind = block[y].kind /\ H.block[y].size = block[y].size
    <2>1. /\ Geometry(block) /\ OnFreeList(block, pFreeList, FreeOf(block))
          /\ a \in BlocksOf(block) /\ block[a].kind = "nonCollectible"
          /\ H = Release([block |-> block, list |-> pFreeList], a, block[a].back, block[a].forward)
        BY <1>2, <1>3, <1>4, <1>5
    <2>2. ASSUME NEW G, G = H PROVE
          /\ Geometry(G.block)
          /\ OnFreeList(G.block, G.list, FreeOf(G.block))
          /\ Allocated(G.block) = Allocated(block) \ {a}
          /\ \A y \in Allocated(block) \ {a} :
                G.block[y].kind = block[y].kind /\ G.block[y].size = block[y].size
        <3>1. G = Release([block |-> block, list |-> pFreeList], a, block[a].back, block[a].forward)
            BY <2>1, <2>2
        <3> QED BY <2>1, <3>1, ReleaseKeeps
    <2> QED BY <2>2
<1>7. SweepIsExact(block', sweep') /\ ListsAreExact(block', pFreeList', sweep')
    BY <1>1, <1>3, <1>6, IdleAgain
<1>8. FreeingIsExact(block', freeing', sweep')
    BY <1>1, <1>2 DEF FreeingIsExact
<1>9. a \in Allocated(block)
    BY <1>2 DEF Allocated, FreeOf
<1> QED BY <1>1, <1>2, <1>6, <1>7, <1>8, <1>9 DEF HeapInv, a, f

\* Marking colours blocks and leaves the headers of the others alone.
LEMMA Marking ==
    ASSUME HeapAssumption, ~Preemptive, HeapInv,
           NEW referenced \in SUBSET {a \in Address : isCollectible(a)}, mark(referenced)
    PROVE  /\ HeapInv' /\ Allocated(block') = Allocated(block)
           /\ \A y \in Allocated(block) :
                 /\ block'[y].size = block[y].size
                 /\ block'[y].kind = "nonCollectible" <=> block[y].kind = "nonCollectible"
           /\ sweep.phase = "none"
<1>1. /\ sweep.phase = "none" /\ \A u \in Thread : freeing[u] = NULL
      /\ pFreeList' = pFreeList /\ freeing' = freeing
      /\ block' = [a \in Address |->
             IF a \in referenced THEN [block[a] EXCEPT !.kind = "black", !.back = Other]
             ELSE IF isCollectible(a) THEN [block[a] EXCEPT !.kind = "white"]
             ELSE block[a]]
    BY DEF mark, Uninterrupted
<1>2. block \in Memory /\ Geometry(block)
    BY DEF HeapInv, Geometry
<1>3. block' \in Memory
    <2>1. Other \in Pointer /\ "black" \in AllKinds /\ "white" \in AllKinds
        BY DEF Pointer, AllKinds
    <2>2. \A a \in Address : block[a] \in Header
        BY <1>2 DEF Memory
    <2> QED BY <1>1, <2>1, <2>2 DEF Memory, Header
<1>4. ASSUME NEW y \in Address
      PROVE  /\ block'[y].size = block[y].size /\ block'[y].forward = block[y].forward
             /\ block'[y].pPreviousFree = block[y].pPreviousFree
             /\ isCollectible(y) => block'[y].kind \in {"white", "black"}
             /\ ~isCollectible(y) => block'[y] = block[y]
    <2>1. block[y] \in Header
        BY <1>2 DEF Memory
    <2>2. y \in referenced => isCollectible(y)
        OBVIOUS
    <2> QED BY <1>1, <2>1, <2>2 DEF Header
<1>5. SameExtents(block, block')
    <2>1. ASSUME NEW y \in Address, block[y].kind = "nonCollectible"
          PROVE  block[y].forward = NextContiguous(getFollowingBlock(block, y))
        BY <1>2, <2>1 DEF Geometry, Neighbours, BlocksOf
    <2> QED BY <1>3, <1>4, <2>1 DEF SameExtents, isCollectible
<1>6. Geometry(block') /\ BlocksOf(block') = BlocksOf(block)
    BY <1>2, <1>5, SameKeeps
<1>7. FreeOf(block') = FreeOf(block)
    BY <1>4, <1>6 DEF FreeOf, BlocksOf, isCollectible
<1>8. \A y \in Address : block'[y].kind = "nonCollectible" <=> block[y].kind = "nonCollectible"
    BY <1>4 DEF isCollectible
<1>9. sweep = Idle /\ OnFreeList(block, pFreeList, FreeOf(block))
    BY <1>1, IdleList DEF HeapInv
<1>10. OnFreeList(block', pFreeList', FreeOf(block'))
    <2>1. \A y \in FreeOf(block) : /\ block'[y].forward = block[y].forward
                                   /\ block'[y].pPreviousFree = block[y].pPreviousFree
        BY <1>4 DEF FreeOf, BlocksOf
    <2> QED BY <1>1, <1>7, <1>9, <2>1, SameList
<1>11. /\ sweep' \in Sweeps /\ sweep'.phase = "check" /\ sweep'.pCollectibleBlock = 0
       /\ sweep'.pPreviousContiguous = NULL /\ sweep'.pReleasedMemoryBlocks = NULL
       /\ sweep'.pLastInReleasedList = NULL
    <2>1. sweep' = [Idle EXCEPT !.phase = "check", !.pCollectibleBlock = 0]
        BY DEF mark
    <2>2. 0 \in SweepPlace /\ NULL \in SweepPlace
        BY NullIsNoAddress DEF SweepPlace
    <2> QED BY <2>1, <2>2 DEF Idle, Sweeps
<1>12. SweepIsExact(block', sweep')
    <2>1. 0 \in BlocksOf(block')
        BY <1>6 DEF Geometry, Tiled
    <2>2. \A x \in BlocksOf(block') : ~(x < 0)
        BY NullIsNoAddress DEF BlocksOf, Address
    <2> QED BY <1>11, <2>1, <2>2 DEF SweepIsExact, IsBefore
<1>13. ListsAreExact(block', pFreeList', sweep')
    <2>1. InRun(sweep') = {}
        BY <1>11 DEF InRun
    <2>2. OnReleasedList(block', NULL, NULL, {})
        BY NothingReleased
    <2>3. FreeOf(block') \subseteq Address
        BY DEF FreeOf, BlocksOf
    <2>4. Lists(block', pFreeList', sweep', FreeOf(block'), {})
        BY <1>10, <1>11, <2>1, <2>2, <2>3 DEF Lists
    <2> QED BY <2>4 DEF ListsAreExact
<1>14. FreeingIsExact(block', freeing', sweep')
    BY <1>1 DEF HeapInv, FreeingIsExact
<1>15. Allocated(block') = Allocated(block) /\ Allocated(block) \subseteq Address
    BY <1>6, <1>7 DEF Allocated, BlocksOf
<1> QED BY <1>1, <1>4, <1>6, <1>8, <1>12, <1>13, <1>14, <1>15 DEF HeapInv

\* Where the sweep may be.
LEMMA Swept ==
    ASSUME HeapAssumption, NEW B, NEW w, Geometry(B), SweepIsExact(B, w),
           w.phase \in {"check", "run"}, NEW c, c = w.pCollectibleBlock
    PROVE  /\ c \in BlocksOf(B) /\ c \in Nat /\ c < getFollowingBlock(B, c)
           /\ getFollowingBlock(B, c) \in BlocksOf(B) \cup {HeapSize}
           /\ getFollowingBlock(B, c) \in 0 .. HeapSize
           /\ B[c].kind \in AllKinds \ {"none"}
           /\ \A x \in BlocksOf(B) : x < getFollowingBlock(B, c) => x = c \/ x < c
           /\ BlocksOf(B) \subseteq Nat /\ \A x \in BlocksOf(B) : x < HeapSize
<1>1. c \in BlocksOf(B) /\ B \in Memory /\ Tiled(B)
    BY DEF SweepIsExact, Geometry
<1>2. c \in Nat /\ c < getFollowingBlock(B, c) /\ getFollowingBlock(B, c) \in Nat
      /\ getFollowingBlock(B, c) <= HeapSize /\ B[c].kind \in AllKinds \ {"none"}
    BY <1>1, Extents
<1>3. getFollowingBlock(B, c) \in BlocksOf(B) \cup {HeapSize}
    BY <1>1 DEF Tiled
<1>4. BlocksOf(B) \subseteq Nat /\ \A x \in BlocksOf(B) : x < HeapSize
    BY NullIsNoAddress DEF BlocksOf, Address
<1>5. ASSUME NEW x \in BlocksOf(B), x < getFollowingBlock(B, c) PROVE x = c \/ x < c
    <2>1. c < x => getFollowingBlock(B, c) <= x
        BY <1>1, BlocksDoNotOverlap
    <2> QED BY <1>2, <1>4, <1>5, <2>1
<1> QED BY <1>1, <1>2, <1>3, <1>4, <1>5, NullIsNoAddress

\* The sweep passes a block that cannot be collected.
LEMMA Passing ==
    ASSUME HeapAssumption, HeapInv, passBlock
    PROVE  HeapInv' /\ block' = block
<1> DEFINE c == sweep.pCollectibleBlock
           next == getFollowingBlock(block, c)
<1>1. /\ sweep.phase = "check" /\ block[c].kind # "white"
      /\ block' = block /\ pFreeList' = pFreeList /\ freeing' = freeing
      /\ sweep' = [sweep EXCEPT
             !.pPreviousContiguous = c, !.pCollectibleBlock = next,
             !.phase = IF isNotPastHeapEnd(next) THEN "check" ELSE "swept"]
    BY DEF passBlock
<1>2. Geometry(block) /\ SweepIsExact(block, sweep) /\ sweep \in Sweeps
    BY DEF HeapInv, SweepIsExact
<1>3. /\ c \in BlocksOf(block) /\ c \in Nat /\ c < next
      /\ next \in BlocksOf(block) \cup {HeapSize} /\ next \in 0 .. HeapSize
      /\ \A x \in BlocksOf(block) : x < next => x = c \/ x < c
      /\ BlocksOf(block) \subseteq Nat /\ \A x \in BlocksOf(block) : x < HeapSize
    BY <1>1, <1>2, Swept
<1>4. \A x \in BlocksOf(block) : x < c => block[x].kind # "white"
    BY <1>1, <1>2 DEF SweepIsExact
<1>5. \A x \in BlocksOf(block) : x < next => block[x].kind # "white"
    BY <1>1, <1>3, <1>4
<1>6. IsBefore(block, c, next)
    BY <1>3 DEF IsBefore
<1> HIDE DEF next, c
<1>7. /\ sweep' \in Sweeps
      /\ sweep'.pCollectibleBlock = next /\ sweep'.pPreviousContiguous = c
      /\ sweep'.phase = IF isNotPastHeapEnd(next) THEN "check" ELSE "swept"
      /\ sweep'.pReleasedMemoryBlocks = sweep.pReleasedMemoryBlocks
      /\ sweep'.pLastInReleasedList = sweep.pLastInReleasedList
    <2>1. next \in SweepPlace /\ c \in SweepPlace
        BY <1>3, NullIsNoAddress DEF SweepPlace
    <2> QED BY <1>1, <1>2, <2>1 DEF Sweeps
<1>8. SweepIsExact(block', sweep')
    <2>1. CASE isNotPastHeapEnd(next)
        <3>1. next \in BlocksOf(block)
            BY <1>3, <2>1, NullIsNoAddress DEF isNotPastHeapEnd
        <3> QED BY <1>1, <1>5, <1>6, <1>7, <2>1, <3>1 DEF SweepIsExact
    <2>2. CASE ~isNotPastHeapEnd(next)
        <3>1. \A x \in BlocksOf(block) : x < next
            BY <1>3, <2>2, NullIsNoAddress DEF isNotPastHeapEnd
        <3> QED BY <1>1, <1>5, <1>7, <2>2, <3>1 DEF SweepIsExact
    <2> QED BY <2>1, <2>2
<1>9. ListsAreExact(block', pFreeList', sweep')
    <2>1. PICK S, R : Lists(block, pFreeList, sweep, S, R)
        BY DEF HeapInv, ListsAreExact
    <2>2. InRun(sweep) = {} /\ InRun(sweep') = {}
        BY <1>1, <1>7 DEF InRun
    <2>3. \A x \in R : x < next
        <3>1. \A x \in R : x < c /\ x \in Nat
            BY <1>1, <2>1, NullIsNoAddress DEF Lists, c
        <3> QED BY <3>1, <1>3
    <2>4. Lists(block', pFreeList', sweep', S, R)
        BY <1>1, <1>7, <2>1, <2>2, <2>3 DEF Lists
    <2> QED BY <2>4 DEF ListsAreExact
<1>10. FreeingIsExact(block', freeing', sweep')
    BY <1>1, NoneFreeing DEF HeapInv
<1> QED BY <1>1, <1>2, <1>8, <1>9, <1>10 DEF HeapInv

\* The sweep finds a block that can.
LEMMA Finding ==
    ASSUME HeapAssumption, HeapInv, foundBlock
    PROVE  HeapInv' /\ block' = block
<1> DEFINE c == sweep.pCollectibleBlock
           next == getFollowingBlock(block, c)
<1>1. /\ sweep.phase = "check" /\ block[c].kind = "white"
      /\ block' = block /\ pFreeList' = pFreeList /\ freeing' = freeing
      /\ sweep' = [sweep EXCEPT !.phase = "run", !.pNonCollectibleBlock = next]
    BY DEF foundBlock
<1>2. Geometry(block) /\ SweepIsExact(block, sweep) /\ sweep \in Sweeps
    BY DEF HeapInv, SweepIsExact
<1>3. /\ c \in BlocksOf(block) /\ c \in Nat /\ c < next
      /\ next \in BlocksOf(block) \cup {HeapSize} /\ next \in 0 .. HeapSize
      /\ \A x \in BlocksOf(block) : x < next => x = c \/ x < c
      /\ BlocksOf(block) \subseteq Nat
    BY <1>1, <1>2, Swept
<1>4. /\ IsBefore(block, sweep.pPreviousContiguous, c)
      /\ \A x \in BlocksOf(block) : x < c => block[x].kind # "white"
    BY <1>1, <1>2 DEF SweepIsExact
<1> HIDE DEF next, c
<1>5. /\ sweep' \in Sweeps /\ sweep'.phase = "run"
      /\ sweep'.pCollectibleBlock = c /\ sweep'.pNonCollectibleBlock = next
      /\ sweep'.pPreviousContiguous = sweep.pPreviousContiguous
      /\ sweep'.pReleasedMemoryBlocks = sweep.pReleasedMemoryBlocks
      /\ sweep'.pLastInReleasedList = sweep.pLastInReleasedList
    <2>1. next \in SweepPlace
        BY <1>3 DEF SweepPlace
    <2> QED BY <1>1, <1>2, <2>1 DEF Sweeps, c
<1>6. \A x \in BlocksOf(block) \cap (c .. next - 1) : x = c
    BY <1>3
<1>7. SweepIsExact(block', sweep')
    BY <1>1, <1>3, <1>4, <1>5, <1>6 DEF SweepIsExact
<1>8. ListsAreExact(block', pFreeList', sweep')
    <2>1. PICK S, R : Lists(block, pFreeList, sweep, S, R)
        BY DEF HeapInv, ListsAreExact
    <2>2. InRun(sweep) = {} /\ InRun(sweep') = c .. next - 1
        BY <1>1, <1>5 DEF InRun
    <2>3. FreeOf(block) \ (c .. next - 1) = FreeOf(block)
        BY <1>1, <1>6 DEF FreeOf
    <2>4. Lists(block', pFreeList', sweep', S, R)
        BY <1>1, <1>5, <2>1, <2>2, <2>3 DEF Lists, c
    <2> QED BY <2>4 DEF ListsAreExact
<1>9. FreeingIsExact(block', freeing', sweep')
    BY <1>1, NoneFreeing DEF HeapInv
<1> QED BY <1>1, <1>2, <1>7, <1>8, <1>9 DEF HeapInv

\* A run is extended by a block n that is not referenced, whatever becomes of the links of
\* the free list.
LEMMA RunExtends ==
    ASSUME HeapAssumption, NEW B, NEW B2, Geometry(B), NEW T, T \subseteq FreeOf(B),
           SameButLinks(B, B2, T), NEW w, SweepIsExact(B, w), w.phase = "run",
           NEW n, n = w.pNonCollectibleBlock, n \in BlocksOf(B), B[n].kind \in {"free", "white"},
           NEW w2, w2 = [w EXCEPT !.pNonCollectibleBlock = getFollowingBlock(B, n)]
    PROVE  /\ SweepIsExact(B2, w2) /\ n \notin InRun(w)
           /\ \A x \in Address : x < w.pCollectibleBlock => x # n /\ x \notin InRun(w2)
           /\ InRun(w2) \cap FreeOf(B) = (InRun(w) \cup {n}) \cap FreeOf(B)
<1> DEFINE c == w.pCollectibleBlock
           next == getFollowingBlock(B, n)
<1>1. /\ w \in Sweeps /\ c \in BlocksOf(B) /\ IsBefore(B, w.pPreviousContiguous, c)
      /\ \A x \in BlocksOf(B) : x < c => B[x].kind # "white"
      /\ B[c].kind = "white" /\ c < n
      /\ \A x \in BlocksOf(B) \cap (c .. n - 1) : B[x].kind \in {"white", "free"}
    BY DEF SweepIsExact
<1>2. B \in Memory /\ Tiled(B) /\ BlocksOf(B) \subseteq Nat
    BY NullIsNoAddress DEF Geometry, BlocksOf
<1>3. /\ n \in Nat /\ next \in Nat /\ n < next /\ next <= HeapSize
      /\ next \in BlocksOf(B) \cup {HeapSize} /\ c \in Nat
    BY <1>1, <1>2, Extents DEF Tiled
<1>4. \A x \in BlocksOf(B) \cap (n .. next - 1) : x = n
    BY <1>2, OneBlock
<1>5. /\ BlocksOf(B2) = BlocksOf(B) /\ FreeOf(B2) = FreeOf(B)
      /\ \A y \in Address : /\ getFollowingBlock(B2, y) = getFollowingBlock(B, y)
                            /\ B2[y].kind = B[y].kind
    BY LinksKeep
<1>6. BlocksOf(B) \subseteq Address
    BY DEF BlocksOf
<1> HIDE DEF next, c
<1>7. /\ w2 \in Sweeps /\ w2.phase = "run"
      /\ w2.pCollectibleBlock = c /\ w2.pNonCollectibleBlock = next
      /\ w2.pPreviousContiguous = w.pPreviousContiguous
    <2>1. next \in SweepPlace
        BY <1>3, NullIsNoAddress DEF SweepPlace
    <2> QED BY <1>1, <2>1 DEF Sweeps, next, c
<1>8. IsBefore(B2, w.pPreviousContiguous, c)
    BY <1>1, <1>5, <1>6 DEF IsBefore
<1>9. \A x \in BlocksOf(B) \cap (c .. next - 1) : B2[x].kind \in {"white", "free"}
    <2>1. ASSUME NEW x \in BlocksOf(B) \cap (c .. next - 1) PROVE x \in c .. n - 1 \/ x \in n .. next - 1
        BY <1>3
    <2>2. ASSUME NEW x \in BlocksOf(B) \cap (c .. next - 1) PROVE B[x].kind \in {"white", "free"}
        BY <1>1, <1>4, <2>1, <2>2
    <2> QED BY <1>5, <1>6, <2>2
<1>10. \A x \in BlocksOf(B) : x < c => B2[x].kind # "white"
    BY <1>1, <1>5, <1>6
<1>11. SweepIsExact(B2, w2)
    <2>1. B2[c].kind = "white" /\ c < next
        BY <1>1, <1>3, <1>5, <1>6
    <2> QED BY <1>1, <1>3, <1>5, <1>7, <1>8, <1>9, <1>10, <2>1 DEF SweepIsExact
<1>12. InRun(w) = c .. n - 1 /\ InRun(w2) = c .. next - 1
    BY <1>7 DEF InRun, c
<1>13. InRun(w2) \cap FreeOf(B) = (InRun(w) \cup {n}) \cap FreeOf(B)
    <2>1. \A x \in BlocksOf(B) : x \in c .. next - 1 <=> x \in c .. n - 1 \/ x = n
        BY <1>1, <1>2, <1>3, <1>4
    <2> QED BY <1>12, <2>1 DEF FreeOf
<1>14. \A x \in Address : x < c => x # n /\ x \notin c .. next - 1
    BY <1>1, <1>3, NullIsNoAddress
<1> QED BY <1>3, <1>11, <1>12, <1>13, <1>14 DEF c

\* The list of released blocks depends on the pointers of its entries only.
LEMMA SameReleased ==
    ASSUME NEW B, NEW B2, NEW first, NEW last, NEW R, OnReleasedList(B, first, last, R),
           \A y \in R : /\ B2[y].forward = B[y].forward
                        /\ B2[y].pPreviousFree = B[y].pPreviousFree
    PROVE  OnReleasedList(B2, first, last, R)
<1>1. PICK m \in Nat : \E r \in [1 .. m -> Address] :
        Linked(B, r, m, first) /\ On(r, m) = R /\ last = Place(r, m, m)
    BY DEF OnReleasedList
<1>2. PICK r \in [1 .. m -> Address] :
        Linked(B, r, m, first) /\ On(r, m) = R /\ last = Place(r, m, m)
    BY <1>1
<1>3. Linked(B2, r, m, first)
    BY <1>2, LinkedSame
<1> QED BY <1>2, <1>3 DEF OnReleasedList

\* Nothing but links changed.
LEMMA OnlyLinks ==
    ASSUME HeapAssumption, NEW B, NEW B2, Geometry(B), NEW S, S \subseteq FreeOf(B),
           SameButLinks(B, B2, S)
    PROVE  Geometry(B2) /\ FreeOf(B2) = FreeOf(B) /\ OnlyWhiteGone(B, B2)
<1>1. /\ Geometry(B2) /\ BlocksOf(B2) = BlocksOf(B) /\ FreeOf(B2) = FreeOf(B)
      /\ \A y \in Address : B2[y].kind = B[y].kind /\ B2[y].size = B[y].size
    BY LinksKeep
<1>2. Allocated(B2) = Allocated(B) /\ Allocated(B) \subseteq Address
    BY <1>1 DEF Allocated, BlocksOf
<1> QED BY <1>1, <1>2 DEF OnlyWhiteGone

LEMMA NoLinks ==
    ASSUME NEW B \in Memory
    PROVE  SameButLinks(B, B, {}) /\ OnlyWhiteGone(B, B)
BY DEF SameButLinks, OnlyWhiteGone

\* The next block is joined to the run.
LEMMA Extending ==
    ASSUME HeapAssumption, HeapInv, extendRun
    PROVE  HeapInv' /\ OnlyWhiteGone(block, block')
<1> DEFINE n == sweep.pNonCollectibleBlock
           c == sweep.pCollectibleBlock
           U == Unlink([block |-> block, list |-> pFreeList], n)
<1>1. /\ sweep.phase = "run" /\ isNotPastHeapEnd(n) /\ block[n].kind \in {"free", "white"}
      /\ sweep' = [sweep EXCEPT !.pNonCollectibleBlock = getFollowingBlock(block, n)]
      /\ freeing' = freeing
    BY DEF extendRun, runGoesOn, isNotReferenced
<1>2. /\ block[n].kind = "free" => block' = U.block /\ pFreeList' = U.list
      /\ block[n].kind # "free" => block' = block /\ pFreeList' = pFreeList
    BY DEF extendRun, isFree
<1>3. Geometry(block) /\ SweepIsExact(block, sweep) /\ sweep \in Sweeps /\ block \in Memory
    BY DEF HeapInv, SweepIsExact, Geometry
<1>4. n \in BlocksOf(block)
    BY <1>1, <1>3, NullIsNoAddress DEF SweepIsExact, isNotPastHeapEnd
<1>5. PICK S, R : Lists(block, pFreeList, sweep, S, R)
    BY DEF HeapInv, ListsAreExact
<1>6. /\ OnFreeList(block, pFreeList, S)
      /\ OnReleasedList(block, sweep.pReleasedMemoryBlocks, sweep.pLastInReleasedList, R)
      /\ S \subseteq Address /\ R \subseteq Address
      /\ S \cap R = {} /\ S \cup R = FreeOf(block) \ InRun(sweep)
      /\ \A x \in R : x < c
    BY <1>1, <1>5 DEF Lists
<1> DEFINE T == IF block[n].kind = "free" THEN S ELSE {}
<1> HIDE DEF n, c, U
<1>7. block[n].kind = "free" => n \in S
    <2>1. SameButLinks(block, block, {}) /\ {} \subseteq FreeOf(block)
        BY <1>3, NoLinks
    <2>2. n \notin InRun(sweep) /\ \A x \in Address : x < c => x # n
        BY <1>1, <1>3, <1>4, <2>1, RunExtends DEF n, c
    <2>3. n \notin R
        BY <1>6, <2>2
    <2>4. block[n].kind = "free" => n \in FreeOf(block)
        BY <1>4 DEF FreeOf
    <2> QED BY <1>6, <2>2, <2>3, <2>4
<1>8. SameButLinks(block, block', T) /\ OnFreeList(block', pFreeList', S \ {n})
    <2>1. CASE block[n].kind = "free"
        <3>1. SameButLinks(block, U.block, S) /\ OnFreeList(U.block, U.list, S \ {n})
            BY <1>3, <1>6, <1>7, <2>1, UnlinkedList DEF U
        <3> QED BY <1>2, <2>1, <3>1
    <2>2. CASE block[n].kind # "free"
        <3>1. n \notin S
            BY <1>6, <2>2 DEF FreeOf
        <3> QED BY <1>2, <1>3, <1>6, <2>2, <3>1, NoLinks
    <2> QED BY <2>1, <2>2
<1>9. T \subseteq FreeOf(block) /\ T \subseteq S
    BY <1>6
<1> HIDE DEF T
<1>10. /\ SweepIsExact(block', sweep')
       /\ \A x \in Address : x < c => x # n /\ x \notin InRun(sweep')
       /\ InRun(sweep') \cap FreeOf(block) = (InRun(sweep) \cup {n}) \cap FreeOf(block)
    BY <1>1, <1>3, <1>4, <1>8, <1>9, RunExtends DEF n, c
<1>11. Geometry(block') /\ FreeOf(block') = FreeOf(block) /\ OnlyWhiteGone(block, block')
    BY <1>3, <1>8, <1>9, OnlyLinks
<1>12. ListsAreExact(block', pFreeList', sweep')
    <2>1. /\ sweep'.pReleasedMemoryBlocks = sweep.pReleasedMemoryBlocks
          /\ sweep'.pLastInReleasedList = sweep.pLastInReleasedList
          /\ sweep'.pCollectibleBlock = c
        BY <1>1, <1>3 DEF Sweeps, c
    <2>2. \A y \in R : /\ block'[y].forward = block[y].forward
                       /\ block'[y].pPreviousFree = block[y].pPreviousFree
        BY <1>6, <1>8, <1>9 DEF SameButLinks
    <2>3. OnReleasedList(block', sweep'.pReleasedMemoryBlocks, sweep'.pLastInReleasedList, R)
        BY <1>6, <2>1, <2>2, SameReleased
    <2>4. (S \ {n}) \cup R = FreeOf(block') \ InRun(sweep')
        BY <1>6, <1>10, <1>11
    <2>5. Lists(block', pFreeList', sweep', S \ {n}, R)
        BY <1>6, <1>8, <2>1, <2>3, <2>4 DEF Lists
    <2> QED BY <2>5 DEF ListsAreExact
<1>13. FreeingIsExact(block', freeing', sweep')
    BY <1>1, NoneFreeing DEF HeapInv
<1> QED BY <1>10, <1>11, <1>12, <1>13 DEF HeapInv

\* The run becomes part of the free block at x, and the sweep goes on after the block n
\* that ended it.
LEMMA RunEnds ==
    ASSUME HeapAssumption, NEW B, NEW B2, Geometry(B), NEW w, SweepIsExact(B, w),
           w.phase = "run", NEW n, n = w.pNonCollectibleBlock,
           NEW x \in BlocksOf(B), x <= w.pCollectibleBlock, Merged(B, B2, x, n),
           Geometry(B2), BlocksOf(B2) = BlocksOf(B) \ (x + 1 .. n - 1),
           n # HeapSize => B[n].kind # "white",
           NEW w2 \in Sweeps,
           IF n # HeapSize /\ getFollowingBlock(B, n) < HeapSize
           THEN /\ w2.phase = "check" /\ w2.pPreviousContiguous = n
                /\ w2.pCollectibleBlock = getFollowingBlock(B, n)
           ELSE w2.phase = "swept"
    PROVE  /\ SweepIsExact(B2, w2) /\ InRun(w2) = {}
           /\ w2.phase = "check" => w.pCollectibleBlock < w2.pCollectibleBlock
<1> DEFINE c == w.pCollectibleBlock
           next == getFollowingBlock(B, n)
<1>1. /\ c \in BlocksOf(B) /\ c < n /\ n \in BlocksOf(B) \cup {HeapSize}
      /\ \A y \in BlocksOf(B) : y < c => B[y].kind # "white"
    BY DEF SweepIsExact
<1>2. B \in Memory /\ Tiled(B) /\ BlocksOf(B) \subseteq Nat /\ BlocksOf(B) \subseteq Address
      /\ HeapSize \in Nat /\ \A y \in BlocksOf(B) : y < HeapSize
    BY NullIsNoAddress DEF Geometry, BlocksOf, Address
<1>3. c \in Nat /\ n \in Nat /\ x \in Nat /\ x <= c
    BY <1>1, <1>2
<1>4. /\ B2[x].kind = "free"
      /\ \A y \in Address \ (x .. n - 1) : B2[y].kind = B[y].kind /\ B2[y].size = B[y].size
    BY DEF Merged, SameOutside
<1>5. ASSUME NEW y \in BlocksOf(B2), y < n PROVE B2[y].kind # "white"
    <2>1. y \in BlocksOf(B) /\ y \notin x + 1 .. n - 1 /\ y \in Nat /\ y \in Address
        BY <1>2
    <2>2. CASE y = x
        BY <1>4, <2>2
    <2>3. CASE y # x
        <3>1. y < x
            BY <1>3, <1>5, <2>1, <2>3
        <3>2. y < c /\ y \notin x .. n - 1
            BY <1>3, <2>1, <3>1
        <3> QED BY <1>1, <1>4, <2>1, <3>2
    <2> QED BY <2>2, <2>3
<1>6. CASE n = HeapSize
    <2>1. w2.phase = "swept"
        BY <1>6
    <2>2. \A y \in BlocksOf(B2) : y < n
        BY <1>2, <1>6
    <2>3. SweepIsExact(B2, w2)
        BY <1>5, <2>1, <2>2 DEF SweepIsExact
    <2> QED BY <2>1, <2>3 DEF InRun
<1>7. CASE n # HeapSize
    <2>1. n \in BlocksOf(B) /\ n \in Address
        BY <1>1, <1>2, <1>7
    <2>2. next \in Nat /\ n < next /\ next <= HeapSize /\ B[n].size \in Nat
        BY <1>2, <2>1, Extents
    <2>3. n \notin x .. n - 1 /\ n \notin x + 1 .. n - 1
        BY <1>3
    <2>4. n \in BlocksOf(B2) /\ getFollowingBlock(B2, n) = next /\ B2[n].kind # "white"
        BY <1>4, <1>7, <2>1, <2>3 DEF getFollowingBlock
    <2>5. B2 \in Memory /\ Tiled(B2)
        BY DEF Geometry
    <2>6. ASSUME NEW y \in BlocksOf(B2), y < next PROVE B2[y].kind # "white"
        <3>1. n < y => next <= y
            BY <2>4, <2>5, BlocksDoNotOverlap
        <3>2. y \in Nat
            BY <1>2
        <3>3. y < n \/ y = n
            BY <1>3, <2>2, <2>6, <3>1, <3>2
        <3> QED BY <1>5, <2>4, <3>3
    <2> HIDE DEF next, c
    <2>7. CASE next < HeapSize
        <3>1. w2.phase = "check" /\ w2.pPreviousContiguous = n /\ w2.pCollectibleBlock = next
            BY <1>7, <2>7 DEF next
        <3>2. next \in BlocksOf(B2)
            BY <2>2, <2>4, <2>5, <2>7, <1>2 DEF Tiled
        <3>3. IsBefore(B2, n, next)
            BY <2>2, <2>4, <1>3 DEF IsBefore
        <3>4. SweepIsExact(B2, w2)
            BY <2>6, <3>1, <3>2, <3>3 DEF SweepIsExact
        <3>5. c < next
            BY <1>3, <2>2, <1>1 DEF c
        <3> QED BY <3>1, <3>4, <3>5 DEF InRun, c
    <2>8. CASE ~(next < HeapSize)
        <3>1. w2.phase = "swept"
            BY <1>7, <2>8 DEF next
        <3>2. \A y \in BlocksOf(B2) : y < next
            BY <1>2, <2>2, <2>8
        <3>3. SweepIsExact(B2, w2)
            BY <2>6, <3>1, <3>2 DEF SweepIsExact
        <3> QED BY <3>1, <3>3 DEF InRun
    <2> QED BY <2>7, <2>8
<1> QED BY <1>6, <1>7

\* What the run is, and what ends it.
LEMMA TheRun ==
    ASSUME HeapAssumption, HeapInv, sweep.phase = "run", ~runGoesOn,
           NEW c, c = sweep.pCollectibleBlock, NEW n, n = sweep.pNonCollectibleBlock,
           NEW p, p = sweep.pPreviousContiguous
    PROVE  /\ Geometry(block) /\ SweepIsExact(block, sweep) /\ sweep \in Sweeps
           /\ c \in BlocksOf(block) /\ n \in BlocksOf(block) \cup {HeapSize} /\ c < n
           /\ c \in Nat /\ n \in Nat /\ c \in Address /\ n <= HeapSize
           /\ IsBefore(block, p, c)
           /\ \A x \in BlocksOf(block) \cap (c .. n - 1) : block[x].kind \in {"white", "free"}
           /\ n # HeapSize => n \in BlocksOf(block) /\ block[n].kind \notin {"free", "white"}
           /\ isNotPastHeapEnd(n) <=> n # HeapSize
           /\ block[c].kind = "white"
<1>1. Geometry(block) /\ SweepIsExact(block, sweep) /\ sweep \in Sweeps
    BY DEF HeapInv, SweepIsExact
<1>2. /\ c \in BlocksOf(block) /\ n \in BlocksOf(block) \cup {HeapSize} /\ c < n
      /\ IsBefore(block, p, c) /\ block[c].kind = "white"
      /\ \A x \in BlocksOf(block) \cap (c .. n - 1) : block[x].kind \in {"white", "free"}
    BY <1>1 DEF SweepIsExact
<1>3. c \in Nat /\ n \in Nat /\ c \in Address /\ n <= HeapSize
      /\ (isNotPastHeapEnd(n) <=> n # HeapSize)
    BY <1>2, NullIsNoAddress DEF BlocksOf, Address, isNotPastHeapEnd
<1>4. n # HeapSize => block[n].kind \notin {"free", "white"}
    BY <1>3 DEF runGoesOn, isNotReferenced
<1> QED BY <1>1, <1>2, <1>3, <1>4

\* Where the sweep goes after a run.
LEMMA AfterRun ==
    ASSUME HeapAssumption, sweep \in Sweeps, sweep.phase = "run",
           Geometry(block), NEW n \in BlocksOf(block) \cup {HeapSize},
           isNotPastHeapEnd(n) <=> n # HeapSize
    PROVE  /\ afterRun(n) \in Sweeps
           /\ IF n # HeapSize /\ getFollowingBlock(block, n) < HeapSize
              THEN /\ afterRun(n).phase = "check" /\ afterRun(n).pPreviousContiguous = n
                   /\ afterRun(n).pCollectibleBlock = getFollowingBlock(block, n)
              ELSE afterRun(n).phase = "swept"
           /\ afterRun(n).pReleasedMemoryBlocks = sweep.pReleasedMemoryBlocks
           /\ afterRun(n).pLastInReleasedList = sweep.pLastInReleasedList
<1> DEFINE next == getFollowingBlock(block, n)
<1>1. n \in SweepPlace /\ NULL \in SweepPlace
    BY NullIsNoAddress DEF SweepPlace, BlocksOf, Address
<1>2. n # HeapSize => next \in SweepPlace
    BY NullIsNoAddress, Extents DEF Geometry, SweepPlace
<1>3. afterRun(n) = IF n # HeapSize /\ next < HeapSize
        THEN [sweep EXCEPT !.phase = "check", !.pPreviousContiguous = n,
                           !.pCollectibleBlock = next, !.pNonCollectibleBlock = NULL]
        ELSE [sweep EXCEPT !.phase = "swept", !.pNonCollectibleBlock = NULL]
    BY DEF afterRun, isNotPastHeapEnd
<1> HIDE DEF next
<1>4. CASE n # HeapSize /\ next < HeapSize
    BY <1>1, <1>2, <1>3, <1>4 DEF Sweeps, next
<1>5. CASE ~(n # HeapSize /\ next < HeapSize)
    BY <1>1, <1>3, <1>5 DEF Sweeps, next
<1> QED BY <1>4, <1>5

\* What joinRun writes.
LEMMA JoinedRun ==
    ASSUME HeapAssumption, HeapInv, joinRun,
           NEW c, c = sweep.pCollectibleBlock, NEW n, n = sweep.pNonCollectibleBlock,
           NEW p, p = sweep.pPreviousContiguous
    PROVE  /\ p \in BlocksOf(block) /\ block[p].kind = "free" /\ p < c /\ p \in Nat
           /\ getFollowingBlock(block, p) = c
           /\ Merged(block, block', p, n)
           /\ \A y \in Address \ (c .. n - 1) :
                 /\ block'[y].forward = block[y].forward
                 /\ block'[y].pPreviousFree = block[y].pPreviousFree
<1> DEFINE B1 == TellNext(block, n, p)
           B2 == [B1 EXCEPT ![p].size = @ + (n - c)]
<1>1. /\ sweep.phase = "run" /\ ~runGoesOn /\ p # NULL /\ block[p].kind = "free"
      /\ block' = Forget(B2, c .. n - 1)
    BY DEF joinRun, isFree
<1>2. /\ Geometry(block) /\ c \in BlocksOf(block) /\ n \in BlocksOf(block) \cup {HeapSize}
      /\ c < n /\ c \in Nat /\ n \in Nat /\ IsBefore(block, p, c)
      /\ n # HeapSize => block[n].kind \notin {"free", "white"}
    BY <1>1, TheRun
<1>3. block \in Memory /\ Tiled(block) /\ Neighbours(block) /\ c # 0
    BY <1>1, <1>2 DEF Geometry, IsBefore
<1>4. p \in BlocksOf(block) /\ getFollowingBlock(block, p) = c
    BY <1>1, <1>2, <1>3 DEF IsBefore
<1>5. /\ p \in Address /\ p \in Nat /\ p < c /\ block[p].size \in Nat
      /\ c = p + block[p].size /\ p \in Pointer
    BY <1>3, <1>4, Extents DEF Pointer
<1> HIDE DEF B1, B2
<1>6. /\ B1 \in Memory
      /\ \A y \in Address :
            /\ B1[y].kind = block[y].kind /\ B1[y].size = block[y].size
            /\ B1[y].forward = block[y].forward
            /\ B1[y].pPreviousFree = block[y].pPreviousFree
            /\ B1[y].back = IF y = n /\ block[y].kind = "nonCollectible" THEN p
                            ELSE block[y].back
    <2>1. /\ TellNext(block, n, p) \in Memory
          /\ \A y \in Address :
                /\ TellNext(block, n, p)[y].kind = block[y].kind
                /\ TellNext(block, n, p)[y].size = block[y].size
                /\ TellNext(block, n, p)[y].forward = block[y].forward
                /\ TellNext(block, n, p)[y].pPreviousFree = block[y].pPreviousFree
                /\ TellNext(block, n, p)[y].back =
                       IF y = n /\ block[y].kind = "nonCollectible" THEN p ELSE block[y].back
        BY <1>2, <1>3, <1>5, TellNext_Does
    <2> QED BY <2>1 DEF B1
<1>7. /\ B1[p].size + (n - c) = n - p /\ n - p \in 0 .. HeapSize /\ p < n
    <2>1. n <= HeapSize /\ HeapSize \in Nat
        BY <1>2, NullIsNoAddress DEF BlocksOf, Address
    <2> QED BY <1>2, <1>5, <1>6, <2>1
<1>8. /\ B2 \in Memory
      /\ \A y \in Address :
            /\ B2[y].kind = B1[y].kind /\ B2[y].back = B1[y].back
            /\ B2[y].forward = B1[y].forward /\ B2[y].pPreviousFree = B1[y].pPreviousFree
            /\ B2[y].size = IF y = p THEN n - p ELSE B1[y].size
    <2>1. B2 = [B1 EXCEPT ![p].size = n - p]
        BY <1>7 DEF B2
    <2> QED BY <1>5, <1>6, <1>7, <2>1 DEF Memory, Header
<1>9. /\ block' \in Memory
      /\ \A y \in (c .. n - 1) \cap Address : block'[y] = Garbage
      /\ \A y \in Address \ (c .. n - 1) : block'[y] = B2[y]
    <2> DEFINE T == c .. n - 1
    <2> HIDE DEF T
    <2>1. /\ Forget(B2, T) \in Memory
          /\ \A y \in T \cap Address : Forget(B2, T)[y] = Garbage
          /\ \A y \in Address \ T : Forget(B2, T)[y] = B2[y]
        BY <1>8, Forget_Does
    <2> QED BY <1>1, <2>1 DEF T
<1>10. p \notin c .. n - 1
    BY <1>2, <1>5
<1>11. block'[p].kind = "free" /\ block'[p].size = n - p /\ block'[p].back = block[p].back
    <2>1. p # n
        BY <1>7, <1>5
    <2> QED BY <1>1, <1>5, <1>6, <1>8, <1>9, <1>10, <2>1
<1>12. IsBefore(block, block'[p].back, p)
    BY <1>1, <1>3, <1>4, <1>11 DEF Neighbours
<1>13. \A y \in p + 1 .. n - 1 : block'[y].kind = "none"
    <2> SUFFICES ASSUME NEW y \in p + 1 .. n - 1 PROVE block'[y].kind = "none"
        OBVIOUS
    <2>0. y \in Address
        <3>1. n <= HeapSize
            BY <1>2, NullIsNoAddress DEF BlocksOf, Address
        <3> QED BY <1>2, <1>5, <3>1, NullIsNoAddress DEF Address
    <2>1. CASE y \in c .. n - 1
        BY <1>9, <2>0, <2>1 DEF Garbage
    <2>2. CASE y \notin c .. n - 1
        <3>1. y \in p + 1 .. c - 1 /\ y # n /\ y # p
            BY <1>2, <1>5, <2>2
        <3>2. y \notin BlocksOf(block)
            BY <1>3, <1>4, <3>1 DEF Tiled
        <3>3. block[y].kind = "none"
            BY <2>0, <3>2 DEF BlocksOf
        <3> QED BY <1>6, <1>8, <1>9, <2>0, <2>2, <3>3
    <2> QED BY <2>1, <2>2
<1>14. SameOutside(block, block', p, n)
    <2> SUFFICES ASSUME NEW y \in Address \ (p .. n - 1)
                 PROVE  /\ block'[y].kind = block[y].kind /\ block'[y].size = block[y].size
                        /\ y # n => block'[y].back = block[y].back
                        /\ block[y].kind = "nonCollectible" => block'[y].forward = block[y].forward
        BY DEF SameOutside
    <2>1. y \notin c .. n - 1 /\ y # p
        BY <1>2, <1>5, <1>7
    <2> QED BY <1>6, <1>8, <1>9, <2>1
<1>15. n # HeapSize /\ block[n].kind = "nonCollectible" => block'[n].back = p
    <2>1. n \notin c .. n - 1
        BY <1>2
    <2>2. n # HeapSize => n \in Address
        BY <1>2 DEF BlocksOf
    <2> QED BY <1>6, <1>8, <1>9, <2>1, <2>2
<1>16. Merged(block, block', p, n)
    BY <1>2, <1>9, <1>11, <1>12, <1>13, <1>14, <1>15 DEF Merged
<1>17. \A y \in Address \ (c .. n - 1) :
          /\ block'[y].forward = block[y].forward
          /\ block'[y].pPreviousFree = block[y].pPreviousFree
    BY <1>6, <1>8, <1>9
<1> QED BY <1>1, <1>4, <1>5, <1>16, <1>17

\* The run is joined to the free block before it.
LEMMA Joining ==
    ASSUME HeapAssumption, HeapInv, joinRun
    PROVE  HeapInv' /\ OnlyWhiteGone(block, block')
<1> DEFINE c == sweep.pCollectibleBlock
           n == sweep.pNonCollectibleBlock
           p == sweep.pPreviousContiguous
<1>1. /\ sweep.phase = "run" /\ ~runGoesOn /\ sweep' = afterRun(n)
      /\ pFreeList' = pFreeList /\ freeing' = freeing
    BY DEF joinRun
<1>2. /\ Geometry(block) /\ SweepIsExact(block, sweep) /\ sweep \in Sweeps
      /\ c \in BlocksOf(block) /\ n \in BlocksOf(block) \cup {HeapSize} /\ c < n
      /\ c \in Nat /\ n \in Nat /\ c \in Address
      /\ \A x \in BlocksOf(block) \cap (c .. n - 1) : block[x].kind \in {"white", "free"}
      /\ n # HeapSize => n \in BlocksOf(block) /\ block[n].kind \notin {"free", "white"}
      /\ isNotPastHeapEnd(n) <=> n # HeapSize
    BY <1>1, TheRun
<1>3. /\ p \in BlocksOf(block) /\ block[p].kind = "free" /\ p < c /\ p \in Nat
      /\ getFollowingBlock(block, p) = c
      /\ Merged(block, block', p, n)
      /\ \A y \in Address \ (c .. n - 1) :
            /\ block'[y].forward = block[y].forward
            /\ block'[y].pPreviousFree = block[y].pPreviousFree
    BY JoinedRun
<1>4. block \in Memory /\ Tiled(block) /\ Apart(block)
    BY <1>2 DEF Geometry
<1>5. /\ afterRun(n) \in Sweeps
      /\ IF n # HeapSize /\ getFollowingBlock(block, n) < HeapSize
         THEN /\ afterRun(n).phase = "check" /\ afterRun(n).pPreviousContiguous = n
              /\ afterRun(n).pCollectibleBlock = getFollowingBlock(block, n)
         ELSE afterRun(n).phase = "swept"
      /\ afterRun(n).pReleasedMemoryBlocks = sweep.pReleasedMemoryBlocks
      /\ afterRun(n).pLastInReleasedList = sweep.pLastInReleasedList
    BY <1>1, <1>2, AfterRun
<1> HIDE DEF c, n, p
<1>6. Geometry(block') /\ BlocksOf(block') = BlocksOf(block) \ (p + 1 .. n - 1)
    <2>1. \A y \in BlocksOf(block) : getFollowingBlock(block, y) = p => block[y].kind # "free"
        BY <1>3, <1>4 DEF Apart
    <2>2. p < n
        BY <1>2, <1>3
    <2> QED BY <1>2, <1>3, <2>1, <2>2, MergeKeeps
<1>7. /\ FreeOf(block') = (FreeOf(block) \ (p .. n - 1)) \cup {p}
      /\ Allocated(block') = Allocated(block) \ (p .. n - 1)
      /\ \A y \in Allocated(block') : block'[y].kind = block[y].kind /\ block'[y].size = block[y].size
    <2>1. p < n
        BY <1>2, <1>3
    <2>2. /\ Geometry(block) /\ p \in BlocksOf(block) /\ n \in BlocksOf(block) \cup {HeapSize}
          /\ p < n /\ Merged(block, block', p, n)
        BY <1>2, <1>3, <2>1
    <2> QED BY <2>2, MergedIsFree
<1>8. \A y \in BlocksOf(block) : y \in p .. n - 1 <=> y = p \/ y \in c .. n - 1
    <2>1. ASSUME NEW y \in BlocksOf(block), y \in p .. n - 1, y # p PROVE y \in c .. n - 1
        <3>1. y \notin p .. c - 1
            BY <1>3, <1>4, <2>1, OneBlock
        <3> QED BY <1>2, <1>3, <2>1, <3>1
    <2> QED BY <1>2, <1>3, <2>1
<1>9. SweepIsExact(block', sweep') /\ InRun(sweep') = {}
      /\ (sweep'.phase = "check" => c < sweep'.pCollectibleBlock)
    <2>1. p <= c
        BY <1>2, <1>3
    <2> QED BY <1>1, <1>2, <1>3, <1>5, <1>6, <2>1, RunEnds DEF c, n
<1>10. FreeOf(block') = FreeOf(block) \ (c .. n - 1)
    <2>1. p \in FreeOf(block) /\ p \notin c .. n - 1 /\ FreeOf(block) \subseteq BlocksOf(block)
        BY <1>2, <1>3 DEF FreeOf
    <2> QED BY <1>7, <1>8, <2>1
<1>11. ListsAreExact(block', pFreeList', sweep')
    <2>1. PICK S, R : Lists(block, pFreeList, sweep, S, R)
        BY DEF HeapInv, ListsAreExact
    <2>2. /\ OnFreeList(block, pFreeList, S)
          /\ OnReleasedList(block, sweep.pReleasedMemoryBlocks, sweep.pLastInReleasedList, R)
          /\ S \subseteq Address /\ R \subseteq Address
          /\ S \cap R = {} /\ S \cup R = FreeOf(block) \ (c .. n - 1)
          /\ \A x \in R : x < c
        BY <1>1, <2>1 DEF Lists, InRun, c, n
    <2>3. OnFreeList(block', pFreeList', S)
        <3>1. \A y \in S : /\ block'[y].forward = block[y].forward
                           /\ block'[y].pPreviousFree = block[y].pPreviousFree
            BY <1>3, <2>2
        <3> QED BY <1>1, <2>2, <3>1, SameList
    <2>4. OnReleasedList(block', sweep'.pReleasedMemoryBlocks, sweep'.pLastInReleasedList, R)
        <3>1. \A y \in R : /\ block'[y].forward = block[y].forward
                           /\ block'[y].pPreviousFree = block[y].pPreviousFree
            BY <1>3, <2>2
        <3> QED BY <1>1, <1>5, <2>2, <3>1, SameReleased
    <2>5. sweep'.phase \in {"check", "run"} => \A x \in R : x < sweep'.pCollectibleBlock
        <3>1. sweep'.phase \in {"check", "run"} => sweep'.phase = "check"
            BY <1>1, <1>5
        <3>2. sweep'.phase = "check" => sweep'.pCollectibleBlock \in Nat
            <4>1. sweep'.phase = "check" => sweep'.pCollectibleBlock \in BlocksOf(block')
                BY <1>9 DEF SweepIsExact
            <4> QED BY <4>1, NullIsNoAddress DEF BlocksOf
        <3>3. \A x \in R : x \in Nat
            BY <2>2, NullIsNoAddress
        <3>4. (\A x \in R : x < c) /\ c \in Nat
            BY <1>2, <2>2
        <3>5. sweep'.phase = "check" => c < sweep'.pCollectibleBlock
            BY <1>9
        <3> QED BY <3>1, <3>2, <3>3, <3>4, <3>5
    <2>6. Lists(block', pFreeList', sweep', S, R)
        BY <1>9, <1>10, <2>2, <2>3, <2>4, <2>5 DEF Lists
    <2> QED BY <2>6 DEF ListsAreExact
<1>12. OnlyWhiteGone(block, block')
    <2>1. ASSUME NEW y \in Allocated(block), y \in p .. n - 1 PROVE block[y].kind = "white"
        <3>1. y \in BlocksOf(block) /\ block[y].kind # "free"
            BY DEF Allocated, FreeOf
        <3> QED BY <1>2, <1>3, <1>8, <2>1, <3>1
    <2> QED BY <1>7, <2>1 DEF OnlyWhiteGone
<1>13. FreeingIsExact(block', freeing', sweep')
    BY <1>1, NoneFreeing DEF HeapInv
<1> QED BY <1>6, <1>9, <1>11, <1>12, <1>13 DEF HeapInv

\* What releaseRun writes.
LEMMA ReleasedRun ==
    ASSUME HeapAssumption, HeapInv, releaseRun,
           NEW c, c = sweep.pCollectibleBlock, NEW n, n = sweep.pNonCollectibleBlock,
           NEW p, p = sweep.pPreviousContiguous, NEW first, first = sweep.pReleasedMemoryBlocks,
           first = NULL \/ first \in Address \ (c .. n - 1)
    PROVE  /\ Merged(block, block', c, n)
           /\ \A y \in BlocksOf(block) :
                 getFollowingBlock(block, y) = c => block[y].kind # "free"
           /\ \A y \in Address \ (c .. n - 1) :
                 /\ block'[y].forward = block[y].forward
                 /\ block'[y].pPreviousFree = IF y = first THEN c ELSE block[y].pPreviousFree
           /\ block'[c].forward = first /\ block'[c].pPreviousFree = NULL
<1> DEFINE B1 == IF n = getFollowingBlock(block, c) THEN block ELSE TellNext(block, n, c)
           T == c + 1 .. n - 1
           B2 == Forget(B1, T)
           B3 == [B2 EXCEPT ![c].size = n - c, ![c].kind = "free", ![c].forward = first,
                            ![c].back = p, ![c].pPreviousFree = NULL]
<1>1. /\ sweep.phase = "run" /\ ~runGoesOn /\ ~(p # NULL /\ block[p].kind = "free")
      /\ block' = IF first = NULL THEN B3 ELSE [B3 EXCEPT ![first].pPreviousFree = c]
    <2>1. B3 = releasedRun(c, n, p)
        BY DEF releasedRun
    <2> HIDE DEF B3
    <2> QED BY <2>1 DEF releaseRun, isFree
<1>2. /\ Geometry(block) /\ c \in BlocksOf(block) /\ n \in BlocksOf(block) \cup {HeapSize}
      /\ c < n /\ c \in Nat /\ n \in Nat /\ IsBefore(block, p, c) /\ n <= HeapSize
      /\ n # HeapSize => block[n].kind \notin {"free", "white"}
      /\ c \in Address
    BY <1>1, TheRun
<1>3. block \in Memory /\ Tiled(block) /\ Neighbours(block)
    BY <1>2 DEF Geometry
<1>4. c \in Pointer /\ p \in Pointer /\ first \in Pointer /\ NULL \in Pointer
    BY <1>2, <1>3 DEF Pointer, IsBefore, BlocksOf
<1>5. n # HeapSize => n \in Address
    BY <1>2 DEF BlocksOf
<1> HIDE DEF B1, B2, B3, T
<1>6. /\ B1 \in Memory
      /\ \A y \in Address :
            /\ B1[y].kind = block[y].kind /\ B1[y].size = block[y].size
            /\ B1[y].forward = block[y].forward
            /\ B1[y].pPreviousFree = block[y].pPreviousFree
            /\ y # n => B1[y].back = block[y].back
            /\ y = n /\ block[y].kind = "nonCollectible" => B1[y].back = c
    <2>1. CASE n = getFollowingBlock(block, c)
        <3>1. ASSUME n \in Address, block[n].kind = "nonCollectible" PROVE block[n].back = c
            <4>1. n \in BlocksOf(block) /\ IsBefore(block, block[n].back, n)
                BY <1>3, <3>1 DEF Neighbours, BlocksOf
            <4>2. IsBefore(block, c, n) /\ n \in 0 .. HeapSize
                BY <1>2, <2>1, NullIsNoAddress DEF IsBefore
            <4> QED BY <1>3, <4>1, <4>2, OnePredecessor
        <3>2. B1 = block
            BY <2>1 DEF B1
        <3> QED BY <1>3, <3>1, <3>2
    <2>2. CASE n # getFollowingBlock(block, c)
        <3>1. /\ TellNext(block, n, c) \in Memory
              /\ \A y \in Address :
                    /\ TellNext(block, n, c)[y].kind = block[y].kind
                    /\ TellNext(block, n, c)[y].size = block[y].size
                    /\ TellNext(block, n, c)[y].forward = block[y].forward
                    /\ TellNext(block, n, c)[y].pPreviousFree = block[y].pPreviousFree
                    /\ TellNext(block, n, c)[y].back =
                           IF y = n /\ block[y].kind = "nonCollectible" THEN c
                           ELSE block[y].back
            <4>1. block \in Memory /\ n \in Nat /\ c \in Pointer
                BY <1>2, <1>3, <1>4
            <4> QED BY <4>1, TellNext_Does
        <3> QED BY <2>2, <3>1 DEF B1
    <2> QED BY <2>1, <2>2
<1>7. /\ B2 \in Memory
      /\ \A y \in T \cap Address : B2[y] = Garbage
      /\ \A y \in Address \ T : B2[y] = B1[y]
    BY <1>6, Forget_Does DEF B2
<1>8. n - c \in 0 .. HeapSize
    BY <1>2, NullIsNoAddress
<1>9. /\ B3 \in Memory
      /\ \A y \in Address \ {c} : B3[y] = B2[y]
      /\ B3[c].size = n - c /\ B3[c].kind = "free" /\ B3[c].forward = first
      /\ B3[c].back = p /\ B3[c].pPreviousFree = NULL
    <2>1. "free" \in AllKinds
        BY DEF AllKinds
    <2> DEFINE m == n - c
    <2>2. m \in 0 .. HeapSize
        BY <1>8
    <2>3. B3 = [B2 EXCEPT ![c].size = m, ![c].kind = "free", ![c].forward = first,
                          ![c].back = p, ![c].pPreviousFree = NULL]
        BY DEF B3
    <2> HIDE DEF m
    <2>4. B2[c] \in Header /\ B2 \in [Address -> Header]
        BY <1>2, <1>7 DEF Memory
    <2>5. B3 \in [Address -> Header] /\ \A y \in Address \ {c} : B3[y] = B2[y]
        BY <1>2, <1>4, <2>1, <2>2, <2>3, <2>4 DEF Header
    <2>6. /\ B3[c].size = m /\ B3[c].kind = "free" /\ B3[c].forward = first
          /\ B3[c].back = p /\ B3[c].pPreviousFree = NULL
        BY <1>2, <2>3, <2>4 DEF Header
    <2> QED BY <2>5, <2>6 DEF Memory, m
<1>10. /\ block' \in Memory
       /\ \A y \in Address :
             /\ block'[y].size = B3[y].size /\ block'[y].kind = B3[y].kind
             /\ block'[y].forward = B3[y].forward /\ block'[y].back = B3[y].back
             /\ block'[y].pPreviousFree = IF y = first THEN c ELSE B3[y].pPreviousFree
    <2>1. CASE first = NULL
        BY <1>1, <1>9, <2>1, NullIsNoAddress
    <2>2. CASE first # NULL
        <3>1. first \in Address
            BY <2>2
        <3>2. block' = [B3 EXCEPT ![first].pPreviousFree = c]
            BY <1>1, <2>2
        <3> QED BY <1>4, <1>9, <3>1, <3>2 DEF Memory, Header
    <2> QED BY <2>1, <2>2
<1>11. c \in c .. n - 1 /\ first # c /\ c \notin T
    BY <1>2, NullIsNoAddress DEF T
<1>12. /\ block'[c].size = n - c /\ block'[c].kind = "free" /\ block'[c].forward = first
       /\ block'[c].back = p /\ block'[c].pPreviousFree = NULL
    BY <1>2, <1>9, <1>10, <1>11
<1>13. ASSUME NEW y \in Address \ (c .. n - 1)
       PROVE  /\ block'[y].kind = block[y].kind /\ block'[y].size = block[y].size
              /\ block'[y].forward = block[y].forward
              /\ block'[y].pPreviousFree = IF y = first THEN c ELSE block[y].pPreviousFree
              /\ y # n => block'[y].back = block[y].back
              /\ y = n /\ block[y].kind = "nonCollectible" => block'[y].back = c
    <2>1. y # c /\ y \notin T
        BY <1>2, <1>11 DEF T
    <2> QED BY <1>6, <1>7, <1>9, <1>10, <2>1
<1>14. ASSUME NEW y \in c + 1 .. n - 1 PROVE block'[y].kind = "none"
    <2>1. y \in Address /\ y # c /\ y \in T
        BY <1>2, NullIsNoAddress DEF Address, T
    <2> QED BY <1>7, <1>9, <1>10, <2>1 DEF Garbage
<1>15. n \notin c .. n - 1
    BY <1>2
<1>16. Merged(block, block', c, n)
    <2>1. SameOutside(block, block', c, n)
        BY <1>13 DEF SameOutside
    <2>2. n # HeapSize /\ block[n].kind = "nonCollectible" => block'[n].back = c
        BY <1>5, <1>13, <1>15
    <2> QED BY <1>2, <1>10, <1>12, <1>14, <2>1, <2>2 DEF Merged
<1>17. \A y \in BlocksOf(block) : getFollowingBlock(block, y) = c => block[y].kind # "free"
    <2>1. ASSUME NEW y \in BlocksOf(block), getFollowingBlock(block, y) = c PROVE y = p /\ p # NULL
        BY <1>2, <1>3, <2>1, EndsWhereItBegins
    <2> QED BY <1>1, <2>1
<1> QED BY <1>12, <1>13, <1>16, <1>17

\* The list of released blocks has one more.
LEMMA OneMoreReleased ==
    ASSUME HeapAssumption, NEW B, NEW B2, NEW first, NEW last, NEW R,
           OnReleasedList(B, first, last, R), NEW a \in Address \ R,
           \A x \in R : /\ B2[x].forward = B[x].forward
                        /\ B2[x].pPreviousFree = IF x = first THEN a ELSE B[x].pPreviousFree,
           B2[a].forward = first, B2[a].pPreviousFree = NULL
    PROVE  OnReleasedList(B2, a, IF first = NULL THEN a ELSE last, R \cup {a})
<1>1. PICK m \in Nat : \E r \in [1 .. m -> Address] :
        Linked(B, r, m, first) /\ On(r, m) = R /\ last = Place(r, m, m)
    BY DEF OnReleasedList
<1>2. PICK r \in [1 .. m -> Address] :
        Linked(B, r, m, first) /\ On(r, m) = R /\ last = Place(r, m, m)
    BY <1>1
<1> DEFINE v == Before(a, r, m)
<1>3. /\ Linked(B2, v, m + 1, a) /\ On(v, m + 1) = On(r, m) \cup {a}
      /\ Place(v, m + 1, m + 1) = IF m = 0 THEN a ELSE Place(r, m, m)
    BY <1>2, Pushed
<1> HIDE DEF v
<1>4. first = NULL <=> m = 0
    BY <1>2, Ends
<1>5. (IF first = NULL THEN a ELSE last) = Place(v, m + 1, m + 1) /\ On(v, m + 1) = R \cup {a}
    BY <1>2, <1>3, <1>4
<1>6. v \in [1 .. m + 1 -> Address] /\ m + 1 \in Nat
    BY <1>3 DEF Linked
<1> QED BY <1>3, <1>5, <1>6 DEF OnReleasedList

\* The first block of the list of released blocks is one of them.
LEMMA FirstReleased ==
    ASSUME HeapAssumption, NEW B, NEW first, NEW last, NEW R,
           OnReleasedList(B, first, last, R)
    PROVE  (first = NULL \/ first \in R) /\ (last = NULL \/ last \in R) /\ (first = NULL <=> last = NULL)
<1>1. PICK m \in Nat : \E r \in [1 .. m -> Address] :
        Linked(B, r, m, first) /\ On(r, m) = R /\ last = Place(r, m, m)
    BY DEF OnReleasedList
<1>2. PICK r \in [1 .. m -> Address] :
        Linked(B, r, m, first) /\ On(r, m) = R /\ last = Place(r, m, m)
    BY <1>1
<1>3. first = Place(r, m, 1) /\ (first = NULL <=> m = 0)
    <2>1. first = NULL <=> m = 0
        BY <1>2, Ends
    <2> QED BY <1>2, <2>1 DEF Linked
<1>4. m # 0 => r[1] \in R /\ r[m] \in R /\ first = r[1] /\ last = r[m] /\ r[m] \in Address
    BY <1>2, <1>3 DEF On, Place
<1>5. m = 0 => last = NULL
    BY <1>2 DEF Place
<1> QED BY <1>3, <1>4, <1>5, NullIsNoAddress

\* The run becomes a block on the list of released blocks.
LEMMA Releasing ==
    ASSUME HeapAssumption, HeapInv, releaseRun
    PROVE  HeapInv' /\ OnlyWhiteGone(block, block')
<1> DEFINE c == sweep.pCollectibleBlock
           n == sweep.pNonCollectibleBlock
           p == sweep.pPreviousContiguous
           first == sweep.pReleasedMemoryBlocks
           last == sweep.pLastInReleasedList
<1>1. /\ sweep.phase = "run" /\ ~runGoesOn
      /\ sweep' = [afterRun(n) EXCEPT
             !.pReleasedMemoryBlocks = c,
             !.pLastInReleasedList = IF first = NULL THEN c ELSE @]
      /\ pFreeList' = pFreeList /\ freeing' = freeing
    BY DEF releaseRun
<1>2. /\ Geometry(block) /\ SweepIsExact(block, sweep) /\ sweep \in Sweeps
      /\ c \in BlocksOf(block) /\ n \in BlocksOf(block) \cup {HeapSize} /\ c < n
      /\ c \in Nat /\ n \in Nat /\ c \in Address
      /\ \A x \in BlocksOf(block) \cap (c .. n - 1) : block[x].kind \in {"white", "free"}
      /\ n # HeapSize => n \in BlocksOf(block) /\ block[n].kind \notin {"free", "white"}
      /\ isNotPastHeapEnd(n) <=> n # HeapSize
    BY <1>1, TheRun
<1>3. PICK S, R : Lists(block, pFreeList, sweep, S, R)
    BY DEF HeapInv, ListsAreExact
<1>4. /\ OnFreeList(block, pFreeList, S)
      /\ OnReleasedList(block, first, last, R)
      /\ S \subseteq Address /\ R \subseteq Address
      /\ S \cap R = {} /\ S \cup R = FreeOf(block) \ (c .. n - 1)
      /\ \A x \in R : x < c
    BY <1>1, <1>3 DEF Lists, InRun
<1>5. first = NULL \/ first \in R
    BY <1>4, FirstReleased
<1>6. c \in c .. n - 1 /\ c \notin S /\ c \notin R
    BY <1>2, <1>4
<1>7. first = NULL \/ first \in Address \ (c .. n - 1)
    BY <1>4, <1>5
<1>8. /\ Merged(block, block', c, n)
      /\ \A y \in BlocksOf(block) :
            getFollowingBlock(block, y) = c => block[y].kind # "free"
      /\ \A y \in Address \ (c .. n - 1) :
            /\ block'[y].forward = block[y].forward
            /\ block'[y].pPreviousFree = IF y = first THEN c ELSE block[y].pPreviousFree
      /\ block'[c].forward = first /\ block'[c].pPreviousFree = NULL
    BY <1>7, ReleasedRun
<1>9. /\ afterRun(n) \in Sweeps
      /\ IF n # HeapSize /\ getFollowingBlock(block, n) < HeapSize
         THEN /\ afterRun(n).phase = "check" /\ afterRun(n).pPreviousContiguous = n
              /\ afterRun(n).pCollectibleBlock = getFollowingBlock(block, n)
         ELSE afterRun(n).phase = "swept"
      /\ afterRun(n).pLastInReleasedList = last
    BY <1>1, <1>2, AfterRun
<1> HIDE DEF c, n, p, first, last
<1>10. /\ sweep' \in Sweeps
       /\ IF n # HeapSize /\ getFollowingBlock(block, n) < HeapSize
          THEN /\ sweep'.phase = "check" /\ sweep'.pPreviousContiguous = n
               /\ sweep'.pCollectibleBlock = getFollowingBlock(block, n)
          ELSE sweep'.phase = "swept"
       /\ sweep'.pReleasedMemoryBlocks = c
       /\ sweep'.pLastInReleasedList = IF first = NULL THEN c ELSE last
    <2>1. c \in SweepPlace
        BY <1>2, NullIsNoAddress DEF SweepPlace, Address
    <2> QED BY <1>1, <1>9, <2>1 DEF Sweeps
<1>11. Geometry(block') /\ BlocksOf(block') = BlocksOf(block) \ (c + 1 .. n - 1)
    BY <1>2, <1>8, MergeKeeps
<1>12. /\ FreeOf(block') = (FreeOf(block) \ (c .. n - 1)) \cup {c}
       /\ Allocated(block') = Allocated(block) \ (c .. n - 1)
       /\ \A y \in Allocated(block') : block'[y].kind = block[y].kind /\ block'[y].size = block[y].size
    <2>1. /\ Geometry(block) /\ c \in BlocksOf(block) /\ n \in BlocksOf(block) \cup {HeapSize}
          /\ c < n /\ Merged(block, block', c, n)
        BY <1>2, <1>8
    <2> QED BY <2>1, MergedIsFree
<1>13. SweepIsExact(block', sweep') /\ InRun(sweep') = {}
       /\ (sweep'.phase = "check" => c < sweep'.pCollectibleBlock)
    <2>1. /\ Geometry(block) /\ SweepIsExact(block, sweep) /\ sweep.phase = "run"
          /\ n = sweep.pNonCollectibleBlock /\ c = sweep.pCollectibleBlock
          /\ c \in BlocksOf(block) /\ c <= sweep.pCollectibleBlock
          /\ Merged(block, block', c, n) /\ Geometry(block')
          /\ BlocksOf(block') = BlocksOf(block) \ (c + 1 .. n - 1)
          /\ n # HeapSize => block[n].kind # "white"
          /\ sweep' \in Sweeps
        BY <1>1, <1>2, <1>8, <1>10, <1>11 DEF c, n
    <2>2. IF n # HeapSize /\ getFollowingBlock(block, n) < HeapSize
          THEN /\ sweep'.phase = "check" /\ sweep'.pPreviousContiguous = n
               /\ sweep'.pCollectibleBlock = getFollowingBlock(block, n)
          ELSE sweep'.phase = "swept"
        BY <1>10
    <2>3. /\ SweepIsExact(block', sweep') /\ InRun(sweep') = {}
          /\ sweep'.phase = "check" => sweep.pCollectibleBlock < sweep'.pCollectibleBlock
        BY <2>1, <2>2, RunEnds
    <2> QED BY <2>1, <2>3
<1>14. ListsAreExact(block', pFreeList', sweep')
    <2>1. OnFreeList(block', pFreeList', S)
        <3>1. \A y \in S : /\ block'[y].forward = block[y].forward
                           /\ block'[y].pPreviousFree = block[y].pPreviousFree
            BY <1>4, <1>5, <1>8, NullIsNoAddress
        <3> QED BY <1>1, <1>4, <3>1, SameList
    <2>2. OnReleasedList(block', c, IF first = NULL THEN c ELSE last, R \cup {c})
        <3>1. \A y \in R : /\ block'[y].forward = block[y].forward
                           /\ block'[y].pPreviousFree = IF y = first THEN c
                                                        ELSE block[y].pPreviousFree
            BY <1>4, <1>8
        <3>2. /\ OnReleasedList(block, first, last, R) /\ c \in Address \ R
              /\ block'[c].forward = first /\ block'[c].pPreviousFree = NULL
            BY <1>2, <1>4, <1>6, <1>8
        <3> QED BY <3>1, <3>2, OneMoreReleased
    <2>3. sweep'.phase \in {"check", "run"} =>
             \A x \in R \cup {c} : x < sweep'.pCollectibleBlock
        <3>1. sweep'.phase \in {"check", "run"} => sweep'.phase = "check"
            BY <1>10
        <3>2. sweep'.phase = "check" => sweep'.pCollectibleBlock \in Nat
            <4>1. sweep'.phase = "check" => sweep'.pCollectibleBlock \in BlocksOf(block')
                BY <1>13 DEF SweepIsExact
            <4> QED BY <4>1, NullIsNoAddress DEF BlocksOf
        <3>3. \A x \in R : x \in Nat
            BY <1>4, NullIsNoAddress
        <3>4. (\A x \in R : x < c) /\ c \in Nat
            BY <1>2, <1>4
        <3>5. sweep'.phase = "check" => c < sweep'.pCollectibleBlock
            BY <1>13
        <3> QED BY <3>1, <3>2, <3>3, <3>4, <3>5
    <2>4. S \cup (R \cup {c}) = FreeOf(block') /\ S \cap (R \cup {c}) = {}
        BY <1>4, <1>6, <1>12
    <2>5. Lists(block', pFreeList', sweep', S, R \cup {c})
        BY <1>2, <1>4, <1>10, <1>13, <2>1, <2>2, <2>3, <2>4 DEF Lists
    <2> QED BY <2>5 DEF ListsAreExact
<1>15. OnlyWhiteGone(block, block')
    <2>1. ASSUME NEW y \in Allocated(block), y \in c .. n - 1 PROVE block[y].kind = "white"
        <3>1. y \in BlocksOf(block) /\ block[y].kind # "free"
            BY DEF Allocated, FreeOf
        <3> QED BY <1>2, <2>1, <3>1
    <2> QED BY <1>12, <2>1 DEF OnlyWhiteGone
<1>16. FreeingIsExact(block', freeing', sweep')
    BY <1>1, NoneFreeing DEF HeapInv
<1> QED BY <1>11, <1>13, <1>14, <1>15, <1>16 DEF HeapInv

\* The list of released blocks, put in front of the free list.
LEMMA ListsJoined ==
    ASSUME HeapAssumption, NEW B, NEW B2, NEW first, NEW S, OnFreeList(B, first, S),
           NEW released, NEW last, NEW R, OnReleasedList(B, released, last, R),
           released # NULL, S \cap R = {},
           \A x \in S \cup R :
               /\ B2[x].forward = IF x = last THEN first ELSE B[x].forward
               /\ B2[x].pPreviousFree = IF x = first THEN last ELSE B[x].pPreviousFree
    PROVE  OnFreeList(B2, released, S \cup R)
<1>1. PICK m \in Nat : \E r \in [1 .. m -> Address] :
        Linked(B, r, m, released) /\ On(r, m) = R /\ last = Place(r, m, m)
    BY DEF OnReleasedList
<1>2. PICK r \in [1 .. m -> Address] :
        Linked(B, r, m, released) /\ On(r, m) = R /\ last = Place(r, m, m)
    BY <1>1
<1>3. PICK n \in Nat : \E s \in [1 .. n -> Address] : Linked(B, s, n, first) /\ On(s, n) = S
    BY DEF OnFreeList
<1>4. PICK s \in [1 .. n -> Address] : Linked(B, s, n, first) /\ On(s, n) = S
    BY <1>3
<1>5. m # 0
    BY <1>2, Ends
<1>6. /\ Linked(B2, Together(r, m, s, n), m + n, released)
      /\ On(Together(r, m, s, n), m + n) = On(r, m) \cup On(s, n)
    <2>1. /\ Linked(B, s, n, first) /\ Linked(B, r, m, released) /\ m # 0
          /\ On(s, n) \cap On(r, m) = {}
          /\ \A x \in On(s, n) \cup On(r, m) :
               /\ B2[x].forward = IF x = Place(r, m, m) THEN first ELSE B[x].forward
               /\ B2[x].pPreviousFree = IF x = first THEN Place(r, m, m)
                                        ELSE B[x].pPreviousFree
        BY <1>2, <1>4, <1>5
    <2>2. Linked(B2, Together(r, m, s, n), m + n, released)
        BY <2>1, Appended, SMTT(60)
    <2>3. On(Together(r, m, s, n), m + n) = On(r, m) \cup On(s, n)
        BY <2>1, Appended, SMTT(60)
    <2> QED BY <2>2, <2>3
<1> DEFINE v == Together(r, m, s, n)
<1> HIDE DEF v
<1>7. v \in [1 .. m + n -> Address] /\ m + n \in Nat /\ On(v, m + n) = S \cup R
      /\ Linked(B2, v, m + n, released)
    BY <1>2, <1>4, <1>6 DEF Linked, v
<1> QED BY <1>7 DEF OnFreeList

\* The end of a sweep.
LEMMA Adding ==
    ASSUME HeapAssumption, HeapInv, addToFreeList
    PROVE  HeapInv' /\ OnlyWhiteGone(block, block')
<1> DEFINE first == sweep.pReleasedMemoryBlocks
           last == sweep.pLastInReleasedList
           B1 == [block EXCEPT ![last].forward = pFreeList]
<1>1. /\ sweep.phase = "swept" /\ sweep' = Idle /\ freeing' = freeing
      /\ first = NULL => block' = block /\ pFreeList' = pFreeList
      /\ first # NULL =>
            /\ block' = IF pFreeList = NULL THEN B1
                        ELSE [B1 EXCEPT ![pFreeList].pPreviousFree = last]
            /\ pFreeList' = first
    BY DEF addToFreeList
<1>2. Geometry(block) /\ block \in Memory
    BY DEF HeapInv, Geometry
<1>3. PICK S, R : Lists(block, pFreeList, sweep, S, R)
    BY DEF HeapInv, ListsAreExact
<1>4. /\ OnFreeList(block, pFreeList, S)
      /\ OnReleasedList(block, first, last, R)
      /\ S \subseteq Address /\ R \subseteq Address
      /\ S \cap R = {} /\ S \cup R = FreeOf(block)
    BY <1>1, <1>3 DEF Lists, InRun
<1>5. /\ first = NULL \/ first \in R
      /\ last = NULL \/ last \in R
      /\ first = NULL <=> last = NULL
    BY <1>4, FirstReleased
<1>6. pFreeList = NULL \/ pFreeList \in S
    <2>1. PICK m \in Nat : \E s \in [1 .. m -> Address] :
             Linked(block, s, m, pFreeList) /\ On(s, m) = S
        BY <1>4 DEF OnFreeList
    <2>2. PICK s \in [1 .. m -> Address] : Linked(block, s, m, pFreeList) /\ On(s, m) = S
        BY <2>1
    <2> QED BY <2>2 DEF Linked, Place, On
<1> HIDE DEF first, last
<1>7. CASE first = NULL
    <2>1. R = {}
        BY <1>4, <1>7, NoReleased
    <2>2. SameButLinks(block, block', {}) /\ OnlyWhiteGone(block, block')
        BY <1>1, <1>2, <1>7, NoLinks
    <2>3. Geometry(block') /\ OnFreeList(block', pFreeList', FreeOf(block'))
        BY <1>1, <1>2, <1>4, <1>7, <2>1
    <2>4. SweepIsExact(block', sweep') /\ ListsAreExact(block', pFreeList', sweep')
        BY <1>1, <2>3, IdleAgain
    <2>5. FreeingIsExact(block', freeing', sweep')
        BY <1>1, NoneFreeing DEF HeapInv
    <2> QED BY <2>2, <2>3, <2>4, <2>5 DEF HeapInv
<1>8. CASE first # NULL
    <2>1. last \in R /\ last \in Address
        BY <1>4, <1>5, <1>8
    <2>2. pFreeList \in Pointer /\ last \in Pointer
        BY <1>4, <1>6, <2>1 DEF Pointer
    <2>3. /\ B1 \in Memory
          /\ \A y \in Address :
                /\ B1[y].kind = block[y].kind /\ B1[y].size = block[y].size
                /\ B1[y].back = block[y].back /\ B1[y].pPreviousFree = block[y].pPreviousFree
                /\ B1[y].forward = IF y = last THEN pFreeList ELSE block[y].forward
        BY <1>2, <2>1, <2>2 DEF Memory, Header
    <2> HIDE DEF B1
    <2>4. /\ block' \in Memory
          /\ \A y \in Address :
                /\ block'[y].kind = block[y].kind /\ block'[y].size = block[y].size
                /\ block'[y].back = block[y].back
                /\ block'[y].forward = IF y = last THEN pFreeList ELSE block[y].forward
                /\ block'[y].pPreviousFree = IF y = pFreeList THEN last
                                             ELSE block[y].pPreviousFree
        <3>1. CASE pFreeList = NULL
            BY <1>1, <1>8, <2>3, <3>1, NullIsNoAddress
        <3>2. CASE pFreeList # NULL
            <4>1. pFreeList \in Address /\ block' = [B1 EXCEPT ![pFreeList].pPreviousFree = last]
                BY <1>1, <1>4, <1>6, <1>8, <3>2
            <4> QED BY <2>2, <2>3, <4>1 DEF Memory, Header
        <3> QED BY <3>1, <3>2
    <2>5. SameButLinks(block, block', FreeOf(block))
        <3>1. last \in FreeOf(block) /\ (pFreeList = NULL \/ pFreeList \in FreeOf(block))
            BY <1>4, <1>6, <2>1
        <3> QED BY <2>4, <3>1, NullIsNoAddress DEF SameButLinks
    <2>6. Geometry(block') /\ FreeOf(block') = FreeOf(block) /\ OnlyWhiteGone(block, block')
        BY <1>2, <2>5, OnlyLinks
    <2>7. OnFreeList(block', first, S \cup R)
        <3>1. \A x \in S \cup R :
                  /\ block'[x].forward = IF x = last THEN pFreeList ELSE block[x].forward
                  /\ block'[x].pPreviousFree = IF x = pFreeList THEN last
                                               ELSE block[x].pPreviousFree
            BY <1>4, <2>4
        <3> QED BY <1>4, <1>8, <3>1, ListsJoined
    <2>8. SweepIsExact(block', sweep') /\ ListsAreExact(block', pFreeList', sweep')
        BY <1>1, <1>4, <1>8, <2>6, <2>7, IdleAgain
    <2>9. FreeingIsExact(block', freeing', sweep')
        BY <1>1, NoneFreeing DEF HeapInv
    <2> QED BY <2>6, <2>8, <2>9 DEF HeapInv
<1> QED BY <1>7, <1>8

-----------------------------------------------------------------------------
(* allocateBlock. *)

\* The first block that fits is a free block that is large enough.
LEMMA FirstThatFits ==
    ASSUME HeapAssumption, NEW B, NEW first, NEW S, OnFreeList(B, first, S),
           NEW size, Fits(B, first, size) # {},
           NEW a, a = FreeList(B, first)[Min(Fits(B, first, size))]
    PROVE  a \in S /\ B[a].size >= requiredSize(size)
<1>1. PICK m \in Nat : \E s \in [1 .. m -> Address] : Linked(B, s, m, first) /\ On(s, m) = S
    BY DEF OnFreeList
<1>2. PICK s \in [1 .. m -> Address] : Linked(B, s, m, first) /\ On(s, m) = S
    BY <1>1
<1>3. FreeList(B, first) = s /\ DOMAIN FreeList(B, first) = 1 .. m
    BY <1>2, FreeListIs
<1>4. Fits(B, first, size) = {k \in 1 .. m : B[s[k]].size >= requiredSize(size)}
    BY <1>3 DEF Fits
<1> DEFINE k == Min(Fits(B, first, size))
<1>5. Fits(B, first, size) \subseteq Nat
    BY <1>4
<1>6. k \in Fits(B, first, size)
    BY <1>5, MinOfNaturals
<1> HIDE DEF k
<1>7. k \in 1 .. m /\ B[s[k]].size >= requiredSize(size)
    BY <1>4, <1>6
<1>8. a = s[k]
    BY <1>3 DEF k
<1> QED BY <1>2, <1>7, <1>8 DEF On

\* The block at b becomes an allocated block.
OneMoreAllocated(B, B2, b) ==
    /\ b \in Address \ Allocated(B) /\ Allocated(B2) = Allocated(B) \cup {b}
    /\ \A y \in Allocated(B) : B2[y].kind = B[y].kind /\ B2[y].size = B[y].size

\* What SplitBlock writes.
LEMMA SplitBlock_Does ==
    ASSUME HeapAssumption, NEW B, Geometry(B), NEW a \in BlocksOf(B), B[a].kind = "free",
           NEW required \in Nat, required >= MinimumBlock,
           B[a].size - required >= MinimumBlock, NEW kind \in Kinds
    PROVE  /\ SplitOff(B, SplitBlock(B, a, required, kind), a, a + (B[a].size - required))
           /\ \A y \in Address \ {a + (B[a].size - required)} :
                 /\ SplitBlock(B, a, required, kind)[y].forward = B[y].forward
                 /\ SplitBlock(B, a, required, kind)[y].pPreviousFree = B[y].pPreviousFree
<1> DEFINE extra == B[a].size - required
           new == a + extra
           next == new + required
           header == IF kind = "nonCollectible"
                     THEN [size |-> required, kind |-> kind, back |-> a,
                           forward |-> NextContiguous(next), pPreviousFree |-> Other]
                     ELSE [size |-> required, kind |-> colour, back |-> Other,
                           forward |-> Other, pPreviousFree |-> Other]
           B1 == TellNext(B, next, new)
           B2 == [B1 EXCEPT ![new] = header, ![a].size = extra]
<1>1. B2 = SplitBlock(B, a, required, kind)
    BY DEF SplitBlock
<1>2. B \in Memory /\ Tiled(B)
    BY DEF Geometry
<1>3. /\ a \in Nat /\ a \in Address /\ B[a].size \in Nat
      /\ getFollowingBlock(B, a) = a + B[a].size /\ getFollowingBlock(B, a) <= HeapSize
      /\ MinimumBlock \in Nat \ {0} /\ HeapSize \in Nat
    BY <1>2, Extents, NullIsNoAddress
<1>4. /\ next = getFollowingBlock(B, a) /\ new \in Nat /\ next \in Nat /\ next <= HeapSize
      /\ a < new /\ new < next /\ extra \in 0 .. HeapSize /\ extra = new - a
      /\ required = getFollowingBlock(B, a) - new /\ required \in 0 .. HeapSize
    BY <1>3
<1> HIDE DEF extra, new, next, header, B1, B2
<1>5. new \in Address /\ new # a /\ new # next /\ a # next /\ new \in Pointer /\ a \in Pointer
    <2>1. new < HeapSize
        BY <1>3, <1>4
    <2> QED BY <1>3, <1>4, <2>1 DEF Address, Pointer
<1>6. /\ B1 \in Memory
      /\ \A y \in Address :
            /\ B1[y].kind = B[y].kind /\ B1[y].size = B[y].size
            /\ B1[y].forward = B[y].forward /\ B1[y].pPreviousFree = B[y].pPreviousFree
            /\ B1[y].back = IF y = next /\ B[y].kind = "nonCollectible" THEN new ELSE B[y].back
    <2>1. B \in Memory /\ next \in Nat /\ new \in Pointer
        BY <1>2, <1>4, <1>5
    <2>2. /\ TellNext(B, next, new) \in Memory
          /\ \A y \in Address :
                /\ TellNext(B, next, new)[y].kind = B[y].kind
                /\ TellNext(B, next, new)[y].size = B[y].size
                /\ TellNext(B, next, new)[y].forward = B[y].forward
                /\ TellNext(B, next, new)[y].pPreviousFree = B[y].pPreviousFree
                /\ TellNext(B, next, new)[y].back =
                       IF y = next /\ B[y].kind = "nonCollectible" THEN new ELSE B[y].back
        BY <2>1, TellNext_Does
    <2> QED BY <2>2 DEF B1
<1>7. colour \in {"white", "black"}
    BY DEF colour
<1>8. kind \in {"nonCollectible", "collectible"}
    BY DEF HeapAssumption
<1>9. NextContiguous(next) \in Pointer
    BY <1>4, NullIsNoAddress DEF NextContiguous, isNotPastHeapEnd, Pointer, Address
<1>10. /\ header \in Header /\ header.size = required
       /\ header.kind \in {"nonCollectible", "white", "black"}
       /\ header.kind = "nonCollectible" =>
             header.back = a /\ header.forward = NextContiguous(next)
    <2>1. Other \in Pointer
        BY DEF Pointer
    <2>2. CASE kind = "nonCollectible"
        <3>1. header = [size |-> required, kind |-> "nonCollectible", back |-> a,
                        forward |-> NextContiguous(next), pPreviousFree |-> Other]
            BY <2>2 DEF header
        <3> HIDE DEF NextContiguous
        <3> QED BY <1>4, <1>5, <1>9, <2>1, <3>1 DEF Header, AllKinds
    <2>3. CASE kind # "nonCollectible"
        <3>1. header = [size |-> required, kind |-> colour, back |-> Other,
                        forward |-> Other, pPreviousFree |-> Other]
            BY <2>3 DEF header
        <3> QED BY <1>4, <1>7, <2>1, <3>1 DEF Header, AllKinds
    <2> QED BY <2>2, <2>3
<1>11. /\ B2 \in Memory
       /\ B2[new] = header
       /\ \A y \in Address \ {new} :
             /\ B2[y].kind = B1[y].kind /\ B2[y].back = B1[y].back
             /\ B2[y].forward = B1[y].forward /\ B2[y].pPreviousFree = B1[y].pPreviousFree
             /\ B2[y].size = IF y = a THEN extra ELSE B1[y].size
    <2> DEFINE B3 == [B1 EXCEPT ![new] = header]
    <2>1. B3 \in Memory /\ B3[new] = header /\ \A y \in Address \ {new} : B3[y] = B1[y]
        BY <1>5, <1>6, <1>10 DEF Memory
    <2>2. B2 = [B3 EXCEPT ![a].size = extra]
        BY DEF B2
    <2> HIDE DEF B3
    <2> QED BY <1>3, <1>4, <1>5, <2>1, <2>2 DEF Memory, Header
<1>12. B2[a].kind = "free" /\ B2[a].size = new - a /\ B2[a].back = B[a].back
    BY <1>3, <1>4, <1>5, <1>6, <1>11
<1>13. \A y \in Address \ {a, new} :
          /\ B2[y].kind = B[y].kind /\ B2[y].size = B[y].size
          /\ B2[y].back = IF y = next /\ B[y].kind = "nonCollectible"
                          THEN new ELSE B[y].back
          /\ B[y].kind = "nonCollectible" => B2[y].forward = B[y].forward
    BY <1>6, <1>11
<1>14. SplitOff(B, B2, a, new)
    BY <1>4, <1>10, <1>11, <1>12, <1>13 DEF SplitOff
<1>15. \A y \in Address \ {new} :
          B2[y].forward = B[y].forward /\ B2[y].pPreviousFree = B[y].pPreviousFree
    BY <1>6, <1>11
<1> QED BY <1>1, <1>14, <1>15 DEF new, extra

\* An allocation that splits a block.
LEMMA SplittingKeeps ==
    ASSUME HeapAssumption, NEW B, Geometry(B), NEW first, OnFreeList(B, first, FreeOf(B)),
           NEW a \in FreeOf(B), NEW required \in Nat, required >= MinimumBlock,
           B[a].size - required >= MinimumBlock, NEW kind \in Kinds,
           NEW B2, B2 = SplitBlock(B, a, required, kind)
    PROVE  /\ Geometry(B2) /\ OnFreeList(B2, first, FreeOf(B2))
           /\ \E b \in Address : OneMoreAllocated(B, B2, b)
<1> DEFINE new == a + (B[a].size - required)
<1>1. a \in BlocksOf(B) /\ B[a].kind = "free"
    BY DEF FreeOf
<1>2. SplitOff(B, B2, a, new)
    BY <1>1, SplitBlock_Does
<1>3. \A y \in Address \ {new} :
         B2[y].forward = B[y].forward /\ B2[y].pPreviousFree = B[y].pPreviousFree
    BY <1>1, SplitBlock_Does
<1>4. /\ a \in Nat /\ B[a].size \in Nat /\ getFollowingBlock(B, a) = a + B[a].size
      /\ MinimumBlock \in Nat
    BY <1>1, Extents, NullIsNoAddress DEF Geometry
<1>5. /\ new \in Nat /\ new - a >= MinimumBlock
      /\ getFollowingBlock(B, a) - new >= MinimumBlock /\ new # a
    BY <1>4, NullIsNoAddress
<1> HIDE DEF new
<1>6. Geometry(B2) /\ BlocksOf(B2) = BlocksOf(B) \cup {new} /\ new \notin BlocksOf(B)
      /\ new \in Address
    BY <1>1, <1>2, <1>5, SplitKeeps
<1>7. B2[a].kind = "free" /\ B2[new].kind \in {"nonCollectible", "white", "black"}
      /\ \A y \in Address \ {a, new} : B2[y].kind = B[y].kind /\ B2[y].size = B[y].size
    BY <1>2 DEF SplitOff
<1>8. \A y \in BlocksOf(B) : y \in Address /\ y # new
    BY <1>6 DEF BlocksOf
<1>9. FreeOf(B2) = FreeOf(B)
    BY <1>1, <1>6, <1>7, <1>8 DEF FreeOf
<1>10. OnFreeList(B2, first, FreeOf(B2))
    <2>1. \A y \in FreeOf(B) : B2[y].forward = B[y].forward /\ B2[y].pPreviousFree = B[y].pPreviousFree
        BY <1>3, <1>8 DEF FreeOf
    <2> QED BY <1>9, <2>1, SameList
<1>11. OneMoreAllocated(B, B2, new)
    <2>1. Allocated(B2) = Allocated(B) \cup {new} /\ new \notin Allocated(B)
        BY <1>6, <1>8, <1>9 DEF Allocated, FreeOf
    <2>2. \A y \in Allocated(B) : y \in Address \ {a, new}
        BY <1>1, <1>8 DEF Allocated, FreeOf
    <2> QED BY <1>6, <1>7, <2>1, <2>2 DEF OneMoreAllocated
<1> QED BY <1>6, <1>10, <1>11

\* An allocation that takes a block whole.
LEMMA TakingKeeps ==
    ASSUME HeapAssumption, NEW B, Geometry(B), NEW first, OnFreeList(B, first, FreeOf(B)),
           NEW a \in FreeOf(B), NEW kind \in Kinds,
           NEW U, U = Unlink([block |-> B, list |-> first], a),
           NEW B2, B2 = TakeBlock(U.block, a, kind)
    PROVE  /\ Geometry(B2) /\ OnFreeList(B2, U.list, FreeOf(B2))
           /\ \E b \in Address : OneMoreAllocated(B, B2, b)
<1> DEFINE V == U.block
<1>1. a \in BlocksOf(B) /\ B[a].kind = "free" /\ a \in Address /\ B \in Memory
    BY DEF FreeOf, BlocksOf, Geometry
<1>2. SameButLinks(B, V, FreeOf(B)) /\ OnFreeList(V, U.list, FreeOf(B) \ {a})
    BY <1>1, UnlinkedList
<1> HIDE DEF V
<1>3. /\ Geometry(V) /\ BlocksOf(V) = BlocksOf(B) /\ FreeOf(V) = FreeOf(B)
      /\ \A y \in Address : V[y].kind = B[y].kind /\ V[y].size = B[y].size
    BY <1>2, LinksKeep
<1>4. V \in Memory /\ Tiled(V) /\ Neighbours(V)
    BY <1>3 DEF Geometry
<1>5. getFollowingBlock(V, a) \in Nat /\ getFollowingBlock(V, a) <= HeapSize
    BY <1>1, <1>3, <1>4, Extents
<1>6. NextContiguous(getFollowingBlock(V, a)) \in Pointer
    BY <1>5, NullIsNoAddress DEF NextContiguous, isNotPastHeapEnd, Pointer, Address
<1>7. colour \in {"white", "black"} /\ Other \in Pointer
    BY DEF colour, Pointer
<1> DEFINE next == NextContiguous(getFollowingBlock(V, a))
<1>8. B2 = IF kind = "nonCollectible"
           THEN [V EXCEPT ![a].kind = "nonCollectible", ![a].forward = next,
                          ![a].pPreviousFree = Other]
           ELSE [V EXCEPT ![a].kind = colour, ![a].back = Other, ![a].forward = Other,
                          ![a].pPreviousFree = Other]
    BY DEF TakeBlock, V
<1> HIDE DEF next
<1>9. next \in Pointer
    BY <1>6 DEF next
<1>10. /\ B2 \in Memory
       /\ \A y \in Address \ {a} : B2[y] = V[y]
       /\ B2[a].size = V[a].size /\ B2[a].kind \in {"nonCollectible", "white", "black"}
       /\ B2[a].kind = "nonCollectible" => B2[a].back = V[a].back /\ B2[a].forward = next
    <2>1. V[a] \in Header
        BY <1>1, <1>4 DEF Memory
    <2>2. CASE kind = "nonCollectible"
        <3>1. B2 = [V EXCEPT ![a].kind = "nonCollectible", ![a].forward = next,
                             ![a].pPreviousFree = Other]
            BY <1>8, <2>2
        <3>2. "nonCollectible" \in AllKinds
            BY DEF AllKinds
        <3> QED BY <1>1, <1>4, <1>7, <1>9, <2>1, <3>1, <3>2 DEF Memory, Header
    <2>3. CASE kind # "nonCollectible"
        <3>1. B2 = [V EXCEPT ![a].kind = colour, ![a].back = Other, ![a].forward = Other,
                             ![a].pPreviousFree = Other]
            BY <1>8, <2>3
        <3>2. colour \in AllKinds /\ colour # "nonCollectible"
            BY <1>7 DEF AllKinds
        <3> QED BY <1>1, <1>4, <1>7, <2>1, <3>1, <3>2 DEF Memory, Header
    <2> QED BY <2>2, <2>3
<1>11. SameExtents(V, B2)
    <2>1. ASSUME NEW y \in Address, V[y].kind = "nonCollectible"
          PROVE  V[y].forward = NextContiguous(getFollowingBlock(V, y))
        BY <1>4, <2>1 DEF Neighbours, BlocksOf
    <2>2. V[a].kind = "free"
        BY <1>1, <1>3
    <2>3. ASSUME NEW y \in Address \ {a}
          PROVE  /\ B2[y].size = V[y].size /\ B2[y].kind = V[y].kind /\ B2[y].back = V[y].back
                 /\ B2[y].forward = V[y].forward
        BY <1>10
    <2>4. B2[a].kind = "nonCollectible" => B2[a].forward = NextContiguous(getFollowingBlock(V, a))
        BY <1>10 DEF next
    <2>5. B2[a].kind \notin {"none", "free"}
        BY <1>10
    <2> QED BY <1>10, <2>1, <2>2, <2>3, <2>4, <2>5 DEF SameExtents
<1>12. Geometry(B2) /\ BlocksOf(B2) = BlocksOf(B)
    BY <1>3, <1>11, SameKeeps
<1>13. FreeOf(B2) = FreeOf(B) \ {a}
    <2>1. \A y \in BlocksOf(B) : y \in Address
        BY DEF BlocksOf
    <2> QED BY <1>3, <1>10, <1>12, <2>1 DEF FreeOf
<1>14. OnFreeList(B2, U.list, FreeOf(B2))
    <2>1. \A y \in FreeOf(B) \ {a} : B2[y].forward = V[y].forward
                                     /\ B2[y].pPreviousFree = V[y].pPreviousFree
        BY <1>10 DEF FreeOf, BlocksOf
    <2> QED BY <1>2, <1>13, <2>1, SameList
<1>15. OneMoreAllocated(B, B2, a)
    <2>1. Allocated(B2) = Allocated(B) \cup {a} /\ a \notin Allocated(B)
        BY <1>1, <1>12, <1>13 DEF Allocated, FreeOf
    <2>2. \A y \in Allocated(B) : y \in Address \ {a}
        BY <2>1 DEF Allocated, BlocksOf
    <2> QED BY <1>1, <1>3, <1>10, <2>1, <2>2 DEF OneMoreAllocated
<1> QED BY <1>1, <1>12, <1>14, <1>15

\* An allocation, either way.
LEMMA Allocating ==
    ASSUME HeapAssumption, ~Preemptive, HeapInv, NEW size \in Requests, NEW kind \in Kinds,
           allocateBlock(size, kind)
    PROVE  /\ HeapInv' /\ sweep.phase = "none"
           /\ \E b \in Address : OneMoreAllocated(block, block', b)
<1> DEFINE a == FreeList(block, pFreeList)[Min(Fits(block, pFreeList, size))]
           required == requiredSize(size)
           U == Unlink([block |-> block, list |-> pFreeList], a)
<1>1. /\ sweep.phase = "none" /\ \A u \in Thread : freeing[u] = NULL
      /\ Fits(block, pFreeList, size) # {}
      /\ freeing' = freeing /\ sweep' = sweep
    BY DEF allocateBlock, Uninterrupted
<1>2. IF block[a].size - required >= MinimumBlock
      THEN block' = SplitBlock(block, a, required, kind) /\ pFreeList' = pFreeList
      ELSE block' = TakeBlock(U.block, a, kind) /\ pFreeList' = U.list
    BY DEF allocateBlock
<1>3. sweep = Idle /\ OnFreeList(block, pFreeList, FreeOf(block)) /\ Geometry(block)
    BY <1>1, IdleList DEF HeapInv
<1>4. a \in FreeOf(block)
    BY <1>1, <1>3, FirstThatFits
<1>5. required \in Nat /\ required >= MinimumBlock
    BY DEF requiredSize, HeapAssumption
<1> HIDE DEF a, required, U
<1>6. /\ Geometry(block') /\ OnFreeList(block', pFreeList', FreeOf(block'))
      /\ \E b \in Address : OneMoreAllocated(block, block', b)
    <2>1. CASE block[a].size - required >= MinimumBlock
        <3>1. block' = SplitBlock(block, a, required, kind) /\ pFreeList' = pFreeList
            BY <1>2, <2>1
        <3> QED BY <1>3, <1>4, <1>5, <2>1, <3>1, SplittingKeeps
    <2>2. CASE ~(block[a].size - required >= MinimumBlock)
        <3>1. block' = TakeBlock(U.block, a, kind) /\ pFreeList' = U.list
            BY <1>2, <2>2
        <3>2. U = Unlink([block |-> block, list |-> pFreeList], a)
            BY DEF U
        <3> QED BY <1>3, <1>4, <3>1, <3>2, TakingKeeps
    <2> QED BY <2>1, <2>2
<1>7. SweepIsExact(block', sweep') /\ ListsAreExact(block', pFreeList', sweep')
    BY <1>1, <1>3, <1>6, IdleAgain
<1>8. FreeingIsExact(block', freeing', sweep')
    BY <1>1 DEF HeapInv, FreeingIsExact
<1> QED BY <1>1, <1>6, <1>7, <1>8 DEF HeapInv

-----------------------------------------------------------------------------
(* The theorems. *)

\* No step breaks the invariant.
LEMMA HeapInvNext ==
    ASSUME HeapAssumption, ~Preemptive, HeapInv, [HeapNext]_heapVars
    PROVE  HeapInv'
<1>1. ASSUME NEW size \in Requests, NEW kind \in Kinds, allocateBlock(size, kind) PROVE HeapInv'
    BY <1>1, Allocating
<1>2. ASSUME NEW t \in Thread, NEW a \in Owned, memoryFreeReads(t, a) PROVE HeapInv'
    BY <1>2, FreeingReads
<1>3. ASSUME NEW t \in Thread, memoryFree(t) PROVE HeapInv'
    BY <1>3, Freeing
<1>4. ASSUME NEW referenced \in SUBSET {a \in Address : isCollectible(a)}, mark(referenced)
      PROVE  HeapInv'
    BY <1>4, Marking
<1>5. CASE passBlock
    BY <1>5, Passing
<1>6. CASE foundBlock
    BY <1>6, Finding
<1>7. CASE extendRun
    BY <1>7, Extending
<1>8. CASE joinRun
    BY <1>8, Joining
<1>9. CASE releaseRun
    BY <1>9, Releasing
<1>10. CASE addToFreeList
    BY <1>10, Adding
<1>11. CASE UNCHANGED heapVars
    BY <1>11 DEF heapVars, HeapInv
<1> QED
    BY <1>1, <1>2, <1>3, <1>4, <1>5, <1>6, <1>7, <1>8, <1>9, <1>10, <1>11 DEF HeapNext

\* What allocateBlock, memoryFree, sweep and addToFreeList keep among them, whatever the
\* order of the calls: the headers tile the heap and no two free blocks are neighbours, a
\* call of memoryFree under way has read what is so, and the free blocks are those of the
\* free list, of the list of released blocks and of the run the sweep is at.
THEOREM HeapInvariance ==
    ASSUME HeapAssumption, ~Preemptive
    PROVE  HeapSpec => []HeapInv
<1>1. HeapInit => HeapInv
    BY HeapInvInit
<1>2. HeapInv /\ [HeapNext]_heapVars => HeapInv'
    BY HeapInvNext
<1> QED BY <1>1, <1>2, PTL DEF HeapSpec

\* What the properties call by other names.
LEMMA SameNames ==
    /\ Blocks = BlocksOf(block) /\ Free = FreeOf(block)
    /\ Blocks \ Free = Allocated(block)
BY DEF Blocks, Free, BlocksOf, FreeOf, isFree, Allocated

\* getFollowingBlock leads from header to header through the whole heap, also in the
\* middle of a sweep, which relies on it.
THEOREM HeapStaysTiled ==
    ASSUME HeapAssumption, ~Preemptive
    PROVE  HeapSpec => []HeapIsTiled
<1>1. HeapInv => HeapIsTiled
    <2> SUFFICES ASSUME HeapInv PROVE HeapIsTiled
        OBVIOUS
    <2>1. block \in Memory /\ Tiled(block)
        BY DEF HeapInv, Geometry
    <2>2. \A a \in Address :
             /\ block[a].kind \in {"none", "free", "nonCollectible", "white", "black"}
             /\ block[a].size \in 0 .. HeapSize
             /\ {block[a].back, block[a].forward, block[a].pPreviousFree} \subseteq Pointer
        BY <2>1 DEF Memory, Header, AllKinds
    <2> QED BY <2>1, <2>2, SameNames DEF HeapIsTiled, Tiled
<1> QED BY <1>1, HeapInvariance, PTL

\* The back and forward fields memoryFree takes for its neighbours name the contiguous
\* blocks, whichever of the split, join and sweep paths wrote them last.
THEOREM NeighboursStayExact ==
    ASSUME HeapAssumption, ~Preemptive
    PROVE  HeapSpec => []NeighboursAreExact
<1>1. HeapInv => NeighboursAreExact
    BY SameNames DEF HeapInv, Geometry, Neighbours, IsBefore, NeighboursAreExact
<1> QED BY <1>1, HeapInvariance, PTL

\* Between calls the free list leads, forwards and backwards, through every free block
\* once and through nothing else: allocateBlock, memoryFree and sweep unlink from its middle.
THEOREM FreeListStaysExact ==
    ASSUME HeapAssumption, ~Preemptive
    PROVE  HeapSpec => []FreeListIsExact
<1>1. HeapInv => FreeListIsExact
    <2> SUFFICES ASSUME HeapInv, Quiet PROVE FreeListIsExact
        BY DEF FreeListIsExact
    <2>1. OnFreeList(block, pFreeList, Free)
        BY IdleList, SameNames DEF HeapInv, Quiet
    <2>2. PICK m \in Nat : \E s \in [1 .. m -> Address] :
            Linked(block, s, m, pFreeList) /\ On(s, m) = Free
        BY <2>1 DEF OnFreeList
    <2>3. PICK s \in [1 .. m -> Address] : Linked(block, s, m, pFreeList) /\ On(s, m) = Free
        BY <2>2
    <2>4. FreeList(block, pFreeList) = s /\ DOMAIN FreeList(block, pFreeList) = 1 .. m
        BY <2>3, FreeListIs
    <2>5. \A i, j \in 1 .. m : s[i] = s[j] => i = j
        BY <2>3 DEF Linked
    <2>6. Cardinality(1 .. m) = Cardinality(Free)
        <3>1. s \in Bijection(1 .. m, Free)
            BY <2>3, <2>5 DEF On, Bijection, Injection, IsInjective, Surjection
        <3>2. IsFiniteSet(1 .. m)
            BY FS_Interval
        <3> QED BY <3>1, <3>2, FS_Bijection DEF ExistsBijection
    <2>7. \A k \in 1 .. m :
             /\ block[s[k]].pPreviousFree = IF k - 1 \in 1 .. m THEN s[k - 1] ELSE NULL
             /\ block[s[k]].forward = IF k + 1 \in 1 .. m THEN s[k + 1] ELSE NULL
        BY <2>3 DEF Linked, Place
    <2> QED BY <2>3, <2>4, <2>6, <2>7 DEF FreeListIsExact, On
<1> QED BY <1>1, HeapInvariance, PTL

\* When the sweep comes to the end of the heap no unreferenced block is left, wherever
\* the runs it joined began and ended.
THEOREM GarbageGetsReleased ==
    ASSUME HeapAssumption, ~Preemptive
    PROVE  HeapSpec => []GarbageIsReleased
<1>1. HeapInv => GarbageIsReleased
    BY SameNames DEF HeapInv, SweepIsExact, GarbageIsReleased
<1> QED BY <1>1, HeapInvariance, PTL

\* Every address belongs to a block.
LEMMA BlockAt ==
    ASSUME HeapAssumption, NEW B \in Memory, Tiled(B), NEW a \in Address
    PROVE  \E b \in BlocksOf(B) : b <= a /\ a < getFollowingBlock(B, b)
<1> DEFINE I == {a - b : b \in {x \in BlocksOf(B) : x <= a}}
           m == Min(I)
<1>1. BlocksOf(B) \subseteq Nat /\ a \in Nat /\ a < HeapSize /\ HeapSize \in Nat
    BY NullIsNoAddress DEF BlocksOf, Address
<1>2. I \subseteq Nat /\ I # {}
    <2>1. 0 \in BlocksOf(B) /\ 0 <= a
        BY <1>1 DEF Tiled
    <2>2. \A b \in BlocksOf(B) : b <= a => a - b \in Nat
        BY <1>1
    <2> QED BY <2>1, <2>2
<1> HIDE DEF I
<1>3. m \in I /\ \A i \in I : m <= i
    BY <1>2, MinOfNaturals
<1> HIDE DEF m
<1>4. PICK b \in {x \in BlocksOf(B) : x <= a} : m = a - b
    BY <1>3 DEF I
<1>5. b \in BlocksOf(B) /\ b \in Nat /\ b <= a
    BY <1>1, <1>4
<1> DEFINE n == getFollowingBlock(B, b)
<1>6. n \in Nat /\ b < n /\ n <= HeapSize /\ n \in BlocksOf(B) \cup {HeapSize}
    BY <1>5, Extents DEF Tiled
<1> HIDE DEF n
<1>7. ~(n <= a)
    <2> SUFFICES ASSUME n <= a PROVE FALSE
        OBVIOUS
    <2>1. n \in BlocksOf(B)
        BY <1>1, <1>6
    <2>2. a - n \in I
        BY <2>1 DEF I
    <2>3. m <= a - n
        BY <1>3, <2>2
    <2> QED BY <1>1, <1>4, <1>5, <1>6, <2>3
<1> QED BY <1>1, <1>5, <1>6, <1>7 DEF n

\* allocateBlock's search of the free list fails only if there is no room anywhere: memory
\* that was released in pieces is joined again.
THEOREM RoomGetsFound ==
    ASSUME HeapAssumption, ~Preemptive
    PROVE  HeapSpec => []RoomIsFound
<1>1. HeapInv => RoomIsFound
    <2> SUFFICES ASSUME HeapInv, Quiet, NEW size \in Requests, Fits(block, pFreeList, size) = {},
                        NEW a \in Address, a + requiredSize(size) <= HeapSize
                 PROVE  \E b \in Blocks \ Free : /\ b < a + requiredSize(size)
                                                 /\ a < getFollowingBlock(block, b)
        BY DEF RoomIsFound
    <2> DEFINE required == requiredSize(size)
    <2>1. block \in Memory /\ Tiled(block) /\ Apart(block)
        BY DEF HeapInv, Geometry
    <2>2. required \in Nat /\ required > 0
        BY DEF requiredSize, HeapAssumption
    <2>3. \A b \in FreeOf(block) : ~(block[b].size >= required)
        <3>1. OnFreeList(block, pFreeList, FreeOf(block))
            BY IdleList DEF HeapInv, Quiet
        <3>2. PICK m \in Nat : \E s \in [1 .. m -> Address] :
                Linked(block, s, m, pFreeList) /\ On(s, m) = FreeOf(block)
            BY <3>1 DEF OnFreeList
        <3>3. PICK s \in [1 .. m -> Address] :
                Linked(block, s, m, pFreeList) /\ On(s, m) = FreeOf(block)
            BY <3>2
        <3>4. FreeList(block, pFreeList) = s /\ DOMAIN FreeList(block, pFreeList) = 1 .. m
            BY <3>3, FreeListIs
        <3>5. \A k \in 1 .. m : ~(block[s[k]].size >= requiredSize(size))
            BY <3>4 DEF Fits
        <3> QED BY <3>3, <3>5 DEF On
    <2> HIDE DEF required
    <2>4. PICK b \in BlocksOf(block) : b <= a /\ a < getFollowingBlock(block, b)
        BY <2>1, BlockAt
    <2>5. /\ a \in Nat /\ b \in Nat /\ HeapSize \in Nat /\ block[b].size \in Nat
          /\ getFollowingBlock(block, b) = b + block[b].size
          /\ getFollowingBlock(block, b) \in BlocksOf(block) \cup {HeapSize}
        BY <2>1, Extents, NullIsNoAddress DEF Tiled
    <2>6. CASE b \notin FreeOf(block)
        <3>1. b < a + required
            BY <2>2, <2>4, <2>5
        <3> QED BY <2>4, <2>6, <3>1, SameNames DEF required
    <2>7. CASE b \in FreeOf(block)
        <3> DEFINE d == getFollowingBlock(block, b)
        <3>1. block[b].size < required
            BY <2>2, <2>3, <2>5, <2>7
        <3>2. d < a + required /\ d < HeapSize
            <4>1. a + required <= HeapSize
                BY DEF required
            <4> QED BY <2>2, <2>4, <2>5, <3>1, <4>1
        <3> HIDE DEF d
        <3>3. d \in BlocksOf(block) /\ d \notin FreeOf(block)
            BY <2>1, <2>5, <2>7, <3>2 DEF Apart, FreeOf, d
        <3>4. d \in Nat /\ d < getFollowingBlock(block, d) /\ getFollowingBlock(block, d) \in Nat
            BY <2>1, <3>3, Extents
        <3>5. a < getFollowingBlock(block, d)
            BY <2>4, <2>5, <3>4 DEF d
        <3> QED BY <3>2, <3>3, <3>5, SameNames DEF required
    <2> QED BY <2>6, <2>7
<1> QED BY <1>1, HeapInvariance, PTL

\* All of it: the heap never decays into pieces, loses free memory or keeps garbage, in the
\* code that splits, joins and links blocks in allocateBlock, memoryFree and sweep.
THEOREM HeapStaysInOrder ==
    ASSUME HeapAssumption, ~Preemptive
    PROVE  HeapSpec => []HeapIsInOrder
<1>1. HeapIsTiled /\ NeighboursAreExact /\ FreeListIsExact /\ RoomIsFound /\ GarbageIsReleased
          => HeapIsInOrder
    BY DEF HeapIsInOrder
<1> QED BY <1>1, HeapStaysTiled, NeighboursStayExact, FreeListStaysExact, RoomGetsFound,
           GarbageGetsReleased, PTL

\* What a step does to the allocated blocks.
Released(B, B2) ==
    \E a \in Allocated(B) :
        /\ B[a].kind = "nonCollectible" /\ Allocated(B2) = Allocated(B) \ {a}
        /\ \A y \in Allocated(B) \ {a} : B2[y].kind = B[y].kind /\ B2[y].size = B[y].size

Coloured(B, B2) ==
    /\ Allocated(B2) = Allocated(B)
    /\ \A y \in Allocated(B) :
          /\ B2[y].size = B[y].size
          /\ B2[y].kind = "nonCollectible" <=> B[y].kind = "nonCollectible"

\* What the owners of blocks can see of a step: a sweep takes unreferenced blocks only.
LEMMA HeapSteps ==
    ASSUME HeapAssumption, ~Preemptive, HeapInv, [HeapNext]_heapVars
    PROVE  \/ OnlyWhiteGone(block, block')
           \/ /\ sweep.phase = "none"
              /\ \/ \E b \in Address : OneMoreAllocated(block, block', b)
                 \/ Released(block, block')
                 \/ Coloured(block, block')
<1> DEFINE Goal == \/ OnlyWhiteGone(block, block')
                   \/ /\ sweep.phase = "none"
                      /\ \/ \E b \in Address : OneMoreAllocated(block, block', b)
                         \/ Released(block, block')
                         \/ Coloured(block, block')
<1>0. block' = block => OnlyWhiteGone(block, block')
    BY DEF OnlyWhiteGone
<1>1. ASSUME NEW size \in Requests, NEW kind \in Kinds, allocateBlock(size, kind) PROVE Goal
    BY <1>1, Allocating
<1>2. ASSUME NEW t \in Thread, NEW a \in Owned, memoryFreeReads(t, a) PROVE Goal
    BY <1>0, <1>2, FreeingReads
<1>3. ASSUME NEW t \in Thread, memoryFree(t) PROVE Goal
    BY <1>3, Freeing DEF Released
<1>4. ASSUME NEW referenced \in SUBSET {a \in Address : isCollectible(a)}, mark(referenced)
      PROVE  Goal
    BY <1>4, Marking DEF Coloured
<1>5. CASE passBlock
    BY <1>0, <1>5, Passing
<1>6. CASE foundBlock
    BY <1>0, <1>6, Finding
<1>7. CASE extendRun
    BY <1>7, Extending
<1>8. CASE joinRun
    BY <1>8, Joining
<1>9. CASE releaseRun
    BY <1>9, Releasing
<1>10. CASE addToFreeList
    BY <1>10, Adding
<1>11. CASE UNCHANGED heapVars
    BY <1>0, <1>11 DEF heapVars
<1> QED
    BY <1>1, <1>2, <1>3, <1>4, <1>5, <1>6, <1>7, <1>8, <1>9, <1>10, <1>11 DEF HeapNext

\* While the sweep goes through the heap a block that was marked keeps its header.
THEOREM ReferencedStay ==
    ASSUME HeapAssumption, ~Preemptive
    PROVE  HeapSpec => ReferencedAreKept
<1> DEFINE Kept == \A a \in Address :
              (block[a].kind = "black" /\ sweep.phase # "none")
                  => block'[a].kind = "black" /\ block'[a].size = block[a].size
<1>1. HeapInv /\ [HeapNext]_heapVars => [Kept]_heapVars
    <2> SUFFICES ASSUME HeapInv, [HeapNext]_heapVars, NEW a \in Address,
                        block[a].kind = "black", sweep.phase # "none"
                 PROVE  block'[a].kind = "black" /\ block'[a].size = block[a].size
        OBVIOUS
    <2>1. OnlyWhiteGone(block, block')
        BY HeapSteps
    <2>2. a \in Allocated(block)
        BY DEF Allocated, FreeOf, BlocksOf
    <2>3. a \in Allocated(block')
        BY <2>1, <2>2 DEF OnlyWhiteGone
    <2> QED BY <2>1, <2>3 DEF OnlyWhiteGone
<1> QED BY <1>1, HeapInvariance, PTL DEF HeapSpec, ReferencedAreKept

\* A block as the program knows it.
BlockRecord(B, a) ==
    [at |-> a, size |-> B[a].size, collectible |-> B[a].kind # "nonCollectible"]

LiveOf(B) == {BlockRecord(B, a) : a \in Allocated(B)}

\* The abstract state in terms of headers.
LEMMA Live ==
    live = LiveOf(block) /\ live' = LiveOf(block')
<1>1. live = LiveOf(block)
    BY SameNames DEF live, LiveOf, BlockRecord
<1>2. (Blocks \ Free)' = Allocated(block')
    BY DEF Blocks, Free, BlocksOf, FreeOf, isFree, Allocated
<1>3. live' = LiveOf(block')
    BY <1>2 DEF live, LiveOf, BlockRecord
<1> QED BY <1>1, <1>3

\* Allocated blocks are blocks of the Allocator, apart from each other.
LEMMA RecordsAreBlocks ==
    ASSUME HeapAssumption, NEW B, Geometry(B), NEW a \in Allocated(B)
    PROVE  /\ BlockRecord(B, a) \in AllocatorOf!Block
           /\ BlockRecord(B, a).at = a /\ BlockRecord(B, a).size = B[a].size
           /\ BlockRecord(B, a).collectible = (B[a].kind # "nonCollectible")
           /\ AllocatorOf!Extent(BlockRecord(B, a)) = a .. a + B[a].size - 1
           /\ AllocatorOf!Extent(BlockRecord(B, a)) \subseteq 0 .. HeapSize - 1
           /\ \A b \in Allocated(B) : b # a =>
                 AllocatorOf!Extent(BlockRecord(B, a))
                     \cap AllocatorOf!Extent(BlockRecord(B, b)) = {}
<1>1. B \in Memory /\ Tiled(B) /\ Allocated(B) \subseteq BlocksOf(B)
    BY DEF Geometry, Allocated
<1>2. ASSUME NEW b \in Allocated(B)
      PROVE  /\ b \in Nat /\ B[b].size \in Nat /\ B[b].size > 0 /\ b + B[b].size <= HeapSize
             /\ b \in Address /\ getFollowingBlock(B, b) = b + B[b].size
             /\ AllocatorOf!Extent(BlockRecord(B, b)) = b .. b + B[b].size - 1
    <2>1. b \in BlocksOf(B)
        BY <1>1
    <2>2. AllocatorOf!Extent(BlockRecord(B, b)) = b .. b + B[b].size - 1
        BY DEF AllocatorOf!Extent, BlockRecord
    <2> QED BY <1>1, <2>1, <2>2, Extents
<1>3. BlockRecord(B, a) \in AllocatorOf!Block
    <2>1. B[a].size \in 1 .. HeapSize /\ a \in 0 .. HeapSize - 1
        BY <1>2, NullIsNoAddress DEF Address
    <2> QED BY <2>1 DEF AllocatorOf!Block, BlockRecord
<1>4. a .. a + B[a].size - 1 \subseteq 0 .. HeapSize - 1
    BY <1>2, NullIsNoAddress
<1>5. ASSUME NEW b \in Allocated(B), b # a
      PROVE (a .. a + B[a].size - 1) \cap (b .. b + B[b].size - 1) = {}
    <2>1. a < b => a + B[a].size <= b
        BY <1>1, <1>2, BlocksDoNotOverlap
    <2>2. b < a => b + B[b].size <= a
        BY <1>1, <1>2, BlocksDoNotOverlap
    <2> QED BY <1>2, <1>5, <2>1, <2>2
<1> QED BY <1>2, <1>3, <1>4, <1>5 DEF BlockRecord

\* What allocateBlock hands out never overlaps with what is allocated already, through any
\* number of splits, joins and collections.
THEOREM AllocatedBlocksAreApart ==
    ASSUME HeapAssumption, ~Preemptive
    PROVE  HeapSpec => []AllocatorOf!BlocksAreApart
<1>1. HeapInv => AllocatorOf!BlocksAreApart
    <2> SUFFICES ASSUME HeapInv PROVE AllocatorOf!BlocksAreApart
        OBVIOUS
    <2>1. Geometry(block) /\ live = LiveOf(block)
        BY Live DEF HeapInv
    <2>2. live \subseteq AllocatorOf!Block
        BY <2>1, RecordsAreBlocks DEF LiveOf
    <2>3. ASSUME NEW b \in live, NEW c \in live, b # c
          PROVE AllocatorOf!Extent(b) \cap AllocatorOf!Extent(c) = {}
        <3>1. PICK x \in Allocated(block) : b = BlockRecord(block, x)
            BY <2>1 DEF LiveOf
        <3>2. PICK y \in Allocated(block) : c = BlockRecord(block, y)
            BY <2>1 DEF LiveOf
        <3>3. x # y
            BY <2>3, <3>1, <3>2
        <3> QED BY <2>1, <3>1, <3>2, <3>3, RecordsAreBlocks
    <2> QED BY <2>2, <2>3 DEF AllocatorOf!BlocksAreApart
<1> QED BY <1>1, HeapInvariance, PTL

\* Headers, lists and sweep together do what the program expects of allocateBlock,
\* memoryFree and a collection: every step is one of the Allocator's, or none it can see.
\* A sweep lets go of blocks one run at a time, each a collection of its own to Allocator.
THEOREM HeapImplementsAllocator ==
    ASSUME HeapAssumption, ~Preemptive
    PROVE  HeapSpec => ImplementsAllocator
<1>1. HeapInit => AllocatorOf!Init
    <2> SUFFICES ASSUME HeapInit PROVE live = {}
        BY DEF AllocatorOf!Init
    <2>1. \A a \in Address : block[a].kind \in {"none", "free"}
        BY DEF HeapInit, Garbage
    <2>2. Allocated(block) = {}
        BY <2>1 DEF Allocated, FreeOf, BlocksOf
    <2> QED BY <2>2, Live DEF LiveOf
<1>2. HeapInv /\ HeapInv' /\ [HeapNext]_heapVars => [AllocatorOf!Next]_live
    <2> SUFFICES ASSUME HeapInv, HeapInv', [HeapNext]_heapVars
                 PROVE  AllocatorOf!Next \/ live' = live
        OBVIOUS
    <2>1. Geometry(block) /\ Geometry(block') /\ live = LiveOf(block) /\ live' = LiveOf(block')
        BY Live DEF HeapInv
    <2>2. CASE OnlyWhiteGone(block, block')
        <3>1. \A y \in Allocated(block') : /\ y \in Allocated(block)
                                           /\ BlockRecord(block', y) = BlockRecord(block, y)
            BY <2>2 DEF OnlyWhiteGone, BlockRecord
        <3>2. live' \subseteq live
            BY <2>1, <3>1 DEF LiveOf
        <3>3. ASSUME NEW b \in live \ live' PROVE b.collectible
            <4>1. PICK y \in Allocated(block) : b = BlockRecord(block, y)
                BY <2>1 DEF LiveOf
            <4>2. y \notin Allocated(block')
                BY <2>1, <3>1, <4>1 DEF LiveOf
            <4>3. block[y].kind = "white"
                BY <2>2, <4>2 DEF OnlyWhiteGone
            <4> QED BY <4>1, <4>3 DEF BlockRecord
        <3> QED BY <3>2, <3>3 DEF AllocatorOf!Next, AllocatorOf!collect
    <2>3. ASSUME NEW b \in Address, OneMoreAllocated(block, block', b) PROVE AllocatorOf!Next
        <3> DEFINE r == BlockRecord(block', b)
        <3>1. /\ b \in Allocated(block') /\ b \notin Allocated(block)
              /\ Allocated(block') = Allocated(block) \cup {b}
              /\ \A y \in Allocated(block) : BlockRecord(block', y) = BlockRecord(block, y)
            BY <2>3 DEF OneMoreAllocated, BlockRecord
        <3>2. live' = live \cup {r}
            BY <2>1, <3>1 DEF LiveOf
        <3>3. /\ r \in AllocatorOf!Block
              /\ AllocatorOf!Extent(r) \subseteq 0 .. HeapSize - 1
            BY <2>1, <3>1, RecordsAreBlocks
        <3>4. ASSUME NEW l \in live PROVE AllocatorOf!Extent(r) \cap AllocatorOf!Extent(l) = {}
            <4>1. PICK y \in Allocated(block) : l = BlockRecord(block, y)
                BY <2>1 DEF LiveOf
            <4>2. y \in Allocated(block') /\ y # b /\ l = BlockRecord(block', y)
                BY <3>1, <4>1
            <4> QED BY <2>1, <3>1, <4>2, RecordsAreBlocks
        <3>5. AllocatorOf!allocateBlock(r)
            BY <3>2, <3>3, <3>4 DEF AllocatorOf!allocateBlock
        <3> QED BY <3>3, <3>5 DEF AllocatorOf!Next
    <2>4. CASE Released(block, block')
        <3>1. PICK a \in Allocated(block) :
                /\ block[a].kind = "nonCollectible" /\ Allocated(block') = Allocated(block) \ {a}
                /\ \A y \in Allocated(block) \ {a} :
                      block'[y].kind = block[y].kind /\ block'[y].size = block[y].size
            BY <2>4 DEF Released
        <3> DEFINE r == BlockRecord(block, a)
        <3>2. r \in live /\ ~r.collectible
            BY <2>1, <3>1 DEF LiveOf, BlockRecord
        <3>3. \A y \in Allocated(block) \ {a} : /\ BlockRecord(block', y) = BlockRecord(block, y)
                                                /\ BlockRecord(block, y) # r
            BY <3>1 DEF BlockRecord
        <3>4. live' = live \ {r}
            BY <2>1, <3>1, <3>3 DEF LiveOf
        <3> QED BY <3>2, <3>4 DEF AllocatorOf!Next, AllocatorOf!memoryFree
    <2>5. CASE Coloured(block, block')
        <3>1. /\ Allocated(block') = Allocated(block)
              /\ \A y \in Allocated(block) : BlockRecord(block', y) = BlockRecord(block, y)
            BY <2>5 DEF Coloured, BlockRecord
        <3> QED BY <2>1, <3>1 DEF LiveOf
    <2> QED BY <2>2, <2>3, <2>4, <2>5, HeapSteps
<1> QED BY <1>1, <1>2, HeapInvariance, PTL DEF HeapSpec, ImplementsAllocator, AllocatorOf!Spec

=============================================================================
