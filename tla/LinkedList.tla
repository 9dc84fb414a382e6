------------------------------ MODULE LinkedList ------------------------------
(***************************************************************************)
(* The circular doubly linked lists of lib/src/types/linkedList.c, at the  *)
(* level of their pointers.  A "memory" is a record with                   *)
(*   head : list name -> first entry, or NULL for the empty list           *)
(*   next : entry -> pNext                                                 *)
(*   prev : entry -> pPrevious                                             *)
(* and possibly other fields, which no operator touches.  Each operator is *)
(* one function of linkedList.c: it takes the memory the function is       *)
(* called in and returns the memory it leaves, whether or not the entry it *)
(* is given is on the list it is given.  Nothing but the pointers the C    *)
(* code writes is changed, so an entry that leaves a list keeps its stale  *)
(* pNext and pPrevious.                                                    *)
(***************************************************************************)
EXTENDS Naturals, FiniteSets

CONSTANT NULL      \* the null pointer, and the pointer to no thread

\* pOneToRemove->pPrevious->pNext = pNext and pNext->pPrevious = pPrevious: what
\* doubleListRemoveOne does to an entry that the list pointer does not point to.
Unlink(mem, n) ==
    [mem EXCEPT !.next[mem.prev[n]] = mem.next[n],
                !.prev[mem.next[n]] = mem.prev[n]]

AddOneToEnd(mem, l, n) ==
    LET first == mem.head[l]
        last  == mem.prev[first]
    IN  IF first = NULL
        THEN [mem EXCEPT !.head[l] = n, !.next[n] = n, !.prev[n] = n]
        ELSE [mem EXCEPT !.next[n] = first,
                         !.prev[n] = last,
                         !.prev[first] = n,
                         !.next[IF n = first THEN n ELSE last] = n]

RemoveOne(mem, l, n) ==
    IF mem.head[l] # n THEN Unlink(mem, n)
    ELSE IF mem.next[n] = n THEN [mem EXCEPT !.head[l] = NULL]
    ELSE [Unlink(mem, n) EXCEPT !.head[l] = mem.next[n]]

RemoveOneFromFront(mem, l) ==
    IF mem.head[l] = NULL THEN mem ELSE RemoveOne(mem, l, mem.head[l])

RotateOneFrontToEnd(mem, l) ==
    IF mem.head[l] = NULL THEN mem
    ELSE [mem EXCEPT !.head[l] = mem.next[mem.head[l]]]

MoveOneFrontToEnd(mem, dest, source) ==
    AddOneToEnd(RemoveOneFromFront(mem, source), dest, mem.head[source])

MoveAllToEnd_oneByOne(mem, dest, source) ==
    MoveOneFrontToEnd(mem, dest, source)

MoveAllToEnd(mem, dest, source) ==
    LET src     == mem.head[source]
        dst     == mem.head[dest]
        lastSrc == mem.prev[src]
        lastDst == mem.prev[dst]
    IN  IF src = NULL THEN mem
        ELSE IF dst = NULL
        THEN [mem EXCEPT !.head[dest] = src, !.head[source] = NULL]
        ELSE [mem EXCEPT !.next[lastSrc] = dst,
                         !.prev[src] = lastDst,
                         !.prev[dst] = lastSrc,
                         !.next[lastDst] = src,
                         !.head[source] = NULL]

\* The insertion of n into a list kept in ascending order; later is the set of
\* entries x for which comparator(n, x) holds, the ones n must come before.
AddOneSorted(mem, l, n, later) ==
    LET first == mem.head[l]
        advance(x) == IF mem.next[x] = first \/ mem.next[x] \in later
                      THEN x ELSE mem.next[x]
        walk[k \in 0 .. Cardinality(DOMAIN mem.next)] ==
            IF k = 0 THEN first ELSE advance(walk[k - 1])
        slot == walk[Cardinality(DOMAIN mem.next)]
        between(x, y) == [mem EXCEPT !.next[n] = y, !.prev[n] = x,
                                     !.prev[y] = n, !.next[x] = n]
    IN  IF first = NULL
        THEN [mem EXCEPT !.head[l] = n, !.next[n] = n, !.prev[n] = n]
        ELSE IF first \in later
        THEN [between(mem.prev[first], first) EXCEPT !.head[l] = n]
        ELSE between(slot, mem.next[slot])

-----------------------------------------------------------------------------
(* What a reader of the pointers sees: ITERATE_LIST starts at the list      *)
(* pointer and follows pNext until it is back where it began.               *)

\* The entries an iteration over l meets, the k-th in place k + 1, for as many
\* steps as there are entries.
Walk(mem, l) ==
    LET step(n) == IF n = NULL THEN NULL ELSE mem.next[n]
        w[k \in 0 .. Cardinality(DOMAIN mem.next)] ==
            IF k = 0 THEN mem.head[l] ELSE step(w[k - 1])
    IN  w

\* The entries of list l.
EntriesOf(mem, l) ==
    IF mem.head[l] = NULL THEN {}
    ELSE LET w == Walk(mem, l) IN {w[k] : k \in DOMAIN w} \ {NULL}

\* The iteration over l ends, and it meets the same entries backwards.
WellFormed(mem, l) ==
    LET S == EntriesOf(mem, l)
    IN  \A n \in S : /\ mem.next[n] \in S /\ mem.prev[n] \in S
                     /\ mem.prev[mem.next[n]] = n
                     /\ mem.next[mem.prev[n]] = n

\* List l as the sequence of its entries, front first.
AsSequence(mem, l) ==
    LET w == Walk(mem, l)
    IN  [k \in 1 .. Cardinality(EntriesOf(mem, l)) |-> w[k - 1]]

\* No list holds anything, and no entry has ever been on one.
EmptyLists(Lists, Entries) ==
    [head |-> [l \in Lists |-> NULL],
     next |-> [n \in Entries |-> NULL],
     prev |-> [n \in Entries |-> NULL]]

=============================================================================
