----------------------------- MODULE ListMachine -----------------------------
(***************************************************************************)
(* Any sequence of calls of the functions of linkedList.c that keeps to    *)
(* what linkedList.h asks of a caller: an entry is added only when it is   *)
(* on no list, and "when calling this you should be certain that what      *)
(* you're removing is actually on the list".  The pointers implement       *)
(* ListSequences.                                                          *)
(***************************************************************************)
EXTENDS Sequences, LinkedList

CONSTANTS Lists, SortedList, Entries, Rank

ListAssumption == SortedList \notin Lists /\ NULL \notin Entries

VARIABLE mem

AllLists == Lists \cup {SortedList}

Free == Entries \ UNION {EntriesOf(mem, l) : l \in AllLists}

Init == mem = EmptyLists(AllLists, Entries)

AddToEnd(l, n) == n \in Free /\ mem' = AddOneToEnd(mem, l, n)

RemoveEntry(l, n) == n \in EntriesOf(mem, l) /\ mem' = RemoveOne(mem, l, n)

RemoveFront(l) == mem' = RemoveOneFromFront(mem, l)

Rotate(l) == mem' = RotateOneFrontToEnd(mem, l)

MoveOne(dest, source) ==
    /\ dest # source
    /\ mem.head[source] # NULL     \* doubleListAddOneToEnd dereferences its entry
    /\ mem' = MoveOneFrontToEnd(mem, dest, source)

MoveAll(dest, source) == dest # source /\ mem' = MoveAllToEnd(mem, dest, source)

\* The comparator the callers give says "strictly before": timerComparator and
\* threadPriorityComparator both compare with < or >.
AddSorted(n) ==
    /\ n \in Free
    /\ mem' = AddOneSorted(mem, SortedList, n, {x \in Entries : Rank[n] < Rank[x]})

Next ==
    \/ \E l \in Lists, n \in Entries : AddToEnd(l, n)
    \/ \E l \in AllLists, n \in Entries : RemoveEntry(l, n)
    \/ \E l \in AllLists : RemoveFront(l)
    \/ \E l \in Lists : Rotate(l)
    \/ \E dest \in Lists, source \in AllLists : MoveOne(dest, source)
    \/ \E dest \in Lists, source \in AllLists : MoveAll(dest, source)
    \/ \E n \in Entries : AddSorted(n)

Spec == Init /\ [][Next]_mem

-----------------------------------------------------------------------------

\* Every list can be walked in both directions, ends where it began, and shares
\* no entry with another: the circularity linkedList.h:11-15 describes, which
\* each function of linkedList.c has to restore by a handful of pointer writes.
ListsWellFormed ==
    /\ \A l \in AllLists : WellFormed(mem, l)
    /\ \A k, l \in AllLists : k # l => EntriesOf(mem, k) \cap EntriesOf(mem, l) = {}

\* The pointer operations are the sequence operations: nothing is lost, gained
\* or reordered by linkedList.c, and doubleListAddOneSorted keeps its list in
\* ascending order, first in first out among equals (linkedList.c:9-11).
contents == [l \in AllLists |-> AsSequence(mem, l)]
Sequences == INSTANCE ListSequences
ImplementsSequences == Sequences!Spec

=============================================================================
