---------------------------- MODULE ListSequences ----------------------------
(***************************************************************************)
(* What linkedList.h promises of its lists: each is a sequence, no entry   *)
(* is in two places, and every operation is the obvious one on sequences.  *)
(* The comparator of a sorted list orders the entries by their rank.       *)
(***************************************************************************)
EXTENDS Naturals, Sequences, FiniteSets

CONSTANTS Lists,       \* the lists whose order is that of arrival
          SortedList,  \* the list kept by doubleListAddOneSorted
          Entries,
          Rank         \* the key a comparator compares, entry -> Nat

VARIABLE contents      \* list -> the sequence of its entries

AllLists == Lists \cup {SortedList}

On(l) == {contents[l][k] : k \in 1 .. Len(contents[l])}
Free == Entries \ UNION {On(l) : l \in AllLists}

Init == contents = [l \in AllLists |-> <<>>]

\* One entry, on no list before, goes to the end.
Add(l, n) ==
    /\ n \in Free
    /\ contents' = [contents EXCEPT ![l] = Append(@, n)]

\* One entry, wherever it is on the list, leaves it; the others keep their order.
Remove(l, n) ==
    /\ n \in On(l)
    /\ contents' = [contents EXCEPT ![l] = SelectSeq(@, LAMBDA x : x # n)]

Rotate(l) ==
    /\ contents[l] # <<>>
    /\ contents' = [contents EXCEPT ![l] = Append(Tail(@), Head(@))]

MoveOne(dest, source) ==
    /\ dest # source
    /\ contents[source] # <<>>
    /\ contents' = [contents EXCEPT ![source] = Tail(@),
                                    ![dest] = Append(@, Head(contents[source]))]

MoveAll(dest, source) ==
    /\ dest # source
    /\ contents' = [contents EXCEPT ![source] = <<>>,
                                    ![dest] = @ \o contents[source]]

\* The new entry goes behind every entry of the same or a lower rank: ascending
\* order, and first in first out among equals.
AddSorted(n) ==
    /\ n \in Free
    /\ LET s == contents[SortedList]
           before == {k \in 1 .. Len(s) : Rank[s[k]] <= Rank[n]}
           at == Cardinality(before)
       IN  contents' = [contents EXCEPT ![SortedList] =
                           SubSeq(s, 1, at) \o <<n>> \o SubSeq(s, at + 1, Len(s))]

Next ==
    \/ \E l \in Lists, n \in Entries : Add(l, n)
    \/ \E l \in AllLists, n \in Entries : Remove(l, n)
    \/ \E l \in Lists : Rotate(l)
    \/ \E dest \in Lists, source \in AllLists :
          MoveOne(dest, source) \/ MoveAll(dest, source)
    \/ \E n \in Entries : AddSorted(n)

Spec == Init /\ [][Next]_contents

=============================================================================
