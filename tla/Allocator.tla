------------------------------- MODULE Allocator -------------------------------
(***************************************************************************)
(* What the program expects of a heap: memoryAlloc is "equivalent to       *)
(* malloc" (lib/src/memory/memoryAlloc.c).  A block it is given lies in    *)
(* the heap and apart from every other block, and it stays as it is until  *)
(* the program releases it or it is collected.                             *)
(***************************************************************************)
EXTENDS Integers

CONSTANT HeapSize

VARIABLE live       \* the allocated blocks

Block == [at : 0 .. HeapSize - 1, size : 1 .. HeapSize, collectible : BOOLEAN]

Extent(b) == b.at .. b.at + b.size - 1

Init == live = {}

allocateBlock(b) ==
    /\ Extent(b) \subseteq 0 .. HeapSize - 1
    /\ \A l \in live : Extent(b) \cap Extent(l) = {}
    /\ live' = live \cup {b}

memoryFree(b) ==
    /\ ~b.collectible
    /\ live' = live \ {b}

\* Some of the blocks that can be collected are.
collect ==
    /\ live' \subseteq live
    /\ \A b \in live \ live' : b.collectible

Next ==
    \/ collect
    \/ \E b \in live : memoryFree(b)
    \/ \E b \in Block : allocateBlock(b)

Spec == Init /\ [][Next]_live

\* No two allocated blocks share memory.
BlocksAreApart ==
    /\ live \subseteq Block
    /\ \A b, c \in live : b # c => Extent(b) \cap Extent(c) = {}

=============================================================================
