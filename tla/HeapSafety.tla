------------------------------ MODULE HeapSafety ------------------------------
(***************************************************************************)
(* What the heap of module Heap has to guarantee.                          *)
(***************************************************************************)
EXTENDS Heap

Blocks == {a \in Address : block[a].kind # "none"}

Free == {a \in Blocks : isFree(block, a)}

\* No call is under way.
Quiet == sweep.phase = "none" /\ \A t \in Thread : freeing[t] = NULL

Pointer == Address \cup {NULL, Other}

\* Every header is a header, and the blocks tile the heap: getFollowingBlock leads
\* from each to the next and from the last to pHeapEnd.  whiten and sweep go through
\* the heap that way.  It holds at every step of a sweep too.
HeapIsTiled ==
    /\ \A a \in Address :
          /\ block[a].kind \in {"none", "free", "nonCollectible", "white", "black"}
          /\ block[a].size \in 0 .. HeapSize
          /\ {block[a].back, block[a].forward, block[a].pPreviousFree} \subseteq Pointer
    /\ 0 \in Blocks
    /\ \A a \in Blocks :
          /\ block[a].size >= MinimumBlock
          /\ getFollowingBlock(block, a) \in Blocks \cup {HeapSize}
          /\ \A x \in a + 1 .. getFollowingBlock(block, a) - 1 : x \notin Blocks

\* The free list holds exactly the free blocks, each once, and its two pointers
\* agree: any block can be taken out of the middle.
FreeListIsExact ==
    Quiet =>
        LET list == FreeList(block, pFreeList)
            place(k) == IF k \in DOMAIN list THEN list[k] ELSE NULL
        IN  /\ {list[k] : k \in DOMAIN list} = Free
            /\ Cardinality(DOMAIN list) = Cardinality(Free)
            /\ \A k \in DOMAIN list :
                  /\ block[list[k]].pPreviousFree = place(k - 1)
                  /\ block[list[k]].forward = place(k + 1)

\* heap.h:72, the blocks that point to a contiguous block point to the one that is
\* there: memoryFree will join it to what these pointers say its neighbours are.
NeighboursAreExact ==
    Quiet =>
        \A a \in Blocks :
            /\ block[a].kind \in {"free", "nonCollectible"} =>
                  IF a = 0 THEN block[a].back = NULL
                  ELSE /\ block[a].back \in Blocks
                       /\ getFollowingBlock(block, block[a].back) = a
            /\ block[a].kind = "nonCollectible" =>
                  block[a].forward = NextContiguous(getFollowingBlock(block, a))

\* An allocation finds room whenever there is any: as many contiguous bytes as it
\* needs, outside every allocated block, belong to one free block of the free list,
\* so no history of releases and collections leaves the memory in pieces.
RoomIsFound ==
    Quiet =>
        \A size \in Requests :
            \/ Fits(block, pFreeList, size) # {}
            \/ \A a \in Address :
                  a + requiredSize(size) <= HeapSize =>
                      \E b \in Blocks \ Free :
                          /\ b < a + requiredSize(size)
                          /\ a < getFollowingBlock(block, b)

\* A sweep releases every block that is not referenced, whatever it is next to.
GarbageIsReleased == sweep.phase = "swept" => \A a \in Blocks : block[a].kind # "white"

\* No history of allocations, releases and collections leaves free memory in pieces or
\* off the free list, nor garbage unreleased: the headers tile the heap, and every block is
\* known to its neighbours by what memoryFree and the sweep will use.
HeapIsInOrder ==
    /\ HeapIsTiled
    /\ NeighboursAreExact
    /\ FreeListIsExact
    /\ RoomIsFound
    /\ GarbageIsReleased

-----------------------------------------------------------------------------

\* The allocated blocks are what the program expects of them, whatever is done with
\* headers and lists: apart, in the heap, and left alone until they are released or
\* found unreferenced.
live == {[at |-> a, size |-> block[a].size,
          collectible |-> block[a].kind # "nonCollectible"] : a \in Blocks \ Free}
AllocatorOf == INSTANCE Allocator

ImplementsAllocator == AllocatorOf!Spec

\* A block that was found referenced is there, unchanged, when the sweep is over.
ReferencedAreKept ==
    [][\A a \in Address :
          (block[a].kind = "black" /\ sweep.phase # "none")
              => block'[a].kind = "black" /\ block'[a].size = block[a].size]_heapVars

=============================================================================
