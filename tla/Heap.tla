--------------------------------- MODULE Heap ---------------------------------
(***************************************************************************)
(* The heap of lib/src/memory: block headers and the free list, as         *)
(* allocateBlock and memoryFree of memoryAlloc.c and sweep and             *)
(* addToFreeList of garbageCollect.c leave them.                           *)
(*                                                                         *)
(* A block is known by its address.  "block" is the memory: at the address *)
(* of a block its header, and Garbage wherever no header was written or    *)
(* an owner's data may be by now.  A loop of the sweep is a step for each  *)
(* turn, and memoryFree a step for what it reads before it enters the heap *)
(* access monitor and one for the rest.  With Preemptive (ps/x86) the      *)
(* steps of the threads interleave, without it (ps/win32, in which the     *)
(* heap access monitor is empty) a call runs to its end.                   *)
(***************************************************************************)
EXTENDS Integers, FiniteSetsExt

CONSTANTS
    NULL,
    Other,              \* what a field holds that is not a block pointer now
    HeapSize,           \* HEAP_SIZE
    MinimumBlock,       \* getMinimumBlockSize(): a header and pPreviousFree
    Requests,           \* the sizes required of allocateBlock, header included
    Kinds,              \* the kinds of block the program allocates
    Thread,
    Collects,           \* whether garbage is collected in this instance
    Preemptive          \* PREEMPTIVE_THREADS

HeapAssumption ==
    /\ HeapSize \in Nat /\ MinimumBlock \in Nat \ {0}
    /\ MinimumBlock <= HeapSize
    /\ Requests \subseteq Nat
    /\ Kinds \subseteq {"nonCollectible", "collectible"}
    /\ NULL \notin 0 .. HeapSize /\ Other \notin 0 .. HeapSize /\ NULL # Other
    /\ Collects \in BOOLEAN /\ Preemptive \in BOOLEAN

VARIABLES
    block,      \* address -> [size, kind, back, forward, pPreviousFree]
    pFreeList,
    freeing,    \* thread -> what it has read in memoryFree, NULL outside it
    sweep       \* where the sweep is, and its local variables

heapVars == <<block, pFreeList, freeing, sweep>>

Address == 0 .. HeapSize - 1        \* pHeap is 0, pHeapEnd is HeapSize
Garbage == [size |-> 0, kind |-> "none", back |-> Other, forward |-> Other,
            pPreviousFree |-> Other]

\* kind abstracts the flags of the key: free, allocated and not collectible, or
\* collectible and white or black.
isNotPastHeapEnd(a) == a < HeapSize
isFree(B, a) == B[a].kind = "free"
isAllocatedNonCollectible(B, a) == B[a].kind = "nonCollectible"
isNotReferenced_white(B, a) == B[a].kind # "black"
isNotReferenced(B, a) == B[a].kind \in {"free", "white"}
getFollowingBlock(B, a) == a + B[a].size

\* The blocks at the addresses in S are blocks no more.
Forget(B, S) == [a \in Address |-> IF a \in S THEN Garbage ELSE B[a]]

\* What a reader of pNextFree meets, from the first block to NULL.
Walk(B, first) ==
    LET w[k \in 0 .. HeapSize] ==
            IF k = 0 THEN first
            ELSE IF w[k - 1] \notin Address THEN NULL ELSE B[w[k - 1]].forward
    IN  w

FreeList(B, first) ==
    LET w == Walk(B, first)
    IN  [k \in 1 .. Cardinality({i \in DOMAIN w : w[i] \in Address}) |-> w[k - 1]]

-----------------------------------------------------------------------------

requiredSize(size) == IF size < MinimumBlock THEN MinimumBlock ELSE size

\* The places on the free list of the blocks that are large enough.
Fits(B, first, size) ==
    LET list == FreeList(B, first)
    IN  {k \in DOMAIN list : B[list[k]].size >= requiredSize(size)}

\* A block n tells the block after it that it is there.
TellNext_never(B, n, a) == B
TellNext(B, n, a) ==
    IF isNotPastHeapEnd(n) /\ isAllocatedNonCollectible(B, n)
    THEN [B EXCEPT ![n].back = a] ELSE B

NextContiguous(n) == IF isNotPastHeapEnd(n) THEN n ELSE NULL

\* A new collectible block is black while it may be marked concurrently.
colour == IF Preemptive THEN "black" ELSE "white"

\* The block is split: its end becomes the new block.
SplitBlock(B, a, required, kind) ==
    LET extra == B[a].size - required
        new == a + extra
        next == new + required
        header == IF kind = "nonCollectible"
                  THEN [size |-> required, kind |-> kind, back |-> a,
                        forward |-> NextContiguous(next), pPreviousFree |-> Other]
                  ELSE [size |-> required, kind |-> colour, back |-> Other,
                        forward |-> Other, pPreviousFree |-> Other]
    IN  [TellNext(B, next, new) EXCEPT ![new] = header, ![a].size = extra]

\* The block is taken whole.  It already points to the contiguous block before it.
TakeBlock(B, a, kind) ==
    IF kind = "nonCollectible"
    THEN [B EXCEPT ![a].kind = kind,
                   ![a].forward = NextContiguous(getFollowingBlock(B, a)),
                   ![a].pPreviousFree = Other]
    ELSE [B EXCEPT ![a].kind = colour, ![a].back = Other, ![a].forward = Other,
                   ![a].pPreviousFree = Other]

\* A free block leaves the free list [block, list].
Unlink(H, a) ==
    LET previous == H.block[a].pPreviousFree
        next == H.block[a].forward
        B == IF previous = NULL THEN H.block
             ELSE [H.block EXCEPT ![previous].forward = next]
    IN  [block |-> IF next = NULL THEN B ELSE [B EXCEPT ![next].pPreviousFree = previous],
         list |-> IF previous = NULL THEN next ELSE H.list]

\* Nothing interrupts a call where threads are not preempted.
Uninterrupted ==
    Preemptive \/ (sweep.phase = "none" /\ \A t \in Thread : freeing[t] = NULL)

\* allocateBlock, called inside the heap access monitor: the first that fits.
allocateBlock(size, kind) ==
    /\ Uninterrupted
    /\ Fits(block, pFreeList, size) # {}
    /\ LET a == FreeList(block, pFreeList)[Min(Fits(block, pFreeList, size))]
           required == requiredSize(size)
           H == Unlink([block |-> block, list |-> pFreeList], a)
       IN  IF block[a].size - required >= MinimumBlock
           THEN /\ block' = SplitBlock(block, a, required, kind)
                /\ UNCHANGED pFreeList
           ELSE /\ block' = TakeBlock(H.block, a, kind)
                /\ pFreeList' = H.list
    /\ UNCHANGED <<freeing, sweep>>

-----------------------------------------------------------------------------
(* Releasing a block. *)

Owned == {a \in Address : isAllocatedNonCollectible(block, a)}

\* What memoryFree reads before it enters the heap access monitor.
memoryFreeReads(t, a) ==
    /\ Uninterrupted
    /\ freeing[t] = NULL
    /\ \A u \in Thread : freeing[u] # NULL => freeing[u].pBlock # a
    /\ freeing' = [freeing EXCEPT ![t] =
           [pBlock |-> a, previous |-> block[a].back, next |-> block[a].forward]]
    /\ UNCHANGED <<block, pFreeList, sweep>>

\* The rest of memoryFree for the block a between previous and next: what it
\* leaves of the heap H.
JoinThree(H, a, previous, next) ==
    LET U == Unlink(H, next)
        B == TellNext(U.block, getFollowingBlock(U.block, next), previous)
    IN  [block |-> Forget([B EXCEPT ![previous].size = @ + B[a].size + B[next].size],
                          {a, next}),
         list |-> U.list]

JoinPrevious(H, a, previous, next) ==
    LET B == IF next = NULL THEN H.block ELSE TellNext(H.block, next, previous)
    IN  [block |-> Forget([B EXCEPT ![previous].size = @ + B[a].size], {a}),
         list |-> H.list]

\* The block takes the place of the next one in the free list.
JoinNext(H, a, next) ==
    LET before == H.block[next].pPreviousFree
        after == H.block[next].forward
        B1 == IF before = NULL THEN H.block ELSE [H.block EXCEPT ![before].forward = a]
        B2 == IF after = NULL THEN B1 ELSE [B1 EXCEPT ![after].pPreviousFree = a]
        B3 == TellNext(B2, getFollowingBlock(B2, next), a)
    IN  [block |-> Forget([B3 EXCEPT ![a].kind = "free", ![a].pPreviousFree = before,
                                     ![a].forward = after, ![a].size = @ + B3[next].size],
                          {next}),
         list |-> IF before = NULL THEN a ELSE H.list]

PutFirst(H, a) ==
    LET B == IF H.list = NULL THEN H.block
             ELSE [H.block EXCEPT ![H.list].pPreviousFree = a]
    IN  [block |-> [B EXCEPT ![a].kind = "free", ![a].forward = H.list,
                             ![a].pPreviousFree = NULL],
         list |-> a]

Release(H, a, previous, next) ==
    LET previousIsFree == previous # NULL /\ isFree(H.block, previous)
        nextIsFree == next # NULL /\ isFree(H.block, next)
    IN  CASE previousIsFree /\ nextIsFree   -> JoinThree(H, a, previous, next)
          [] previousIsFree /\ ~nextIsFree  -> JoinPrevious(H, a, previous, next)
          [] ~previousIsFree /\ nextIsFree  -> JoinNext(H, a, next)
          [] ~previousIsFree /\ ~nextIsFree -> PutFirst(H, a)

memoryFree(t) ==
    /\ freeing[t] # NULL
    /\ LET f == freeing[t]
           H == Release([block |-> block, list |-> pFreeList], f.pBlock, f.previous, f.next)
       IN  block' = H.block /\ pFreeList' = H.list
    /\ freeing' = [freeing EXCEPT ![t] = NULL]
    /\ UNCHANGED sweep

-----------------------------------------------------------------------------
(* A collection. *)

Idle == [phase |-> "none", pCollectibleBlock |-> NULL, pPreviousContiguous |-> NULL,
         pNonCollectibleBlock |-> NULL, pReleasedMemoryBlocks |-> NULL,
         pLastInReleasedList |-> NULL]

isCollectible(a) == block[a].kind \in {"white", "black"}

\* The marking leaves the referenced collectible blocks black and the others white,
\* and uses the back field of the blocks it goes through.
mark(referenced) ==
    /\ Collects /\ Uninterrupted /\ sweep.phase = "none"
    /\ block' = [a \in Address |->
           IF a \in referenced THEN [block[a] EXCEPT !.kind = "black", !.back = Other]
           ELSE IF isCollectible(a) THEN [block[a] EXCEPT !.kind = "white"]
           ELSE block[a]]
    /\ sweep' = [Idle EXCEPT !.phase = "check", !.pCollectibleBlock = 0]
    /\ UNCHANGED <<pFreeList, freeing>>

\* checkNextBlock: a block that cannot be collected is passed.
passBlock ==
    LET a == sweep.pCollectibleBlock
        next == getFollowingBlock(block, a)
    IN  /\ sweep.phase = "check"
        /\ block[a].kind # "white"
        /\ sweep' = [sweep EXCEPT
               !.pPreviousContiguous = a, !.pCollectibleBlock = next,
               !.phase = IF isNotPastHeapEnd(next) THEN "check" ELSE "swept"]
        /\ UNCHANGED <<block, pFreeList, freeing>>

foundBlock ==
    LET a == sweep.pCollectibleBlock
    IN  /\ sweep.phase = "check"
        /\ block[a].kind = "white"
        /\ sweep' = [sweep EXCEPT !.phase = "run",
                         !.pNonCollectibleBlock = getFollowingBlock(block, a)]
        /\ UNCHANGED <<block, pFreeList, freeing>>

runGoesOn ==
    /\ sweep.phase = "run"
    /\ isNotPastHeapEnd(sweep.pNonCollectibleBlock)
    /\ isNotReferenced(block, sweep.pNonCollectibleBlock)

\* The blocks after it that are free or can be collected are joined to it; the
\* free ones leave the free list.
extendRun ==
    LET n == sweep.pNonCollectibleBlock
        H == IF isFree(block, n) THEN Unlink([block |-> block, list |-> pFreeList], n)
             ELSE [block |-> block, list |-> pFreeList]
    IN  /\ runGoesOn
        /\ block' = H.block /\ pFreeList' = H.list
        /\ sweep' = [sweep EXCEPT !.pNonCollectibleBlock = getFollowingBlock(block, n)]
        /\ UNCHANGED freeing

\* The block after n, which is referenced, is the next to be looked at.
afterRun(n) ==
    LET next == getFollowingBlock(block, n)
    IN  IF isNotPastHeapEnd(n) /\ isNotPastHeapEnd(next)
        THEN [sweep EXCEPT !.phase = "check", !.pPreviousContiguous = n,
                           !.pCollectibleBlock = next, !.pNonCollectibleBlock = NULL]
        ELSE [sweep EXCEPT !.phase = "swept", !.pNonCollectibleBlock = NULL]

\* The run is joined to the free block before it.
joinRun ==
    LET a == sweep.pCollectibleBlock
        n == sweep.pNonCollectibleBlock
        p == sweep.pPreviousContiguous
    IN  /\ sweep.phase = "run" /\ ~runGoesOn
        /\ p # NULL /\ isFree(block, p)
        /\ block' = Forget([TellNext(block, n, p) EXCEPT ![p].size = @ + (n - a)], a .. n - 1)
        /\ sweep' = afterRun(n)
        /\ UNCHANGED <<pFreeList, freeing>>

\* The run becomes a block of its own.  When it is a single block the one after it
\* points to it already.
releasedRun(a, n, p) ==
    LET B == IF n = getFollowingBlock(block, a) THEN block ELSE TellNext(block, n, a)
    IN  [Forget(B, a + 1 .. n - 1) EXCEPT ![a].size = n - a,
            ![a].kind = "free", ![a].forward = sweep.pReleasedMemoryBlocks,
            ![a].back = p, ![a].pPreviousFree = NULL]

\* It goes to the front of the list of released blocks.
releaseRun ==
    LET a == sweep.pCollectibleBlock
        n == sweep.pNonCollectibleBlock
        p == sweep.pPreviousContiguous
        first == sweep.pReleasedMemoryBlocks
        B == releasedRun(a, n, p)
    IN  /\ sweep.phase = "run" /\ ~runGoesOn
        /\ ~(p # NULL /\ isFree(block, p))
        /\ block' = IF first = NULL THEN B ELSE [B EXCEPT ![first].pPreviousFree = a]
        /\ sweep' = [afterRun(n) EXCEPT
               !.pReleasedMemoryBlocks = a,
               !.pLastInReleasedList = IF first = NULL THEN a ELSE @]
        /\ UNCHANGED <<pFreeList, freeing>>

\* The released blocks go to the front of the free list.
addToFreeList ==
    LET first == sweep.pReleasedMemoryBlocks
        last == sweep.pLastInReleasedList
        B == [block EXCEPT ![last].forward = pFreeList]
    IN  /\ sweep.phase = "swept"
        /\ IF first = NULL
           THEN UNCHANGED <<block, pFreeList>>
           ELSE /\ block' = IF pFreeList = NULL THEN B
                            ELSE [B EXCEPT ![pFreeList].pPreviousFree = last]
                /\ pFreeList' = first
        /\ sweep' = Idle
        /\ UNCHANGED freeing

-----------------------------------------------------------------------------

\* initializeHeap: one free block.
HeapInit ==
    /\ block = [a \in Address |-> IF a > 0 THEN Garbage
                  ELSE [size |-> HeapSize, kind |-> "free", back |-> NULL,
                        forward |-> NULL, pPreviousFree |-> NULL]]
    /\ pFreeList = 0
    /\ freeing = [t \in Thread |-> NULL]
    /\ sweep = Idle

HeapNext ==
    \/ \E size \in Requests, kind \in Kinds : allocateBlock(size, kind)
    \/ \E t \in Thread, a \in Owned : memoryFreeReads(t, a)
    \/ \E t \in Thread : memoryFree(t)
    \/ \E referenced \in SUBSET {a \in Address : isCollectible(a)} : mark(referenced)
    \/ passBlock
    \/ foundBlock
    \/ extendRun
    \/ joinRun
    \/ releaseRun
    \/ addToFreeList

HeapSpec == HeapInit /\ [][HeapNext]_heapVars

=============================================================================
