------------------------------ MODULE PriorityMap ------------------------------
(***************************************************************************)
(* The priority map of lib/src/thread/schedule.c and schedule.h: an eight  *)
(* by eight bit matrix of the priorities that have running threads, one    *)
(* byte that tells which rows are not zero, and a table that finds the     *)
(* highest priority in two look-ups.  A byte is the set of its one bits.   *)
(***************************************************************************)
EXTENDS Naturals, Sequences, FiniteSets, FiniteSetsExt

CONSTANTS
    Priorities,     \* the priorities threads have
    MaxThreads      \* bound: running threads of one priority

ASSUME PriorityAssumption == Priorities \subseteq 0 .. 63 /\ MaxThreads \in Nat

VARIABLES
    running,        \* priority -> the length of runningThreads[priority]
    priorityMatrix, \* row -> byte
    priorityRows    \* byte

vars == <<running, priorityMatrix, priorityRows>>

Bits == 0 .. 7

row(priority) == priority \div 8        \* priority >> 3
bit(priority) == priority % 8           \* priority & LOWEST3BITSMASK

\* The table of 256 entries: 0, 0, 1, 1, then 2 four times, ..., 7 128 times.
highestBitMap ==
    [n \in 0 .. 255 |->
        CASE n < 2 -> 0 [] n \in 2 .. 3 -> 1 [] n \in 4 .. 7 -> 2 [] n \in 8 .. 15 -> 3
          [] n \in 16 .. 31 -> 4 [] n \in 32 .. 63 -> 5 [] n \in 64 .. 127 -> 6
          [] OTHER -> 7]

byteOf(bits) == MapThenSumSet(LAMBDA i : 2 ^ i, bits)

highestBit(bits) == highestBitMap[byteOf(bits)]

\* Evaluated for each of the 256 bytes: the table gives the highest one bit.
ASSUME HighestBitMapAssumption ==
    \A bits \in SUBSET (0 .. 7) :
        bits # {} => highestBit(bits) \in bits /\ \A i \in bits : i <= highestBit(bits)

Init ==
    /\ running = [p \in Priorities |-> 0]
    /\ priorityMatrix = [r \in Bits |-> {}]
    /\ priorityRows = {}

addToPriorityMap(p) ==
    /\ priorityRows' = priorityRows \cup {row(p)}
    /\ priorityMatrix' = [priorityMatrix EXCEPT ![row(p)] = @ \cup {bit(p)}]

removePriority_wholeRow(p, empty) ==
    /\ priorityMatrix' = [priorityMatrix EXCEPT ![row(p)] = IF empty THEN @ \ {bit(p)} ELSE @]
    /\ priorityRows' = IF empty THEN priorityRows \ {row(p)} ELSE priorityRows

\* removeFromPriorityMap is two statements and removePriority an "if" without braces:
\* the test of the row is made whether or not the list is empty.
removePriority(p, empty) ==
    /\ priorityMatrix' = [priorityMatrix EXCEPT ![row(p)] = IF empty THEN @ \ {bit(p)} ELSE @]
    /\ priorityRows' = IF priorityMatrix'[row(p)] = {} THEN priorityRows \ {row(p)}
                       ELSE priorityRows

getHighestPriority ==
    LET r == highestBit(priorityRows)
    IN  r * 8 + highestBit(priorityMatrix[r])

\* A thread becomes runnable.
addThreadToRunningThreads(p) ==
    /\ running[p] < MaxThreads
    /\ running' = [running EXCEPT ![p] = @ + 1]
    /\ addToPriorityMap(p)

\* A thread leaves the running threads: blocked, asleep, dead or of another priority.
removeThreadFromRunningThreads(p) ==
    /\ running[p] > 0
    /\ running' = [running EXCEPT ![p] = @ - 1]
    /\ removePriority(p, running[p] = 1)

Next ==
    \E p \in Priorities :
        addThreadToRunningThreads(p) \/ removeThreadFromRunningThreads(p)

Spec == Init /\ [][Next]_vars

-----------------------------------------------------------------------------

TypeOK ==
    /\ running \in [Priorities -> Nat]
    /\ priorityMatrix \in [Bits -> SUBSET Bits]
    /\ priorityRows \in SUBSET Bits

\* schedule.c:41, "Bit x in the matrix is 1 if and only if there exists a running
\* thread at that priority", and schedule.c:47, "Bit x is 1 if and only if row x in the
\* priorityMatrix is non-zero".
MatrixIsExact ==
    \A r \in Bits, b \in Bits :
        b \in priorityMatrix[r] <=> (8 * r + b \in Priorities /\ running[8 * r + b] > 0)

RowsAreExact == \A r \in Bits : r \in priorityRows <=> priorityMatrix[r] # {}

IInv == TypeOK /\ MatrixIsExact /\ RowsAreExact

\* getHighestPriority finds the highest priority of a running thread, in two look-ups
\* of bytes that every start, block, wake and death updates separately: "The system
\* attempts to run the highest priority thread at all times" (schedule.c:12).
HighestIsFound ==
    (\E p \in Priorities : running[p] > 0) =>
        /\ getHighestPriority \in Priorities
        /\ running[getHighestPriority] > 0
        /\ \A p \in Priorities : running[p] > 0 => p <= getHighestPriority

=============================================================================
