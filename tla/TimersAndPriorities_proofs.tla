-------------------- MODULE TimersAndPriorities_proofs ---------------------
(***************************************************************************)
(* Two tables the scheduler reads at every switch and at every tick.       *)
(*                                                                         *)
(* For every set of priorities and any number of threads, the priority map *)
(* is exact and its two look-ups find the highest running priority.  The   *)
(* table enters by HighestBitMapAssumption alone, which TLC evaluates for  *)
(* all its entries.                                                        *)
(*                                                                         *)
(* For any number of entries, any timeouts and any length of a tick: no    *)
(* timeout is cut short, whether or not the tick counter overflows; and    *)
(* while it does not, none is called back more than one handled tick late, *)
(* whatever an interval loses when it is cast to 32 bits.                  *)
(***************************************************************************)
EXTENDS PriorityMap, Timers, SequenceTheorems, WellFoundedInduction, TLAPS

----------------------------------------------------------------------------
\* The priority map (schedule.c).

\* A priority is its row and its bit (>> 3, & LOWEST3BITSMASK), and no other
\* priority has the same two.
LEMMA RowAndBit ==
    ASSUME NEW p \in 0 .. 63
    PROVE  /\ row(p) \in Bits /\ bit(p) \in Bits
           /\ p = 8 * row(p) + bit(p)
  BY SMT DEF row, bit, Bits

\* The priority at a place of the matrix is the one with that row and that bit.
LEMMA RowAndBitUnique ==
    ASSUME NEW p \in 0 .. 63, NEW r \in Bits, NEW b \in Bits, 8 * r + b = p
    PROVE  r = row(p) /\ b = bit(p)
  BY SMT DEF row, bit, Bits

\* The table highestBitMap: a byte that is not zero is mapped to its highest bit.
LEMMA HighestBit ==
    ASSUME NEW bits \in SUBSET Bits, bits # {}
    PROVE  highestBit(bits) \in bits /\ \A i \in bits : i <= highestBit(bits)
  BY HighestBitMapAssumption, Zenon DEF Bits

\* The map is exact after any sequence of starts, blocks, wakes and deaths: the two
\* bytes addToPriorityMap and removeFromPriorityMap write stay consistent with the
\* running lists (schedule.c:41 and :47).
THEOREM MapIsExact == Spec => []IInv
<1>1. Init => IInv
  BY SMT DEF Init, IInv, TypeOK, MatrixIsExact, RowsAreExact, Bits
<1>2. IInv /\ [Next]_vars => IInv'
  <2> SUFFICES ASSUME IInv, [Next]_vars PROVE IInv'
    OBVIOUS
  <2> USE DEF IInv, TypeOK
  <2>1. ASSUME NEW p \in Priorities, addThreadToRunningThreads(p) PROVE IInv'
    <3>1. p \in 0 .. 63
      BY PriorityAssumption
    <3>2. row(p) \in Bits /\ bit(p) \in Bits /\ p = 8 * row(p) + bit(p)
      BY <3>1, RowAndBit
    <3>3. \A r \in Bits, b \in Bits : 8 * r + b = p => r = row(p) /\ b = bit(p)
      BY <3>1, RowAndBitUnique
    <3> USE <2>1, <3>2 DEF addThreadToRunningThreads, addToPriorityMap
    <3>4. TypeOK'
      BY SMT
    <3>5. MatrixIsExact'
      BY <3>3, SMT DEF MatrixIsExact
    <3>6. RowsAreExact'
      BY SMT DEF RowsAreExact
    <3> QED BY <3>4, <3>5, <3>6
  <2>2. ASSUME NEW p \in Priorities, removeThreadFromRunningThreads(p) PROVE IInv'
    <3>1. p \in 0 .. 63
      BY PriorityAssumption
    <3>2. row(p) \in Bits /\ bit(p) \in Bits /\ p = 8 * row(p) + bit(p)
      BY <3>1, RowAndBit
    <3>3. \A r \in Bits, b \in Bits : 8 * r + b = p => r = row(p) /\ b = bit(p)
      BY <3>1, RowAndBitUnique
    <3> USE <2>2, <3>2 DEF removeThreadFromRunningThreads, removePriority
    <3>4. TypeOK'
      BY SMT
    <3>5. MatrixIsExact'
      BY <3>3, SMT DEF MatrixIsExact
    <3>6. RowsAreExact'
      BY SMT DEF RowsAreExact
    <3> QED BY <3>4, <3>5, <3>6
  <2>3. CASE UNCHANGED vars
    BY <2>3 DEF vars, MatrixIsExact, RowsAreExact
  <2> QED BY <2>1, <2>2, <2>3 DEF Next
<1> QED BY <1>1, <1>2, PTL DEF Spec

\* What the lists and the map being exact is for: when some thread is running,
\* getHighestPriority is the highest priority of one (schedule.c:12).
THEOREM HighestPriorityIsFound == Spec => []HighestIsFound
<1>1. IInv => HighestIsFound
  <2> SUFFICES ASSUME IInv, NEW q \in Priorities, running[q] > 0
               PROVE  /\ getHighestPriority \in Priorities
                      /\ running[getHighestPriority] > 0
                      /\ \A p \in Priorities : running[p] > 0 => p <= getHighestPriority
    BY DEF HighestIsFound
  <2> USE DEF IInv
  <2>1. ASSUME NEW p \in Priorities, running[p] > 0
        PROVE  /\ row(p) \in priorityRows /\ bit(p) \in priorityMatrix[row(p)]
               /\ row(p) \in Bits /\ bit(p) \in Bits /\ p = 8 * row(p) + bit(p)
    <3>1. row(p) \in Bits /\ bit(p) \in Bits /\ p = 8 * row(p) + bit(p)
      BY PriorityAssumption, RowAndBit
    <3>2. bit(p) \in priorityMatrix[row(p)]
      BY <2>1, <3>1 DEF MatrixIsExact
    <3> QED BY <3>1, <3>2 DEF RowsAreExact
  <2> DEFINE r == highestBit(priorityRows)
             b == highestBit(priorityMatrix[r])
  <2>2. r \in priorityRows /\ (\A i \in priorityRows : i <= r) /\ r \in Bits
    BY <2>1, HighestBit DEF TypeOK
  <2>3. b \in priorityMatrix[r] /\ (\A i \in priorityMatrix[r] : i <= b) /\ b \in Bits
    BY <2>2, HighestBit DEF TypeOK, RowsAreExact
  <2>4. 8 * r + b \in Priorities /\ running[8 * r + b] > 0
    BY <2>2, <2>3 DEF MatrixIsExact
  <2>5. getHighestPriority = 8 * r + b
    BY <2>2, <2>3, SMT DEF getHighestPriority, Bits
  <2>6. ASSUME NEW p \in Priorities, running[p] > 0 PROVE p <= 8 * r + b
    <3>1. row(p) <= r
      BY <2>1, <2>2, <2>6
    <3>2. row(p) = r => bit(p) <= b
      BY <2>1, <2>3, <2>6
    <3> HIDE DEF r, b
    <3> QED BY <2>1, <2>2, <2>3, <2>6, <3>1, <3>2, SMT DEF Bits
  <2> HIDE DEF r, b
  <2> QED BY <2>4, <2>5, <2>6
<1> QED BY <1>1, MapIsExact, PTL

----------------------------------------------------------------------------
\* The queue of timers and the tick (timer.c).

Timer == [entry : Entry, absoluteTime : Nat]

TimersTypeOK ==
    /\ tickCounter \in Nat
    /\ timerExpiry \in Nat
    /\ pTimerList \in Seq(Timer)
    /\ enabled \in BOOLEAN
    /\ left \in [Entry -> Int]

\* While some ticks of a timeout are left, all but one of them are not enough.
EarlyInv ==
    \A i \in 1 .. Len(pTimerList) :
        left[pTimerList[i].entry] > 0 =>
            (tickCounter + left[pTimerList[i].entry] - 1) * MILLIS_PER_TICK
                < pTimerList[i].absoluteTime

TimersInv == TimersTypeOK /\ EarlyInv

\* When the queue is next looked at, the tick its first entry is due in is the one
\* before at the earliest.
ExpiryInv ==
    pTimerList # <<>> =>
        (timerExpiry - 1) * MILLIS_PER_TICK <= pTimerList[1].absoluteTime

\* The ticks counted down are at least those that are still to come.
LateInv ==
    \A i \in 1 .. Len(pTimerList) :
        /\ left[pTimerList[i].entry] >= 0
        /\ pTimerList[i].absoluteTime
               <= (tickCounter + left[pTimerList[i].entry]) * MILLIS_PER_TICK

\* An entry is on the queue once.
UniqueInv ==
    \A i, j \in 1 .. Len(pTimerList) : pTimerList[i].entry = pTimerList[j].entry => i = j

LatenessInv == TimersInv /\ UniqueInv /\ QueueIsSorted /\ ExpiryInv /\ LateInv

-----------------------------------------------------------------------------
(* Times and ticks. *)

\* Multiplication by the length of a tick.
LEMMA Times ==
    ASSUME NEW m \in Nat \ {0}
    PROVE  /\ \A a, b \in Int : (a + b) * m = a * m + b * m
           /\ \A a, b \in Int : a <= b <=> a * m <= b * m
           /\ \A a, b \in Int : a < b <=> a * m < b * m
           /\ \A a \in Nat : a * m \in Nat
           /\ \A a \in Int : a * m \in Int
<1>1. \A a, b \in Int : (a + b) * m = a * m + b * m
    BY SMT
<1>2. \A a, b \in Int : a < b => a * m < b * m
    <2> SUFFICES ASSUME NEW a \in Int, NEW b \in Int, a < b PROVE a * m < b * m
        OBVIOUS
    <2>1. (b - a) * m > 0
        BY SMT
    <2>2. (b - a) * m = b * m - a * m
        BY SMT
    <2> QED
        BY <2>1, <2>2
<1>3. \A a \in Int : a * m \in Int
    BY SMT
<1>4. \A a \in Nat : a * m \in Nat
    BY SMT
<1>5. \A a, b \in Int : a = b \/ a < b \/ b < a
    BY SMT
<1> QED
    BY <1>1, <1>2, <1>3, <1>4, <1>5

\* Division by the length of a tick.
LEMMA Quotients ==
    ASSUME NEW m \in Nat \ {0}, NEW a \in Nat
    PROVE  /\ a \div m \in Nat
           /\ a % m \in Nat /\ a % m <= a
           /\ (a \div m) * m <= a
           /\ a < (a \div m + 1) * m
<1>1. (a \div m) * m <= a
    BY SMT
<1>2. a < (a \div m + 1) * m
    BY SMT
<1>3. a \div m \in Nat
    BY SMT
<1>4. a % m \in Nat /\ a % m <= a
    BY SMT
<1> QED
    BY <1>1, <1>2, <1>3, <1>4

\* Rounding up takes the fewest ticks that are long enough.
LEMMA TicksOfIsEnough ==
    ASSUME TimersAssumption, NEW a \in Nat
    PROVE  /\ TicksOf(a) \in Nat
           /\ a <= TicksOf(a) * MILLIS_PER_TICK
           /\ TicksOf(a) > 0 => (TicksOf(a) - 1) * MILLIS_PER_TICK < a
<1> DEFINE m == MILLIS_PER_TICK
           b == a + m - 1
           q == b \div m
<1>1. m \in Nat \ {0} /\ b \in Nat
    BY DEF TimersAssumption
<1>2. q \in Nat /\ q * m <= b /\ b < (q + 1) * m
    BY <1>1, Quotients
<1>3. (q + 1) * m = q * m + m /\ (q - 1) * m = q * m - m
    <2> HIDE DEF q, b, m
    <2>1. q \in Int /\ 1 \in Int /\ -1 \in Int
        BY <1>2
    <2>2. (q + 1) * m = q * m + 1 * m /\ (q + (-1)) * m = q * m + (-1) * m
        BY <2>1, <1>1, Times
    <2> QED
        BY <1>1, <2>1, <2>2
<1>4. q * m \in Int
    BY <1>1, <1>2, Times
<1> HIDE DEF q, m
<1> QED
    BY <1>1, <1>2, <1>3, <1>4 DEF TicksOf, q, m

\* What an interval loses when it is cast makes the count smaller.
LEMMA getTickCountIsEarly ==
    ASSUME TimersAssumption, NEW a \in Nat
    PROVE  /\ getTickCount(a) \in Nat
           /\ (getTickCount(a) - 1) * MILLIS_PER_TICK <= a
<1> DEFINE m == MILLIS_PER_TICK
           b == a % MillisRange
           q == b \div m
<1>1. m \in Nat \ {0} /\ MillisRange \in Nat \ {0}
    BY DEF TimersAssumption
<1>2. b \in Nat /\ b <= a
    BY <1>1, Quotients
<1>3. q \in Nat /\ q * m <= b
    BY <1>1, <1>2, Quotients
<1>4. getTickCount(a) = q + 1
    BY DEF getTickCount
<1> HIDE DEF q, b, m
<1>5. q * m \in Int
    BY <1>1, <1>3, Times
<1>6. q + 1 - 1 = q
    BY <1>3
<1> QED
    BY <1>2, <1>3, <1>4, <1>5, <1>6 DEF m

LEMMA expiryAfterIsEarly ==
    ASSUME TimersAssumption, NEW ticks \in Nat, NEW a \in Nat
    PROVE  /\ expiryAfter(ticks, a) \in Nat
           /\ (expiryAfter(ticks, a) - 1) * MILLIS_PER_TICK <= currentTime(ticks) + a
<1> DEFINE m == MILLIS_PER_TICK
           g == getTickCount(a)
           x == expiryAfter(ticks, a)
<1>1. m \in Nat \ {0} /\ TickRange \in Nat \ {0}
    BY DEF TimersAssumption
<1>2. g \in Nat /\ (g - 1) * m <= a
    BY getTickCountIsEarly
<1>3. x \in Nat /\ x <= ticks + g
    <2>1. ticks + g \in Nat
        BY <1>2
    <2> QED
        BY <1>1, <2>1, Quotients DEF expiryAfter
<1> HIDE DEF x, g, m
<1>4. (x - 1) * m <= (ticks + (g - 1)) * m
    <2>1. x - 1 \in Int /\ ticks + (g - 1) \in Int /\ x - 1 <= ticks + (g - 1)
        BY <1>2, <1>3
    <2> QED
        BY <1>1, <2>1, Times
<1>5. (ticks + (g - 1)) * m = ticks * m + (g - 1) * m
    <2>1. ticks \in Int /\ g - 1 \in Int
        BY <1>2
    <2> QED
        BY <1>1, <2>1, Times
<1>6. ticks * m \in Int /\ (g - 1) * m \in Int /\ (x - 1) * m \in Int
    BY <1>1, <1>2, <1>3, Times
<1> QED
    BY <1>2, <1>3, <1>4, <1>5, <1>6 DEF currentTime, x, m

-----------------------------------------------------------------------------
(* The places found on the queue. *)

LEMMA MinOfNaturals ==
    ASSUME NEW I, I \subseteq Nat, I # {}
    PROVE  Min(I) \in I /\ \A i \in I : Min(I) <= i
<1>1. PICK x \in I : \A y \in I : ~ (<<y, x>> \in OpToRel(<, Nat))
    BY NatLessThanWellFounded, WFMin
<1>2. ASSUME NEW y \in I PROVE x <= y
    <2>1. x \in Nat /\ y \in Nat
        OBVIOUS
    <2>2. y < x => <<y, x>> \in OpToRel(<, Nat)
        BY <2>1, Zenon DEF OpToRel
    <2>3. ~ (y < x)
        BY <1>1, <2>2, Zenon
    <2> QED
        BY <2>1, <2>3, SMT
<1> QED
    BY <1>2 DEF Min

\* Where SelectInSeq finds the first entry that is due later than a time.
Later(queue, time) == {i \in 1 .. Len(queue) : time < queue[i].absoluteTime}

\* The place at which a timer is inserted.
LEMMA FirstLater ==
    ASSUME NEW queue \in Seq(Timer), NEW time \in Nat, NEW place,
           place = IF Later(queue, time) # {} THEN Min(Later(queue, time)) ELSE 0
    PROVE  /\ place \in 0 .. Len(queue)
           /\ place > 0 => time < queue[place].absoluteTime
           /\ \A i \in 1 .. Len(queue) :
                 place = 0 \/ i < place => queue[i].absoluteTime <= time
<1>1. Later(queue, time) \subseteq Nat
    BY DEF Later
<1>2. \A i \in 1 .. Len(queue) : queue[i].absoluteTime \in Nat
    <2>1. \A i \in 1 .. Len(queue) : queue[i] \in Timer
        BY ElementOfSeq
    <2> QED
        BY <2>1 DEF Timer
<1>3. CASE Later(queue, time) = {}
    BY <1>2, <1>3 DEF Later
<1>4. CASE Later(queue, time) # {}
    <2>1. place \in Later(queue, time) /\ \A i \in Later(queue, time) : place <= i
        BY <1>1, <1>4, MinOfNaturals
    <2>2. place \in 1 .. Len(queue) /\ time < queue[place].absoluteTime
        BY <2>1 DEF Later
    <2>3. ASSUME NEW i \in 1 .. Len(queue), i < place
          PROVE  queue[i].absoluteTime <= time
        <3>1. i \notin Later(queue, time)
            BY <2>1, <2>2, <2>3
        <3> QED
            BY <1>2, <3>1 DEF Later
    <2> QED
        BY <2>2, <2>3
<1> QED
    BY <1>3, <1>4

LEMMA addTimerCallback_Does ==
    ASSUME pTimerList \in Seq(Timer), NEW entry \in Timer
    PROVE  LET queue == addTimerCallback(entry)
               n     == Len(pTimerList)
           IN  /\ queue \in Seq(Timer) /\ Len(queue) = n + 1
               /\ \E place \in 1 .. n + 1 :
                     /\ queue[place] = entry
                     /\ \A i \in 1 .. place - 1 :
                           /\ queue[i] = pTimerList[i]
                           /\ QueueIsSorted => queue[i].absoluteTime <= entry.absoluteTime
                     /\ \A i \in place + 1 .. n + 1 :
                           /\ queue[i] = pTimerList[i - 1]
                           /\ QueueIsSorted => entry.absoluteTime <= queue[i].absoluteTime
<1> DEFINE time  == entry.absoluteTime
           found == SelectInSeq(pTimerList, LAMBDA x : entry.absoluteTime < x.absoluteTime)
           n     == Len(pTimerList)
           queue == addTimerCallback(entry)
<1>0. n \in Nat /\ time \in Nat /\ \A i \in 1 .. n : pTimerList[i] \in Timer
    <2>1. n \in Nat /\ \A i \in 1 .. n : pTimerList[i] \in Timer
        BY ElementOfSeq
    <2>2. time \in Nat
        BY DEF Timer
    <2> QED
        BY <2>1, <2>2
<1>1. found = IF Later(pTimerList, time) # {} THEN Min(Later(pTimerList, time)) ELSE 0
    BY DEF SelectInSeq, Later
<1>2. /\ found \in 0 .. n
      /\ found > 0 => time < pTimerList[found].absoluteTime
      /\ \A i \in 1 .. n : found = 0 \/ i < found => pTimerList[i].absoluteTime <= time
    <2> HIDE DEF found
    <2> QED
        BY <1>0, <1>1, FirstLater
<1>3. queue = IF found = 0 THEN Append(pTimerList, entry) ELSE InsertAt(pTimerList, found, entry)
    BY DEF addTimerCallback
<1> HIDE DEF found, queue
<1>4. CASE found = 0
    <2>1. queue = Append(pTimerList, entry)
        BY <1>3, <1>4
    <2>2. /\ queue \in Seq(Timer) /\ Len(queue) = n + 1
          /\ \A i \in 1 .. n : queue[i] = pTimerList[i]
          /\ queue[n + 1] = entry
        BY <2>1, AppendProperties
    <2> QED
        BY <1>0, <1>2, <1>4, <2>2 DEF queue
<1>5. CASE found # 0
    <2> DEFINE before == SubSeq(pTimerList, 1, found - 1)
               after  == SubSeq(pTimerList, found, n)
    <2>1. found \in 1 .. n
        BY <1>2, <1>5
    <2>2. /\ before \in Seq(Timer) /\ Len(before) = found - 1
          /\ \A i \in 1 .. found - 1 : before[i] = pTimerList[i]
        BY <1>0, <2>1, SubSeqProperties
    <2>3. /\ after \in Seq(Timer) /\ Len(after) = n - found + 1
          /\ \A i \in 1 .. n - found + 1 : after[i] = pTimerList[found + i - 1]
        BY <1>0, <2>1, SubSeqProperties
    <2>4. queue = (before \o <<entry>>) \o after
        BY <1>3, <1>5 DEF InsertAt
    <2> HIDE DEF before, after
    <2>5. /\ before \o <<entry>> \in Seq(Timer) /\ Len(before \o <<entry>>) = found
          /\ \A i \in 1 .. found - 1 : (before \o <<entry>>)[i] = pTimerList[i]
          /\ (before \o <<entry>>)[found] = entry
        BY <2>1, <2>2
    <2>6. /\ queue \in Seq(Timer) /\ Len(queue) = n + 1
          /\ \A i \in 1 .. found - 1 : queue[i] = pTimerList[i]
          /\ queue[found] = entry
        <3> DEFINE front == before \o <<entry>>
        <3>1. /\ front \in Seq(Timer) /\ Len(front) = found
              /\ \A i \in 1 .. found - 1 : front[i] = pTimerList[i]
              /\ front[found] = entry /\ queue = front \o after
            BY <2>4, <2>5
        <3> HIDE DEF front
        <3>2. /\ queue \in Seq(Timer) /\ Len(queue) = found + Len(after)
              /\ \A i \in 1 .. found + Len(after) : queue[i] =
                    IF i <= found THEN front[i] ELSE after[i - found]
            BY <2>3, <3>1, ConcatProperties
        <3>3. Len(after) \in Nat /\ found + Len(after) = n + 1
            BY <1>0, <2>1, <2>3
        <3> QED
            BY <1>0, <2>1, <3>1, <3>2, <3>3
    <2>7. \A i \in found + 1 .. n + 1 : queue[i] = pTimerList[i - 1]
        <3> SUFFICES ASSUME NEW i \in found + 1 .. n + 1
                     PROVE  queue[i] = pTimerList[i - 1]
            OBVIOUS
        <3>1. queue[i] = after[i - found]
            <4> DEFINE front == before \o <<entry>>
            <4>1. front \in Seq(Timer) /\ Len(front) = found /\ queue = front \o after
                BY <2>4, <2>5
            <4> HIDE DEF front
            <4>2. \A j \in 1 .. found + Len(after) : queue[j] =
                      IF j <= found THEN front[j] ELSE after[j - found]
                BY <2>3, <4>1, ConcatProperties
            <4>3. i \in 1 .. found + Len(after) /\ ~ (i <= found)
                BY <1>0, <2>1, <2>3
            <4> QED
                BY <4>2, <4>3
        <3>2. i - found \in 1 .. n - found + 1 /\ found + (i - found) - 1 = i - 1
            BY <1>0, <2>1
        <3> QED
            BY <2>3, <3>1, <3>2
    <2>8. QueueIsSorted => \A i \in found .. n : time <= pTimerList[i].absoluteTime
        <3> SUFFICES ASSUME QueueIsSorted, NEW i \in found .. n
                     PROVE  time <= pTimerList[i].absoluteTime
            OBVIOUS
        <3>1. pTimerList[found].absoluteTime <= pTimerList[i].absoluteTime
            BY <1>0, <2>1 DEF QueueIsSorted, Timer
        <3>2. pTimerList[found].absoluteTime \in Nat /\ pTimerList[i].absoluteTime \in Nat
            BY <1>0, <2>1 DEF Timer
        <3> QED
            BY <1>0, <1>2, <2>1, <3>1, <3>2
    <2>9. \A i \in found + 1 .. n + 1 : i - 1 \in found .. n
        BY <1>0, <2>1
    <2>10. /\ found \in 1 .. n + 1
           /\ queue[found] = entry
           /\ \A i \in 1 .. found - 1 : /\ queue[i] = pTimerList[i]
                                       /\ queue[i].absoluteTime <= time
        BY <1>0, <1>2, <2>1, <2>6
    <2>11. \A i \in found + 1 .. n + 1 :
              /\ queue[i] = pTimerList[i - 1]
              /\ QueueIsSorted => time <= queue[i].absoluteTime
        BY <2>7, <2>8, <2>9
    <2> QED
        BY <2>6, <2>10, <2>11 DEF queue
<1> QED
    BY <1>4, <1>5

-----------------------------------------------------------------------------
(* The actions. *)

\* The queue is left with some of its entries, in the order they were in.
Picks(queue, old, from) ==
    /\ from \in [1 .. Len(queue) -> 1 .. Len(old)]
    /\ \A i, j \in 1 .. Len(queue) : i < j => from[i] < from[j]
    /\ \A i \in 1 .. Len(queue) : queue[i] = old[from[i]]

LEMMA SetTimer_Does ==
    ASSUME TimersTypeOK, TimersAssumption, NEW e \in Entry, NEW interval \in Intervals,
           SetTimer(e, interval)
    PROVE  /\ \A i \in 1 .. Len(pTimerList) : pTimerList[i].entry # e
           /\ interval \in Nat
           /\ currentTime(tickCounter) \in Nat
           /\ [entry |-> e, absoluteTime |-> currentTime(tickCounter) + interval] \in Timer
           /\ left' \in [Entry -> Int] /\ left'[e] = TicksOf(interval)
           /\ \A d \in Entry \ {e} : left'[d] = left[d]
<1>1. interval \in Nat
    BY DEF TimersAssumption
<1>2. currentTime(tickCounter) \in Nat
    <2>1. tickCounter \in Nat /\ MILLIS_PER_TICK \in Nat \ {0}
        BY DEF TimersTypeOK, TimersAssumption
    <2> QED
        BY <2>1, Times DEF currentTime
<1>3. [entry |-> e, absoluteTime |-> currentTime(tickCounter) + interval] \in Timer
    BY <1>1, <1>2 DEF Timer
<1>4. \A i \in 1 .. Len(pTimerList) : pTimerList[i].entry # e
    BY DEF SetTimer, EntriesIn, TimersTypeOK
<1>5. /\ left' = [left EXCEPT ![e] = TicksOf(interval)] /\ left \in [Entry -> Int]
      /\ TicksOf(interval) \in Int
    BY <1>1, TicksOfIsEnough DEF SetTimer, TimersTypeOK
<1> QED
    BY <1>1, <1>2, <1>3, <1>4, <1>5

\* Where SelectInSeq finds an entry.
PlacesOf(e) == {i \in 1 .. Len(pTimerList) : pTimerList[i].entry = e}

LEMMA removeTimerCallback_Does ==
    ASSUME TimersTypeOK, NEW e \in Entry, removeTimerCallback(e)
    PROVE  /\ pTimerList' \in Seq(Timer)
           /\ \E from : Picks(pTimerList', pTimerList, from)
           /\ UniqueInv => \A i \in 1 .. Len(pTimerList') : pTimerList'[i].entry # e
           /\ left' = [left EXCEPT ![e] = 0]
           /\ UNCHANGED <<tickCounter, timerExpiry, enabled>>
<1> DEFINE n     == Len(pTimerList)
           place == SelectInSeq(pTimerList, LAMBDA x : x.entry = e)
           before == SubSeq(pTimerList, 1, place - 1)
           after  == SubSeq(pTimerList, place + 1, n)
<1>1. n \in Nat /\ \A i \in 1 .. n : pTimerList[i] \in Timer
    BY ElementOfSeq DEF TimersTypeOK
<1>2. PlacesOf(e) # {}
    BY <1>1 DEF removeTimerCallback, EntriesIn, PlacesOf, TimersTypeOK
<1>3. place = Min(PlacesOf(e))
    BY <1>2 DEF SelectInSeq, PlacesOf
<1>4. place \in 1 .. n /\ pTimerList[place].entry = e
    <2>1. PlacesOf(e) \subseteq Nat
        BY DEF PlacesOf
    <2>2. place \in PlacesOf(e)
        BY <1>2, <1>3, <2>1, MinOfNaturals
    <2> QED
        BY <2>2 DEF PlacesOf
<1>5. pTimerList' = before \o after
    <2>1. \E i \in 1 .. n : pTimerList[i].entry = e
        BY <1>4
    <2> QED
        BY <2>1 DEF removeTimerCallback, RemoveFirstMatch, RemoveAt
<1> HIDE DEF place
<1>6. /\ before \in Seq(Timer) /\ Len(before) = place - 1
      /\ \A i \in 1 .. place - 1 : before[i] = pTimerList[i]
    BY <1>1, <1>4, SubSeqProperties
<1>7. /\ after \in Seq(Timer) /\ Len(after) = n - place
      /\ \A i \in 1 .. n - place : after[i] = pTimerList[place + i]
    <2>1. \A i \in place + 1 .. n : pTimerList[i] \in Timer
        BY <1>1, <1>4
    <2>2. /\ after \in Seq(Timer)
          /\ Len(after) = IF place + 1 <= n THEN n - (place + 1) + 1 ELSE 0
          /\ \A i \in 1 .. n - (place + 1) + 1 : after[i] = pTimerList[place + 1 + i - 1]
        BY <1>1, <1>4, <2>1, SubSeqProperties
    <2>3. n - (place + 1) + 1 = n - place
        BY <1>1, <1>4
    <2>4. \A i \in 1 .. n - place : place + 1 + i - 1 = place + i
        BY <1>1, <1>4
    <2>5. n - place = IF place + 1 <= n THEN n - (place + 1) + 1 ELSE 0
        BY <1>1, <1>4
    <2>6. \A i \in 1 .. n - place : after[i] = pTimerList[place + i]
        BY <2>2, <2>3, <2>4
    <2> QED
        BY <2>2, <2>5, <2>6
<1> HIDE DEF before, after
<1> DEFINE from == [i \in 1 .. n - 1 |-> IF i < place THEN i ELSE i + 1]
<1>8. /\ pTimerList' \in Seq(Timer) /\ Len(pTimerList') = n - 1
      /\ \A i \in 1 .. n - 1 : pTimerList'[i] =
            IF i < place THEN pTimerList[i] ELSE pTimerList[i + 1]
    <2>1. /\ pTimerList' \in Seq(Timer) /\ Len(pTimerList') = (place - 1) + (n - place)
          /\ \A i \in 1 .. (place - 1) + (n - place) : pTimerList'[i] =
                IF i <= place - 1 THEN before[i] ELSE after[i - (place - 1)]
        BY <1>5, <1>6, <1>7, ConcatProperties
    <2>2. (place - 1) + (n - place) = n - 1
        BY <1>1, <1>4
    <2>3. ASSUME NEW i \in 1 .. n - 1, i < place
          PROVE  pTimerList'[i] = pTimerList[i]
        <3>1. i <= place - 1 /\ i \in 1 .. place - 1
            BY <1>1, <1>4, <2>3
        <3> QED
            BY <1>6, <2>1, <2>2, <3>1
    <2>4. ASSUME NEW i \in 1 .. n - 1, ~ (i < place)
          PROVE  pTimerList'[i] = pTimerList[i + 1]
        <3>1. /\ ~ (i <= place - 1)
              /\ i - (place - 1) \in 1 .. n - place
              /\ place + (i - (place - 1)) = i + 1
            BY <1>1, <1>4, <2>4
        <3> QED
            BY <1>7, <2>1, <2>2, <3>1
    <2> QED
        BY <2>1, <2>2, <2>3, <2>4
<1>9. Picks(pTimerList', pTimerList, from)
    <2>1. from \in [1 .. n - 1 -> 1 .. n]
        BY <1>1, <1>4
    <2>2. \A i, j \in 1 .. n - 1 : i < j => from[i] < from[j]
        BY <1>1, <1>4
    <2>3. \A i \in 1 .. n - 1 : pTimerList'[i] = pTimerList[from[i]]
        BY <1>8
    <2> QED
        BY <1>8, <2>1, <2>2, <2>3 DEF Picks
<1>10. UniqueInv => \A i \in 1 .. Len(pTimerList') : pTimerList'[i].entry # e
    BY <1>1, <1>4, <1>8 DEF UniqueInv
<1> QED
    BY <1>8, <1>9, <1>10 DEF removeTimerCallback

\* Where SelectInSeq finds the first entry that is not due.
NotDue(now) == {i \in 1 .. Len(pTimerList) : ~ due(pTimerList[i], now)}

LEMMA updateTimerQueue_Does ==
    ASSUME TimersTypeOK, TimersAssumption, NEW ticks \in Nat, updateTimerQueue(ticks)
    PROVE  /\ pTimerList' \in Seq(Timer)
           /\ timerExpiry' \in Nat
           /\ \E from :
                 /\ Picks(pTimerList', pTimerList, from)
                 /\ \A i \in 1 .. Len(pTimerList) :
                       \/ \E j \in 1 .. Len(pTimerList') : i = from[j]
                       \/ pTimerList[i].absoluteTime <= currentTime(ticks)
           /\ pTimerList' # <<>> =>
                 /\ currentTime(ticks) < pTimerList'[1].absoluteTime
                 /\ (timerExpiry' - 1) * MILLIS_PER_TICK <= pTimerList'[1].absoluteTime
<1> DEFINE n     == Len(pTimerList)
           now   == currentTime(ticks)
           first == SelectInSeq(pTimerList, LAMBDA x : ~due(x, now))
<1>1. n \in Nat /\ \A i \in 1 .. n : pTimerList[i] \in Timer
    BY ElementOfSeq DEF TimersTypeOK
<1>2. \A i \in 1 .. n : pTimerList[i].absoluteTime \in Nat
    BY <1>1 DEF Timer
<1>3. now \in Nat
    BY Times DEF currentTime, TimersAssumption
<1>4. first = IF NotDue(now) # {} THEN Min(NotDue(now)) ELSE 0
    BY DEF SelectInSeq, NotDue
<1>5. /\ first = 0 => pTimerList' = <<>> /\ timerExpiry' = timerExpiry
      /\ first # 0 =>
            /\ pTimerList' = SubSeq(pTimerList, first, n)
            /\ timerExpiry' = expiryAfter(ticks, pTimerList[first].absoluteTime - now)
    BY DEF updateTimerQueue
<1> HIDE DEF first, now
<1>6. CASE NotDue(now) = {}
    <2>1. \A i \in 1 .. n : pTimerList[i].absoluteTime <= now
        BY <1>2, <1>3, <1>6 DEF NotDue, due
    <2>2. pTimerList' = <<>> /\ timerExpiry' = timerExpiry
        BY <1>4, <1>5, <1>6
    <2>3. pTimerList' \in Seq(Timer) /\ Len(pTimerList') = 0
        BY <2>2
    <2>4. Picks(pTimerList', pTimerList, [i \in 1 .. 0 |-> i])
        BY <2>3 DEF Picks
    <2> QED
        BY <2>1, <2>2, <2>3, <2>4 DEF TimersTypeOK, now
<1>7. CASE NotDue(now) # {}
    <2>1. first \in NotDue(now) /\ \A i \in NotDue(now) : first <= i
        <3>1. NotDue(now) \subseteq Nat
            BY DEF NotDue
        <3> QED
            BY <1>4, <1>7, <3>1, MinOfNaturals
    <2>2. first \in 1 .. n /\ now < pTimerList[first].absoluteTime
        BY <1>2, <1>3, <2>1 DEF NotDue, due
    <2>3. \A i \in 1 .. n : i < first => pTimerList[i].absoluteTime <= now
        <3> SUFFICES ASSUME NEW i \in 1 .. n, i < first
                     PROVE  pTimerList[i].absoluteTime <= now
            OBVIOUS
        <3>1. i \notin NotDue(now)
            BY <2>1, <2>2
        <3> QED
            BY <1>2, <1>3, <3>1 DEF NotDue, due
    <2>4. /\ pTimerList' = SubSeq(pTimerList, first, n)
          /\ timerExpiry' = expiryAfter(ticks, pTimerList[first].absoluteTime - now)
        BY <1>5, <2>2
    <2>5. /\ pTimerList' \in Seq(Timer) /\ Len(pTimerList') = n - first + 1
          /\ \A i \in 1 .. n - first + 1 : pTimerList'[i] = pTimerList[first + i - 1]
        BY <1>1, <2>2, <2>4, SubSeqProperties
    <2> DEFINE from == [i \in 1 .. n - first + 1 |-> first + i - 1]
    <2>6. Picks(pTimerList', pTimerList, from)
        <3>1. from \in [1 .. n - first + 1 -> 1 .. n]
            BY <1>1, <2>2
        <3>2. \A i, j \in 1 .. n - first + 1 : i < j => from[i] < from[j]
            BY <1>1, <2>2
        <3> QED
            BY <2>5, <3>1, <3>2 DEF Picks
    <2>7. ASSUME NEW i \in 1 .. n
          PROVE  \/ \E j \in 1 .. Len(pTimerList') : i = from[j]
                 \/ pTimerList[i].absoluteTime <= now
        <3>1. CASE i < first
            BY <2>3, <3>1
        <3>2. CASE ~ (i < first)
            <4>1. i - first + 1 \in 1 .. n - first + 1 /\ first + (i - first + 1) - 1 = i
                BY <1>1, <2>2, <3>2
            <4> QED
                BY <2>5, <4>1
        <3> QED
            BY <3>1, <3>2
    <2>8. pTimerList[first].absoluteTime - now \in Nat
        BY <1>2, <1>3, <2>2
    <2>9. /\ timerExpiry' \in Nat
          /\ (timerExpiry' - 1) * MILLIS_PER_TICK
                <= now + (pTimerList[first].absoluteTime - now)
        BY <2>4, <2>8, expiryAfterIsEarly DEF now
    <2>10. now + (pTimerList[first].absoluteTime - now) = pTimerList[first].absoluteTime
        BY <1>2, <1>3, <2>2
    <2>11. pTimerList'[1] = pTimerList[first]
        BY <1>1, <2>2, <2>5
    <2> HIDE DEF from
    <2> QED
        BY <2>2, <2>5, <2>6, <2>7, <2>9, <2>10, <2>11 DEF now
<1> QED
    BY <1>6, <1>7

\* A tick either leaves the queue alone, and did not have to look at it or could not,
\* or takes off what is due.
LEMMA handleTick_Does ==
    ASSUME TimersTypeOK, TimersAssumption, handleTick
    PROVE  /\ tickCounter' \in Nat
           /\ tickCounter' <= tickCounter + 1
           /\ ~ Wraps => tickCounter' = tickCounter + 1
           /\ pTimerList' \in Seq(Timer)
           /\ timerExpiry' \in Nat
           /\ UNCHANGED enabled
           /\ left' \in [Entry -> Int]
           /\ \A i \in 1 .. Len(pTimerList') :
                 LET e == pTimerList'[i].entry
                 IN  left'[e] = IF left[e] > 0 \/ (enabled /\ left[e] > -MaxLate)
                                THEN left[e] - 1 ELSE left[e]
           /\ \E from :
                 /\ Picks(pTimerList', pTimerList, from)
                 /\ \A i \in 1 .. Len(pTimerList) :
                       \/ \E j \in 1 .. Len(pTimerList') : i = from[j]
                       \/ pTimerList[i].absoluteTime <= currentTime(tickCounter')
           /\ \/ /\ UNCHANGED <<pTimerList, timerExpiry>>
                 /\ pTimerList # <<>> /\ enabled => tickCounter' < timerExpiry
              \/ pTimerList' # <<>> =>
                   /\ currentTime(tickCounter') < pTimerList'[1].absoluteTime
                   /\ (timerExpiry' - 1) * MILLIS_PER_TICK <= pTimerList'[1].absoluteTime
<1>1. /\ tickCounter' = nextTick /\ tickCounter \in Nat /\ TickRange \in Nat \ {0}
      /\ Wraps \/ tickCounter + 1 < TickRange
    BY DEF handleTick, TimersTypeOK, TimersAssumption
<1>2. /\ tickCounter' \in Nat /\ tickCounter' <= tickCounter + 1
      /\ ~ Wraps => tickCounter' = tickCounter + 1
    <2>1. nextTick \in Nat /\ nextTick <= tickCounter + 1
        BY <1>1, Quotients DEF nextTick
    <2>2. tickCounter + 1 < TickRange => nextTick = tickCounter + 1
        BY <1>1, SMT DEF nextTick
    <2> QED
        BY <1>1, <2>1, <2>2
<1>3. \/ updateTimerQueue(tickCounter')
      \/ /\ UNCHANGED <<pTimerList, timerExpiry>>
         /\ pTimerList # <<>> /\ enabled => tickCounter' < timerExpiry
    <2>1. timerExpiry \in Nat
        BY DEF TimersTypeOK
    <2> QED
        BY <1>1, <1>2, <2>1 DEF handleTick, checkTimerQueue
<1>4. /\ pTimerList' \in Seq(Timer) /\ timerExpiry' \in Nat
      /\ \E from :
            /\ Picks(pTimerList', pTimerList, from)
            /\ \A i \in 1 .. Len(pTimerList) :
                  \/ \E j \in 1 .. Len(pTimerList') : i = from[j]
                  \/ pTimerList[i].absoluteTime <= currentTime(tickCounter')
      /\ \/ /\ UNCHANGED <<pTimerList, timerExpiry>>
            /\ pTimerList # <<>> /\ enabled => tickCounter' < timerExpiry
         \/ pTimerList' # <<>> =>
              /\ currentTime(tickCounter') < pTimerList'[1].absoluteTime
              /\ (timerExpiry' - 1) * MILLIS_PER_TICK <= pTimerList'[1].absoluteTime
    <2>1. CASE updateTimerQueue(tickCounter')
        BY <1>2, <2>1, updateTimerQueue_Does
    <2>2. CASE /\ UNCHANGED <<pTimerList, timerExpiry>>
               /\ pTimerList # <<>> /\ enabled => tickCounter' < timerExpiry
        <3> DEFINE from == [i \in 1 .. Len(pTimerList) |-> i]
        <3>1. Picks(pTimerList', pTimerList, from)
            BY <2>2 DEF Picks
        <3>2. \A i \in 1 .. Len(pTimerList) : \E j \in 1 .. Len(pTimerList') : i = from[j]
            BY <2>2
        <3> HIDE DEF from
        <3> QED
            BY <2>2, <3>1, <3>2 DEF TimersTypeOK
    <2> QED
        BY <1>3, <2>1, <2>2
<1>5. /\ left' \in [Entry -> Int]
      /\ \A e \in EntriesIn(pTimerList') \cap Entry :
            left'[e] = IF left[e] > 0 \/ (enabled /\ left[e] > -MaxLate)
                       THEN left[e] - 1 ELSE left[e]
    BY DEF handleTick, TimersTypeOK
<1>6. \A i \in 1 .. Len(pTimerList') : pTimerList'[i].entry \in EntriesIn(pTimerList') \cap Entry
    <2>1. \A i \in 1 .. Len(pTimerList') : pTimerList'[i] \in Timer
        BY <1>4, ElementOfSeq
    <2>2. DOMAIN pTimerList' = 1 .. Len(pTimerList')
        BY <1>4
    <2> QED
        BY <2>1, <2>2 DEF EntriesIn, Timer
<1> QED
    BY <1>2, <1>4, <1>5, <1>6 DEF handleTick

-----------------------------------------------------------------------------
(* No timeout is cut short. *)

LEMMA TimersStep ==
    ASSUME TimersInv, TimersAssumption, [TimersNext]_timerVars
    PROVE  TimersInv'
<1> USE DEF TimersInv
<1> DEFINE M == MILLIS_PER_TICK
<1>1. /\ \A a, b \in Int : (a + b) * M = a * M + b * M
      /\ \A a, b \in Int : a <= b <=> a * M <= b * M
      /\ \A a \in Int : a * M \in Int
    BY Times DEF TimersAssumption
<1>2. \A i \in 1 .. Len(pTimerList) :
         /\ pTimerList[i].entry \in Entry
         /\ pTimerList[i].absoluteTime \in Nat
         /\ left[pTimerList[i].entry] \in Int
    <2>1. \A i \in 1 .. Len(pTimerList) : pTimerList[i] \in Timer
        BY ElementOfSeq DEF TimersTypeOK
    <2> QED
        BY <2>1 DEF Timer, TimersTypeOK
<1>3. ASSUME NEW e \in Entry, NEW interval \in Intervals, SetTimer(e, interval)
      PROVE  TimersInv'
    <2> DEFINE entry == [entry |-> e,
                         absoluteTime |-> currentTime(tickCounter) + interval]
               n == Len(pTimerList)
    <2>1. /\ \A i \in 1 .. n : pTimerList[i].entry # e
          /\ interval \in Nat /\ currentTime(tickCounter) \in Nat /\ entry \in Timer
          /\ left' \in [Entry -> Int] /\ left'[e] = TicksOf(interval)
          /\ \A d \in Entry \ {e} : left'[d] = left[d]
        BY <1>3, SetTimer_Does
    <2>2. /\ pTimerList' = addTimerCallback(entry)
          /\ UNCHANGED <<tickCounter, enabled>>
          /\ timerExpiry' \in {expiryAfter(tickCounter, interval), timerExpiry}
        BY <1>3 DEF SetTimer
    <2>3. TimersTypeOK'
        BY <2>1, <2>2, addTimerCallback_Does, expiryAfterIsEarly, ZenonT(60) DEF TimersTypeOK
    <2>4. PICK place \in 1 .. n + 1 :
             /\ Len(pTimerList') = n + 1 /\ pTimerList'[place] = entry
             /\ \A i \in 1 .. place - 1 : pTimerList'[i] = pTimerList[i]
             /\ \A i \in place + 1 .. n + 1 : pTimerList'[i] = pTimerList[i - 1]
        BY <2>1, <2>2, addTimerCallback_Does DEF TimersTypeOK
    <2>5. ASSUME TicksOf(interval) > 0
          PROVE  (tickCounter + TicksOf(interval) - 1) * M
                     < currentTime(tickCounter) + interval
        <3>1. TicksOf(interval) \in Nat /\ (TicksOf(interval) - 1) * M < interval
            BY <2>1, <2>5, TicksOfIsEnough
        <3>2. tickCounter \in Int /\ TicksOf(interval) - 1 \in Int
              /\ tickCounter + TicksOf(interval) - 1 = tickCounter + (TicksOf(interval) - 1)
            BY <3>1 DEF TimersTypeOK
        <3>3. (tickCounter + (TicksOf(interval) - 1)) * M
                  = currentTime(tickCounter) + (TicksOf(interval) - 1) * M
            BY <1>1, <3>2 DEF currentTime
        <3>4. (TicksOf(interval) - 1) * M \in Int
            BY <1>1, <3>2
        <3> HIDE DEF M
        <3> QED
            BY <2>1, <3>1, <3>2, <3>3, <3>4
    <2>6. EarlyInv'
        <3> SUFFICES ASSUME NEW i \in 1 .. Len(pTimerList'),
                            left'[pTimerList'[i].entry] > 0
                     PROVE  (tickCounter' + left'[pTimerList'[i].entry] - 1) * M
                                < pTimerList'[i].absoluteTime
            BY DEF EarlyInv
        <3>1. CASE i = place
            BY <2>1, <2>2, <2>4, <2>5, <3>1
        <3>2. CASE i # place
            <4>1. n \in Nat
                BY DEF TimersTypeOK
            <4>2. PICK j \in 1 .. n : pTimerList'[i] = pTimerList[j]
                <5>1. \/ i \in 1 .. place - 1 /\ i \in 1 .. n
                      \/ i \in place + 1 .. n + 1 /\ i - 1 \in 1 .. n
                    BY <2>4, <3>2, <4>1
                <5> QED
                    BY <2>4, <5>1
            <4>3. left'[pTimerList'[i].entry] = left[pTimerList[j].entry]
                BY <1>2, <2>1, <4>2
            <4> QED
                BY <2>2, <4>2, <4>3 DEF EarlyInv
        <3> QED
            BY <3>1, <3>2
    <2> QED
        BY <2>3, <2>6
<1>4. ASSUME NEW e \in Entry, removeTimerCallback(e)
      PROVE  TimersInv'
    <2>1. /\ pTimerList' \in Seq(Timer) /\ left' = [left EXCEPT ![e] = 0]
          /\ UNCHANGED <<tickCounter, timerExpiry, enabled>>
        BY <1>4, removeTimerCallback_Does
    <2>2. PICK from : Picks(pTimerList', pTimerList, from)
        BY <1>4, removeTimerCallback_Does
    <2>3. TimersTypeOK'
        BY <2>1 DEF TimersTypeOK
    <2>4. EarlyInv'
        <3> SUFFICES ASSUME NEW i \in 1 .. Len(pTimerList'),
                            left'[pTimerList'[i].entry] > 0
                     PROVE  (tickCounter' + left'[pTimerList'[i].entry] - 1) * M
                                < pTimerList'[i].absoluteTime
            BY DEF EarlyInv
        <3>1. from[i] \in 1 .. Len(pTimerList) /\ pTimerList'[i] = pTimerList[from[i]]
            BY <2>2 DEF Picks
        <3>2. left'[pTimerList'[i].entry] = left[pTimerList[from[i]].entry]
            BY <1>2, <2>1, <3>1 DEF TimersTypeOK
        <3> QED
            BY <2>1, <3>1, <3>2 DEF EarlyInv
    <2> QED
        BY <2>3, <2>4
<1>5. ASSUME handleTick
      PROVE  TimersInv'
    <2>1. /\ tickCounter' \in Nat /\ tickCounter' <= tickCounter + 1
          /\ pTimerList' \in Seq(Timer) /\ timerExpiry' \in Nat
          /\ UNCHANGED enabled /\ left' \in [Entry -> Int]
        BY <1>5, handleTick_Does
    <2>2. \A i \in 1 .. Len(pTimerList') :
             LET e == pTimerList'[i].entry
             IN  left'[e] = IF left[e] > 0 \/ (enabled /\ left[e] > -MaxLate)
                            THEN left[e] - 1 ELSE left[e]
        BY <1>5, handleTick_Does
    <2>3. PICK from : Picks(pTimerList', pTimerList, from)
        BY <1>5, handleTick_Does
    <2>4. TimersTypeOK'
        BY <2>1 DEF TimersTypeOK
    <2>5. EarlyInv'
        <3> SUFFICES ASSUME NEW i \in 1 .. Len(pTimerList'),
                            left'[pTimerList'[i].entry] > 0
                     PROVE  (tickCounter' + left'[pTimerList'[i].entry] - 1) * M
                                < pTimerList'[i].absoluteTime
            BY DEF EarlyInv
        <3> DEFINE l == left[pTimerList[from[i]].entry]
        <3>1. from[i] \in 1 .. Len(pTimerList) /\ pTimerList'[i] = pTimerList[from[i]]
            BY <2>3 DEF Picks
        <3>2. l \in Int /\ l > 1 /\ left'[pTimerList'[i].entry] = l - 1
            BY <1>2, <2>2, <3>1 DEF TimersAssumption
        <3>3. (tickCounter + l - 1) * M < pTimerList[from[i]].absoluteTime
            BY <3>1, <3>2 DEF EarlyInv
        <3>4. pTimerList[from[i]].absoluteTime \in Nat
            BY <1>2, <3>1
        <3> HIDE DEF l
        <3>5. /\ tickCounter' + (l - 1) - 1 \in Int /\ tickCounter + l - 1 \in Int
              /\ tickCounter' + (l - 1) - 1 <= tickCounter + l - 1
            <4>1. tickCounter \in Nat
                BY DEF TimersTypeOK
            <4>2. tickCounter' \in Nat /\ tickCounter' <= tickCounter + 1
                BY <2>1
            <4>3. l \in Int /\ l > 1
                BY <3>2
            <4>4. \A now, before, ticks \in Int :
                     now <= before + 1 => now + (ticks - 1) - 1 <= before + ticks - 1
                OBVIOUS
            <4>5. tickCounter' \in Int /\ tickCounter \in Int
                BY <4>1, <4>2
            <4>6. tickCounter' + (l - 1) - 1 <= tickCounter + l - 1
                BY <4>2, <4>3, <4>4, <4>5
            <4>7. tickCounter' + (l - 1) - 1 \in Int /\ tickCounter + l - 1 \in Int
                BY <4>3, <4>5
            <4> QED
                BY <4>6, <4>7
        <3>6. (tickCounter' + (l - 1) - 1) * M <= (tickCounter + l - 1) * M
            BY <1>1, <3>5
        <3>7. (tickCounter' + (l - 1) - 1) * M \in Int /\ (tickCounter + l - 1) * M \in Int
            BY <1>1, <3>5
        <3> HIDE DEF M
        <3> QED
            BY <3>1, <3>2, <3>3, <3>4, <3>6, <3>7
    <2> QED
        BY <2>4, <2>5
<1>6. ASSUME UNCHANGED <<tickCounter, pTimerList, timerExpiry, left>>, enabled' \in BOOLEAN
      PROVE  TimersInv'
    BY <1>6 DEF TimersTypeOK, EarlyInv
<1>7. CASE disableRescheduler \/ enableRescheduler \/ UNCHANGED timerVars
    BY <1>6, <1>7 DEF disableRescheduler, enableRescheduler, timerVars, TimersTypeOK
<1> QED
    BY <1>3, <1>4, <1>5, <1>7 DEF TimersNext

\* The types and EarlyInv hold for every value of the constants, whether or not the
\* tick counter overflows: with ticks left, all but one of them are not enough.
THEOREM TimersInvariance == TimersAssumption => (TimersSpec => []TimersInv)
<1> SUFFICES ASSUME TimersAssumption PROVE TimersSpec => []TimersInv
    OBVIOUS
<1>1. TimersInit => TimersInv
    BY DEF TimersInit, TimersInv, TimersTypeOK, EarlyInv, TimersAssumption
<1>2. TimersInv /\ [TimersNext]_timerVars => TimersInv'
    BY TimersStep
<1> QED
    BY <1>1, <1>2, PTL DEF TimersSpec

\* A tick calls an entry back only when the ticks its timeout takes have passed, whatever
\* else was set or removed meanwhile, also when the tick counter overflows.
THEOREM TimeoutsAreNotCutShort == TimersAssumption => (TimersSpec => NeverEarly)
<1> SUFFICES ASSUME TimersAssumption PROVE TimersSpec => NeverEarly
    OBVIOUS
<1>1. ASSUME TimersInv, [TimersNext]_timerVars
      PROVE  [\A e \in EntriesIn(pTimerList) :
                tickCounter' # tickCounter /\ e \notin EntriesIn(pTimerList')
                    => left[e] <= 1]_timerVars
    <2> USE DEF TimersInv
    <2> DEFINE M == MILLIS_PER_TICK
    <2> SUFFICES ASSUME NEW e \in EntriesIn(pTimerList), tickCounter' # tickCounter,
                        e \notin EntriesIn(pTimerList')
                 PROVE  left[e] <= 1
        OBVIOUS
    <2>1. handleTick
        BY <1>1 DEF TimersNext, SetTimer, removeTimerCallback, disableRescheduler,
                    enableRescheduler, timerVars
    <2>2. PICK from :
             /\ Picks(pTimerList', pTimerList, from)
             /\ \A i \in 1 .. Len(pTimerList) :
                   \/ \E j \in 1 .. Len(pTimerList') : i = from[j]
                   \/ pTimerList[i].absoluteTime <= currentTime(tickCounter')
        BY <1>1, <2>1, handleTick_Does
    <2>3. PICK i \in 1 .. Len(pTimerList) : e = pTimerList[i].entry
        BY DEF EntriesIn, TimersTypeOK
    <2>4. pTimerList[i].absoluteTime <= tickCounter' * M
        <3>1. \A j \in 1 .. Len(pTimerList') : pTimerList'[j].entry # e
            <4>1. DOMAIN pTimerList' = 1 .. Len(pTimerList')
                BY <1>1, <2>1, handleTick_Does
            <4> QED
                BY <4>1 DEF EntriesIn
        <3>2. \A j \in 1 .. Len(pTimerList') : i # from[j]
            BY <2>2, <2>3, <3>1 DEF Picks
        <3> QED
            BY <2>2, <3>2 DEF currentTime
    <2>5. tickCounter' \in Nat /\ tickCounter' <= tickCounter + 1 /\ tickCounter \in Nat
        BY <1>1, <2>1, handleTick_Does DEF TimersTypeOK
    <2>6. left[e] \in Int /\ pTimerList[i].absoluteTime \in Nat
        <3>1. pTimerList[i] \in Timer
            BY <1>1, <2>3, ElementOfSeq DEF TimersTypeOK
        <3> QED
            BY <1>1, <2>3, <3>1 DEF Timer, TimersTypeOK
    <2>7. ASSUME left[e] > 1
          PROVE  FALSE
        <3> DEFINE x == tickCounter + left[e] - 1
        <3>1. x * M < pTimerList[i].absoluteTime
            BY <1>1, <2>3, <2>6, <2>7 DEF EarlyInv
        <3>2. x \in Int /\ tickCounter' \in Int /\ tickCounter' <= x
            BY <2>5, <2>6, <2>7
        <3> HIDE DEF x
        <3>3. tickCounter' * M <= x * M /\ tickCounter' * M \in Int /\ x * M \in Int
            BY <3>2, Times DEF TimersAssumption
        <3> HIDE DEF M
        <3> QED
            BY <2>4, <2>6, <3>1, <3>3
    <2> QED
        BY <2>6, <2>7
<1> QED
    BY <1>1, TimersInvariance, PTL DEF TimersSpec, NeverEarly

-----------------------------------------------------------------------------
(* No callback is late. *)

LEMMA SetTimerLate ==
    ASSUME LatenessInv, TimersAssumption,
           NEW e \in Entry, NEW interval \in Intervals, SetTimer(e, interval), TimersInv'
    PROVE  LatenessInv'
<1> USE DEF LatenessInv, TimersInv
<1> DEFINE M == MILLIS_PER_TICK
           now == currentTime(tickCounter)
           entry == [entry |-> e, absoluteTime |-> now + interval]
           n == Len(pTimerList)
<1>1. /\ \A i \in 1 .. n : pTimerList[i].entry # e
      /\ interval \in Nat /\ now \in Nat /\ entry \in Timer
      /\ left' \in [Entry -> Int] /\ left'[e] = TicksOf(interval)
      /\ \A d \in Entry \ {e} : left'[d] = left[d]
    BY SetTimer_Does
<1>2. /\ pTimerList' = addTimerCallback(entry)
      /\ UNCHANGED <<tickCounter, enabled>>
      /\ timerExpiry' = IF Head(pTimerList').entry = e
                        THEN expiryAfter(tickCounter, interval) ELSE timerExpiry
    BY DEF SetTimer
<1>3. PICK place \in 1 .. n + 1 :
         /\ Len(pTimerList') = n + 1 /\ pTimerList'[place] = entry
         /\ \A i \in 1 .. place - 1 :
               /\ pTimerList'[i] = pTimerList[i]
               /\ pTimerList'[i].absoluteTime <= entry.absoluteTime
         /\ \A i \in place + 1 .. n + 1 :
               /\ pTimerList'[i] = pTimerList[i - 1]
               /\ entry.absoluteTime <= pTimerList'[i].absoluteTime
    <2>1. QueueIsSorted /\ pTimerList \in Seq(Timer)
        BY DEF TimersTypeOK
    <2>2. entry \in Timer /\ pTimerList' = addTimerCallback(entry)
        BY <1>1, <1>2
    <2> HIDE DEF entry, LatenessInv, TimersInv
    <2> QED
        BY <2>1, <2>2, addTimerCallback_Does
<1>4. /\ n \in Nat /\ tickCounter \in Nat
      /\ entry.entry = e /\ entry.absoluteTime = now + interval
    BY DEF TimersTypeOK
<1> HIDE DEF entry, n
<1>5. /\ \A i \in 1 .. n : /\ pTimerList[i].entry \in Entry
                          /\ pTimerList[i].absoluteTime \in Nat
      /\ \A i, j \in 1 .. n : i < j =>
            pTimerList[i].absoluteTime <= pTimerList[j].absoluteTime
      /\ \A i \in 1 .. n + 1 : pTimerList'[i].absoluteTime \in Nat
      /\ DOMAIN pTimerList' = 1 .. n + 1
    <2>1. \A i \in 1 .. n : pTimerList[i] \in Timer
        BY ElementOfSeq DEF TimersTypeOK, n
    <2>2. \A i \in 1 .. n + 1 : pTimerList'[i] \in Timer
        BY <1>3, ElementOfSeq DEF TimersTypeOK
    <2>3. DOMAIN pTimerList = 1 .. n /\ DOMAIN pTimerList' = 1 .. n + 1
        BY <1>3 DEF TimersTypeOK, n
    <2> QED
        BY <2>1, <2>2, <2>3 DEF Timer, QueueIsSorted
<1>6. \A i \in 1 .. n + 1 :
         \/ i < place /\ i \in 1 .. place - 1 /\ i \in 1 .. n
         \/ i = place
         \/ i > place /\ i \in place + 1 .. n + 1 /\ i - 1 \in 1 .. n
    BY <1>4
<1>7. QueueIsSorted'
    <2> SUFFICES ASSUME NEW i \in 1 .. n + 1, NEW j \in 1 .. n + 1, i < j
                 PROVE  pTimerList'[i].absoluteTime <= pTimerList'[j].absoluteTime
        BY <1>5 DEF QueueIsSorted
    <2>1. CASE j = place
        BY <1>3, <1>6, <2>1
    <2>2. CASE i = place
        BY <1>3, <1>6, <2>2
    <2>3. CASE j < place
        BY <1>3, <1>4, <1>5, <1>6, <2>3
    <2>4. CASE i > place
        <3>1. i - 1 \in 1 .. n /\ j - 1 \in 1 .. n /\ i - 1 < j - 1
              /\ pTimerList'[i] = pTimerList[i - 1] /\ pTimerList'[j] = pTimerList[j - 1]
            BY <1>3, <1>4, <1>6, <2>4
        <3> QED
            BY <1>5, <3>1
    <2>5. CASE i < place /\ j > place
        <3>1. /\ pTimerList'[i].absoluteTime <= entry.absoluteTime
              /\ entry.absoluteTime <= pTimerList'[j].absoluteTime
            BY <1>3, <1>6, <2>5
        <3>2. entry.absoluteTime \in Nat
            BY <1>3, <1>5
        <3> QED
            BY <1>5, <3>1, <3>2
    <2> QED
        BY <2>1, <2>2, <2>3, <2>4, <2>5
<1>8. UniqueInv'
    <2> SUFFICES ASSUME NEW i \in 1 .. n + 1, NEW j \in 1 .. n + 1,
                        pTimerList'[i].entry = pTimerList'[j].entry
                 PROVE  i = j
        BY <1>3 DEF UniqueInv
    <2> DEFINE old(k) == IF k < place THEN k ELSE k - 1
    <2>1. \A k \in 1 .. n + 1 :
             k # place => old(k) \in 1 .. n /\ pTimerList'[k] = pTimerList[old(k)]
        BY <1>3, <1>4, <1>6
    <2>2. \A k \in 1 .. n + 1 : pTimerList'[k].entry = e => k = place
        BY <1>1, <2>1 DEF n
    <2>3. CASE i = place \/ j = place
        BY <1>3, <1>4, <2>2, <2>3
    <2>4. CASE i # place /\ j # place
        <3>1. old(i) = old(j)
            BY <2>1, <2>4 DEF UniqueInv, n
        <3> QED
            BY <1>4, <2>4, <3>1
    <2> QED
        BY <2>3, <2>4
<1>9. ExpiryInv'
    <2>1. pTimerList' # <<>> /\ Head(pTimerList') = pTimerList'[1]
        BY <1>3, <1>4 DEF TimersTypeOK
    <2>2. CASE place = 1
        <3>1. timerExpiry' = expiryAfter(tickCounter, interval)
            BY <1>2, <1>3, <1>4, <2>1, <2>2
        <3> QED
            BY <1>1, <1>3, <1>4, <2>2, <3>1, expiryAfterIsEarly DEF ExpiryInv
    <2>3. CASE place # 1
        <3>1. 1 \in 1 .. place - 1 /\ 1 \in 1 .. n
            BY <1>4, <2>3
        <3>2. pTimerList'[1] = pTimerList[1]
            BY <1>3, <3>1
        <3>3. timerExpiry' = timerExpiry
            BY <1>1, <1>2, <2>1, <3>1, <3>2 DEF n
        <3>4. pTimerList # <<>>
            BY <3>1 DEF n
        <3> QED
            BY <3>2, <3>3, <3>4 DEF ExpiryInv
    <2> QED
        BY <2>2, <2>3
<1>10. LateInv'
    <2>1. /\ TicksOf(interval) >= 0
          /\ now + interval <= (tickCounter + TicksOf(interval)) * M
        <3>1. /\ TicksOf(interval) \in Nat /\ interval <= TicksOf(interval) * M
            BY <1>1, TicksOfIsEnough
        <3>2. (tickCounter + TicksOf(interval)) * M = now + TicksOf(interval) * M
            BY <1>4, <3>1, Times DEF TimersAssumption, currentTime
        <3>3. TicksOf(interval) * M \in Int
            BY <3>1, Times DEF TimersAssumption
        <3> HIDE DEF M, now
        <3> QED
            BY <1>1, <3>1, <3>2, <3>3
    <2> SUFFICES ASSUME NEW i \in 1 .. n + 1
                 PROVE  /\ left'[pTimerList'[i].entry] >= 0
                        /\ pTimerList'[i].absoluteTime
                              <= (tickCounter' + left'[pTimerList'[i].entry]) * M
        BY <1>3 DEF LateInv
    <2>2. CASE i = place
        BY <1>1, <1>2, <1>3, <1>4, <2>1, <2>2
    <2>3. CASE i # place
        <3>1. PICK j \in 1 .. n : pTimerList'[i] = pTimerList[j]
            BY <1>3, <1>6, <2>3
        <3>2. left'[pTimerList'[i].entry] = left[pTimerList[j].entry]
            BY <1>1, <1>5, <3>1 DEF n
        <3> QED
            BY <1>2, <3>1, <3>2 DEF LateInv, n
    <2> QED
        BY <2>2, <2>3
<1> QED
    BY <1>7, <1>8, <1>9, <1>10

\* What removal leaves of a sorted queue is sorted.
LEMMA PickedKeeps ==
    ASSUME LatenessInv, TimersInv', NEW from, Picks(pTimerList', pTimerList, from)
    PROVE  /\ QueueIsSorted' /\ UniqueInv'
           /\ pTimerList' # <<>> =>
                 /\ pTimerList # <<>>
                 /\ pTimerList[1].absoluteTime <= pTimerList'[1].absoluteTime
           /\ \A i \in 1 .. Len(pTimerList') :
                 /\ from[i] \in 1 .. Len(pTimerList)
                 /\ pTimerList'[i] = pTimerList[from[i]]
<1> USE DEF LatenessInv, TimersInv
<1> DEFINE n == Len(pTimerList)
           k == Len(pTimerList')
<1>1. /\ n \in Nat /\ k \in Nat /\ DOMAIN pTimerList = 1 .. n /\ DOMAIN pTimerList' = 1 .. k
      /\ pTimerList' # <<>> <=> k # 0
      /\ pTimerList # <<>> <=> n # 0
    BY DEF TimersTypeOK
<1>2. \A i \in 1 .. n : pTimerList[i].absoluteTime \in Nat
    <2>1. \A i \in 1 .. n : pTimerList[i] \in Timer
        BY ElementOfSeq DEF TimersTypeOK
    <2> QED
        BY <2>1 DEF Timer
<1>3. /\ \A i \in 1 .. k : from[i] \in 1 .. n /\ pTimerList'[i] = pTimerList[from[i]]
      /\ \A i, j \in 1 .. k : i < j => from[i] < from[j]
    BY DEF Picks
<1>4. \A i, j \in 1 .. n : i < j => pTimerList[i].absoluteTime <= pTimerList[j].absoluteTime
    BY <1>1 DEF QueueIsSorted
<1> HIDE DEF n, k
<1>5. QueueIsSorted'
    BY <1>1, <1>3, <1>4 DEF QueueIsSorted
<1>6. UniqueInv'
    <2> SUFFICES ASSUME NEW i \in 1 .. k, NEW j \in 1 .. k,
                        pTimerList'[i].entry = pTimerList'[j].entry
                 PROVE  i = j
        BY DEF UniqueInv, k
    <2>1. from[i] = from[j]
        BY <1>3 DEF UniqueInv, n
    <2> QED
        BY <1>1, <1>3, <2>1
<1>7. ASSUME k # 0
      PROVE  n # 0 /\ pTimerList[1].absoluteTime <= pTimerList'[1].absoluteTime
    <2>1. 1 \in 1 .. k /\ from[1] \in 1 .. n /\ pTimerList'[1] = pTimerList[from[1]]
        BY <1>1, <1>3, <1>7
    <2>2. 1 \in 1 .. n /\ (from[1] = 1 \/ 1 < from[1])
        BY <1>1, <2>1
    <2> QED
        BY <1>2, <1>4, <2>1, <2>2
<1> QED
    BY <1>1, <1>3, <1>5, <1>6, <1>7 DEF n, k

LEMMA removeTimerCallbackLate ==
    ASSUME LatenessInv, TimersAssumption, NEW e \in Entry, removeTimerCallback(e), TimersInv'
    PROVE  LatenessInv'
<1> USE DEF LatenessInv, TimersInv
<1>1. /\ \A i \in 1 .. Len(pTimerList') : pTimerList'[i].entry # e
      /\ left' = [left EXCEPT ![e] = 0]
      /\ UNCHANGED <<tickCounter, timerExpiry, enabled>>
    BY removeTimerCallback_Does
<1>2. PICK from : Picks(pTimerList', pTimerList, from)
    BY removeTimerCallback_Does
<1>3. /\ QueueIsSorted' /\ UniqueInv'
      /\ pTimerList' # <<>> =>
            /\ pTimerList # <<>>
            /\ pTimerList[1].absoluteTime <= pTimerList'[1].absoluteTime
      /\ \A i \in 1 .. Len(pTimerList') :
            /\ from[i] \in 1 .. Len(pTimerList)
            /\ pTimerList'[i] = pTimerList[from[i]]
    BY <1>2, PickedKeeps
<1>4. ExpiryInv'
    <2> SUFFICES ASSUME pTimerList' # <<>>
                 PROVE  (timerExpiry' - 1) * MILLIS_PER_TICK <= pTimerList'[1].absoluteTime
        BY DEF ExpiryInv
    <2>1. (timerExpiry - 1) * MILLIS_PER_TICK <= pTimerList[1].absoluteTime
        BY <1>3 DEF ExpiryInv
    <2>2. (timerExpiry - 1) * MILLIS_PER_TICK \in Int
        BY Times DEF TimersTypeOK, TimersAssumption
    <2>3. pTimerList[1].absoluteTime \in Nat /\ pTimerList'[1].absoluteTime \in Nat
        <3>1. pTimerList[1] \in Timer /\ pTimerList'[1] \in Timer
            BY <1>3 DEF TimersTypeOK
        <3> QED
            BY <3>1 DEF Timer
    <2> QED
        BY <1>1, <1>3, <2>1, <2>2, <2>3
<1>5. LateInv'
    <2> SUFFICES ASSUME NEW i \in 1 .. Len(pTimerList')
                 PROVE  /\ left'[pTimerList'[i].entry] >= 0
                        /\ pTimerList'[i].absoluteTime
                              <= (tickCounter' + left'[pTimerList'[i].entry]) * MILLIS_PER_TICK
        BY DEF LateInv
    <2>1. left'[pTimerList'[i].entry] = left[pTimerList[from[i]].entry]
        <3>1. pTimerList[from[i]] \in Timer
            BY <1>3, ElementOfSeq DEF TimersTypeOK
        <3>2. pTimerList[from[i]].entry \in Entry \ {e}
            BY <1>1, <1>3, <3>1 DEF Timer
        <3> QED
            BY <1>1, <1>3, <3>2 DEF TimersTypeOK
    <2> QED
        BY <1>1, <1>3, <2>1 DEF LateInv
<1> QED
    BY <1>3, <1>4, <1>5

LEMMA handleTickLate ==
    ASSUME LatenessInv, TimersAssumption, ~ Wraps, handleTick, TimersInv'
    PROVE  LatenessInv'
<1> USE DEF LatenessInv, TimersInv
<1> DEFINE M == MILLIS_PER_TICK
<1>1. /\ tickCounter' = tickCounter + 1 /\ tickCounter \in Nat
      /\ timerExpiry' \in Nat /\ timerExpiry \in Nat
      /\ UNCHANGED enabled
    BY handleTick_Does DEF TimersTypeOK
<1>2. \A i \in 1 .. Len(pTimerList') :
         LET e == pTimerList'[i].entry
         IN  left'[e] = IF left[e] > 0 \/ (enabled /\ left[e] > -MaxLate)
                        THEN left[e] - 1 ELSE left[e]
    BY handleTick_Does
<1>3. \/ /\ UNCHANGED <<pTimerList, timerExpiry>>
         /\ pTimerList # <<>> /\ enabled => tickCounter' < timerExpiry
      \/ pTimerList' # <<>> =>
           /\ currentTime(tickCounter') < pTimerList'[1].absoluteTime
           /\ (timerExpiry' - 1) * M <= pTimerList'[1].absoluteTime
    BY handleTick_Does
<1>4. PICK from : Picks(pTimerList', pTimerList, from)
    BY handleTick_Does
<1>5. /\ QueueIsSorted' /\ UniqueInv'
      /\ \A i \in 1 .. Len(pTimerList') :
            /\ from[i] \in 1 .. Len(pTimerList)
            /\ pTimerList'[i] = pTimerList[from[i]]
    BY <1>4, PickedKeeps
<1>6. ExpiryInv'
    BY <1>3 DEF ExpiryInv
<1>7. /\ \A a, b \in Int : (a + b) * M = a * M + b * M
      /\ \A a, b \in Int : a <= b <=> a * M <= b * M
      /\ \A a, b \in Int : a < b <=> a * M < b * M
      /\ \A a \in Int : a * M \in Int
    BY Times DEF TimersAssumption
<1>8. LateInv'
    <2> SUFFICES ASSUME NEW i \in 1 .. Len(pTimerList')
                 PROVE  /\ left'[pTimerList'[i].entry] >= 0
                        /\ pTimerList'[i].absoluteTime
                              <= (tickCounter' + left'[pTimerList'[i].entry]) * M
        BY DEF LateInv
    <2> DEFINE l == left[pTimerList'[i].entry]
               d == left'[pTimerList'[i].entry]
               time == pTimerList'[i].absoluteTime
               start == pTimerList'[1].absoluteTime
    <2>1. /\ l \in Int /\ l >= 0 /\ time <= (tickCounter + l) * M
        <3>1. pTimerList'[i] = pTimerList[from[i]] /\ from[i] \in 1 .. Len(pTimerList)
            BY <1>5
        <3>2. pTimerList[from[i]] \in Timer
            BY <3>1, ElementOfSeq DEF TimersTypeOK
        <3> QED
            BY <3>1, <3>2 DEF LateInv, Timer, TimersTypeOK
    <2>2. d = IF l > 0 \/ (enabled /\ l > -MaxLate) THEN l - 1 ELSE l
        BY <1>2
    <2>3. /\ pTimerList' # <<>> /\ 1 \in 1 .. Len(pTimerList')
          /\ time \in Nat /\ start \in Nat /\ start <= time
        <3>1. /\ 1 \in 1 .. Len(pTimerList') /\ DOMAIN pTimerList' = 1 .. Len(pTimerList')
              /\ pTimerList' # <<>>
            BY DEF TimersTypeOK
        <3>2. pTimerList'[1] \in Timer /\ pTimerList'[i] \in Timer
            BY <3>1, ElementOfSeq DEF TimersTypeOK
        <3>3. time \in Nat /\ start \in Nat
            BY <3>2 DEF Timer
        <3>4. i = 1 \/ 1 < i
            BY <3>1
        <3> QED
            BY <1>5, <3>1, <3>3, <3>4 DEF QueueIsSorted
    <2>4. ASSUME enabled, l = 0
          PROVE  FALSE
        <3>1. time <= tickCounter * M
            BY <1>1, <2>1, <2>4
        <3>2. tickCounter * M < (tickCounter + 1) * M
            <4>1. tickCounter \in Int /\ tickCounter + 1 \in Int /\ tickCounter < tickCounter + 1
                BY <1>1
            <4> HIDE DEF M
            <4> QED
                BY <1>7, <4>1
        <3>3. tickCounter * M \in Int /\ (tickCounter + 1) * M \in Int
              /\ (timerExpiry - 1) * M \in Int
            <4>1. tickCounter \in Int /\ tickCounter + 1 \in Int /\ timerExpiry - 1 \in Int
                BY <1>1
            <4> HIDE DEF M
            <4> QED
                BY <1>7, <4>1
        <3>4. CASE /\ UNCHANGED <<pTimerList, timerExpiry>>
                   /\ pTimerList # <<>> /\ enabled => tickCounter' < timerExpiry
            <4>1. tickCounter + 1 <= timerExpiry - 1 /\ (timerExpiry - 1) * M <= start
                BY <1>1, <2>3, <2>4, <3>4 DEF ExpiryInv
            <4>2. (tickCounter + 1) * M <= (timerExpiry - 1) * M
                <5>1. tickCounter + 1 \in Int /\ timerExpiry - 1 \in Int
                    BY <1>1
                <5> HIDE DEF M
                <5> QED
                    BY <1>7, <4>1, <5>1
            <4> HIDE DEF M, time, start
            <4> QED
                BY <2>3, <3>1, <3>2, <3>3, <4>1, <4>2
        <3>5. CASE currentTime(tickCounter') < start
            <4>1. (tickCounter + 1) * M < start
                BY <1>1, <3>5 DEF currentTime
            <4> HIDE DEF M, time, start
            <4> QED
                BY <2>3, <3>1, <3>2, <3>3, <4>1
        <3> QED
            BY <1>3, <2>3, <3>4, <3>5
    <2> HIDE DEF l, d, time, M
    <2>5. d \in Int /\ d >= 0 /\ tickCounter + l <= tickCounter' + d
        BY <1>1, <2>1, <2>2, <2>4
    <2>6. (tickCounter + l) * M <= (tickCounter' + d) * M
        BY <1>1, <1>7, <2>1, <2>5
    <2>7. (tickCounter + l) * M \in Int /\ (tickCounter' + d) * M \in Int
        BY <1>1, <1>7, <2>1, <2>5
    <2> QED
        BY <2>1, <2>3, <2>5, <2>6, <2>7 DEF d, time, M
<1> QED
    BY <1>5, <1>6, <1>8

\* While the tick counter does not overflow: the queue stays sorted, timerExpiry is never
\* past the tick after the one its first entry is due in, and no more ticks of a timeout
\* are counted down than have passed.
THEOREM LatenessInvariance == TimersAssumption /\ ~ Wraps => (TimersSpec => []LatenessInv)
<1> SUFFICES ASSUME TimersAssumption, ~ Wraps PROVE TimersSpec => []LatenessInv
    OBVIOUS
<1>1. TimersInit => LatenessInv
    BY DEF TimersInit, LatenessInv, TimersInv, TimersTypeOK, EarlyInv, UniqueInv, QueueIsSorted,
           ExpiryInv, LateInv, TimersAssumption
<1>2. LatenessInv /\ [TimersNext]_timerVars => LatenessInv'
    <2> SUFFICES ASSUME LatenessInv, [TimersNext]_timerVars PROVE LatenessInv'
        OBVIOUS
    <2>1. TimersInv'
        BY TimersStep DEF LatenessInv
    <2>2. CASE UNCHANGED <<tickCounter, pTimerList, timerExpiry, left>>
        BY <2>1, <2>2 DEF LatenessInv, UniqueInv, QueueIsSorted, ExpiryInv, LateInv
    <2> QED
        BY <2>1, <2>2, SetTimerLate, removeTimerCallbackLate, handleTickLate
        DEF TimersNext, disableRescheduler, enableRescheduler, timerVars
<1> QED
    BY <1>1, <1>2, PTL DEF TimersSpec

\* The tick at which a timeout is over is the only one that may be handled without
\* calling the entry back, although the queue is looked at only when the tick counter has
\* reached timerExpiry, and timerExpiry is not computed again when the first entry goes.
THEOREM CallbacksAreOnTime == TimersAssumption /\ ~ Wraps => (TimersSpec => []AtMostOneTickLate)
<1> SUFFICES ASSUME TimersAssumption, ~ Wraps PROVE TimersSpec => []AtMostOneTickLate
    OBVIOUS
<1>1. LatenessInv => AtMostOneTickLate
    <2> SUFFICES ASSUME LatenessInv, NEW e \in EntriesIn(pTimerList) PROVE left[e] >= 0
        BY DEF AtMostOneTickLate
    <2>1. DOMAIN pTimerList = 1 .. Len(pTimerList)
        BY DEF LatenessInv, TimersInv, TimersTypeOK
    <2> QED
        BY <2>1 DEF EntriesIn, LatenessInv, LateInv
<1> QED
    BY <1>1, LatenessInvariance, PTL

============================================================================
