------------------------------- MODULE Timers --------------------------------
(***************************************************************************)
(* Time in the preemptive kernel: the timer queue of lib/src/thread/timer.c *)
(* with its times, the tick of lib/src/ps/x86/psTime.c that drives it, and  *)
(* the integers they are kept in.  Module Scheduler models what the         *)
(* callbacks do and leaves the times out; this one does the opposite.       *)
(*                                                                         *)
(* Times are 64-bit counts of milliseconds (pstime) and never overflow; the *)
(* tick counter they are computed from has 32 bits and does.                *)
(***************************************************************************)
EXTENDS Integers, Sequences, SequencesExt

CONSTANTS
    Entry,           \* the timer queue entries: the queueStruct of each thread
    Intervals,       \* the timeouts, in milliseconds, the entries are set with
    MILLIS_PER_TICK,
    TickRange,       \* 2^32: a UINT32 tick count is kept modulo TickRange
    MillisRange,     \* 2^32: getTickCount casts milliseconds to a UINT32
    Wraps,           \* bound: may the tick counter pass its range
    MaxLate          \* bound: the ticks by which a callback is late, as far as counted

TimersAssumption ==
    /\ Intervals \subseteq Nat
    /\ MILLIS_PER_TICK \in Nat \ {0}
    /\ TickRange \in Nat \ {0}
    /\ MillisRange \in Nat \ {0}
    /\ Wraps \in BOOLEAN
    /\ MaxLate \in Nat

VARIABLES
    tickCounter,
    timerExpiry,     \* the tick at which checkTimerQueue next looks at the queue
    pTimerList,      \* the queue, first first: each an entry and its absoluteTime
    enabled,         \* reschedulerEnabledIndicator = 0
    left             \* entry -> the ticks until its timeout is over; from then on,
                     \* minus the ticks handled without its callback

timerVars == <<tickCounter, timerExpiry, pTimerList, enabled, left>>

EntriesIn(queue) == {queue[i].entry : i \in DOMAIN queue}

\* psGetCurrentTimeInMillis
currentTime(ticks) == ticks * MILLIS_PER_TICK

\* The whole ticks in which a timeout of so many milliseconds is over.
TicksOf(millis) == (millis + MILLIS_PER_TICK - 1) \div MILLIS_PER_TICK

getTickCount_late(millis) == (millis % MillisRange) \div MILLIS_PER_TICK + 2
getTickCount(millis) == (millis % MillisRange) \div MILLIS_PER_TICK + 1

expiryAfter(ticks, millis) == (ticks + getTickCount(millis)) % TickRange

\* timerComparator: before the first entry that is due later.
addTimerCallback(entry) ==
    LET place == SelectInSeq(pTimerList, LAMBDA x : entry.absoluteTime < x.absoluteTime)
    IN  IF place = 0 THEN Append(pTimerList, entry)
                     ELSE InsertAt(pTimerList, place, entry)

\* initializeTimerCallback and setTimerCallback; timerExpiry follows the first entry.
SetTimer(e, interval) ==
    /\ e \notin EntriesIn(pTimerList)
    /\ pTimerList' = addTimerCallback(
           [entry |-> e, absoluteTime |-> currentTime(tickCounter) + interval])
    /\ timerExpiry' = IF Head(pTimerList').entry = e THEN expiryAfter(tickCounter, interval)
                                                     ELSE timerExpiry
    /\ left' = [left EXCEPT ![e] = TicksOf(interval)]
    /\ UNCHANGED <<tickCounter, enabled>>

\* A notification before the time is over; timerExpiry is left alone.
removeTimerCallback(e) ==
    /\ e \in EntriesIn(pTimerList)
    /\ pTimerList' = RemoveFirstMatch(pTimerList, LAMBDA x : x.entry = e)
    /\ left' = [left EXCEPT ![e] = 0]
    /\ UNCHANGED <<tickCounter, timerExpiry, enabled>>

due_roundedDown(x, now) == x.absoluteTime \div MILLIS_PER_TICK <= now \div MILLIS_PER_TICK
due(x, now) == ~(now < x.absoluteTime)

\* The loop takes entries off the front of the queue up to the first that is not due,
\* and the next look at the queue is set for that one.
updateTimerQueue(ticks) ==
    LET now   == currentTime(ticks)
        first == SelectInSeq(pTimerList, LAMBDA x : ~due(x, now))
    IN  IF first = 0
        THEN pTimerList' = <<>> /\ UNCHANGED timerExpiry
        ELSE /\ pTimerList' = SubSeq(pTimerList, first, Len(pTimerList))
             /\ timerExpiry' = expiryAfter(ticks, pTimerList[first].absoluteTime - now)

checkTimerQueue(ticks) ==
    IF pTimerList # <<>> /\ ticks >= timerExpiry
    THEN updateTimerQueue(ticks)
    ELSE UNCHANGED <<pTimerList, timerExpiry>>

nextTick == (tickCounter + 1) % TickRange

\* Both kinds of context switch of a handled tick look at the timer queue first.
\* While the rescheduler is disabled a tick only counts.
handleTick ==
    /\ Wraps \/ tickCounter + 1 < TickRange
    /\ tickCounter' = nextTick
    /\ IF enabled THEN checkTimerQueue(nextTick) ELSE UNCHANGED <<pTimerList, timerExpiry>>
    /\ left' = [e \in Entry |->
           IF e \notin EntriesIn(pTimerList') THEN 0
           ELSE IF left[e] > 0 \/ (enabled /\ left[e] > -MaxLate) THEN left[e] - 1
           ELSE left[e]]
    /\ UNCHANGED enabled

disableRescheduler == enabled /\ enabled' = FALSE
                      /\ UNCHANGED <<tickCounter, timerExpiry, pTimerList, left>>
enableRescheduler == ~enabled /\ enabled' = TRUE
                     /\ UNCHANGED <<tickCounter, timerExpiry, pTimerList, left>>

\* timerExpiry has static storage and no initializer; it is not read before it is set.
TimersInit ==
    /\ tickCounter = 0
    /\ timerExpiry = 0
    /\ pTimerList = <<>>
    /\ enabled = TRUE
    /\ left = [e \in Entry |-> 0]

TimersNext ==
    \/ \E e \in Entry, i \in Intervals : SetTimer(e, i)
    \/ \E e \in Entry : removeTimerCallback(e)
    \/ handleTick
    \/ disableRescheduler
    \/ enableRescheduler

TimersSpec == TimersInit /\ [][TimersNext]_timerVars

-----------------------------------------------------------------------------

\* timer.c:9, entries that are due sooner are sooner on the queue, whatever the order
\* they were set in and whichever were removed.
QueueIsSorted ==
    \A i, j \in DOMAIN pTimerList :
        i < j => pTimerList[i].absoluteTime <= pTimerList[j].absoluteTime

\* A timeout is never cut short: a tick calls an entry back only when the ticks its
\* timeout takes have passed.
NeverEarly ==
    [][\A e \in EntriesIn(pTimerList) :
          tickCounter' # tickCounter /\ e \notin EntriesIn(pTimerList') => left[e] <= 1]_timerVars

\* Although the queue is only looked at when the tick counter has reached timerExpiry,
\* which is computed for one entry, from a truncated interval, and not again when that
\* entry is removed, the tick at which a timeout is over is the only one that may be
\* handled without calling the entry back: the next one does.
AtMostOneTickLate == \A e \in EntriesIn(pTimerList) : left[e] >= 0

=============================================================================
