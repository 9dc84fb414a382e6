------------------------------ MODULE Scheduler ------------------------------
(***************************************************************************)
(* The preemptive kernel scheduler: lib/src/thread/schedule.c and          *)
(* schedule.h, contextSwitch.h, the timer queue of timer.c as the          *)
(* scheduler uses it, and the tick interrupt of lib/src/ps/x86/psTime.c,   *)
(* in the configuration of ps/x86 (PREEMPTIVE_THREADS, no time shares,     *)
(* HIGHEST_PRIORITY_SEMAPHORES).                                           *)
(*                                                                         *)
(* An API call is one step: its body is a critical region, entered with    *)
(* interrupts off, in which only the thread identified by the current      *)
(* thread register runs.  A call that switches threads ends, in the model, *)
(* where the other thread resumes.  The tick interrupt is several steps    *)
(* (tick # "none") in which no thread runs.  Every list is modelled with   *)
(* its pointers, by the operators of LinkedList.                           *)
(***************************************************************************)
EXTENDS Integers, Sequences, LinkedList

CONSTANTS
    Thread,             \* every thread structure, the idle thread's included
    IdleThread,         \* pIdleThread
    Monitor,
    Semaphore,
    InitialPriority,    \* thread -> the priority startNativeThread is given
    InitialCount,       \* semaphore -> the value semaphoreInit is given
    NewPriorities,      \* the priorities setPriority is called with
    Operations,         \* the API calls the threads of this instance make
    Disciplines,        \* the restraint they show in calling them, see below
    MaxDepth,           \* bound: monitorEnter calls nested by a thread on a monitor
    MaxCount,           \* bound: the highest value of a semaphore
    MaxDisabled         \* bound: nested calls of disableRescheduler

\* What callers may be known not to do:
\*   "JoinAlive"          threadJoin is called on active threads only
\*   "OtherPriority"      setPriority is called on threads other than the caller
\*   "PendFirst"          no thread pended on a semaphore has its priority set
\*   "CarefulInterrupt"   see MayInterrupt
\*   "LetSleep"           no thread in threadSleep is interrupted
\*   "FreshTimer"         see TimerIsFresh
\* Without a discipline the threads call the API in every way it can be called.

ASSUME SchedulerAssumption ==
    /\ IsFiniteSet(Thread)
    /\ IdleThread \in Thread
    /\ NULL \notin Thread \cup Monitor
    /\ InitialPriority \in [Thread -> 0 .. 63]
    /\ InitialCount \in [Semaphore -> Nat]
    /\ NewPriorities \subseteq 0 .. 63
    /\ MaxDepth \in Nat /\ MaxCount \in Nat /\ MaxDisabled \in Nat

VARIABLES
    current,            \* pGlobalCurrentThread
    state,              \* thread -> threadState
    activeStatus,       \* thread -> threadActiveStatus
    currentPriority,    \* thread -> currentPriority
    interruptedFlag,    \* thread -> interruptedFlag
    pJoinedThread,      \* thread -> pJoinedThread
    pWaitMonitor,       \* thread -> pWaitMonitor
    waitMonitorDepth,   \* thread -> waitMonitorDepth
    lists,              \* TL1 to TL6, and in lists.map the priority map
    timers,             \* the list pTimerList of the threads' queueStruct entries
    timerCallback,      \* thread -> the callbackFunction of its queueStruct
    pOwner,             \* monitor -> pOwner
    depth,              \* monitor -> depth
    counter,            \* semaphore -> counter
    reschedulerEnabledIndicator,
    tick,               \* where the tick interrupt is, "none" outside it
    nesting             \* thread -> monitor -> calls of monitorEnter it has not undone

threadVars  == <<state, activeStatus, interruptedFlag, pJoinedThread>>
waitVars    == <<pWaitMonitor, waitMonitorDepth>>
timerVars   == <<timers, timerCallback>>
monitorVars == <<pOwner, depth>>
vars == <<current, threadVars, currentPriority, waitVars, lists, timerVars,
          monitorVars, counter, reschedulerEnabledIndicator, tick, nesting>>

-----------------------------------------------------------------------------
(* The lists and the priority map. *)

Priorities == {InitialPriority[t] : t \in Thread} \cup NewPriorities

RunningAt(p)  == <<"running", p>>          \* TL5: runningThreads[p]
AsleepList    == <<"asleep">>              \* TL1: asleepList
WaitingOn(m)  == <<"waiting", m>>          \* TL2: m->pAsleepList
BlockedOn(m)  == <<"blocked", m>>          \* TL3: m->pBlockedList
Joining(t)    == <<"joining", t>>          \* TL4: t->pJoiningThreads
PendingOn(s)  == <<"pending", s>>          \* TL6: s->pBlockedList

ListNames ==
    {RunningAt(p) : p \in Priorities} \cup {AsleepList}
    \cup {WaitingOn(m) : m \in Monitor} \cup {BlockedOn(m) : m \in Monitor}
    \cup {Joining(t) : t \in Thread} \cup {PendingOn(s) : s \in Semaphore}

TimerList == "pTimerList"

\* getHighestPriority: module PriorityMap models the two bit maps it reads.
getHighestPriority(map) == CHOOSE p \in map : \A q \in map : q <= p
getHighestPriorityThread(L) == L.head[RunningAt(getHighestPriority(L.map))]

addToPriorityMap(L, p) == [L EXCEPT !.map = @ \cup {p}]
removePriority(L, p) ==
    IF L.head[RunningAt(p)] = NULL THEN [L EXCEPT !.map = @ \ {p}] ELSE L

addThreadToRunningThreads(L, t) ==
    addToPriorityMap(AddOneToEnd(L, RunningAt(currentPriority[t]), t), currentPriority[t])

\* The entry moved is the one at the front of the current thread's running list.
\* The assertion that it is the current thread's is compiled out (TESTING is NO).
moveCurrentThreadFromRunningThreads(L, to) ==
    LET p == currentPriority[current]
    IN  removePriority(MoveOneFrontToEnd(L, to, RunningAt(p)), p)

removeCurrentThreadFromRunningThreads(L) ==
    LET p == currentPriority[current]
    IN  removePriority(RemoveOneFromFront(L, RunningAt(p)), p)

-----------------------------------------------------------------------------
(* The context switches of contextSwitch.h.  L is what the lists are when   *)
(* the macro is reached; the caller of switchContext is the current thread. *)

generatedContextSwitch(L) ==
    /\ lists' = L
    /\ current' = getHighestPriorityThread(L)

noContextSwitch(L) == lists' = L /\ UNCHANGED current

conditionalContextSwitch_never(L, priority) == noContextSwitch(L)

\* haltTimeShare rotates the current thread's own list once the next thread
\* has been chosen.
conditionalContextSwitch(L, priority) ==
    LET highest == getHighestPriorityThread(L)
    IN  IF highest = current
        THEN noContextSwitch(L)
        ELSE /\ lists' = RotateOneFrontToEnd(L, RunningAt(priority[current]))
             /\ current' = highest

-----------------------------------------------------------------------------
(* Monitors. *)

Active(t) == state[t] = "ACTIVE"

\* The current thread is executing its program and may call the API; the idle
\* thread never leaves idleFunction, which only yields.
ThreadRuns == tick = "none"
Calls(operation) ==
    /\ ThreadRuns
    /\ current # IdleThread
    /\ operation \in Operations

\* setMonitorDepth: a thread that gave the monitor up to wait gets it back at the
\* depth it had.  W is pWaitMonitor at this point of the call.
acquires(t, m, W) ==
    /\ pOwner' = [pOwner EXCEPT ![m] = t]
    /\ depth' = [depth EXCEPT ![m] = IF W[t] # NULL THEN waitMonitorDepth[t] ELSE 1]
    /\ pWaitMonitor' = [W EXCEPT ![t] = NULL]

firstBlocked_last(L, m) ==
    LET t == L.head[BlockedOn(m)] IN IF t = NULL THEN NULL ELSE L.prev[t]
firstBlocked(L, m) == L.head[BlockedOn(m)]

\* releaseBlockedThread: the lists it leaves, and the rest of its effect.  A is
\* activeStatus at this point of the call.
afterRelease(L, m) ==
    LET t == firstBlocked(L, m)
    IN  IF t = NULL THEN L
        ELSE addThreadToRunningThreads(RemoveOne(L, BlockedOn(m), t), t)

releaseBlockedThread(L, m, W, A) ==
    LET t == firstBlocked(L, m)
    IN  IF t = NULL
        THEN /\ pOwner' = [pOwner EXCEPT ![m] = NULL]
             /\ pWaitMonitor' = W
             /\ activeStatus' = A
             /\ UNCHANGED depth
        ELSE /\ acquires(t, m, W)
             /\ activeStatus' = [A EXCEPT ![t] = "RUNNING"]

MonitorEnter(m) ==
    /\ Calls("monitor")
    /\ nesting[current][m] < MaxDepth
    /\ nesting' = [nesting EXCEPT ![current][m] = @ + 1]
    /\ \/ /\ pOwner[m] = NULL
          /\ pOwner' = [pOwner EXCEPT ![m] = current]
          /\ depth' = [depth EXCEPT ![m] = 1]
          /\ UNCHANGED <<current, lists, activeStatus>>
       \/ /\ pOwner[m] = current
          /\ depth' = [depth EXCEPT ![m] = @ + 1]
          /\ UNCHANGED <<current, lists, activeStatus, pOwner>>
       \/ /\ pOwner[m] \notin {NULL, current}       \* monitorEnterBlockedMonitor
          /\ activeStatus' = [activeStatus EXCEPT ![current] = "BLOCKED_ON_MONITOR"]
          /\ generatedContextSwitch(moveCurrentThreadFromRunningThreads(lists, BlockedOn(m)))
          /\ UNCHANGED monitorVars
    /\ UNCHANGED <<state, interruptedFlag, pJoinedThread, currentPriority, waitVars,
                   timerVars, counter, reschedulerEnabledIndicator, tick>>

\* A program leaves a monitor as often as it has entered it.
MonitorExit(m) ==
    /\ Calls("monitor")
    /\ nesting[current][m] > 0
    /\ nesting' = [nesting EXCEPT ![current][m] = @ - 1]
    /\ \/ /\ depth[m] > 1
          /\ depth' = [depth EXCEPT ![m] = @ - 1]
          /\ UNCHANGED <<current, lists, activeStatus, pOwner, pWaitMonitor>>
       \/ /\ depth[m] = 1
          /\ lists.head[BlockedOn(m)] = NULL
          /\ depth' = [depth EXCEPT ![m] = 0]
          /\ pOwner' = [pOwner EXCEPT ![m] = NULL]
          /\ UNCHANGED <<current, lists, activeStatus, pWaitMonitor>>
       \/ /\ depth[m] = 1                            \* monitorExitContendedMonitor
          /\ lists.head[BlockedOn(m)] # NULL
          /\ releaseBlockedThread(lists, m, pWaitMonitor, activeStatus)
          /\ conditionalContextSwitch(afterRelease(lists, m), currentPriority)
    /\ UNCHANGED <<state, interruptedFlag, pJoinedThread, currentPriority,
                   waitMonitorDepth, timerVars, counter, reschedulerEnabledIndicator, tick>>

-----------------------------------------------------------------------------
(* Waiting, notifying, and the timer queue. *)

\* The entries of the timer queue that could be due after a new one: any later
\* part of the queue, times being what the model leaves out.
LaterParts ==
    LET q == AsSequence(timers, TimerList)
    IN  {{q[j] : j \in k .. Len(q)} : k \in 1 .. Len(q) + 1}

setTimerCallback_alone(callback) ==
    /\ timerCallback' = [timerCallback EXCEPT ![current] = callback]
    /\ timers' = AddOneToEnd([timers EXCEPT !.head[TimerList] = NULL], TimerList, current)

\* initializeTimerCallback and setTimerCallback for the current thread.
setTimerCallback(callback) ==
    /\ timerCallback' = [timerCallback EXCEPT ![current] = callback]
    /\ \E later \in LaterParts :
          timers' = AddOneSorted([timers EXCEPT !.next[current] = NULL],
                                 TimerList, current, later)

removeTimerCallback(T, t) == RemoveOne(T, TimerList, t)

\* A waiter gives up the monitor and goes on its asleep list; without a timeout
\* (a null or a zero one) only a notification or an interrupt takes it off.
MonitorWait(m, timeout) ==
    /\ Calls(IF timeout THEN "timedWait" ELSE "wait")
    /\ pOwner[m] = current
    /\ LET L == moveCurrentThreadFromRunningThreads(lists, WaitingOn(m))
           W == [pWaitMonitor EXCEPT ![current] = m]
           A == [activeStatus EXCEPT ![current] =
                    IF timeout THEN "ASLEEP_TIMED_OUT_ON_MONITOR" ELSE "ASLEEP_ON_MONITOR"]
       IN  /\ releaseBlockedThread(L, m, W, A)
           /\ generatedContextSwitch(afterRelease(L, m))
    /\ waitMonitorDepth' = [waitMonitorDepth EXCEPT ![current] = depth[m]]
    /\ IF timeout THEN setTimerCallback("monitorWaitExpired") ELSE UNCHANGED timerVars
    /\ UNCHANGED <<state, interruptedFlag, pJoinedThread, currentPriority, counter,
                   reschedulerEnabledIndicator, tick, nesting>>

\* The woken thread's activeStatus is left as it was.
MonitorNotify(m) ==
    /\ Calls("notify")
    /\ pOwner[m] = current
    /\ LET t == lists.head[WaitingOn(m)]
       IN  /\ t # NULL
           /\ timers' = IF activeStatus[t] = "ASLEEP_TIMED_OUT_ON_MONITOR"
                        THEN removeTimerCallback(timers, t) ELSE timers
           /\ interruptedFlag' = [interruptedFlag EXCEPT ![t] = FALSE]
    /\ conditionalContextSwitch(MoveOneFrontToEnd(lists, BlockedOn(m), WaitingOn(m)),
                                currentPriority)
    /\ UNCHANGED <<state, activeStatus, pJoinedThread, currentPriority, waitVars,
                   timerCallback, monitorVars, counter, reschedulerEnabledIndicator,
                   tick, nesting>>

\* The timer queue after the iteration over the waiters in q.
timersWithout(q) ==
    LET T[k \in 0 .. Len(q)] ==
            IF k = 0 THEN timers
            ELSE IF activeStatus[q[k]] = "ASLEEP_TIMED_OUT_ON_MONITOR"
            THEN removeTimerCallback(T[k - 1], q[k])
            ELSE T[k - 1]
    IN  T[Len(q)]

MonitorNotifyAll(m) ==
    /\ Calls("notifyAll")
    /\ pOwner[m] = current
    /\ lists.head[WaitingOn(m)] # NULL
    /\ timers' = timersWithout(AsSequence(lists, WaitingOn(m)))
    /\ interruptedFlag' = [t \in Thread |->
           interruptedFlag[t] /\ t \notin EntriesOf(lists, WaitingOn(m))]
    /\ conditionalContextSwitch(MoveAllToEnd(lists, BlockedOn(m), WaitingOn(m)),
                                currentPriority)
    /\ UNCHANGED <<state, activeStatus, pJoinedThread, currentPriority, waitVars,
                   timerCallback, monitorVars, counter, reschedulerEnabledIndicator,
                   tick, nesting>>

\* An interrupted sleeper that knows its timer is still queued neither sleeps, joins
\* nor ends before it has run out.
TimerIsFresh ==
    "FreshTimer" \in Disciplines => current \notin EntriesOf(timers, TimerList)

ThreadSleep ==
    /\ Calls("sleep")
    /\ TimerIsFresh
    /\ setTimerCallback("threadSleepExpired")
    /\ activeStatus' = [activeStatus EXCEPT ![current] = "ASLEEP_TIMED_OUT"]
    /\ generatedContextSwitch(moveCurrentThreadFromRunningThreads(lists, AsleepList))
    /\ UNCHANGED <<state, interruptedFlag, pJoinedThread, currentPriority, waitVars,
                   monitorVars, counter, reschedulerEnabledIndicator, tick, nesting>>

-----------------------------------------------------------------------------
(* Yielding, joining, dying, starting. *)

WeakYield ==
    /\ Calls("yield")
    /\ conditionalContextSwitch(lists, currentPriority)
    /\ UNCHANGED <<threadVars, currentPriority, waitVars, timerVars, monitorVars,
                   counter, reschedulerEnabledIndicator, tick, nesting>>

\* The one call the idle thread makes.
StrongYield ==
    /\ ThreadRuns
    /\ current = IdleThread \/ "yield" \in Operations
    /\ LET L == RotateOneFrontToEnd(lists, RunningAt(currentPriority[current]))
       IN  IF L.head[RunningAt(currentPriority[current])] = current
           THEN noContextSwitch(L)
           ELSE generatedContextSwitch(L)
    /\ UNCHANGED <<threadVars, currentPriority, waitVars, timerVars, monitorVars,
                   counter, reschedulerEnabledIndicator, tick, nesting>>

\* There is no thread structure to join before a thread is started.
ThreadJoin(t) ==
    /\ Calls("join")
    /\ TimerIsFresh
    /\ t # IdleThread /\ state[t] # "NOT_STARTED"
    /\ "JoinAlive" \in Disciplines => Active(t)
    /\ activeStatus' = [activeStatus EXCEPT ![current] = "BLOCKED_ON_THREAD_DEATH"]
    /\ pJoinedThread' = [pJoinedThread EXCEPT ![current] = t]
    /\ generatedContextSwitch(moveCurrentThreadFromRunningThreads(lists, Joining(t)))
    /\ UNCHANGED <<state, interruptedFlag, currentPriority, waitVars, timerVars,
                   monitorVars, counter, reschedulerEnabledIndicator, tick, nesting>>

afterReleasingJoined_first(L, q) ==
    IF q = <<>> THEN L
    ELSE addThreadToRunningThreads(RemoveOneFromFront(L, Joining(current)), q[1])

\* releaseJoinedThreads: the joining threads become runnable in the order they joined.
afterReleasingJoined(L, q) ==
    LET R[k \in 0 .. Len(q)] ==
            IF k = 0 THEN L
            ELSE addThreadToRunningThreads(RemoveOneFromFront(R[k - 1], Joining(current)), q[k])
    IN  R[Len(q)]

\* A program has left every monitor when it ends.
RemoveThread ==
    /\ Calls("remove")
    /\ TimerIsFresh
    /\ \A m \in Monitor : nesting[current][m] = 0
    /\ LET q == AsSequence(lists, Joining(current))
           joined == EntriesOf(lists, Joining(current))
       IN  /\ activeStatus' = [t \in Thread |->
                  IF t \in joined THEN "RUNNING" ELSE activeStatus[t]]
           /\ interruptedFlag' = [t \in Thread |-> interruptedFlag[t] /\ t \notin joined]
           /\ generatedContextSwitch(
                  removeCurrentThreadFromRunningThreads(afterReleasingJoined(lists, q)))
    /\ state' = [state EXCEPT ![current] = "FINISHED"]
    /\ UNCHANGED <<pJoinedThread, currentPriority, waitVars, timerVars, monitorVars,
                   counter, reschedulerEnabledIndicator, tick, nesting>>

\* The idle thread starts the tasks (start.c) before it goes to idleFunction.  A
\* thread can be started inside a monitor; there is no switch to it.
ScheduleNewThread(t, m) ==
    /\ ThreadRuns
    /\ state[t] = "NOT_STARTED"
    /\ state' = [state EXCEPT ![t] = "ACTIVE"]
    /\ \/ /\ m = NULL
          /\ activeStatus' = [activeStatus EXCEPT ![t] = "RUNNING"]
          /\ lists' = addThreadToRunningThreads(lists, t)
          /\ UNCHANGED <<monitorVars, nesting>>
       \/ /\ m # NULL
          /\ pOwner[m] = NULL
          /\ pOwner' = [pOwner EXCEPT ![m] = t]
          /\ depth' = [depth EXCEPT ![m] = 1]
          /\ nesting' = [nesting EXCEPT ![t][m] = 1]
          /\ activeStatus' = [activeStatus EXCEPT ![t] = "RUNNING"]
          /\ lists' = addThreadToRunningThreads(lists, t)
       \/ /\ m # NULL
          /\ pOwner[m] # NULL
          /\ nesting' = [nesting EXCEPT ![t][m] = 1]
          /\ activeStatus' = [activeStatus EXCEPT ![t] = "BLOCKED_ON_MONITOR"]
          /\ lists' = AddOneToEnd(lists, BlockedOn(m), t)
          /\ UNCHANGED monitorVars
    /\ UNCHANGED <<current, interruptedFlag, pJoinedThread, currentPriority, waitVars,
                   timerVars, counter, reschedulerEnabledIndicator, tick>>

-----------------------------------------------------------------------------
(* Interrupting a thread. *)

AsleepOnMonitor(t) ==
    activeStatus[t] \in {"ASLEEP_ON_MONITOR", "ASLEEP_TIMED_OUT_ON_MONITOR"}

\* A careful caller interrupts a thread that is waiting on a monitor only if it has
\* not been notified and is not the first on the asleep list, and a sleeper only if it
\* is the only thread of its priority: its timer will find it on the running list.
MayInterrupt(t) ==
    /\ "CarefulInterrupt" \in Disciplines =>
          /\ activeStatus[t] = "ASLEEP_TIMED_OUT" =>
                \A u \in Thread : currentPriority[u] = currentPriority[t] => u = t
          /\ AsleepOnMonitor(t) =>
                t \in EntriesOf(lists, WaitingOn(pWaitMonitor[t]))
                          \ {lists.head[WaitingOn(pWaitMonitor[t])]}
    /\ "LetSleep" \in Disciplines => activeStatus[t] # "ASLEEP_TIMED_OUT"

\* threadListRemoveThread is given pAsleepList and not its address, so the word it
\* compares with the entry is the first of another structure, never the entry: the
\* entry is unlinked, and no list pointer moves.
afterInterruptedWait(t) == Unlink(lists, t)

InterruptWaiter(t) ==
    LET m == pWaitMonitor[t]
        L == afterInterruptedWait(t)
    IN  /\ AsleepOnMonitor(t)
        /\ timers' = IF activeStatus[t] = "ASLEEP_TIMED_OUT_ON_MONITOR"
                     THEN removeTimerCallback(timers, t) ELSE timers
        /\ \/ /\ pOwner[m] # NULL
              /\ activeStatus' = [activeStatus EXCEPT ![t] = "BLOCKED_ON_MONITOR"]
              /\ noContextSwitch(AddOneToEnd(L, BlockedOn(m), t))
              /\ UNCHANGED <<monitorVars, pWaitMonitor>>
           \/ /\ pOwner[m] = NULL
              /\ acquires(t, m, pWaitMonitor)
              /\ activeStatus' = [activeStatus EXCEPT ![t] = "RUNNING"]
              /\ conditionalContextSwitch(addThreadToRunningThreads(L, t), currentPriority)

\* The timer callback of an interrupted sleeper stays on the timer queue.
InterruptSleeper(t) ==
    /\ activeStatus[t] = "ASLEEP_TIMED_OUT"
    /\ activeStatus' = [activeStatus EXCEPT ![t] = "RUNNING"]
    /\ conditionalContextSwitch(
           addThreadToRunningThreads(RemoveOne(lists, AsleepList, t), t), currentPriority)
    /\ UNCHANGED <<timers, monitorVars, pWaitMonitor>>

InterruptJoiner(t) ==
    /\ activeStatus[t] = "BLOCKED_ON_THREAD_DEATH"
    /\ activeStatus' = [activeStatus EXCEPT ![t] = "RUNNING"]
    /\ conditionalContextSwitch(
           addThreadToRunningThreads(RemoveOne(lists, Joining(pJoinedThread[t]), t), t),
           currentPriority)
    /\ UNCHANGED <<timers, monitorVars, pWaitMonitor>>

InterruptOther(t) ==
    /\ activeStatus[t] \in {"RUNNING", "BLOCKED_ON_MONITOR", "BLOCKED_ON_SEMAPHORE"}
    /\ UNCHANGED <<current, lists, activeStatus, timers, monitorVars, pWaitMonitor>>

InterruptThread(t) ==
    /\ Calls("interrupt")
    /\ t # IdleThread /\ state[t] # "NOT_STARTED"
    /\ MayInterrupt(t)
    /\ interruptedFlag' = [interruptedFlag EXCEPT ![t] = TRUE]
    /\ InterruptJoiner(t) \/ InterruptWaiter(t) \/ InterruptSleeper(t) \/ InterruptOther(t)
    /\ UNCHANGED <<state, pJoinedThread, currentPriority, waitMonitorDepth, timerCallback,
                   counter, reschedulerEnabledIndicator, tick, nesting>>

-----------------------------------------------------------------------------
(* Semaphores and priorities. *)

PostReleases_late(s) == counter[s] + 1 < 0
PostReleases(s) == counter[s] + 1 <= 0

SemaphorePost(s) ==
    /\ Calls("semaphore")
    /\ counter[s] < MaxCount
    /\ counter' = [counter EXCEPT ![s] = @ + 1]
    /\ \/ /\ ~PostReleases(s)
          /\ UNCHANGED <<current, lists, activeStatus>>
       \/ /\ PostReleases(s)
          /\ LET t == lists.head[PendingOn(s)]
             IN  /\ activeStatus' = [activeStatus EXCEPT ![t] = "RUNNING"]
                 /\ conditionalContextSwitch(
                        addThreadToRunningThreads(
                            RemoveOneFromFront(lists, PendingOn(s)), t),
                        currentPriority)
    /\ UNCHANGED <<state, interruptedFlag, pJoinedThread, currentPriority, waitVars,
                   timerVars, monitorVars, reschedulerEnabledIndicator, tick, nesting>>

moveCurrentThreadToSemaphoreQueue_fifo(L, s) ==
    AddOneToEnd(removeCurrentThreadFromRunningThreads(L), PendingOn(s), current)

\* threadPriorityComparator: the queue is kept by falling priority.
moveCurrentThreadToSemaphoreQueue(L, s) ==
    AddOneSorted(removeCurrentThreadFromRunningThreads(L), PendingOn(s), current,
                 {t \in Thread : currentPriority[current] > currentPriority[t]})

SemaphorePend(s) ==
    /\ Calls("semaphore")
    /\ counter' = [counter EXCEPT ![s] = @ - 1]
    /\ \/ /\ counter[s] > 0
          /\ UNCHANGED <<current, lists, activeStatus>>
       \/ /\ counter[s] <= 0
          /\ activeStatus' = [activeStatus EXCEPT ![current] = "BLOCKED_ON_SEMAPHORE"]
          /\ generatedContextSwitch(moveCurrentThreadToSemaphoreQueue(lists, s))
    /\ UNCHANGED <<state, interruptedFlag, pJoinedThread, currentPriority, waitVars,
                   timerVars, monitorVars, reschedulerEnabledIndicator, tick, nesting>>

\* changeRunningThreadPriority moves the front entry of the old list.
changeRunningThreadPriority(L, old, new) ==
    addToPriorityMap(
        removePriority(MoveOneFrontToEnd(L, RunningAt(new), RunningAt(old)), old), new)

changeOtherThreadPriority_front(L, t, new) ==
    changeRunningThreadPriority(L, currentPriority[t], new)
changeOtherThreadPriority(L, t, new) ==
    LET old == currentPriority[t]
    IN  addToPriorityMap(
            AddOneToEnd(removePriority(RemoveOne(L, RunningAt(old), t), old),
                        RunningAt(new), t), new)

SetPriority(t, priority) ==
    /\ Calls("setPriority")
    /\ state[t] # "NOT_STARTED" /\ t # IdleThread
    /\ "OtherPriority" \in Disciplines => t # current
    /\ "PendFirst" \in Disciplines => activeStatus[t] # "BLOCKED_ON_SEMAPHORE"
    /\ currentPriority' = [currentPriority EXCEPT ![t] = priority]
    /\ \/ /\ Active(t) /\ activeStatus[t] = "RUNNING"
          /\ conditionalContextSwitch(
                 IF t = current
                 THEN changeRunningThreadPriority(lists, currentPriority[t], priority)
                 ELSE changeOtherThreadPriority(lists, t, priority),
                 [currentPriority EXCEPT ![t] = priority])
       \/ /\ ~(Active(t) /\ activeStatus[t] = "RUNNING")
          /\ UNCHANGED <<lists, current>>
    /\ UNCHANGED <<threadVars, waitVars, timerVars, monitorVars, counter,
                   reschedulerEnabledIndicator, tick, nesting>>

DisableRescheduler ==
    /\ Calls("rescheduler")
    /\ reschedulerEnabledIndicator < MaxDisabled
    /\ reschedulerEnabledIndicator' = reschedulerEnabledIndicator + 1
    /\ UNCHANGED <<current, lists, threadVars, currentPriority, waitVars, timerVars,
                   monitorVars, counter, tick, nesting>>

\* Calls come in nested pairs.
EnableRescheduler ==
    /\ Calls("rescheduler")
    /\ reschedulerEnabledIndicator > 0
    /\ reschedulerEnabledIndicator' = reschedulerEnabledIndicator - 1
    /\ IF reschedulerEnabledIndicator' = 0
       THEN conditionalContextSwitch(lists, currentPriority)
       ELSE noContextSwitch(lists)
    /\ UNCHANGED <<threadVars, currentPriority, waitVars, timerVars, monitorVars,
                   counter, tick, nesting>>

-----------------------------------------------------------------------------
(* The tick interrupt. *)

\* handleTick: every TICKS_PER_RESCHEDULE-th tick rotates the current thread's list,
\* the others look for a thread of higher priority.  While the rescheduler is
\* disabled a tick only counts.
TickInterrupt(kind) ==
    /\ tick = "none"
    /\ reschedulerEnabledIndicator = 0
    /\ tick' = kind
    /\ UNCHANGED <<current, lists, threadVars, currentPriority, waitVars, timerVars,
                   monitorVars, counter, reschedulerEnabledIndicator, nesting>>

threadSleepExpired(t) ==
    /\ interruptedFlag' = [interruptedFlag EXCEPT ![t] = FALSE]
    /\ lists' = addThreadToRunningThreads(RemoveOne(lists, AsleepList, t), t)
    /\ activeStatus' = [activeStatus EXCEPT ![t] = "RUNNING"]
    /\ UNCHANGED <<pWaitMonitor, monitorVars>>

monitorWaitExpired_barges(t) ==
    /\ acquires(t, pWaitMonitor[t], pWaitMonitor)
    /\ lists' = addThreadToRunningThreads(RemoveOne(lists, WaitingOn(pWaitMonitor[t]), t), t)
    /\ activeStatus' = [activeStatus EXCEPT ![t] = "RUNNING"]
    /\ UNCHANGED interruptedFlag

monitorWaitExpired(t) ==
    LET m == pWaitMonitor[t]
        L == RemoveOne(lists, WaitingOn(m), t)
    IN  /\ \/ /\ pOwner[m] # NULL
              /\ lists' = AddOneToEnd(L, BlockedOn(m), t)
              /\ activeStatus' = [activeStatus EXCEPT ![t] = "BLOCKED_ON_MONITOR"]
              /\ UNCHANGED <<monitorVars, pWaitMonitor>>
           \/ /\ pOwner[m] = NULL
              /\ acquires(t, m, pWaitMonitor)
              /\ lists' = addThreadToRunningThreads(L, t)
              /\ activeStatus' = [activeStatus EXCEPT ![t] = "RUNNING"]
        /\ UNCHANGED interruptedFlag

\* One turn of the loop of updateTimerQueue: the first entry is due.
TimerExpires ==
    LET t == timers.head[TimerList]
    IN  /\ tick # "none"
        /\ t # NULL
        /\ timers' = RemoveOneFromFront(timers, TimerList)
        /\ \/ timerCallback[t] = "threadSleepExpired" /\ threadSleepExpired(t)
           \/ timerCallback[t] = "monitorWaitExpired" /\ monitorWaitExpired(t)
        /\ UNCHANGED <<current, state, pJoinedThread, currentPriority, waitMonitorDepth,
                       timerCallback, counter, reschedulerEnabledIndicator, tick, nesting>>

TickReturns_unrotated ==
    /\ tick # "none"
    /\ conditionalContextSwitch_never(lists, currentPriority)
    /\ tick' = "none"
    /\ UNCHANGED <<threadVars, currentPriority, waitVars, timerVars, monitorVars,
                   counter, reschedulerEnabledIndicator, nesting>>

\* The rest of scheduledContextSwitch or interruptConditionalContextSwitch, once no
\* more entries are due.
TickReturns ==
    /\ \/ /\ tick = "scheduled"
          /\ generatedContextSwitch(
                 RotateOneFrontToEnd(lists, RunningAt(currentPriority[current])))
       \/ /\ tick = "conditional"
          /\ conditionalContextSwitch(lists, currentPriority)
    /\ tick' = "none"
    /\ UNCHANGED <<threadVars, currentPriority, waitVars, timerVars, monitorVars,
                   counter, reschedulerEnabledIndicator, nesting>>

-----------------------------------------------------------------------------

\* becomeIdleThread: the idle thread is scheduled and running, alone.
Init ==
    /\ current = IdleThread
    /\ state = [t \in Thread |-> IF t = IdleThread THEN "ACTIVE" ELSE "NOT_STARTED"]
    /\ activeStatus = [t \in Thread |-> IF t = IdleThread THEN "RUNNING" ELSE "ASLEEP_TIMED_OUT"]
    /\ currentPriority = InitialPriority
    /\ interruptedFlag = [t \in Thread |-> FALSE]
    /\ pJoinedThread = [t \in Thread |-> NULL]
    /\ pWaitMonitor = [t \in Thread |-> NULL]
    /\ waitMonitorDepth = [t \in Thread |-> 0]
    /\ LET p == InitialPriority[IdleThread]
           one == AddOneToEnd(EmptyLists(ListNames, Thread), RunningAt(p), IdleThread)
       IN  lists = [head |-> one.head, next |-> one.next, prev |-> one.prev, map |-> {p}]
    /\ timers = EmptyLists({TimerList}, Thread)
    /\ timerCallback = [t \in Thread |-> "none"]
    /\ pOwner = [m \in Monitor |-> NULL]
    /\ depth = [m \in Monitor |-> 0]
    /\ counter = InitialCount
    /\ reschedulerEnabledIndicator = 0
    /\ tick = "none"
    /\ nesting = [t \in Thread |-> [m \in Monitor |-> 0]]

Next ==
    \/ \E m \in Monitor : MonitorEnter(m)
    \/ \E m \in Monitor : MonitorExit(m)
    \/ \E m \in Monitor, timeout \in BOOLEAN : MonitorWait(m, timeout)
    \/ \E m \in Monitor : MonitorNotify(m)
    \/ \E m \in Monitor : MonitorNotifyAll(m)
    \/ ThreadSleep
    \/ WeakYield
    \/ StrongYield
    \/ \E t \in Thread : ThreadJoin(t)
    \/ RemoveThread
    \/ \E t \in Thread, m \in Monitor \cup {NULL} : ScheduleNewThread(t, m)
    \/ \E t \in Thread : InterruptThread(t)
    \/ \E s \in Semaphore : SemaphorePost(s)
    \/ \E s \in Semaphore : SemaphorePend(s)
    \/ \E t \in Thread, p \in NewPriorities : SetPriority(t, p)
    \/ DisableRescheduler
    \/ EnableRescheduler
    \/ \E kind \in {"scheduled", "conditional"} : TickInterrupt(kind)
    \/ TimerExpires
    \/ TickReturns

Spec == Init /\ [][Next]_vars

=============================================================================
