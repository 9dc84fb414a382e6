---------------------------- MODULE SchedulerSafety ----------------------------
(***************************************************************************)
(* What the scheduler of module Scheduler has to guarantee.                *)
(***************************************************************************)
EXTENDS Scheduler

Status == {"ASLEEP_TIMED_OUT", "ASLEEP_ON_MONITOR", "ASLEEP_TIMED_OUT_ON_MONITOR",
           "BLOCKED_ON_MONITOR", "BLOCKED_ON_THREAD_DEATH", "BLOCKED_ON_SEMAPHORE",
           "RUNNING"}

ThreadOrNull == Thread \cup {NULL}

\* Every variable has a value of its C type, within the bounds of the instance.
TypeOK ==
    /\ current \in Thread
    /\ state \in [Thread -> {"NOT_STARTED", "ACTIVE", "FINISHED"}]
    /\ activeStatus \in [Thread -> Status]
    /\ currentPriority \in [Thread -> Priorities]
    /\ interruptedFlag \in [Thread -> BOOLEAN]
    /\ pJoinedThread \in [Thread -> ThreadOrNull]
    /\ pWaitMonitor \in [Thread -> Monitor \cup {NULL}]
    /\ waitMonitorDepth \in [Thread -> Nat]
    /\ lists \in [head : [ListNames -> ThreadOrNull], next : [Thread -> ThreadOrNull],
                  prev : [Thread -> ThreadOrNull], map : SUBSET Priorities]
    /\ timers \in [head : [{TimerList} -> ThreadOrNull], next : [Thread -> ThreadOrNull],
                   prev : [Thread -> ThreadOrNull]]
    /\ timerCallback \in [Thread -> {"none", "threadSleepExpired", "monitorWaitExpired"}]
    /\ pOwner \in [Monitor -> ThreadOrNull]
    /\ depth \in [Monitor -> Nat]
    /\ counter \in [Semaphore -> Int]
    /\ reschedulerEnabledIndicator \in Nat
    /\ tick \in {"none", "scheduled", "conditional"}
    /\ nesting \in [Thread -> [Monitor -> Nat]]

-----------------------------------------------------------------------------
(* The lists. *)

ListsHolding(t) == {l \in ListNames : t \in EntriesOf(lists, l)}

\* thread.h:101, "An active thread must be stored in exactly one of 6 places at all
\* times": no operation, in any order, loses a thread, leaves it on two lists, or
\* leaves a list whose pointers do not close.
StoredInOnePlace ==
    /\ \A l \in ListNames : WellFormed(lists, l)
    /\ \A t \in Thread : Cardinality(ListsHolding(t)) = IF Active(t) THEN 1 ELSE 0

\* thread.h:109, "Byte code is executed only for those threads in L5", and
\* schedule.c:78, "the active thread at a given priority is at the front of its list":
\* whoever executes is the first of the running list of its own priority.  The three
\* macros that take the current thread off its list take off the first entry.
CurrentAtFront ==
    tick = "none" => lists.head[RunningAt(currentPriority[current])] = current

\* schedule.c:41, the priority map tells exactly which running lists are not empty;
\* getHighestPriorityThread dereferences the list it points at.
MapShowsRunningLists ==
    lists.map = {p \in Priorities : lists.head[RunningAt(p)] # NULL}

\* schedule.c:24, "When a scheduler operation is completed, a thread switch is required
\* if the current thread [...] is not the same as the thread at the front of the highest
\* priority thread list": an operation that finds the right thread running leaves the
\* right thread running, and so does every tick, whatever the timers woke.  Only a start
\* (scheduleNewThread "returns immediately without any context switching") defers it.
NoSwitchIsMissed ==
    [][/\ tick' = "none"
       /\ tick # "none" \/ current = getHighestPriorityThread(lists)
       /\ ~\E t \in Thread : state[t] = "NOT_STARTED" /\ state'[t] = "ACTIVE"
       => current' = getHighestPriorityThread(lists')]_vars

\* A thread that joins waits for a thread that will still die: only the death of the
\* thread that is joined releases the ones that have joined it.
JoinedThreadIsAlive ==
    \A t \in Thread : lists.head[Joining(t)] # NULL => Active(t)

\* The lists, the priority map and the current thread register agree at all times.
ThreadsAreWhereTheyShow ==
    TypeOK /\ StoredInOnePlace /\ MapShowsRunningLists /\ CurrentAtFront

-----------------------------------------------------------------------------
(* Monitors. *)

\* t would execute its program if it were chosen to run.
Runnable(t) == \E p \in Priorities : t \in EntriesOf(lists, RunningAt(p))

\* A thread that gets to run owns every monitor its program is inside, at exactly
\* the depth the program has entered it, after any number of waits, notifications,
\* timeouts and hand-overs: so no two threads are ever inside one monitor.
InsideMeansOwner ==
    \A t \in Thread, m \in Monitor :
        Runnable(t) /\ nesting[t][m] > 0 => pOwner[m] = t /\ depth[m] = nesting[t][m]

\* A monitor that threads are blocked on has an owner, who will release one of them
\* when it exits: no exit, wait, timeout or interrupt leaves the monitor free with
\* threads on its blocked list, which nobody would ever release.
BlockedMonitorIsOwned ==
    \A m \in Monitor : lists.head[BlockedOn(m)] # NULL => pOwner[m] # NULL

\* A free monitor is entered by whoever asks; one that is given up while threads are
\* blocked on it goes to the one that has been blocked longest (thread.h:14, "threads
\* are always added to the end of each list, and removed from the beginning so they
\* are FIFO"): nobody barges in between.
HandedToLongestBlocked ==
    [][\A m \in Monitor :
          (pOwner[m] # NULL /\ pOwner'[m] # pOwner[m] /\ lists.head[BlockedOn(m)] # NULL)
              => pOwner'[m] = lists.head[BlockedOn(m)]]_vars

-----------------------------------------------------------------------------
(* Timers. *)

\* timer.c:4, pTimerList is "the list of threads currently timed out": the callback
\* of an entry will find the thread on the list it removes it from.
TimersOfTimedOut ==
    \A t \in EntriesOf(timers, TimerList) :
        IF timerCallback[t] = "threadSleepExpired"
        THEN t \in EntriesOf(lists, AsleepList)
        ELSE pWaitMonitor[t] # NULL /\ t \in EntriesOf(lists, WaitingOn(pWaitMonitor[t]))

\* Every thread asleep until a time has an entry on the timer queue; nothing else
\* would wake a sleeper.
TimedOutHaveTimers ==
    \A t \in Thread :
        \/ t \in EntriesOf(lists, AsleepList)
        \/ /\ activeStatus[t] = "ASLEEP_TIMED_OUT_ON_MONITOR"
           /\ t \in EntriesOf(lists, WaitingOn(pWaitMonitor[t]))
        => t \in EntriesOf(timers, TimerList)

\* Whoever is to be woken can be: every active thread is on one list; the tick finds
\* the entry of every thread asleep until a time, and the thread where the callback
\* looks for it; a monitor that threads are blocked on has an owner who will exit it.
SleepersWillBeWoken ==
    StoredInOnePlace /\ TimersOfTimedOut /\ TimedOutHaveTimers /\ BlockedMonitorIsOwned

-----------------------------------------------------------------------------
(* Semaphores. *)

\* A negative counter is the number of threads pended; a thread is pended only
\* while the counter is negative.  A post then finds a thread to release.
CounterCountsPended ==
    \A s \in Semaphore :
        Cardinality(EntriesOf(lists, PendingOn(s))) = IF counter[s] < 0 THEN -counter[s] ELSE 0

ReleasesHighest ==
    \A s \in Semaphore : \A t, u \in EntriesOf(lists, PendingOn(s)) :
        (t \notin EntriesOf(lists', PendingOn(s)) /\ u \in EntriesOf(lists', PendingOn(s)))
            => currentPriority[t] >= currentPriority[u]

\* psPlatform.h:10, "the highest priority semaphore is the first one released from
\* the queue".
HighestReleasedFirst == [][ReleasesHighest]_vars

=============================================================================
