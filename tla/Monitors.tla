------------------------------- MODULE Monitors -------------------------------
(***************************************************************************)
(* What the kernel's monitors promise (the monitor API of schedule.h and   *)
(* schedule.c), whatever the scheduler does: the threads of a monitor are  *)
(* its owner, the queue of those that are blocked entering it and the      *)
(* queue of those that have given it up to wait.  Any thread that is in no *)
(* queue may call the API at any time; a waiting thread may be woken at    *)
(* any time, by its timeout or by an interrupt.  Module Scheduler is shown *)
(* to implement this module.                                               *)
(***************************************************************************)
EXTENDS Naturals, Sequences, SequencesExt

CONSTANTS
    Thread,
    Monitor,
    NULL,           \* no owner
    MaxDepth        \* bound: monitorEnter calls nested by a thread on a monitor

ASSUME MonitorsAssumption == NULL \notin Thread /\ MaxDepth \in Nat

VARIABLES
    owner,          \* monitor -> pOwner
    depth,          \* monitor -> depth
    entry,          \* monitor -> TL3, pBlockedList
    waiting,        \* monitor -> TL2, pAsleepList
    saved,          \* thread -> waitMonitorDepth while pWaitMonitor is set, else 0
    inside          \* thread -> monitor -> calls of monitorEnter it has not undone

vars == <<owner, depth, entry, waiting, saved, inside>>

On(queue) == {queue[k] : k \in 1 .. Len(queue)}

Queued(t, m) == t \in On(entry[m]) \cup On(waiting[m])
Ready(t) == \A m \in Monitor : ~Queued(t, m)

Init ==
    /\ owner = [m \in Monitor |-> NULL]
    /\ depth = [m \in Monitor |-> 0]
    /\ entry = [m \in Monitor |-> <<>>]
    /\ waiting = [m \in Monitor |-> <<>>]
    /\ saved = [t \in Thread |-> 0]
    /\ inside = [t \in Thread |-> [m \in Monitor |-> 0]]

\* The depth at which t gets a monitor: the one it gave it up at, if it did.
DepthOf(t, S) == IF S[t] = 0 THEN 1 ELSE S[t]

Acquire(t, m, S) ==
    /\ owner' = [owner EXCEPT ![m] = t]
    /\ depth' = [depth EXCEPT ![m] = DepthOf(t, S)]
    /\ saved' = [S EXCEPT ![t] = 0]

\* The monitor passes from its owner to the thread that has been blocked longest.
HandOver(m, S) ==
    \/ /\ entry[m] = <<>>
       /\ owner' = [owner EXCEPT ![m] = NULL]
       /\ depth' = [depth EXCEPT ![m] = 0]
       /\ saved' = S
       /\ UNCHANGED entry
    \/ /\ entry[m] # <<>>
       /\ Acquire(Head(entry[m]), m, S)
       /\ entry' = [entry EXCEPT ![m] = Tail(@)]

EnterFree_always(t, m) == Acquire(t, m, saved) /\ UNCHANGED entry
EnterFree(t, m) == owner[m] = NULL /\ Acquire(t, m, saved) /\ UNCHANGED entry

EnterAgain(t, m) ==
    /\ owner[m] = t
    /\ depth' = [depth EXCEPT ![m] = @ + 1]
    /\ UNCHANGED <<owner, saved, entry>>

Block(t, m) ==
    /\ owner[m] \notin {NULL, t}
    /\ entry' = [entry EXCEPT ![m] = Append(@, t)]
    /\ UNCHANGED <<owner, depth, saved>>

\* Also the start of a thread inside a monitor.
Enter(t, m) ==
    /\ Ready(t)
    /\ inside[t][m] < MaxDepth
    /\ inside' = [inside EXCEPT ![t][m] = @ + 1]
    /\ EnterFree(t, m) \/ EnterAgain(t, m) \/ Block(t, m)
    /\ UNCHANGED waiting

ExitInner(t, m) ==
    /\ depth[m] > 1
    /\ depth' = [depth EXCEPT ![m] = @ - 1]
    /\ UNCHANGED <<owner, entry, saved>>

Exit(t, m) ==
    /\ Ready(t)
    /\ inside[t][m] > 0
    /\ inside' = [inside EXCEPT ![t][m] = @ - 1]
    /\ ExitInner(t, m) \/ (depth[m] = 1 /\ HandOver(m, saved))
    /\ UNCHANGED waiting

Wait(t, m) ==
    /\ Ready(t)
    /\ owner[m] = t
    /\ waiting' = [waiting EXCEPT ![m] = Append(@, t)]
    /\ HandOver(m, [saved EXCEPT ![t] = depth[m]])
    /\ UNCHANGED inside

Notify(t, m) ==
    /\ Ready(t)
    /\ owner[m] = t
    /\ waiting[m] # <<>>
    /\ entry' = [entry EXCEPT ![m] = Append(@, Head(waiting[m]))]
    /\ waiting' = [waiting EXCEPT ![m] = Tail(@)]
    /\ UNCHANGED <<owner, depth, saved, inside>>

NotifyAll_copies(t, m) ==
    /\ Ready(t)
    /\ owner[m] = t
    /\ waiting[m] # <<>>
    /\ entry' = [entry EXCEPT ![m] = @ \o waiting[m]]
    /\ UNCHANGED <<owner, depth, waiting, saved, inside>>

NotifyAll(t, m) ==
    /\ Ready(t)
    /\ owner[m] = t
    /\ waiting[m] # <<>>
    /\ entry' = [entry EXCEPT ![m] = @ \o waiting[m]]
    /\ waiting' = [waiting EXCEPT ![m] = <<>>]
    /\ UNCHANGED <<owner, depth, saved, inside>>

\* A timeout or an interrupt: the k-th waiter gets the monitor if it is free.
Awaken(m, k) ==
    LET t == waiting[m][k]
    IN  /\ waiting' = [waiting EXCEPT ![m] = RemoveAt(@, k)]
        /\ \/ owner[m] = NULL /\ Acquire(t, m, saved) /\ UNCHANGED entry
           \/ /\ owner[m] # NULL
              /\ entry' = [entry EXCEPT ![m] = Append(@, t)]
              /\ UNCHANGED <<owner, depth, saved>>
        /\ UNCHANGED inside

Next ==
    \E m \in Monitor :
        \/ \E t \in Thread : Enter(t, m)
        \/ \E t \in Thread : Exit(t, m)
        \/ \E t \in Thread : Wait(t, m)
        \/ \E t \in Thread : Notify(t, m)
        \/ \E t \in Thread : NotifyAll(t, m)
        \/ \E k \in 1 .. Len(waiting[m]) : Awaken(m, k)

Spec == Init /\ [][Next]_vars

-----------------------------------------------------------------------------

\* Every variable has a value of its type.
TypeOK ==
    /\ owner \in [Monitor -> Thread \cup {NULL}]
    /\ depth \in [Monitor -> Nat]
    /\ entry \in [Monitor -> Seq(Thread)]
    /\ waiting \in [Monitor -> Seq(Thread)]
    /\ saved \in [Thread -> Nat]
    /\ inside \in [Thread -> [Monitor -> Nat]]

\* A thread that is in no queue owns every monitor its program is inside, at the
\* depth its program entered it: a wait gives a recursively entered monitor up
\* completely (schedule.c, monitorWait) and gets it back completely
\* (setMonitorDepth), whichever way it ends.
InsideMeansOwner ==
    \A t \in Thread, m \in Monitor :
        Ready(t) /\ inside[t][m] > 0 => owner[m] = t /\ depth[m] = inside[t][m]

\* No two threads execute inside one monitor.
MutualExclusion ==
    \A t, u \in Thread, m \in Monitor :
        Ready(t) /\ Ready(u) /\ inside[t][m] > 0 /\ inside[u][m] > 0 => t = u

\* A thread blocked on a monitor has an owner of it to wait for.
BlockedMonitorIsOwned ==
    \A m \in Monitor : entry[m] # <<>> => owner[m] # NULL

\* The queues are disjoint and no thread is twice in one.
Distinct(queue) == \A j, k \in 1 .. Len(queue) : queue[j] = queue[k] => j = k

QueuedOnce ==
    /\ \A m \in Monitor : /\ Distinct(entry[m]) /\ Distinct(waiting[m])
                          /\ On(entry[m]) \cap On(waiting[m]) = {}
    /\ \A t \in Thread, m, n \in Monitor : Queued(t, m) /\ Queued(t, n) => m = n

\* A monitor is never taken from its owner: it stays until the owner exits or waits,
\* and then goes to the thread that has been blocked longest.  Nobody barges in.
HandedToLongestBlocked ==
    [][\A m \in Monitor :
          (owner[m] # NULL /\ owner'[m] # owner[m]) =>
              /\ Ready(owner[m])
              /\ owner'[m] = IF entry[m] = <<>> THEN NULL ELSE Head(entry[m])]_vars

-----------------------------------------------------------------------------
(* The invariant behind the ones above. *)

OwnerIsInside ==
    \A t \in Thread, m \in Monitor :
        owner[m] = t => depth[m] = inside[t][m] /\ depth[m] > 0 /\ ~Queued(t, m)

InsideOwnsOrQueues ==
    \A t \in Thread, m \in Monitor : inside[t][m] > 0 => owner[m] = t \/ Queued(t, m)

\* What a queued thread will get when it gets the monitor is what it is inside.
QueuedKnowsItsDepth ==
    /\ \A t \in Thread, m \in Monitor : Queued(t, m) => inside[t][m] = DepthOf(t, saved)
    /\ \A t \in Thread, m \in Monitor : t \in On(waiting[m]) => saved[t] > 0
    /\ \A t \in Thread : saved[t] > 0 => ~Ready(t)

IInv ==
    /\ TypeOK
    /\ QueuedOnce
    /\ OwnerIsInside
    /\ InsideOwnsOrQueues
    /\ QueuedKnowsItsDepth
    /\ BlockedMonitorIsOwned

=============================================================================
