--------------------------- MODULE SchedulerLiveness ---------------------------
(***************************************************************************)
(* What the scheduler of module Scheduler has to make happen, and that it  *)
(* implements the monitors of module Monitors.                             *)
(***************************************************************************)
EXTENDS SchedulerSafety

\* The hardware's ticks go on for ever and every TICKS_PER_RESCHEDULE-th of them is
\* a scheduled one (handleTick); the handler returns.  Nothing is assumed of the
\* programs: a thread may run for ever without a call.
FairSpec ==
    /\ Spec
    /\ SF_vars(TickInterrupt("scheduled"))
    /\ WF_vars(TickReturns)

\* schedule.c:13, threads at the highest priority "are run in a round-robin basis": a thread that stays
\* runnable while none of a higher priority is gets to run again and again, however
\* often the others yield, block, start or are woken in between.
OfHighestPriority(t) == Runnable(t) /\ \A p \in lists.map : p <= currentPriority[t]

RoundRobin ==
    \A t \in Thread : <>[]OfHighestPriority(t) => []<>(current = t)

\* A thread is blocked on a monitor for ever only if the monitor stops changing
\* hands: nobody is overtaken without end (thread.h:14, the lists are FIFO).
NeverOvertakenForEver ==
    \A t \in Thread, m \in Monitor :
        <>[](t \in EntriesOf(lists, BlockedOn(m))) => <>[][pOwner'[m] = pOwner[m]]_vars

-----------------------------------------------------------------------------

\* The monitors as module Monitors sees them: their lists are queues, a free monitor
\* has no depth, and a thread keeps one for as long as it has a monitor to get back.
shownDepth == [m \in Monitor |-> IF pOwner[m] = NULL THEN 0 ELSE depth[m]]
blockedQueue == [m \in Monitor |-> AsSequence(lists, BlockedOn(m))]
waitQueue == [m \in Monitor |-> AsSequence(lists, WaitingOn(m))]
savedDepth == [t \in Thread |-> IF pWaitMonitor[t] = NULL THEN 0 ELSE waitMonitorDepth[t]]

MonitorsOf == INSTANCE Monitors WITH
    owner   <- pOwner,
    depth   <- shownDepth,
    entry   <- blockedQueue,
    waiting <- waitQueue,
    saved   <- savedDepth,
    inside  <- nesting

\* Every call of the scheduler's API, every timeout and every interrupt is a step of the
\* monitors or leaves them alone.
ImplementsMonitors == MonitorsOf!Spec

=============================================================================
