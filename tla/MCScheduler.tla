----------------------------- MODULE MCScheduler -----------------------------
\* Instances of the scheduler: the idle thread and two or three others.
EXTENDS SchedulerLiveness, TLC

CONSTANTS idle, t1, t2, t3, m1, s1

MCPriority == idle :> 1 @@ t1 :> 31 @@ t2 :> 31 @@ t3 :> 31
MCMixedPriority == idle :> 1 @@ t1 :> 31 @@ t2 :> 32 @@ t3 :> 31
\* Threads of one priority cannot be told apart.
MCSymmetry == Permutations({t1, t2, t3})
MCMixedSymmetry == Permutations({t1, t3})
MCCount == [s \in Semaphore |-> 1]

=============================================================================
