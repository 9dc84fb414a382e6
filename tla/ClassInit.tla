------------------------------ MODULE ClassInit ------------------------------
(***************************************************************************)
(* Class initialisation (CLINIT_OPCODE in specialHandlers.c) by several    *)
(* threads, over the monitors of module Monitors: each class object is a   *)
(* monitor.  An instruction that uses a class pushes an internal frame     *)
(* whose only byte code takes the class through its stages, with the       *)
(* frame of <clinit> and the internal frames of superclasses above it.     *)
(* The preemptive configuration: a thread blocks inside monitorEnter.      *)
(***************************************************************************)
EXTENDS Monitors

CONSTANTS
    pSuperClass,    \* class -> its superclass or NULL
    HasInitializer, \* the classes with a <clinit> method
    Uses,           \* class -> the classes its <clinit> may use
    MemoryFails     \* may a monitor or an ExceptionInInitializerError not be allocated

Class == Monitor

ASSUME ClassInitAssumption ==
    /\ pSuperClass \in [Class -> Class \cup {NULL}]
    /\ HasInitializer \subseteq Class
    /\ Uses \in [Class -> SUBSET Class]
    /\ MemoryFails \in BOOLEAN
    /\ NULL \notin {"Throwable", "ExceptionInInitializerError"}

VARIABLES
    initializationStatus,
    pInitializingThread,
    stack,          \* thread -> its internal frames, the newest last
    thrown,         \* thread -> what its program is to deal with: NULL, "Throwable" or
                    \* "ExceptionInInitializerError", which is not wrapped in another
    runs            \* class -> the times its <clinit> was started

classVars == <<initializationStatus, pInitializingThread, stack, thrown, runs>>
allVars == <<vars, classVars>>

classIsInitialized(c, t) ==
    initializationStatus[c] = "INITIALIZED" \/ pInitializingThread[c] = t

classInitializationHasStarted(c) == pInitializingThread[c] # NULL

\* The newest internal frame of a thread that is not queued at a monitor.
Stage(t) == IF stack[t] = <<>> THEN "NONE" ELSE Last(stack[t]).stage
At(t, stage) == Ready(t) /\ Stage(t) = stage
ClassOf(t) == Last(stack[t]).class

Goto(t, stage) == stack' = [stack EXCEPT ![t][Len(stack[t])].stage = stage]

initialFrame(c) == [class |-> c, stage |-> "INITIAL_STAGE", thrownThrowable |-> NULL]

\* A program runs when no internal frame is above its own: <clinit> or what is below.
ProgramRuns(t) ==
    Ready(t) /\ thrown[t] = NULL /\ Stage(t) \in {"NONE", "RUNNING"}

\* findNewFrame: the catch-all handler of an internal frame leaves what was thrown in
\* thrownThrowableObject; otherwise the program below gets it.
popAndThrow(t, e) ==
    LET below == Front(stack[t])
    IN  IF below = <<>> \/ Last(below).stage = "RUNNING"
        THEN stack' = [stack EXCEPT ![t] = below] /\ thrown' = [thrown EXCEPT ![t] = e]
        ELSE /\ stack' = [stack EXCEPT
                    ![t] = [below EXCEPT ![Len(below)].thrownThrowable = e]]
             /\ UNCHANGED thrown

popCurrentFrame(t) == stack' = [stack EXCEPT ![t] = Front(@)] /\ UNCHANGED thrown

-----------------------------------------------------------------------------
(* The programs. *)

\* INVOKESTATIC, NEW, GETSTATIC and PUTSTATIC: initializeClass unless it is.
UseClass(t, c) ==
    /\ ProgramRuns(t)
    /\ stack[t] # <<>> => c \in Uses[ClassOf(t)]
    /\ ~classIsInitialized(c, t)
    /\ \/ /\ stack' = [stack EXCEPT ![t] = Append(@, initialFrame(c))]
          /\ UNCHANGED thrown
       \/ /\ MemoryFails
          /\ thrown' = [thrown EXCEPT ![t] = "Throwable"]
          /\ UNCHANGED stack
    /\ UNCHANGED <<vars, initializationStatus, pInitializingThread, runs>>

\* <clinit> returns, or throws something of its own.
ClinitReturns(t, e) ==
    /\ ProgramRuns(t)
    /\ stack[t] # <<>>
    /\ stack' = [stack EXCEPT ![t][Len(stack[t])] =
           [@ EXCEPT !.stage = "COMPLETED_CLINIT", !.thrownThrowable = e]]
    /\ UNCHANGED <<vars, initializationStatus, pInitializingThread, thrown, runs>>

\* The program catches what was thrown, or <clinit> ends with it.
Catch(t) ==
    /\ Ready(t) /\ thrown[t] # NULL
    /\ thrown' = [thrown EXCEPT ![t] = NULL]
    /\ \/ UNCHANGED stack
       \/ /\ stack[t] # <<>>
          /\ stack' = [stack EXCEPT ![t][Len(stack[t])] =
                 [@ EXCEPT !.stage = "COMPLETED_CLINIT", !.thrownThrowable = thrown[t]]]
    /\ UNCHANGED <<vars, initializationStatus, pInitializingThread, runs>>

\* A program synchronizes on a class object: MONITORENTER and MONITOREXIT.
MonitorEnterClass(t, c) ==
    /\ stack[t] = <<>> /\ ProgramRuns(t) /\ \A d \in Class : inside[t][d] = 0
    /\ Enter(t, c)
    /\ UNCHANGED classVars

MonitorExitClass(t, c) ==
    /\ stack[t] = <<>> /\ ProgramRuns(t) /\ Exit(t, c)
    /\ UNCHANGED classVars

-----------------------------------------------------------------------------
(* The stages. *)

InitialStage(t) ==
    /\ At(t, "INITIAL_STAGE")
    /\ \/ Enter(t, ClassOf(t)) /\ Goto(t, "ENTERED_MONITOR") /\ UNCHANGED thrown
       \/ MemoryFails /\ popAndThrow(t, "Throwable") /\ UNCHANGED vars
    /\ UNCHANGED <<initializationStatus, pInitializingThread, runs>>

FindInitialized(t) ==
    /\ At(t, "ENTERED_MONITOR")
    /\ classIsInitialized(ClassOf(t), t)
    /\ popCurrentFrame(t)
    /\ Exit(t, ClassOf(t))
    /\ UNCHANGED <<initializationStatus, pInitializingThread, runs>>

\* monitorWait without a timeout; however it ends the class is looked at again.
WaitForOther(t) ==
    /\ At(t, "ENTERED_MONITOR")
    /\ ~classIsInitialized(ClassOf(t), t)
    /\ classInitializationHasStarted(ClassOf(t))
    /\ Wait(t, ClassOf(t))
    /\ UNCHANGED classVars

FindErroneous(t) ==
    /\ At(t, "ENTERED_MONITOR")
    /\ ~classInitializationHasStarted(ClassOf(t))
    /\ initializationStatus[ClassOf(t)] = "ERRONEOUS"
    /\ popAndThrow(t, "Throwable")
    /\ Exit(t, ClassOf(t))
    /\ UNCHANGED <<initializationStatus, pInitializingThread, runs>>

SetInitializingThread_unchecked(t) ==
    /\ At(t, "ENTERED_MONITOR")
    /\ initializationStatus[ClassOf(t)] = "UNINITIALIZED"
    /\ pInitializingThread[ClassOf(t)] # t
    /\ pInitializingThread' = [pInitializingThread EXCEPT ![ClassOf(t)] = t]
    /\ Exit(t, ClassOf(t))
    /\ Goto(t, "MARKED")
    /\ UNCHANGED <<initializationStatus, thrown, runs>>

SetInitializingThread(t) ==
    /\ At(t, "ENTERED_MONITOR")
    /\ ~classInitializationHasStarted(ClassOf(t))
    /\ initializationStatus[ClassOf(t)] = "UNINITIALIZED"
    /\ pInitializingThread' = [pInitializingThread EXCEPT ![ClassOf(t)] = t]
    /\ Exit(t, ClassOf(t))
    /\ Goto(t, "MARKED")
    /\ UNCHANGED <<initializationStatus, thrown, runs>>

\* The superclass is looked at without its monitor.
\* When there is no room for the frame of the superclass, the frame of this class
\* catches the StackOverflowError as if the superclass had thrown it.
InitializeSuper(t) ==
    LET above == pSuperClass[ClassOf(t)]
        done  == [Last(stack[t]) EXCEPT !.stage = "COMPLETED_SUPER_CLINIT"]
        mine(frames) == stack' = [stack EXCEPT ![t] = Front(@) \o frames]
    IN  /\ At(t, "MARKED")
        /\ IF above = NULL \/ classIsInitialized(above, t)
           THEN mine(<<done>>)
           ELSE \/ mine(<<done, initialFrame(above)>>)
                \/ /\ MemoryFails
                   /\ mine(<<[done EXCEPT !.thrownThrowable = "Throwable"]>>)
        /\ UNCHANGED <<vars, initializationStatus, pInitializingThread, thrown, runs>>

CompletedSuper(t) ==
    LET f == Last(stack[t])
        go(stage, e, n) ==
            /\ stack' = [stack EXCEPT ![t][Len(stack[t])] =
                             [f EXCEPT !.stage = stage, !.thrownThrowable = e]]
            /\ runs' = [runs EXCEPT ![f.class] = @ + n]
    IN  /\ At(t, "COMPLETED_SUPER_CLINIT")
        /\ \/ f.thrownThrowable # NULL /\ go("FAILED", f.thrownThrowable, 0)
           \/ /\ f.thrownThrowable = NULL
              /\ \/ f.class \notin HasInitializer /\ go("COMPLETED_CLINIT", NULL, 0)
                 \/ f.class \in HasInitializer /\ go("RUNNING", NULL, 1)
                 \/ /\ f.class \in HasInitializer /\ MemoryFails
                    /\ go("COMPLETED_CLINIT", "Throwable", 0)
        /\ UNCHANGED <<vars, initializationStatus, pInitializingThread, thrown>>

CompletedClinit(t) ==
    /\ At(t, "COMPLETED_CLINIT")
    /\ IF Last(stack[t]).thrownThrowable # NULL
       THEN Goto(t, "FAILED") /\ UNCHANGED vars
       ELSE Goto(t, "ENTERED_MONITOR_UPON_COMPLETION") /\ Enter(t, ClassOf(t))
    /\ UNCHANGED <<initializationStatus, pInitializingThread, thrown, runs>>

ClinitFailed(t) ==
    /\ At(t, "FAILED")
    /\ Goto(t, "ENTERED_MONITOR_UPON_FAILURE") /\ Enter(t, ClassOf(t))
    /\ UNCHANGED <<initializationStatus, pInitializingThread, thrown, runs>>

\* The fields are assigned before monitorNotifyAll wakes anyone.
SetStatus(t) ==
    \E stage \in {"ENTERED_MONITOR_UPON_COMPLETION", "ENTERED_MONITOR_UPON_FAILURE"} :
        /\ At(t, stage)
        /\ initializationStatus' = [initializationStatus EXCEPT ![ClassOf(t)] =
               IF stage = "ENTERED_MONITOR_UPON_FAILURE" THEN "ERRONEOUS" ELSE "INITIALIZED"]
        /\ pInitializingThread' = [pInitializingThread EXCEPT ![ClassOf(t)] = NULL]
        /\ Goto(t, "NOTIFY")
        /\ UNCHANGED <<vars, thrown, runs>>

NotifyWaiting(t) ==
    /\ At(t, "NOTIFY")
    /\ \/ waiting[ClassOf(t)] = <<>> /\ UNCHANGED vars
       \/ NotifyAll(t, ClassOf(t))
    /\ Goto(t, "EXIT")
    /\ UNCHANGED <<initializationStatus, pInitializingThread, thrown, runs>>

Finish_notThrown(t) ==
    /\ At(t, "EXIT") /\ Last(stack[t]).thrownThrowable = NULL
    /\ Exit(t, ClassOf(t)) /\ popCurrentFrame(t)
    /\ UNCHANGED <<initializationStatus, pInitializingThread, runs>>

\* What the initializer threw is thrown on, inside an ExceptionInInitializerError
\* unless it is one, or as the OutOfMemoryError of creating that.
Finish(t) ==
    LET e == Last(stack[t]).thrownThrowable
    IN  /\ At(t, "EXIT")
        /\ Exit(t, ClassOf(t))
        /\ \/ e = NULL /\ popCurrentFrame(t)
           \/ e # NULL /\ popAndThrow(t, "ExceptionInInitializerError")
           \/ /\ MemoryFails /\ e \notin {NULL, "ExceptionInInitializerError"}
              /\ popAndThrow(t, "Throwable")
        /\ UNCHANGED <<initializationStatus, pInitializingThread, runs>>

\* interruptThread while a thread waits for another's initialisation.
Interrupt(c, k) == Awaken(c, k) /\ UNCHANGED classVars

-----------------------------------------------------------------------------

ClassesInit ==
    /\ Init
    /\ initializationStatus = [c \in Class |-> "UNINITIALIZED"]
    /\ pInitializingThread = [c \in Class |-> NULL]
    /\ stack = [t \in Thread |-> <<>>]
    /\ thrown = [t \in Thread |-> NULL]
    /\ runs = [c \in Class |-> 0]

\* What a program does sooner or later.
Ends(t) ==
    \/ \E e \in {NULL, "Throwable"} : ClinitReturns(t, e)
    \/ \E c \in Class : MonitorExitClass(t, c)

\* What the virtual machine does of itself.
Step(t) ==
    \/ InitialStage(t) \/ FindInitialized(t) \/ WaitForOther(t) \/ FindErroneous(t)
    \/ SetInitializingThread(t) \/ InitializeSuper(t) \/ CompletedSuper(t)
    \/ CompletedClinit(t) \/ ClinitFailed(t) \/ SetStatus(t) \/ NotifyWaiting(t) \/ Finish(t)
    \/ Catch(t)

ClassNext ==
    \/ \E t \in Thread : Step(t) \/ Ends(t)
    \/ \E t \in Thread, c \in Class : UseClass(t, c) \/ MonitorEnterClass(t, c)
    \/ \E c \in Class : \E k \in 1 .. Len(waiting[c]) : Interrupt(c, k)

\* Every thread gets to run (SchedulerLiveness!RoundRobin), and its program leaves
\* what it synchronizes on and returns from <clinit>, whatever else it does before.
ClassSpec ==
    /\ ClassesInit
    /\ [][ClassNext]_allVars
    /\ \A t \in Thread : WF_allVars(Step(t)) /\ SF_allVars(Ends(t))

-----------------------------------------------------------------------------

\* However many threads use a class at a time, are interrupted, or fail, its <clinit>
\* is executed by one thread and once.
InitializerRunsOnce == \A c \in Class : runs[c] <= 1

\* A class's <clinit> is executed after its superclass has been initialised, unless
\* the same thread is doing that (the superclass's initializer uses the subclass):
\* although the superclass is looked at without its monitor.
SuperClassFirst ==
    \A t \in Thread : \A k \in DOMAIN stack[t] :
        LET f == stack[t][k]
        IN  f.stage = "RUNNING" /\ pSuperClass[f.class] # NULL
                => classIsInitialized(pSuperClass[f.class], t)

\* A thread waits for a class only while another thread initialises it or is about to
\* notify everyone: no failure, of the class or of its superclass, loses the notification.
WaitersWillBeNotified ==
    \A c \in Class : waiting[c] # <<>> =>
        \/ pInitializingThread[c] # NULL
        \/ \E t \in Thread : At(t, "NOTIFY") /\ ClassOf(t) = c

\* Once, after the superclass, and without losing the threads that wait for it: what
\* initializeClass promises the instructions that call it.
InitialisationIsOrdered == InitializerRunsOnce /\ SuperClassFirst /\ WaitersWillBeNotified

\* The thread that is initialising the class a thread is to use, which waits for it
\* whenever it looks, or the one whose monitor it is blocked on.
AwaitedBy(t) ==
    IF Stage(t) = "ENTERED_MONITOR" /\ pInitializingThread[ClassOf(t)] \notin {NULL, t}
    THEN {pInitializingThread[ClassOf(t)]}
    ELSE {owner[c] : c \in {d \in Class : t \in On(entry[d])}}

\* Threads that all wait for one another: the initializers use each other's classes.
WaitInCircle(t) ==
    \E S \in SUBSET Thread :
        t \in S /\ \A u \in S : AwaitedBy(u) # {} /\ AwaitedBy(u) \subseteq S

\* Every use of a class comes to an end, with the class initialised or an error
\* thrown, unless it is one of those in a circle, which the class library's
\* specification allows: nothing else leaves a thread in initializeClass for ever.
EveryUseEnds == \A t \in Thread : stack[t] # <<>> ~> stack[t] = <<>> \/ WaitInCircle(t)

=============================================================================
