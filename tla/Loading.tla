------------------------------- MODULE Loading -------------------------------
(***************************************************************************)
(* The loading of classes by several threads (iterativeLoad.c, with the    *)
(* class table of table.c): the loading thread enters the load monitor of  *)
(* the class and of every superclass and superinterface that is not        *)
(* loaded, collecting them in a list, and then defines them in the         *)
(* opposite order.  An entry of the class table keeps its monitor in a     *)
(* union whose other members overwrite it when the class is prepared or    *)
(* found to be in error.                                                   *)
(***************************************************************************)
EXTENDS Monitors, FiniteSets

CONSTANTS
    Hierarchies,        \* what the class files may say: class -> its superclass and
                        \* superinterfaces, in order
    Defective,          \* the classes whose files may turn out to be invalid
    MonitorReadIsAtomic \* is the status read together with the monitor it stands for

Class == Monitor

ASSUME LoadingAssumption ==
    /\ \A parents \in Hierarchies : parents \in [Class -> Seq(Class)]
    /\ Defective \subseteq Class
    /\ MonitorReadIsAtomic \in BOOLEAN

VARIABLES
    parentsOf,      \* the hierarchy of the class files
    status,         \* class -> status of its entry in the class table
    definitions,    \* class -> how often it was constructed and put into the table
    stage,          \* thread -> where it is in iterativeLoadClass
    loadList,       \* thread -> pClassList
    index           \* thread -> index in pClassList

loadVars == <<parentsOf, status, definitions, stage, loadList, index>>
allVars == <<vars, loadVars>>

\* preloadDataStruct; pChildLoad leads through the classes in children.
Preload(c, children) == [class |-> c, children |-> children, entered |-> FALSE]

classInTableIsLoaded(c) == status[c] = "PREPARED"
classInTableIsInError(c) == status[c] = "ERROR"

Current(t) == loadList[t][index[t]]
Goes(t, s, i) == stage' = [stage EXCEPT ![t] = s] /\ index' = [index EXCEPT ![t] = i]

\* The list is complete when the index has passed its last class.
Examine(t, list, i) ==
    /\ loadList' = [loadList EXCEPT ![t] = list]
    /\ Goes(t, IF i > Len(list) THEN "EXAMINED" ELSE "PROBE", i)

setChildStatus(e) ==
    status' = [c \in Class |-> IF c = e.class \/ c \in On(e.children) THEN "ERROR" ELSE status[c]]

Abandon(t) == Goes(t, "RELEASE", 1) /\ UNCHANGED loadList

-----------------------------------------------------------------------------
(* The list of the classes to be loaded. *)

RECURSIVE Deduplicate(_, _, _)
Deduplicate(list, i, j) ==
    LET n == Len(list)
    IN  IF i >= n THEN list
        ELSE IF j >= n THEN Deduplicate(list, i + 1, i + 2)
        ELSE IF list[n - i].class = list[n - j].class
             THEN Deduplicate(RemoveAt(list, n - j), i + 1, j + 1)
             ELSE Deduplicate(list, i, j + 1)

removeDuplicates(list) == Deduplicate(list, 1, 2)

AddParents_superClassOnly(list, e) ==
    LET line == <<e.class>> \o e.children
        all  == parentsOf[e.class]
        new  == SelectSeq(SubSeq(all, 1, IF all = <<>> THEN 0 ELSE 1), LAMBDA p : ~classInTableIsLoaded(p))
    IN  [list |-> list \o [k \in DOMAIN new |-> Preload(new[k], line)],
         failed |-> \E k \in DOMAIN new :
                        classInTableIsInError(new[k]) \/ new[k] \in On(line)]

\* What addParentsToLoadList makes of a list: parents that are loaded are left out,
\* one in error or one of the class's own subclasses ends the loading.
AddParents(list, e) ==
    LET line == <<e.class>> \o e.children
        new  == SelectSeq(parentsOf[e.class], LAMBDA p : ~classInTableIsLoaded(p))
    IN  [list |-> list \o [k \in DOMAIN new |-> Preload(new[k], line)],
         failed |-> \E k \in DOMAIN new :
                        classInTableIsInError(new[k]) \/ new[k] \in On(line)]

-----------------------------------------------------------------------------

\* obtainClassRef and loadClass.
Begin(t, c) ==
    /\ stage[t] = "IDLE"
    /\ ~classInTableIsLoaded(c) /\ ~classInTableIsInError(c)
    /\ status' = [status EXCEPT ![c] = "REFERENCED"]
    /\ Examine(t, <<Preload(c, <<>>)>>, 1)
    /\ UNCHANGED <<vars, parentsOf, definitions>>

\* The next class of the list is reserved in the class table, unless it is loaded.
Probe(t) ==
    LET c == Current(t).class
    IN  /\ stage[t] = "PROBE"
        /\ \/ /\ classInTableIsLoaded(c)
              /\ Examine(t, RemoveAt(loadList[t], index[t]), index[t])
              /\ UNCHANGED status
           \/ /\ ~classInTableIsLoaded(c)
              /\ status' = [status EXCEPT ![c] = IF @ = "INEXISTENT" THEN "REFERENCED" ELSE @]
              /\ Goes(t, "READ_MONITOR", index[t]) /\ UNCHANGED loadList
        /\ UNCHANGED <<vars, parentsOf, definitions>>

\* The monitor in the entry is entered.  If the entry no longer has one, the error
\* code or the class instance is taken for a monitor and anything may follow:
\* the thread is not followed any further.
ReadMonitor(t) ==
    LET c == Current(t).class
    IN  /\ stage[t] = "READ_MONITOR"
        /\ \/ /\ status[c] = "REFERENCED"
              /\ Enter(t, c)
              /\ Goes(t, "ENTERED", index[t])
              /\ loadList' = [loadList EXCEPT ![t][index[t]].entered = TRUE]
           \/ /\ status[c] = "PREPARED" /\ MonitorReadIsAtomic
              /\ Examine(t, RemoveAt(loadList[t], index[t]), index[t])
              /\ UNCHANGED vars
           \/ /\ status[c] = "ERROR" \/ (status[c] = "PREPARED" /\ ~MonitorReadIsAtomic)
              /\ Goes(t, "BROKEN", index[t])
              /\ UNCHANGED <<vars, loadList>>
        /\ UNCHANGED <<parentsOf, status, definitions>>

LoadedByOther(t) ==
    /\ stage[t] = "ENTERED" /\ Ready(t)
    /\ classInTableIsLoaded(Current(t).class)
    /\ Exit(t, Current(t).class)
    /\ Examine(t, RemoveAt(loadList[t], index[t]), index[t])
    /\ UNCHANGED <<parentsOf, status, definitions>>

\* Another thread failed with the class, or its file turns out to be invalid.
FoundInError(t) ==
    /\ stage[t] = "ENTERED" /\ Ready(t)
    /\ ~classInTableIsLoaded(Current(t).class)
    /\ classInTableIsInError(Current(t).class) \/ Current(t).class \in Defective
    /\ setChildStatus(Current(t))
    /\ Abandon(t)
    /\ UNCHANGED <<vars, parentsOf, definitions>>

PreloadClass_unchecked(t) ==
    LET added == AddParents(loadList[t], Current(t))
    IN  /\ stage[t] = "ENTERED" /\ Ready(t) /\ ~classInTableIsInError(Current(t).class)
        /\ IF added.failed THEN Abandon(t) ELSE Examine(t, added.list, index[t] + 1)
        /\ UNCHANGED <<vars, parentsOf, status, definitions>>

\* The head of the class file is read and the parents are added to the list.
PreloadClass(t) ==
    LET added == AddParents(loadList[t], Current(t))
    IN  /\ stage[t] = "ENTERED" /\ Ready(t)
        /\ ~classInTableIsLoaded(Current(t).class) /\ ~classInTableIsInError(Current(t).class)
        /\ IF added.failed THEN Abandon(t) ELSE Examine(t, added.list, index[t] + 1)
        /\ UNCHANGED <<vars, parentsOf, status, definitions>>

\* Each entry that removeDuplicates drops leaves the monitor once.
Examined(t) ==
    LET list == removeDuplicates(loadList[t])
        dropped(c) == Cardinality({k \in DOMAIN loadList[t] : loadList[t][k].class = c})
                        - Cardinality({k \in DOMAIN list : list[k].class = c})
    IN  /\ stage[t] = "EXAMINED"
        /\ loadList' = [loadList EXCEPT ![t] = list]
        /\ Goes(t, "COMPLETE", Len(list))
        /\ depth' = [c \in Class |-> depth[c] - dropped(c)]
        /\ inside' = [inside EXCEPT ![t] = [c \in Class |-> @[c] - dropped(c)]]
        /\ UNCHANGED <<owner, entry, waiting, saved, parentsOf, status, definitions>>

CompleteClassLoad(t) ==
    LET c == Current(t).class
    IN  /\ stage[t] = "COMPLETE" /\ index[t] > 0
        /\ \/ /\ status' = [status EXCEPT ![c] = "PREPARED"]
              /\ definitions' = [definitions EXCEPT ![c] = @ + 1]
              /\ Goes(t, "DEFINED", index[t]) /\ UNCHANGED loadList
           \/ /\ c \in Defective
              /\ setChildStatus(Current(t))
              /\ Abandon(t)
              /\ UNCHANGED definitions
        /\ UNCHANGED <<vars, parentsOf>>

Release(t, k) ==
    /\ Exit(t, loadList[t][k].class)
    /\ loadList' = [loadList EXCEPT ![t][k].entered = FALSE]

ReleaseDefined_keepsFirst(t) ==
    /\ stage[t] = "DEFINED"
    /\ IF index[t] > 1 THEN Release(t, index[t]) ELSE UNCHANGED <<vars, loadList>>
    /\ Goes(t, "COMPLETE", index[t] - 1)
    /\ UNCHANGED <<parentsOf, status, definitions>>

ReleaseDefined(t) ==
    /\ stage[t] = "DEFINED"
    /\ Release(t, index[t])
    /\ Goes(t, "COMPLETE", index[t] - 1)
    /\ UNCHANGED <<parentsOf, status, definitions>>

\* releaseIterativeLoadResources, after an error.
ReleaseNext(t) ==
    /\ stage[t] = "RELEASE" /\ index[t] <= Len(loadList[t])
    /\ IF Current(t).entered THEN Release(t, index[t]) ELSE UNCHANGED <<vars, loadList>>
    /\ Goes(t, "RELEASE", index[t] + 1)
    /\ UNCHANGED <<parentsOf, status, definitions>>

Return(t) ==
    /\ \/ stage[t] = "RELEASE" /\ index[t] > Len(loadList[t])
       \/ stage[t] = "COMPLETE" /\ index[t] = 0
    /\ loadList' = [loadList EXCEPT ![t] = <<>>]
    /\ Goes(t, "IDLE", 0)
    /\ UNCHANGED <<vars, parentsOf, status, definitions>>

LoadInit ==
    /\ Init
    /\ parentsOf \in Hierarchies
    /\ status = [c \in Class |-> "INEXISTENT"]
    /\ definitions = [c \in Class |-> 0]
    /\ stage = [t \in Thread |-> "IDLE"]
    /\ loadList = [t \in Thread |-> <<>>]
    /\ index = [t \in Thread |-> 0]

LoadStep(t) ==
    \/ Probe(t) \/ ReadMonitor(t) \/ LoadedByOther(t) \/ FoundInError(t) \/ PreloadClass(t)
    \/ Examined(t) \/ CompleteClassLoad(t) \/ ReleaseDefined(t) \/ ReleaseNext(t) \/ Return(t)

LoadNext == \E t \in Thread : LoadStep(t) \/ \E c \in Class : Begin(t, c)

\* Every thread gets to run (SchedulerLiveness!RoundRobin).
LoadSpec == LoadInit /\ [][LoadNext]_allVars /\ \A t \in Thread : WF_allVars(LoadStep(t))

-----------------------------------------------------------------------------

\* A class is constructed only when all its parents are in the class table (load.c,
\* completeClassLoad, relies on it), however many threads load parts of the hierarchy,
\* and whatever is removed from the list on the way.
ParentsAreLoadedFirst ==
    [][\A c \in Class : definitions'[c] > definitions[c] =>
          \A p \in On(parentsOf[c]) : status[p] = "PREPARED"]_allVars

\* A thread that has returned from loading, with or without an error, has left every
\* load monitor as often as it entered it.
LoadMonitorsAreLeft ==
    \A t \in Thread, c \in Class : stage[t] = "IDLE" => inside[t][c] = 0

\* A class none of whose ancestors is reached in two ways.
IsTree(c) ==
    LET above[n \in Nat] == IF n = 0 THEN {c}
                            ELSE above[n - 1] \cup UNION {On(parentsOf[d]) : d \in above[n - 1]}
        all == above[Cardinality(Class)]
    IN  \A d, e \in all : d # e => On(parentsOf[d]) \cap On(parentsOf[e]) = {}

\* Unless a class is inherited in two ways, it is constructed once, however many threads
\* load it, alone or as a parent: there are never two classes of one name.  (When it is,
\* removeDuplicates leaves it in the list: see DuplicatesAreRemoved.)
DefinedOnce == (\A c \in Class : IsTree(c)) => \A c \in Class : definitions[c] <= 1

\* removeDuplicates promises to "remove any duplicates in the list, which may occur if two
\* implemented interfaces inherit from the same interface" (iterativeLoad.c:85).
DuplicatesAreRemoved ==
    \A t \in Thread : stage[t] \in {"COMPLETE", "DEFINED"} =>
        \A j, k \in DOMAIN loadList[t] : loadList[t][j].class = loadList[t][k].class => j = k

\* Threads that wait for one another's load monitors, or for those of a broken one.
WaitForEver(t) ==
    \E S \in SUBSET Thread : t \in S /\ \A u \in S :
        \/ stage[u] = "BROKEN"
        \/ \E c \in Class : u \in On(entry[c]) /\ owner[c] \in S

\* Loading comes to an end, unless threads load interfaces in different orders and
\* wait for each other, or one of them took something else for a monitor.
LoadingEnds == \A t \in Thread : stage[t] # "IDLE" ~> stage[t] = "IDLE" \/ WaitForEver(t)

\* getClassMonitorPtrFromEntry asserts it of the entry it is given (base.h).
MonitorIsReadFromReferenced == \A t \in Thread : stage[t] # "BROKEN"

=============================================================================
