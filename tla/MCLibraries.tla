----------------------------- MODULE MCLibraries -----------------------------
(***************************************************************************)
(* The data structures under the scheduler and the heap, one of them at    *)
(* work in every behaviour: the linked lists, the priority map, the timer  *)
(* queue and the heap.                                                     *)
(***************************************************************************)
EXTENDS PriorityMap, Timers, HeapSafety, TLC

CONSTANTS l1, l2, l3, l4

VARIABLES
    part,                                                   \* which of them it is
    mem                                                     \* ListMachine

listVars    == mem
allVars     == <<part, vars, listVars, timerVars, heapVars>>

\* Two lists in order of arrival, a sorted one, and entries two of which have the
\* same rank.
List == INSTANCE ListMachine WITH
    Lists <- {"p", "q"}, SortedList <- "sorted", Entries <- {l1, l2, l3, l4},
    Rank <- l1 :> 1 @@ l2 :> 2 @@ l3 :> 2 @@ l4 :> 3

ASSUME List!ListAssumption /\ TimersAssumption /\ HeapAssumption

LibrariesInit ==
    /\ part \in {"lists", "priorities", "timers", "heap"}
    /\ Init /\ List!Init /\ TimersInit /\ HeapInit

PriorityStep ==
    part = "priorities" /\ Next /\ UNCHANGED <<part, listVars, timerVars, heapVars>>
ListStep ==
    part = "lists" /\ List!Next /\ UNCHANGED <<part, vars, timerVars, heapVars>>
TimerStep ==
    part = "timers" /\ TimersNext /\ UNCHANGED <<part, vars, listVars, heapVars>>
HeapStep ==
    part = "heap" /\ HeapNext /\ UNCHANGED <<part, vars, listVars, timerVars>>

LibrariesNext == PriorityStep \/ ListStep \/ TimerStep \/ HeapStep

LibrariesSpec == LibrariesInit /\ [][LibrariesNext]_allVars

-----------------------------------------------------------------------------

\* Whatever the calls of linkedList.c, the pointers are the sequences the callers
\* believe in.
ImplementsSequences ==
    /\ List!Sequences!Init
    /\ [][part = "lists" => List!Sequences!Next \/ UNCHANGED List!contents]_mem

=============================================================================
