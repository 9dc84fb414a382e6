-------------------------------- MODULE Marking --------------------------------
(***************************************************************************)
(* The concurrent collection of jvm/src/object/allocate.c, with the        *)
(* instructions that move references while it goes on.                     *)
(*                                                                         *)
(* A Java thread that collects runs javaMarkFunction and then the sweep,   *)
(* object by object and block by block, while the other Java threads       *)
(* execute instructions; only a thread whose stack is being marked is      *)
(* disabled.  An instruction is a step, but getfield is two: what it has   *)
(* read is in a local variable of the interpreter before it is grey.       *)
(***************************************************************************)
EXTENDS Integers, Sequences, FiniteSets, SequencesExt

CONSTANTS
    NULL,
    Thread,         \* the active Java threads
    Collectors,     \* the threads that collect garbage
    LastBlock,      \* the blocks of the heap are 1 .. LastBlock, in its order
    ObjectFields,   \* block -> how many object fields or elements it has room for
    Disciplines     \* what the programs do not do, see below

\* "NoWhiteIntoBlack"      while the roots are marked, no object that is not marked is
\*                         stored in a field of one that is black
\* "LoadsUninterrupted"    nothing happens between the two steps of getfield

Block == 1 .. LastBlock
BlockOrNull == Block \cup {NULL}

ASSUME MarkingAssumption ==
    /\ LastBlock \in Nat \ {0}
    /\ ObjectFields \in [Block -> Nat]
    /\ NULL \notin Block /\ NULL \notin Thread \cup Collectors

VARIABLES
    allocated,      \* the blocks that hold an object
    field,          \* block -> its object fields
    static,         \* the static fields, taken together as one
    stack,          \* thread -> the objects its frames refer to
    loaded,         \* thread -> what getfield has read and not yet pushed
    black, grey,    \* the blocks whose BLACK_BIT and GREY_BIT are set
    gc,             \* where the collection is
    garbage         \* of the model: what no thread could reach when it began

objects == <<allocated, field, static, stack, loaded>>
colours == <<black, grey>>
vars == <<objects, colours, gc, garbage>>

Idle == [phase |-> "none", collector |-> NULL, pBlock |-> 1, unmarked |-> {},
         disabled |-> {}, roots |-> {}, path |-> <<>>, released |-> {}]

NoFields(o) == [i \in 1 .. ObjectFields[o] |-> NULL]

-----------------------------------------------------------------------------
(* What can be reached. *)

Visible == ({static} \ {NULL}) \cup UNION {stack[t] : t \in Thread}

Roots == Visible \cup ({loaded[t] : t \in Thread} \ {NULL})

FieldsOf(S) == {v \in Block : \E o \in S : \E i \in 1 .. ObjectFields[o] : field[o][i] = v}

\* The least set that holds the roots and what its objects refer to.
Reachable ==
    LET roots  == Roots
        closed == {S \in SUBSET Block : roots \subseteq S /\ FieldsOf(S) \subseteq S}
    IN  {o \in Block : \A S \in closed : o \in S}

-----------------------------------------------------------------------------
(* The instructions. *)

RootPhases == {"whiten", "classTable", "stacks"}

\* The thread neither collects nor is disabled.
Enabled(t) == t # gc.collector /\ t \notin gc.disabled /\ gc.phase # "markDisabled"

\* It is at the beginning of an instruction.
Executes(t) == Enabled(t) /\ loaded[t] = NULL

Undisturbed == "LoadsUninterrupted" \in Disciplines => \A t \in Thread : loaded[t] = NULL

\* Its colour is one of this collection, and not left by the one before.
Whitened(o) == gc.phase = "whiten" => o < gc.pBlock
Marked(o) == o \in black \cup grey /\ Whitened(o)

setGrey(o) == grey' = IF o = NULL THEN grey ELSE grey \cup {o}

concurrentGCGreyObject_not(o) == UNCHANGED grey
concurrentGCGreyObject(o) == setGrey(o)

staticGreyed(o) == concurrentGCGreyObject(o)

Push(t, o) == stack' = IF o = NULL THEN stack ELSE [stack EXCEPT ![t] = @ \cup {o}]

\* new and its variants: the block is black when it is allocated.
new(t, o) ==
    /\ Executes(t) /\ Undisturbed
    /\ o \notin allocated /\ o \notin gc.released
    /\ allocated' = allocated \cup {o}
    /\ field' = [field EXCEPT ![o] = NoFields(o)]
    /\ Push(t, o)
    /\ black' = black \cup {o}
    /\ UNCHANGED <<static, loaded, grey, gc, garbage>>

getfieldReads(t, o, i) ==
    /\ Executes(t) /\ Undisturbed
    /\ o \in stack[t] /\ field[o][i] # NULL
    /\ loaded' = [loaded EXCEPT ![t] = field[o][i]]
    /\ UNCHANGED <<allocated, field, static, stack, colours, gc, garbage>>

\* getfield and aaload: what was read is greyed and pushed.
getfieldPushes(t) ==
    /\ Enabled(t) /\ loaded[t] # NULL
    /\ concurrentGCGreyObject(loaded[t])
    /\ Push(t, loaded[t])
    /\ loaded' = [loaded EXCEPT ![t] = NULL]
    /\ UNCHANGED <<allocated, field, static, black, gc, garbage>>

\* putfield and aastore.
putfield(t, o, i, v) ==
    /\ Executes(t) /\ Undisturbed
    /\ o \in stack[t] /\ v \in stack[t] \cup {NULL}
    /\ "NoWhiteIntoBlack" \in Disciplines /\ gc.phase \in RootPhases =>
          v = NULL \/ Marked(v) \/ ~(o \in black /\ Whitened(o))
    /\ field' = [field EXCEPT ![o][i] = v]
    /\ UNCHANGED <<allocated, static, stack, loaded, colours, gc, garbage>>

getstatic(t) ==
    /\ Executes(t) /\ Undisturbed
    /\ Push(t, static)
    /\ UNCHANGED <<allocated, field, static, loaded, colours, gc, garbage>>

putstatic(t, v) ==
    /\ Executes(t) /\ Undisturbed
    /\ v \in stack[t] \cup {NULL}
    /\ staticGreyed(v)
    /\ static' = v
    /\ UNCHANGED <<allocated, field, stack, loaded, black, gc, garbage>>

\* A reference is popped, overwritten, or goes with its frame.
pop(t, o) ==
    /\ Executes(t) /\ Undisturbed
    /\ o \in stack[t]
    /\ stack' = [stack EXCEPT ![t] = @ \ {o}]
    /\ UNCHANGED <<allocated, field, static, loaded, colours, gc, garbage>>

-----------------------------------------------------------------------------
(* The collection. *)

\* The collector looks at the next block, if there is one, or goes on to what is next.
NextBlock(then) ==
    IF gc.pBlock < LastBlock
    THEN [gc EXCEPT !.pBlock = @ + 1, !.path = <<>>]
    ELSE [gc EXCEPT !.pBlock = 1, !.phase = then, !.path = <<>>]

\* garbageCollect, or garbageCollectForMemory when there is no block left for t.
collect(t) ==
    /\ gc.phase = "none" /\ Undisturbed
    /\ t \in Thread => Executes(t)
    /\ gc' = [Idle EXCEPT !.phase = "whiten", !.collector = t]
    /\ garbage' = allocated \ Reachable
    /\ UNCHANGED <<objects, colours>>

whiten_grey ==
    /\ gc.phase = "whiten" /\ Undisturbed
    /\ grey' = grey \ {gc.pBlock}
    /\ gc' = NextBlock("classTable")
    /\ UNCHANGED <<objects, black, garbage>>
whiten ==
    /\ gc.phase = "whiten" /\ Undisturbed
    /\ black' = black \ {gc.pBlock}
    /\ grey' = grey \ {gc.pBlock}
    /\ gc' = NextBlock("classTable")
    /\ UNCHANGED <<objects, garbage>>

\* The "quick check": an object whose only object field is null has nothing to mark.
HasFields(o) == ObjectFields[o] > 0 /\ ~(ObjectFields[o] = 1 /\ field[o][1] = NULL)

scanObjects(S) ==
    /\ grey' = grey \cup {o \in S : HasFields(o)}
    /\ black' = black \cup {o \in S : ~HasFields(o)}

markClassTable ==
    /\ gc.phase = "classTable" /\ Undisturbed
    /\ scanObjects({static} \ {NULL})
    /\ gc' = [gc EXCEPT !.phase = "stacks", !.unmarked = Thread]
    /\ UNCHANGED <<objects, garbage>>

\* The next thread; it is disabled until its stack has been marked.
disableThread(t) ==
    /\ gc.phase = "stacks" /\ gc.disabled = {} /\ Undisturbed
    /\ t \in gc.unmarked
    /\ gc' = [gc EXCEPT !.unmarked = @ \ {t}, !.disabled = {t},
                        !.roots = stack[t]]
    /\ UNCHANGED <<objects, colours, garbage>>

markRoot(o) ==
    /\ gc.phase = "stacks" /\ Undisturbed
    /\ o \in gc.roots
    /\ scanObjects({o})
    /\ gc' = [gc EXCEPT !.roots = @ \ {o}]
    /\ UNCHANGED <<objects, garbage>>

enableThread ==
    /\ gc.phase = "stacks" /\ gc.disabled # {} /\ gc.roots = {} /\ Undisturbed
    /\ gc' = [gc EXCEPT !.disabled = {}, !.phase = IF gc.unmarked = {} THEN "mark" ELSE @]
    /\ UNCHANGED <<objects, colours, garbage>>

MarkPhases == {"mark", "markDisabled"}

\* markChildren is called twice, the second time with the other threads disabled.
AfterMarking == IF gc.phase = "mark" THEN "markDisabled" ELSE "sweep"

\* markChildren, checkNextBlock: a grey block becomes black and its fields are marked.
checkNextBlock ==
    LET p == gc.pBlock
    IN  /\ gc.phase \in MarkPhases /\ gc.path = <<>> /\ Undisturbed
        /\ IF p \in grey \ black /\ p \in allocated
           THEN /\ black' = black \cup {p}
                /\ gc' = IF ObjectFields[p] = 0 THEN NextBlock(AfterMarking)
                         ELSE [gc EXCEPT !.path = <<[block |-> p, counter |-> 0]>>]
           ELSE /\ gc' = NextBlock(AfterMarking)
                /\ UNCHANGED black
        /\ UNCHANGED <<objects, grey, garbage>>

\* markField: the next field of the object, and then the fields of what is in it,
\* before those that follow; path is the chain of pContainingObjectBlock and
\* currentIndex.
markField ==
    LET top    == Last(gc.path)
        others == Front(gc.path)
        next   == top.counter + 1
        o      == field[top.block][next]
        rest   == Append(others, [top EXCEPT !.counter = next])
    IN  /\ gc.phase \in MarkPhases /\ gc.path # <<>> /\ Undisturbed
        /\ top.counter < ObjectFields[top.block]
        /\ IF o = NULL \/ o \in black
           THEN /\ gc' = [gc EXCEPT !.path = rest]
                /\ UNCHANGED black
           ELSE /\ black' = black \cup {o}
                /\ gc' = [gc EXCEPT !.path =
                       IF HasFields(o) THEN Append(rest, [block |-> o, counter |-> 0])
                       ELSE rest]
        /\ UNCHANGED <<objects, grey, garbage>>

\* All fields are marked: back to the containing object, or to the heap.
containingObject ==
    LET top == Last(gc.path)
    IN  /\ gc.phase \in MarkPhases /\ gc.path # <<>> /\ Undisturbed
        /\ top.counter = ObjectFields[top.block]
        /\ gc' = IF Len(gc.path) > 1 THEN [gc EXCEPT !.path = Front(@)]
                 ELSE NextBlock(AfterMarking)
        /\ UNCHANGED <<objects, colours, garbage>>

\* The released blocks can be allocated when the sweep is over, and its collector goes
\* on with its program.
sweep ==
    LET p    == gc.pBlock
        next == IF gc.pBlock = LastBlock THEN Idle ELSE NextBlock("none")
    IN  /\ gc.phase = "sweep" /\ Undisturbed
        /\ IF p \in allocated \ black
           THEN /\ allocated' = allocated \ {p}
                /\ field' = [field EXCEPT ![p] = NoFields(p)]
                /\ grey' = grey \ {p}
                /\ gc' = IF next = Idle THEN Idle
                         ELSE [next EXCEPT !.released = @ \cup {p}]
           ELSE /\ UNCHANGED <<allocated, field, grey>>
                /\ gc' = next
        /\ UNCHANGED <<static, stack, loaded, black, garbage>>

-----------------------------------------------------------------------------

Init ==
    /\ allocated = {}
    /\ field = [o \in Block |-> NoFields(o)]
    /\ static = NULL
    /\ stack = [t \in Thread |-> {}]
    /\ loaded = [t \in Thread |-> NULL]
    /\ black = {} /\ grey = {}
    /\ gc = Idle
    /\ garbage = {}

Instruction(t) ==
    \/ \E o \in Block : new(t, o) \/ pop(t, o)
    \/ \E o \in Block : \E i \in 1 .. ObjectFields[o] :
          \/ getfieldReads(t, o, i)
          \/ \E v \in BlockOrNull : putfield(t, o, i, v)
    \/ getfieldPushes(t)
    \/ getstatic(t)
    \/ \E v \in BlockOrNull : putstatic(t, v)

Collection ==
    \/ \E t \in Collectors : collect(t)
    \/ whiten
    \/ markClassTable
    \/ \E t \in Thread : disableThread(t)
    \/ \E o \in Block : markRoot(o)
    \/ enableThread
    \/ checkNextBlock
    \/ markField
    \/ containingObject
    \/ sweep

Next == (\E t \in Thread : Instruction(t)) \/ Collection

Spec == Init /\ [][Next]_vars

-----------------------------------------------------------------------------

\* What a thread can still reach is not collected: no field, stack or register is left
\* with the address of a block that has been released.
NothingReachableIsLost == Reachable \subseteq allocated

\* allocate.c:20, "if location2 is searched earlier on in the gc marking process, then
\* the object is greyed so that if it is missed during marking, it is ultimately not
\* collected": once the roots have been marked, whatever gets onto a stack or into a
\* static field, from wherever and however often, is marked or will be: no discipline of
\* the threads is needed for it.
RootsStayMarked == gc.phase \in MarkPhases => Visible \subseteq black \cup grey

\* What nobody could reach when the collection began is gone when it ends, whatever
\* the threads did meanwhile and whatever the colours were before.
GarbageIsCollected ==
    [][gc.phase = "sweep" /\ gc'.phase = "none" => garbage \cap allocated' = {}]_vars

=============================================================================
