---------------------------- MODULE Marking_proofs ----------------------------
(***************************************************************************)
(* For any heap, any threads and any fields.  Whatever the programs do, a  *)
(* collection releases all that nobody could reach when it began.  When    *)
(* they do not store unmarked objects in black ones while the roots are    *)
(* marked, and nothing comes between the two steps of a load, it releases  *)
(* nothing that can be reached.                                            *)
(***************************************************************************)
EXTENDS Marking, SequenceTheorems, TLAPS

Phases == RootPhases \cup MarkPhases \cup {"none", "sweep"}

Place == [block : Block, counter : Nat]

GC == [phase : Phases, collector : Thread \cup Collectors \cup {NULL}, pBlock : Block,
       unmarked : SUBSET Thread, disabled : SUBSET Thread, roots : SUBSET Block,
       path : Seq(Place), released : SUBSET Block]

Fields(o) == [1 .. ObjectFields[o] -> BlockOrNull]

TypeOK ==
    /\ allocated \in SUBSET Block
    /\ field \in [Block -> UNION {Fields(o) : o \in Block}]
    /\ \A o \in Block : field[o] \in Fields(o)
    /\ static \in BlockOrNull
    /\ stack \in [Thread -> SUBSET Block]
    /\ loaded \in [Thread -> BlockOrNull]
    /\ black \in SUBSET Block /\ grey \in SUBSET Block /\ garbage \in SUBSET Block
    /\ gc \in GC

\* S holds whatever a thread or one of its own objects refers to.
Closed(S) ==
    /\ static \in S \cup {NULL}
    /\ \A t \in Thread : stack[t] \subseteq S /\ loaded[t] \in S \cup {NULL}
    /\ \A o \in S : \A i \in 1 .. ObjectFields[o] : field[o][i] \in S \cup {NULL}

\* What has been found of the roots stays marked.
RootsInv ==
    /\ gc.phase \in {"stacks"} \cup MarkPhases => static = NULL \/ Marked(static)
    /\ gc.phase = "stacks" =>
          \A t \in Thread \ gc.unmarked : \A o \in stack[t] :
              Marked(o) \/ (t \in gc.disabled /\ o \in gc.roots)
    /\ gc.phase \in MarkPhases => \A t \in Thread : \A o \in stack[t] : Marked(o)

\* A thread is disabled only while its stack is marked.
DisabledInv ==
    /\ gc.disabled # {} => gc.phase = "stacks"
    /\ gc.disabled \cap gc.unmarked = {}
    /\ gc.roots # {} => gc.phase = "stacks"

\* The objects on the path are black.
PathInv ==
    /\ gc.path # <<>> => gc.phase \in MarkPhases
    /\ \A k \in 1 .. Len(gc.path) : gc.path[k].block \in black

\* S holds what could be reached when the collection began and what is new since: the
\* threads move references only within it, and only its objects are marked.
Spared(S) ==
    /\ S \cap garbage = {} /\ Closed(S)
    /\ \A o \in Block : Marked(o) => o \in S
    /\ gc.roots \subseteq S

\* Garbage is not used for new objects, and not passed by the sweep.
GarbageInv ==
    gc.phase # "none" =>
        /\ garbage \subseteq allocated \cup gc.released
        /\ \E S \in SUBSET Block : Spared(S)
        /\ gc.phase = "sweep" => \A o \in garbage \cap allocated : o >= gc.pBlock

\* What holds whatever the programs do.
MarkingInv == TypeOK /\ RootsInv /\ DisabledInv /\ PathInv /\ GarbageInv

\* While the heap is swept, the objects that stay are the black ones.
Staying == IF gc.phase = "sweep" THEN allocated \cap black ELSE allocated

\* What the roots and the objects that stay refer to stays.
StayingInv == Closed(Staying)

\* A field of a black object that the marking will still look at.
Pending(o, i) == \E k \in 1 .. Len(gc.path) : gc.path[k].block = o /\ gc.path[k].counter < i

\* No field of a black object refers to one that is not marked, except while the fields
\* of the object are being marked.
TricolourInv ==
    gc.phase \in RootPhases \cup MarkPhases =>
        \A o \in allocated \cap black : \A i \in 1 .. ObjectFields[o] :
            Whitened(o) => field[o][i] = NULL \/ Marked(field[o][i]) \/ Pending(o, i)

\* The path begins with the block that is looked at.
PlaceInv ==
    /\ gc.path # <<>> => gc.path[1].block = gc.pBlock
    /\ \A k \in 1 .. Len(gc.path) : gc.path[k].block \in allocated

\* With the other threads disabled, no block that has been passed is grey and not black;
\* no block the sweep has passed is white.
PassedInv ==
    /\ gc.phase = "markDisabled" => \A o \in allocated \cap grey : o < gc.pBlock => o \in black
    /\ gc.phase = "sweep" => \A o \in allocated : o < gc.pBlock => o \in black

\* What the programs have to be disciplined for.
KeepingInv == StayingInv /\ TricolourInv /\ PlaceInv /\ PassedInv

CollectionInv == MarkingInv /\ KeepingInv

\* The programs keep the two disciplines.
Disciplined == {"NoWhiteIntoBlack", "LoadsUninterrupted"} \subseteq Disciplines

-----------------------------------------------------------------------------
(* What the actions do, one variable at a time. *)

\* Only the stack of t gets larger, and by o.
LEMMA Pushed ==
    ASSUME TypeOK, NEW t \in Thread, NEW o \in BlockOrNull, Push(t, o)
    PROVE  /\ stack' \in [Thread -> SUBSET Block]
           /\ \A u \in Thread : \A x \in stack'[u] : x \in stack[u] \/ (u = t /\ x = o /\ o # NULL)
<1>1. stack \in [Thread -> SUBSET Block]
    BY DEF TypeOK
<1> QED
    BY <1>1 DEF Push, BlockOrNull

\* A step that writes the fields of one object.
LEMMA AssignedField ==
    ASSUME TypeOK, NEW o \in Block, NEW f \in Fields(o), field' = [field EXCEPT ![o] = f]
    PROVE  /\ field' \in [Block -> UNION {Fields(x) : x \in Block}]
           /\ \A x \in Block : field'[x] \in Fields(x)
           /\ field'[o] = f /\ \A x \in Block \ {o} : field'[x] = field[x]
<1>1. field \in [Block -> UNION {Fields(x) : x \in Block}] /\ \A x \in Block : field[x] \in Fields(x)
    BY DEF TypeOK
<1>2. f \in UNION {Fields(x) : x \in Block}
    OBVIOUS
<1>3. /\ field' \in [Block -> UNION {Fields(x) : x \in Block}]
      /\ field'[o] = f /\ \A x \in Block \ {o} : field'[x] = field[x]
    BY <1>1, <1>2
<1> QED
    BY <1>1, <1>3

\* The fields of an object have references to blocks.
LEMMA FieldTyped ==
    ASSUME TypeOK, NEW o \in Block, NEW i \in 1 .. ObjectFields[o]
    PROVE  field[o][i] \in BlockOrNull
BY DEF TypeOK, Fields

LEMMA NoFieldsTyped ==
    ASSUME NEW o \in Block
    PROVE  NoFields(o) \in Fields(o) /\ \A i \in 1 .. ObjectFields[o] : NoFields(o)[i] = NULL
BY DEF NoFields, Fields, BlockOrNull

LEMMA new_Does ==
    ASSUME TypeOK, NEW t \in Thread, NEW o \in Block, new(t, o)
    PROVE  /\ gc.phase # "markDisabled" /\ t \notin gc.disabled
           /\ o \notin allocated /\ o \notin gc.released
           /\ allocated' = allocated \cup {o} /\ black' = black \cup {o}
           /\ UNCHANGED <<static, loaded, grey, gc, garbage>>
           /\ field' \in [Block -> UNION {Fields(x) : x \in Block}]
           /\ \A x \in Block : field'[x] \in Fields(x)
           /\ \A i \in 1 .. ObjectFields[o] : field'[o][i] = NULL
           /\ \A x \in Block \ {o} : field'[x] = field[x]
           /\ stack' \in [Thread -> SUBSET Block]
           /\ \A u \in Thread : \A x \in stack'[u] : x \in stack[u] \/ (u = t /\ x = o)
<1>1. /\ Executes(t) /\ field' = [field EXCEPT ![o] = NoFields(o)] /\ Push(t, o)
      /\ o \notin allocated /\ o \notin gc.released
      /\ allocated' = allocated \cup {o} /\ black' = black \cup {o}
      /\ UNCHANGED <<static, loaded, grey, gc, garbage>>
    BY DEF new
<1>2. /\ field' \in [Block -> UNION {Fields(x) : x \in Block}]
      /\ \A x \in Block : field'[x] \in Fields(x)
      /\ \A i \in 1 .. ObjectFields[o] : field'[o][i] = NULL
      /\ \A x \in Block \ {o} : field'[x] = field[x]
    BY <1>1, NoFieldsTyped, AssignedField
<1>3. /\ stack' \in [Thread -> SUBSET Block]
      /\ \A u \in Thread : \A x \in stack'[u] : x \in stack[u] \/ (u = t /\ x = o)
    BY <1>1, Pushed DEF BlockOrNull
<1> QED
    BY <1>1, <1>2, <1>3 DEF Executes, Enabled

LEMMA pop_Does ==
    ASSUME TypeOK, NEW t \in Thread, NEW o \in Block, pop(t, o)
    PROVE  /\ stack' \in [Thread -> SUBSET Block] /\ \A u \in Thread : stack'[u] \subseteq stack[u]
           /\ UNCHANGED <<allocated, field, static, loaded, black, grey, gc, garbage>>
BY DEF TypeOK, pop, colours

LEMMA getstatic_Does ==
    ASSUME TypeOK, NEW t \in Thread, getstatic(t)
    PROVE  /\ gc.phase # "markDisabled" /\ t \notin gc.disabled
           /\ stack' \in [Thread -> SUBSET Block]
           /\ \A u \in Thread : \A x \in stack'[u] :
                  x \in stack[u] \/ (u = t /\ x = static /\ static # NULL)
           /\ UNCHANGED <<allocated, field, static, loaded, black, grey, gc, garbage>>
<1>1. /\ Executes(t) /\ Push(t, static)
      /\ UNCHANGED <<allocated, field, static, loaded, black, grey, gc, garbage>>
    BY DEF getstatic, colours
<1> QED
    BY <1>1, Pushed DEF TypeOK, Executes, Enabled

LEMMA putstatic_Does ==
    ASSUME TypeOK, NEW t \in Thread, NEW v \in BlockOrNull, putstatic(t, v)
    PROVE  /\ gc.phase # "markDisabled" /\ v \in stack[t] \cup {NULL}
           /\ static' = v /\ grey' = IF v = NULL THEN grey ELSE grey \cup {v}
           /\ UNCHANGED <<allocated, field, stack, loaded, black, gc, garbage>>
BY DEF putstatic, Executes, Enabled, staticGreyed, concurrentGCGreyObject, setGrey

LEMMA getfieldReads_Does ==
    ASSUME TypeOK, NEW t \in Thread, NEW o \in Block, NEW i \in 1 .. ObjectFields[o],
           getfieldReads(t, o, i)
    PROVE  /\ o \in stack[t] /\ loaded' \in [Thread -> BlockOrNull] /\ loaded'[t] = field[o][i]
           /\ \A u \in Thread \ {t} : loaded'[u] = loaded[u]
           /\ UNCHANGED <<allocated, field, static, stack, black, grey, gc, garbage>>
<1>1. /\ o \in stack[t] /\ loaded' = [loaded EXCEPT ![t] = field[o][i]]
      /\ UNCHANGED <<allocated, field, static, stack, black, grey, gc, garbage>>
    BY DEF getfieldReads, colours
<1>2. field[o][i] \in BlockOrNull
    BY FieldTyped
<1> QED
    BY <1>1, <1>2 DEF TypeOK

LEMMA getfieldPushes_Does ==
    ASSUME TypeOK, NEW t \in Thread, getfieldPushes(t)
    PROVE  /\ gc.phase # "markDisabled" /\ t \notin gc.disabled
           /\ loaded[t] \in Block /\ grey' = grey \cup {loaded[t]}
           /\ loaded' \in [Thread -> BlockOrNull] /\ loaded'[t] = NULL
           /\ \A u \in Thread \ {t} : loaded'[u] = loaded[u]
           /\ stack' \in [Thread -> SUBSET Block]
           /\ \A u \in Thread : \A x \in stack'[u] : x \in stack[u] \/ (u = t /\ x = loaded[t])
           /\ UNCHANGED <<allocated, field, static, black, gc, garbage>>
<1>1. /\ Enabled(t) /\ loaded[t] # NULL /\ grey' = grey \cup {loaded[t]} /\ Push(t, loaded[t])
      /\ loaded' = [loaded EXCEPT ![t] = NULL]
      /\ UNCHANGED <<allocated, field, static, black, gc, garbage>>
    BY DEF getfieldPushes, concurrentGCGreyObject, setGrey
<1>2. loaded[t] \in BlockOrNull /\ loaded[t] \in Block
    BY <1>1 DEF TypeOK, BlockOrNull
<1>3. /\ loaded' \in [Thread -> BlockOrNull] /\ loaded'[t] = NULL
      /\ \A u \in Thread \ {t} : loaded'[u] = loaded[u]
    BY <1>1 DEF TypeOK, BlockOrNull
<1>4. /\ stack' \in [Thread -> SUBSET Block]
      /\ \A u \in Thread : \A x \in stack'[u] : x \in stack[u] \/ (u = t /\ x = loaded[t])
    BY <1>1, <1>2, Pushed
<1> QED
    BY <1>1, <1>2, <1>3, <1>4 DEF Enabled

LEMMA putfield_Does ==
    ASSUME TypeOK, NEW t \in Thread, NEW o \in Block, NEW i \in 1 .. ObjectFields[o],
           NEW v \in BlockOrNull, putfield(t, o, i, v)
    PROVE  /\ o \in stack[t] /\ v \in stack[t] \cup {NULL}
           /\ Disciplined /\ gc.phase \in RootPhases =>
                  v = NULL \/ Marked(v) \/ ~(o \in black /\ Whitened(o))
           /\ field' \in [Block -> UNION {Fields(x) : x \in Block}]
           /\ \A x \in Block : field'[x] \in Fields(x)
           /\ \A x \in Block : \A j \in 1 .. ObjectFields[x] :
                  field'[x][j] = field[x][j] \/ (x = o /\ j = i /\ field'[x][j] = v)
           /\ UNCHANGED <<allocated, static, stack, loaded, black, grey, gc, garbage>>
<1> DEFINE f == [field[o] EXCEPT ![i] = v]
<1>1. /\ o \in stack[t] /\ v \in stack[t] \cup {NULL}
      /\ Disciplined /\ gc.phase \in RootPhases =>
             v = NULL \/ Marked(v) \/ ~(o \in black /\ Whitened(o))
      /\ field' = [field EXCEPT ![o] = f]
      /\ UNCHANGED <<allocated, static, stack, loaded, black, grey, gc, garbage>>
    BY DEF putfield, colours, Disciplined
<1>2. f \in Fields(o) /\ f[i] = v /\ \A j \in (1 .. ObjectFields[o]) \ {i} : f[j] = field[o][j]
    BY DEF TypeOK, Fields
<1> HIDE DEF f
<1>3. /\ field' \in [Block -> UNION {Fields(x) : x \in Block}]
      /\ \A x \in Block : field'[x] \in Fields(x)
      /\ field'[o] = f /\ \A x \in Block \ {o} : field'[x] = field[x]
    BY <1>1, <1>2, AssignedField
<1>4. \A x \in Block : \A j \in 1 .. ObjectFields[x] :
          field'[x][j] = field[x][j] \/ (x = o /\ j = i /\ field'[x][j] = v)
    BY <1>2, <1>3
<1> QED
    BY <1>1, <1>3, <1>4

\* The collector's record after the next block was looked at.
LEMMA NextBlockIs ==
    ASSUME TypeOK, NEW then \in Phases
    PROVE  /\ NextBlock(then) \in GC /\ NextBlock(then).path = <<>>
           /\ NextBlock(then).collector = gc.collector /\ NextBlock(then).unmarked = gc.unmarked
           /\ NextBlock(then).disabled = gc.disabled /\ NextBlock(then).roots = gc.roots
           /\ NextBlock(then).released = gc.released
           /\ \/ /\ gc.pBlock < LastBlock
                 /\ NextBlock(then).pBlock = gc.pBlock + 1 /\ NextBlock(then).phase = gc.phase
              \/ /\ gc.pBlock = LastBlock
                 /\ NextBlock(then).pBlock = 1 /\ NextBlock(then).phase = then
<1>1. gc \in GC /\ gc.pBlock \in 1 .. LastBlock /\ LastBlock \in Nat
    BY MarkingAssumption DEF TypeOK, GC, Block
<1>2. CASE gc.pBlock < LastBlock
    <2>1. NextBlock(then) = [gc EXCEPT !.pBlock = @ + 1, !.path = <<>>]
        BY <1>2 DEF NextBlock
    <2>2. NextBlock(then) = [phase |-> gc.phase, collector |-> gc.collector, pBlock |-> gc.pBlock + 1,
                             unmarked |-> gc.unmarked, disabled |-> gc.disabled, roots |-> gc.roots,
                             path |-> <<>>, released |-> gc.released]
        BY <1>1, <2>1 DEF GC
    <2>3. gc.pBlock + 1 \in Block /\ <<>> \in Seq(Place)
        BY <1>1, <1>2 DEF Block
    <2> QED
        BY <1>1, <1>2, <2>2, <2>3 DEF GC
<1>3. CASE ~(gc.pBlock < LastBlock)
    <2>1. NextBlock(then) = [gc EXCEPT !.pBlock = 1, !.phase = then, !.path = <<>>]
        BY <1>3 DEF NextBlock
    <2>2. NextBlock(then) = [phase |-> then, collector |-> gc.collector, pBlock |-> 1,
                             unmarked |-> gc.unmarked, disabled |-> gc.disabled, roots |-> gc.roots,
                             path |-> <<>>, released |-> gc.released]
        BY <1>1, <2>1 DEF GC
    <2>3. 1 \in Block /\ gc.pBlock = LastBlock /\ <<>> \in Seq(Place)
        BY <1>1, <1>3 DEF Block
    <2> QED
        BY <1>1, <2>2, <2>3 DEF GC
<1> QED
    BY <1>2, <1>3

LEMMA collect_Does ==
    ASSUME TypeOK, NEW t \in Collectors, collect(t)
    PROVE  /\ gc.phase = "none"
           /\ gc' \in GC /\ gc'.phase = "whiten" /\ gc'.pBlock = 1 /\ gc'.path = <<>>
           /\ gc'.disabled = {} /\ gc'.roots = {} /\ gc'.unmarked = {} /\ gc'.released = {}
           /\ garbage' = allocated \ Reachable
           /\ UNCHANGED <<allocated, field, static, stack, loaded, black, grey>>
<1>1. /\ gc.phase = "none" /\ gc' = [Idle EXCEPT !.phase = "whiten", !.collector = t]
      /\ garbage' = allocated \ Reachable
      /\ UNCHANGED <<allocated, field, static, stack, loaded, black, grey>>
    BY DEF collect, objects, colours
<1>2. gc' = [phase |-> "whiten", collector |-> t, pBlock |-> 1, unmarked |-> {},
             disabled |-> {}, roots |-> {}, path |-> <<>>, released |-> {}]
    BY <1>1 DEF Idle
<1>3. 1 \in Block /\ <<>> \in Seq(Place)
    BY MarkingAssumption DEF Block
<1>4. gc' \in GC
    BY <1>2, <1>3 DEF GC, Phases, RootPhases
<1>5. /\ gc'.phase = "whiten" /\ gc'.pBlock = 1 /\ gc'.path = <<>>
      /\ gc'.disabled = {} /\ gc'.roots = {} /\ gc'.unmarked = {} /\ gc'.released = {}
    BY <1>2
<1> QED
    BY <1>1, <1>4, <1>5

LEMMA whiten_Does ==
    ASSUME TypeOK, whiten
    PROVE  /\ gc.phase = "whiten" /\ black' = black \ {gc.pBlock} /\ grey' = grey \ {gc.pBlock}
           /\ gc' \in GC /\ gc'.path = <<>> /\ gc'.disabled = gc.disabled /\ gc'.roots = gc.roots
           /\ gc'.unmarked = gc.unmarked /\ gc'.released = gc.released
           /\ \/ gc'.phase = "whiten" /\ gc'.pBlock = gc.pBlock + 1
              \/ gc'.phase = "classTable" /\ gc.pBlock = LastBlock
           /\ UNCHANGED <<allocated, field, static, stack, loaded, garbage>>
<1>1. /\ gc.phase = "whiten" /\ black' = black \ {gc.pBlock} /\ grey' = grey \ {gc.pBlock}
      /\ gc' = NextBlock("classTable")
      /\ UNCHANGED <<allocated, field, static, stack, loaded, garbage>>
    BY DEF whiten, objects
<1>2. "classTable" \in Phases
    BY DEF Phases, RootPhases
<1> QED
    BY <1>1, <1>2, NextBlockIs

LEMMA markClassTable_Does ==
    ASSUME TypeOK, markClassTable
    PROVE  /\ gc.phase = "classTable" /\ scanObjects({static} \ {NULL})
           /\ gc' \in GC /\ gc'.phase = "stacks" /\ gc'.path = gc.path /\ gc'.unmarked = Thread
           /\ gc'.disabled = gc.disabled /\ gc'.roots = gc.roots /\ gc'.released = gc.released
           /\ UNCHANGED <<allocated, field, static, stack, loaded, garbage>>
<1>1. /\ gc.phase = "classTable" /\ scanObjects({static} \ {NULL})
      /\ gc' = [gc EXCEPT !.phase = "stacks", !.unmarked = Thread]
      /\ UNCHANGED <<allocated, field, static, stack, loaded, garbage>>
    BY DEF markClassTable, objects
<1>2. gc' = [phase |-> "stacks", collector |-> gc.collector, pBlock |-> gc.pBlock,
             unmarked |-> Thread, disabled |-> gc.disabled, roots |-> gc.roots,
             path |-> gc.path, released |-> gc.released]
    BY <1>1 DEF TypeOK, GC
<1> QED
    BY <1>1, <1>2 DEF TypeOK, GC, Phases, RootPhases

LEMMA disableThread_Does ==
    ASSUME TypeOK, NEW t \in Thread, disableThread(t)
    PROVE  /\ gc.phase = "stacks" /\ gc.disabled = {} /\ t \in gc.unmarked
           /\ gc' \in GC /\ gc'.phase = gc.phase /\ gc'.pBlock = gc.pBlock
           /\ gc'.unmarked = gc.unmarked \ {t} /\ gc'.disabled = {t} /\ gc'.roots = stack[t]
           /\ gc'.path = gc.path /\ gc'.released = gc.released
           /\ UNCHANGED <<allocated, field, static, stack, loaded, black, grey, garbage>>
<1>1. /\ gc.phase = "stacks" /\ gc.disabled = {} /\ t \in gc.unmarked
      /\ gc' = [gc EXCEPT !.unmarked = @ \ {t}, !.disabled = {t}, !.roots = stack[t]]
      /\ UNCHANGED <<allocated, field, static, stack, loaded, black, grey, garbage>>
    BY DEF disableThread, objects, colours
<1>2. gc' = [phase |-> gc.phase, collector |-> gc.collector, pBlock |-> gc.pBlock,
             unmarked |-> gc.unmarked \ {t}, disabled |-> {t}, roots |-> stack[t],
             path |-> gc.path, released |-> gc.released]
    BY <1>1 DEF TypeOK, GC
<1> QED
    BY <1>1, <1>2 DEF TypeOK, GC

LEMMA markRoot_Does ==
    ASSUME TypeOK, NEW o \in Block, markRoot(o)
    PROVE  /\ gc.phase = "stacks" /\ o \in gc.roots /\ scanObjects({o})
           /\ gc' \in GC /\ gc'.phase = "stacks" /\ gc'.path = gc.path
           /\ gc'.unmarked = gc.unmarked /\ gc'.disabled = gc.disabled
           /\ gc'.roots = gc.roots \ {o} /\ gc'.released = gc.released
           /\ UNCHANGED <<allocated, field, static, stack, loaded, garbage>>
<1>1. /\ gc.phase = "stacks" /\ o \in gc.roots /\ scanObjects({o})
      /\ gc' = [gc EXCEPT !.roots = @ \ {o}]
      /\ UNCHANGED <<allocated, field, static, stack, loaded, garbage>>
    BY DEF markRoot, objects
<1>2. gc' = [phase |-> gc.phase, collector |-> gc.collector, pBlock |-> gc.pBlock,
             unmarked |-> gc.unmarked, disabled |-> gc.disabled, roots |-> gc.roots \ {o},
             path |-> gc.path, released |-> gc.released]
    BY <1>1 DEF TypeOK, GC
<1> QED
    BY <1>1, <1>2 DEF TypeOK, GC

LEMMA enableThread_Does ==
    ASSUME TypeOK, enableThread
    PROVE  /\ gc.phase = "stacks" /\ gc.disabled # {} /\ gc.roots = {}
           /\ gc'.phase = "stacks" \/ (gc'.phase = "mark" /\ gc.unmarked = {})
           /\ gc' \in GC /\ gc'.pBlock = gc.pBlock /\ gc'.unmarked = gc.unmarked
           /\ gc'.disabled = {} /\ gc'.roots = {} /\ gc'.path = gc.path
           /\ gc'.released = gc.released
           /\ UNCHANGED <<allocated, field, static, stack, loaded, black, grey, garbage>>
<1>1. /\ gc.phase = "stacks" /\ gc.disabled # {} /\ gc.roots = {}
      /\ gc' = [gc EXCEPT !.disabled = {}, !.phase = IF gc.unmarked = {} THEN "mark" ELSE @]
      /\ UNCHANGED <<allocated, field, static, stack, loaded, black, grey, garbage>>
    BY DEF enableThread, objects, colours
<1>2. gc' = [phase |-> IF gc.unmarked = {} THEN "mark" ELSE gc.phase,
             collector |-> gc.collector, pBlock |-> gc.pBlock,
             unmarked |-> gc.unmarked, disabled |-> {}, roots |-> gc.roots,
             path |-> gc.path, released |-> gc.released]
    BY <1>1 DEF TypeOK, GC
<1> QED
    BY <1>1, <1>2 DEF TypeOK, GC, Phases, MarkPhases

\* An object that is scanned is marked, and has no fields if it is black.
LEMMA Scanned ==
    ASSUME TypeOK, NEW S \in SUBSET Block, scanObjects(S)
    PROVE  /\ black' \in SUBSET Block /\ grey' \in SUBSET Block
           /\ \A o \in S : o \in black' \cup grey'
           /\ \A o \in black' : o \in black \/ o \in S
           /\ \A o \in grey' : o \in grey \/ o \in S
           /\ black \subseteq black' /\ grey \subseteq grey'
           /\ \A o \in black' \ black : \A i \in 1 .. ObjectFields[o] : field[o][i] = NULL
<1>1. \A o \in Block : ObjectFields[o] \in Nat
    BY MarkingAssumption
<1>2. /\ grey' = grey \cup {o \in S : HasFields(o)}
      /\ black' = black \cup {o \in S : ~HasFields(o)}
    BY DEF scanObjects
<1>3. \A o \in Block : ~HasFields(o) => \A i \in 1 .. ObjectFields[o] : field[o][i] = NULL
    BY <1>1 DEF HasFields
<1> QED
    BY <1>2, <1>3 DEF TypeOK

\* The path is a sequence of blocks and how many of their fields are done.
LEMMA PathTyped ==
    ASSUME TypeOK, gc.path # <<>>
    PROVE  /\ gc.path \in Seq(Place)
           /\ Len(gc.path) \in Nat \ {0} /\ Last(gc.path) = gc.path[Len(gc.path)]
           /\ \A k \in 1 .. Len(gc.path) : gc.path[k] \in Place
           /\ Len(Front(gc.path)) = Len(gc.path) - 1 /\ Front(gc.path) \in Seq(Place)
           /\ \A k \in 1 .. Len(gc.path) - 1 : Front(gc.path)[k] = gc.path[k]
<1> DEFINE s == gc.path
           n == Len(s) - 1
           q == SubSeq(s, 1, n)
<1>1. s \in Seq(Place) /\ s # <<>>
    BY DEF TypeOK, GC
<1>2. Front(s) = q /\ Last(s) = s[Len(s)]
    BY DEF Front, Last
<1> HIDE DEF s
<1>3. Len(s) \in Nat \ {0} /\ \A k \in 1 .. Len(s) : s[k] \in Place
    BY <1>1, EmptySeq
<1>4. 1 \in Int /\ n \in Nat /\ n \in Int /\ \A k \in 1 .. n : s[k] \in Place
    BY <1>3
<1> HIDE DEF n
<1>5. /\ q \in Seq(Place)
      /\ Len(q) = IF 1 <= n THEN n - 1 + 1 ELSE 0
      /\ \A k \in 1 .. n - 1 + 1 : q[k] = s[1 + k - 1]
    BY <1>4, SubSeqProperties
<1> HIDE DEF q
<1>6. Len(q) = n /\ \A k \in 1 .. n : q[k] = s[k]
    BY <1>4, <1>5
<1> QED
    BY <1>1, <1>2, <1>3, <1>5, <1>6 DEF s, n

\* Going on to the next block, or to the next phase.
LEMMA NextBlockDoes ==
    ASSUME TypeOK, gc.phase \in MarkPhases, gc' = NextBlock(AfterMarking)
    PROVE  /\ gc' \in GC /\ gc'.path = <<>> /\ gc'.disabled = gc.disabled /\ gc'.roots = gc.roots
           /\ gc'.unmarked = gc.unmarked /\ gc'.released = gc.released
           /\ \/ gc'.phase = gc.phase /\ gc'.pBlock = gc.pBlock + 1
              \/ /\ gc.pBlock = LastBlock /\ gc'.pBlock = 1
                 /\ \/ gc.phase = "mark" /\ gc'.phase = "markDisabled"
                    \/ gc.phase = "markDisabled" /\ gc'.phase = "sweep"
<1>1. AfterMarking \in Phases
    BY DEF AfterMarking, Phases, MarkPhases
<1> QED
    BY <1>1, NextBlockIs DEF AfterMarking, MarkPhases

\* The path becomes another, and the rest of the collector's record stays.
LEMMA PathAssigned ==
    ASSUME TypeOK, NEW path \in Seq(Place), gc' = [gc EXCEPT !.path = path]
    PROVE  /\ gc' \in GC /\ gc'.path = path
           /\ gc'.phase = gc.phase /\ gc'.pBlock = gc.pBlock /\ gc'.unmarked = gc.unmarked
           /\ gc'.disabled = gc.disabled /\ gc'.roots = gc.roots /\ gc'.released = gc.released
<1>1. gc' = [phase |-> gc.phase, collector |-> gc.collector, pBlock |-> gc.pBlock,
             unmarked |-> gc.unmarked, disabled |-> gc.disabled, roots |-> gc.roots,
             path |-> path, released |-> gc.released]
    BY DEF TypeOK, GC
<1> QED
    BY <1>1 DEF TypeOK, GC

LEMMA checkNextBlock_Does ==
    ASSUME TypeOK, checkNextBlock
    PROVE  /\ gc.phase \in MarkPhases /\ gc.path = <<>> /\ Undisturbed
           /\ UNCHANGED <<allocated, field, static, stack, loaded, grey, garbage>>
           /\ \/ /\ gc.pBlock \in (grey \ black) \cap allocated
                 /\ black' = black \cup {gc.pBlock}
                 /\ gc' \in GC /\ gc'.phase = gc.phase /\ gc'.pBlock = gc.pBlock
                 /\ gc'.unmarked = gc.unmarked /\ gc'.disabled = gc.disabled
                 /\ gc'.roots = gc.roots /\ gc'.released = gc.released
                 /\ Len(gc'.path) = 1 /\ gc'.path # <<>>
                 /\ gc'.path[1].block = gc.pBlock /\ gc'.path[1].counter = 0
              \/ /\ \/ black' = black /\ ~(gc.pBlock \in (grey \ black) \cap allocated)
                    \/ /\ black' = black \cup {gc.pBlock} /\ gc.pBlock \in grey
                       /\ ObjectFields[gc.pBlock] = 0
                 /\ gc' = NextBlock(AfterMarking)
<1>0. PICK p \in Block : p = gc.pBlock
    BY DEF TypeOK, GC
<1>1. /\ gc.phase \in MarkPhases /\ gc.path = <<>> /\ Undisturbed
      /\ UNCHANGED <<allocated, field, static, stack, loaded, grey, garbage>>
    BY DEF checkNextBlock, objects
<1>2. CASE p \in grey \ black /\ p \in allocated /\ ObjectFields[p] # 0
    <2> DEFINE first == [block |-> p, counter |-> 0]
               path == <<first>>
    <2>1. first \in Place /\ first.block = p /\ first.counter = 0
        BY DEF Place
    <2>2. /\ black' = black \cup {p} /\ gc' = [gc EXCEPT !.path = path]
        BY <1>0, <1>2 DEF checkNextBlock
    <2> HIDE DEF first
    <2>3. path \in Seq(Place) /\ Len(path) = 1 /\ path[1] = first /\ path # <<>>
        BY <2>1
    <2> HIDE DEF path
    <2>4. /\ gc' \in GC /\ gc'.path = path
          /\ gc'.phase = gc.phase /\ gc'.pBlock = gc.pBlock /\ gc'.unmarked = gc.unmarked
          /\ gc'.disabled = gc.disabled /\ gc'.roots = gc.roots /\ gc'.released = gc.released
        BY <2>2, <2>3, PathAssigned
    <2> QED
        BY <1>0, <1>1, <1>2, <2>1, <2>2, <2>3, <2>4
<1>3. CASE p \in grey \ black /\ p \in allocated /\ ObjectFields[p] = 0
    BY <1>0, <1>1, <1>3 DEF checkNextBlock
<1>4. CASE ~(p \in grey \ black /\ p \in allocated)
    BY <1>0, <1>1, <1>4 DEF checkNextBlock
<1> QED
    BY <1>2, <1>3, <1>4

\* The top of the path, at n, has its next field done; what is in it is black, and above
\* the top if it has fields itself.
FieldDone(n, top, next, o) ==
    /\ n = Len(gc.path) /\ top = gc.path[n]
    /\ next = top.counter + 1 /\ o = field[top.block][next]
    /\ \A k \in 1 .. n - 1 : gc'.path[k] = gc.path[k]
    /\ gc'.path[n].block = top.block /\ gc'.path[n].counter = next
    /\ \/ /\ Len(gc'.path) = n
          /\ black' = IF o = NULL THEN black ELSE black \cup {o}
          /\ o \in black \/ o = NULL \/ \A i \in 1 .. ObjectFields[o] : field[o][i] = NULL
       \/ /\ Len(gc'.path) = n + 1 /\ o # NULL /\ black' = black \cup {o}
          /\ gc'.path[n + 1].block = o /\ gc'.path[n + 1].counter = 0

LEMMA markField_Does ==
    ASSUME TypeOK, markField
    PROVE  /\ gc.phase \in MarkPhases /\ gc.path # <<>>
           /\ UNCHANGED <<allocated, field, static, stack, loaded, grey, garbage>>
           /\ gc' \in GC /\ gc'.phase = gc.phase /\ gc'.pBlock = gc.pBlock
           /\ gc'.unmarked = gc.unmarked /\ gc'.disabled = gc.disabled
           /\ gc'.roots = gc.roots /\ gc'.released = gc.released
           /\ \E n \in Nat \ {0}, top \in Place, o \in BlockOrNull :
                 \E next \in 1 .. ObjectFields[top.block] : FieldDone(n, top, next, o)
<1>1. /\ gc.phase \in MarkPhases /\ gc.path # <<>>
      /\ UNCHANGED <<allocated, field, static, stack, loaded, grey, garbage>>
    BY DEF markField, objects
<1>2. PICK n \in Nat \ {0}, top \in Place, others \in Seq(Place) :
          /\ n = Len(gc.path) /\ top = Last(gc.path) /\ top = gc.path[n] /\ others = Front(gc.path)
    BY <1>1, PathTyped
<1>3. Len(others) = n - 1 /\ \A k \in 1 .. n - 1 : others[k] = gc.path[k]
    BY <1>1, <1>2, PathTyped
<1>4. /\ top.counter < ObjectFields[top.block] /\ top.counter \in Nat /\ top.block \in Block
      /\ ObjectFields[top.block] \in Nat
    <2>1. Last(gc.path).counter < ObjectFields[Last(gc.path).block]
        BY DEF markField
    <2>2. top.counter \in Nat /\ top.block \in Block
        BY DEF Place
    <2> QED
        BY <1>2, <2>1, <2>2, MarkingAssumption
<1>5. PICK next \in 1 .. ObjectFields[top.block] : next = top.counter + 1
    BY <1>4
<1>6. PICK o \in BlockOrNull : o = field[top.block][next]
    BY <1>4, FieldTyped
<1> DEFINE done == [block |-> top.block, counter |-> next]
           rest == Append(others, done)
<1>7. done \in Place /\ done.block = top.block /\ done.counter = next
    BY <1>4, <1>5 DEF Place
<1>8. [top EXCEPT !.counter = next] = done
    BY DEF Place
<1> HIDE DEF done
<1>9. rest \in Seq(Place) /\ rest = Append(others, done)
    BY <1>7
<1> HIDE DEF rest
<1>10. /\ Len(rest) = n /\ rest[n] = done /\ \A k \in 1 .. n - 1 : rest[k] = gc.path[k]
    BY <1>2, <1>3, <1>7, <1>9
<1>11. IF o = NULL \/ o \in black
       THEN gc' = [gc EXCEPT !.path = rest] /\ black' = black
       ELSE /\ black' = black \cup {o}
            /\ gc' = [gc EXCEPT !.path =
                   IF HasFields(o) THEN Append(rest, [block |-> o, counter |-> 0]) ELSE rest]
    BY <1>2, <1>5, <1>6, <1>8, <1>9 DEF markField
<1>12. CASE o = NULL \/ o \in black
    <2>1. gc' = [gc EXCEPT !.path = rest] /\ black' = black
        BY <1>11, <1>12
    <2>2. black' = IF o = NULL THEN black ELSE black \cup {o}
        BY <1>12, <2>1
    <2>3. /\ gc' \in GC /\ gc'.path = rest
          /\ gc'.phase = gc.phase /\ gc'.pBlock = gc.pBlock /\ gc'.unmarked = gc.unmarked
          /\ gc'.disabled = gc.disabled /\ gc'.roots = gc.roots /\ gc'.released = gc.released
        BY <1>9, <2>1, PathAssigned
    <2>4. FieldDone(n, top, next, o)
        BY <1>2, <1>5, <1>6, <1>7, <1>10, <1>12, <2>2, <2>3 DEF FieldDone
    <2> QED
        BY <1>1, <2>3, <2>4
<1>13. CASE ~(o = NULL \/ o \in black) /\ ~HasFields(o)
    <2>1. gc' = [gc EXCEPT !.path = rest] /\ black' = black \cup {o}
        BY <1>11, <1>13
    <2>2. \A i \in 1 .. ObjectFields[o] : field[o][i] = NULL
        BY <1>13, MarkingAssumption DEF HasFields, BlockOrNull
    <2>3. /\ gc' \in GC /\ gc'.path = rest
          /\ gc'.phase = gc.phase /\ gc'.pBlock = gc.pBlock /\ gc'.unmarked = gc.unmarked
          /\ gc'.disabled = gc.disabled /\ gc'.roots = gc.roots /\ gc'.released = gc.released
        BY <1>9, <2>1, PathAssigned
    <2>4. FieldDone(n, top, next, o)
        BY <1>2, <1>5, <1>6, <1>7, <1>10, <1>13, <2>1, <2>2, <2>3 DEF FieldDone
    <2> QED
        BY <1>1, <2>3, <2>4
<1>14. CASE ~(o = NULL \/ o \in black) /\ HasFields(o)
    <2> DEFINE first == [block |-> o, counter |-> 0]
               path == Append(rest, first)
    <2>1. first \in Place /\ first.block = o /\ first.counter = 0
        BY <1>14 DEF Place, BlockOrNull
    <2>2. gc' = [gc EXCEPT !.path = path] /\ black' = black \cup {o}
        BY <1>11, <1>14
    <2> HIDE DEF first
    <2>3. path \in Seq(Place) /\ path = Append(rest, first)
        BY <1>9, <2>1
    <2> HIDE DEF path
    <2>4. /\ Len(path) = n + 1 /\ path[n + 1] = first
          /\ \A k \in 1 .. n : path[k] = rest[k]
        BY <1>9, <1>10, <2>1, <2>3
    <2>5. \A k \in 1 .. n - 1 : path[k] = gc.path[k]
        BY <1>2, <1>10, <2>4
    <2>6. path[n].block = top.block /\ path[n].counter = next
        BY <1>2, <1>7, <1>10, <2>4
    <2>7. /\ gc' \in GC /\ gc'.path = path
          /\ gc'.phase = gc.phase /\ gc'.pBlock = gc.pBlock /\ gc'.unmarked = gc.unmarked
          /\ gc'.disabled = gc.disabled /\ gc'.roots = gc.roots /\ gc'.released = gc.released
        BY <2>2, <2>3, PathAssigned
    <2>8. FieldDone(n, top, next, o)
        BY <1>2, <1>5, <1>6, <1>14, <2>1, <2>2, <2>4, <2>5, <2>6, <2>7 DEF FieldDone
    <2> QED
        BY <1>1, <2>7, <2>8
<1> QED
    BY <1>12, <1>13, <1>14

LEMMA containingObject_Does ==
    ASSUME TypeOK, containingObject
    PROVE  /\ gc.phase \in MarkPhases /\ gc.path # <<>> /\ Undisturbed
           /\ UNCHANGED <<allocated, field, static, stack, loaded, black, grey, garbage>>
           /\ \E n \in Nat \ {0} :
                 /\ n = Len(gc.path) /\ gc.path[n].block \in Block
                 /\ gc.path[n].counter = ObjectFields[gc.path[n].block]
                 /\ \/ /\ n > 1 /\ gc' \in GC
                       /\ gc'.phase = gc.phase /\ gc'.pBlock = gc.pBlock
                       /\ gc'.unmarked = gc.unmarked /\ gc'.disabled = gc.disabled
                       /\ gc'.roots = gc.roots /\ gc'.released = gc.released
                       /\ Len(gc'.path) = n - 1 /\ \A k \in 1 .. n - 1 : gc'.path[k] = gc.path[k]
                    \/ n = 1 /\ gc' = NextBlock(AfterMarking)
<1>1. /\ gc.phase \in MarkPhases /\ gc.path # <<>> /\ Undisturbed
      /\ Last(gc.path).counter = ObjectFields[Last(gc.path).block]
      /\ gc' = IF Len(gc.path) > 1 THEN [gc EXCEPT !.path = Front(@)] ELSE NextBlock(AfterMarking)
      /\ UNCHANGED <<allocated, field, static, stack, loaded, black, grey, garbage>>
    BY DEF containingObject, objects, colours
<1>2. PICK n \in Nat \ {0}, others \in Seq(Place) :
          /\ n = Len(gc.path) /\ Last(gc.path) = gc.path[n] /\ gc.path[n] \in Place
          /\ others = Front(gc.path) /\ Len(others) = n - 1
          /\ \A k \in 1 .. n - 1 : others[k] = gc.path[k]
    <2> DEFINE last == Len(gc.path)
               front == Front(gc.path)
    <2>1. /\ last \in Nat \ {0} /\ Last(gc.path) = gc.path[last] /\ gc.path[last] \in Place
          /\ front \in Seq(Place) /\ Len(front) = last - 1
          /\ \A k \in 1 .. last - 1 : front[k] = gc.path[k]
        <3>1. last \in 1 .. last
            BY <1>1, PathTyped
        <3> QED BY <1>1, <3>1, PathTyped
    <2> HIDE DEF last, front
    <2>2. last = Len(gc.path) /\ front = Front(gc.path)
        BY DEF last, front
    <2> QED BY <2>1, <2>2, Zenon
<1>3. gc.path[n].block \in Block
    BY <1>2 DEF Place
<1>4. CASE n > 1
    <2>1. gc' = [gc EXCEPT !.path = others]
        BY <1>1, <1>2, <1>4
    <2> QED
        BY <1>1, <1>2, <1>3, <1>4, <2>1, PathAssigned, SMTT(30)
<1>5. CASE ~(n > 1)
    BY <1>1, <1>2, <1>3, <1>5
<1> QED
    BY <1>4, <1>5

LEMMA sweep_Does ==
    ASSUME TypeOK, sweep
    PROVE  /\ gc.phase = "sweep" /\ Undisturbed
           /\ UNCHANGED <<static, stack, loaded, black, garbage>>
           /\ allocated' = IF gc.pBlock \in black THEN allocated ELSE allocated \ {gc.pBlock}
           /\ grey' \in SUBSET Block /\ grey' \subseteq grey
           /\ field' \in [Block -> UNION {Fields(x) : x \in Block}]
           /\ \A x \in Block : field'[x] \in Fields(x)
           /\ \A x \in Block : \A i \in 1 .. ObjectFields[x] :
                  field'[x][i] = field[x][i]
                  \/ (x = gc.pBlock /\ gc.pBlock \in allocated \ black /\ field'[x][i] = NULL)
           /\ gc' \in GC /\ gc'.path = <<>>
           /\ \/ /\ gc.pBlock = LastBlock /\ gc'.phase = "none"
                 /\ gc'.disabled = {} /\ gc'.roots = {}
              \/ /\ gc.pBlock < LastBlock /\ gc'.phase = "sweep" /\ gc'.pBlock = gc.pBlock + 1
                 /\ gc'.disabled = gc.disabled /\ gc'.roots = gc.roots
                 /\ gc'.unmarked = gc.unmarked
                 /\ gc'.released = IF gc.pBlock \in allocated \ black
                                   THEN gc.released \cup {gc.pBlock} ELSE gc.released
<1> DEFINE Swept == IF gc.pBlock = LastBlock THEN Idle ELSE NextBlock("none")
<1>0. PICK p \in Block : p = gc.pBlock
    BY DEF TypeOK, GC
<1>1. /\ gc.phase = "sweep" /\ Undisturbed
      /\ UNCHANGED <<static, stack, loaded, black, garbage>>
      /\ \/ /\ p \in allocated \ black
            /\ allocated' = allocated \ {p} /\ field' = [field EXCEPT ![p] = NoFields(p)]
            /\ grey' = grey \ {p}
            /\ gc' = IF Swept = Idle THEN Idle ELSE [Swept EXCEPT !.released = @ \cup {p}]
         \/ /\ p \notin allocated \ black
            /\ UNCHANGED <<allocated, field, grey>>
            /\ gc' = Swept
    BY <1>0 DEF sweep
<1>2. p \in allocated \ black =>
          /\ field' \in [Block -> UNION {Fields(x) : x \in Block}]
          /\ \A x \in Block : field'[x] \in Fields(x)
          /\ field'[p] = NoFields(p)
          /\ \A x \in Block \ {p} : field'[x] = field[x]
    BY <1>1, NoFieldsTyped, AssignedField
<1>3. /\ field' \in [Block -> UNION {Fields(x) : x \in Block}]
      /\ \A x \in Block : field'[x] \in Fields(x)
      /\ \A x \in Block : \A i \in 1 .. ObjectFields[x] :
             field'[x][i] = field[x][i]
             \/ (x = p /\ p \in allocated \ black /\ field'[x][i] = NULL)
    BY <1>1, <1>2, NoFieldsTyped DEF TypeOK
<1>4. /\ allocated' = IF p \in black THEN allocated ELSE allocated \ {p}
      /\ grey' \in SUBSET Block /\ grey' \subseteq grey
    BY <1>1 DEF TypeOK
<1>5. "none" \in Phases /\ p \in Int /\ LastBlock \in Int /\ p <= LastBlock
    BY MarkingAssumption DEF Phases, Block
<1>6. CASE p = LastBlock
    <2>1. gc' = Idle
        BY <1>0, <1>1, <1>6
    <2>2. 1 \in Block /\ <<>> \in Seq(Place)
        BY MarkingAssumption DEF Block
    <2>3. Idle \in GC /\ Idle.phase = "none" /\ Idle.path = <<>> /\ Idle.disabled = {} /\ Idle.roots = {}
        BY <2>2 DEF Idle, GC, Phases
    <2> QED
        BY <1>0, <1>1, <1>3, <1>4, <1>6, <2>1, <2>3
<1>7. CASE p # LastBlock
    <2>1. PICK s \in GC :
              /\ s = Swept /\ s.phase = "sweep" /\ s.pBlock = p + 1 /\ s.path = <<>>
              /\ s.disabled = gc.disabled /\ s.roots = gc.roots /\ s.unmarked = gc.unmarked
              /\ s.released = gc.released
        BY <1>0, <1>1, <1>5, <1>7, NextBlockIs
    <2>2. Swept # Idle
        BY <2>1 DEF Idle
    <2>3. s = [phase |-> s.phase, collector |-> s.collector, pBlock |-> s.pBlock,
               unmarked |-> s.unmarked, disabled |-> s.disabled, roots |-> s.roots,
               path |-> s.path, released |-> s.released]
        BY DEF GC
    <2>4. /\ gc' \in GC /\ gc'.path = <<>> /\ gc'.phase = "sweep" /\ gc'.pBlock = p + 1
          /\ gc'.disabled = gc.disabled /\ gc'.roots = gc.roots /\ gc'.unmarked = gc.unmarked
          /\ gc'.released = IF p \in allocated \ black THEN gc.released \cup {p} ELSE gc.released
        <3>1. CASE p \in allocated \ black
            <4> HIDE DEF Swept
            <4>1. gc' = [phase |-> s.phase, collector |-> s.collector, pBlock |-> s.pBlock,
                         unmarked |-> s.unmarked, disabled |-> s.disabled, roots |-> s.roots,
                         path |-> s.path, released |-> s.released \cup {p}]
                BY <1>1, <2>1, <2>2, <2>3, <3>1
            <4> QED
                BY <2>1, <3>1, <4>1 DEF GC
        <3>2. CASE p \notin allocated \ black
            BY <1>1, <2>1, <3>2
        <3> QED
            BY <3>1, <3>2
    <2> QED
        BY <1>0, <1>1, <1>3, <1>4, <1>5, <1>7, <2>4
<1> QED
    BY <1>6, <1>7

-----------------------------------------------------------------------------
(* What holds whatever the programs do. *)

LEMMA InitMarking == Init => MarkingInv
<1> SUFFICES ASSUME Init PROVE MarkingInv
    OBVIOUS
<1>1. /\ allocated = {} /\ static = NULL /\ black = {} /\ grey = {} /\ garbage = {}
      /\ stack = [t \in Thread |-> {}] /\ loaded = [t \in Thread |-> NULL]
    BY DEF Init
<1>2. gc \in GC /\ gc.phase = "none" /\ gc.path = <<>> /\ Len(gc.path) = 0
      /\ gc.disabled = {} /\ gc.roots = {}
    BY MarkingAssumption DEF Init, Idle, GC, Phases, Block
<1>3. \A o \in Block : field[o] = NoFields(o)
    BY DEF Init
<1>4. field \in [Block -> UNION {Fields(o) : o \in Block}]
    BY NoFieldsTyped DEF Init
<1>5. TypeOK
    BY <1>1, <1>2, <1>3, <1>4, NoFieldsTyped DEF TypeOK, BlockOrNull
<1> QED
    BY <1>2, <1>5 DEF MarkingInv, RootsInv, PathInv, DisabledInv, GarbageInv, MarkPhases

LEMMA new_Marking ==
    ASSUME MarkingInv, NEW t \in Thread, NEW o \in Block, new(t, o)
    PROVE  MarkingInv'
<1> USE DEF MarkingInv
<1>1. /\ gc.phase # "markDisabled" /\ t \notin gc.disabled
      /\ o \notin allocated /\ o \notin gc.released
      /\ allocated' = allocated \cup {o} /\ black' = black \cup {o}
      /\ UNCHANGED <<static, loaded, grey, gc, garbage>>
      /\ field' \in [Block -> UNION {Fields(x) : x \in Block}]
      /\ \A x \in Block : field'[x] \in Fields(x)
      /\ \A i \in 1 .. ObjectFields[o] : field'[o][i] = NULL
      /\ \A x \in Block \ {o} : field'[x] = field[x]
      /\ stack' \in [Thread -> SUBSET Block]
      /\ \A u \in Thread : \A x \in stack'[u] : x \in stack[u] \/ (u = t /\ x = o)
    BY new_Does
<1>2. \A x : Marked(x) => Marked(x)'
    BY <1>1 DEF Marked, Whitened
<1>3. gc.phase \in {"stacks"} \cup MarkPhases => Marked(o)'
    BY <1>1 DEF Marked, Whitened, MarkPhases
<1>a. TypeOK'
    BY <1>1 DEF TypeOK
<1>b. RootsInv'
    BY <1>1, <1>2, <1>3 DEF RootsInv
<1>c. PathInv' /\ DisabledInv'
    BY <1>1 DEF PathInv, DisabledInv
<1>d. GarbageInv'
    <2> SUFFICES ASSUME gc.phase # "none" PROVE GarbageInv'
        BY <1>1 DEF GarbageInv
    <2>1. PICK S \in SUBSET Block : Spared(S)
        BY DEF GarbageInv
    <2>2. o \notin garbage
        BY <1>1 DEF GarbageInv
    <2>3. Spared(S \cup {o})'
        BY <1>1, <2>1, <2>2 DEF Spared, Closed, Marked, Whitened
    <2> QED
        BY <1>1, <2>2, <2>3 DEF GarbageInv
<1> QED
    BY <1>a, <1>b, <1>c, <1>d

LEMMA pop_Marking ==
    ASSUME MarkingInv, NEW t \in Thread, NEW o \in Block, pop(t, o)
    PROVE  MarkingInv'
<1> USE DEF MarkingInv
<1>1. /\ stack' \in [Thread -> SUBSET Block] /\ \A u \in Thread : stack'[u] \subseteq stack[u]
      /\ UNCHANGED <<allocated, field, static, loaded, black, grey, gc, garbage>>
    BY pop_Does
<1>a. TypeOK'
    BY <1>1 DEF TypeOK
<1>b. RootsInv' /\ PathInv' /\ DisabledInv'
    BY <1>1 DEF RootsInv, Marked, Whitened, PathInv, DisabledInv
<1>c. \A S \in SUBSET Block : Spared(S) => Spared(S)'
    BY <1>1 DEF Spared, Closed, Marked, Whitened
<1>d. GarbageInv'
    BY <1>1, <1>c DEF GarbageInv
<1> QED
    BY <1>a, <1>b, <1>d

LEMMA getstatic_Marking ==
    ASSUME MarkingInv, NEW t \in Thread, getstatic(t)
    PROVE  MarkingInv'
<1> USE DEF MarkingInv
<1>1. /\ gc.phase # "markDisabled" /\ t \notin gc.disabled
      /\ stack' \in [Thread -> SUBSET Block]
      /\ \A u \in Thread : \A x \in stack'[u] : x \in stack[u] \/ (u = t /\ x = static /\ static # NULL)
      /\ UNCHANGED <<allocated, field, static, loaded, black, grey, gc, garbage>>
    BY getstatic_Does
<1>a. TypeOK'
    BY <1>1 DEF TypeOK
<1>b. RootsInv' /\ PathInv' /\ DisabledInv'
    BY <1>1 DEF RootsInv, Marked, Whitened, PathInv, DisabledInv
<1>c. \A S \in SUBSET Block : Spared(S) => Spared(S)'
    BY <1>1 DEF Spared, Closed, Marked, Whitened
<1>d. GarbageInv'
    BY <1>1, <1>c DEF GarbageInv
<1> QED
    BY <1>a, <1>b, <1>d

LEMMA putstatic_Marking ==
    ASSUME MarkingInv, NEW t \in Thread, NEW v \in BlockOrNull, putstatic(t, v)
    PROVE  MarkingInv'
<1> USE DEF MarkingInv
<1>1. /\ gc.phase # "markDisabled" /\ v \in stack[t] \cup {NULL}
      /\ static' = v /\ grey' = IF v = NULL THEN grey ELSE grey \cup {v}
      /\ UNCHANGED <<allocated, field, stack, loaded, black, gc, garbage>>
    BY putstatic_Does
<1>2. \A x : Marked(x) => Marked(x)'
    BY <1>1 DEF Marked, Whitened
<1>3. v # NULL => (gc.phase # "whiten" => Marked(v)')
    BY <1>1 DEF Marked, Whitened
<1>a. TypeOK'
    BY <1>1 DEF TypeOK, BlockOrNull
<1>b. RootsInv'
    BY <1>1, <1>2, <1>3 DEF RootsInv, MarkPhases
<1>c. PathInv' /\ DisabledInv'
    BY <1>1 DEF PathInv, DisabledInv
<1>d. \A S \in SUBSET Block : Spared(S) => Spared(S)'
    BY <1>1 DEF Spared, Closed, Marked, Whitened
<1>e. GarbageInv'
    BY <1>1, <1>d DEF GarbageInv
<1> QED
    BY <1>a, <1>b, <1>c, <1>e

LEMMA getfieldReads_Marking ==
    ASSUME MarkingInv, NEW t \in Thread, NEW o \in Block, NEW i \in 1 .. ObjectFields[o],
           getfieldReads(t, o, i)
    PROVE  MarkingInv'
<1> USE DEF MarkingInv
<1>1. /\ o \in stack[t] /\ loaded' \in [Thread -> BlockOrNull] /\ loaded'[t] = field[o][i]
      /\ \A u \in Thread \ {t} : loaded'[u] = loaded[u]
      /\ UNCHANGED <<allocated, field, static, stack, black, grey, gc, garbage>>
    BY getfieldReads_Does
<1>a. TypeOK'
    BY <1>1 DEF TypeOK
<1>b. RootsInv' /\ PathInv' /\ DisabledInv'
    BY <1>1 DEF RootsInv, Marked, Whitened, PathInv, DisabledInv
<1>c. \A S \in SUBSET Block : Spared(S) => Spared(S)'
    BY <1>1 DEF Spared, Closed, Marked, Whitened
<1>d. GarbageInv'
    BY <1>1, <1>c DEF GarbageInv
<1> QED
    BY <1>a, <1>b, <1>d

\* What was read is grey before it is on the stack.
LEMMA getfieldPushes_Marking ==
    ASSUME MarkingInv, NEW t \in Thread, getfieldPushes(t)
    PROVE  MarkingInv'
<1> USE DEF MarkingInv
<1>1. /\ gc.phase # "markDisabled" /\ t \notin gc.disabled
      /\ loaded[t] \in Block /\ grey' = grey \cup {loaded[t]}
      /\ loaded' \in [Thread -> BlockOrNull] /\ loaded'[t] = NULL
      /\ \A u \in Thread \ {t} : loaded'[u] = loaded[u]
      /\ stack' \in [Thread -> SUBSET Block]
      /\ \A u \in Thread : \A x \in stack'[u] : x \in stack[u] \/ (u = t /\ x = loaded[t])
      /\ UNCHANGED <<allocated, field, static, black, gc, garbage>>
    BY getfieldPushes_Does
<1>2. PICK o \in Block : o = loaded[t]
    BY <1>1
<1>3. \A x : Marked(x) => Marked(x)'
    BY <1>1 DEF Marked, Whitened
<1>4. gc.phase # "whiten" => Marked(o)'
    BY <1>1, <1>2 DEF Marked, Whitened
<1>a. TypeOK'
    BY <1>1 DEF TypeOK
<1>b. RootsInv'
    BY <1>1, <1>2, <1>3, <1>4 DEF RootsInv, MarkPhases
<1>c. PathInv' /\ DisabledInv'
    BY <1>1 DEF PathInv, DisabledInv
<1>d. \A S \in SUBSET Block : Spared(S) => Spared(S)'
    <2> SUFFICES ASSUME NEW S \in SUBSET Block, Spared(S) PROVE Spared(S)'
        OBVIOUS
    <2>1. o \in S
        BY <1>2, MarkingAssumption DEF Spared, Closed
    <2> QED
        BY <1>1, <1>2, <2>1 DEF Spared, Closed, Marked, Whitened
<1>e. GarbageInv'
    BY <1>1, <1>d DEF GarbageInv
<1> QED
    BY <1>a, <1>b, <1>c, <1>e

LEMMA putfield_Marking ==
    ASSUME MarkingInv, NEW t \in Thread, NEW o \in Block, NEW i \in 1 .. ObjectFields[o],
           NEW v \in BlockOrNull, putfield(t, o, i, v)
    PROVE  MarkingInv'
<1> USE DEF MarkingInv
<1>1. /\ o \in stack[t] /\ v \in stack[t] \cup {NULL}
      /\ field' \in [Block -> UNION {Fields(x) : x \in Block}]
      /\ \A x \in Block : field'[x] \in Fields(x)
      /\ \A x \in Block : \A j \in 1 .. ObjectFields[x] :
             field'[x][j] = field[x][j] \/ (x = o /\ j = i /\ field'[x][j] = v)
      /\ UNCHANGED <<allocated, static, stack, loaded, black, grey, gc, garbage>>
    BY putfield_Does
<1>a. TypeOK'
    BY <1>1 DEF TypeOK
<1>b. RootsInv' /\ PathInv' /\ DisabledInv'
    BY <1>1 DEF RootsInv, Marked, Whitened, PathInv, DisabledInv
<1>c. \A S \in SUBSET Block : Spared(S) => Spared(S)'
    BY <1>1 DEF Spared, Closed, Marked, Whitened
<1>d. GarbageInv'
    BY <1>1, <1>c DEF GarbageInv
<1> QED
    BY <1>a, <1>b, <1>d

\* The roots, one by one.
LEMMA InRoots ==
    ASSUME NEW v
    PROVE  v \in Roots <=> \/ v # NULL /\ (v = static \/ \E t \in Thread : v = loaded[t])
                           \/ \E t \in Thread : v \in stack[t]
BY DEF Roots, Visible

\* The least closed set.
LEMMA ReachableIn ==
    ASSUME TypeOK, NEW S \in SUBSET Block, Closed(S)
    PROVE  Reachable \subseteq S
<1>1. Roots \subseteq S
    BY InRoots DEF Closed
<1>2. FieldsOf(S) \subseteq S
    BY MarkingAssumption DEF FieldsOf, Closed
<1> QED
    BY <1>1, <1>2 DEF Reachable

\* What a reachable object holds is reachable.
LEMMA ReachableIsClosed ==
    ASSUME TypeOK
    PROVE  Closed(Reachable)
<1>1. Roots \subseteq Block
    BY InRoots DEF TypeOK, BlockOrNull
<1>2. Roots \subseteq Reachable
    BY <1>1 DEF Reachable
<1>3. ASSUME NEW o \in Reachable, NEW i \in 1 .. ObjectFields[o], field[o][i] # NULL
      PROVE  field[o][i] \in Reachable
    <2>1. o \in Block /\ field[o][i] \in Block
        BY <1>3, FieldTyped DEF Reachable, BlockOrNull
    <2>2. SUFFICES ASSUME NEW S \in SUBSET Block, Roots \subseteq S, FieldsOf(S) \subseteq S
                   PROVE  field[o][i] \in S
        BY <2>1 DEF Reachable
    <2>3. o \in S
        BY <2>2 DEF Reachable
    <2>4. field[o][i] \in FieldsOf(S)
        BY <2>1, <2>3 DEF FieldsOf
    <2> QED
        BY <2>2, <2>4
<1> QED
    BY <1>2, <1>3, InRoots DEF Closed

LEMMA collect_Marking ==
    ASSUME MarkingInv, NEW t \in Collectors, collect(t)
    PROVE  MarkingInv'
<1> USE DEF MarkingInv
<1>1. /\ gc' \in GC /\ gc'.phase = "whiten" /\ gc'.pBlock = 1 /\ gc'.path = <<>>
      /\ gc'.disabled = {} /\ gc'.roots = {}
      /\ garbage' = allocated \ Reachable
      /\ UNCHANGED <<allocated, field, static, stack, loaded, black, grey>>
    BY collect_Does
<1>2. Reachable \in SUBSET Block
    BY DEF Reachable
<1>3. PICK S \in SUBSET Block : S = Reachable /\ Closed(S)
    BY <1>2, ReachableIsClosed
<1>4. \A o \in Block : ~Whitened(o)'
    BY <1>1 DEF Whitened, Block
<1>a. TypeOK'
    BY <1>1 DEF TypeOK
<1>b. RootsInv' /\ PathInv' /\ DisabledInv'
    BY <1>1 DEF RootsInv, PathInv, DisabledInv, MarkPhases
<1>c. Spared(S)'
    <2>1. Closed(S)'
        BY <1>1, <1>3 DEF Closed
    <2>2. S \cap garbage' = {}
        BY <1>1, <1>3
    <2> QED
        BY <1>1, <1>4, <2>1, <2>2 DEF Spared, Marked
<1>d. GarbageInv'
    BY <1>1, <1>c DEF GarbageInv
<1> QED
    BY <1>a, <1>b, <1>d

LEMMA whiten_Marking ==
    ASSUME MarkingInv, whiten
    PROVE  MarkingInv'
<1> USE DEF MarkingInv
<1>0. PICK p \in Block : p = gc.pBlock
    BY DEF TypeOK, GC
<1>1. /\ gc.phase = "whiten" /\ black' = black \ {p} /\ grey' = grey \ {p}
      /\ gc' \in GC /\ gc'.path = <<>> /\ gc'.disabled = gc.disabled /\ gc'.roots = gc.roots
      /\ gc'.released = gc.released
      /\ \/ gc'.phase = "whiten" /\ gc'.pBlock = p + 1
         \/ gc'.phase = "classTable" /\ p = LastBlock
      /\ UNCHANGED <<allocated, field, static, stack, loaded, garbage>>
    BY <1>0, whiten_Does
<1>2. p \in Int /\ LastBlock \in Int
    BY MarkingAssumption DEF Block
<1>3. \A x \in Block : Whitened(x)' => x = p \/ Whitened(x)
    BY <1>0, <1>1, <1>2 DEF Whitened, Block
<1>4. \A x \in Block : Marked(x)' => Marked(x)
    BY <1>1, <1>3 DEF Marked
<1>5. gc.path = <<>> /\ gc.disabled = {} /\ gc.roots = {}
    BY <1>1 DEF PathInv, DisabledInv, MarkPhases
<1>a. TypeOK'
    BY <1>1 DEF TypeOK
<1>b. RootsInv' /\ PathInv' /\ DisabledInv'
    BY <1>1, <1>5 DEF RootsInv, PathInv, DisabledInv, MarkPhases
<1>c. \A S \in SUBSET Block : Spared(S) => Spared(S)'
    BY <1>1, <1>4 DEF Spared, Closed
<1>d. GarbageInv'
    BY <1>1, <1>c DEF GarbageInv
<1> QED
    BY <1>a, <1>b, <1>d

\* Scanning roots that are spared, in the phases of the roots.
LEMMA ScanningKeeps ==
    ASSUME MarkingInv, NEW R \in SUBSET Block, scanObjects(R), gc.phase \in {"classTable", "stacks"},
           \A S \in SUBSET Block : Spared(S) => R \subseteq S,
           gc' \in GC, gc'.phase = "stacks", gc'.path = gc.path, gc'.released = gc.released,
           gc'.roots \subseteq gc.roots,
           UNCHANGED <<allocated, field, static, stack, loaded, garbage>>
    PROVE  /\ TypeOK' /\ PathInv' /\ GarbageInv'
           /\ \A x : Marked(x) => Marked(x)'
           /\ \A x \in R : Marked(x)'
<1> USE DEF MarkingInv
<1>1. /\ black' \in SUBSET Block /\ grey' \in SUBSET Block
      /\ \A o \in R : o \in black' \cup grey'
      /\ \A o \in black' : o \in black \/ o \in R
      /\ \A o \in grey' : o \in grey \/ o \in R
      /\ black \subseteq black' /\ grey \subseteq grey'
    BY Scanned
<1>2. (\A x : Marked(x) => Marked(x)') /\ \A x \in R : Marked(x)'
    BY <1>1 DEF Marked, Whitened
<1>a. TypeOK'
    BY <1>1 DEF TypeOK
<1>b. PathInv'
    BY DEF PathInv, MarkPhases
<1>c. \A S \in SUBSET Block : Spared(S) => Spared(S)'
    BY <1>1 DEF Spared, Closed, Marked, Whitened
<1>d. GarbageInv'
    BY <1>c DEF GarbageInv
<1> QED
    BY <1>2, <1>a, <1>b, <1>d

LEMMA markClassTable_Marking ==
    ASSUME MarkingInv, markClassTable
    PROVE  MarkingInv'
<1> USE DEF MarkingInv
<1>1. /\ gc.phase = "classTable" /\ scanObjects({static} \ {NULL})
      /\ gc' \in GC /\ gc'.phase = "stacks" /\ gc'.path = gc.path /\ gc'.unmarked = Thread
      /\ gc'.disabled = gc.disabled /\ gc'.roots = gc.roots /\ gc'.released = gc.released
      /\ UNCHANGED <<allocated, field, static, stack, loaded, garbage>>
    BY markClassTable_Does
<1>2. gc.disabled = {} /\ gc.roots = {}
    BY <1>1 DEF DisabledInv
<1>3. /\ {static} \ {NULL} \in SUBSET Block
      /\ \A S \in SUBSET Block : Spared(S) => {static} \ {NULL} \subseteq S
    BY DEF TypeOK, BlockOrNull, Spared, Closed
<1>4. /\ TypeOK' /\ PathInv' /\ GarbageInv'
      /\ \A x \in {static} \ {NULL} : Marked(x)'
    BY <1>1, <1>3, ScanningKeeps
<1>a. RootsInv' /\ DisabledInv'
    BY <1>1, <1>2, <1>4 DEF RootsInv, DisabledInv, MarkPhases
<1> QED
    BY <1>4, <1>a

LEMMA disableThread_Marking ==
    ASSUME MarkingInv, NEW t \in Thread, disableThread(t)
    PROVE  MarkingInv'
<1> USE DEF MarkingInv
<1>1. /\ gc.phase = "stacks" /\ gc.disabled = {} /\ t \in gc.unmarked
      /\ gc' \in GC /\ gc'.phase = gc.phase /\ gc'.pBlock = gc.pBlock
      /\ gc'.unmarked = gc.unmarked \ {t} /\ gc'.disabled = {t} /\ gc'.roots = stack[t]
      /\ gc'.path = gc.path /\ gc'.released = gc.released
      /\ UNCHANGED <<allocated, field, static, stack, loaded, black, grey, garbage>>
    BY disableThread_Does
<1>a. TypeOK'
    BY <1>1 DEF TypeOK
<1>b. RootsInv' /\ DisabledInv' /\ PathInv'
    BY <1>1 DEF RootsInv, DisabledInv, PathInv, Marked, Whitened, MarkPhases
<1>c. \A S \in SUBSET Block : Spared(S) => Spared(S)'
    BY <1>1 DEF Spared, Closed, Marked, Whitened
<1>d. GarbageInv'
    BY <1>1, <1>c DEF GarbageInv
<1> QED
    BY <1>a, <1>b, <1>d

LEMMA markRoot_Marking ==
    ASSUME MarkingInv, NEW o \in Block, markRoot(o)
    PROVE  MarkingInv'
<1> USE DEF MarkingInv
<1>1. /\ gc.phase = "stacks" /\ o \in gc.roots /\ scanObjects({o})
      /\ gc' \in GC /\ gc'.phase = "stacks" /\ gc'.path = gc.path
      /\ gc'.unmarked = gc.unmarked /\ gc'.disabled = gc.disabled
      /\ gc'.roots = gc.roots \ {o} /\ gc'.released = gc.released
      /\ UNCHANGED <<allocated, field, static, stack, loaded, garbage>>
    BY markRoot_Does
<1>2. \A S \in SUBSET Block : Spared(S) => {o} \subseteq S
    BY <1>1 DEF Spared
<1>3. /\ TypeOK' /\ PathInv' /\ GarbageInv'
      /\ (\A x : Marked(x) => Marked(x)') /\ \A x \in {o} : Marked(x)'
    BY <1>1, <1>2, ScanningKeeps
<1>a. RootsInv' /\ DisabledInv'
    BY <1>1, <1>3 DEF RootsInv, DisabledInv, MarkPhases
<1> QED
    BY <1>3, <1>a

LEMMA enableThread_Marking ==
    ASSUME MarkingInv, enableThread
    PROVE  MarkingInv'
<1> USE DEF MarkingInv
<1>1. /\ gc.phase = "stacks" /\ gc.disabled # {} /\ gc.roots = {}
      /\ gc'.phase = "stacks" \/ (gc'.phase = "mark" /\ gc.unmarked = {})
      /\ gc' \in GC /\ gc'.pBlock = gc.pBlock /\ gc'.unmarked = gc.unmarked
      /\ gc'.disabled = {} /\ gc'.roots = {} /\ gc'.path = gc.path
      /\ gc'.released = gc.released
      /\ UNCHANGED <<allocated, field, static, stack, loaded, black, grey, garbage>>
    BY enableThread_Does
<1>a. TypeOK'
    BY <1>1 DEF TypeOK
<1>b. RootsInv' /\ DisabledInv' /\ PathInv'
    BY <1>1 DEF RootsInv, DisabledInv, PathInv, Marked, Whitened, MarkPhases
<1>c. \A S \in SUBSET Block : Spared(S) => Spared(S)'
    BY <1>1 DEF Spared, Closed, Marked, Whitened
<1>d. GarbageInv'
    BY <1>1, <1>c DEF GarbageInv
<1> QED
    BY <1>a, <1>b, <1>d

\* The marking of the heap blackens only what is spared.
LEMMA BlackeningKeeps ==
    ASSUME MarkingInv, gc.phase \in MarkPhases, black' \in SUBSET Block, black \subseteq black',
           \A S \in SUBSET Block : Spared(S) => black' \subseteq S,
           gc' \in GC, gc'.disabled = gc.disabled, gc'.roots = gc.roots,
           gc'.unmarked = gc.unmarked, gc'.released = gc.released,
           gc'.phase \in MarkPhases \/ (gc'.phase = "sweep" /\ gc'.pBlock = 1), PathInv',
           UNCHANGED <<allocated, field, static, stack, loaded, grey, garbage>>
    PROVE  MarkingInv'
<1> USE DEF MarkingInv
<1>1. \A x : (Marked(x) <=> x \in black \cup grey) /\ (Marked(x)' <=> x \in black' \cup grey)
    BY DEF Marked, Whitened, MarkPhases
<1>2. gc.phase # "none" /\ gc.disabled = {} /\ gc.roots = {}
    BY DEF DisabledInv, MarkPhases
<1>a. TypeOK'
    BY DEF TypeOK
<1>b. RootsInv' /\ DisabledInv'
    BY <1>1, <1>2 DEF RootsInv, DisabledInv, MarkPhases
<1>c. \A S \in SUBSET Block : Spared(S) => Spared(S)'
    BY <1>1 DEF Spared, Closed
<1>d. gc'.phase = "sweep" => \A o \in garbage : o >= gc'.pBlock
    BY DEF TypeOK, Block, MarkPhases
<1>e. GarbageInv'
    BY <1>2, <1>c, <1>d DEF GarbageInv
<1> QED
    BY <1>a, <1>b, <1>e

LEMMA checkNextBlock_Marking ==
    ASSUME MarkingInv, checkNextBlock
    PROVE  MarkingInv'
<1> USE DEF MarkingInv
<1>0. PICK p \in Block : p = gc.pBlock
    BY DEF TypeOK, GC
<1>1. /\ gc.phase \in MarkPhases /\ gc.path = <<>>
      /\ UNCHANGED <<allocated, field, static, stack, loaded, grey, garbage>>
    BY checkNextBlock_Does
<1>2. \A S \in SUBSET Block : Spared(S) => black \cup grey \subseteq S
    BY <1>1 DEF Spared, Marked, Whitened, MarkPhases, TypeOK
<1>3. black' \in SUBSET Block /\ black \subseteq black' /\ black' \subseteq black \cup grey
    BY <1>0, checkNextBlock_Does DEF TypeOK
<1>4. /\ gc' \in GC /\ gc'.disabled = gc.disabled /\ gc'.roots = gc.roots
      /\ gc'.unmarked = gc.unmarked /\ gc'.released = gc.released
      /\ gc'.phase \in MarkPhases \/ (gc'.phase = "sweep" /\ gc'.pBlock = 1)
    BY <1>1, checkNextBlock_Does, NextBlockDoes DEF MarkPhases
<1>5. PathInv'
    <2>1. CASE gc' = NextBlock(AfterMarking)
        BY <1>1, <2>1, NextBlockDoes DEF PathInv
    <2>2. CASE /\ black' = black \cup {p} /\ gc'.phase = gc.phase
               /\ Len(gc'.path) = 1 /\ gc'.path[1].block = p
        BY <1>1, <2>2 DEF PathInv
    <2> QED
        BY <1>0, <2>1, <2>2, checkNextBlock_Does
<1> QED
    BY <1>1, <1>2, <1>3, <1>4, <1>5, BlackeningKeeps

LEMMA markField_Marking ==
    ASSUME MarkingInv, markField
    PROVE  MarkingInv'
<1> USE DEF MarkingInv
<1>1. /\ gc.phase \in MarkPhases /\ gc.path # <<>>
      /\ UNCHANGED <<allocated, field, static, stack, loaded, grey, garbage>>
      /\ gc' \in GC /\ gc'.phase = gc.phase /\ gc'.pBlock = gc.pBlock
      /\ gc'.unmarked = gc.unmarked /\ gc'.disabled = gc.disabled
      /\ gc'.roots = gc.roots /\ gc'.released = gc.released
    BY markField_Does
<1>2. PICK n \in Nat \ {0}, top \in Place, o \in BlockOrNull :
          \E next \in 1 .. ObjectFields[top.block] : FieldDone(n, top, next, o)
    BY markField_Does
<1>3. PICK next \in 1 .. ObjectFields[top.block] : FieldDone(n, top, next, o)
    BY <1>2
<1>4. /\ n = Len(gc.path) /\ top = gc.path[n] /\ o = field[top.block][next]
      /\ \A k \in 1 .. n - 1 : gc'.path[k] = gc.path[k]
      /\ gc'.path[n].block = top.block
      /\ black' = IF o = NULL THEN black ELSE black \cup {o}
      /\ Len(gc'.path) = n \/ (Len(gc'.path) = n + 1 /\ gc'.path[n + 1].block = o /\ o # NULL)
    BY <1>3 DEF FieldDone
<1>5. top.block \in black
    BY <1>4 DEF PathInv
<1>6. \A S \in SUBSET Block : Spared(S) => black' \subseteq S
    BY <1>1, <1>4, <1>5 DEF Spared, Closed, Marked, Whitened, MarkPhases, TypeOK
<1>7. black' \in SUBSET Block /\ black \subseteq black'
    BY <1>4 DEF TypeOK, BlockOrNull
<1>8. PathInv'
    <2>1. \A k \in 1 .. n : gc'.path[k].block \in black'
        <3>1. \A k \in 1 .. n : gc.path[k].block \in black
            BY <1>4 DEF PathInv
        <3>2. ASSUME NEW k \in 1 .. n PROVE gc'.path[k].block = gc.path[k].block
            <4>1. CASE k = n
                BY <1>4, <4>1
            <4>2. CASE k # n
                <5>1. k \in 1 .. n - 1
                    BY <4>2
                <5> QED BY <1>4, <5>1
            <4> QED BY <4>1, <4>2
        <3> QED BY <1>7, <3>1, <3>2
    <2>2. \A k \in 1 .. Len(gc'.path) : k \in 1 .. n \/ (k = n + 1 /\ gc'.path[k].block = o /\ o # NULL)
        BY <1>4
    <2> QED
        BY <1>1, <1>4, <2>1, <2>2 DEF PathInv
<1> QED
    BY <1>1, <1>6, <1>7, <1>8, BlackeningKeeps

LEMMA containingObject_Marking ==
    ASSUME MarkingInv, containingObject
    PROVE  MarkingInv'
<1> USE DEF MarkingInv
<1>1. /\ gc.phase \in MarkPhases /\ gc.path # <<>>
      /\ UNCHANGED <<allocated, field, static, stack, loaded, black, grey, garbage>>
    BY containingObject_Does
<1>2. \A S \in SUBSET Block : Spared(S) => black' \subseteq S
    BY <1>1 DEF Spared, Marked, Whitened, MarkPhases, TypeOK
<1>3. black' \in SUBSET Block /\ black \subseteq black'
    BY <1>1 DEF TypeOK
<1>4. /\ gc' \in GC /\ gc'.disabled = gc.disabled /\ gc'.roots = gc.roots
      /\ gc'.unmarked = gc.unmarked /\ gc'.released = gc.released
      /\ gc'.phase \in MarkPhases \/ (gc'.phase = "sweep" /\ gc'.pBlock = 1)
    BY <1>1, containingObject_Does, NextBlockDoes DEF MarkPhases
<1>5. PathInv'
    <2>1. CASE gc' = NextBlock(AfterMarking)
        BY <1>1, <2>1, NextBlockDoes DEF PathInv
    <2>2. CASE gc' # NextBlock(AfterMarking)
        <3>1. PICK n \in Nat \ {0} :
                  /\ n = Len(gc.path) /\ gc'.phase = gc.phase
                  /\ Len(gc'.path) = n - 1 /\ \A k \in 1 .. n - 1 : gc'.path[k] = gc.path[k]
            BY <2>2, containingObject_Does
        <3> QED
            BY <1>1, <3>1 DEF PathInv
    <2> QED
        BY <2>1, <2>2
<1> QED
    BY <1>1, <1>2, <1>3, <1>4, <1>5, BlackeningKeeps

LEMMA sweep_Marking ==
    ASSUME MarkingInv, sweep
    PROVE  MarkingInv' /\ (gc'.phase = "none" => garbage \cap allocated' = {})
<1> USE DEF MarkingInv
<1>0. PICK p \in Block : p = gc.pBlock
    BY DEF TypeOK, GC
<1>1. /\ gc.phase = "sweep"
      /\ UNCHANGED <<static, stack, loaded, black, garbage>>
      /\ allocated' = IF p \in black THEN allocated ELSE allocated \ {p}
      /\ grey' \in SUBSET Block /\ grey' \subseteq grey
      /\ field' \in [Block -> UNION {Fields(x) : x \in Block}]
      /\ \A x \in Block : field'[x] \in Fields(x)
      /\ \A x \in Block : \A i \in 1 .. ObjectFields[x] :
             field'[x][i] = field[x][i] \/ field'[x][i] = NULL
    BY <1>0, sweep_Does
<1>2. /\ gc' \in GC /\ gc'.path = <<>>
      /\ \/ /\ p = LastBlock /\ gc'.phase = "none"
            /\ gc'.disabled = {} /\ gc'.roots = {}
         \/ /\ p < LastBlock /\ gc'.phase = "sweep" /\ gc'.pBlock = p + 1
            /\ gc'.disabled = gc.disabled /\ gc'.roots = gc.roots
            /\ gc'.released = IF p \in allocated \ black THEN gc.released \cup {p} ELSE gc.released
    BY <1>0, sweep_Does
<1>3. gc.disabled = {} /\ gc.roots = {}
    BY <1>1 DEF DisabledInv
<1>4. PICK S \in SUBSET Block : Spared(S)
    BY <1>1 DEF GarbageInv
<1>5. \A o \in garbage \cap allocated' : o > p
    <2>1. \A o \in garbage : o \notin black
        BY <1>1, <1>4 DEF Spared, Marked, Whitened, TypeOK
    <2>2. \A o \in garbage \cap allocated' : o \in allocated /\ o # p /\ o >= p
        BY <1>0, <1>1, <2>1 DEF GarbageInv
    <2> QED
        BY <1>0, <2>2 DEF TypeOK, Block
<1>6. gc'.phase = "none" => garbage \cap allocated' = {}
    BY <1>2, <1>5, MarkingAssumption DEF TypeOK, Block
<1>a. TypeOK'
    BY <1>1, <1>2 DEF TypeOK
<1>b. RootsInv' /\ PathInv' /\ DisabledInv'
    BY <1>2, <1>3 DEF RootsInv, PathInv, DisabledInv, MarkPhases
<1>c. GarbageInv'
    <2> SUFFICES ASSUME gc'.phase # "none" PROVE GarbageInv'
        BY DEF GarbageInv
    <2>1. Spared(S)'
        BY <1>1, <1>2, <1>4 DEF Spared, Closed, Marked, Whitened
    <2>2. garbage \subseteq allocated' \cup gc'.released
        BY <1>1, <1>2 DEF GarbageInv
    <2>3. \A o \in garbage \cap allocated' : o >= gc'.pBlock
        BY <1>2, <1>5 DEF TypeOK, Block
    <2> QED
        BY <1>1, <2>1, <2>2, <2>3 DEF GarbageInv
<1> QED
    BY <1>6, <1>a, <1>b, <1>c

LEMMA MarkingInvKept ==
    ASSUME MarkingInv, [Next]_vars
    PROVE  MarkingInv'
<1>1. ASSUME NEW t \in Thread, Instruction(t)
      PROVE  MarkingInv'
    BY <1>1, new_Marking, pop_Marking, getfieldReads_Marking, putfield_Marking,
       getfieldPushes_Marking, getstatic_Marking, putstatic_Marking
    DEF Instruction
<1>2. CASE Collection
    BY <1>2, collect_Marking, whiten_Marking, markClassTable_Marking, disableThread_Marking,
       markRoot_Marking, enableThread_Marking, checkNextBlock_Marking, markField_Marking,
       containingObject_Marking, sweep_Marking
    DEF Collection
<1>3. CASE UNCHANGED vars
    BY <1>3 DEF vars, objects, colours, MarkingInv, TypeOK, RootsInv, DisabledInv, PathInv, GarbageInv,
                Spared, Closed, Marked, Whitened
<1> QED
    BY <1>1, <1>2, <1>3 DEF Next

\* What holds of every collection, whatever the programs do.
THEOREM MarkingInvariance == Spec => []MarkingInv
<1>1. MarkingInv /\ [Next]_vars => MarkingInv'
    BY MarkingInvKept
<1> QED
    BY InitMarking, <1>1, PTL DEF Spec

\* What no thread could reach when garbageCollect began has been released when its sweep is
\* over, whatever the threads did meanwhile and whatever the colours were before.
THEOREM GarbageGoes == Spec => GarbageIsCollected
<1>1. MarkingInv /\ [Next]_vars
          => [gc.phase = "sweep" /\ gc'.phase = "none" => garbage \cap allocated' = {}]_vars
    <2> SUFFICES ASSUME MarkingInv, Next, gc.phase = "sweep", gc'.phase = "none"
                 PROVE  garbage \cap allocated' = {}
        OBVIOUS
    <2>1. sweep => garbage \cap allocated' = {}
        BY sweep_Marking
    <2>2. sweep \/ gc' = gc
        BY DEF Next, Instruction, Collection, new, pop, getfieldReads, putfield, getfieldPushes, getstatic,
               putstatic, collect, whiten, markClassTable, disableThread, markRoot, enableThread,
               checkNextBlock, markField, containingObject, MarkPhases
    <2> QED
        BY <2>1, <2>2
<1> QED
    BY <1>1, MarkingInvariance, PTL DEF Spec, GarbageIsCollected

\* From the end of the stacks' marking until the sweep, all that is on a stack or in a
\* static field is grey or black: getfield, putstatic and new have seen to it.
THEOREM RootsAreMarked == Spec => []RootsStayMarked
<1>1. MarkingInv => RootsStayMarked
    BY DEF MarkingInv, RootsInv, Visible, Marked, RootsStayMarked
<1> QED
    BY <1>1, MarkingInvariance, PTL

-----------------------------------------------------------------------------
(* What holds when the programs are disciplined. *)

\* Under the discipline no load is half done when anything else happens.
LEMMA Loaded ==
    ASSUME Disciplined, Undisturbed
    PROVE  \A t \in Thread : loaded[t] = NULL
BY DEF Disciplined, Undisturbed

LEMMA InitKeeping == Init => KeepingInv
<1> SUFFICES ASSUME Init PROVE KeepingInv
    OBVIOUS
<1>1. /\ allocated = {} /\ static = NULL /\ black = {}
      /\ stack = [t \in Thread |-> {}] /\ loaded = [t \in Thread |-> NULL]
      /\ gc.phase = "none" /\ gc.path = <<>> /\ Len(gc.path) = 0
    BY DEF Init, Idle
<1> QED
    BY <1>1 DEF KeepingInv, StayingInv, Staying, Closed, TricolourInv, PlaceInv, PassedInv

LEMMA new_Keeps ==
    ASSUME CollectionInv, NEW t \in Thread, NEW o \in Block, new(t, o)
    PROVE  KeepingInv'
<1> USE DEF CollectionInv, MarkingInv, KeepingInv
<1>1. /\ gc.phase # "markDisabled"
      /\ o \notin allocated /\ allocated' = allocated \cup {o} /\ black' = black \cup {o}
      /\ UNCHANGED <<static, loaded, grey, gc, garbage>>
      /\ \A i \in 1 .. ObjectFields[o] : field'[o][i] = NULL
      /\ \A x \in Block \ {o} : field'[x] = field[x]
      /\ \A u \in Thread : \A x \in stack'[u] : x \in stack[u] \/ (u = t /\ x = o)
    BY new_Does
<1>2. \A x : Marked(x) => Marked(x)'
    BY <1>1 DEF Marked, Whitened
<1>a. StayingInv'
    BY <1>1 DEF StayingInv, Staying, Closed, TypeOK
<1>b. TricolourInv'
    BY <1>1, <1>2 DEF TricolourInv, Whitened, Pending, TypeOK
<1>c. PlaceInv' /\ PassedInv'
    BY <1>1 DEF PlaceInv, PassedInv
<1> QED
    BY <1>a, <1>b, <1>c

LEMMA pop_Keeps ==
    ASSUME CollectionInv, NEW t \in Thread, NEW o \in Block, pop(t, o)
    PROVE  KeepingInv'
<1> USE DEF CollectionInv, MarkingInv, KeepingInv
<1>1. /\ \A u \in Thread : stack'[u] \subseteq stack[u]
      /\ UNCHANGED <<allocated, field, static, loaded, black, grey, gc, garbage>>
    BY pop_Does
<1>a. StayingInv'
    BY <1>1 DEF StayingInv, Staying, Closed
<1>b. TricolourInv' /\ PlaceInv' /\ PassedInv'
    BY <1>1 DEF TricolourInv, Whitened, Marked, Pending, PlaceInv, PassedInv
<1> QED
    BY <1>a, <1>b

LEMMA getstatic_Keeps ==
    ASSUME CollectionInv, NEW t \in Thread, getstatic(t)
    PROVE  KeepingInv'
<1> USE DEF CollectionInv, MarkingInv, KeepingInv
<1>1. /\ \A u \in Thread : \A x \in stack'[u] : x \in stack[u] \/ (u = t /\ x = static /\ static # NULL)
      /\ UNCHANGED <<allocated, field, static, loaded, black, grey, gc, garbage>>
    BY getstatic_Does
<1>a. StayingInv'
    BY <1>1 DEF StayingInv, Staying, Closed
<1>b. TricolourInv' /\ PlaceInv' /\ PassedInv'
    BY <1>1 DEF TricolourInv, Whitened, Marked, Pending, PlaceInv, PassedInv
<1> QED
    BY <1>a, <1>b

LEMMA putstatic_Keeps ==
    ASSUME CollectionInv, NEW t \in Thread, NEW v \in BlockOrNull, putstatic(t, v)
    PROVE  KeepingInv'
<1> USE DEF CollectionInv, MarkingInv, KeepingInv
<1>1. /\ gc.phase # "markDisabled" /\ v \in stack[t] \cup {NULL}
      /\ static' = v /\ grey' = IF v = NULL THEN grey ELSE grey \cup {v}
      /\ UNCHANGED <<allocated, field, stack, loaded, black, gc, garbage>>
    BY putstatic_Does
<1>2. \A x : Marked(x) => Marked(x)'
    BY <1>1 DEF Marked, Whitened
<1>a. StayingInv'
    BY <1>1 DEF StayingInv, Staying, Closed
<1>b. TricolourInv'
    BY <1>1, <1>2 DEF TricolourInv, Whitened, Pending
<1>c. PlaceInv' /\ PassedInv'
    BY <1>1 DEF PlaceInv, PassedInv
<1> QED
    BY <1>a, <1>b, <1>c

LEMMA getfieldReads_Keeps ==
    ASSUME CollectionInv, NEW t \in Thread, NEW o \in Block, NEW i \in 1 .. ObjectFields[o],
           getfieldReads(t, o, i)
    PROVE  KeepingInv'
<1> USE DEF CollectionInv, MarkingInv, KeepingInv
<1>1. /\ o \in stack[t] /\ loaded'[t] = field[o][i]
      /\ \A u \in Thread \ {t} : loaded'[u] = loaded[u]
      /\ UNCHANGED <<allocated, field, static, stack, black, grey, gc, garbage>>
    BY getfieldReads_Does
<1>a. StayingInv'
    BY <1>1 DEF StayingInv, Staying, Closed
<1>b. TricolourInv' /\ PlaceInv' /\ PassedInv'
    BY <1>1 DEF TricolourInv, Whitened, Marked, Pending, PlaceInv, PassedInv
<1> QED
    BY <1>a, <1>b

\* The other threads are not disabled for the marking, so no block has been passed.
LEMMA getfieldPushes_Keeps ==
    ASSUME CollectionInv, NEW t \in Thread, getfieldPushes(t)
    PROVE  KeepingInv'
<1> USE DEF CollectionInv, MarkingInv, KeepingInv
<1>1. /\ gc.phase # "markDisabled"
      /\ loaded[t] \in Block /\ grey' = grey \cup {loaded[t]} /\ loaded'[t] = NULL
      /\ \A u \in Thread \ {t} : loaded'[u] = loaded[u]
      /\ \A u \in Thread : \A x \in stack'[u] : x \in stack[u] \/ (u = t /\ x = loaded[t])
      /\ UNCHANGED <<allocated, field, static, black, gc, garbage>>
    BY getfieldPushes_Does
<1>2. \A x : Marked(x) => Marked(x)'
    BY <1>1 DEF Marked, Whitened
<1>3. loaded[t] \in Staying
    BY <1>1, MarkingAssumption DEF StayingInv, Closed
<1>a. StayingInv'
    BY <1>1, <1>3 DEF StayingInv, Staying, Closed
<1>b. TricolourInv'
    BY <1>1, <1>2 DEF TricolourInv, Whitened, Pending
<1>c. PlaceInv' /\ PassedInv'
    BY <1>1 DEF PlaceInv, PassedInv
<1> QED
    BY <1>a, <1>b, <1>c

\* While the roots are marked the discipline keeps the store from hiding an object; after
\* that, all that can be stored is marked already.
LEMMA putfield_Keeps ==
    ASSUME CollectionInv, Disciplined, NEW t \in Thread, NEW o \in Block,
           NEW i \in 1 .. ObjectFields[o], NEW v \in BlockOrNull, putfield(t, o, i, v)
    PROVE  KeepingInv'
<1> USE DEF CollectionInv, MarkingInv, KeepingInv
<1>1. /\ v \in stack[t] \cup {NULL}
      /\ gc.phase \in RootPhases => v = NULL \/ Marked(v) \/ ~(o \in black /\ Whitened(o))
      /\ \A x \in Block : \A j \in 1 .. ObjectFields[x] :
             field'[x][j] = field[x][j] \/ (x = o /\ j = i /\ field'[x][j] = v)
      /\ UNCHANGED <<allocated, static, stack, loaded, black, grey, gc, garbage>>
    BY putfield_Does
<1>2. \A x : (Marked(x))' <=> Marked(x)
    BY <1>1 DEF Marked, Whitened
<1>3. gc.phase \in MarkPhases => v = NULL \/ Marked(v)
    BY <1>1 DEF RootsInv
<1>a. StayingInv'
    BY <1>1 DEF StayingInv, Staying, Closed, TypeOK
<1>b. TricolourInv'
    BY <1>1, <1>2, <1>3 DEF TricolourInv, Whitened, Pending, TypeOK
<1>c. PlaceInv' /\ PassedInv'
    BY <1>1 DEF PlaceInv, PassedInv
<1> QED
    BY <1>a, <1>b, <1>c

LEMMA collect_Keeps ==
    ASSUME CollectionInv, NEW t \in Collectors, collect(t)
    PROVE  KeepingInv'
<1> USE DEF CollectionInv, MarkingInv, KeepingInv
<1>1. /\ gc.phase = "none" /\ gc'.phase = "whiten" /\ gc'.pBlock = 1 /\ gc'.path = <<>>
      /\ UNCHANGED <<allocated, field, static, stack, loaded, black, grey>>
    BY collect_Does
<1>2. \A o \in Block : ~Whitened(o)'
    BY <1>1 DEF Whitened, Block
<1>a. StayingInv'
    BY <1>1 DEF StayingInv, Staying, Closed
<1>b. TricolourInv' /\ PlaceInv' /\ PassedInv'
    BY <1>1, <1>2 DEF TricolourInv, PlaceInv, PassedInv, TypeOK
<1> QED
    BY <1>a, <1>b

LEMMA whiten_Keeps ==
    ASSUME CollectionInv, whiten
    PROVE  KeepingInv'
<1> USE DEF CollectionInv, MarkingInv, KeepingInv
<1>0. PICK p \in Block : p = gc.pBlock
    BY DEF TypeOK, GC
<1>1. /\ gc.phase = "whiten" /\ black' = black \ {p} /\ grey' = grey \ {p} /\ gc'.path = <<>>
      /\ \/ gc'.phase = "whiten" /\ gc'.pBlock = p + 1
         \/ gc'.phase = "classTable" /\ p = LastBlock
      /\ UNCHANGED <<allocated, field, static, stack, loaded, garbage>>
    BY <1>0, whiten_Does
<1>2. p \in Int /\ LastBlock \in Int
    BY MarkingAssumption DEF Block
<1>3. \A x \in Block : Whitened(x)' => x = p \/ Whitened(x)
    BY <1>0, <1>1, <1>2 DEF Whitened, Block
<1>4. \A x \in Block : Marked(x) => x # p /\ Marked(x)'
    BY <1>0, <1>1, <1>2 DEF Whitened, Marked, Block
<1>5. \A o \in Block : \A i \in 1 .. ObjectFields[o] : field[o][i] \in BlockOrNull /\ ~Pending(o, i)
    <2>1. gc.path = <<>>
        BY <1>1 DEF PathInv, MarkPhases
    <2> QED
        BY <2>1, FieldTyped DEF Pending
<1>a. StayingInv'
    BY <1>1 DEF StayingInv, Staying, Closed
<1>b. TricolourInv'
    BY <1>1, <1>3, <1>4, <1>5 DEF TricolourInv, TypeOK, RootPhases, BlockOrNull
<1>c. PlaceInv' /\ PassedInv'
    BY <1>1 DEF PlaceInv, PassedInv
<1> QED
    BY <1>a, <1>b, <1>c

\* Of what is scanned only objects without references become black.
LEMMA ScanningKeepsTricolour ==
    ASSUME CollectionInv, NEW R \in SUBSET Block, scanObjects(R), gc.phase \in {"classTable", "stacks"},
           gc'.phase = "stacks", gc'.path = gc.path,
           UNCHANGED <<allocated, field, static, stack, loaded>>
    PROVE  KeepingInv'
<1> USE DEF CollectionInv, MarkingInv, KeepingInv
<1>1. /\ black \subseteq black' /\ grey \subseteq grey'
      /\ \A o \in black' \ black : \A i \in 1 .. ObjectFields[o] : field[o][i] = NULL
    BY Scanned
<1>2. \A x : Marked(x) => Marked(x)'
    BY <1>1 DEF Marked, Whitened
<1>a. StayingInv'
    BY DEF StayingInv, Staying, Closed
<1>b. TricolourInv'
    <2>1. \A o, i : ~Pending(o, i)
        BY DEF Pending, PathInv, MarkPhases
    <2>2. \A o \in allocated \cap black : \A i \in 1 .. ObjectFields[o] :
              field[o][i] = NULL \/ Marked(field[o][i])
        BY <2>1 DEF TricolourInv, Whitened, RootPhases
    <2> QED
        BY <1>1, <1>2, <2>2 DEF TricolourInv
<1>c. PlaceInv' /\ PassedInv'
    BY DEF PlaceInv, PathInv, PassedInv, MarkPhases
<1> QED
    BY <1>a, <1>b, <1>c

LEMMA markClassTable_Keeps ==
    ASSUME CollectionInv, markClassTable
    PROVE  KeepingInv'
<1>1. {static} \ {NULL} \in SUBSET Block
    BY DEF CollectionInv, MarkingInv, TypeOK, BlockOrNull
<1> QED
    BY <1>1, markClassTable_Does, ScanningKeepsTricolour DEF CollectionInv, MarkingInv

LEMMA markRoot_Keeps ==
    ASSUME CollectionInv, NEW o \in Block, markRoot(o)
    PROVE  KeepingInv'
BY markRoot_Does, ScanningKeepsTricolour DEF CollectionInv, MarkingInv

LEMMA disableThread_Keeps ==
    ASSUME CollectionInv, NEW t \in Thread, disableThread(t)
    PROVE  KeepingInv'
<1> USE DEF CollectionInv, MarkingInv, KeepingInv
<1>1. /\ gc'.phase = gc.phase /\ gc'.pBlock = gc.pBlock /\ gc'.path = gc.path
      /\ UNCHANGED <<allocated, field, static, stack, loaded, black, grey, garbage>>
    BY disableThread_Does
<1> QED
    BY <1>1 DEF StayingInv, Staying, Closed, TricolourInv, Marked, Whitened, Pending, PlaceInv, PassedInv

LEMMA enableThread_Keeps ==
    ASSUME CollectionInv, enableThread
    PROVE  KeepingInv'
<1> USE DEF CollectionInv, MarkingInv, KeepingInv
<1>1. /\ gc.phase = "stacks" /\ gc'.phase \in {"stacks", "mark"}
      /\ gc'.pBlock = gc.pBlock /\ gc'.path = gc.path
      /\ UNCHANGED <<allocated, field, static, stack, loaded, black, grey, garbage>>
    BY enableThread_Does
<1> QED
    BY <1>1 DEF StayingInv, Staying, Closed, TricolourInv, Marked, Whitened, Pending, PlaceInv, PassedInv,
                RootPhases, MarkPhases

\* Going on to the next block or the next phase, when the block looked at is black or not
\* grey: at the end of the second marking, what is marked is black.
LEMMA NextBlockKeeps ==
    ASSUME CollectionInv, Disciplined, Undisturbed, gc.phase \in MarkPhases,
           gc' = NextBlock(AfterMarking),
           \A o \in allocated \cap black : \A i \in 1 .. ObjectFields[o] : ~Pending(o, i),
           \/ black' = black
           \/ black' = black \cup {gc.pBlock} /\ gc.pBlock \in grey /\ ObjectFields[gc.pBlock] = 0,
           gc.pBlock \in allocated \cap grey => gc.pBlock \in black',
           UNCHANGED <<allocated, field, static, stack, loaded, grey, garbage>>
    PROVE  KeepingInv'
<1> USE DEF CollectionInv, MarkingInv, KeepingInv
<1>0. PICK p \in Block : p = gc.pBlock
    BY DEF TypeOK, GC
<1>1. /\ black' \in SUBSET Block /\ black \subseteq black' /\ black' \cup grey = black \cup grey
      /\ \A o \in black' \ black : ObjectFields[o] = 0
    BY <1>0 DEF TypeOK
<1>2. /\ gc'.path = <<>> /\ Len(gc'.path) = 0
      /\ \/ gc'.phase = gc.phase /\ gc'.pBlock = p + 1
         \/ /\ p = LastBlock /\ gc'.pBlock = 1
            /\ \/ gc.phase = "mark" /\ gc'.phase = "markDisabled"
               \/ gc.phase = "markDisabled" /\ gc'.phase = "sweep"
    BY <1>0, NextBlockDoes
<1>3. p \in Int /\ LastBlock \in Int /\ \A o \in allocated : o \in Int /\ 1 <= o /\ o <= LastBlock
    BY MarkingAssumption DEF TypeOK, Block
<1>4. \A x : Marked(x) <=> x \in black \cup grey
    BY DEF Marked, Whitened, MarkPhases
<1>5. \A o \in allocated \cap black' : \A i \in 1 .. ObjectFields[o] :
          field[o][i] = NULL \/ field[o][i] \in black' \cup grey
    BY <1>1, <1>4 DEF TricolourInv, Whitened, MarkPhases
<1>6. /\ static = NULL \/ static \in black' \cup grey
      /\ \A t \in Thread : \A o \in stack[t] : o \in black' \cup grey
    BY <1>1, <1>4 DEF RootsInv, MarkPhases
<1>7. CASE gc'.phase \in MarkPhases
    <2>1. \A x : Marked(x)' <=> x \in black' \cup grey
        BY <1>7 DEF Marked, Whitened, MarkPhases
    <2>2. StayingInv'
        BY <1>7 DEF StayingInv, Staying, Closed, MarkPhases
    <2>3. TricolourInv'
        BY <1>5, <2>1 DEF TricolourInv
    <2>4. PlaceInv' /\ PassedInv'
        BY <1>0, <1>1, <1>2, <1>3, <1>7 DEF PlaceInv, PassedInv, MarkPhases
    <2> QED
        BY <2>2, <2>3, <2>4
<1>8. CASE gc'.phase = "sweep"
    <2>1. gc.phase = "markDisabled" /\ p = LastBlock /\ gc'.pBlock = 1
        BY <1>2, <1>8 DEF MarkPhases
    <2>2. \A o \in allocated \cap grey : o \in black'
        BY <1>0, <1>1, <1>3, <2>1 DEF PassedInv
    <2>3. StayingInv'
        BY <1>5, <1>6, <1>8, <2>1, <2>2, Loaded DEF StayingInv, Staying, Closed, MarkPhases
    <2>4. TricolourInv' /\ PlaceInv' /\ PassedInv'
        BY <1>2, <1>3, <1>8, <2>1 DEF TricolourInv, PlaceInv, PassedInv, RootPhases, MarkPhases
    <2> QED
        BY <2>3, <2>4
<1> QED
    BY <1>2, <1>7, <1>8 DEF MarkPhases

\* A block becomes black while the heap is marked: with its fields still to be looked at,
\* or with nothing in them.
LEMMA BlackeningKeepsTricolour ==
    ASSUME CollectionInv, NEW o \in allocated, gc.phase \in MarkPhases, gc'.phase = gc.phase,
           gc'.pBlock = gc.pBlock, black' = black \cup {o}, PlaceInv',
           \A x \in allocated \cap black : \A i \in 1 .. ObjectFields[x] :
               Pending(x, i) => Pending(x, i)' \/ field[x][i] \in black' \cup {NULL},
           o \notin black =>
               \A i \in 1 .. ObjectFields[o] : field[o][i] = NULL \/ Pending(o, i)',
           UNCHANGED <<allocated, field, static, stack, loaded, grey, garbage>>
    PROVE  KeepingInv'
<1> USE DEF CollectionInv, MarkingInv, KeepingInv
<1>1. \A x : (Marked(x) => Marked(x)') /\ Whitened(x) /\ Whitened(x)'
    BY DEF Marked, Whitened, MarkPhases
<1>2. \A x \in black' : Marked(x)'
    BY <1>1 DEF Marked
<1>a. TricolourInv'
    BY <1>1, <1>2 DEF TricolourInv, TypeOK
<1>b. StayingInv' /\ PassedInv'
    BY DEF StayingInv, Staying, Closed, PassedInv, MarkPhases
<1> QED
    BY <1>a, <1>b

LEMMA checkNextBlock_Keeps ==
    ASSUME CollectionInv, Disciplined, checkNextBlock
    PROVE  KeepingInv'
<1> USE DEF CollectionInv, MarkingInv, KeepingInv
<1>0. PICK p \in Block : p = gc.pBlock
    BY DEF TypeOK, GC
<1>1. /\ gc.phase \in MarkPhases /\ gc.path = <<>> /\ Undisturbed
      /\ UNCHANGED <<allocated, field, static, stack, loaded, grey, garbage>>
    BY checkNextBlock_Does
<1>2. \A o, i : ~Pending(o, i)
    BY <1>1 DEF Pending
<1>3. CASE gc' = NextBlock(AfterMarking)
    <2>1. gc'.path = <<>>
        BY <1>1, <1>3, NextBlockDoes
    <2>2. \/ black' = black /\ ~(p \in (grey \ black) \cap allocated)
          \/ black' = black \cup {p} /\ p \in grey /\ ObjectFields[p] = 0
        <3>1. Len(<<>>) = 0
            OBVIOUS
        <3> QED
            BY <1>0, <2>1, checkNextBlock_Does
    <2> QED
        BY <1>0, <1>1, <1>2, <1>3, <2>2, NextBlockKeeps
<1>4. CASE gc' # NextBlock(AfterMarking)
    <2>1. /\ p \in allocated /\ black' = black \cup {p}
          /\ gc'.phase = gc.phase /\ gc'.pBlock = p /\ Len(gc'.path) = 1
          /\ gc'.path[1].block = p /\ gc'.path[1].counter = 0
        BY <1>0, <1>4, checkNextBlock_Does
    <2>2. \A i \in 1 .. ObjectFields[p] : Pending(p, i)'
        BY <2>1 DEF Pending
    <2>3. PlaceInv'
        BY <1>1, <2>1 DEF PlaceInv
    <2> QED
        BY <1>0, <1>1, <1>2, <2>1, <2>2, <2>3, BlackeningKeepsTricolour
<1> QED
    BY <1>3, <1>4

LEMMA markField_Keeps ==
    ASSUME CollectionInv, markField
    PROVE  KeepingInv'
<1> USE DEF CollectionInv, MarkingInv, KeepingInv
<1>1. /\ gc.phase \in MarkPhases /\ gc.path # <<>>
      /\ UNCHANGED <<allocated, field, static, stack, loaded, grey, garbage>>
      /\ gc'.phase = gc.phase /\ gc'.pBlock = gc.pBlock
    BY markField_Does
<1>2. PICK n \in Nat \ {0}, top \in Place, o \in BlockOrNull :
          \E next \in 1 .. ObjectFields[top.block] : FieldDone(n, top, next, o)
    BY markField_Does
<1>3. PICK next \in 1 .. ObjectFields[top.block] : FieldDone(n, top, next, o)
    BY <1>2
<1>4. /\ n = Len(gc.path) /\ top = gc.path[n]
      /\ next = top.counter + 1 /\ o = field[top.block][next]
    BY <1>3 DEF FieldDone
<1>5. /\ \A k \in 1 .. n - 1 : gc'.path[k] = gc.path[k]
      /\ gc'.path[n].block = top.block /\ gc'.path[n].counter = next
      /\ \/ Len(gc'.path) = n
         \/ /\ Len(gc'.path) = n + 1 /\ o # NULL
            /\ gc'.path[n + 1].block = o /\ gc'.path[n + 1].counter = 0
    BY <1>3 DEF FieldDone
<1>6. /\ black' = IF o = NULL THEN black ELSE black \cup {o}
      /\ \/ o \in black \/ o = NULL \/ \A i \in 1 .. ObjectFields[o] : field[o][i] = NULL
         \/ Len(gc'.path) = n + 1 /\ gc'.path[n + 1].block = o /\ gc'.path[n + 1].counter = 0
    BY <1>3 DEF FieldDone
<1>7. top.block \in Block /\ top.counter \in Nat /\ ObjectFields[top.block] \in Nat
    BY MarkingAssumption DEF Place
<1>8. top.block \in black \cap allocated
    BY <1>4 DEF PathInv, PlaceInv
<1>9. o \in allocated \cup {NULL}
    BY <1>1, <1>4, <1>8 DEF StayingInv, Staying, Closed, MarkPhases
<1>10. \A k \in 1 .. n : k \in 1 .. Len(gc'.path)
    BY <1>5
\* A field that is pending still is, except the one that is looked at.
<1>11. ASSUME NEW x \in Block, NEW i \in 1 .. ObjectFields[x], Pending(x, i),
             ~(x = top.block /\ i = next)
      PROVE  Pending(x, i)'
    <2>1. PICK k \in 1 .. n : gc.path[k].block = x /\ gc.path[k].counter < i
        BY <1>4, <1>11 DEF Pending
    <2>2. CASE k = n
        BY <1>4, <1>5, <1>7, <1>10, <1>11, <2>1, <2>2 DEF Pending
    <2>3. CASE k \in 1 .. n - 1
        BY <1>5, <1>10, <2>1, <2>3 DEF Pending
    <2> QED
        BY <2>2, <2>3
<1>12. \A x \in allocated \cap black : \A i \in 1 .. ObjectFields[x] :
           Pending(x, i) => Pending(x, i)' \/ field[x][i] \in black' \cup {NULL}
    BY <1>4, <1>6, <1>11 DEF TypeOK
<1>13. PlaceInv'
    <2>1. gc'.path[1].block = gc'.pBlock
        <3>1. n = 1 \/ 1 \in 1 .. n - 1
            OBVIOUS
        <3> QED
            BY <1>1, <1>4, <1>5, <3>1 DEF PlaceInv
    <2>2. \A k \in 1 .. n : gc'.path[k].block \in allocated
        BY <1>4, <1>5, <1>8 DEF PlaceInv
    <2>3. \A k \in 1 .. Len(gc'.path) : k \in 1 .. n \/ (k = n + 1 /\ gc'.path[k].block = o /\ o # NULL)
        BY <1>5
    <2> QED
        BY <1>1, <1>9, <2>1, <2>2, <2>3 DEF PlaceInv
<1>14. CASE o = NULL
    <2>1. black' = black \cup {top.block}
        BY <1>6, <1>8, <1>14
    <2> QED
        BY <1>1, <1>8, <1>12, <1>13, <2>1, BlackeningKeepsTricolour
<1>15. CASE o # NULL
    <2>1. o \in allocated /\ black' = black \cup {o}
        BY <1>6, <1>9, <1>15
    <2>2. o \notin black => \A i \in 1 .. ObjectFields[o] : field[o][i] = NULL \/ Pending(o, i)'
        <3>1. CASE Len(gc'.path) = n + 1 /\ gc'.path[n + 1].block = o /\ gc'.path[n + 1].counter = 0
            <4>1. n + 1 \in 1 .. Len(gc'.path)
                BY <3>1
            <4> QED
                BY <3>1, <4>1 DEF Pending
        <3> QED
            BY <1>6, <1>15, <3>1
    <2> QED
        BY <1>1, <1>12, <1>13, <2>1, <2>2, BlackeningKeepsTricolour
<1> QED
    BY <1>14, <1>15

\* The object whose fields are all done has none that is pending.
LEMMA containingObject_Keeps ==
    ASSUME CollectionInv, Disciplined, containingObject
    PROVE  KeepingInv'
<1> USE DEF CollectionInv, MarkingInv, KeepingInv
<1>1. /\ gc.phase \in MarkPhases /\ gc.path # <<>> /\ Undisturbed
      /\ UNCHANGED <<allocated, field, static, stack, loaded, black, grey, garbage>>
    BY containingObject_Does
<1>2. PICK n \in Nat \ {0} :
          /\ n = Len(gc.path) /\ gc.path[n].block \in Block
          /\ gc.path[n].counter = ObjectFields[gc.path[n].block]
          /\ \/ /\ n > 1 /\ gc'.phase = gc.phase /\ gc'.pBlock = gc.pBlock
                /\ Len(gc'.path) = n - 1 /\ \A k \in 1 .. n - 1 : gc'.path[k] = gc.path[k]
             \/ n = 1 /\ gc' = NextBlock(AfterMarking)
    BY containingObject_Does
<1>3. \A o \in Block : \A i \in 1 .. ObjectFields[o] :
          gc.path[n].block = o => ~(gc.path[n].counter < i)
    BY <1>2, MarkingAssumption
<1>4. \A o \in Block : \A i \in 1 .. ObjectFields[o] : Pending(o, i) =>
          \E k \in 1 .. n - 1 : gc.path[k].block = o /\ gc.path[k].counter < i
    BY <1>2, <1>3 DEF Pending
<1>5. CASE gc' # NextBlock(AfterMarking)
    <2>1. \A o \in Block : \A i \in 1 .. ObjectFields[o] : Pending(o, i) => Pending(o, i)'
        <3>1. Len(gc'.path) = n - 1 /\ \A k \in 1 .. n - 1 : gc'.path[k] = gc.path[k]
            BY <1>2, <1>5
        <3> QED
            BY <1>4, <3>1 DEF Pending
    <2>2. \A x : (Marked(x) <=> Marked(x)') /\ (Whitened(x) <=> Whitened(x)')
        BY <1>1, <1>2, <1>5 DEF Marked, Whitened
    <2>a. TricolourInv'
        BY <1>1, <1>2, <1>5, <2>1, <2>2 DEF TricolourInv, TypeOK
    <2>b. PlaceInv'
        BY <1>1, <1>2, <1>5 DEF PlaceInv
    <2>c. StayingInv' /\ PassedInv'
        BY <1>1, <1>2, <1>5 DEF StayingInv, Staying, Closed, PassedInv
    <2> QED
        BY <2>a, <2>b, <2>c
<1>6. CASE gc' = NextBlock(AfterMarking)
    <2>1. n = 1
        <3>1. gc'.path = <<>> /\ Len(gc'.path) = 0
            BY <1>1, <1>6, NextBlockDoes
        <3> QED
            BY <1>2, <3>1
    <2>2. \A o \in allocated \cap black : \A i \in 1 .. ObjectFields[o] : ~Pending(o, i)
        BY <1>4, <2>1 DEF TypeOK
    <2>3. gc.pBlock \in black
        BY <1>1, <1>2, <2>1 DEF PlaceInv, PathInv
    <2> QED
        BY <1>1, <1>6, <2>2, <2>3, NextBlockKeeps
<1> QED
    BY <1>5, <1>6

\* When the last block has been passed, what is left is black.
LEMMA sweep_Keeps ==
    ASSUME CollectionInv, sweep
    PROVE  KeepingInv'
<1> USE DEF CollectionInv, MarkingInv, KeepingInv
<1>0. PICK p \in Block : p = gc.pBlock
    BY DEF TypeOK, GC
<1>1. /\ gc.phase = "sweep"
      /\ UNCHANGED <<static, stack, loaded, black, garbage>>
      /\ allocated' = IF p \in black THEN allocated ELSE allocated \ {p}
      /\ \A x \in Block : \A i \in 1 .. ObjectFields[x] :
             field'[x][i] = field[x][i] \/ field'[x][i] = NULL
      /\ gc'.path = <<>>
      /\ \/ p = LastBlock /\ gc'.phase = "none"
         \/ p < LastBlock /\ gc'.phase = "sweep" /\ gc'.pBlock = p + 1
    BY <1>0, sweep_Does
<1>2. p \in Int /\ LastBlock \in Int /\ \A o \in allocated : o \in Int /\ o <= LastBlock
    BY MarkingAssumption DEF TypeOK, Block
<1>3. Closed(allocated \cap black)'
    BY <1>1 DEF StayingInv, Staying, Closed, TypeOK
<1>4. \A o \in allocated' : o <= p => o \in black
    BY <1>0, <1>1, <1>2 DEF PassedInv
<1>5. (Staying = allocated \cap black)'
    BY <1>1, <1>2, <1>4 DEF Staying
<1>a. StayingInv'
    BY <1>3, <1>5 DEF StayingInv
<1>b. TricolourInv' /\ PlaceInv'
    BY <1>1 DEF TricolourInv, PlaceInv, RootPhases, MarkPhases
<1>c. PassedInv'
    BY <1>1, <1>2, <1>4 DEF PassedInv
<1> QED
    BY <1>a, <1>b, <1>c

LEMMA CollectionInvKept ==
    ASSUME CollectionInv, Disciplined, [Next]_vars
    PROVE  CollectionInv'
<1>1. ASSUME NEW t \in Thread, Instruction(t)
      PROVE  KeepingInv'
    BY <1>1, new_Keeps, pop_Keeps, getfieldReads_Keeps, putfield_Keeps, getfieldPushes_Keeps,
       getstatic_Keeps, putstatic_Keeps
    DEF Instruction
<1>2. ASSUME Collection
      PROVE  KeepingInv'
    BY <1>2, collect_Keeps, whiten_Keeps, markClassTable_Keeps, disableThread_Keeps, markRoot_Keeps,
       enableThread_Keeps, checkNextBlock_Keeps, markField_Keeps, containingObject_Keeps, sweep_Keeps
    DEF Collection
<1>3. ASSUME UNCHANGED vars
      PROVE  KeepingInv'
    BY <1>3 DEF vars, objects, colours, CollectionInv, KeepingInv, StayingInv, Staying, Closed,
                TricolourInv, PlaceInv, PassedInv, Marked, Whitened, Pending
<1>4. MarkingInv'
    BY MarkingInvKept DEF CollectionInv
<1> QED
    BY <1>1, <1>2, <1>3, <1>4 DEF Next, CollectionInv

\* The invariant the marking and the sweep rely on.
THEOREM CollectionInvariance == Disciplined => (Spec => []CollectionInv)
<1> SUFFICES ASSUME Disciplined PROVE Spec => []CollectionInv
    OBVIOUS
<1>1. Init => CollectionInv
    BY InitMarking, InitKeeping DEF CollectionInv
<1>2. CollectionInv /\ [Next]_vars => CollectionInv'
    BY CollectionInvKept
<1> QED
    BY <1>1, <1>2, PTL DEF Spec

\* While the programs keep the disciplines, javaMarkFunction and the sweep leave no field,
\* stack or register with the address of a block that has been released.
THEOREM WhatIsReachedIsKept == Disciplined => (Spec => []NothingReachableIsLost)
<1> SUFFICES ASSUME Disciplined PROVE Spec => []NothingReachableIsLost
    OBVIOUS
<1>1. CollectionInv => NothingReachableIsLost
    <2> SUFFICES ASSUME CollectionInv PROVE NothingReachableIsLost
        OBVIOUS
    <2>1. Staying \subseteq allocated /\ Staying \in SUBSET Block
        BY DEF CollectionInv, MarkingInv, TypeOK, Staying
    <2> QED
        BY <2>1, ReachableIn
        DEF CollectionInv, MarkingInv, KeepingInv, StayingInv, NothingReachableIsLost
<1> QED
    BY <1>1, CollectionInvariance, PTL

=============================================================================
