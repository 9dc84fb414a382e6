------------------------------- MODULE Classes -------------------------------
(***************************************************************************)
(* The making of a class from its class file, once its superclass and      *)
(* superinterfaces are in the class table: what is read is checked and     *)
(* counted (load.c), then everything is laid out in one block whose size   *)
(* is computed beforehand (construct.c), with the static fields and the    *)
(* java.lang.Class object at its top (prepare.c).                          *)
(*                                                                         *)
(* A class file is what is left of it when its constant pool is read: the  *)
(* methods and fields with their keys, which are numbers.                  *)
(***************************************************************************)
EXTENDS Integers, FiniteSets, SequencesExt, FiniteSetsExt

CONSTANTS
    Class,          \* the names of the classes and interfaces
    Object,         \* java.lang.Object
    Files,          \* class -> what its file may contain
    InitKey,        \* key of the constructors' method
    ClinitKey,      \* key of the class initializer
    NULL, ERROR

ClassesAssumption == Object \in Class /\ NULL \notin Class /\ InitKey # ClinitKey

VARIABLE classes    \* the class table: class -> class definition, NULL or ERROR

Count(list, Test(_)) == Len(SelectSeq(list, Test))
HasFlag(member, flag) == flag \in member.flags
Map(Op(_), list) == [k \in DOMAIN list |-> Op(list[k])]
AddNew(list, e) == IF Contains(list, e) THEN list ELSE Append(list, e)
IndexOf(key, list) == SelectInSeq(list, LAMBDA m : m.key = key)

isInterface(c) == "interface" \in classes[c].flags
isLoaded(c) == classes[c] \notin {NULL, ERROR}
Prefix(list, n) == SubSeq(list, 1, n)
virtualMethods(c) == Prefix(classes[c].instanceMethods, classes[c].virtualMethodCount)

-----------------------------------------------------------------------------
(* load.c: what the class file holds. *)

isInit(m) == m.key = InitKey
isStatic(m) == HasFlag(m, "static")
isClinit(m) == isStatic(m) /\ m.key = ClinitKey
isVirtual(m) == ~isStatic(m) /\ ~HasFlag(m, "private") /\ ~isInit(m)
isAbstract(m) == isVirtual(m) /\ HasFlag(m, "abstract") /\ ~HasFlag(m, "final")
isNative(m) == HasFlag(m, "native")

overriddenIndex(m, super) ==
    IF isVirtual(m) /\ super # NULL THEN IndexOf(m.key, virtualMethods(super)) ELSE 0

accessInvalid(m) ==
    IF HasFlag(m, "private") THEN m.flags \cap {"public", "protected"} # {}
    ELSE {"public", "protected"} \subseteq m.flags

methodInvalid(m, file) ==
    \/ accessInvalid(m)
    \/ isInit(m) /\ m.flags \cap {"abstract", "native", "final", "synchronized", "static"} # {}
    \/ /\ overriddenIndex(m, file.super) # 0
       /\ HasFlag(virtualMethods(file.super)[overriddenIndex(m, file.super)], "final")
    \/ IF file.interface THEN m.flags # {"public", "abstract"} /\ ~isClinit(m)
       ELSE HasFlag(m, "abstract") /\
                m.flags \cap {"strict", "native", "final", "synchronized", "private", "static"} # {}
    \/ m.code = (isAbstract(m) \/ isNative(m))

constantInvalid(f) ==
    f.constant # "none" /\
        \/ ~isStatic(f)
        \/ f.constant # CASE f.type = "int" -> "Integer"
                          [] f.type = "long" -> "Long"
                          [] f.type = "String" -> "String"
                          [] OTHER -> "invalid"

fieldInvalid(f, file) ==
    \/ accessInvalid(f)
    \/ {"final", "volatile"} \subseteq f.flags
    \/ file.interface /\ ~({"public", "static", "final"} \subseteq f.flags)
    \/ constantInvalid(f)

haveDuplicates(list) == \E j, k \in DOMAIN list : j # k /\ list[j].key = list[k].key

superClassInvalid(c, file) ==
    IF file.super = NULL THEN ~file.interface /\ c # Object
    ELSE isInterface(file.super) \/ ~("public" \in classes[file.super].flags
                                        \/ classes[file.super].file.package = file.package)

\* The superinterfaces of a listed interface are added by an inner loop with the index of
\* the outer one: what it visits next depends on how many there were.
nextVisited(file, i) ==
    IF classes[file.interfaces[i + 1]].superInterfaces = <<>> THEN i + 1
    ELSE Len(classes[file.interfaces[i + 1]].superInterfaces) + 1

visited(file) ==
    LET n == Len(file.interfaces)
        step[k \in 0..n] == IF k = 0 THEN 0
                            ELSE IF step[k - 1] >= n THEN n ELSE nextVisited(file, step[k - 1])
    IN  step

\* Whether the outer loop comes back to a place it has been at, and so never ends: of three
\* interfaces the third has one superinterface, say.
loopsForEver(file) == visited(file)[Len(file.interfaces)] < Len(file.interfaces)

\* Mutant: superinterfaces of the listed interfaces are left out.
loadInterfaces_direct(file) ==
    LET ofSuper == IF file.interface \/ file.super = NULL THEN <<>>
                   ELSE classes[file.super].superInterfaces
    IN  FoldLeft(AddNew, file.interfaces, ofSuper)

loadInterfaces(file) ==
    LET n == Len(file.interfaces)
        ofSuper == IF file.interface \/ file.super = NULL THEN <<>>
                   ELSE classes[file.super].superInterfaces
        ofInterface(k) == LET i == visited(file)[k - 1]
                          IN  IF i >= n THEN <<>> ELSE classes[file.interfaces[i + 1]].superInterfaces
    IN  FoldLeft(AddNew, file.interfaces,
                 ofSuper \o FlattenSeq([k \in 1..n |-> ofInterface(k)]))

readInClassDataFails(c, file) ==
    \/ superClassInvalid(c, file)
    \/ \E i \in ToSet(file.interfaces) : ~isInterface(i)
    \/ \E k \in DOMAIN file.fields : fieldInvalid(file.fields[k], file)
    \/ haveDuplicates(file.fields)
    \/ \E k \in DOMAIN file.methods : methodInvalid(file.methods[k], file)
    \/ haveDuplicates(file.methods)

-----------------------------------------------------------------------------
(* Sizes of the structures, in bytes, where a pointer has four (base.h, members.h). *)

PointerSize == 4
FieldSize == 4
LoadedInterfaceStructSize == 44
LoadedClassStructSize == 52
InterfaceMethodSize == 16
AbstractMethodSize == 20
NativeMethodSize == 20
ClassMethodSize == 48
FieldDefSize == 12
ConstantFieldDefSize == 20
ListSize(n) == 4 + n * PointerSize       \* of methods, fields or handlers
InterfaceListSize(n) == 8 + n * PointerSize
ClassInstanceSize(file) ==
    24 + FieldSize * (Count(file.fields, isStatic)
            + Count(file.fields, LAMBDA f : isStatic(f) /\ f.type = "long"))
ObjectHeaderSize == 12

SumOf(Op(_), list) == FoldLeft(LAMBDA sum, e : sum + Op(e), 0, list)
handlersOf(m) == IF m.handlers = 0 THEN 0 ELSE ListSize(m.handlers)
instanceMethodCount(file) == Count(file.methods, LAMBDA m : ~isStatic(m))
staticMethodCount(file) == Count(file.methods, isStatic)
isConstant(f) == f.constant # "none"
superVirtualCount(file) ==
    IF file.super = NULL THEN 0 ELSE classes[file.super].virtualMethodCount
overriddenCount(file) == Count(file.methods, LAMBDA m : overriddenIndex(m, file.super) # 0)
implementationTableSize(interfaces) ==
    SumOf(LAMBDA i : (classes[i].virtualMethodCount + 1) * PointerSize, interfaces)

\* The static methods and the handlers of an interface are left out.
calculateClassSize(file, interfaces) ==
    LET abstracts == Count(file.methods, isAbstract)
        natives == Count(file.methods, isNative)
        withHandlers == Count(file.methods, LAMBDA m : m.handlers > 0)
        handlers == SumOf(LAMBDA m : m.handlers, file.methods)
        statics == Count(file.fields, isStatic)
        constants == Count(file.fields, isConstant)
        instanceFields == Len(file.fields) - statics
        list(n) == IF n = 0 THEN 0 ELSE ListSize(n)
        ofInterface ==
            LoadedInterfaceStructSize + abstracts * InterfaceMethodSize
            + (IF \E k \in DOMAIN file.methods : isClinit(file.methods[k])
               THEN ClassMethodSize ELSE 0)
            + list(instanceMethodCount(file))
        ofClass ==
            LoadedClassStructSize + abstracts * AbstractMethodSize + natives * NativeMethodSize
            + (Len(file.methods) - abstracts - natives) * ClassMethodSize
            + list(instanceFields) + instanceFields * FieldDefSize
            + ListSize(instanceMethodCount(file) + superVirtualCount(file) - overriddenCount(file))
            + list(staticMethodCount(file))
            + (IF handlers = 0 THEN 0
               ELSE ListSize(1) * (withHandlers - 1) + ListSize(handlers - withHandlers + 1))
    IN  (IF file.interface THEN ofInterface ELSE ofClass)
        + (IF statics = 0 THEN 0
           ELSE ListSize(statics) + (statics - constants) * FieldDefSize
                + constants * ConstantFieldDefSize)
        + (IF interfaces = <<>> THEN 0
           ELSE InterfaceListSize(Len(interfaces))
                + (IF file.interface THEN 0 ELSE implementationTableSize(interfaces)))
        + ClassInstanceSize(file)

-----------------------------------------------------------------------------
(* construct.c: the class definition. *)

methodDef(c, m) == [key |-> m.key, owner |-> c, flags |-> m.flags]

category(m) == IF isInit(m) THEN 2 ELSE IF HasFlag(m, "private") THEN 1 ELSE 0
staticIsBigger(m, n) == isClinit(m) \/ (m.key > n.key /\ ~isClinit(n))
instanceIsBigger(m, n) == category(m) > category(n)

\* Insertion from the end, in the order of the static methods or of the others.
sortMethods(list, static) ==
    LET isBigger(m, n) == IF static THEN staticIsBigger(m, n) ELSE instanceIsBigger(m, n)
        place(m, sorted) ==
            LET smaller[k \in 0..Len(sorted)] ==
                    IF k < Len(sorted) /\ isBigger(m, sorted[k + 1]) THEN smaller[k + 1] ELSE k
            IN  InsertAt(sorted, smaller[0] + 1, m)
    IN  FoldRight(place, list, <<>>)

\* Mutant: new methods come first.
instanceMethods_first(c, file) ==
    LET inherited == IF file.super = NULL THEN <<>> ELSE virtualMethods(file.super)
        add(list, m) == LET i == overriddenIndex(m, file.super)
                        IN  IF i # 0 THEN [list EXCEPT ![i] = methodDef(c, m)]
                            ELSE <<methodDef(c, m)>> \o list
    IN  sortMethods(FoldLeft(add, inherited, SelectSeq(file.methods, LAMBDA m : ~isStatic(m))),
                    FALSE)

\* Every method of the class takes the place of the one that it overrides or is added.
instanceMethods(c, file) ==
    LET inherited == IF file.super = NULL THEN <<>> ELSE virtualMethods(file.super)
        add(list, m) == LET i == overriddenIndex(m, file.super)
                        IN  IF i # 0 THEN [list EXCEPT ![i] = methodDef(c, m)]
                            ELSE Append(list, methodDef(c, m))
    IN  sortMethods(FoldLeft(add, inherited, SelectSeq(file.methods, LAMBDA m : ~isStatic(m))),
                    FALSE)

\* The class initializer comes last and is not counted.
staticMethods(c, file) ==
    Map(LAMBDA m : methodDef(c, m), sortMethods(SelectSeq(file.methods, isStatic), TRUE))

staticMethodsLength(c, file) ==
    LET list == staticMethods(c, file)
    IN  IF \E k \in DOMAIN list : list[k].key = ClinitKey THEN Len(list) - 1 ELSE Len(list)

isObjectField(f) == f.type \in {"String", "object", "array"}
wordsOf(f) == IF f.type = "long" THEN 2 ELSE 1

\* Mutant: a long takes one index.
layFields_oneWord(c, list, firstObject, firstPrimitive) ==
    LET lay(done, f) ==
            LET def(i) == [key |-> f.key, owner |-> c, flags |-> f.flags, type |-> f.type,
                           constant |-> f.constant, index |-> i]
            IN  IF isObjectField(f)
                THEN [done EXCEPT !.defs = Append(@, def(done.object)), !.object = @ + 1]
                ELSE [done EXCEPT !.defs = Append(@, def(done.primitive)),
                                  !.primitive = @ + 1]
    IN  FoldLeft(lay, [defs |-> <<>>, object |-> firstObject, primitive |-> firstPrimitive], list)

\* Fields take their indices one after the other, objects from one and primitives
\* from another start.
layFields(c, list, firstObject, firstPrimitive) ==
    LET lay(done, f) ==
            LET def(i) == [key |-> f.key, owner |-> c, flags |-> f.flags, type |-> f.type,
                           constant |-> f.constant, index |-> i]
            IN  IF isObjectField(f)
                THEN [done EXCEPT !.defs = Append(@, def(done.object)), !.object = @ + 1]
                ELSE [done EXCEPT !.defs = Append(@, def(done.primitive)),
                                  !.primitive = @ + wordsOf(f)]
    IN  FoldLeft(lay, [defs |-> <<>>, object |-> firstObject, primitive |-> firstPrimitive], list)

\* The nearest superclass with instance fields; its size includes the header, which
\* therefore separates its primitive fields from the next.
instanceFields(c, file) ==
    LET own == SelectSeq(file.fields, LAMBDA f : ~isStatic(f))
        nearest[d \in Class \cup {NULL}] ==
            IF d = NULL THEN NULL
            ELSE IF classes[d].instanceFields # <<>> THEN d ELSE nearest[classes[d].super]
        from == nearest[file.super]
        firstObject == IF from = NULL THEN 0 ELSE classes[from].objectFieldCount
        firstPrimitive == IF from = NULL THEN 0
                          ELSE classes[from].instanceSize \div FieldSize - firstObject
    IN  layFields(c, own, firstObject, firstPrimitive)

staticFields(c, file) ==
    LET own == SelectSeq(file.fields, isStatic)
    IN  layFields(c, own, 0, Count(own, isObjectField))

\* For each interface the methods that implement its own, or NULL.
implementationTable(file, interfaces, methods) ==
    [k \in DOMAIN interfaces |->
        Map(LAMBDA m : LET i == IndexOf(m.key, methods) IN IF i = 0 THEN NULL ELSE methods[i],
            virtualMethods(interfaces[k]))]

\* How far the cursor moves through the block while it is filled.
constructedSize(file, interfaces) ==
    LET sizeOf(m) == IF file.interface /\ ~isClinit(m) THEN InterfaceMethodSize
                     ELSE IF isAbstract(m) THEN AbstractMethodSize
                     ELSE IF isNative(m) THEN NativeMethodSize
                     ELSE ClassMethodSize + handlersOf(m)
        list(n) == IF n = 0 THEN 0 ELSE ListSize(n)
        statics == Count(file.fields, isStatic)
        total == instanceMethodCount(file)
                 + (IF file.interface THEN 0 ELSE superVirtualCount(file) - overriddenCount(file))
    IN  ClassInstanceSize(file)
        + (IF file.interface THEN LoadedInterfaceStructSize ELSE LoadedClassStructSize)
        + list(total) + list(staticMethodCount(file)) + SumOf(sizeOf, file.methods)
        + list(statics) + (IF file.interface THEN 0 ELSE list(Len(file.fields) - statics))
        + SumOf(LAMBDA f : IF isConstant(f) THEN ConstantFieldDefSize ELSE FieldDefSize, file.fields)
        + (IF interfaces = <<>> THEN 0
           ELSE InterfaceListSize(Len(interfaces))
                + (IF file.interface THEN 0 ELSE implementationTableSize(interfaces)))

\* checkForClassInitializer: nothing is left to be done for the class.
initialized(file) ==
    /\ ~\E k \in DOMAIN file.methods : isClinit(file.methods[k])
    /\ file.super = NULL \/ classes[file.super].initialized

constructClass(c, file) ==
    LET interfaces == loadInterfaces(file)
        methods == instanceMethods(c, file)
        fields == instanceFields(c, file)
        virtuals == Count(file.methods, isVirtual)
                    + (IF file.interface THEN 0 ELSE superVirtualCount(file) - overriddenCount(file))
    IN  [file |-> file,
         flags |-> IF file.interface THEN {"interface"} \cup file.flags ELSE file.flags,
         super |-> IF file.interface THEN NULL ELSE file.super,
         superInterfaces |-> interfaces,
         instanceMethods |-> methods, virtualMethodCount |-> virtuals,
         staticMethods |-> staticMethods(c, file),
         staticMethodsLength |-> staticMethodsLength(c, file),
         implementations |-> IF file.interface THEN <<>>
                             ELSE implementationTable(file, interfaces, Prefix(methods, virtuals)),
         instanceFields |-> fields.defs, objectFieldCount |-> fields.object,
         instanceSize |-> ObjectHeaderSize + FieldSize * (fields.object + fields.primitive),
         staticFields |-> staticFields(c, file).defs,
         size |-> calculateClassSize(file, interfaces),
         constructed |-> constructedSize(file, interfaces),
         initialized |-> initialized(file)]

-----------------------------------------------------------------------------

\* Loading.tla has the order: the parents come first.
ParentsLoaded(file) == \A p \in ToSet(file.interfaces) \cup ({file.super} \ {NULL}) : isLoaded(p)

\* A load whose loop over the interfaces does not end is a step that is never taken: the
\* class stays undefined.
completeClassLoad(c) ==
    \E file \in Files[c] :
        /\ classes[c] = NULL /\ ParentsLoaded(file) /\ ~loopsForEver(file)
        /\ classes' = [classes EXCEPT ![c] =
                IF readInClassDataFails(c, file) THEN ERROR ELSE constructClass(c, file)]

ClassesInit == classes = [c \in Class |-> NULL]
ClassesNext == \E c \in Class : completeClassLoad(c)

-----------------------------------------------------------------------------
(* What must hold of the classes made. *)

loadedClasses == {c \in Class : isLoaded(c)}
superClasses[c \in Class \cup {NULL}] ==
    IF c = NULL THEN {} ELSE {c} \cup superClasses[classes[c].super]

\* The block of every class is as large as what is put into it: the assertion at the end of
\* constructClass. Interfaces with an initializer are left out, see ConstructedAsCalculated.
SizeIsExact ==
    \A c \in loadedClasses :
        ~(isInterface(c) /\ \E k \in DOMAIN classes[c].file.methods :
                                isClinit(classes[c].file.methods[k]))
        => classes[c].constructed = classes[c].size

\* "ASSERT(pNext == pFirst + size)" (construct.c:613), for every class and interface.
ConstructedAsCalculated == \A c \in loadedClasses : classes[c].constructed = classes[c].size

\* The words of an object, counted from its header up (objects) and down (primitives).
slotsOf(f) == IF isObjectField(f) THEN {<<"object", f.index>>}
              ELSE {<<"primitive", f.index + w>> : w \in 0..(wordsOf(f) - 1)}

\* Fields of an object, those it inherits included, never share a word, lie inside the
\* object, and are objects exactly where the collector takes them for objects.
FieldsAreApart ==
    \A c \in {d \in loadedClasses : ~isInterface(d)} :
        LET fields == UNION {ToSet(classes[d].instanceFields) : d \in superClasses[c]}
            words == classes[c].instanceSize - ObjectHeaderSize
        IN  /\ \A f, g \in fields : f # g => slotsOf(f) \cap slotsOf(g) = {}
            /\ \A f \in fields : \A slot \in slotsOf(f) :
                   IF isObjectField(f) THEN slot[2] < classes[c].objectFieldCount
                   ELSE FieldSize * (slot[2] + 1 + classes[c].objectFieldCount) <= words

\* The class that a virtual call on an object of class c reaches: the nearest that declares
\* the method.
declares(c, key) == \E m \in ToSet(classes[c].file.methods) : isVirtual(m) /\ m.key = key
nearestDeclaring(c, key) ==
    CHOOSE d \in superClasses[c] :
        declares(d, key) /\ ~\E e \in superClasses[c] : e # d /\ declares(e, key)
                                                        /\ d \in superClasses[e]

\* Methods once looked up are called by their index, whatever subclass the object has: the
\* tables of a class and of its superclass agree, each key has one place, and in it is the
\* nearest definition.
VirtualTableIsRight ==
    \A c \in {d \in loadedClasses : ~isInterface(d)} :
        LET table == virtualMethods(c)
        IN  /\ \A j, k \in DOMAIN table : table[j].key = table[k].key => j = k
            /\ \A d \in superClasses[c] : \A m \in ToSet(classes[d].file.methods) :
                   isVirtual(m) =>
                   \E k \in DOMAIN table :
                       table[k].key = m.key /\ table[k].owner = nearestDeclaring(c, m.key)
            /\ \A d \in superClasses[c] : \A k \in DOMAIN virtualMethods(d) :
                   table[k].key = virtualMethods(d)[k].key

\* All interfaces above a class or an interface.
ancestors[c \in Class \cup {NULL}] ==
    IF c = NULL THEN {}
    ELSE LET listed == ToSet(classes[c].file.interfaces)
         IN  listed \cup UNION {ancestors[i] : i \in listed} \cup ancestors[classes[c].super]

\* "includes ALL super-interfaces, not just those listed in the class file" (base.h).
IncludesAllSuperInterfaces ==
    \A c \in loadedClasses : ToSet(classes[c].superInterfaces) = ancestors[c]

\* The same where no file of the class or above it lists two interfaces that have
\* superinterfaces; and a call through any interface of a class then reaches the definition
\* that a virtual call reaches.
listsOneParent(c) ==
    Cardinality({i \in ToSet(classes[c].file.interfaces) :
                    classes[i].superInterfaces # <<>>}) <= 1
InterfaceCallsAreRight ==
    \A c \in loadedClasses :
        (\A d \in superClasses[c] \cup ancestors[c] : listsOneParent(d))
        => /\ ToSet(classes[c].superInterfaces) = ancestors[c]
           /\ ~isInterface(c) =>
              \A n \in DOMAIN classes[c].superInterfaces :
                  LET methods == virtualMethods(classes[c].superInterfaces[n])
                  IN  \A j \in DOMAIN methods :
                          LET called == classes[c].implementations[n][j]
                              declaring == {d \in superClasses[c] : declares(d, methods[j].key)}
                          IN  IF declaring = {} THEN called = NULL
                              ELSE /\ called.key = methods[j].key
                                   /\ called.owner = nearestDeclaring(c, methods[j].key)

=============================================================================
