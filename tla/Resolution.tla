----------------------------- MODULE Resolution -----------------------------
(***************************************************************************)
(* References of compiled code to fields, methods and classes: how they    *)
(* are looked up in the classes of Classes.tla (lookup.c, typeCheck.c) and  *)
(* checked (resolve.c), and what an instruction that was rewritten with    *)
(* the result (quickened) does from then on, on objects of whatever class, *)
(* those loaded later included (invokeHandlers.c, fieldHandlers.c).        *)
(***************************************************************************)
EXTENDS Classes

CONSTANT Key        \* keys of the members that code refers to

VARIABLE quickened  \* the instruction last resolved: its operation and reference, the
                    \* member found and its index; or NULL

-----------------------------------------------------------------------------
(* lookup.c. A method or field that is not found is NULL. *)

lastWith(key, list) ==
    LET found == {k \in DOMAIN list : list[k].key = key}
    IN  IF found = {} THEN NULL ELSE list[Max(found)]

\* The superclasses upwards, the class first.
upFrom[c \in Class \cup {NULL}] == IF c = NULL THEN <<>> ELSE <<c>> \o upFrom[classes[c].super]

firstFound(lists, key) ==
    LET k == SelectInSeq(lists, LAMBDA list : lastWith(key, list) # NULL)
    IN  IF k = 0 THEN NULL ELSE lastWith(key, lists[k])

lookupInstanceField(c, key) ==
    firstFound(Map(LAMBDA d : classes[d].instanceFields, upFrom[c]), key)

\* The interfaces from the last to the first; after the last of them comes its own
\* superclass, which it has not, and not that of the class.
lookupStaticField(c, key) ==
    LET interfaces == classes[c].superInterfaces
        searched == IF interfaces = <<>> THEN upFrom[c] ELSE <<c>> \o Reverse(interfaces)
    IN  firstFound(Map(LAMBDA d : classes[d].staticFields, searched), key)

lookupSuperInterfaceMethod(c, key) ==
    firstFound(Map(LAMBDA d : classes[d].instanceMethods, Reverse(classes[c].superInterfaces)), key)

lookupMethod(c, key, virtual) ==
    LET list(d) == IF virtual THEN virtualMethods(d) ELSE classes[d].instanceMethods
        found == firstFound(Map(list, upFrom[c]), key)
    IN  IF found # NULL THEN found ELSE lookupSuperInterfaceMethod(c, key)

\* Mutant: the initializer, which comes last, is counted.
countedStatics_all(c) == classes[c].staticMethods
countedStatics(c) == Prefix(classes[c].staticMethods, classes[c].staticMethodsLength)
lookupStaticMethod(c, key) == firstFound(Map(countedStatics, upFrom[c]), key)

methodIndex(m) ==
    LET list == IF isStatic(m) THEN classes[m.owner].staticMethods
                ELSE classes[m.owner].instanceMethods
    IN  CHOOSE k \in DOMAIN list : list[k] = m

-----------------------------------------------------------------------------
(* resolve.c. The outcome is the member or the code of an error. *)

samePackage(c, d) == classes[c].file.package = classes[d].file.package
isClassAccessible(current, target) ==
    "public" \in classes[target].flags \/ samePackage(current, target)
isClassMemberAccessible(current, m) ==
    \/ current = m.owner
    \/ HasFlag(m, "public")
    \/ ~HasFlag(m, "private") /\
          \/ samePackage(current, m.owner)
          \/ HasFlag(m, "protected") /\ m.owner \in superClasses[current] \ {current}

found(m) == [error |-> "none", member |-> m]
failed(code) == [error |-> code, member |-> NULL]

resolveConstantPoolFieldRef(current, target, key, modify, static) ==
    LET field == IF static THEN lookupStaticField(target, key) ELSE lookupInstanceField(target, key)
        other == IF static THEN lookupInstanceField(target, key) ELSE lookupStaticField(target, key)
    IN  IF ~isClassAccessible(current, target) THEN failed("ILLEGAL_ACCESS")
        ELSE IF field = NULL
        THEN failed(IF other # NULL THEN "INCOMPATIBLE_CLASS_CHANGE" ELSE "NO_SUCH_FIELD")
        ELSE IF \/ ~isClassMemberAccessible(current, field)
                \/ modify /\ HasFlag(field, "final") /\ field.owner # current
        THEN failed("ILLEGAL_ACCESS") ELSE found(field)

\* The set of outcomes: where the method is one of an interface, the access flags are read
\* from behind its definition, which has none.
resolveConstantPoolMethodRef(current, target, key, static, virtual) ==
    LET method == IF static THEN lookupStaticMethod(target, key)
                  ELSE lookupMethod(target, key, virtual)
        wrong == IF static THEN lookupMethod(target, key, FALSE) ELSE lookupStaticMethod(target, key)
        special == virtual /\ lookupMethod(target, key, FALSE) # NULL
    IN  IF ~isClassAccessible(current, target) THEN {failed("ILLEGAL_ACCESS")}
        ELSE IF isInterface(target) THEN {failed("INCOMPATIBLE_CLASS_CHANGE")}
        ELSE IF method = NULL
        THEN {failed(IF special \/ wrong # NULL THEN "INCOMPATIBLE_CLASS_CHANGE"
                     ELSE IF static THEN "NO_SUCH_METHOD" ELSE "ABSTRACT_METHOD")}
        ELSE IF isInterface(method.owner)
        THEN {found(method), failed("ILLEGAL_ACCESS"), failed("ABSTRACT_METHOD")}
        ELSE IF ~isClassMemberAccessible(current, method) THEN {failed("ILLEGAL_ACCESS")}
        ELSE IF ~static /\ HasFlag(method, "abstract") /\ "abstract" \notin classes[target].flags
        THEN {failed("ABSTRACT_METHOD")}
        ELSE {found(method)}

\* A method that is not among those of an interface may be one of java.lang.Object.
resolveConstantPoolInterfaceMethodRef(current, target, key) ==
    LET method == lookupMethod(target, key, TRUE)
    IN  IF ~isClassAccessible(current, target) THEN failed("ILLEGAL_ACCESS")
        ELSE IF ~isInterface(target) THEN failed("INCOMPATIBLE_CLASS_CHANGE")
        ELSE IF method = NULL THEN failed("NO_SUCH_METHOD") ELSE found(method)

-----------------------------------------------------------------------------
(* The instructions. *)

quicken(op, current, target, key, m, i) ==
    quickened' = [op |-> op, current |-> current, target |-> target, key |-> key,
                  member |-> m, index |-> i]

INVOKEVIRTUAL(current, target, key) ==
    \E outcome \in resolveConstantPoolMethodRef(current, target, key, FALSE, TRUE) :
        /\ outcome.error = "none"
        /\ quicken("virtual", current, target, key, outcome.member, methodIndex(outcome.member))

\* super.m(): the method of the superclass of the current class in the place of the one found.
INVOKESPECIAL(current, target, key) ==
    \E outcome \in resolveConstantPoolMethodRef(current, target, key, FALSE, FALSE) :
        /\ outcome.error = "none"
        /\ LET m == outcome.member
               super == /\ "super" \in classes[current].flags /\ key # InitKey
                        /\ m.owner \in superClasses[current] \ {current}
               called == IF super
                         THEN classes[classes[current].super].instanceMethods[methodIndex(m)] ELSE m
           IN  quicken("special", current, target, key, called, methodIndex(called))

INVOKESTATIC(current, target, key) ==
    \E outcome \in resolveConstantPoolMethodRef(current, target, key, TRUE, FALSE) :
        /\ outcome.error = "none"
        /\ quicken("static", current, target, key, outcome.member, methodIndex(outcome.member))

INVOKEINTERFACE(current, target, key) ==
    LET outcome == resolveConstantPoolInterfaceMethodRef(current, target, key)
    IN  /\ outcome.error = "none"
        /\ quicken("interface", current, target, key, outcome.member, methodIndex(outcome.member))

GETFIELD(current, target, key) ==
    LET outcome == resolveConstantPoolFieldRef(current, target, key, FALSE, FALSE)
    IN  /\ outcome.error = "none"
        /\ quicken("field", current, target, key, outcome.member, outcome.member.index)

GETSTATIC(current, target, key) ==
    LET outcome == resolveConstantPoolFieldRef(current, target, key, FALSE, TRUE)
    IN  /\ outcome.error = "none"
        /\ quicken("staticField", current, target, key, outcome.member, outcome.member.index)

\* What a quickened invocation calls on an object of class c, or NULL for an error thrown. Two
\* of the forms find the method in the class of the object, two in the class and at the index
\* that took the place of the reference.
INVOKEVIRTUAL_QUICK(instruction, c) == classes[c].instanceMethods[instruction.index]
INVOKEINTERFACE_QUICK(instruction, c) ==
    LET k == SelectInSeq(classes[c].superInterfaces, LAMBDA i : i = instruction.member.owner)
    IN  IF k = 0 THEN NULL ELSE classes[c].implementations[k][instruction.index]
INVOKESPECIAL_QUICK(instruction) ==
    classes[instruction.member.owner].instanceMethods[instruction.index]
INVOKESTATIC_QUICK(instruction) ==
    classes[instruction.member.owner].staticMethods[instruction.index]

calledBy(instruction, c) ==
    CASE instruction.op = "virtual"   -> INVOKEVIRTUAL_QUICK(instruction, c)
      [] instruction.op = "interface" -> INVOKEINTERFACE_QUICK(instruction, c)
      [] instruction.op = "special"   -> INVOKESPECIAL_QUICK(instruction)
      [] instruction.op = "static"    -> INVOKESTATIC_QUICK(instruction)

-----------------------------------------------------------------------------

ResolutionInit == ClassesInit /\ quickened = NULL

Load == \E c \in Class : completeClassLoad(c) /\ UNCHANGED quickened

Execute ==
    /\ quickened = NULL
    /\ \E current, target \in loadedClasses, key \in Key :
          /\ ~isInterface(current)
          /\ \/ INVOKEVIRTUAL(current, target, key)
             \/ INVOKESPECIAL(current, target, key)
             \/ INVOKESTATIC(current, target, key)
             \/ INVOKEINTERFACE(current, target, key)
             \/ GETFIELD(current, target, key)
             \/ GETSTATIC(current, target, key)
    /\ UNCHANGED classes

ResolutionNext == Load \/ Execute

-----------------------------------------------------------------------------
(* What must hold of the references resolved. *)

complete(c) == \A d \in superClasses[c] \cup ancestors[c] : listsOneParent(d)

isObjectOf(c, target) ==
    /\ ~isInterface(c) /\ complete(c)
    /\ IF isInterface(target) THEN target \in ToSet(classes[c].superInterfaces)
       ELSE target \in superClasses[c]

\* A virtual or interface call, on an object of any class that is or will be loaded, reaches
\* the nearest definition of the very method that was resolved.
CallsReachTheNearest ==
    quickened # NULL /\ quickened.op \in {"virtual", "interface"}
    /\ (isInterface(quickened.member.owner) => quickened.op = "interface")
    => \A c \in loadedClasses :
          isObjectOf(c, quickened.target) =>
          LET called == calledBy(quickened, c)
              declaring == {d \in superClasses[c] : declares(d, quickened.key)}
          IN  IF declaring = {} THEN called = NULL
              ELSE /\ called.key = quickened.key
                   /\ called.owner = nearestDeclaring(c, quickened.key)

\* The same, methods of interfaces that an abstract class leaves unimplemented included.
UnimplementedAreFound ==
    quickened # NULL /\ quickened.op = "virtual"
    => \A c \in loadedClasses :
          isObjectOf(c, quickened.target) /\ declares(c, quickened.key)
          => calledBy(quickened, c).key = quickened.key

\* Calls that leave no choice at run time: a static call never calls an instance method or an
\* initializer, and reaches the nearest method; a super call reaches the nearest method
\* above the calling class, even one that was put in between since it was compiled.
ExactCallsAreRight ==
    quickened # NULL /\ quickened.op \in {"special", "static"}
    => LET m == calledBy(quickened, quickened.target)
           current == quickened.current
       IN  /\ m.key = quickened.key
           /\ isStatic(m) <=> quickened.op = "static"
           /\ isStatic(m) =>
                 /\ m.key # ClinitKey
                 /\ \A d \in superClasses[quickened.target] \ superClasses[m.owner] :
                       ~\E n \in ToSet(classes[d].file.methods) : isStatic(n) /\ n.key = m.key
           /\ (/\ quickened.op = "special" /\ isVirtual(m)
               /\ m.owner \in superClasses[current] \ {current})
              => m.owner = nearestDeclaring(classes[current].super, m.key)

\* A field instruction reads the field of the nearest class that declares it, and a static
\* one does where the class searched has no superinterfaces.
FieldsAreTheNearest ==
    quickened # NULL
    /\ \/ quickened.op = "field"
       \/ quickened.op = "staticField" /\ classes[quickened.target].superInterfaces = <<>>
    => \A d \in superClasses[quickened.target] \ {quickened.member.owner} :
          (\E f \in ToSet(classes[d].file.fields) :
              f.key = quickened.key /\ (isStatic(f) <=> quickened.op = "staticField"))
          => d \in superClasses[quickened.member.owner]

-----------------------------------------------------------------------------
(* typeCheck.c. A type is a class or an array: its elements and depth. *)

isSuperInterface(i, c) == isInterface(i) /\ i \in ToSet(classes[c].superInterfaces)

isParentClass(parent, c) == parent \in superClasses[c] \ {c}

isPrimitiveArrayClass(t) == t.element \notin Class /\ t.depth = 1
elementOf(t) == [t EXCEPT !.depth = @ - 1]
class(c) == [element |-> c, depth |-> 0]

\* Mutant: an interface is no java.lang.Object.
isInstanceOfClass_noObject(target, source) ==
    IF isInterface(source) \/ isInterface(target) THEN isSuperInterface(target, source)
    ELSE isParentClass(target, source)

isInstanceOfClass(target, source) ==
    IF isInterface(source) THEN isSuperInterface(target, source) \/ target = Object
    ELSE IF isInterface(target) THEN isSuperInterface(target, source)
    ELSE isParentClass(target, source)

\* One round of the loop after the other, with n elements' depth left to take off.
isInstanceOf(target, source) ==
    LET deeper == IF target.depth > source.depth THEN target.depth ELSE source.depth
        round[n \in 0..deeper] ==
            LET t == [target EXCEPT !.depth = @ - (deeper - n)]
                s == [source EXCEPT !.depth = @ - (deeper - n)]
            IN  CASE t = s -> TRUE
                  [] t # s /\ s.depth = 0 -> t.depth = 0 /\ isInstanceOfClass(t.element, s.element)
                  [] t # s /\ s.depth > 0 /\ t.depth = 0 -> t = class(Object)
                  [] OTHER -> ~isPrimitiveArrayClass(t) /\ ~isPrimitiveArrayClass(s) /\ round[n - 1]
    IN  round[deeper]

\* What a type is by its class files: one step up, and every number of them.
oneUp(t) ==
    {[t EXCEPT !.element = d] :
        d \in IF t.element \notin Class THEN {}
              ELSE ToSet(classes[t.element].file.interfaces)
                   \cup (IF isInterface(t.element) THEN {Object} ELSE {classes[t.element].super} \ {NULL})}
    \cup IF t.depth = 0 THEN {} ELSE {[element |-> Object, depth |-> t.depth - 1]}

\* instanceof and checkcast agree with the class files, arrays of all kinds included, where
\* the superinterfaces are complete.
types == {[element |-> e, depth |-> d] : e \in loadedClasses \cup {"int"}, d \in 0..2}
         \ {class("int")}

TypeChecksAreRight ==
    isLoaded(Object) /\ quickened = NULL
    => \A source \in types :
          (source.element \in Class => complete(source.element))
          => LET longest == Cardinality(Class) + 2
                 up[n \in 0..longest] ==
                     IF n = 0 THEN {source}
                     ELSE up[n - 1] \cup UNION {oneUp(t) : t \in up[n - 1]}
             IN  {t \in types : isInstanceOf(t, source)} = up[longest]

=============================================================================
