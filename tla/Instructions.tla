---------------------------- MODULE Instructions -----------------------------
(* The instructions that stay in a frame, on the words of its variables and   *)
(* its operand stack, beside what the virtual machine promises of them on     *)
(* typed values.  A word has an object half and a primitive half; a long or a *)
(* double takes two words, the first marked by an indicator in its object     *)
(* half and the second holding the high and the low half of the value.  Code  *)
(* is verified: an instruction is executed where the types allow it.  Values  *)
(* are terms, <<"iadd", x, y>> for the sum of x and y, so that an instruction *)
(* that takes a wrong operand, or the right ones in a wrong order, shows.     *)
(* Floats are as ints and doubles as longs, their macros being the same.      *)
EXTENDS Integers, Sequences, SequencesExt, FiniteSetsExt

CONSTANTS Excluded,      \* those not executed
          MaxWords,      \* words of the operand stack
          MaxStart,      \* words on it at first
          Locals,        \* words of variables
          ShortLocals,   \* those an index of one byte reaches
          MaxSteps       \* instructions executed

VARIABLES c,             \* the frame: [mem, sp, local]
          f,             \* the frame promised: [stack, vars], words <<type, value>>
          effect,        \* what the instruction did outside the frame: stored, thrown,
          promised,      \* or the condition it branched on; and what it should have done
          steps
vars == <<c, f, effect, promised, steps>>

Null == <<"null">>
Indicator == <<"indicator">>
Junk == <<"junk">>
None == <<"none">>
Term(op, operands) == <<op>> \o operands

-----------------------------------------------------------------------------
(* The instructions by their handlers.                                        *)

Narrow       == {"i2b", "i2c", "i2s", "f2i", "ineg", "fneg", "iabs"}
Arithmetic   == {"iadd", "isub", "imul", "iand", "ior", "ixor", "fadd", "fdiv", "frem",
                 "ishl", "ishr", "iushr", "imin", "imax", "fcmp"}
Division     == {"idiv", "irem"}
Negation     == {"lneg", "l2d", "d2l", "dneg", "labs"}
LongMath     == {"ladd", "lsub", "land", "lor", "lxor", "lmul", "ldiv", "lrem", "dadd", "ddiv", "drem"}
LongExtremum == {"lmin", "lmax"}
LongShift    == {"lshl", "lshr", "lushr"}
LongCompare  == {"lcmp", "dcmp"}
ToWord       == {"l2i", "d2f"}
ToLong       == {"i2l", "f2d"}
ArrayLoad    == {"iaload", "laload", "aaload"}
ArrayStore   == {"iastore", "lastore", "aastore"}
Store        == {"istore", "lstore", "astore", "ret_store"}

(* The promise: the types taken from the stack, the type given back.          *)
Takes(op) ==
    CASE op \in Narrow \cup ToLong
                \cup {"i2f", "ifeq", "switch", "putstatic_i", "newarray", "istore"} -> <<"int">>
      [] op \in Arithmetic \cup Division \cup {"if_icmp", "multianewarray"} -> <<"int", "int">>
      [] op \in Negation \cup ToWord \cup {"putstatic_l", "lstore"}         -> <<"long">>
      [] op \in LongMath \cup LongExtremum \cup LongCompare                 -> <<"long", "long">>
      [] op \in LongShift                                                   -> <<"long", "int">>
      [] op \in {"ifnull", "putstatic_a", "getfield_i", "getfield_l", "getfield_a", "arraylength",
                 "instanceof", "checkcast", "monitorenter", "monitorexit", "astore"} -> <<"ref">>
      [] op = "if_acmp"                                                     -> <<"ref", "ref">>
      [] op \in ArrayLoad \cup {"putfield_i"}                               -> <<"ref", "int">>
      [] op = "putfield_l"                                                  -> <<"ref", "long">>
      [] op = "putfield_a"                                                  -> <<"ref", "ref">>
      [] op = "iastore"                                                     -> <<"ref", "int", "int">>
      [] op = "lastore"                                                     -> <<"ref", "int", "long">>
      [] op = "aastore"                                                     -> <<"ref", "int", "ref">>
      [] op = "ret_store"                                                   -> <<"return">>
      [] OTHER                                                              -> <<>>
Gives(op) ==
    CASE op \in Narrow \cup Arithmetic \cup Division \cup LongCompare \cup ToWord
              \cup {"i2f", "getstatic_i", "getfield_i", "arraylength", "instanceof", "iaload",
                    "iconst", "ldc_i"} -> "int"
      [] op \in Negation \cup LongMath \cup LongExtremum \cup LongShift \cup ToLong
              \cup {"getstatic_l", "getfield_l", "laload", "lconst", "ldc2"} -> "long"
      [] op \in {"getstatic_a", "getfield_a", "aaload", "new", "newarray", "multianewarray",
                 "checkcast", "ldc_a", "aconst_null"} -> "ref"
      [] op = "jsr" -> "return"
      [] OTHER -> "nothing"
NullChecked == {"getfield_i", "getfield_l", "getfield_a", "putfield_i", "putfield_l", "putfield_a",
                "arraylength", "monitorenter", "monitorexit"} \cup ArrayLoad \cup ArrayStore
Effective   == {"putstatic_i", "putstatic_l", "putstatic_a", "putfield_i", "putfield_l",
                "putfield_a", "ifnull", "ifeq", "if_icmp", "if_acmp", "switch",
                "monitorenter", "monitorexit"} \cup ArrayStore
(* Those that may fail after the null check, and the operands the failure is  *)
(* about.                                                                     *)
Fails(op, a) ==
    CASE op \in Division                -> <<<<"arithmetic", a[2]>>>>
      [] op \in ArrayLoad \cup ArrayStore -> <<<<"bounds", a[1], a[2]>>>>
      [] op = "checkcast" /\ a[1] # Null -> <<<<"cast", a[1]>>>>
      [] op = "monitorexit"             -> <<<<"state", a[1]>>>>
      [] op = "newarray"                -> <<<<"negative", a[1]>>>>
      [] op = "multianewarray"          -> <<<<"negative", a[1], a[2]>>>>
      [] OTHER                          -> <<>>
(* The shuffles: the top k words are copied below the next m.                 *)
Shuffles == [dup |-> <<1, 0>>, dup_x1 |-> <<1, 1>>, dup_x2 |-> <<1, 2>>,
             dup2 |-> <<2, 0>>, dup2_x1 |-> <<2, 1>>, dup2_x2 |-> <<2, 2>>]
Drops    == [pop |-> 1, pop2 |-> 2]

Words(type, value) ==
    CASE type = "nothing" -> <<>>
      [] type = "long"    -> <<<<"first", value>>, <<"second", value>>>>
      [] OTHER            -> <<<<type, value>>>>
TotalWidth(types) == FoldSeq(LAMBDA t, n: n + (IF t = "long" THEN 2 ELSE 1), 0, types)
Top(s, n)   == SubSeq(s, Len(s) - n + 1, Len(s))
Below(s, n) == SubSeq(s, 1, Len(s) - n)
(* No long is cut in two n words from the top.                                *)
Whole(s, n) == n <= Len(s) /\ (n < Len(s) => s[Len(s) - n][1] # "first")

At(types, s, i) == s[Len(s) - TotalWidth(SubSeq(types, i, Len(types))) + 1]
Typed(types, s) ==
    /\ TotalWidth(types) <= Len(s)
    /\ \A i \in DOMAIN types :
          At(types, s, i)[1] = (IF types[i] = "long" THEN "first" ELSE types[i])
Operands(types, s) == [i \in DOMAIN types |-> At(types, s, i)[2]]

(* A variable set to a word; half a long is left of no use.                   *)
Unusable == <<"unusable">>
SetVars(v, n, ws) ==
    LET end == n + Len(ws) - 1
    IN  [j \in DOMAIN v |->
           CASE j \in n .. end                          -> ws[j - n + 1]
             [] j = n - 1 /\ v[j][1] = "first"          -> Unusable
             [] j = end + 1 /\ v[j][1] = "second"       -> Unusable
             [] OTHER                                   -> v[j]]
Loads == [iload |-> "int", lload |-> "long", aload |-> "ref", ret |-> "return", iinc |-> "int"]

Permitted(op, n) ==
    LET s == f.stack
    IN  CASE op \in DOMAIN Shuffles -> LET k == Shuffles[op][1]  m == Shuffles[op][2]
                                       IN  Whole(s, k) /\ Whole(s, k + m)
          [] op \in DOMAIN Drops    -> Whole(s, Drops[op])
          [] op = "swap"            -> Whole(s, 1) /\ Whole(s, 2)
          [] op \in DOMAIN Loads    -> f.vars[n][1] = (IF op = "lload" THEN "first" ELSE Loads[op])
          [] op = "lstore"          -> Typed(Takes(op), s) /\ n < Locals
          [] OTHER                  -> Typed(Takes(op), s)

(* [stack, vars, effect] as the virtual machine promises it.                  *)
Promise(op, n, ok) ==
    LET s == f.stack
        to(stack, v, e) == [stack |-> stack, vars |-> v, effect |-> e]
        a == Operands(Takes(op), s)
        rest == Below(s, TotalWidth(Takes(op)))
        result == IF op = "checkcast" THEN a[1] ELSE IF op = "aconst_null" THEN Null ELSE Term(op, a)
    IN  CASE op \in DOMAIN Shuffles ->
               LET k == Shuffles[op][1]  m == Shuffles[op][2]
               IN  to(Below(s, k + m) \o Top(s, k) \o Top(s, k + m), f.vars, None)
          [] op \in DOMAIN Drops -> to(Below(s, Drops[op]), f.vars, None)
          [] op = "swap" -> to(Below(s, 2) \o Reverse(Top(s, 2)), f.vars, None)
          [] op \in {"iload", "lload", "aload"} ->
               to(s \o Words(Loads[op], f.vars[n][2]), f.vars, None)
          [] op = "iinc" -> to(s, SetVars(f.vars, n, <<<<"int", Term(op, <<f.vars[n][2]>>)>>>>), None)
          [] op = "ret"  -> to(s, f.vars, Term(op, <<f.vars[n][2]>>))
          [] op \in Store -> to(rest, SetVars(f.vars, n, Words(Takes(op)[1], a[1])), None)
          [] op \in NullChecked /\ a[1] = Null -> to(s, f.vars, <<"throw", "null">>)
          [] ~ok /\ Fails(op, a) # <<>> -> to(s, f.vars, <<"throw">> \o Fails(op, a)[1])
          [] OTHER -> to(rest \o Words(Gives(op), result), f.vars,
                         IF op \in Effective THEN Term(op, a) ELSE None)

-----------------------------------------------------------------------------
(* The operations on the words.  Entry 0 is the top of the stack.             *)

getOperandStackEntry(x, i)  == x.mem[x.sp - i]
getOperandStackInt(x, i)    == x.mem[x.sp - i].primitive
getOperandStackObject(x, i) == x.mem[x.sp - i].object
setOperandStackEntry(x, i, e)  == [x EXCEPT !.mem[x.sp - i] = e]
setOperandStackInt(x, i, v)    == [x EXCEPT !.mem[x.sp - i].primitive = v]
setOperandStackObject(x, i, v) == [x EXCEPT !.mem[x.sp - i].object = v]

(* A long is in the second of its two entries; its first is the indicator.    *)
Halves(v) == [object |-> <<"high", v>>, primitive |-> <<"low", v>>]
getStackFieldLong(w) ==
    IF w.object[1] = "high" /\ w.primitive = <<"low", w.object[2]>>
    THEN w.object[2] ELSE <<"mixed", w.object, w.primitive>>
(* Mutant: the first entry is taken for the value.                             *)
getOperandStackLong_first(x, i) == getStackFieldLong(x.mem[x.sp - i])

getOperandStackLong(x, i) == getStackFieldLong(x.mem[x.sp - i + 1])
setOperandStackLong(x, i, v) ==
    [x EXCEPT !.mem[x.sp - i].object = Indicator, !.mem[x.sp - i + 1] = Halves(v)]

incrementOperandStackBy(x, n) == [x EXCEPT !.sp = @ + n]
decrementOperandStackBy(x, n) == [x EXCEPT !.sp = @ - n]
pushOperandStackEntry(x, e)  == setOperandStackEntry(incrementOperandStackBy(x, 1), 0, e)
pushOperandStackInt(x, v)    == setOperandStackInt(incrementOperandStackBy(x, 1), 0, v)
pushOperandStackObject(x, v) == setOperandStackObject(incrementOperandStackBy(x, 1), 0, v)
pushOperandStackLong(x, v)   == setOperandStackLong(incrementOperandStackBy(x, 2), 1, v)

Done(x) == [frame |-> x, effect |-> None]
Did(x, e) == [frame |-> x, effect |-> e]
Thrown(x, e) == [frame |-> x, effect |-> <<"throw">> \o e]

-----------------------------------------------------------------------------
(* The handlers.                                                              *)

StackHandler(op, x) ==
    LET e(i) == getOperandStackEntry(x, i)
        set(y, es) == [y EXCEPT !.mem = [j \in DOMAIN @ |->
                         IF y.sp - j \in 0 .. Len(es) - 1 THEN es[y.sp - j + 1] ELSE @[j]]]
        push(y, a) == pushOperandStackEntry(y, a)
    IN  CASE op = "pop"  -> decrementOperandStackBy(x, 1)
          [] op = "pop2" -> decrementOperandStackBy(x, 2)
          [] op = "dup"  -> setOperandStackEntry(incrementOperandStackBy(x, 1), 0, e(0))
          [] op = "dup_x1"  -> push(set(x, <<e(1), e(0)>>), e(0))
          [] op = "dup_x2"  -> push(set(x, <<e(1), e(2), e(0)>>), e(0))
          [] op = "dup2"    -> set(incrementOperandStackBy(x, 2), <<e(0), e(1)>>)
          [] op = "dup2_x1" -> push(push(set(x, <<e(2), e(0), e(1)>>), e(1)), e(0))
          [] op = "dup2_x2" -> push(push(set(x, <<e(2), e(3), e(0), e(1)>>), e(1)), e(0))
          [] op = "swap"    -> set(x, <<e(1), e(0)>>)
          [] op = "iconst"  -> pushOperandStackInt(x, <<op>>)
          [] op = "aconst_null" -> pushOperandStackObject(x, Null)
          [] op = "lconst"  -> pushOperandStackLong(x, <<op>>)

(* The constants of a class are entries; a long takes two of them.            *)
LDC(op, x) ==
    CASE op = "ldc_i" -> pushOperandStackEntry(x, [object |-> Null, primitive |-> <<op>>])
      [] op = "ldc_a" -> pushOperandStackEntry(x, [object |-> <<op>>, primitive |-> Junk])
      [] op = "ldc2"  -> pushOperandStackEntry(
                           pushOperandStackEntry(x, [object |-> Indicator, primitive |-> Junk]),
                           Halves(<<op>>))

LocalHandler(op, n, x) ==
    LET here == x.local[n]
        down == decrementOperandStackBy(x, 1)
    IN  CASE op = "iload" -> pushOperandStackInt(x, here.primitive)
          [] op = "aload" -> pushOperandStackObject(x, here.object)
          [] op = "lload" -> pushOperandStackLong(x, getStackFieldLong(x.local[n + 1]))
          [] op \in {"istore", "ret_store"} ->
               [down EXCEPT !.local[n].primitive = getOperandStackInt(x, 0)]
          [] op = "astore" -> [down EXCEPT !.local[n].object = getOperandStackObject(x, 0)]
          [] op = "lstore" -> [decrementOperandStackBy(x, 2) EXCEPT
                                 !.local[n].object = Indicator,
                                 !.local[n + 1] = Halves(getOperandStackLong(x, 1))]
          [] op = "iinc" -> [x EXCEPT !.local[n].primitive = Term(op, <<@>>)]
(* After a wide prefix the handlers are the same with an index of two bytes.  *)
WideHandler(op, n, x) == LocalHandler(op, n, x)

ConversionHandler(op, x) ==
    CASE op \in Narrow -> setOperandStackInt(x, 0, Term(op, <<getOperandStackInt(x, 0)>>))
      [] op \in ToWord -> decrementOperandStackBy(
                            setOperandStackInt(x, 1, Term(op, <<getOperandStackLong(x, 1)>>)), 1)
      [] op \in ToLong -> incrementOperandStackBy(
                            setOperandStackLong(x, 0, Term(op, <<getOperandStackInt(x, 0)>>)), 1)
      [] op \in Negation -> setOperandStackLong(x, 1, Term(op, <<getOperandStackLong(x, 1)>>))
      [] op = "i2f"    -> incrementOperandStackBy(
                            setOperandStackInt(x, 0, Term(op, <<getOperandStackInt(x, 0)>>)), 1)

ArithmeticHandler(op, x) ==
    CASE op \in (Arithmetic \ {"fcmp"}) \cup Division ->
           decrementOperandStackBy(setOperandStackInt(x, 1,
              Term(op, <<getOperandStackInt(x, 1), getOperandStackInt(x, 0)>>)), 1)
      [] op \in LongMath ->
           decrementOperandStackBy(setOperandStackLong(x, 3,
              Term(op, <<getOperandStackLong(x, 3), getOperandStackLong(x, 1)>>)), 2)
      [] op \in LongExtremum ->
           setOperandStackLong(x, 3,
              Term(op, <<getOperandStackLong(x, 3), getOperandStackLong(x, 1)>>))
      [] op \in LongShift ->
           decrementOperandStackBy(setOperandStackLong(x, 3,
              Term(op, <<getOperandStackLong(x, 2), getOperandStackInt(x, 0)>>)), 1)

(* The lesser or greater of two floats, longs or doubles, as an int.          *)
CompareHandler(op, x) ==
    CASE op = "fcmp" ->
           decrementOperandStackBy(setOperandStackInt(x, 1,
              Term(op, <<getOperandStackInt(x, 1), getOperandStackInt(x, 0)>>)), 1)
      [] op \in LongCompare ->
           decrementOperandStackBy(setOperandStackInt(x, 3,
              Term(op, <<getOperandStackLong(x, 3), getOperandStackLong(x, 1)>>)), 3)

(* A subroutine: the return address is an int to the collector, which is why  *)
(* jsr rewrites the store it jumps to into one of return addresses.           *)
SubroutineHandler(op, n, x) ==
    CASE op = "jsr" -> Done(pushOperandStackInt(x, <<op>>))
      [] op = "ret" -> Did(x, Term(op, <<x.local[n].primitive>>))

BranchHandler(op, x) ==
    LET int(i) == getOperandStackInt(x, i)
        ref(i) == getOperandStackObject(x, i)
        popped(n, operands) == Did(decrementOperandStackBy(x, n), Term(op, operands))
    IN  CASE op = "ifnull"             -> popped(1, <<ref(0)>>)
          [] op \in {"ifeq", "switch"} -> popped(1, <<int(0)>>)
          [] op = "if_icmp"            -> popped(2, <<int(1), int(0)>>)
          [] op = "if_acmp"            -> popped(2, <<ref(1), ref(0)>>)

FieldHandler(op, x) ==
    LET ref(i) == getOperandStackObject(x, i)
        load(value) == CASE op = "getfield_i" -> setOperandStackInt(x, 0, value)
                         [] op = "getfield_a" -> setOperandStackObject(x, 0, value)
                         [] op = "getfield_l" ->
                              incrementOperandStackBy(setOperandStackLong(x, 0, value), 1)
        store(n, operands) == Did(decrementOperandStackBy(x, n), Term(op, operands))
    IN  CASE op = "getstatic_i" -> Done(pushOperandStackInt(x, <<op>>))
          [] op = "getstatic_l" -> Done(pushOperandStackLong(x, <<op>>))
          [] op = "getstatic_a" -> Done(pushOperandStackObject(x, <<op>>))
          [] op = "putstatic_i" -> store(1, <<getOperandStackInt(x, 0)>>)
          [] op = "putstatic_l" -> store(2, <<getOperandStackLong(x, 1)>>)
          [] op = "putstatic_a" -> store(1, <<ref(0)>>)
          [] op \in {"getfield_i", "getfield_l", "getfield_a"} ->
               IF ref(0) = Null THEN Thrown(x, <<"null">>) ELSE Done(load(Term(op, <<ref(0)>>)))
          [] OTHER ->
               IF ref(1) = Null THEN Thrown(x, <<"null">>)
               ELSE CASE op = "putfield_i" -> store(2, <<ref(1), getOperandStackInt(x, 0)>>)
                      [] op = "putfield_l" -> store(3, <<ref(1), getOperandStackLong(x, 1)>>)
                      [] op = "putfield_a" -> store(2, <<ref(1), ref(0)>>)

(* An array element, with the reference r entries and the index r - 1 entries *)
(* from the top; within is what the comparison with the length gives.         *)
ArrayHandler(op, x, within) ==
    LET r == CASE op \in ArrayLoad -> 1 [] op = "lastore" -> 3 [] OTHER -> 2
        array == getOperandStackObject(x, r)
        index == getOperandStackInt(x, r - 1)
        element == Term(op, <<array, index>>)
        down(y) == decrementOperandStackBy(y, 1)
        stored == CASE op = "iastore" -> getOperandStackInt(x, 0)
                    [] op = "aastore" -> getOperandStackObject(x, 0)
                    [] op = "lastore" -> getOperandStackLong(x, 1)
    IN  CASE array = Null -> Thrown(x, <<"null">>)
          [] array # Null /\ ~within -> Thrown(x, <<"bounds", array, index>>)
          [] OTHER ->
               CASE op = "iaload" -> Done(down(setOperandStackInt(x, 1, element)))
                 [] op = "aaload" -> Done(down(setOperandStackObject(x, 1, element)))
                 [] op = "laload" -> Done(setOperandStackLong(x, 1, element))
                 [] op \in ArrayStore -> Did(decrementOperandStackBy(x, r + 1),
                                             Term(op, <<array, index, stored>>))

NewHandler(op, x, ok) ==
    LET length == getOperandStackInt(x, 0)
        other == getOperandStackInt(x, 1)
    IN  CASE op = "new" -> Done(pushOperandStackObject(x, <<op>>))
          [] op = "newarray" ->
               IF ok THEN Done(setOperandStackObject(x, 0, Term(op, <<length>>)))
               ELSE Thrown(x, <<"negative", length>>)
          [] op = "multianewarray" ->
               IF ok THEN Done(decrementOperandStackBy(
                            setOperandStackObject(x, 1, Term(op, <<other, length>>)), 1))
               ELSE Thrown(x, <<"negative", other, length>>)

ObjectHandler(op, x, ok) ==
    LET ref == getOperandStackObject(x, 0)
        monitor(failure) ==
            CASE ref = Null       -> Thrown(x, <<"null">>)
              [] ref # Null /\ failure -> Thrown(x, <<"state", ref>>)
              [] OTHER            -> Did(decrementOperandStackBy(x, 1), Term(op, <<ref>>))
    IN  CASE op = "arraylength" ->
               IF ref = Null THEN Thrown(x, <<"null">>)
               ELSE Done(setOperandStackInt(x, 0, Term(op, <<ref>>)))
          [] op = "checkcast" ->
               IF ref # Null /\ ~ok THEN Thrown(x, <<"cast", ref>>) ELSE Done(x)
          [] op = "instanceof" -> Done(setOperandStackInt(x, 0, Term(op, <<ref>>)))
          [] op = "monitorenter" -> monitor(FALSE)
          [] op = "monitorexit"  -> monitor(~ok)

Handle(op, n, ok, x) ==
    CASE op \in DOMAIN Shuffles \cup DOMAIN Drops
                \cup {"swap", "iconst", "lconst", "aconst_null"} -> Done(StackHandler(op, x))
      [] op \in {"ldc_i", "ldc_a", "ldc2"} -> Done(LDC(op, x))
      [] op \in Store \cup (DOMAIN Loads \ {"ret"}) ->
           Done(IF n > ShortLocals THEN WideHandler(op, n, x) ELSE LocalHandler(op, n, x))
      [] op \in {"jsr", "ret"} -> SubroutineHandler(op, n, x)
      [] op \in Narrow \cup ToWord \cup ToLong \cup Negation \cup {"i2f"} ->
           Done(ConversionHandler(op, x))
      [] op \in Division /\ ~ok -> Thrown(x, <<"arithmetic", getOperandStackInt(x, 0)>>)
      [] op \in LongCompare \cup {"fcmp"} -> Done(CompareHandler(op, x))
      [] op \in (Arithmetic \ {"fcmp"}) \cup LongMath \cup LongExtremum \cup LongShift
         \/ (op \in Division /\ ok) -> Done(ArithmeticHandler(op, x))
      [] op \in {"ifnull", "ifeq", "switch", "if_icmp", "if_acmp"} -> BranchHandler(op, x)
      [] op \in {"getstatic_i", "getstatic_l", "getstatic_a", "putstatic_i", "putstatic_l",
                 "putstatic_a", "getfield_i", "getfield_l", "getfield_a", "putfield_i",
                 "putfield_l", "putfield_a"} -> FieldHandler(op, x)
      [] op \in ArrayLoad \cup ArrayStore -> ArrayHandler(op, x, ok)
      [] op \in {"new", "newarray", "multianewarray"} -> NewHandler(op, x, ok)
      [] OTHER -> ObjectHandler(op, x, ok)

-----------------------------------------------------------------------------
(* The frame begins with any words the code before it may have left: the      *)
(* halves a value does not use hold something older.                          *)

WordKinds == {"int", "ref", "null", "long"}
Start(kinds) ==
    FlattenSeq([i \in DOMAIN kinds |->
        IF kinds[i] = "null" THEN Words("ref", Null) ELSE Words(kinds[i], <<"v", i>>)])
Word(w) ==
    CASE w[1] \in {"int", "return"} -> [object |-> Junk, primitive |-> w[2]]
      [] w[1] = "ref"    -> [object |-> w[2], primitive |-> Junk]
      [] w[1] = "first"  -> [object |-> Indicator, primitive |-> Junk]
      [] w[1] = "second" -> Halves(w[2])
      [] OTHER           -> [object |-> Junk, primitive |-> Junk]

Init ==
    /\ \E kinds \in SeqOf(WordKinds, MaxStart), v \in {"unusable", "long"} :
          /\ Len(Start(kinds)) <= MaxStart
          /\ f = [stack |-> Start(kinds),
                  vars |-> IF v = "long" /\ Locals >= 2
                           THEN Words("long", <<"v", 0>>) \o [j \in 1 .. Locals - 2 |-> Unusable]
                           ELSE [j \in 1 .. Locals |-> Unusable]]
    /\ c = [mem |-> [j \in 1 .. MaxWords |->
                       Word(IF j <= Len(f.stack) THEN f.stack[j] ELSE Unusable)],
            sp |-> Len(f.stack), local |-> [j \in 1 .. Locals |-> Word(f.vars[j])]]
    /\ effect = None /\ promised = None /\ steps = 0

All == Narrow \cup Arithmetic \cup Division \cup Negation \cup LongMath \cup LongExtremum
       \cup LongShift \cup LongCompare \cup ToWord \cup ToLong \cup {"i2f"} \cup ArrayLoad
       \cup ArrayStore \cup Store \cup NullChecked \cup Effective \cup DOMAIN Shuffles
       \cup DOMAIN Drops \cup DOMAIN Loads
       \cup {"swap", "iconst", "lconst", "aconst_null", "jsr", "ldc_i", "ldc_a", "ldc2", "new",
             "newarray", "multianewarray", "instanceof", "checkcast", "getstatic_i",
             "getstatic_l", "getstatic_a"}

Indices(op) == IF op \in Store \cup DOMAIN Loads THEN 1 .. Locals ELSE {1}

Execute(op, n, ok) ==
    /\ steps' = steps + 1
    /\ Permitted(op, n)
    /\ LET p == Promise(op, n, ok)
           h == Handle(op, n, ok, c)
       IN  /\ Len(p.stack) <= MaxWords
           /\ f' = [stack |-> p.stack, vars |-> p.vars]
           /\ promised' = p.effect
           /\ c' = h.frame /\ effect' = h.effect

Next ==
    /\ steps < MaxSteps
    /\ \E op \in All \ Excluded : \E n \in Indices(op), ok \in BOOLEAN : Execute(op, n, ok)
Spec == Init /\ [][Next]_vars

-----------------------------------------------------------------------------
Holds(word, w) ==
    CASE w[1] \in {"int", "return"} -> word.primitive = w[2]
      [] w[1] = "ref"               -> word.object = w[2]
      [] w[1] = "second"            -> getStackFieldLong(word) = w[2]
      [] OTHER                      -> TRUE

(* After any sequence of instructions the words of the frame are the values   *)
(* the virtual machine promises, each in the half its type uses, and what was *)
(* stored, thrown or branched on was computed from the operands promised.     *)
InstructionsKeepTheirPromise ==
    /\ c.sp = Len(f.stack)
    /\ \A j \in 1 .. c.sp : Holds(c.mem[j], f.stack[j])
    /\ \A j \in 1 .. Locals : Holds(c.local[j], f.vars[j])
    /\ effect = promised

(* Every long, on the stack or in a variable, has the indicator in its first  *)
(* entry, which is how the collector knows the halves in its second from an   *)
(* object (types.h:312).                                                      *)
LongsAreIndicated ==
    /\ \A j \in 1 .. Len(f.stack) :
          f.stack[j][1] = "first" => c.mem[j].object = Indicator
    /\ \A j \in 1 .. Locals : f.vars[j][1] = "first" => c.local[j].object = Indicator
==============================================================================
