------------------------------- MODULE Natives -------------------------------
(* The native methods: what each C function does to the operand stack and the *)
(* program counter of the frame that calls it, and what it asks of the rest   *)
(* of the machine, beside what its Java declaration promises.  A native has   *)
(* no frame of its own: it finds its arguments on the caller's operand stack, *)
(* must leave the result in their place and steps over the invoke instruction *)
(* itself, whose length is 5 for an interface call and 3 for the others.      *)
(* References are names, ints and longs small integers; a long takes two      *)
(* words.  What a native asks for and what it gets are terms of the operands  *)
(* it used, so that a wrong operand shows.                                    *)
EXTENDS Integers, Sequences, SequencesExt, FiniteSetsExt

CONSTANTS Objects,   \* references other than NULL passed to them
          Integers_, \* ints and longs passed to them
          Arrays,    \* the arrays: name |-> [type, values]
          NULL

VARIABLES call,  \* [native, opcode, args, fit, interrupted, succeeds]; fit: the object is in the
                 \* state the native asks for (its monitor owned, the thread not started, the
                 \* class instantiable, the stream open, the key not empty); succeeds: there is
                 \* memory, and no error when reading
          r,     \* [mem, sp, pc, opcode, asked, thrown, arrays]
          done
vars == <<call, r, done>>

None == "none"
Base == <<"int", "base">>       \* what the caller's operand stack holds below
Start == 10                     \* program counter of the invoke instruction
Words(type, value) ==
    IF type = "long" THEN <<<<"first">>, <<"second", value>>>> ELSE <<<<type, value>>>>

-----------------------------------------------------------------------------
(* The operand stack and the program counter of the calling frame.            *)
W(s, i)   == s.mem[s.sp - i]
RefAt(s, i) == IF W(s, i)[1] = "ref" THEN W(s, i)[2] ELSE "junk"
IntAt(s, i)  == IF W(s, i)[1] = "int" THEN W(s, i)[2] ELSE "junk"
LongAt(s, i) == IF W(s, i)[1] = "first" THEN s.mem[s.sp - i + 1][2] ELSE "junk"
SetRef(s, i, x) == [s EXCEPT !.mem[s.sp - i] = <<"ref", x>>]
SetInt(s, i, x) == [s EXCEPT !.mem[s.sp - i] = <<"int", x>>]
SetLong(s, i, x) == [s EXCEPT !.mem[s.sp - i] = <<"first">>, !.mem[s.sp - i + 1] = <<"second", x>>]
Down(s, n) == [s EXCEPT !.sp = @ - n]
PushRef(s, x) == SetRef(Down(s, -1), 0, x)
PushInt(s, x) == SetInt(Down(s, -1), 0, x)
PushLong(s, x) == Down(SetLong(Down(s, -1), 0, x), -1)
Regular(s) == [s EXCEPT !.pc = @ + 3]
Virtual(s) == [s EXCEPT !.pc = @ + (IF s.opcode = "invokeinterface" THEN 5 ELSE 3)]
Ask(s, what) == [s EXCEPT !.asked = Append(@, what)]
throw(s, what) == [s EXCEPT !.thrown = what]

-----------------------------------------------------------------------------
(* Objects and threads: a monitor is used by its owner, a thread that was     *)
(* interrupted while it waited throws from the call.                          *)
monitorCall(s, c, what) ==
    IF ~c.fit THEN throw(s, "IllegalMonitorState")
    ELSE Down(Virtual(Ask(s, <<what, RefAt(s, 0)>>)), 1)
checkForInterruptedException(s, c, after) ==
    IF c.interrupted THEN throw(s, "Interrupted") ELSE after
javaLangObjectWait_afterwards(s, c) ==
    LET w == Down(Virtual(Ask(s, <<"wait", RefAt(s, 0)>>)), 1)
    IN IF ~c.fit THEN throw(s, "IllegalMonitorState") ELSE checkForInterruptedException(w, c, w)
javaLangObjectWait(s, c) ==
    LET w == Ask(s, <<"wait", RefAt(s, 0)>>)
    IN IF ~c.fit THEN throw(s, "IllegalMonitorState")
       ELSE checkForInterruptedException(w, c, Down(Virtual(w), 1))
javaLangObjectNotify(s, c) == monitorCall(s, c, "notify")
javaLangObjectNotifyAll(s, c) == monitorCall(s, c, "notifyAll")
javaLangObjectHashCode(s) == Virtual(SetInt(s, 0, <<"hashCode", RefAt(s, 0)>>))
javaLangObjectGetClass(s) == Virtual(SetRef(s, 0, <<"getClass", RefAt(s, 0)>>))

javaLangThreadJoin(s, c) ==
    LET w == Ask(s, <<"join", RefAt(s, 0)>>)
    IN checkForInterruptedException(w, c, Down(Virtual(w), 1))
javaLangThreadSleep(s, c) ==
    LET w == Ask(s, <<"sleep", LongAt(s, 1)>>)
    IN checkForInterruptedException(w, c, Down(Regular(w), 2))
javaLangThreadIsAlive(s) == Virtual(SetInt(s, 0, <<"isAlive", RefAt(s, 0)>>))
javaLangThreadGetPriority(s) == Virtual(SetInt(s, 0, <<"getPriority", RefAt(s, 0)>>))
javaLangThreadSetPriority(s) ==
    IF IntAt(s, 0) \notin 1 .. 10 THEN throw(s, "IllegalArgument")
    ELSE Down(Virtual(Ask(s, <<"setPriority", RefAt(s, 1), IntAt(s, 0)>>)), 2)
javaLangThreadActiveCount(s) == Regular(PushInt(s, <<"activeCount">>))
javaLangThreadCurrentThread(s) == Regular(PushRef(s, <<"currentThread">>))
javaLangThreadInterrupt(s) == Down(Virtual(Ask(s, <<"interrupt", RefAt(s, 0)>>)), 1)
javaLangThreadYield(s) == Regular(Ask(s, <<"yield">>))
javaLangThreadStart(s, c) ==
    IF ~c.fit THEN throw(s, "IllegalThreadState")
    ELSE IF ~c.succeeds THEN throw(s, "OutOfMemory")
    ELSE Virtual(Down(Ask(s, <<"start", RefAt(s, 0)>>), 1))

-----------------------------------------------------------------------------
(* Runtime, System, Throwable, Class and the streams.  newInstance leaves the *)
(* object for the caller and starts two frames, the second of them <init>.    *)
javaLangRuntimeGC(s) == Virtual(Down(Ask(s, <<"gc">>), 1))
memoryCount(s, what) == Virtual(Down(SetLong(s, 0, <<what>>), -1))
javaLangRuntimeFreeMemory(s) == memoryCount(s, "freeMemory")
javaLangRuntimeTotalMemory(s) == memoryCount(s, "totalMemory")
javaLangSystemGetProperty(s, c) ==
    IF RefAt(s, 0) = NULL THEN throw(s, "NullPointer")
    ELSE IF ~c.fit THEN throw(s, "IllegalArgument")
    ELSE IF ~c.succeeds THEN throw(s, "OutOfMemory")
    ELSE Regular(SetRef(s, 0, <<"getProperty", RefAt(s, 0)>>))
javaLangSystemCurrentTimeMillis(s) == Regular(PushLong(s, <<"currentTimeMillis">>))
throwableCall(s, what) == Virtual(Down(Ask(s, <<what, RefAt(s, 0)>>), 1))
javaLangThrowableCreateStackTrace(s, c) ==
    IF ~c.succeeds THEN throw(s, "OutOfMemory") ELSE throwableCall(s, "createStackTrace")
javaLangThrowablePrintStackTrace(s) == throwableCall(s, "printStackTrace")
javaLangClassNewInstance(s, c) ==
    IF ~c.succeeds THEN throw(s, "OutOfMemory")
    ELSE LET n == SetRef(s, 0, <<"newInstance", RefAt(s, 0)>>)
         IN IF ~c.fit THEN throw(n, "Instantiation")
            ELSE Ask(Virtual(n), <<"init", RefAt(n, 0)>>)
javaLangClassGetName(s, c) ==
    IF ~c.succeeds THEN throw(s, "OutOfMemory")
    ELSE SetRef(Virtual(s), 0, <<"getName", RefAt(s, 0)>>)
javaLangClassIsArray(s) == Virtual(SetInt(s, 0, <<"isArray", RefAt(s, 0)>>))
javaLangClassIsInterface(s) == Virtual(SetInt(s, 0, <<"isInterface", RefAt(s, 0)>>))
comMjvmkResourceInputStreamRead(s, c) ==
    IF ~c.fit \/ ~c.succeeds THEN throw(s, "IO")
    ELSE Regular(SetInt(s, 0, <<"read", RefAt(s, 0)>>))
comMjvmkResourceInputStreamClose(s, c) ==
    IF ~c.fit THEN Regular(Down(s, 1))
    ELSE IF ~c.succeeds THEN throw(s, "IO")
    ELSE Regular(Down(Ask(s, <<"close", RefAt(s, 0)>>), 1))
comMjvmkStandardOutputStreamWriteByteArray(s) ==
    Virtual(Down(Ask(s, <<"writeByteArray", RefAt(s, 0)>>), 2))
streamWrite(s, what) == Virtual(Down(Ask(s, <<what, IntAt(s, 0)>>), 2))
comMjvmkStandardOutputStreamWrite(s) == streamWrite(s, "write")
comMjvmkStandardErrorStreamWrite(s) == streamWrite(s, "errWrite")
comMjvmkStandardOutputStreamFlush(s) == Virtual(Down(Ask(s, <<"flush">>), 1))

-----------------------------------------------------------------------------
(* The natives that become instructions.                                      *)
javaLangStringCharAtInternal(s) ==
    Regular(Down(SetInt(s, 1, <<"character", RefAt(s, 1), IntAt(s, 0)>>), 1))
StringLength == 2
javaLangStringCharAt(s) ==
    IF RefAt(s, 1) = NULL THEN throw(s, "NullPointer")
    ELSE IF IntAt(s, 0) < 0 \/ IntAt(s, 0) >= StringLength THEN throw(s, "StringIndexOutOfBounds")
    ELSE javaLangStringCharAtInternal(s)
javaUtilVectorElementAtInternal(s) ==
    Regular(Down(SetRef(s, 1, <<"elementAt", RefAt(s, 1), IntAt(s, 0)>>), 1))
javaLangIntegerValue(s) ==
    IF RefAt(s, 0) = NULL THEN throw(s, "NullPointer")
    ELSE Virtual(SetInt(s, 0, <<"value", RefAt(s, 0)>>))
javaLangMathIMax(s) ==
    Regular(Down(IF IntAt(s, 1) < IntAt(s, 0) THEN SetInt(s, 1, IntAt(s, 0)) ELSE s, 1))
javaLangMathIMin(s) ==
    Regular(Down(IF IntAt(s, 1) > IntAt(s, 0) THEN SetInt(s, 1, IntAt(s, 0)) ELSE s, 1))
javaLangMathIAbs(s) == Regular(IF IntAt(s, 0) < 0 THEN SetInt(s, 0, -IntAt(s, 0)) ELSE s)
javaLangMathLMax(s) ==
    Regular(Down(IF LongAt(s, 3) < LongAt(s, 1) THEN SetLong(s, 3, LongAt(s, 1)) ELSE s, 2))
javaLangMathLMin(s) ==
    Regular(Down(IF LongAt(s, 3) > LongAt(s, 1) THEN SetLong(s, 3, LongAt(s, 1)) ELSE s, 2))
javaLangMathLAbs(s) == Regular(IF LongAt(s, 1) < 0 THEN SetLong(s, 1, -LongAt(s, 1)) ELSE s)

-----------------------------------------------------------------------------
(* System.arraycopy.  memoryMove copies as if through a buffer; elements that *)
(* need a check are moved one by one.                                         *)
Primitive == {"int", "char"}
typeOf(element) == IF element[1] = "string" THEN "String" ELSE "Object"
isInstanceOf(destType, type) == destType = type \/ destType = "Object"
memoryMove(arrays, dst, dstPos, src, srcPos, n) ==
    [arrays EXCEPT ![dst].values = [i \in DOMAIN @ |->
        IF i - dstPos \in 1 .. n THEN arrays[src].values[srcPos + i - dstPos] ELSE @[i]]]
(* Copies the elements up to the first that does not fit; [arrays, stored].   *)
checkedCopy(arrays, dst, dstPos, src, srcPos, n) ==
    FoldLeft(LAMBDA a, i:
                 LET element == a.arrays[src].values[srcPos + i]
                 IN IF a.stored /\ isInstanceOf(arrays[dst].type, typeOf(element))
                    THEN [a EXCEPT !.arrays[dst].values[dstPos + i] = element]
                    ELSE [a EXCEPT !.stored = FALSE],
             [arrays |-> arrays, stored |-> TRUE], [i \in 1 .. n |-> i])
javaLangSystemArrayCopy(s) ==
    LET src == RefAt(s, 4)  srcPos == IntAt(s, 3)  dst == RefAt(s, 2)  dstPos == IntAt(s, 1)
        n == IntAt(s, 0)
        from == s.arrays[src].type  to == s.arrays[dst].type
        moved(arrays) == Regular(Down([s EXCEPT !.arrays = arrays], 5))
        checked == checkedCopy(s.arrays, dst, dstPos, src, srcPos, n)
    IN IF NULL \in {src, dst} THEN throw(s, "NullPointer")
       ELSE IF "object" \in {from, to} THEN throw(s, "ArrayStore")
       ELSE IF \/ n < 0 \/ srcPos < 0 \/ dstPos < 0
               \/ srcPos + n > Len(s.arrays[src].values) \/ dstPos + n > Len(s.arrays[dst].values)
            THEN throw(s, "ArrayIndexOutOfBounds")
       ELSE IF {from, to} \cap Primitive # {} /\ from # to THEN throw(s, "ArrayStore")
       ELSE IF from \in Primitive \/ isInstanceOf(to, from)
            THEN moved(memoryMove(s.arrays, dst, dstPos, src, srcPos, n))
       ELSE IF checked.stored THEN moved(checked.arrays)
       ELSE throw([s EXCEPT !.arrays = checked.arrays], "ArrayStore")

-----------------------------------------------------------------------------
(* What the Java declarations say: the types of the arguments, the receiver   *)
(* first, and of the result; whether an interface may declare the method.     *)
Declared == [
    wait |-> <<<<"ref">>, "void">>, notify |-> <<<<"ref">>, "void">>,
    notifyAll |-> <<<<"ref">>, "void">>, hashCode |-> <<<<"ref">>, "int">>,
    getClass |-> <<<<"ref">>, "ref">>, join |-> <<<<"ref">>, "void">>,
    sleep |-> <<<<"long">>, "void">>, isAlive |-> <<<<"ref">>, "int">>,
    getPriority |-> <<<<"ref">>, "int">>, setPriority |-> <<<<"ref", "int">>, "void">>,
    activeCount |-> <<<<>>, "int">>, currentThread |-> <<<<>>, "ref">>,
    interrupt |-> <<<<"ref">>, "void">>, yield |-> <<<<>>, "void">>,
    start |-> <<<<"ref">>, "void">>, gc |-> <<<<"ref">>, "void">>,
    freeMemory |-> <<<<"ref">>, "long">>, totalMemory |-> <<<<"ref">>, "long">>,
    getProperty |-> <<<<"ref">>, "ref">>, currentTimeMillis |-> <<<<>>, "long">>,
    createStackTrace |-> <<<<"ref">>, "void">>, printStackTrace |-> <<<<"ref">>, "void">>,
    newInstance |-> <<<<"ref">>, "ref">>, getName |-> <<<<"ref">>, "ref">>,
    isArray |-> <<<<"ref">>, "int">>, isInterface |-> <<<<"ref">>, "int">>,
    read |-> <<<<"ref">>, "int">>, close |-> <<<<"ref">>, "void">>,
    writeByteArray |-> <<<<"ref", "ref">>, "void">>, write |-> <<<<"ref", "int">>, "void">>,
    errWrite |-> <<<<"ref", "int">>, "void">>, flush |-> <<<<"ref">>, "void">>,
    charAtInternal |-> <<<<"ref", "int">>, "int">>, charAt |-> <<<<"ref", "int">>, "int">>,
    elementAt |-> <<<<"ref", "int">>, "ref">>, value |-> <<<<"ref">>, "int">>,
    imax |-> <<<<"int", "int">>, "int">>, imin |-> <<<<"int", "int">>, "int">>,
    iabs |-> <<<<"int">>, "int">>, lmax |-> <<<<"long", "long">>, "long">>,
    lmin |-> <<<<"long", "long">>, "long">>, labs |-> <<<<"long">>, "long">>,
    arraycopy |-> <<<<"ref", "int", "ref", "int", "int">>, "void">>]
Takes(n) == Declared[n][1]
Gives(n) == Declared[n][2]
(* Natives an interface can declare: those public, not static, of classes     *)
(* that are not final.                                                        *)
Interfaced == {"wait", "notify", "notifyAll", "hashCode", "getClass", "join", "isAlive",
               "getPriority", "setPriority", "interrupt", "start", "printStackTrace",
               "createStackTrace", "value"}

execute(s, c) ==
    CASE c.native = "wait"             -> javaLangObjectWait(s, c)
      [] c.native = "notify"           -> javaLangObjectNotify(s, c)
      [] c.native = "notifyAll"        -> javaLangObjectNotifyAll(s, c)
      [] c.native = "hashCode"         -> javaLangObjectHashCode(s)
      [] c.native = "getClass"         -> javaLangObjectGetClass(s)
      [] c.native = "join"             -> javaLangThreadJoin(s, c)
      [] c.native = "sleep"            -> javaLangThreadSleep(s, c)
      [] c.native = "isAlive"          -> javaLangThreadIsAlive(s)
      [] c.native = "getPriority"      -> javaLangThreadGetPriority(s)
      [] c.native = "setPriority"      -> javaLangThreadSetPriority(s)
      [] c.native = "activeCount"      -> javaLangThreadActiveCount(s)
      [] c.native = "currentThread"    -> javaLangThreadCurrentThread(s)
      [] c.native = "interrupt"        -> javaLangThreadInterrupt(s)
      [] c.native = "yield"            -> javaLangThreadYield(s)
      [] c.native = "start"            -> javaLangThreadStart(s, c)
      [] c.native = "gc"               -> javaLangRuntimeGC(s)
      [] c.native = "freeMemory"       -> javaLangRuntimeFreeMemory(s)
      [] c.native = "totalMemory"      -> javaLangRuntimeTotalMemory(s)
      [] c.native = "getProperty"      -> javaLangSystemGetProperty(s, c)
      [] c.native = "currentTimeMillis" -> javaLangSystemCurrentTimeMillis(s)
      [] c.native = "createStackTrace" -> javaLangThrowableCreateStackTrace(s, c)
      [] c.native = "printStackTrace"  -> javaLangThrowablePrintStackTrace(s)
      [] c.native = "newInstance"      -> javaLangClassNewInstance(s, c)
      [] c.native = "getName"          -> javaLangClassGetName(s, c)
      [] c.native = "isArray"          -> javaLangClassIsArray(s)
      [] c.native = "isInterface"      -> javaLangClassIsInterface(s)
      [] c.native = "read"             -> comMjvmkResourceInputStreamRead(s, c)
      [] c.native = "close"            -> comMjvmkResourceInputStreamClose(s, c)
      [] c.native = "writeByteArray"   -> comMjvmkStandardOutputStreamWriteByteArray(s)
      [] c.native = "write"            -> comMjvmkStandardOutputStreamWrite(s)
      [] c.native = "errWrite"         -> comMjvmkStandardErrorStreamWrite(s)
      [] c.native = "flush"            -> comMjvmkStandardOutputStreamFlush(s)
      [] c.native = "charAtInternal"   -> javaLangStringCharAtInternal(s)
      [] c.native = "charAt"           -> javaLangStringCharAt(s)
      [] c.native = "elementAt"        -> javaUtilVectorElementAtInternal(s)
      [] c.native = "value"            -> javaLangIntegerValue(s)
      [] c.native = "imax"             -> javaLangMathIMax(s)
      [] c.native = "imin"             -> javaLangMathIMin(s)
      [] c.native = "iabs"             -> javaLangMathIAbs(s)
      [] c.native = "lmax"             -> javaLangMathLMax(s)
      [] c.native = "lmin"             -> javaLangMathLMin(s)
      [] c.native = "labs"             -> javaLangMathLAbs(s)
      [] c.native = "arraycopy"        -> javaLangSystemArrayCopy(s)

-----------------------------------------------------------------------------
MaxWords == 8
Values(n, type) ==
    CASE type # "ref"    -> Integers_
      [] n = "arraycopy" -> DOMAIN Arrays \cup {NULL}
      [] OTHER           -> Objects \cup {NULL}
ArgumentLists(n) ==
    FoldLeft(LAMBDA lists, type: {Append(l, v) : l \in lists, v \in Values(n, type)},
             {<<>>}, Takes(n))
(* Natives that are given a reference they need not check: the receiver of an *)
(* invoke is not null, and the package's own calls pass none.                 *)
Static == {"sleep", "activeCount", "currentThread", "yield", "getProperty", "currentTimeMillis",
           "imax", "imin", "iabs", "lmax", "lmin", "labs", "arraycopy"}
Calls(n) ==
    {[native |-> n, opcode |-> o, args |-> a, fit |-> f, interrupted |-> i, succeeds |-> m] :
        o \in {"invoke"} \cup (IF n \in Interfaced THEN {"invokeinterface"} ELSE {}),
        a \in {a \in ArgumentLists(n) : n \notin Static => NULL \notin Range(a)},
        f \in BOOLEAN, i \in BOOLEAN, m \in BOOLEAN}
Pushed(c) == FlattenSeq([i \in DOMAIN c.args |-> Words(Takes(c.native)[i], c.args[i])])
AtCall(c) ==
    LET used == <<Base>> \o Pushed(c)
    IN [mem |-> used \o [i \in 1 .. MaxWords - Len(used) |-> <<"unused">>], sp |-> Len(used),
        pc |-> Start, opcode |-> c.opcode, asked |-> <<>>, thrown |-> None, arrays |-> Arrays]

Init ==
    /\ \E n \in DOMAIN Declared : call \in Calls(n)
    /\ r = AtCall(call)
    /\ done = FALSE
Execute ==
    /\ ~done
    /\ r' = execute(r, call)
    /\ done' = TRUE
    /\ UNCHANGED call
Next == Execute
Spec == Init /\ [][Next]_vars

-----------------------------------------------------------------------------
(* The promise.  A refused call leaves an exception thrown at the invoke      *)
(* instruction, whose handlers must find it; only an interrupted wait has     *)
(* done something before.                                                     *)
Refusals(c) ==
    LET n == c.native
        refers(i) == c.args[i] = NULL
        when(condition, exception) == IF condition THEN {exception} ELSE {}
        unfit == when(~c.fit, CASE n \in {"wait", "notify", "notifyAll"} -> "IllegalMonitorState"
                               [] n = "start"       -> "IllegalThreadState"
                               [] n = "newInstance" -> "Instantiation"
                               [] n = "read"        -> "IO"
                               [] n = "getProperty" -> "IllegalArgument"
                               [] OTHER             -> None) \ {None}
        failed == when(~c.succeeds,
                       CASE n \in {"start", "newInstance", "getName", "getProperty", "createStackTrace"}
                                                     -> "OutOfMemory"
                         [] n = "read" \/ (n = "close" /\ c.fit) -> "IO"
                         [] OTHER                    -> None) \ {None}
        about == CASE n = "getProperty" -> when(refers(1), "NullPointer")
                   [] n = "setPriority" -> when(c.args[2] \notin 1 .. 10, "IllegalArgument")
                   [] n = "charAt"      -> when(c.args[2] \notin 0 .. StringLength - 1,
                                                "StringIndexOutOfBounds")
                   [] OTHER             -> {}
        interrupted == when(c.interrupted /\ unfit = {} /\ n \in {"wait", "join", "sleep"}, "Interrupted")
    IN unfit \cup failed \cup about \cup interrupted

Voids   == {n \in DOMAIN Declared : Gives(n) = "void"}
OfTheMachine == {"gc", "freeMemory", "totalMemory", "flush", "write", "errWrite", "writeByteArray"}
Named(c) ==
    <<IF c.native \in {"charAt", "charAtInternal"} THEN "character" ELSE c.native>>
        \o (IF c.native \in OfTheMachine THEN Tail(c.args) ELSE c.args)
Result(c) ==
    CASE c.native \in {"imax", "lmax"} -> Max(Range(c.args))
      [] c.native \in {"imin", "lmin"} -> Min(Range(c.args))
      [] c.native \in {"iabs", "labs"} -> Max({c.args[1], -c.args[1]})
      [] OTHER                         -> Named(c)
Returned(c) ==
    <<Base>> \o (IF c.native \in Voids THEN <<>> ELSE Words(Gives(c.native), Result(c)))
Asked(c) ==
    CASE c.native = "newInstance"          -> <<<<"init", Named(c)>>>>
      [] c.native = "arraycopy"            -> <<>>
      [] c.native = "close" /\ ~c.fit      -> <<>>
      [] c.native \in Voids       -> <<Named(c)>>
      [] OTHER                    -> <<>>
(* Every array as after a copy that reads all the elements before it writes   *)
(* one, up to the first that the destination may not hold.                    *)
Admits(dst, element) ==
    IF Arrays[dst].type \in Primitive THEN element[1] = Arrays[dst].type
    ELSE element[1] \notin Primitive /\ (Arrays[dst].type = "String" => element[1] = "string")
Inside(c) ==
    LET within(a, pos) == pos >= 0 /\ c.args[5] >= 0 /\ pos + c.args[5] <= Len(Arrays[a].values)
    IN within(c.args[1], c.args[2]) /\ within(c.args[3], c.args[4])
SameSort(c) ==
    LET from == Arrays[c.args[1]].type  to == Arrays[c.args[3]].type
    IN {from, to} \cap Primitive # {} => from = to
Read(c, i) == Arrays[c.args[1]].values[c.args[2] + i]
Taken(c, i) == \A k \in 1 .. i : Admits(c.args[3], Read(c, k))
CopyRefusals(c) ==
    CASE NULL \in {c.args[1], c.args[3]}                              -> {"NullPointer"}
      [] "object" \in {Arrays[c.args[1]].type, Arrays[c.args[3]].type} -> {"ArrayStore"}
      [] ~Inside(c)                                     -> {"ArrayIndexOutOfBounds"}
      [] ~SameSort(c) \/ ~Taken(c, c.args[5])           -> {"ArrayStore"}
      [] OTHER                                          -> {}
Copied(c) ==
    IF CopyRefusals(c) \in {{}, {"ArrayStore"}} /\ Inside(c) /\ SameSort(c)
    THEN [Arrays EXCEPT ![c.args[3]].values = [i \in DOMAIN @ |->
              IF i - c.args[4] \in 1 .. c.args[5] /\ Taken(c, i - c.args[4])
              THEN Read(c, i - c.args[4]) ELSE @[i]]]
    ELSE Arrays

(* A native leaves the caller's frame as its declaration says: the arguments  *)
(* replaced by the result and nothing else touched, the program counter just  *)
(* behind the invoke instruction it was called by, the rest of the machine    *)
(* asked for the right thing with the right operands, arrays copied exactly   *)
(* though they overlap; or it throws what the declaration admits, from the    *)
(* invoke instruction, so that a handler that covers the call is found.       *)
NativesKeepTheirPromise ==
    LET refusals == IF call.native = "arraycopy" THEN CopyRefusals(call) ELSE Refusals(call)
    IN done =>
        IF refusals = {}
        THEN /\ r.thrown = None
             /\ SubSeq(r.mem, 1, r.sp) = Returned(call)
             /\ r.pc = Start + (IF call.opcode = "invokeinterface" THEN 5 ELSE 3)
             /\ r.asked = Asked(call)
             /\ r.arrays = (IF call.native = "arraycopy" THEN Copied(call) ELSE Arrays)
        ELSE /\ r.thrown \in refusals
             /\ r.pc = Start /\ r.sp > 0 /\ r.mem[1] = Base
             /\ r.asked = (IF r.thrown = "Interrupted" THEN Asked(call) ELSE <<>>)
             /\ r.arrays = (IF call.native = "arraycopy" THEN Copied(call) ELSE Arrays)
=============================================================================
