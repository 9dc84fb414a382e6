------------------------------- MODULE Frames --------------------------------
(* The stack of one Java thread in memory, as pushFrame, popFrame and the     *)
(* throwing of exceptions lay it out, beside the call stack the interpreter   *)
(* promises (CallStack).  Memory is a sequence of 4-byte cells in a list of   *)
(* segments.  A jstackField is two cells, the object and then the primitive;  *)
(* a frameStruct is five, a synchronizedFrameStruct six, and so the frames    *)
(* and the operand stacks of a thread lie at even and at odd cells.  A        *)
(* pointer is <<segment, cell>>, the program counter <<method, instruction>>. *)
(* Methods is the loaded code, all bytes of an instruction counting one.      *)
(* One monitor stands for those of synchronized methods and of monitorenter;  *)
(* other threads do not touch it, and it is allocated when it is needed.      *)
EXTENDS CallStack, TLC, FiniteSetsExt

CONSTANTS StartMethod,     \* the run method of the thread
          BlockSize,       \* JAVA_STACK_BLOCK_SIZE, in words
          InitialSize,     \* INITIAL_JAVA_STACK_SIZE, in words
          MaxSegments,     \* no memory for more segments than this
          Increments,      \* STACK_TRACE_INCREMENTS
          MaxHeld,         \* bound on the entries left behind by overflows
          StrayHandlers    \* at which ends of their ranges the handlers of the
                           \* code run may catch what is thrown outside

StrayHandlersAssumption == StrayHandlers \subseteq {"start", "end"}

VARIABLES mem,        \* segment -> cell -> the value it holds
          segs,       \* segment -> its stackSegmentStruct, length 0: unallocated
          sp, fp, pc, \* the frame registers; lp is getLocals(fp)
          depth,      \* how often the thread has entered the monitor
          calls       \* the frames as the interpreter promises them
vars == <<mem, segs, sp, fp, pc, depth, calls>>

Null      == <<"null">>
Indicator == <<"indicator">>         \* DOUBLE_PRIMITIVE_STACK_INDICATOR
Junk      == <<"junk">>              \* memory nobody has written
Monitor   == <<"monitor">>
High      == <<"high">>              \* the cells of a long
Low       == <<"low">>

First == [params |-> <<>>, varCount |-> 0, maxStack |-> 0, sync |-> FALSE,
          code |-> <<[op |-> "first", arg |-> 0]>>]
Method(m)    == IF m = "first" THEN First ELSE Methods[m]
instruction  == Method(pc[1]).code[pc[2] + 1]

(* Pointer arithmetic, in cells and in jstackFields.                         *)
Cell(p, n)   == <<p[1], p[2] + n>>
Field(p, n)  == Cell(p, 2 * n)
Fields(p, n) == {Field(p, i) : i \in 0 .. n - 1}
At(p)        == mem[p[1]][p[2]]
Write(m, ws) == [s \in DOMAIN m |-> [c \in DOMAIN m[s] |->
                    IF <<s, c>> \in DOMAIN ws THEN ws[<<s, c>>] ELSE m[s][c]]]

frameSize(m)       == IF Method(m).sync THEN 6 ELSE 5
getFrameMethod(f)  == At(f)[2]
previousFP(f)      == At(Cell(f, 1))[2]
previousPC(f)      == At(Cell(f, 2))[2]
previousSP(f)      == At(Cell(f, 3))[2]
pStackLimit(f)     == At(Cell(f, 4))[2]
header(f, m, prevFP, prevPC, prevSP, limit) ==
       f          :> <<"method", m>>
    @@ Cell(f, 1) :> <<"frame", prevFP>>
    @@ Cell(f, 2) :> <<"pc", prevPC>>
    @@ Cell(f, 3) :> <<"sp", prevSP>>
    @@ Cell(f, 4) :> <<"limit", limit>>
getLocals(f)       == Field(f, 0 - Method(getFrameMethod(f)).varCount)
parameterVarCount(m) == Len(Method(m).params)
getInvokeSize(m)   == Method(m).varCount + Method(m).maxStack + 3

(* Nothing in setupJavaThread makes this so.                                 *)
FirstFrameFits == 3 + getInvokeSize(StartMethod) <= InitialSize

NULL == <<0, 0>>
SegmentLimit(s, length) == <<s, 2 * (length - 1)>>
unallocated(n)     == [c \in 0 .. 2 * n - 1 |-> Junk]

(* setupJavaThread: the frame of the catch-all method, then the frame of the *)
(* run method, whose argument is the thread.  Its operand stack is not       *)
(* cleared and its size is not compared with the size of the segment.        *)
Init ==
    LET first == <<1, 0>>
        args  == Cell(first, 5)
        limit == SegmentLimit(1, InitialSize)
        f     == Field(args, Method(StartMethod).varCount)
    IN  /\ mem = Write([s \in 1 .. MaxSegments |->
                            IF s = 1 THEN unallocated(InitialSize) ELSE <<>>],
                       header(f, StartMethod, first, <<"first", 0>>, Field(args, -1), limit)
                    @@ header(first, "first", NULL, NULL, NULL, limit)
                    @@ args :> Reference("thread")
                    @@ [v \in Fields(args, Method(StartMethod).varCount) |-> Null])
        /\ segs = [s \in 1 .. MaxSegments |->
                       [length |-> IF s = 1 THEN InitialSize ELSE 0, pNext |-> 0]]
        /\ fp = f
        /\ sp = Cell(f, frameSize(StartMethod) - 2)
        /\ pc = <<StartMethod, 0>>
        /\ depth = 0
        /\ calls = <<Enter(StartMethod, <<Reference("thread")>>)>>

Finished == segs[1].length = 0

-----------------------------------------------------------------------------
(* Instructions that stay in their frame.                                    *)

Next1 == <<pc[1], pc[2] + 1>>
LocalVariable(i) == Field(getLocals(fp), i)
Agree == calls' = SetTop(calls, Local(TopFrame(calls), instruction))

pushOperandStackLong(p) == Field(p, 1) :> Indicator @@ Field(p, 2) :> High
                           @@ Cell(p, 5) :> Low
longOf(p, v) == v :> Indicator @@ Field(v, 1) :> At(p) @@ Cell(v, 3) :> At(Cell(p, 1))

(* What an instruction writes, and by how many words it moves sp.            *)
writes(op, a) ==
    CASE op = "ldc"    -> Field(sp, 1) :> Reference(a)
      [] op = "const"  -> Cell(sp, 3) :> IntWord
      [] op = "lconst" -> pushOperandStackLong(sp)
      [] op = "aload"  -> Field(sp, 1) :> At(LocalVariable(a))
      [] op = "astore" -> LocalVariable(a) :> At(sp)
      [] op = "istore" -> Cell(LocalVariable(a), 1) :> At(Cell(sp, 1))
      [] op = "lstore" -> longOf(sp, LocalVariable(a))
      [] OTHER         -> <<>>
moves(op) == CASE op \in {"ldc", "const", "aload"} -> 1
               [] op = "lconst"                    -> 2
               [] op \in {"lstore", "pop2"}        -> -2
               [] OTHER                            -> -1

InFrame ==
    /\ instruction.op \in {"ldc", "const", "lconst", "aload", "astore", "istore",
                           "lstore", "pop", "pop2"}
    /\ mem' = Write(mem, writes(instruction.op, instruction.arg))
    /\ sp' = Field(sp, moves(instruction.op))
    /\ pc' = Next1
    /\ Agree
    /\ UNCHANGED <<segs, fp, depth>>

Branch ==
    /\ instruction.op = "branch"
    /\ pc' \in {Next1, <<pc[1], instruction.arg>>}
    /\ calls' = SetTop(calls, [TopFrame(calls) EXCEPT !.pc = pc'[2]])
    /\ UNCHANGED <<mem, segs, sp, fp, depth>>

-----------------------------------------------------------------------------
(* Throwing.                                                                 *)

\* mutant of foundHandler: the end of a handler is taken as exclusive
foundHandler_exclusive(m, index, t) ==
    IF m = "first" THEN {1}
    ELSE {h \in 1 .. Len(Methods[m].handlers) :
             /\ index >= Methods[m].handlers[h].from
             /\ index < Methods[m].handlers[h].to
             /\ t \in Methods[m].handlers[h].catches}

(* foundHandler: the end of a handler is included, since the pc of a frame   *)
(* below the first is that of the instruction after the call.  So a handler  *)
(* also catches what a call directly before its range throws, and what the   *)
(* instruction at its end throws in the first frame, whose pc is its own.    *)
foundHandler(m, index, t) ==
    IF m = "first" THEN {1}
    ELSE {h \in 1 .. Len(Methods[m].handlers) :
             /\ index >= Methods[m].handlers[h].from
             /\ index <= Methods[m].handlers[h].to
             /\ t \in Methods[m].handlers[h].catches}

(* The end of the range at which a handler catches what the instruction `at`,*)
(* outside the range, throws.                                                *)
strays(handler, at) ==
    CASE at < handler.from -> {"start"} [] at >= handler.to -> {"end"} [] OTHER -> {}

(* findNewFrame: a synchronized frame that is left exits its monitor, owned  *)
(* or not.  The instruction `at` of a frame is the one that throws or calls, *)
(* index what the pc of the frame says.                                      *)
RECURSIVE findNewFrame(_, _, _, _, _)
findNewFrame(f, index, at, t, d) ==
    LET m  == getFrameMethod(f)
        hs == foundHandler(m, index, t)
    IN  IF hs # {}
        THEN [fp |-> f, object |-> t, depth |-> d,
              strays |-> IF m = "first" THEN {} ELSE strays(Methods[m].handlers[Min(hs)], at),
              pc |-> <<m, IF m = "first" THEN 0 ELSE Methods[m].handlers[Min(hs)].at>>]
        ELSE findNewFrame(previousFP(f), previousPC(f)[2], previousPC(f)[2] - 1,
                          IF Method(m).sync /\ d = 0 THEN "illegal" ELSE t,
                          IF Method(m).sync /\ d > 0 THEN d - 1 ELSE d)

(* throwThrowableObject, by the instruction `at` of the frame f, whose pc is *)
(* index, with the monitor entered d times.                                  *)
Thrown(f, index, at, t, d) ==
    LET found == findNewFrame(f, index, at, t, d)
        top   == Cell(found.fp, frameSize(found.pc[1]))
    IN  /\ found.strays \subseteq StrayHandlers
        /\ fp' = found.fp
        /\ pc' = found.pc
        /\ depth' = found.depth
        /\ sp' = top
        /\ mem' = Write(mem, top :> Reference(found.object))
        /\ UNCHANGED segs

AThrow ==
    /\ instruction.op = "athrow"
    /\ Thrown(fp, pc[2], pc[2], At(sp)[2], depth)
    /\ calls' = Throw(calls, pc[2], Top(calls)[2], depth)

MonitorEnter ==
    /\ instruction.op = "enter"
    /\ depth' = depth + 1
    /\ sp' = Field(sp, -1) /\ pc' = Next1 /\ Agree
    /\ UNCHANGED <<mem, segs, fp>>

MonitorExit ==
    /\ instruction.op = "exit"
    /\ \/ /\ depth > 0
          /\ depth' = depth - 1
          /\ sp' = Field(sp, -1) /\ pc' = Next1 /\ Agree
          /\ UNCHANGED <<mem, segs, fp>>
       \/ /\ depth = 0
          /\ Thrown(fp, pc[2], pc[2], "illegal", depth)
          /\ calls' = Throw(calls, pc[2], "illegal", depth)

-----------------------------------------------------------------------------
(* Calling.                                                                  *)

stackAllocationIsRequired(lp, limit, required) == Field(lp, required)[2] > limit[2]

requiredStackLength(m) ==
    BlockSize * ((getInvokeSize(m) + BlockSize - 1) \div BlockSize)

(* The frame pushed at lp, in the memory m0 with the arguments in place: the *)
(* object halves of the locals and of the operand stack are cleared.  A      *)
(* synchronized frame keeps its monitor behind the frame structure, sp being *)
(* moved by a whole word to make room for it.                                *)
Pushed(m, m0, lp, limit) ==
    LET params == parameterVarCount(m)
        f      == Field(lp, Method(m).varCount)
        opStack == Fields(Cell(f, 5), Method(m).maxStack + (IF Method(m).sync THEN 1 ELSE 0))
        monitor == IF Method(m).sync THEN Cell(f, 5) :> Monitor ELSE <<>>
    IN  /\ mem' = Write(m0, monitor
                         @@ header(f, m, fp, Next1, Field(sp, 0 - params), limit)
                         @@ [v \in Fields(Field(lp, params), Method(m).varCount - params)
                                   \cup opStack |-> Null])
        /\ sp' = Cell(f, IF Method(m).sync THEN 5 ELSE 3)
        /\ fp' = f
        /\ pc' = <<m, 0>>
        /\ depth' = IF Method(m).sync THEN depth + 1 ELSE depth
        /\ calls' = Call(calls, m)

(* startNewStackSegment: the arguments are copied to the next segment of     *)
(* the list when it is long enough, else to a new one put before it.         *)
Arguments(m, s) ==
    LET from == Field(sp, 1 - parameterVarCount(m))
    IN  [p \in {<<s, c>> : c \in 0 .. 2 * parameterVarCount(m) - 1} |-> At(Cell(from, p[2]))]
Reusable(m) ==
    LET next == segs[fp[1]].pNext IN next # 0 /\ segs[next].length >= requiredStackLength(m)
Free == {s \in DOMAIN segs : segs[s].length = 0}

Invoke ==
    LET m     == instruction.arg
        lp    == Field(sp, 1 - parameterVarCount(m))
        limit == pStackLimit(fp)
        full  == stackAllocationIsRequired(lp, limit, getInvokeSize(m))
    IN  /\ instruction.op = "call"
        /\ \/ /\ ~full
              /\ Pushed(m, mem, lp, limit)
              /\ UNCHANGED segs
           \/ /\ full /\ Reusable(m)
              /\ LET s == segs[fp[1]].pNext
                 IN  Pushed(m, Write(mem, Arguments(m, s)), <<s, 0>>,
                            SegmentLimit(s, segs[s].length))
              /\ UNCHANGED segs
           \/ /\ full /\ ~Reusable(m) /\ Free # {}
              /\ LET s == Min(Free)
                     n == requiredStackLength(m)
                 IN  /\ Pushed(m, Write([mem EXCEPT ![s] = unallocated(n)], Arguments(m, s)),
                               <<s, 0>>, SegmentLimit(s, n))
                     /\ segs' = [segs EXCEPT
                            ![s] = [length |-> n, pNext |-> segs[fp[1]].pNext],
                            ![fp[1]].pNext = s]
           \* a quick synchronized call has entered the monitor before the overflow
           \/ \E held \in IF Method(m).sync /\ depth < MaxHeld THEN {0, 1} ELSE {0} :
                 /\ full /\ ~Reusable(m)
                 /\ Thrown(fp, pc[2] + 1, pc[2], "overflow", depth + held)
                 /\ calls' = Throw(calls, pc[2], "overflow", depth + held)

-----------------------------------------------------------------------------
(* Returning.                                                                *)

returns == {"return", "areturn", "ireturn", "lreturn"}

(* popFrame, sp left n words above its old place.                            *)
Popped(n) == /\ sp' = Field(previousSP(fp), n)
             /\ pc' = previousPC(fp)
             /\ fp' = previousFP(fp)

Returned(result) ==
    calls' = IF Len(calls) = 1 THEN <<>> ELSE Return(calls, result)

(* A reference is stored where it will be before the frame is popped, over   *)
(* the first cell of the frame when the method has no variables; a primitive *)
(* is pushed after popFrame has moved sp by its size.                        *)
Result ==
    LET q == previousSP(fp) IN
    CASE instruction.op = "return"  ->
             Popped(0) /\ UNCHANGED mem /\ Returned(<<>>)
      [] instruction.op = "areturn" ->
             Popped(1) /\ mem' = Write(mem, Field(q, 1) :> At(sp)) /\ Returned(<<Top(calls)>>)
      [] instruction.op = "ireturn" ->
             Popped(2) /\ mem' = Write(mem, Cell(Field(q, 2), 1) :> At(Cell(sp, 1)))
                       /\ Returned(<<IntWord>>)
      [] instruction.op = "lreturn" ->
             /\ Popped(4)
             /\ mem' = Write(mem, longOf(sp, Field(q, 3)))
             /\ Returned(<<Long1, Long2>>)

(* A synchronized method that does not own its monitor returns by throwing   *)
(* IllegalMonitorStateException from the frame below.                        *)
DoReturn ==
    /\ instruction.op \in returns
    /\ LET sync == Method(pc[1]).sync IN
       \/ /\ sync => depth > 0
          /\ Result
          /\ depth' = IF sync THEN depth - 1 ELSE depth
          /\ UNCHANGED segs
       \/ /\ sync /\ depth = 0
          /\ LET after == previousPC(fp)[2]
             IN  Thrown(previousFP(fp), after, after - 1, "illegal", depth)
          /\ calls' = IF Len(calls) = 1 THEN <<>>
                      ELSE Throw(Front(calls), Last(Front(calls)).pc - 1, "illegal", depth)

(* FIRST_OPCODE frees every segment, and the thread is gone.                 *)
Finish ==
    /\ instruction.op = "first"
    /\ segs' = [s \in DOMAIN segs |-> [length |-> 0, pNext |-> 0]]
    /\ UNCHANGED <<mem, sp, fp, pc, depth, calls>>

Next == \/ InFrame \/ Branch \/ Invoke \/ DoReturn \/ AThrow
        \/ MonitorEnter \/ MonitorExit \/ Finish

Spec == Init /\ [][Next]_vars

-----------------------------------------------------------------------------
(* The collector.                                                            *)

(* The frames of the thread, the last one running, as popFrame, markRoots    *)
(* and the stack trace follow them.                                          *)
RECURSIVE FramesFrom(_, _, _)
FramesFrom(f, p, s) ==
    IF getFrameMethod(f) = "first" THEN <<>>
    ELSE Append(FramesFrom(previousFP(f), previousPC(f), previousSP(f)),
                [method |-> getFrameMethod(f), fp |-> f, pc |-> p[2], sp |-> s])
frames == IF Finished THEN <<>> ELSE FramesFrom(fp, pc, sp)

\* mutant of Scanned: the entry at sp is left out
Scanned_belowTop(start, n) ==
    LET read[i \in 0 .. n] ==
            IF i = 0 THEN TRUE
            ELSE ~(read[i - 1] /\ At(Field(start, i - 1)) = Indicator)
    IN  {Field(start, i) : i \in {i \in 0 .. n - 2 : read[i]}}

(* createStackTrace: the methods of the frames, the running one first, in    *)
(* blocks of STACK_TRACE_INCREMENTS entries, the last one filled with zeros; *)
(* printStackTrace lists them up to the first zero or the end of the last.   *)
createStackTrace ==
    LET n == Len(frames) IN
    [b \in 1 .. (n + Increments - 1) \div Increments |->
        [i \in 1 .. Increments |->
            LET k == (b - 1) * Increments + i IN
            IF k <= n THEN frames[n + 1 - k].method ELSE "zero"]]
printStackTrace(blocks) == SelectSeq(FlattenSeq(blocks), LAMBDA m : m # "zero")

(* The object halves markRoots takes for references: of the parameters those *)
(* declared as references, of the locals and the operand stack all but those *)
(* behind an indicator.  The operand stack begins where the frame structure  *)
(* ends, which is not where pushStackFrame put it in a synchronized frame.   *)
Scanned(start, n) ==
    LET read[i \in 0 .. n] ==
            IF i = 0 THEN TRUE
            ELSE ~(read[i - 1] /\ At(Field(start, i - 1)) = Indicator)
    IN  {Field(start, i) : i \in {i \in 0 .. n - 1 : read[i]}}

endOfFrame(frame)  == Cell(frame.fp, frameSize(frame.method))
scannedFields(frame) ==
    LET lp == getLocals(frame.fp)
        m  == Method(frame.method)
        params == parameterVarCount(frame.method)
        entries == (frame.sp[2] - endOfFrame(frame)[2]) \div 2 + 1
    IN  {Field(lp, i - 1) : i \in {i \in 1 .. params : m.params[i]}}
        \cup Scanned(Field(lp, params), m.varCount - params)
        \cup Scanned(endOfFrame(frame), entries)
markedBy(frame) == {At(p) : p \in scannedFields(frame)} \ {Null, Indicator}

-----------------------------------------------------------------------------
(* Properties.                                                               *)

References == {Reference(o) : o \in {"thread", "app", "overflow", "illegal"}}

(* Where the words of a frame begin on its operand stack: at the end of the  *)
(* structure, but half a word later in a synchronized frame until something  *)
(* is thrown to it.                                                          *)
operandBase(frame) == Cell(endOfFrame(frame), (frame.sp[2] - endOfFrame(frame)[2]) % 2)
operandCount(frame) == (frame.sp[2] - operandBase(frame)[2]) \div 2 + 1

Holds(p, word) ==
    CASE word[1] = "reference" -> At(p) = word
      [] word[1] = "int"       -> At(Cell(p, 1)) = IntWord
      [] word[1] = "second"    -> At(p) = High /\ At(Cell(p, 1)) = Low
      [] OTHER                 -> TRUE

(* Whatever is called, overflows, returns or is thrown, the registers and    *)
(* the memory hold the frames promised: the methods and their next           *)
(* instructions, and in every variable and operand the typed value, in the   *)
(* half of the word its type is read from; a synchronized frame its monitor. *)
(* A stack trace lists exactly these frames.  A throwable goes to the handler*)
(* whose range holds the instruction, but for StrayHandlers.                 *)
FramesAreThosePromised ==
    /\ Len(frames) = Len(calls)
    /\ \A i \in 1 .. Len(calls) :
          LET f == frames[i] c == calls[i] IN
          /\ f.method = c.method /\ f.pc = c.pc
          /\ operandCount(f) = Len(c.stack)
          /\ \A j \in 1 .. Len(c.vars)  : Holds(Field(getLocals(f.fp), j - 1), c.vars[j])
          /\ \A j \in 1 .. Len(c.stack) : Holds(Field(operandBase(f), j - 1), c.stack[j])
          /\ Method(f.method).sync => At(Cell(f.fp, 5)) = Monitor
    /\ printStackTrace(createStackTrace) =
          [i \in 1 .. Len(calls) |-> calls[Len(calls) + 1 - i].method]

(* A handler is at work where the promise has one: throw.c says of its range *)
(* "the end handler index is not inclusive, but the program counter was      *)
(* incremented when the frame was pushed, so the test below includes the end *)
(* index for the handler", which gives the range of neither the frame that   *)
(* throws nor, at its start, of the frames below.                            *)
HandlersCatchInTheirRange ==
    /\ Len(frames) = Len(calls)
    /\ \A i \in 1 .. Len(calls) :
          frames[i].method = calls[i].method /\ frames[i].pc = calls[i].pc

(* Every frame lies, with its variables, the operands it has and those it is *)
(* meant to have, before the stackSegmentStruct of its segment, and the      *)
(* structure its limit leads to is that of the segment.                      *)
FramesFit ==
    \A i \in 1 .. Len(frames) :
        LET f == frames[i] s == f.fp[1] IN
        /\ getLocals(f.fp)[2] >= 0
        /\ f.sp[2] + 1 < 2 * segs[s].length
        /\ Field(getLocals(f.fp), getInvokeSize(f.method))[2] <= 2 * segs[s].length
        /\ pStackLimit(f.fp) = SegmentLimit(s, segs[s].length)

(* markRoots misses a reference held by a frame that is not synchronized     *)
(* only behind the indicator of a long, the one in use or a stale one.       *)
MissedOnlyBehindIndicators ==
    \A i \in 1 .. Len(calls) :
        LET f == frames[i] c == calls[i]
            Hidden(p) == At(Field(p, -1)) = Indicator
            Found(p, word) == word[1] = "reference" =>
                                  p \in scannedFields(f) \/ Hidden(p)
        IN  ~Method(f.method).sync =>
            /\ \A j \in 1 .. Len(c.vars)  : Found(Field(getLocals(f.fp), j - 1), c.vars[j])
            /\ \A j \in 1 .. Len(c.stack) : Found(Field(operandBase(f), j - 1), c.stack[j])

(* types.h says of the two halves of a word: "on the stack we must separate  *)
(* the objects from the primitive types, so that the garbage collector knows *)
(* which entries are objects and which entries are not objects".             *)
CollectorKnowsObjects ==
    \A i \in 1 .. Len(frames) : markedBy(frames[i]) \subseteq References

(* javaThread.h calls getInvokeSize the "total amount of stack space         *)
(* required to execute a method".                                            *)
InvokeSizeIsEnough ==
    \A i \in 1 .. Len(frames) :
        LET f == frames[i] IN
        f.sp[2] + 1 < getLocals(f.fp)[2] + 2 * getInvokeSize(f.method)
==============================================================================
