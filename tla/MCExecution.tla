------------------------------ MODULE MCExecution ------------------------------
(***************************************************************************)
(* The execution of byte code, one of its layers at work in every          *)
(* behaviour: the frames of a thread, the handlers of the instructions,    *)
(* their quick forms, the arithmetic, and the native methods.              *)
(***************************************************************************)
EXTENDS Quickening, TLC

CONSTANTS Idle,
          Parts,          \* the layers a run looks at
          StrayHandlers   \* Frames

VARIABLES
    part,                                                    \* which of them it is
    frame, framePromised, effect, promised, steps,           \* Instructions
    mem, segs, sp, fp, framePC, depth, calls,                \* Frames
    x, y, result, expected,                                  \* Arithmetic
    call, r, done                                            \* Natives

handlerVars    == <<frame, framePromised, effect, promised, steps>>
frameVars      == <<mem, segs, sp, fp, framePC, depth, calls>>
arithmeticVars == <<x, y, result, expected>>
nativeVars     == <<call, r, done>>
executionVars  == <<part, vars, frameVars, handlerVars, arithmeticVars, nativeVars>>

-----------------------------------------------------------------------------
(* A small program.  run takes the thread; either it calls f, which calls     *)
(* itself, takes an int from a synchronized method that may exit its own      *)
(* monitor or throw, and passes a long to g, or it calls u, which throws.  A  *)
(* handler of u ends where u throws, one of run begins after the call of u:   *)
(* each for one of the kinds u throws, and not for the other.                 *)

I(op, a) == [op |-> op, arg |-> a]
H(from, to, at, kinds) == [from |-> from, to |-> to, at |-> at, catches |-> kinds]

run == [params |-> <<TRUE>>, varCount |-> 2, maxStack |-> 6, sync |-> FALSE,
        code |-> <<I("branch", 13),
                   I("aload", 0), I("call", "f"), I("astore", 1), I("branch", 8),
                   I("aload", 1), I("call", "s"), I("pop", 0),
                   I("lconst", 0), I("aload", 0), I("call", "g"), I("pop2", 0), I("return", 0),
                   I("call", "u"), I("return", 0),
                   I("astore", 1), I("branch", 1), I("aload", 1), I("athrow", 0)>>,
        handlers |-> <<H(1, 7, 15, {"app", "overflow"}), H(14, 15, 14, {"app"}),
                       H(13, 14, 14, {"overflow"})>>]
f == [params |-> <<TRUE>>, varCount |-> 2, maxStack |-> 2, sync |-> FALSE,
      code |-> <<I("const", 0), I("istore", 1), I("branch", 5), I("aload", 0), I("call", "f"),
                 I("aload", 0), I("areturn", 0)>>,
      handlers |-> <<>>]
s == [params |-> <<TRUE>>, varCount |-> 1, maxStack |-> 1, sync |-> TRUE,
      code |-> <<I("branch", 3), I("aload", 0), I("exit", 0), I("branch", 6), I("ldc", "app"),
                 I("athrow", 0), I("aload", 0), I("enter", 0), I("call", "t"), I("astore", 0),
                 I("aload", 0), I("exit", 0), I("const", 0), I("ireturn", 0)>>,
      handlers |-> <<H(4, 6, 9, {"app"}), H(8, 9, 9, {"overflow"})>>]
g == [params |-> <<FALSE, FALSE, TRUE>>, varCount |-> 5, maxStack |-> 2, sync |-> FALSE,
      code |-> <<I("lconst", 0), I("lstore", 3), I("lconst", 0), I("lreturn", 0)>>,
      handlers |-> <<>>]
t == [params |-> <<>>, varCount |-> 0, maxStack |-> 2, sync |-> FALSE,
      code |-> <<I("ldc", "app"), I("branch", 3), I("areturn", 0), I("call", "f"), I("areturn", 0)>>,
      handlers |-> <<>>]
u == [params |-> <<>>, varCount |-> 0, maxStack |-> 1, sync |-> FALSE,
      code |-> <<I("ldc", "app"), I("branch", 4), I("pop", 0), I("ldc", "overflow"),
                 I("branch", 6), I("athrow", 0), I("athrow", 0), I("pop", 0), I("return", 0)>>,
      handlers |-> <<H(0, 5, 7, {"app"})>>]
Program == [run |-> run, f |-> f, s |-> s, t |-> t, g |-> g, u |-> u]

Stack == INSTANCE Frames WITH
    pc <- framePC, Methods <- Program, StartMethod <- "run", BlockSize <- 14, InitialSize <- 30,
    MaxSegments <- 5, Increments <- 2, MaxHeld <- 2

-----------------------------------------------------------------------------

\* Every instruction but those whose handlers do not keep their promise (README).
Handler == INSTANCE Instructions WITH
    c <- frame, f <- framePromised,
    Excluded <- {"lshl", "lshr", "lushr", "lmin", "lmax", "i2f", "putfield_l"},
    MaxWords <- 6, MaxStart <- 4, Locals <- 2, ShortLocals <- 1, MaxSteps <- 2

ASSUME QuickeningAssumption /\ Stack!FirstFrameFits /\ Stack!StrayHandlersAssumption
ASSUME Parts \subseteq {"frames", "handlers", "quick", "arithmetic", "natives"}

\* Words of four bits.
Computed == INSTANCE Arithmetic WITH
    Width <- 4, Words <- {0, 1, 5, 7, 8, 15},
    Operations <- {"iadd", "isub", "imul", "iand", "ior", "ixor", "ineg", "ishl", "ishr",
                   "iushr", "iabs", "imin", "imax", "i2l", "l2i", "ladd", "lsub", "lneg",
                   "land", "lor", "lxor", "lshl", "lushr", "lshr"}

ArrayOf(type, tag, values) == [type |-> type, values |-> [i \in DOMAIN values |-> <<tag[i], values[i]>>]]
Same(tag, n) == [i \in 1 .. n |-> tag]
MCArrays ==
    [ints    |-> ArrayOf("int", Same("int", 3), <<1, 2, 3>>),
     moreInts |-> ArrayOf("int", Same("int", 2), <<4, 5>>),
     chars   |-> ArrayOf("char", Same("char", 2), <<6, 7>>),
     strings |-> ArrayOf("String", Same("string", 2), <<"s1", "s2">>),
     objects |-> ArrayOf("Object", <<"string", "other", "string">>, <<"s3", "o1", "s4">>),
     object  |-> [type |-> "object", values |-> <<>>]]

Native == INSTANCE Natives WITH
    Objects <- {"a", "b"}, Integers_ <- -1 .. 2, NULL <- Idle, Arrays <- MCArrays

-----------------------------------------------------------------------------

\* A layer that is not at work is as one of its initial states leaves it.
ExecutionInit ==
    /\ part \in Parts
    /\ Stack!Init
    /\ IF part = "handlers" THEN Handler!Init
       ELSE frame = Idle /\ framePromised = Idle /\ effect = Idle /\ promised = Idle /\ steps = 0
    /\ Init /\ (part # "quick" => code.kind = "value" /\ indexed)
    /\ IF part = "arithmetic" THEN Computed!Init
       ELSE x = Idle /\ y = Idle /\ result = Idle /\ expected = Idle
    /\ IF part = "natives" THEN Native!Init
       ELSE call = Idle /\ r = Idle /\ done = FALSE

FramesStep ==
    /\ part = "frames" /\ Stack!Next
    /\ UNCHANGED <<part, vars, handlerVars, arithmeticVars, nativeVars>>
HandlersStep ==
    /\ part = "handlers" /\ Handler!Next
    /\ UNCHANGED <<part, vars, frameVars, arithmeticVars, nativeVars>>
QuickStep ==
    /\ part = "quick" /\ Next
    /\ UNCHANGED <<part, frameVars, handlerVars, arithmeticVars, nativeVars>>
ArithmeticStep ==
    /\ part = "arithmetic" /\ Computed!Next
    /\ UNCHANGED <<part, vars, frameVars, handlerVars, nativeVars>>
NativesStep ==
    /\ part = "natives" /\ Native!Next
    /\ UNCHANGED <<part, vars, frameVars, handlerVars, arithmeticVars>>

ExecutionNext == FramesStep \/ HandlersStep \/ QuickStep \/ ArithmeticStep \/ NativesStep
ExecutionSpec == ExecutionInit /\ [][ExecutionNext]_executionVars

-----------------------------------------------------------------------------

\* The frames on the segments of a stack are those the calls made so far promise, and
\* no instruction reads or writes outside its frame, however the stack grew or unwound.
\* What handlers catch from outside their range is left out, see StrayHandlers.
FramesAreExact == part = "frames" => Stack!FramesFit /\ Stack!FramesAreThosePromised

\* A throwable goes to the handler whose range, end excluded, holds the instruction that
\* throws or calls.  Implied by FramesAreExact without stray handlers, and violated with
\* either kind of them, as README.md describes.
HandlersCatchInTheirRange == part = "frames" => Stack!HandlersCatchInTheirRange

\* The collector's walk over the frames misses no reference but those in the frames of
\* synchronized methods and those behind the indicator of a long, be it still in use or
\* left in the object half of a word an int was stored in since.
CollectorMissesNothingElse == part = "frames" => Stack!MissedOnlyBehindIndicators

\* A handler leaves what the instruction set promises on the operand stack and in the
\* locals, for every stack it is permitted on, and longs stay marked as such.
HandlersKeepTheirPromise ==
    part = "handlers" => Handler!InstructionsKeepTheirPromise /\ Handler!LongsAreIndicated

\* ints and longs, the latter in two words, are added, negated, shifted and converted
\* as numbers of their width are, in every operation but those README.md lists.
ArithmeticIsExact == part = "arithmetic" => Computed!ArithmeticIsExact

\* A native method takes its arguments, leaves its result or throws, wherever it is
\* called from.
NativesKeepTheirPromise == part = "natives" => Native!NativesKeepTheirPromise

=============================================================================
