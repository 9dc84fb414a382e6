------------------------------ MODULE CallStack ------------------------------
(* What the interpreter promises about method calls, without memory: a thread *)
(* is a sequence of frames, the last one running, and a frame is the method   *)
(* executed, the index of the next instruction, the local variables and the   *)
(* operand stack, all of typed words.  An instruction is a record with a      *)
(* field op; which side of a branch is taken, whether a call overflows and    *)
(* whether a synchronized method owns its monitor are given to the step.      *)
EXTENDS Integers, Sequences, FiniteSets, SequencesExt

CONSTANT Methods        \* method name -> its record, see Frames

Reference(o) == <<"reference", o>>
IntWord == <<"int">>
Long1 == <<"long">>           \* the first of the two words of a long
Long2 == <<"second">>
Unknown == <<"any">>            \* a word nothing may be said about

Frame(m, vars) == [method |-> m, pc |-> 0, vars |-> vars, stack |-> <<>>]

(* A frame begins with its arguments in the first variables. *)
Enter(m, args) ==
    Frame(m, args \o [i \in 1 .. Methods[m].varCount - Len(args) |-> Unknown])

TopFrame(calls) == Last(calls)
Top(calls)   == Last(TopFrame(calls).stack)
SetTop(calls, f) == Append(Front(calls), f)
Drop(s, n)   == SubSeq(s, 1, Len(s) - n)

(* The frame f goes on after an instruction that pops n words and pushes ws. *)
After(f, n, ws) == [f EXCEPT !.pc = @ + 1, !.stack = Drop(@, n) \o ws]
Stored(f, i, ws) ==
    [f EXCEPT !.vars = SubSeq(@, 1, i) \o ws \o SubSeq(@, i + 1 + Len(ws), Len(@))]

(* An instruction that stays in its frame.                                   *)
Local(f, instruction) ==
    LET a == instruction.arg IN
    CASE instruction.op = "ldc"    -> After(f, 0, <<Reference(a)>>)
      [] instruction.op = "const"  -> After(f, 0, <<IntWord>>)
      [] instruction.op = "lconst" -> After(f, 0, <<Long1, Long2>>)
      [] instruction.op = "aload"  -> After(f, 0, <<f.vars[a + 1]>>)
      [] instruction.op = "astore" -> After(Stored(f, a, <<Last(f.stack)>>), 1, <<>>)
      [] instruction.op = "istore" -> After(Stored(f, a, <<IntWord>>), 1, <<>>)
      [] instruction.op = "lstore" -> After(Stored(f, a, <<Long1, Long2>>), 2, <<>>)
      [] instruction.op \in {"pop", "enter", "exit"} -> After(f, 1, <<>>)
      [] instruction.op = "pop2"   -> After(f, 2, <<>>)

(* A call takes the arguments off the caller's stack.                        *)
Call(calls, m) ==
    LET caller == TopFrame(calls)
        args   == SubSeq(caller.stack, Len(caller.stack) - Len(Methods[m].params) + 1,
                         Len(caller.stack))
    IN  Append(SetTop(calls, After(caller, Len(args), <<>>)), Enter(m, args))

(* A return pushes the result onto the caller's stack.  The code leaves as   *)
(* many words below a primitive result as it has, hence the Unknown words.   *)
Return(calls, result) ==
    LET caller == Last(Front(calls))
        below  == IF result # <<>> /\ result[1] \in {IntWord, Long1}
                  THEN [i \in 1 .. Len(result) |-> Unknown] ELSE <<>>
    IN  SetTop(Front(calls), [caller EXCEPT !.stack = @ \o below \o result])

(* The handler that catches a throwable of kind t at an instruction: the     *)
(* first of the method whose range, end excluded, holds it.                  *)
Handlers(m, at, t) ==
    {h \in 1 .. Len(Methods[m].handlers) :
        /\ Methods[m].handlers[h].from <= at /\ at < Methods[m].handlers[h].to
        /\ t \in Methods[m].handlers[h].catches}
FirstHandler(hs) == CHOOSE h \in hs : \A k \in hs : h <= k

(* The frame that catches t, thrown by instruction `at` of the last frame:   *)
(* in every frame below it is the call, the instruction before the pc.  A    *)
(* synchronized frame left on the way exits its monitor, and the throwable   *)
(* is an IllegalMonitorStateException from the first frame that does not own *)
(* it, the monitor having been entered depth times.  The handler finds the   *)
(* throwable alone on its stack; <<>> when none catches.                     *)
Throw(calls, at, t, depth) ==
    LET where(i) == IF i = Len(calls) THEN at ELSE calls[i].pc - 1
        left(i) == {j \in i + 1 .. Len(calls) : Methods[calls[j].method].sync}
        kind(i) == IF Cardinality(left(i)) > depth THEN "illegal" ELSE t
        catching == {i \in 1 .. Len(calls) :
                        Handlers(calls[i].method, where(i), kind(i)) # {}}
        k == CHOOSE i \in catching : \A j \in catching : j <= i
        h == FirstHandler(Handlers(calls[k].method, where(k), kind(k)))
    IN  IF catching = {} THEN <<>>
        ELSE Append(SubSeq(calls, 1, k - 1),
                    [calls[k] EXCEPT !.pc = Methods[calls[k].method].handlers[h].at,
                                     !.stack = <<Reference(kind(k))>>])
==============================================================================
