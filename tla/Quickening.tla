------------------------------ MODULE Quickening -----------------------------
(* Several threads execute one instruction of a method, and rewrite it while  *)
(* they do: a slow form resolves its constant and writes a quick form with    *)
(* new operands over itself, some natives write a still quicker one over the  *)
(* call that reached them.  A thread may be preempted between any two         *)
(* accesses to the bytes that are not inside a critical region.               *)
EXTENDS Integers, Sequences

CONSTANTS Threads,      \* the threads that execute the instruction
          Kinds         \* the kinds of instruction it may be

(* For every form of an instruction: the operands its handler reads, the form *)
(* the handler writes and how many operands with it, and whether it then      *)
(* starts over or completes.  A static one initialises the class first.       *)
Form(reads, to, writes, then) == [reads |-> reads, to |-> to, writes |-> writes, then |-> then]
Last(reads) == Form(reads, "none", 0, "complete")
Forms ==
    [getstatic |->       [slow   |-> Form(2, "quick", 2, "complete"),  quick |-> Last(2)],
     getfield  |->       [slow   |-> Form(2, "quick", 2, "complete"),  quick |-> Last(2)],
     getfield_0 |->      [slow   |-> Form(2, "field_0", 0, "complete"), field_0 |-> Last(0)],
     invokestatic |->    [slow   |-> Form(2, "quick", 2, "restart"),   quick |-> Last(2)],
     invokeinterface |-> [slow   |-> Form(4, "quick", 4, "complete"),  quick |-> Last(4)],
     value |->           [slow   |-> Form(2, "quick", 2, "value"),
                          quick  |-> Form(2, "field_0", 0, "complete"), field_0 |-> Last(0)],
     math |->            [slow   |-> Form(2, "native", 2, "restart"),
                          native |-> Form(2, "math", 1, "complete"),   math |-> Last(1)]]
Static == {"getstatic", "invokestatic", "math"}

\* The instruction is one of the table, and no thread is taken for a state of the class.
QuickeningAssumption ==
    /\ Kinds \subseteq DOMAIN Forms
    /\ "uninitialized" \notin Threads /\ "initialized" \notin Threads

VARIABLES code,         \* [kind, opcode, operands]; an operand is <<form it belongs to, place>>
          indexed,      \* are the table indices small enough for the operands?
          class,        \* "uninitialized", "initialized", or the thread that initialises it
          pc,           \* what each thread is about to do
          instruction,  \* the opcode each thread has dispatched on
          opsArray,     \* the operands each has read
          used          \* threads that have used the static of the class
vars == <<code, indexed, class, pc, instruction, opsArray, used>>

Of(form) == Forms[code.kind][form]
Operand(form, i) == <<form, i>>

Init ==
    /\ \E kind \in Kinds :
          code = [kind |-> kind, opcode |-> "slow",
                  operands |-> [i \in 1 .. 4 |-> Operand("slow", i)]]
    /\ indexed \in BOOLEAN
    /\ class = "uninitialized"
    /\ pc = [t \in Threads |-> "fetch"]
    /\ instruction = [t \in Threads |-> "none"]
    /\ opsArray = [t \in Threads |-> <<>>]
    /\ used = {}

(* switch(instruction = *pc): the slow handlers read the whole instruction    *)
(* again, the others only the operands, one after the other.                  *)
Fetch(t) ==
    /\ pc[t] = "fetch"
    /\ instruction' = [instruction EXCEPT ![t] = code.opcode]
    /\ opsArray' = [opsArray EXCEPT ![t] = <<>>]
    /\ pc' = [pc EXCEPT ![t] = IF code.opcode = "slow" THEN "read" ELSE "operands"]
    /\ UNCHANGED <<code, indexed, class, used>>

(* instructionRead in a critical region, then checkForQuickening.             *)
checkForQuickening_never(old, new) == TRUE
checkForQuickening(old, new) == old = new
InstructionRead(t) ==
    /\ pc[t] = "read"
    /\ IF checkForQuickening(instruction[t], code.opcode)
       THEN /\ opsArray' = [opsArray EXCEPT ![t] = SubSeq(code.operands, 1, Of("slow").reads)]
            /\ pc' = [pc EXCEPT ![t] = "resolve"]
       ELSE /\ pc' = [pc EXCEPT ![t] = "fetch"]
            /\ UNCHANGED opsArray
    /\ UNCHANGED <<code, indexed, class, instruction, used>>

(* The constant is resolved and, for a static member, the class initialised   *)
(* by this thread, or waited for while another does, and the instruction      *)
(* started over.                                                              *)
classIsInitialized(t) == class \in {"initialized", t}
Resolve(t) ==
    /\ pc[t] = "resolve"
    /\ IF code.kind \in Static /\ ~classIsInitialized(t)
       THEN /\ class = "uninitialized"
            /\ class' = t
            /\ pc' = [pc EXCEPT ![t] = "fetch"]
       ELSE /\ pc' = [pc EXCEPT ![t] = "quicken"]
            /\ UNCHANGED class
    /\ UNCHANGED <<code, indexed, instruction, opsArray, used>>
(* The class initialiser of t returns, though it may have executed this       *)
(* instruction before.                                                        *)
ClinitReturns(t) ==
    /\ class = t /\ pc[t] = "fetch"
    /\ class' = "initialized"
    /\ UNCHANGED <<code, indexed, pc, instruction, opsArray, used>>

ReadOperand(t) ==
    LET n == Len(opsArray[t])
        form == Of(instruction[t])
    IN  /\ pc[t] = "operands"
        /\ IF n < form.reads
           THEN opsArray' = [opsArray EXCEPT ![t] = Append(@, code.operands[n + 1])] /\ UNCHANGED pc
           ELSE /\ pc' = [pc EXCEPT ![t] = IF form.to = "none" THEN "use" ELSE "quicken"]
                /\ UNCHANGED opsArray
        /\ UNCHANGED <<code, indexed, class, instruction, used>>

(* quickenInstructionStream: opcode and operands in one critical region.  An  *)
(* index that does not fit leaves the instruction as it is.                   *)
Rewritten(form) ==
    [code EXCEPT !.opcode = form.to,
                 !.operands = [i \in 1 .. 4 |->
                                 IF i <= form.writes THEN Operand(form.to, i) ELSE @[i]]]
Quicken(t) ==
    LET form == Of(instruction[t])
        rewrites == indexed \/ form.to \in {"native", "math", "field_0"}
    IN  /\ pc[t] = "quicken"
        /\ IF rewrites
           THEN code' = Rewritten(form)
           ELSE UNCHANGED code
        /\ pc' = [pc EXCEPT ![t] = CASE form.then = "restart" /\ rewrites -> "fetch"
                                     [] form.then = "value"             -> "native"
                                     [] OTHER                           -> "use"]
        /\ UNCHANGED <<indexed, class, instruction, opsArray, used>>
(* The call of Integer.value reaches its native in the same handler.          *)
NativeQuickens(t) ==
    /\ pc[t] = "native"
    /\ code' = Rewritten(Of("quick"))
    /\ pc' = [pc EXCEPT ![t] = "use"]
    /\ UNCHANGED <<indexed, class, instruction, opsArray, used>>

Use(t) ==
    /\ pc[t] = "use"
    /\ used' = IF code.kind \in Static THEN used \cup {<<t, class>>} ELSE used
    /\ pc' = [pc EXCEPT ![t] = "done"]
    /\ UNCHANGED <<code, indexed, class, instruction, opsArray>>
(* Each thread comes back to the instruction, as in a loop.                   *)
Again(t) ==
    /\ pc[t] = "done"
    /\ pc' = [pc EXCEPT ![t] = "fetch"]
    /\ UNCHANGED <<code, indexed, class, instruction, opsArray, used>>

Next == \E t \in Threads : \/ Fetch(t) \/ InstructionRead(t) \/ Resolve(t) \/ ClinitReturns(t)
                           \/ ReadOperand(t) \/ Quicken(t) \/ NativeQuickens(t)
                           \/ Use(t) \/ Again(t)
Spec == Init /\ [][Next]_vars

-----------------------------------------------------------------------------
(* No thread acts on operands of another form than the opcode it dispatched   *)
(* on: they index other tables (frameRegisters.h:199, 236).                   *)
OperandsBelongToInstruction ==
    \A t \in Threads :
        pc[t] \in {"resolve", "quicken", "native", "use"} =>
            opsArray[t] = [i \in 1 .. Of(instruction[t]).reads |-> Operand(instruction[t], i)]

(* A quick form, which does not test it any more, is only there once the      *)
(* initialisation of the class has begun, and no thread has used a static of  *)
(* a class before that.                                                       *)
QuickMeansStarted ==
    /\ code.kind \in Static /\ code.opcode # "slow" => class # "uninitialized"
    /\ \A u \in used : u[2] # "uninitialized"

(* Whichever threads quicken an instruction at once, each runs the form its   *)
(* operands were written for, and none runs a quick form before the class is  *)
(* being initialised.                                                         *)
QuickFormsAreSafe == OperandsBelongToInstruction /\ QuickMeansStarted

(* A thread other than the one that initialises the class uses its statics    *)
(* only when it is initialised.                                               *)
UsersSeeInitialized == \A u \in used : u[2] \in {"initialized", u[1]}
==============================================================================
