------------------------------ MODULE ClassFile ------------------------------
(***************************************************************************)
(* One class file from its opening to the finished class: the reads, which *)
(* may find the end of the file, the blocks allocated on the way, and who  *)
(* frees them (preload.c, load.c, iterativeLoad.c, construct.c,            *)
(* fileAccess.c, memClassFile.c).                                          *)
(*                                                                         *)
(* The contents of the file are whatever they are: at each place where the *)
(* code checks something the check may fail.  A read that finds the end    *)
(* jumps to the function that set pErrorJump; its local variables are      *)
(* taken to have kept their values.                                        *)
(***************************************************************************)
EXTENDS Integers, FiniteSets

CONSTANTS ConstantCount,    \* the entries of the constant pool, entry 0 included
          MethodCount,      \* the methods of the class
          Unset             \* no jump, no tag, no result (NULL in the code)

ClassFileAssumption == ConstantCount \in Nat /\ MethodCount \in Nat

VARIABLES at,               \* the next thing the loader does
          frame,            \* the function that reads the file
          pErrorJump,       \* the function a read error jumps to, or Unset
          cpIndex,          \* the entry or the method it is at
          tags,             \* index -> the tag of the entry read, or Unset
          blocks,           \* the allocated blocks
          preloadData,      \* the blocks the PRELOAD_DATA refers to
          loadData,         \* the blocks the LOAD_DATA refers to
          result,           \* what the function that ended returned
          misused           \* whether a block was freed that is not allocated

fileVars == <<at, frame, pErrorJump, cpIndex, tags, blocks, preloadData, loadData, result, misused>>

File == <<"file", 0>>
FirstPool == <<"firstPool", 0>>
ConstantPool == <<"constantPool", 0>>
SuperIDs == <<"superInterfaceIDs", 0>>
NewInterfaces == <<"newInterfaces", 0>>
AllInterfaces == <<"allInterfaces", 0>>
Fields == <<"fields", 0>>
Methods == <<"methods", 0>>
NewClass == <<"class", 0>>
Utf8(i) == <<"utf8", i>>
ParameterMap(m) == <<"parameterMap", m>>
Code(m) == <<"code", m>>
Handlers(m) == <<"handlers", m>>

Entries == 1..(ConstantCount - 1)
ClassMethods == 1..MethodCount
MemberBlocks == {ParameterMap(m) : m \in ClassMethods} \cup {Code(m) : m \in ClassMethods}
                   \cup {Handlers(m) : m \in ClassMethods}

\* What the pool refers to: the strings of the Utf8 entries.
stringsOf(entries) == {Utf8(i) : i \in {j \in entries : tags[j] = "Utf8" /\ Utf8(j) \in blocks}}

allocate(b) == blocks' = blocks \cup {b} /\ UNCHANGED misused
free(bs) == blocks' = blocks \ bs /\ misused' = (misused \/ ~(bs \subseteq blocks))
-----------------------------------------------------------------------------
FileInit ==
    /\ at = "open"
    /\ frame = "iterativeLoadClass"
    /\ pErrorJump = Unset
    /\ cpIndex = 1
    /\ tags = [i \in Entries |-> Unset]
    /\ blocks = {}
    /\ preloadData = {}
    /\ loadData = {}
    /\ result = Unset
    /\ misused = FALSE

\* The loader goes on elsewhere, in the same function.
proceed(next) == at' = next /\ UNCHANGED <<frame, result>>

\* The function that runs returns what it returns to the loader.
return(ret) == at' = "returned" /\ frame' = "iterativeLoadClass" /\ result' = ret

\* openClassFile allocates the name and frees it again; the file may not be
\* found, and there may be no memory for the file access.
openClassFile ==
    /\ at = "open"
    /\ \/ /\ allocate(File)
          /\ preloadData' = {File}
          /\ frame' = "preloadClass"
          /\ pErrorJump' = "preloadClass"
          /\ at' = "header"
          /\ UNCHANGED result
       \/ return("ERROR") /\ UNCHANGED <<blocks, misused, preloadData, pErrorJump>>
    /\ UNCHANGED <<cpIndex, tags, loadData>>

\* The magic number, the version and the length of the constant pool, for
\* which preloadConstantPool allocates the first pool.
readHeader ==
    /\ at = "header"
    /\ \/ /\ allocate(FirstPool)
          /\ frame' = "preloadConstantPool"
          /\ pErrorJump' = "preloadConstantPool"
          /\ at' = "entry"
          /\ UNCHANGED result
       \/ \* the wrong number, or no memory
          return("ERROR") /\ UNCHANGED <<blocks, misused, pErrorJump>>
    /\ UNCHANGED <<cpIndex, tags, preloadData, loadData>>

\* The bug of a clean-up that stops before the entry it failed at.
cleanUpFirstPool_below(highestIndex) ==
    free({FirstPool} \cup stringsOf(1..(highestIndex - 1)))

cleanUpFirstPool(highestIndex) == free({FirstPool} \cup stringsOf(1..highestIndex))

\* The first pass over an entry of the constant pool.
readEntry ==
    /\ at = "entry" /\ cpIndex < ConstantCount
    /\ \/ \* a string: it is tagged before there is memory for it, and
          \* allocated before its bytes are read
          /\ tags' = [tags EXCEPT ![cpIndex] = "Utf8"]
          /\ \/ allocate(Utf8(cpIndex)) /\ proceed("bytes")
             \/ cleanUpFirstPool(cpIndex) /\ return("ERROR")
          /\ UNCHANGED cpIndex
       \/ \* one of the other kinds
          /\ tags' = [tags EXCEPT ![cpIndex] = "Other"]
          /\ cpIndex' = cpIndex + 1
          /\ proceed("entry")
          /\ UNCHANGED <<blocks, misused>>
       \/ \* a long takes two entries, the second one stays without a tag
          /\ tags' = [tags EXCEPT ![cpIndex] = "Long"]
          /\ IF cpIndex + 1 >= ConstantCount
             THEN cleanUpFirstPool(cpIndex) /\ return("ERROR") /\ UNCHANGED cpIndex
             ELSE cpIndex' = cpIndex + 2 /\ proceed("entry") /\ UNCHANGED <<blocks, misused>>
       \/ \* not a kind of entry
          /\ tags' = [tags EXCEPT ![cpIndex] = "Unknown"]
          /\ cleanUpFirstPool(cpIndex) /\ return("ERROR")
          /\ UNCHANGED cpIndex
    /\ UNCHANGED <<pErrorJump, preloadData, loadData>>

\* The bytes of a string, and verifyUTF8String.
readBytes ==
    /\ at = "bytes"
    /\ \/ cpIndex' = cpIndex + 1 /\ proceed("entry") /\ UNCHANGED <<blocks, misused>>
       \/ cleanUpFirstPool(cpIndex) /\ return("ERROR") /\ UNCHANGED cpIndex
    /\ UNCHANGED <<pErrorJump, tags, preloadData, loadData>>

\* The bug of a function that does not set the jump again.
secondPass_jumpNotReset ==
    /\ at = "entry" /\ cpIndex >= ConstantCount
    /\ allocate(ConstantPool)
    /\ preloadData' = preloadData \cup {FirstPool, ConstantPool}
    /\ frame' = "preloadClass"
    /\ pErrorJump' = Unset
    /\ at' = "classHeader"
    /\ UNCHANGED <<result, cpIndex, tags, loadData>>

\* The second pass: the entries become keys, strings and references, and the
\* first entry that cannot ends it.
secondPass ==
    /\ at = "entry" /\ cpIndex >= ConstantCount
    /\ \/ \* no memory, or an entry failed and the second pool is freed too
          cleanUpFirstPool(ConstantCount - 1) /\ return("ERROR")
             /\ pErrorJump' = Unset /\ UNCHANGED preloadData
       \/ /\ allocate(ConstantPool)
          /\ preloadData' = preloadData \cup {FirstPool, ConstantPool}
          /\ frame' = "preloadClass"
          /\ pErrorJump' = "preloadClass"
          /\ at' = "classHeader"
          /\ UNCHANGED result
    /\ UNCHANGED <<cpIndex, tags, loadData>>

\* The flags, the class itself and its superclass.
readClassHeader ==
    /\ at = "classHeader"
    /\ proceed("interfaceIDs") \/ return("ERROR")
    /\ UNCHANGED <<pErrorJump, cpIndex, tags, blocks, misused, preloadData, loadData>>

\* preloadInterfaces: the identifiers are recorded before they are filled in.
preloadInterfaces ==
    /\ at = "interfaceIDs"
    /\ \/ return("ERROR") /\ UNCHANGED <<blocks, misused, preloadData>>     \* no memory
       \/ /\ allocate(SuperIDs)
          /\ preloadData' = preloadData \cup {SuperIDs}
          /\ proceed("interfaceEntries")
       \/ return("SUCCESS") /\ UNCHANGED <<blocks, misused, preloadData>>   \* no interfaces
    /\ UNCHANGED <<pErrorJump, cpIndex, tags, loadData>>

readInterfaceIDs ==
    /\ at = "interfaceEntries"
    /\ \E ret \in {"SUCCESS", "ERROR"} : return(ret)
    /\ UNCHANGED <<pErrorJump, cpIndex, tags, blocks, misused, preloadData, loadData>>

\* The class is preloaded, and so are the classes it needs.
startLoading ==
    /\ at = "returned" /\ result = "SUCCESS" /\ NewClass \notin blocks
    /\ at' = "super"
    /\ frame' = "readInClassData"
    /\ result' = Unset
    /\ UNCHANGED <<pErrorJump, cpIndex, tags, blocks, preloadData, loadData, misused>>

\* completeClassLoad ends by releasing what the load data refer to.
releaseMemory(ret) == return(ret) /\ free(loadData) /\ loadData' = {}

\* loadSuperClass reads nothing; loadInterfaces merges the interfaces with
\* those inherited.  The list it replaces is freed, the one it fails with is
\* not.
loadSuperClassAndInterfaces ==
    /\ at = "super"
    /\ \/ releaseMemory("ERROR") /\ UNCHANGED pErrorJump
       \/ \* no memory for the second list, or a class that is no interface
          /\ SuperIDs \in blocks
          /\ return("ERROR")
          /\ allocate(NewInterfaces)
          /\ UNCHANGED <<pErrorJump, loadData>>
       \/ \E list \in {{AllInterfaces}} \cup (IF SuperIDs \in blocks THEN {{NewInterfaces}} ELSE {{}}) :
             /\ blocks' = blocks \cup list
             /\ loadData' = list
             /\ pErrorJump' = "readInClassData"
             /\ proceed("fields")
             /\ UNCHANGED misused
    /\ UNCHANGED <<cpIndex, tags, preloadData>>

\* The fields, then the number of methods, and memory for both.
loadFields ==
    /\ at = "fields"
    /\ \/ releaseMemory("ERROR")        \* no memory
       \/ /\ blocks' = blocks \cup {Fields}
          /\ loadData' = loadData \cup {Fields}
          /\ proceed("methods")
          /\ UNCHANGED misused
    /\ UNCHANGED <<pErrorJump, cpIndex, tags, preloadData>>

allocateMethods ==
    /\ at = "methods"
    /\ cpIndex' = 1
    /\ \/ releaseMemory("ERROR")        \* an invalid field, or no memory
       \/ /\ blocks' = blocks \cup {Methods}
          /\ loadData' = loadData \cup {Methods}
          /\ proceed("method")
          /\ UNCHANGED misused
    /\ UNCHANGED <<pErrorJump, tags, preloadData>>

\* loadMethods, a method up to its code, which is allocated and then read.
\* Its parameter map is taken to be there: the code does not look.  An invalid
\* name of the form <...> breaks out of the loop, and loadMethods succeeds.
loadMethod ==
    /\ at = "method" /\ cpIndex <= MethodCount
    /\ \/ \* invalid, or no memory for the code
          \E map \in SUBSET {ParameterMap(cpIndex)} :
              /\ return("ERROR")
              /\ blocks' = (blocks \cup map) \ loadData
              /\ loadData' = {}
              /\ UNCHANGED <<cpIndex, misused>>
       \/ \* not a name although it begins with <: the rest is not read
          /\ cpIndex' = MethodCount + 1
          /\ proceed("method")
          /\ UNCHANGED <<blocks, misused, loadData>>
       \/ \* native or abstract
          /\ cpIndex' = cpIndex + 1
          /\ proceed("method")
          /\ UNCHANGED <<blocks, misused, loadData>>
       \/ \E map \in SUBSET {ParameterMap(cpIndex)} :
              /\ blocks' = blocks \cup map \cup {Code(cpIndex)}
              /\ proceed("code")
              /\ UNCHANGED <<cpIndex, misused, loadData>>
    /\ UNCHANGED <<pErrorJump, tags, preloadData>>

\* The bytes of the code, and the handlers, which are allocated and then read.
loadCode ==
    /\ at = "code"
    /\ \/ releaseMemory("ERROR") /\ UNCHANGED cpIndex
       \/ cpIndex' = cpIndex + 1 /\ proceed("method") /\ UNCHANGED <<blocks, misused, loadData>>
       \/ allocate(Handlers(cpIndex)) /\ proceed("handlers") /\ UNCHANGED <<cpIndex, loadData>>
    /\ UNCHANGED <<pErrorJump, tags, preloadData>>

loadHandlers ==
    /\ at = "handlers"
    /\ \/ releaseMemory("ERROR") /\ UNCHANGED cpIndex
       \/ cpIndex' = cpIndex + 1 /\ proceed("method") /\ UNCHANGED <<blocks, misused, loadData>>
    /\ UNCHANGED <<pErrorJump, tags, preloadData>>

\* The attributes, which must end the file, and constructClass: the class
\* refers to the parts of its methods where they are.
constructClass ==
    /\ at = "method" /\ cpIndex > MethodCount
    /\ pErrorJump' = Unset
    /\ \/ releaseMemory("ERROR")        \* an invalid file, or no memory for the class
       \/ /\ return("SUCCESS")
          /\ blocks' = (blocks \ loadData) \cup {NewClass}
          /\ loadData' = {}
          /\ UNCHANGED misused
    /\ UNCHANGED <<cpIndex, tags, preloadData>>

\* A read finds the end of the file: the function that set pErrorJump returns
\* the error, after it has released what it knows of.
readError ==
    /\ at \in {"header", "entry", "bytes", "classHeader", "interfaceEntries", "interfaceIDs",
               "fields", "methods", "method", "code", "handlers"}
    /\ pErrorJump # Unset
    /\ \/ /\ pErrorJump = "preloadClass"
          /\ return("ERROR")
          /\ pErrorJump' = Unset
          /\ UNCHANGED <<blocks, misused, loadData>>
       \/ /\ pErrorJump = "preloadConstantPool" /\ cpIndex < ConstantCount
          /\ cleanUpFirstPool(ConstantCount - 1)
          /\ return("ERROR")
          /\ UNCHANGED <<pErrorJump, loadData>>
       \/ /\ pErrorJump = "readInClassData"
          /\ releaseMemory("ERROR")
          /\ pErrorJump' = Unset
    /\ UNCHANGED <<cpIndex, tags, preloadData>>

\* releaseIterativeLoadStructure: the constant pool is the class's if there
\* is one.
releaseIterativeLoadStructure ==
    /\ at = "returned" /\ (result = "ERROR" \/ NewClass \in blocks)
    /\ LET released == preloadData \ (IF result = "SUCCESS" THEN {ConstantPool} ELSE {})
       IN  free(released \cup IF FirstPool \in preloadData THEN stringsOf(Entries) ELSE {})
    /\ preloadData' = {}
    /\ at' = "released"
    /\ UNCHANGED <<frame, pErrorJump, cpIndex, tags, loadData, result>>

FileNext ==
    \/ openClassFile \/ readHeader \/ readEntry \/ readBytes \/ secondPass
    \/ readClassHeader \/ preloadInterfaces \/ readInterfaceIDs
    \/ startLoading \/ loadSuperClassAndInterfaces \/ loadFields \/ allocateMethods
    \/ loadMethod \/ loadCode \/ loadHandlers \/ constructClass
    \/ readError \/ releaseIterativeLoadStructure

FileSpec == FileInit /\ [][FileNext]_fileVars
-----------------------------------------------------------------------------
(***************************************************************************)
(* Properties.                                                             *)
(***************************************************************************)
\* Wherever the load of a class ends, each block it took was freed once: a
\* class keeps itself, its constant pool and the parts of its methods, and a
\* failed load leaves nothing but what load.c is known to lose, the parts of
\* the methods read so far and a list of interfaces.
MemoryIsAccountedFor ==
    /\ ~misused
    /\ at = "released" =>
         IF result = "SUCCESS" THEN blocks \ MemberBlocks = {NewClass, ConstantPool}
         ELSE blocks \subseteq MemberBlocks \cup {NewInterfaces}

\* At every place where the end of the file can be met, the error jump leads
\* to the function that is running, which is still on the stack.
ReadErrorsAreCaught ==
    (frame # "iterativeLoadClass" /\ at # "super") => pErrorJump = frame
=============================================================================
