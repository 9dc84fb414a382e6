----------------------- MODULE ClassesAndCode_proofs -----------------------
(***************************************************************************)
(* How a class is read, and how its code is rewritten once it runs.        *)
(*                                                                         *)
(* For a constant pool and a class of any size: a read that finds the end  *)
(* of the file jumps to the function that is running, and every block the  *)
(* load of a class took is freed once or belongs to the class, but for the *)
(* parts of methods and the list of interfaces that load.c loses.          *)
(*                                                                         *)
(* For any number of threads: each runs the form its operands were written *)
(* for, whichever of the table's instructions it is but the calls of the   *)
(* mathematical natives, and a quick form is met only once the             *)
(* initialisation of the class has begun.                                  *)
(***************************************************************************)
EXTENDS ClassFile, Quickening, SequenceTheorems, TLAPS

----------------------------------------------------------------------------
\* The reading of a class file (load.c, preload.c).

PreloadBlocks == {File, FirstPool, ConstantPool, SuperIDs}
LoadBlocks == {NewInterfaces, AllInterfaces, Fields, Methods}

ReadingPool == {"entry", "bytes"}
Preloading == {"header", "classHeader", "interfaceIDs", "interfaceEntries"}
Loading == {"super", "fields", "methods", "method", "code", "handlers"}
AfterPool == {"classHeader", "interfaceIDs", "interfaceEntries"} \cup Loading
Ended == {"open", "returned", "released"}

TypeOK ==
    /\ at \in ReadingPool \cup Preloading \cup Loading \cup Ended
    /\ cpIndex \in Nat \ {0} /\ (at \in {"code", "handlers"} => cpIndex \in ClassMethods)
    /\ tags \in [Entries -> {Unset, "Utf8", "Other", "Long", "Unknown"}]
    /\ preloadData \in SUBSET PreloadBlocks
    /\ loadData \in SUBSET LoadBlocks

\* The function that runs, and where it has set the jump.
JumpInv ==
    /\ at \in ReadingPool => frame = "preloadConstantPool"
    /\ at \in Preloading => frame = "preloadClass"
    /\ at \in Loading => frame = "readInClassData"
    /\ at \in Ended => frame = "iterativeLoadClass"
    /\ ReadErrorsAreCaught

Strings == {Utf8(i) : i \in {j \in Entries : tags[j] = "Utf8"}}
\* The strings of the first pass: each is tagged, and behind the index.
StringsRead == {Utf8(i) : i \in {j \in Entries : tags[j] = "Utf8" /\ j <= cpIndex
                                                   /\ (at = "entry" => j # cpIndex)}}
\* What the clean-up at the end knows of.
Known == preloadData \cup IF FirstPool \in preloadData THEN Strings ELSE {}

\* Every block is known to the function that will have to free it, or is one
\* of those that the class keeps or load.c loses.
BlocksInv ==
    /\ ~misused
    /\ preloadData \subseteq blocks /\ loadData \subseteq blocks
    /\ at \notin Loading => loadData = {}
    /\ at = "super" => loadData = {}
    /\ FirstPool \in preloadData <=> ConstantPool \in preloadData
    /\ at \in AfterPool \/ (at = "returned" /\ result = "SUCCESS") => FirstPool \in preloadData
    /\ at \in {"open", "header"} => blocks = preloadData
    /\ at = "open" => preloadData = {}
    /\ at \in {"open", "header"} \cup ReadingPool => FirstPool \notin preloadData
    /\ at \in ReadingPool =>
          FirstPool \in blocks /\ blocks \subseteq preloadData \cup {FirstPool} \cup StringsRead
    /\ at \notin ReadingPool =>
          blocks \subseteq Known \cup loadData \cup MemberBlocks \cup {NewInterfaces, NewClass, ConstantPool}
    /\ at \notin ReadingPool /\ ConstantPool \in blocks =>
          ConstantPool \in preloadData \/ (at = "released" /\ result = "SUCCESS")
    /\ NewInterfaces \in blocks =>
          NewInterfaces \in loadData \/ (at \in {"returned", "released"} /\ result = "ERROR")
    /\ NewClass \in blocks => at \in {"returned", "released"} /\ result = "SUCCESS"
    /\ at = "released" => preloadData = {} /\ result \in {"SUCCESS", "ERROR"}
    /\ at = "released" /\ result = "SUCCESS" => {NewClass, ConstantPool} \subseteq blocks

\* The names of blocks are different.
LEMMA BlockNames ==
    /\ File # FirstPool /\ File # ConstantPool /\ File # SuperIDs /\ FirstPool # ConstantPool
    /\ FirstPool # SuperIDs /\ ConstantPool # SuperIDs
    /\ PreloadBlocks \cap LoadBlocks = {}
    /\ NewClass \notin PreloadBlocks \cup LoadBlocks
    /\ NewInterfaces \notin {AllInterfaces, Fields, Methods}
    /\ MemberBlocks \cap (PreloadBlocks \cup LoadBlocks \cup {NewClass}) = {}
    /\ \A i : Utf8(i) \notin PreloadBlocks \cup LoadBlocks \cup MemberBlocks \cup {NewClass}
    /\ \A i, j : Utf8(i) = Utf8(j) => i = j
<1> USE DEF File, FirstPool, ConstantPool, SuperIDs, NewInterfaces, AllInterfaces, Fields, Methods,
            NewClass, Utf8, ParameterMap, Code, Handlers
<1>1. PreloadBlocks \cap LoadBlocks = {} /\ NewClass \notin PreloadBlocks \cup LoadBlocks
  BY SMT DEF PreloadBlocks, LoadBlocks
<1>2. \A b \in MemberBlocks : b \notin PreloadBlocks \cup LoadBlocks \cup {NewClass}
  BY SMT DEF PreloadBlocks, LoadBlocks, MemberBlocks
<1>3. \A i : Utf8(i) \notin PreloadBlocks \cup LoadBlocks \cup MemberBlocks \cup {NewClass}
  BY SMT DEF PreloadBlocks, LoadBlocks, MemberBlocks
<1> QED BY <1>1, <1>2, <1>3, SMT

-----------------------------------------------------------------------------

\* Every step keeps the types.
LEMMA TypeStep ==
    ASSUME ClassFileAssumption, TypeOK, BlocksInv, [FileNext]_fileVars PROVE TypeOK'
<1> USE DEF TypeOK, ReadingPool, Preloading, Loading, Ended, proceed, return, releaseMemory
<1>1. CASE openClassFile
  BY <1>1 DEF openClassFile, PreloadBlocks
<1>2. CASE readHeader
  BY <1>2 DEF readHeader
<1>3. CASE readEntry
  <2>1. cpIndex + 1 \in Nat \ {0} /\ cpIndex + 2 \in Nat \ {0}
    BY SMT
  <2>2. \A tag \in {"Utf8", "Other", "Long", "Unknown"} :
          [tags EXCEPT ![cpIndex] = tag] \in [Entries -> {Unset, "Utf8", "Other", "Long", "Unknown"}]
    OBVIOUS
  <2> QED BY <1>3, <2>1, <2>2 DEF readEntry
<1>4. CASE readBytes
  BY <1>4, SMT DEF readBytes
<1>5. CASE secondPass
  BY <1>5 DEF secondPass, PreloadBlocks
<1>6. CASE readClassHeader \/ readInterfaceIDs \/ startLoading
  BY <1>6 DEF readClassHeader, readInterfaceIDs, startLoading
<1>7. CASE preloadInterfaces
  BY <1>7 DEF preloadInterfaces, PreloadBlocks
<1>8. CASE loadSuperClassAndInterfaces
  BY <1>8 DEF loadSuperClassAndInterfaces, LoadBlocks
<1>9. CASE loadFields
  BY <1>9 DEF loadFields, LoadBlocks
<1>10. CASE allocateMethods
  BY <1>10 DEF allocateMethods, LoadBlocks
<1>11. CASE loadMethod
  BY <1>11, SMT DEF loadMethod, ClassMethods, ClassFileAssumption
<1>12. CASE loadCode \/ loadHandlers
  BY <1>12, SMT DEF loadCode, loadHandlers
<1>13. CASE constructClass
  BY <1>13 DEF constructClass
<1>14. CASE readError
  BY <1>14 DEF readError
<1>15. CASE releaseIterativeLoadStructure
  BY <1>15 DEF releaseIterativeLoadStructure
<1>16. CASE UNCHANGED fileVars
  BY <1>16 DEF fileVars
<1> QED BY <1>1, <1>2, <1>3, <1>4, <1>5, <1>6, <1>7, <1>8, <1>9, <1>10, <1>11, <1>12, <1>13,
           <1>14, <1>15, <1>16 DEF FileNext

-----------------------------------------------------------------------------

\* Each function sets the jump before it reads, and the one that called it
\* sets it again when it returns.
LEMMA JumpStep ==
    ASSUME TypeOK, JumpInv, [FileNext]_fileVars PROVE JumpInv'
<1> USE DEF TypeOK, JumpInv, ReadErrorsAreCaught, ReadingPool, Preloading, Loading, Ended,
            proceed, return, releaseMemory
<1>1. CASE openClassFile \/ readHeader
  BY <1>1 DEF openClassFile, readHeader
<1>2. CASE readEntry \/ readBytes
  BY <1>2 DEF readEntry, readBytes
<1>3. CASE secondPass
  BY <1>3 DEF secondPass
<1>4. CASE readClassHeader \/ preloadInterfaces \/ readInterfaceIDs \/ startLoading
  BY <1>4 DEF readClassHeader, preloadInterfaces, readInterfaceIDs, startLoading
<1>5. CASE loadSuperClassAndInterfaces
  BY <1>5 DEF loadSuperClassAndInterfaces
<1>6. CASE loadFields \/ allocateMethods
  BY <1>6 DEF loadFields, allocateMethods
<1>7. CASE loadMethod
  BY <1>7 DEF loadMethod
<1>8. CASE loadCode \/ loadHandlers \/ constructClass
  BY <1>8 DEF loadCode, loadHandlers, constructClass
<1>9. CASE readError
  BY <1>9 DEF readError
<1>10. CASE releaseIterativeLoadStructure
  BY <1>10 DEF releaseIterativeLoadStructure
<1>11. CASE UNCHANGED fileVars
  BY <1>11 DEF fileVars
<1> QED BY <1>1, <1>2, <1>3, <1>4, <1>5, <1>6, <1>7, <1>8, <1>9, <1>10, <1>11 DEF FileNext

\* What the first pass allocated is freed again when it fails, whatever the
\* entry it failed at.
LEMMA CleanedUp ==
    ASSUME ClassFileAssumption, TypeOK, BlocksInv, at \in ReadingPool, NEW highestIndex \in Int,
           highestIndex >= cpIndex \/ highestIndex = ConstantCount - 1, cleanUpFirstPool(highestIndex)
    PROVE  blocks' = preloadData /\ ~misused'
<1>1. FirstPool \notin preloadData /\ FirstPool \in blocks /\ preloadData \subseteq blocks
      /\ blocks \subseteq preloadData \cup {FirstPool} \cup StringsRead /\ ~misused
  BY DEF BlocksInv
<1>2. stringsOf(1 .. highestIndex) \subseteq blocks
  BY DEF stringsOf
<1>3. \A i : Utf8(i) \notin preloadData
  BY BlockNames DEF TypeOK
<1>4. ASSUME NEW b \in blocks, b \in StringsRead PROVE b \in stringsOf(1 .. highestIndex)
  <2>1. PICK j \in Entries : b = Utf8(j) /\ tags[j] = "Utf8" /\ j <= cpIndex
    BY <1>4 DEF StringsRead
  <2>2. j \in 1 .. highestIndex
    BY <2>1, SMT DEF Entries, TypeOK, ClassFileAssumption
  <2> QED BY <1>4, <2>1, <2>2 DEF stringsOf
<1>5. preloadData \cap stringsOf(1 .. highestIndex) = {}
  BY <1>3 DEF stringsOf
<1> QED BY <1>1, <1>2, <1>4, <1>5 DEF cleanUpFirstPool, free

\* The first pass failed: what is left is the file.
LEMMA FailedFirstPass ==
    ASSUME TypeOK, BlocksInv, at \in ReadingPool, UNCHANGED <<preloadData, loadData>>,
           blocks' = preloadData, ~misused', return("ERROR")
    PROVE  BlocksInv'
<1>1. loadData = {} /\ FirstPool \notin preloadData /\ ConstantPool \notin preloadData
      /\ preloadData \subseteq PreloadBlocks
  BY DEF TypeOK, BlocksInv, ReadingPool, Loading
<1>2. NewInterfaces \notin preloadData /\ NewClass \notin preloadData
  BY <1>1, BlockNames DEF LoadBlocks
<1> QED BY <1>1, <1>2 DEF BlocksInv, return, ReadingPool, Loading, AfterPool, Known

\* The first pass goes on: what it allocates are strings it will find again.
LEMMA FirstPassGoesOn ==
    ASSUME TypeOK, BlocksInv, at \in ReadingPool, at' \in ReadingPool,
           UNCHANGED <<preloadData, loadData, misused>>, StringsRead \subseteq StringsRead',
           blocks \subseteq blocks', blocks' \subseteq blocks \cup StringsRead'
    PROVE  BlocksInv'
<1>1. /\ loadData = {} /\ FirstPool \notin preloadData /\ FirstPool \in blocks
      /\ preloadData \subseteq blocks /\ ConstantPool \notin preloadData /\ ~misused
      /\ blocks \subseteq preloadData \cup {FirstPool} \cup StringsRead
      /\ preloadData \subseteq PreloadBlocks
  BY DEF TypeOK, BlocksInv, ReadingPool, Loading
<1>2. blocks' \subseteq preloadData \cup {FirstPool} \cup StringsRead'
  BY <1>1
<1>3. NewInterfaces \notin blocks' /\ NewClass \notin blocks'
  <2>1. \A b \in StringsRead' : \E i : b = Utf8(i)
    BY DEF StringsRead
  <2> QED BY <1>1, <1>2, <2>1, BlockNames DEF LoadBlocks, PreloadBlocks
<1> QED BY <1>1, <1>2, <1>3 DEF BlocksInv, ReadingPool, Loading, AfterPool

\* A function that fails returns to the loader; if it frees the load data it
\* leaves what the loader knows of.
LEMMA FailedLoad ==
    ASSUME TypeOK, TypeOK', BlocksInv, at \in Loading, UNCHANGED <<tags, preloadData>>,
           return("ERROR"), loadData' = {}, ~misused',
           preloadData \subseteq blocks', blocks' \subseteq blocks \cup MemberBlocks \cup {NewInterfaces},
           loadData \cap blocks' = {}
    PROVE  BlocksInv'
<1> QED BY BlockNames DEF BlocksInv, return, TypeOK, ReadingPool, Preloading, Loading, AfterPool, Ended,
           Known, Strings, PreloadBlocks, LoadBlocks

\* A load that goes on: what it allocates is in the load data, or a part of a
\* method.
LEMMA LoadGoesOn ==
    ASSUME TypeOK, TypeOK', BlocksInv, at \in Loading, at' \in Loading \ {"super"},
           UNCHANGED <<tags, preloadData, misused>>,
           loadData \subseteq loadData', loadData' \subseteq blocks', blocks \subseteq blocks',
           blocks' \subseteq blocks \cup loadData' \cup MemberBlocks
    PROVE  BlocksInv'
<1>1. Known' = Known
  BY DEF Known, Strings
<1>2. NewInterfaces \notin MemberBlocks /\ NewClass \notin MemberBlocks \cup LoadBlocks
      /\ ConstantPool \notin MemberBlocks \cup LoadBlocks
  BY BlockNames DEF LoadBlocks, PreloadBlocks
<1> QED BY <1>1, <1>2 DEF BlocksInv, TypeOK, ReadingPool, Loading, AfterPool

\* Members are blocks of their own: releasing the load data frees none.
LEMMA Released ==
    ASSUME TypeOK, TypeOK', BlocksInv, at \in Loading, UNCHANGED <<tags, preloadData>>, releaseMemory("ERROR")
    PROVE  BlocksInv'
<1>1. blocks' = blocks \ loadData /\ loadData' = {} /\ ~misused'
  BY DEF releaseMemory, free, BlocksInv
<1>2. preloadData \subseteq blocks'
  BY <1>1, BlockNames DEF BlocksInv, TypeOK
<1> QED BY <1>1, <1>2, FailedLoad DEF releaseMemory

\* Every step accounts for the blocks it allocates and frees.
LEMMA BlocksStep ==
    ASSUME ClassFileAssumption, TypeOK, TypeOK', JumpInv, BlocksInv, [FileNext]_fileVars PROVE BlocksInv'
<1>1. CASE openClassFile
  <2>1. at = "open" /\ blocks = {} /\ preloadData = {} /\ loadData = {} /\ ~misused
    BY <1>1 DEF openClassFile, BlocksInv
  <2>2. CASE return("ERROR") /\ UNCHANGED <<blocks, misused, preloadData, pErrorJump>>
    BY <1>1, <2>1, <2>2 DEF BlocksInv, openClassFile, return, ReadingPool, Loading, AfterPool
  <2>3. CASE at' = "header" /\ blocks' = {File} /\ preloadData' = {File} /\ UNCHANGED misused
    BY <1>1, <2>1, <2>3, BlockNames DEF BlocksInv, openClassFile, ReadingPool, Loading, AfterPool, Known,
       PreloadBlocks, LoadBlocks
  <2> QED BY <1>1, <2>1, <2>2, <2>3 DEF openClassFile, allocate
<1>2. CASE readHeader
  <2>1. at = "header" /\ blocks = preloadData /\ loadData = {} /\ ~misused /\ preloadData \subseteq PreloadBlocks
        /\ FirstPool \notin preloadData /\ ConstantPool \notin preloadData
    BY <1>2 DEF readHeader, BlocksInv, TypeOK, Loading
  <2>2. CASE return("ERROR") /\ UNCHANGED <<blocks, misused, pErrorJump>>
    BY <1>2, <2>1, <2>2, BlockNames DEF BlocksInv, readHeader, return, ReadingPool, Loading, AfterPool, Known,
       PreloadBlocks, LoadBlocks
  <2>3. CASE at' = "entry" /\ blocks' = blocks \cup {FirstPool} /\ UNCHANGED misused
    BY <1>2, <2>1, <2>3, BlockNames DEF BlocksInv, readHeader, ReadingPool, Loading, AfterPool,
       PreloadBlocks, LoadBlocks
  <2> QED BY <1>2, <2>2, <2>3 DEF readHeader, allocate
<1>3. CASE readEntry
  <2>1. at = "entry" /\ cpIndex < ConstantCount /\ UNCHANGED <<preloadData, loadData>>
    BY <1>3 DEF readEntry
  <2>2. CASE cleanUpFirstPool(cpIndex) /\ return("ERROR")
    <3>1. blocks' = preloadData /\ ~misused'
      BY <2>1, <2>2, CleanedUp, SMT DEF ReadingPool, TypeOK
    <3> QED BY <2>1, <2>2, <3>1, FailedFirstPass DEF ReadingPool
  <2>3. CASE tags' = [tags EXCEPT ![cpIndex] = "Utf8"] /\ allocate(Utf8(cpIndex)) /\ proceed("bytes")
             /\ UNCHANGED cpIndex
    <3>1. at' = "bytes" /\ cpIndex \in Entries
      BY <2>1, <2>3, SMT DEF proceed, Entries, TypeOK, ClassFileAssumption, BlocksInv
    <3>2. tags'[cpIndex] = "Utf8" /\ \A j \in Entries : j # cpIndex => tags'[j] = tags[j]
      BY <2>3, <3>1 DEF TypeOK
    <3>3. StringsRead \subseteq StringsRead' /\ Utf8(cpIndex) \in StringsRead'
      BY <2>1, <2>3, <3>1, <3>2, SMT DEF StringsRead, TypeOK
    <3> QED BY <2>1, <2>3, <3>1, <3>3, FirstPassGoesOn DEF ReadingPool, allocate
  <2>4. CASE /\ \E tag \in {"Other", "Long"} : tags' = [tags EXCEPT ![cpIndex] = tag]
             /\ cpIndex' \in {cpIndex + 1, cpIndex + 2} /\ proceed("entry") /\ UNCHANGED <<blocks, misused>>
    <3>1. \A j \in Entries : j # cpIndex => tags'[j] = tags[j]
      BY <2>4 DEF TypeOK
    <3>2. \A j \in Entries : j <= cpIndex /\ j # cpIndex => j <= cpIndex' /\ j # cpIndex'
      BY <2>4, SMT DEF Entries, TypeOK
    <3>3. StringsRead \subseteq StringsRead'
      BY <2>1, <3>1, <3>2 DEF StringsRead
    <3> QED BY <2>1, <2>4, <3>3, FirstPassGoesOn DEF ReadingPool, proceed
  <2> QED BY <1>3, <2>2, <2>3, <2>4 DEF readEntry
<1>4. CASE readBytes
  <2>1. at = "bytes" /\ UNCHANGED <<tags, preloadData, loadData>>
    BY <1>4 DEF readBytes
  <2>2. CASE cleanUpFirstPool(cpIndex) /\ return("ERROR")
    <3>1. blocks' = preloadData /\ ~misused'
      BY <2>1, <2>2, CleanedUp, SMT DEF ReadingPool, TypeOK
    <3> QED BY <2>1, <2>2, <3>1, FailedFirstPass DEF ReadingPool
  <2>3. CASE cpIndex' = cpIndex + 1 /\ proceed("entry") /\ UNCHANGED <<blocks, misused>>
    <3>1. \A j \in Entries : j <= cpIndex => j <= cpIndex' /\ j # cpIndex'
      BY <2>3, SMT DEF Entries, TypeOK
    <3>2. StringsRead \subseteq StringsRead'
      BY <2>1, <3>1 DEF StringsRead
    <3> QED BY <2>1, <2>3, <3>2, FirstPassGoesOn DEF ReadingPool, proceed
  <2> QED BY <1>4, <2>2, <2>3 DEF readBytes
<1>5. CASE secondPass
  <2>1. at = "entry" /\ UNCHANGED <<tags, loadData>>
    BY <1>5 DEF secondPass
  <2>2. CASE cleanUpFirstPool(ConstantCount - 1) /\ return("ERROR") /\ UNCHANGED preloadData
    <3>1. blocks' = preloadData /\ ~misused'
      BY <2>1, <2>2, CleanedUp, SMT DEF ReadingPool, ClassFileAssumption
    <3> QED BY <2>1, <2>2, <3>1, FailedFirstPass DEF ReadingPool
  <2>3. CASE allocate(ConstantPool) /\ preloadData' = preloadData \cup {FirstPool, ConstantPool}
             /\ at' = "classHeader"
    <3>1. /\ loadData = {} /\ FirstPool \in blocks /\ preloadData \subseteq blocks /\ ~misused
          /\ preloadData \subseteq PreloadBlocks
          /\ blocks \subseteq preloadData \cup {FirstPool} \cup StringsRead
      BY <2>1 DEF TypeOK, BlocksInv, ReadingPool, Loading
    <3>2. StringsRead \subseteq Strings
      BY DEF StringsRead, Strings
    <3>3. Known' = preloadData' \cup Strings
      BY <2>1, <2>3 DEF Known, Strings
    <3>4. NewInterfaces \notin blocks' /\ NewClass \notin blocks'
      <4>1. \A b \in StringsRead : \E i : b = Utf8(i)
        BY DEF StringsRead
      <4> QED BY <2>3, <3>1, <4>1, BlockNames DEF LoadBlocks, PreloadBlocks, allocate
    <3> QED BY <2>1, <2>3, <3>1, <3>2, <3>3, <3>4 DEF BlocksInv, allocate, ReadingPool, Loading, AfterPool
  <2> QED BY <1>5, <2>2, <2>3 DEF secondPass
<1>6. CASE readClassHeader \/ readInterfaceIDs
  BY <1>6 DEF BlocksInv, readClassHeader, readInterfaceIDs, proceed, return, ReadingPool, Loading, AfterPool,
     Known, Strings
<1>7. CASE startLoading
  BY <1>7 DEF BlocksInv, startLoading, ReadingPool, Loading, AfterPool, Known, Strings
<1>8. CASE preloadInterfaces
  <2>1. at = "interfaceIDs" /\ loadData = {} /\ ~misused /\ preloadData \subseteq PreloadBlocks
        /\ FirstPool \in preloadData
    BY <1>8 DEF preloadInterfaces, BlocksInv, TypeOK, Loading, AfterPool
  <2>2. CASE UNCHANGED <<blocks, misused, preloadData>> /\ at' = "returned" /\ result' \in {"SUCCESS", "ERROR"}
    BY <1>8, <2>1, <2>2 DEF BlocksInv, preloadInterfaces, ReadingPool, Loading, AfterPool, Known, Strings
  <2>3. CASE at' = "interfaceEntries" /\ blocks' = blocks \cup {SuperIDs} /\ UNCHANGED misused
             /\ preloadData' = preloadData \cup {SuperIDs}
    <3>1. SuperIDs \notin {FirstPool, ConstantPool, NewInterfaces, NewClass}
      BY BlockNames DEF PreloadBlocks, LoadBlocks
    <3>2. Known' = Known \cup {SuperIDs}
      BY <1>8, <2>1, <2>3 DEF preloadInterfaces, Known, Strings
    <3> QED BY <1>8, <2>1, <2>3, <3>1, <3>2 DEF BlocksInv, preloadInterfaces, ReadingPool, Loading, AfterPool
  <2> QED BY <1>8, <2>2, <2>3 DEF preloadInterfaces, allocate, proceed, return
<1>9. CASE loadSuperClassAndInterfaces
  <2>1. at = "super" /\ UNCHANGED <<tags, preloadData>> /\ loadData = {} /\ ~misused
        /\ preloadData \subseteq blocks /\ NewInterfaces \notin blocks
    BY <1>9 DEF loadSuperClassAndInterfaces, BlocksInv
  <2>2. CASE releaseMemory("ERROR") /\ UNCHANGED pErrorJump
    BY <2>1, <2>2, Released DEF Loading
  <2>3. CASE /\ SuperIDs \in blocks /\ return("ERROR") /\ allocate(NewInterfaces)
             /\ UNCHANGED <<pErrorJump, loadData>>
    BY <2>1, <2>3, FailedLoad DEF Loading, allocate
  <2>4. CASE \E list \in {{AllInterfaces}, {NewInterfaces}, {}} :
                blocks' = blocks \cup list /\ loadData' = list /\ at' = "fields" /\ UNCHANGED misused
    BY <2>1, <2>4, LoadGoesOn DEF Loading
  <2>5. ASSUME NEW list \in {{AllInterfaces}} \cup (IF SuperIDs \in blocks THEN {{NewInterfaces}} ELSE {{}}),
               blocks' = blocks \cup list, loadData' = list, proceed("fields"), UNCHANGED misused
        PROVE  BlocksInv'
    <3>1. list \in {{AllInterfaces}, {NewInterfaces}, {}}
      BY <2>5
    <3> QED BY <2>4, <2>5, <3>1 DEF proceed
  <2> QED BY <1>9, <2>2, <2>3, <2>5 DEF loadSuperClassAndInterfaces
<1>10. CASE loadFields \/ allocateMethods
  <2>1. at \in Loading /\ UNCHANGED <<tags, preloadData>> /\ loadData \subseteq blocks
    BY <1>10 DEF loadFields, allocateMethods, Loading, BlocksInv
  <2>2. CASE releaseMemory("ERROR")
    BY <2>1, <2>2, Released
  <2>3. CASE \E b \in {Fields, Methods} :
                blocks' = blocks \cup {b} /\ loadData' = loadData \cup {b}
                  /\ at' \in Loading \ {"super"} /\ UNCHANGED misused
    BY <2>1, <2>3, LoadGoesOn
  <2> QED BY <1>10, <2>2, <2>3 DEF loadFields, allocateMethods, proceed, Loading
<1>11. CASE loadMethod
  <2>1. at \in Loading /\ UNCHANGED <<tags, preloadData>> /\ loadData \subseteq blocks
        /\ preloadData \subseteq blocks /\ ~misused
    BY <1>11 DEF loadMethod, Loading, BlocksInv
  <2>2. ParameterMap(cpIndex) \in MemberBlocks /\ Code(cpIndex) \in MemberBlocks
    BY <1>11, SMT DEF loadMethod, MemberBlocks, ClassMethods, TypeOK, ClassFileAssumption
  <2>3. CASE \E map \in SUBSET {ParameterMap(cpIndex)} :
                return("ERROR") /\ blocks' = (blocks \cup map) \ loadData /\ loadData' = {} /\ UNCHANGED misused
    <3>1. preloadData \cap loadData = {} /\ MemberBlocks \cap loadData = {}
      BY BlockNames DEF TypeOK
    <3> QED BY <2>1, <2>2, <2>3, <3>1, FailedLoad
  <2>4. CASE UNCHANGED <<blocks, misused, loadData>> /\ at' = "method"
    BY <2>1, <2>4, LoadGoesOn DEF Loading
  <2>5. CASE \E map \in SUBSET {ParameterMap(cpIndex)} :
                blocks' = blocks \cup map \cup {Code(cpIndex)} /\ at' = "code" /\ UNCHANGED <<misused, loadData>>
    BY <2>1, <2>2, <2>5, LoadGoesOn DEF Loading
  <2> QED BY <1>11, <2>3, <2>4, <2>5 DEF loadMethod, proceed
<1>12. CASE loadCode
  <2>1. at \in Loading /\ UNCHANGED <<tags, preloadData>> /\ loadData \subseteq blocks
    BY <1>12 DEF loadCode, Loading, BlocksInv
  <2>2. CASE releaseMemory("ERROR")
    BY <2>1, <2>2, Released
  <2>3. CASE UNCHANGED <<blocks, misused, loadData>> /\ at' = "method"
    BY <2>1, <2>3, LoadGoesOn DEF Loading
  <2>4. CASE allocate(Handlers(cpIndex)) /\ at' = "handlers" /\ UNCHANGED loadData
    <3>1. Handlers(cpIndex) \in MemberBlocks
      BY <1>12 DEF loadCode, MemberBlocks, TypeOK
    <3> QED BY <2>1, <2>4, <3>1, LoadGoesOn DEF allocate, Loading
  <2> QED BY <1>12, <2>2, <2>3, <2>4 DEF loadCode, proceed
<1>13. CASE loadHandlers
  <2>1. at \in Loading /\ UNCHANGED <<tags, preloadData>> /\ loadData \subseteq blocks
    BY <1>13 DEF loadHandlers, Loading, BlocksInv
  <2>2. CASE releaseMemory("ERROR")
    BY <2>1, <2>2, Released
  <2>3. CASE UNCHANGED <<blocks, misused, loadData>> /\ at' = "method"
    BY <2>1, <2>3, LoadGoesOn DEF Loading
  <2> QED BY <1>13, <2>2, <2>3 DEF loadHandlers, proceed
<1>14. CASE constructClass
  <2>1. at = "method" /\ UNCHANGED <<tags, preloadData>> /\ loadData \subseteq blocks
        /\ preloadData \subseteq blocks /\ ~misused /\ FirstPool \in preloadData /\ ConstantPool \in preloadData
        /\ blocks \subseteq Known \cup loadData \cup MemberBlocks \cup {NewInterfaces, NewClass, ConstantPool}
        /\ (NewInterfaces \in blocks => NewInterfaces \in loadData)
    BY <1>14 DEF constructClass, BlocksInv, Loading, AfterPool, ReadingPool
  <2>2. CASE releaseMemory("ERROR")
    BY <2>1, <2>2, Released DEF Loading
  <2>3. CASE return("SUCCESS") /\ blocks' = (blocks \ loadData) \cup {NewClass} /\ loadData' = {} /\ UNCHANGED misused
    <3>1. preloadData \cap loadData = {} /\ NewInterfaces # NewClass
      BY BlockNames DEF TypeOK, LoadBlocks
    <3>2. Known' = Known
      BY <2>1 DEF Known, Strings
    <3> QED BY <2>1, <2>3, <3>1, <3>2 DEF BlocksInv, return, ReadingPool, Loading, AfterPool
  <2> QED BY <1>14, <2>2, <2>3 DEF constructClass
<1>15. CASE readError
  <2>1. at \in ReadingPool \cup Preloading \cup Loading /\ UNCHANGED <<tags, preloadData>>
        /\ (at # "super" => pErrorJump = frame) /\ at # "super" /\ at \notin Ended
    BY <1>15 DEF readError, ReadingPool, Preloading, Loading, Ended, JumpInv, ReadErrorsAreCaught
  <2>2. CASE pErrorJump = "preloadClass" /\ return("ERROR") /\ UNCHANGED <<blocks, misused, loadData>>
    <3>1. at \in Preloading
      BY <2>1, <2>2 DEF JumpInv
    <3>2. Known' = Known
      BY <2>1 DEF Known, Strings
    <3> QED BY <2>1, <2>2, <3>1, <3>2 DEF BlocksInv, return, Preloading, ReadingPool, Loading, AfterPool
  <2>3. CASE pErrorJump = "preloadConstantPool" /\ cleanUpFirstPool(ConstantCount - 1) /\ return("ERROR")
             /\ UNCHANGED loadData
    <3>1. at \in ReadingPool
      BY <2>1, <2>3 DEF JumpInv
    <3>2. blocks' = preloadData /\ ~misused'
      <4>1. ConstantCount - 1 \in Int
        BY SMT DEF ClassFileAssumption
      <4> QED BY <2>3, <3>1, <4>1, CleanedUp
    <3> QED BY <2>1, <2>3, <3>1, <3>2, FailedFirstPass
  <2>4. CASE pErrorJump = "readInClassData" /\ releaseMemory("ERROR")
    <3>1. at \in Loading
      BY <2>1, <2>4 DEF JumpInv
    <3> QED BY <2>1, <2>4, <3>1, Released
  <2> QED BY <1>15, <2>2, <2>3, <2>4 DEF readError
<1>16. CASE releaseIterativeLoadStructure
  <2>1. /\ at = "returned" /\ at' = "released" /\ preloadData' = {} /\ UNCHANGED <<tags, loadData, result>>
        /\ loadData = {} /\ preloadData \subseteq blocks /\ ~misused
        /\ FirstPool \in preloadData <=> ConstantPool \in preloadData
        /\ result = "SUCCESS" => FirstPool \in preloadData /\ NewClass \in blocks
        /\ result \in {"SUCCESS", "ERROR"}
        /\ NewClass \in blocks => result = "SUCCESS"
        /\ ConstantPool \in blocks => ConstantPool \in preloadData
        /\ NewInterfaces \in blocks => result = "ERROR"
        /\ blocks \subseteq Known \cup MemberBlocks \cup {NewInterfaces, NewClass, ConstantPool}
    BY <1>16 DEF releaseIterativeLoadStructure, BlocksInv, Loading, AfterPool, ReadingPool
  <2> DEFINE kept == IF result = "SUCCESS" THEN {ConstantPool} ELSE {}
             strings == IF FirstPool \in preloadData THEN stringsOf(Entries) ELSE {}
  <2>2. blocks' = blocks \ ((preloadData \ kept) \cup strings)
        /\ misused' = (misused \/ ~((preloadData \ kept) \cup strings \subseteq blocks))
    BY <1>16 DEF releaseIterativeLoadStructure, free
  <2>3. strings \subseteq blocks
    BY DEF stringsOf
  <2>4. blocks \cap Known = preloadData \cup strings
    <3>1. blocks \cap Strings = stringsOf(Entries)
      BY DEF Strings, stringsOf
    <3> QED BY <2>1, <3>1 DEF Known
  <2>5. ~misused'
    BY <2>1, <2>2, <2>3
  <2>6. {NewClass, ConstantPool} \cap strings = {} /\ NewClass \notin preloadData
    BY BlockNames DEF stringsOf, TypeOK, PreloadBlocks
  <2>7. blocks' \subseteq MemberBlocks \cup {NewInterfaces, NewClass, ConstantPool}
    BY <2>1, <2>2, <2>4
  <2>8. result = "SUCCESS" => {NewClass, ConstantPool} \subseteq blocks'
    BY <2>1, <2>2, <2>6
  <2>9. result = "ERROR" => ConstantPool \notin blocks'
    BY <2>1, <2>2
  <2> HIDE DEF kept, strings
  <2> QED BY <2>1, <2>2, <2>5, <2>7, <2>8, <2>9 DEF BlocksInv, Loading, AfterPool, ReadingPool
<1>17. CASE UNCHANGED fileVars
  BY <1>17 DEF fileVars, BlocksInv, StringsRead, Known, Strings
<1> QED BY <1>1, <1>2, <1>3, <1>4, <1>5, <1>6, <1>7, <1>8, <1>9, <1>10, <1>11, <1>12, <1>13,
           <1>14, <1>15, <1>16, <1>17 DEF FileNext

-----------------------------------------------------------------------------

FileInv == TypeOK /\ JumpInv /\ BlocksInv

\* At every read, allocation and check of a class file's loading the blocks held are those
\* its stage accounts for, and an error jumps to a function that is running.
THEOREM FileInvariance == ASSUME ClassFileAssumption PROVE FileSpec => []FileInv
<1>1. FileInit => FileInv
  BY DEF FileInit, FileInv, TypeOK, JumpInv, ReadErrorsAreCaught, BlocksInv, Ended, Loading, Preloading,
         ReadingPool, AfterPool, Known
<1>2. FileInv /\ [FileNext]_fileVars => FileInv'
  BY TypeStep, JumpStep, BlocksStep DEF FileInv
<1> QED BY <1>1, <1>2, PTL DEF FileSpec

\* At every place where the end of the file can be met, the error jump leads
\* to the function that is running (fileAccess.c), for a constant pool and a
\* class of any size.
THEOREM EndOfFileIsCaught == ASSUME ClassFileAssumption PROVE FileSpec => []ReadErrorsAreCaught
<1>1. FileInv => ReadErrorsAreCaught
  BY DEF FileInv, JumpInv
<1> QED BY <1>1, FileInvariance, PTL

\* No block is freed twice, a class that is constructed keeps itself, its
\* constant pool and the parts of its methods, and a load that fails leaves
\* nothing but parts of methods and a list of interfaces.
THEOREM NoBlockIsForgotten == ASSUME ClassFileAssumption PROVE FileSpec => []MemoryIsAccountedFor
<1>1. FileInv => MemoryIsAccountedFor
  <2> SUFFICES ASSUME FileInv PROVE MemoryIsAccountedFor
    OBVIOUS
  <2>1. ~misused
    BY DEF FileInv, BlocksInv
  <2>2. ASSUME at = "released" PROVE IF result = "SUCCESS" THEN blocks \ MemberBlocks = {NewClass, ConstantPool}
                                     ELSE blocks \subseteq MemberBlocks \cup {NewInterfaces}
    <3>1. /\ blocks \subseteq MemberBlocks \cup {NewInterfaces, NewClass, ConstantPool}
          /\ FirstPool \notin preloadData /\ preloadData = {} /\ loadData = {}
          /\ result \in {"SUCCESS", "ERROR"}
      BY <2>2 DEF FileInv, BlocksInv, ReadingPool, Loading, Known
    <3>2. result = "SUCCESS" => {NewClass, ConstantPool} \subseteq blocks /\ NewInterfaces \notin blocks
      BY <2>2, <3>1 DEF FileInv, BlocksInv
    <3>3. result = "ERROR" => NewClass \notin blocks /\ ConstantPool \notin blocks
      BY <2>2, <3>1 DEF FileInv, BlocksInv, ReadingPool
    <3>4. NewClass \notin MemberBlocks /\ ConstantPool \notin MemberBlocks
      BY BlockNames DEF PreloadBlocks
    <3> QED BY <3>1, <3>2, <3>3, <3>4
  <2> QED BY <2>1, <2>2 DEF MemoryIsAccountedFor
<1> QED BY <1>1, FileInvariance, PTL

----------------------------------------------------------------------------
\* The rewriting of the instructions of a method while threads execute them.

\* The kinds of which a quick form, once there, keeps its operands.
Steady == DOMAIN Forms \ {"math"}

Step(t) ==
    \/ Fetch(t) \/ InstructionRead(t) \/ Resolve(t) \/ ClinitReturns(t)
    \/ ReadOperand(t) \/ Quicken(t) \/ NativeQuickens(t) \/ Use(t) \/ Again(t)

FormNames == {"slow", "quick", "field_0", "native", "math"}
InstructionCode == [kind : Kinds, opcode : FormNames, operands : [1 .. 4 -> FormNames \X (1 .. 4)]]

InstructionTypeOK ==
    /\ code \in InstructionCode
    /\ class \in {"uninitialized", "initialized"} \cup Threads
    /\ pc \in [Threads -> {"fetch", "read", "resolve", "operands", "quicken", "native", "use", "done"}]
    /\ instruction \in [Threads -> FormNames \cup {"none"}]
    /\ opsArray \in [Threads -> Seq(FormNames \X (1 .. 4))]

\* What a thread has dispatched on is a form of this instruction.
Dispatched(t) ==
    /\ pc[t] \notin {"fetch", "done"} => instruction[t] \in DOMAIN Forms[code.kind]
    /\ pc[t] \in {"read", "resolve", "native"} => instruction[t] = "slow"
    /\ pc[t] = "operands" => instruction[t] # "slow"
    /\ pc[t] = "quicken" => Of(instruction[t]).to # "none"
    /\ pc[t] = "native" => code.kind = "value"
DispatchInv ==
    /\ code.opcode \in DOMAIN Forms[code.kind]
    /\ \A t \in Threads : Dispatched(t)

\* A thread that is past the slow form's own check of the class, or was never
\* in it, finds the initialisation begun.
StartedInv ==
    /\ QuickMeansStarted
    /\ \A t \in Threads : pc[t] \in {"operands", "quicken", "native", "use"} /\ code.kind \in Static
                          => class # "uninitialized"

\* The first n operands of a form, and whether the bytes hold all it reads.
OperandsOf(form, n) == [i \in 1 .. n |-> Operand(form, i)]
CodeHolds(form) == \A i \in 1 .. Of(form).reads : code.operands[i] = Operand(form, i)

\* The bytes a thread has still to read are those of the form it dispatched
\* on, whoever has rewritten them.
FormInv(t) ==
    /\ pc[t] = "operands" =>
          /\ CodeHolds(instruction[t])
          /\ \E n \in 0 .. Of(instruction[t]).reads : opsArray[t] = OperandsOf(instruction[t], n)
    /\ pc[t] \in {"resolve", "quicken", "native", "use"} =>
          opsArray[t] = OperandsOf(instruction[t], Of(instruction[t]).reads)
OperandsInv ==
    /\ CodeHolds(code.opcode)
    /\ \A t \in Threads : FormInv(t)

\* What the table says of a form: where it leads, and that what it writes are
\* the operands the next form reads.
LEMMA FormFacts ==
    ASSUME NEW k \in DOMAIN Forms
    PROVE  /\ "slow" \in DOMAIN Forms[k] /\ DOMAIN Forms[k] \subseteq FormNames
           /\ \A f \in DOMAIN Forms[k] :
                 /\ Forms[k][f].reads \in 0 .. 4 /\ Forms[k][f].writes \in 0 .. 4
                 /\ Forms[k][f].to # "none" =>
                       Forms[k][f].to \in DOMAIN Forms[k] /\ Forms[k][f].to # "slow"
                 /\ f = "slow" => Forms[k][f].to # "none"
                 /\ Forms[k][f].then = "value" => k = "value" /\ f = "slow"
BY SMT DEF Forms, Form, Last, FormNames

\* A steady form leads to one that reads what it writes with it; one that is
\* already quick leads only to one without operands, and writes none.
LEMMA SteadyForms ==
    ASSUME NEW k \in Steady, NEW f \in DOMAIN Forms[k], Forms[k][f].to # "none"
    PROVE  /\ Forms[k][Forms[k][f].to].reads <= Forms[k][f].writes
           /\ f # "slow" => Forms[k][f].writes = 0
           /\ \A g \in DOMAIN Forms[k] \ {"slow"} :
                 g # Forms[k][f].to => Forms[k][g].reads = 0 \/ Forms[k][f].writes = 0
BY SMT DEF Steady, Forms, Form, Last

\* One operand more, behind those that were read.
LEMMA OneMoreOperand ==
    ASSUME NEW form, NEW n \in Nat
    PROVE  /\ Len(OperandsOf(form, n)) = n
           /\ Append(OperandsOf(form, n), Operand(form, n + 1)) = OperandsOf(form, n + 1)
<1> DEFINE S == {Operand(form, i) : i \in Nat}
<1>1. \A m \in Nat : OperandsOf(form, m) \in Seq(S) /\ Len(OperandsOf(form, m)) = m
  <2> TAKE m \in Nat
  <2>1. \A i \in 1 .. m : Operand(form, i) \in S
    BY SMT
  <2> HIDE DEF S
  <2> QED BY <2>1, IsASeq DEF OperandsOf
<1>2. Operand(form, n + 1) \in S
  BY SMT
<1> HIDE DEF S
<1>3. LET a == Append(OperandsOf(form, n), Operand(form, n + 1))
      IN  a \in Seq(S) /\ Len(a) = n + 1
            /\ \A i \in 1 .. n : a[i] = OperandsOf(form, n)[i]
            /\ a[n + 1] = Operand(form, n + 1)
  BY <1>1, <1>2, SMT
<1>4. \A m \in Nat : \A i \in 1 .. m : OperandsOf(form, m)[i] = Operand(form, i)
  BY DEF OperandsOf
<1>5. \A i \in 1 .. n + 1 : Append(OperandsOf(form, n), Operand(form, n + 1))[i] = OperandsOf(form, n + 1)[i]
  BY <1>3, <1>4, SMT
<1> QED BY <1>1, <1>3, <1>5, SeqEqual, SMT

-----------------------------------------------------------------------------

\* Rewriting is of the opcode and of the operands.
LEMMA OpcodeAndOperands ==
    ASSUME NEW c, NEW k, NEW o, NEW p, NEW o2, NEW p2, c = [kind |-> k, opcode |-> o, operands |-> p]
    PROVE  [c EXCEPT !.opcode = o2, !.operands = p2] = [kind |-> k, opcode |-> o2, operands |-> p2]
<1>1. [c EXCEPT !.opcode = o2, !.operands = p2] = [[c EXCEPT !.opcode = o2] EXCEPT !.operands = p2]
  BY Zenon
<1>2. [c EXCEPT !.opcode = o2] = [kind |-> k, opcode |-> o2, operands |-> p]
  BY SMT
<1>3. [[kind |-> k, opcode |-> o2, operands |-> p] EXCEPT !.operands = p2]
        = [kind |-> k, opcode |-> o2, operands |-> p2]
  BY SMT
<1> QED BY <1>1, <1>2, <1>3, Zenon

\* What rewriting does to the bytes.
LEMMA RewrittenCode ==
    ASSUME QuickeningAssumption, InstructionTypeOK, NEW f \in DOMAIN Forms[code.kind],
           Of(f).to # "none"
    PROVE  /\ Rewritten(Of(f)) \in InstructionCode
           /\ Rewritten(Of(f)).kind = code.kind /\ Rewritten(Of(f)).opcode = Of(f).to
           /\ \A i \in 1 .. 4 : Rewritten(Of(f)).operands[i] =
                 IF i <= Of(f).writes THEN Operand(Of(f).to, i) ELSE code.operands[i]
<1>1. code.kind \in DOMAIN Forms
  BY DEF QuickeningAssumption, InstructionTypeOK, InstructionCode
<1>2. Of(f).to \in DOMAIN Forms[code.kind]
  BY <1>1, FormFacts DEF Of
<1>3. Of(f).to \in FormNames
  BY <1>1, <1>2, FormFacts
<1>4. \A i \in 1 .. 4 : Operand(Of(f).to, i) \in FormNames \X (1 .. 4)
  BY <1>3 DEF Operand
<1>5. \A i \in 1 .. 4 : code.operands[i] \in FormNames \X (1 .. 4)
  BY DEF InstructionTypeOK, InstructionCode
<1> DEFINE ops == [i \in 1 .. 4 |-> IF i <= Of(f).writes THEN Operand(Of(f).to, i) ELSE code.operands[i]]
<1>6. ops \in [1 .. 4 -> FormNames \X (1 .. 4)]
  BY <1>4, <1>5
<1>7. code = [kind |-> code.kind, opcode |-> code.opcode, operands |-> code.operands]
  BY DEF InstructionTypeOK, InstructionCode
<1>8. code.kind \in Kinds /\ code.operands \in [1 .. 4 -> FormNames \X (1 .. 4)]
  BY DEF InstructionTypeOK, InstructionCode
<1>10. Rewritten(Of(f)) = [kind |-> code.kind, opcode |-> Of(f).to, operands |-> ops]
  <2>2. Rewritten(Of(f)) = [code EXCEPT !.opcode = Of(f).to, !.operands = ops]
    BY DEF Rewritten
  <2> HIDE DEF ops
  <2> QED BY <1>7, <2>2, OpcodeAndOperands
<1>9. Rewritten(Of(f)) \in InstructionCode
  <2> HIDE DEF ops
  <2> QED BY <1>3, <1>6, <1>8, <1>10 DEF InstructionCode
<1> QED BY <1>9, <1>10

\* What every step keeps: the kind of the instruction, and what the other
\* threads are about to do.
LEMMA StepOfOne ==
    ASSUME QuickeningAssumption, InstructionTypeOK, DispatchInv, NEW t \in Threads, Step(t)
    PROVE  /\ code' \in InstructionCode /\ code'.kind = code.kind
           /\ code'.opcode \in DOMAIN Forms[code.kind]
           /\ pc' = [pc EXCEPT ![t] = pc'[t]]
           /\ instruction' = [instruction EXCEPT ![t] = instruction'[t]]
           /\ opsArray' = [opsArray EXCEPT ![t] = opsArray'[t]]
<1>1. code \in InstructionCode /\ code.opcode \in DOMAIN Forms[code.kind]
  BY DEF InstructionTypeOK, DispatchInv
<1>2. code.kind \in DOMAIN Forms
  BY <1>1 DEF QuickeningAssumption, InstructionCode
<1>3. CASE Quicken(t)
  <2>1. instruction[t] \in DOMAIN Forms[code.kind] /\ Of(instruction[t]).to # "none"
    BY <1>3 DEF DispatchInv, Dispatched, Quicken
  <2>2. Of(instruction[t]).to \in DOMAIN Forms[code.kind]
    BY <1>2, <2>1, FormFacts DEF Of
  <2>3. code' = code \/ code' = Rewritten(Of(instruction[t]))
    BY <1>3 DEF Quicken
  <2>4. code' \in InstructionCode /\ code'.kind = code.kind /\ code'.opcode \in DOMAIN Forms[code.kind]
    BY <1>1, <2>1, <2>2, <2>3, RewrittenCode
  <2> QED BY <1>3, <2>4 DEF InstructionTypeOK, Quicken
<1>4. CASE NativeQuickens(t)
  <2>1. code.kind = "value"
    BY <1>4 DEF DispatchInv, Dispatched, NativeQuickens
  <2>2. "quick" \in DOMAIN Forms[code.kind] /\ Of("quick").to # "none"
    BY <2>1 DEF Of, Forms, Form, Last
  <2>3. Of("quick").to \in DOMAIN Forms[code.kind]
    BY <1>2, <2>2, FormFacts DEF Of
  <2> QED BY <1>4, <2>2, <2>3, RewrittenCode DEF InstructionTypeOK, NativeQuickens
<1>5. ASSUME UNCHANGED code PROVE code' \in InstructionCode /\ code'.kind = code.kind
                                  /\ code'.opcode \in DOMAIN Forms[code.kind]
  BY <1>1, <1>5
<1>6. CASE Fetch(t)
  BY <1>5, <1>6 DEF InstructionTypeOK, Fetch
<1>7. CASE InstructionRead(t)
  BY <1>5, <1>7 DEF InstructionTypeOK, InstructionRead
<1>8. CASE Resolve(t) \/ ClinitReturns(t)
  BY <1>5, <1>8 DEF InstructionTypeOK, Resolve, ClinitReturns
<1>9. CASE ReadOperand(t)
  BY <1>5, <1>9 DEF InstructionTypeOK, ReadOperand
<1>10. CASE Use(t) \/ Again(t)
  BY <1>5, <1>10 DEF InstructionTypeOK, Use, Again
<1> QED BY <1>3, <1>4, <1>6, <1>7, <1>8, <1>9, <1>10 DEF Step

\* A thread that goes elsewhere leaves the others where they are.
LEMMA OthersStay ==
    ASSUME InstructionTypeOK, DispatchInv, NEW t \in Threads, NEW u \in Threads, u # t,
           code'.kind = code.kind,
           pc' = [pc EXCEPT ![t] = pc'[t]],
           instruction' = [instruction EXCEPT ![t] = instruction'[t]]
    PROVE  Dispatched(u)'
<1>1. pc'[u] = pc[u] /\ instruction'[u] = instruction[u]
  BY DEF InstructionTypeOK
<1> QED BY <1>1 DEF DispatchInv, Dispatched, Of

\* However threads read, execute and rewrite an instruction, its code is a form with its
\* operands and each handler runs on an instruction it was dispatched on.
THEOREM TypeCorrect ==
    ASSUME QuickeningAssumption PROVE Spec => [](InstructionTypeOK /\ DispatchInv)
<1>1. Init => InstructionTypeOK /\ DispatchInv
  <2> SUFFICES ASSUME Init PROVE InstructionTypeOK /\ DispatchInv
    OBVIOUS
  <2>1. <<>> \in Seq(FormNames \X (1 .. 4))
    BY SMT
  <2>2. \A i \in 1 .. 4 : Operand("slow", i) \in FormNames \X (1 .. 4)
    BY DEF Operand, FormNames
  <2>3. code \in InstructionCode /\ code.opcode = "slow"
    BY <2>2 DEF Init, InstructionCode, FormNames
  <2>4. InstructionTypeOK
    BY <2>1, <2>3 DEF Init, InstructionTypeOK
  <2>5. code.kind \in DOMAIN Forms
    BY <2>3 DEF InstructionCode, QuickeningAssumption
  <2> QED BY <2>3, <2>4, <2>5, FormFacts DEF Init, DispatchInv, Dispatched
<1>2. InstructionTypeOK /\ DispatchInv /\ [Next]_vars => (InstructionTypeOK /\ DispatchInv)'
  <2> SUFFICES ASSUME InstructionTypeOK, DispatchInv, [Next]_vars PROVE (InstructionTypeOK /\ DispatchInv)'
    OBVIOUS
  <2>1. CASE UNCHANGED vars
    BY <2>1 DEF vars, InstructionTypeOK, DispatchInv, Dispatched, Of
  <2>2. ASSUME NEW t \in Threads, Step(t)
        PROVE  (InstructionTypeOK /\ DispatchInv)'
    <3>1. code.kind \in DOMAIN Forms
      BY DEF InstructionTypeOK, InstructionCode, QuickeningAssumption
    <3>2. code.opcode \in DOMAIN Forms[code.kind] /\ code.opcode \in FormNames
      BY DEF InstructionTypeOK, InstructionCode, DispatchInv
    <3>3. \A f \in DOMAIN Forms[code.kind] : Of(f).reads \in 0 .. 4
      BY <3>1, FormFacts DEF Of
    <3>4. opsArray'[t] \in Seq(FormNames \X (1 .. 4))
      <4>1. CASE Fetch(t)
        <5>1. <<>> \in Seq(FormNames \X (1 .. 4))
          BY SMT
        <5> QED BY <4>1, <5>1 DEF InstructionTypeOK, Fetch
      <4>2. CASE InstructionRead(t)
        <5>1. Of("slow").reads \in 0 .. 4
          BY <3>1, <3>3, FormFacts
        <5>2. code.operands \in [1 .. 4 -> FormNames \X (1 .. 4)]
          BY DEF InstructionTypeOK, InstructionCode
        <5>3. SubSeq(code.operands, 1, Of("slow").reads) \in Seq(FormNames \X (1 .. 4))
          BY <5>1, <5>2, SMT
        <5> QED BY <4>2, <5>3 DEF InstructionTypeOK, InstructionRead
      <4>3. CASE ReadOperand(t)
        <5> DEFINE n == Len(opsArray[t])
        <5>1. opsArray[t] \in Seq(FormNames \X (1 .. 4)) /\ n \in Nat
          BY LenProperties DEF InstructionTypeOK
        <5>2. CASE n < Of(instruction[t]).reads
          <6>1. n + 1 \in 1 .. 4
            <7>1. Of(instruction[t]).reads \in 0 .. 4
              BY <3>3, <4>3 DEF DispatchInv, Dispatched, ReadOperand
            <7> QED BY <5>1, <5>2, <7>1, SMT
          <6>2. code.operands[n + 1] \in FormNames \X (1 .. 4)
            BY <6>1 DEF InstructionTypeOK, InstructionCode
          <6>3. Append(opsArray[t], code.operands[n + 1]) \in Seq(FormNames \X (1 .. 4))
            BY <5>1, <6>2, AppendProperties
          <6> QED BY <4>3, <5>2, <6>3 DEF InstructionTypeOK, ReadOperand
        <5>3. CASE ~(n < Of(instruction[t]).reads)
          BY <4>3, <5>3 DEF InstructionTypeOK, ReadOperand
        <5> QED BY <5>2, <5>3
      <4> QED BY <2>2, <4>1, <4>2, <4>3 DEF Step, InstructionTypeOK, Resolve, ClinitReturns, Quicken, NativeQuickens, Use, Again
    <3>5. InstructionTypeOK'
      <4>1. instruction'[t] \in FormNames \cup {"none"}
        BY <2>2, <3>2 DEF Step, InstructionTypeOK, Fetch, InstructionRead, Resolve, ClinitReturns, ReadOperand,
                          Quicken, NativeQuickens, Use, Again
      <4>2. pc'[t] \in {"fetch", "read", "resolve", "operands", "quicken", "native", "use", "done"}
        BY <2>2 DEF Step, InstructionTypeOK, Fetch, InstructionRead, Resolve, ClinitReturns, ReadOperand,
                    Quicken, NativeQuickens, Use, Again
      <4>3. class' \in {"uninitialized", "initialized"} \cup Threads
        BY <2>2 DEF Step, InstructionTypeOK, Fetch, InstructionRead, Resolve, ClinitReturns, ReadOperand,
                    Quicken, NativeQuickens, Use, Again
      <4> QED BY <2>2, <3>4, <4>1, <4>2, <4>3, StepOfOne DEF InstructionTypeOK
    <3>6. Dispatched(t)'
      <4>1. code'.kind = code.kind /\ Dispatched(t)
        BY <2>2, StepOfOne DEF DispatchInv
      <4>2. CASE Fetch(t)
        BY <3>2, <4>1, <4>2 DEF InstructionTypeOK, Fetch, Dispatched, Of
      <4>3. CASE InstructionRead(t)
        BY <4>1, <4>3 DEF InstructionTypeOK, InstructionRead, Dispatched, Of
      <4>4. CASE Resolve(t)
        BY <3>1, <4>1, <4>4, FormFacts DEF InstructionTypeOK, Resolve, Dispatched, Of
      <4>5. CASE ClinitReturns(t)
        BY <4>1, <4>5 DEF InstructionTypeOK, ClinitReturns, Dispatched, Of
      <4>6. CASE ReadOperand(t)
        BY <4>1, <4>6 DEF InstructionTypeOK, ReadOperand, Dispatched, Of
      <4>7. CASE Quicken(t)
        BY <3>1, <4>1, <4>7, FormFacts DEF InstructionTypeOK, Quicken, Dispatched, Of
      <4>8. CASE NativeQuickens(t) \/ Use(t) \/ Again(t)
        BY <4>1, <4>8 DEF InstructionTypeOK, NativeQuickens, Use, Again, Dispatched, Of
      <4> QED BY <2>2, <4>2, <4>3, <4>4, <4>5, <4>6, <4>7, <4>8 DEF Step
    <3>7. DispatchInv'
      <4>1. code'.opcode \in DOMAIN Forms[code'.kind]
        BY <2>2, StepOfOne
      <4>2. ASSUME NEW u \in Threads PROVE Dispatched(u)'
        BY <2>2, <3>6, StepOfOne, OthersStay
      <4> QED BY <4>1, <4>2 DEF DispatchInv
    <3> QED BY <3>5, <3>7
  <2> QED BY <2>1, <2>2 DEF Next, Step
<1> QED BY <1>1, <1>2, PTL DEF Spec

-----------------------------------------------------------------------------

\* A quick form is met, and the statics of a class are used, only once the
\* initialisation of the class has begun (checkForQuickening, and the check of
\* the class that only the slow forms make).
THEOREM QuickMeansInitialisationBegun ==
    ASSUME QuickeningAssumption PROVE Spec => []QuickMeansStarted
<1>1. Init => StartedInv
  BY DEF Init, StartedInv, QuickMeansStarted
<1>2. InstructionTypeOK /\ DispatchInv /\ StartedInv /\ [Next]_vars => StartedInv'
  <2> SUFFICES ASSUME InstructionTypeOK, DispatchInv, StartedInv, [Next]_vars PROVE StartedInv'
    OBVIOUS
  <2>1. CASE UNCHANGED vars
    BY <2>1 DEF vars, StartedInv, QuickMeansStarted
  <2>2. ASSUME NEW t \in Threads, Step(t)
        PROVE  StartedInv'
    <3>1. class # "uninitialized" => class' # "uninitialized"
      BY <2>2 DEF Step, QuickeningAssumption, Fetch, InstructionRead, Resolve, ClinitReturns, ReadOperand,
                  Quicken, NativeQuickens, Use, Again
    <3>2. code' # code => pc[t] \in {"quicken", "native"}
      BY <2>2 DEF Step, Fetch, InstructionRead, Resolve, ClinitReturns, ReadOperand,
                  Quicken, NativeQuickens, Use, Again
    <3>3. code'.kind = code.kind /\ pc' = [pc EXCEPT ![t] = pc'[t]]
      BY <2>2, StepOfOne
    <3>4. code'.kind \in Static /\ code'.opcode # "slow" => class' # "uninitialized"
      BY <3>1, <3>2, <3>3 DEF StartedInv, QuickMeansStarted
    <3>5. ASSUME NEW u \in used' PROVE u[2] # "uninitialized"
      BY <2>2, <3>5 DEF Step, StartedInv, QuickMeansStarted, Fetch, InstructionRead, Resolve,
         ClinitReturns, ReadOperand, Quicken, NativeQuickens, Use, Again
    <3>6. pc'[t] \in {"operands", "quicken", "native", "use"} /\ code.kind \in Static
            => class' # "uninitialized"
      <4>1. CASE Resolve(t)
        BY <4>1 DEF QuickeningAssumption, Resolve, classIsInitialized, InstructionTypeOK
      <4>2. CASE Fetch(t)
        BY <4>2 DEF Fetch, StartedInv, QuickMeansStarted, InstructionTypeOK
      <4> QED BY <2>2, <3>1, <4>1, <4>2 DEF Step, StartedInv, InstructionTypeOK, InstructionRead, ClinitReturns,
                 ReadOperand, Quicken, NativeQuickens, Use, Again
    <3>7. ASSUME NEW u \in Threads, pc'[u] \in {"operands", "quicken", "native", "use"},
                 code'.kind \in Static
          PROVE  class' # "uninitialized"
      BY <3>1, <3>3, <3>6, <3>7 DEF StartedInv, InstructionTypeOK
    <3> QED BY <3>4, <3>5, <3>7 DEF StartedInv, QuickMeansStarted
  <2> QED BY <2>1, <2>2 DEF Next, Step
<1>3. StartedInv => QuickMeansStarted
  BY DEF StartedInv
<1> QED BY <1>1, <1>2, <1>3, TypeCorrect, PTL DEF Spec

-----------------------------------------------------------------------------

\* Rewriting a steady form leaves each quick form its operands, and the new
\* one has those it reads.
LEMMA RewrittenHolds ==
    ASSUME QuickeningAssumption, InstructionTypeOK, DispatchInv, code.kind \in Steady,
           NEW f \in DOMAIN Forms[code.kind], Of(f).to # "none", code' = Rewritten(Of(f))
    PROVE  /\ CodeHolds(code.opcode)'
           /\ \A g \in DOMAIN Forms[code.kind] \ {"slow"} : CodeHolds(g) => CodeHolds(g)'
<1>1. /\ code' \in InstructionCode /\ code'.kind = code.kind /\ code'.opcode = Of(f).to
      /\ \A i \in 1 .. 4 : code'.operands[i] =
            IF i <= Of(f).writes THEN Operand(Of(f).to, i) ELSE code.operands[i]
  BY RewrittenCode
<1>2. code.kind \in DOMAIN Forms
  BY DEF Steady
<1>3. /\ Of(f).to \in DOMAIN Forms[code.kind]
      /\ Of(f).reads \in 0 .. 4 /\ Of(f).writes \in 0 .. 4
      /\ \A g \in DOMAIN Forms[code.kind] : Of(g).reads \in 0 .. 4
  BY <1>2, FormFacts DEF Of
<1>4. /\ Of(Of(f).to).reads <= Of(f).writes
      /\ \A g \in DOMAIN Forms[code.kind] \ {"slow"} :
            g # Of(f).to => Of(g).reads = 0 \/ Of(f).writes = 0
  BY SteadyForms DEF Of
<1>5. \A g : Of(g)' = Of(g)
  BY <1>1 DEF Of
<1>6. \A i \in 1 .. Of(Of(f).to).reads : code'.operands[i] = Operand(Of(f).to, i)
  <2> TAKE i \in 1 .. Of(Of(f).to).reads
  <2>1. i \in 1 .. 4 /\ i <= Of(f).writes
    BY <1>3, <1>4, SMT
  <2> QED BY <1>1, <2>1
<1>7. ASSUME NEW g \in DOMAIN Forms[code.kind] \ {"slow"}, CodeHolds(g),
             NEW i \in 1 .. Of(g).reads
      PROVE  code'.operands[i] = Operand(g, i)
  <2>1. i \in 1 .. 4 /\ code.operands[i] = Operand(g, i)
    BY <1>3, <1>7, SMT DEF CodeHolds
  <2>2. CASE g = Of(f).to
    BY <1>6, <1>7, <2>2
  <2>3. CASE g # Of(f).to
    <3>1. ~(i <= Of(f).writes)
      BY <1>3, <1>4, <1>7, <2>3, SMT
    <3> QED BY <1>1, <2>1, <3>1
  <2> QED BY <2>2, <2>3
<1> QED BY <1>1, <1>5, <1>6, <1>7 DEF CodeHolds

\* What a thread has read is a step closer to what its form reads, or is
\* already all of it.
LEMMA OwnOperands ==
    ASSUME QuickeningAssumption, InstructionTypeOK, DispatchInv, OperandsInv, code.kind \in Steady,
           NEW t \in Threads, Step(t)
    PROVE  FormInv(t)'
<1> USE DEF InstructionTypeOK
<1>1. FormInv(t) /\ CodeHolds(code.opcode) /\ Dispatched(t)
  BY DEF OperandsInv, DispatchInv
<1>2. code.kind \in DOMAIN Forms
  BY DEF Steady
<1>3. \A f \in DOMAIN Forms[code.kind] : Of(f).reads \in 0 .. 4
  BY <1>2, FormFacts DEF Of
<1>4. \A f : Of(f)' = Of(f)
  BY StepOfOne DEF Of
<1>5. CASE Fetch(t)
  <2>1. pc'[t] \in {"read", "operands"} /\ instruction'[t] = code.opcode /\ opsArray'[t] = <<>>
        /\ UNCHANGED code
    BY <1>5 DEF Fetch
  <2>2. <<>> = OperandsOf(code.opcode, 0)
    BY SMT DEF OperandsOf
  <2>3. 0 \in 0 .. Of(code.opcode).reads
    <3>1. Of(code.opcode).reads \in 0 .. 4
      BY <1>3 DEF DispatchInv
    <3> QED BY <3>1, SMT
  <2> QED BY <1>1, <1>4, <2>1, <2>2, <2>3 DEF FormInv, CodeHolds
<1>6. CASE InstructionRead(t)
  <2>1. CASE instruction[t] = code.opcode
    <3>1. code.opcode = "slow" /\ "slow" \in DOMAIN Forms[code.kind]
      BY <1>1, <1>6, <2>1 DEF InstructionRead, Dispatched
    <3>2. Of("slow").reads \in 0 .. 4
      BY <1>3, <3>1
    <3>3. SubSeq(code.operands, 1, Of("slow").reads) = OperandsOf("slow", Of("slow").reads)
      <4>1. \A i \in 1 .. Of("slow").reads : code.operands[i] = Operand("slow", i)
        BY <1>1, <3>1 DEF CodeHolds
      <4>2. code.operands \in [1 .. 4 -> FormNames \X (1 .. 4)]
        BY DEF InstructionCode
      <4>3. SubSeq(code.operands, 1, Of("slow").reads) = [i \in 1 .. Of("slow").reads |-> code.operands[i]]
        BY <3>2, <4>2, SMT
      <4> QED BY <4>1, <4>3 DEF OperandsOf
    <3> QED BY <1>1, <1>4, <1>6, <2>1, <3>1, <3>3 DEF InstructionRead, checkForQuickening, FormInv, Dispatched
  <2>2. CASE instruction[t] # code.opcode
    BY <1>6, <2>2 DEF InstructionRead, checkForQuickening, FormInv
  <2> QED BY <2>1, <2>2
<1>7. CASE Resolve(t)
  BY <1>1, <1>4, <1>7 DEF Resolve, FormInv
<1>8. CASE ReadOperand(t)
  <2>1. PICK n \in 0 .. Of(instruction[t]).reads : opsArray[t] = OperandsOf(instruction[t], n)
    BY <1>1, <1>8 DEF FormInv, ReadOperand
  <2>2. Of(instruction[t]).reads \in 0 .. 4 /\ n \in Nat
    BY <1>1, <1>3, <1>8, <2>1, SMT DEF Dispatched, ReadOperand
  <2>3. Len(opsArray[t]) = n
    BY <2>1, <2>2, OneMoreOperand
  <2>4. CASE n < Of(instruction[t]).reads
    <3>1. n + 1 \in 1 .. Of(instruction[t]).reads /\ n + 1 \in 0 .. Of(instruction[t]).reads
      BY <2>2, <2>4, SMT
    <3>2. code.operands[n + 1] = Operand(instruction[t], n + 1)
      BY <1>1, <1>8, <3>1 DEF FormInv, CodeHolds, ReadOperand
    <3>3. opsArray'[t] = OperandsOf(instruction[t], n + 1)
      <4>1. opsArray'[t] = Append(opsArray[t], code.operands[n + 1])
        BY <1>8, <2>3, <2>4 DEF ReadOperand
      <4> QED BY <2>1, <2>2, <3>2, <4>1, OneMoreOperand
    <3>4. pc'[t] = "operands" /\ instruction' = instruction /\ code' = code
      BY <1>8, <2>3, <2>4 DEF ReadOperand
    <3> QED BY <1>1, <1>4, <1>8, <3>1, <3>3, <3>4 DEF FormInv, CodeHolds, ReadOperand
  <2>5. CASE ~(n < Of(instruction[t]).reads)
    <3>1. n = Of(instruction[t]).reads
      BY <2>1, <2>2, <2>5, SMT
    <3> QED BY <1>4, <1>8, <2>1, <2>3, <2>5, <3>1 DEF FormInv, ReadOperand
  <2> QED BY <2>4, <2>5
<1>9. CASE ClinitReturns(t)
  BY <1>9 DEF ClinitReturns, FormInv
<1>10. CASE Quicken(t)
  BY <1>1, <1>4, <1>10 DEF Quicken, FormInv
<1>11. CASE NativeQuickens(t) \/ Use(t) \/ Again(t)
  BY <1>1, <1>4, <1>11 DEF NativeQuickens, Use, Again, FormInv
<1> QED BY <1>5, <1>6, <1>7, <1>8, <1>9, <1>10, <1>11 DEF Step

\* Several threads may quicken one instruction at once, and each still acts on
\* the operands of the form it dispatched on (instructionRead and
\* quickenInstructionStream each in a critical region, but the operands of a
\* quick form read one by one outside them).  The calls of the mathematical
\* natives are left out: of those it is false.
THEOREM QuickeningIsSafe ==
    ASSUME QuickeningAssumption, Kinds \subseteq Steady PROVE Spec => []QuickFormsAreSafe
<1>1. Init => OperandsInv
  <2> SUFFICES ASSUME Init PROVE OperandsInv
    OBVIOUS
  <2>1. PICK kind \in Kinds : code = [kind |-> kind, opcode |-> "slow",
                                     operands |-> [i \in 1 .. 4 |-> Operand("slow", i)]]
    BY DEF Init
  <2>2. Of("slow").reads \in 0 .. 4
    BY <2>1, FormFacts DEF Of, Steady
  <2>3. \A i \in 1 .. Of("slow").reads : i \in 1 .. 4
    BY <2>2, SMT
  <2> QED BY <2>1, <2>3 DEF Init, OperandsInv, CodeHolds, FormInv
<1>2. InstructionTypeOK /\ DispatchInv /\ OperandsInv /\ [Next]_vars => OperandsInv'
  <2> SUFFICES ASSUME InstructionTypeOK, DispatchInv, OperandsInv, [Next]_vars PROVE OperandsInv'
    OBVIOUS
  <2>1. CASE UNCHANGED vars
    BY <2>1 DEF vars, OperandsInv, CodeHolds, FormInv, Of
  <2>2. ASSUME NEW t \in Threads, Step(t)
        PROVE  OperandsInv'
    <3>1. code.kind \in Steady /\ code.kind \in DOMAIN Forms
      BY DEF InstructionTypeOK, InstructionCode, Steady
    <3>2. CodeHolds(code.opcode)'
          /\ \A g \in DOMAIN Forms[code.kind] \ {"slow"} : CodeHolds(g) => CodeHolds(g)'
      <4>1. CASE UNCHANGED code
        BY <4>1 DEF OperandsInv, CodeHolds, Of
      <4>2. CASE Quicken(t)
        <5>1. instruction[t] \in DOMAIN Forms[code.kind] /\ Of(instruction[t]).to # "none"
          BY <4>2 DEF DispatchInv, Dispatched, Quicken
        <5> QED BY <3>1, <4>1, <4>2, <5>1, RewrittenHolds DEF Quicken
      <4>3. CASE NativeQuickens(t)
        <5>1. code.kind = "value"
          BY <4>3 DEF DispatchInv, Dispatched, NativeQuickens
        <5>2. "quick" \in DOMAIN Forms[code.kind] /\ Of("quick").to # "none"
          BY <5>1 DEF Of, Forms, Form, Last
        <5> QED BY <3>1, <4>3, <5>2, RewrittenHolds DEF NativeQuickens
      <4> QED BY <2>2, <4>1, <4>2, <4>3 DEF Step, Fetch, InstructionRead, Resolve, ClinitReturns,
                 ReadOperand, Use, Again
    <3>3. FormInv(t)'
      BY <2>2, <3>1, OwnOperands
    <3>4. ASSUME NEW u \in Threads, u # t PROVE FormInv(u)'
      <4>1. pc'[u] = pc[u] /\ instruction'[u] = instruction[u] /\ opsArray'[u] = opsArray[u]
        BY <2>2, <3>4, StepOfOne DEF InstructionTypeOK
      <4>2. FormInv(u) /\ Dispatched(u)
        BY DEF OperandsInv, DispatchInv
      <4>3. \A f : Of(f)' = Of(f)
        BY <2>2, StepOfOne DEF Of
      <4>4. ASSUME NEW g, g = instruction[u], pc[u] = "operands" PROVE CodeHolds(g)'
        BY <4>4, <3>2, <4>2 DEF FormInv, Dispatched
      <4>5. pc[u] = "operands" => \A i \in 1 .. Of(instruction[u]).reads :
                                    code'.operands[i] = Operand(instruction[u], i)
        BY <4>1, <4>3, <4>4 DEF CodeHolds
      <4> QED BY <4>1, <4>2, <4>3, <4>5 DEF FormInv, CodeHolds
    <3> QED BY <3>2, <3>3, <3>4 DEF OperandsInv
  <2> QED BY <2>1, <2>2 DEF Next, Step
<1>3. OperandsInv => OperandsBelongToInstruction
  BY DEF OperandsInv, FormInv, OperandsBelongToInstruction, OperandsOf
<1> QED BY <1>1, <1>2, <1>3, TypeCorrect, QuickMeansInitialisationBegun, PTL DEF Spec, QuickFormsAreSafe

============================================================================
