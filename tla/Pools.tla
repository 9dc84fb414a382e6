-------------------------------- MODULE Pools --------------------------------
(***************************************************************************)
(* The tables every thread looks up and adds to: the pool of UTF8 strings, *)
(* whose entries give names, packages and types their keys, the pool of    *)
(* interned strings, and the class table, in which the key of a class has  *)
(* a slot (stringPool.c, stringKeys.c, class/table.c, keys.h).             *)
(*                                                                         *)
(* A thread refers to a class, as the loader does for each class entry of  *)
(* a constant pool: getClassParams finds the keys of its name and package, *)
(* getClassInTable its slot.  All the searches run outside the critical    *)
(* region; only the additions are inside.  A search is one step: entries   *)
(* never leave a table, so that it sees what was there at its last read.   *)
(***************************************************************************)
EXTENDS Integers, Sequences, SequencesExt, Bitwise

CONSTANTS Threads,
          Classes,        \* [packageName, name, arrayDepth, isPrimitive]
          Literals,       \* the strings to intern
          Globals,        \* the strings initializeGlobalStrings adds, in order
          Hash,           \* the hash of a string, before the remainder
          UTF8_STRING_TABLE_SIZE,
          INTERN_STRING_TABLE_SIZE,
          CLASS_TABLE_SIZE,
          NULL

VARIABLES utf8Pool,       \* index -> the chain of entries, the newest first
          unicodePool,    \* index -> the chain of interned strings
          classTable,     \* index -> the key in the slot, or NULL
          pc,             \* thread -> where it is
          class,          \* thread -> the class or literal it looks up
          key,            \* thread -> the keys it found
          at,             \* thread -> the index its unlocked search ended at
          known           \* [class, key, index] of the classes that were found

vars == <<utf8Pool, unicodePool, classTable, pc, class, key, at, known>>

EmptyString == ""
Strings == {c.name : c \in Classes} \cup {c.packageName : c \in Classes}
               \cup Literals \cup ToSet(Globals)
-----------------------------------------------------------------------------
(***************************************************************************)
(* The pool of UTF8 strings.                                               *)
(***************************************************************************)
utf8Index(string) == Hash[string] % UTF8_STRING_TABLE_SIZE

\* The first entry of the string in a chain.
entriesOf(chain, string) == SelectSeq(chain, LAMBDA e : e.string = string)

\* A string is added in front of its chain.  Its key is that of the entry
\* behind it plus the size of the table, in 16 bits.
added(pool, string) ==
    LET index == utf8Index(string)
        newKey == UTF8_STRING_TABLE_SIZE
                    + IF pool[index] = <<>> THEN index ELSE pool[index][1].nameKey
    IN  [pool EXCEPT ![index] = <<[string |-> string, nameKey |-> newKey % 2^16]>> \o @]

initializeGlobalStrings ==
    FoldLeft(added, [index \in {utf8Index(s) : s \in Strings} |-> <<>>], Globals)

getUTF8StringByKey(k) ==
    LET index == k % UTF8_STRING_TABLE_SIZE
        entries == SelectSeq(utf8Pool[index], LAMBDA e : e.nameKey = k)
    IN  IF index \in DOMAIN utf8Pool /\ entries # <<>> THEN entries[1].string ELSE NULL
-----------------------------------------------------------------------------
(***************************************************************************)
(* The keys of a class.                                                    *)
(***************************************************************************)
ARRAY_DEPTH_SHIFT == 12
PRIMITIVE_ARRAY_BIT == 2048
PACKAGE_KEY_MASK == 2047

\* The bug of a key that does not tell [I from [LI;.
arrayPackageKey_noBit(packageKey, c) ==
    IF c.arrayDepth = 0 THEN packageKey
    ELSE (packageKey | (c.arrayDepth * 2^ARRAY_DEPTH_SHIFT)) % 2^16

arrayPackageKey(packageKey, c) ==
    IF c.arrayDepth = 0 THEN packageKey
    ELSE ((packageKey | (c.arrayDepth * 2^ARRAY_DEPTH_SHIFT)) % 2^16)
            | (IF c.isPrimitive THEN PRIMITIVE_ARRAY_BIT ELSE 0)

getPackageNameStringByKey(packageKey) == getUTF8StringByKey(packageKey & PACKAGE_KEY_MASK)
-----------------------------------------------------------------------------
(***************************************************************************)
(* The class table.                                                        *)
(***************************************************************************)
\* The remainder of the two 16 bit keys taken as one number of 32 bits.
getHashIndex(k) ==
    (k.nameKey + (2^16 % CLASS_TABLE_SIZE) * k.packageKey) % CLASS_TABLE_SIZE

\* The search from a slot on, until it is back at that slot: the slot of the
\* key, the empty one where it would go, or NULL if the table is full.
findClassTableIndex(k, start) ==
    LET slotAt(n) == (start + n) % CLASS_TABLE_SIZE
        ends == {n \in 0..(CLASS_TABLE_SIZE - 1) : classTable[slotAt(n)] \in {k, NULL}}
    IN  IF ends = {} THEN NULL
        ELSE slotAt(CHOOSE n \in ends : \A m \in ends : n <= m)

classIsInTable(k) == LET i == findClassTableIndex(k, getHashIndex(k))
                     IN  i # NULL /\ classTable[i] = k
-----------------------------------------------------------------------------
Init ==
    /\ utf8Pool = initializeGlobalStrings
    /\ unicodePool = [index \in {Hash[s] % INTERN_STRING_TABLE_SIZE : s \in Literals} |-> <<>>]
    /\ classTable = [i \in 0..(CLASS_TABLE_SIZE - 1) |-> NULL]
    /\ pc = [t \in Threads |-> "idle"]
    /\ class = [t \in Threads |-> NULL]
    /\ key = [t \in Threads |-> NULL]
    /\ at = [t \in Threads |-> NULL]
    /\ known = {}

goto(t, label) == pc' = [pc EXCEPT ![t] = label]

\* The thread has no business with the tables, or failed.
leave(t) ==
    /\ goto(t, "idle")
    /\ class' = [class EXCEPT ![t] = NULL]
    /\ key' = [key EXCEPT ![t] = NULL]
    /\ at' = [at EXCEPT ![t] = NULL]

getClassParams(t, c) ==
    /\ pc[t] = "idle"
    /\ class' = [class EXCEPT ![t] = c]
    /\ goto(t, "name")
    /\ UNCHANGED <<utf8Pool, unicodePool, classTable, key, at, known>>

\* The key of the class name or of the package is known.
namePackage(t, nameKey) ==
    /\ IF class[t].packageName = EmptyString
       THEN /\ key' = [key EXCEPT ![t] =
                  [nameKey |-> nameKey,
                   packageKey |-> arrayPackageKey(
                       entriesOf(utf8Pool[utf8Index(EmptyString)], EmptyString)[1].nameKey, class[t])]]
            /\ goto(t, "slot")
       ELSE /\ key' = [key EXCEPT ![t] = [nameKey |-> nameKey, packageKey |-> NULL]]
            /\ goto(t, "package")

packageFound(t, packageKey) ==
    /\ key' = [key EXCEPT ![t].packageKey = arrayPackageKey(packageKey, class[t])]
    /\ goto(t, "slot")

sought(t) == IF pc[t] \in {"name", "addName"} THEN class[t].name ELSE class[t].packageName
stringFound(t, k) == IF pc[t] \in {"name", "addName"} THEN namePackage(t, k) ELSE packageFound(t, k)

\* getUTF8StringByChars: the string is found outside the critical region, or
\* memory is allocated for it, or the lookup fails.
getUTF8StringByChars(t) ==
    /\ pc[t] \in {"name", "package"}
    /\ LET entries == entriesOf(utf8Pool[utf8Index(sought(t))], sought(t))
       IN  IF entries # <<>> THEN stringFound(t, entries[1].nameKey) /\ UNCHANGED <<class, at>>
           ELSE \/ goto(t, IF pc[t] = "name" THEN "addName" ELSE "addPackage")
                   /\ UNCHANGED <<class, key, at>>
                \/ leave(t)
    /\ UNCHANGED <<utf8Pool, unicodePool, classTable, known>>

\* The critical region of getUTF8StringByChars: nothing is looked up again.
addUTF8String(t) ==
    /\ pc[t] \in {"addName", "addPackage"}
    /\ utf8Pool' = added(utf8Pool, sought(t))
    /\ stringFound(t, utf8Pool'[utf8Index(sought(t))][1].nameKey)
    /\ UNCHANGED <<unicodePool, classTable, class, at, known>>

recordSlot(t, i) ==
    /\ known' = known \cup {[class |-> class[t], key |-> key[t], index |-> i]}
    /\ leave(t)

\* getClassInTable, the search outside the critical region.
getClassInTable(t) ==
    /\ pc[t] = "slot"
    /\ LET i == findClassTableIndex(key[t], getHashIndex(key[t]))
       IN  CASE i = NULL -> leave(t) /\ UNCHANGED known       \* ERROR_CODE_CLASS_TABLE_FULL
             [] i # NULL /\ classTable[i] = key[t] -> recordSlot(t, i)
             [] OTHER -> /\ at' = [at EXCEPT ![t] = i]
                         /\ goto(t, "addSlot")
                         /\ UNCHANGED <<class, key, known>>
    /\ UNCHANGED <<utf8Pool, unicodePool, classTable>>

\* The critical region: the search goes on from the empty slot it ended at.
reserveSlot(t) ==
    /\ pc[t] = "addSlot"
    /\ LET i == findClassTableIndex(key[t], at[t])
       IN  IF i = NULL THEN leave(t) /\ UNCHANGED <<classTable, known>>
           ELSE /\ classTable' = [classTable EXCEPT ![i] = key[t]]
                /\ recordSlot(t, i)
    /\ UNCHANGED <<utf8Pool, unicodePool>>

\* internString: the search, then the string is made, or the thread fails.
internString(t, s) ==
    /\ pc[t] = "idle"
    /\ s \notin ToSet(unicodePool[Hash[s] % INTERN_STRING_TABLE_SIZE])
    /\ class' = [class EXCEPT ![t] = s]
    /\ goto(t, "addLiteral")
    /\ UNCHANGED <<utf8Pool, unicodePool, classTable, key, at, known>>

addInterned(t) ==
    /\ pc[t] = "addLiteral"
    /\ unicodePool' = [unicodePool EXCEPT ![Hash[class[t]] % INTERN_STRING_TABLE_SIZE] = <<class[t]>> \o @]
    /\ leave(t)
    /\ UNCHANGED <<utf8Pool, classTable, known>>

Next == \E t \in Threads :
    \/ \E c \in Classes : getClassParams(t, c)
    \/ getUTF8StringByChars(t)
    \/ addUTF8String(t)
    \/ getClassInTable(t)
    \/ reserveSlot(t)
    \/ \E s \in Literals : internString(t, s)
    \/ addInterned(t)

Spec == Init /\ [][Next]_vars
-----------------------------------------------------------------------------
(***************************************************************************)
(* Properties.                                                             *)
(***************************************************************************)
\* What the key of a class has room for: four bits of array depth, and eleven
\* of the key of the package, which a chain outgrows at its entry number
\* 2048 \div UTF8_STRING_TABLE_SIZE.
DepthFits(c) == c.arrayDepth < 2^(16 - ARRAY_DEPTH_SHIFT)
PackageFits(c) ==
    \A e \in ToSet(entriesOf(utf8Pool[utf8Index(c.packageName)], c.packageName)) :
        e.nameKey <= PACKAGE_KEY_MASK

NamesAreFound ==
    /\ \A index \in DOMAIN utf8Pool : \A n \in DOMAIN utf8Pool[index] :
          getUTF8StringByKey(utf8Pool[index][n].nameKey) = utf8Pool[index][n].string
    /\ \A k \in known : getUTF8StringByKey(k.key.nameKey) = k.class.name
PackageIsFound(k) == getPackageNameStringByKey(k.key.packageKey) = k.class.packageName
KeyIsIts(k, own) == \A other \in own : k.key = other.key => k.class = other.class

\* The key of every entry leads back to its string, also of one that two
\* threads added, and the key of a class to its name and, while there is room
\* for it, to its package: names of classes are printed and compared by key.
KeysFindTheirStrings ==
    /\ NamesAreFound
    /\ \A k \in known : PackageFits(k.class) => PackageIsFound(k)

\* Two classes whose depths and packages the key has room for never have the
\* same key: a bit tells [I from [LI;, and the depth is behind the package.
ClassKeysAreApart ==
    LET fitting == {k \in known : DepthFits(k.class) /\ PackageFits(k.class)}
    IN  \A k \in fitting : KeyIsIts(k, fitting)

\* keys.h: "only the low 11 bits of a 16-bit string key are used by the UTF8
\* string pool", so that the package of every class is found by its key.
PackagesAreFound == \A k \in known : PackageIsFound(k)

\* keys.h: "the top 4 bits of the package key are used to record array
\* depth", so that arrays of different depths have different keys.
DepthsAreApart ==
    LET arrays == {k \in known : PackageFits(k.class)}
    IN  \A k \in arrays : KeyIsIts(k, arrays)

\* A slot, once a class is given it, is the one every later search for the
\* key ends at: threads that add colliding classes at the same time, in a
\* table that fills up, never give a key two slots nor two keys a slot.
ClassesAreFoundAgain ==
    \A k \in known : findClassTableIndex(k.key, getHashIndex(k.key)) = k.index
                        /\ classIsInTable(k.key)

\* "Either add the string to the pool or get the existing equivalent string
\* in the pool" (stringPool.h:27): a string has one entry, and one key.
StringsArePooledOnce ==
    /\ \A index \in DOMAIN utf8Pool : IsInjective([n \in DOMAIN utf8Pool[index] |-> utf8Pool[index][n].string])
    /\ \A index \in DOMAIN unicodePool : IsInjective(unicodePool[index])
=============================================================================
