------------------------------- MODULE MCLoader -------------------------------
(***************************************************************************)
(* How classes get into the machine, one of the stages at work in every    *)
(* behaviour: threads load a hierarchy, one class file is read, texts are  *)
(* verified, strings and classes are put into the pools and tables, and    *)
(* the classes of a hierarchy are built, resolved and called.              *)
(***************************************************************************)
EXTENDS Loading, ClassFile, TLC

CONSTANTS A, S, I, J, ERROR,
          Parts,          \* the stages a run looks at
          Signedness      \* Text

VARIABLES
    part,                                                       \* which of them it is
    classes, quickened,                                         \* Resolution
    kind, text, rest, chain, signed,                            \* Text
    utf8Pool, unicodePool, classTable, pc, class, key, from, known   \* Pools

classVars == <<classes, quickened>>
textVars  == <<kind, text, rest, chain, signed>>
poolVars  == <<utf8Pool, unicodePool, classTable, pc, class, key, from, known>>
loaderVars == <<part, allVars, classVars, textVars, poolVars, fileVars>>

-----------------------------------------------------------------------------
(* Loading: a class, its superclass and two interfaces, in four hierarchies.  *)

NoParents == [c \in {A, S, I, J} |-> <<>>]
MCHierarchies ==
    { A :> <<S, I, J>> @@ NoParents,                 \* apart
      A :> <<S, I>> @@ S :> <<I>> @@ NoParents,      \* a diamond
      A :> <<I, J>> @@ S :> <<J, I>> @@ NoParents,   \* in different orders
      A :> <<S>> @@ S :> <<J>> @@ J :> <<A>> @@ NoParents }   \* a circle

-----------------------------------------------------------------------------
(* Resolution: two classes and four interfaces, of every shape their files    *)
(* may have.                                                                  *)

\* Keys of methods and fields: 0 is that of the constructors, 1 of the initializers.
Method(k, flags) == [key |-> k, flags |-> flags, handlers |-> 0,
                       code |-> flags \cap {"abstract", "native"} = {}]
Constructor == Method(0, {"public"})
Initializer == [Method(1, {"static"}) EXCEPT !.handlers = 2]
Field(k, type, flags, constant) ==
    [key |-> k, type |-> type, flags |-> flags, constant |-> constant]

ClassFileOf(super, interfaces, methods, fields) ==
    [interface |-> FALSE, flags |-> {"public", "super"}, package |-> "p", super |-> super,
     interfaces |-> interfaces, methods |-> methods, fields |-> fields]
InterfaceFile(interfaces, methods, fields) ==
    [ClassFileOf(NULL, interfaces, methods, fields) EXCEPT !.interface = TRUE]

\* The methods and fields of a class.
Members == {
    <<<<Constructor>>,
      <<>>>>,
    <<<<Method(2, {"public"}), Constructor, Method(3, {"private"})>>,
      <<Field(1, "int", {}, "none"), Field(2, "object", {}, "none")>>>>,
    <<<<Method(5, {"public", "final"}), Method(3, {"public"}), Initializer>>,
      <<Field(3, "long", {}, "none"), Field(1, "long", {"static", "final"}, "Long"),
        Field(2, "array", {"static"}, "none"), Field(5, "int", {}, "none")>>>>,
    <<<<Method(3, {"public", "static"}), Constructor, Initializer, Method(2, {"public", "abstract"})>>,
      <<Field(5, "int", {"protected"}, "none"), Field(3, "long", {}, "none")>>>>,
    <<<<Method(3, {"public", "native"}), Method(2, {"public"}), Method(4, {"static"})>>,
      <<Field(1, "object", {}, "none"), Field(2, "int", {"static"}, "none")>>>>}

MCFiles == [c \in {"Object", "A", "B", "I", "J", "K", "L"} |->
    CASE c = "Object" ->
            {ClassFileOf(NULL, <<>>, <<Constructor, Method(2, {"public"})>>, <<>>)}
      [] c \in {"I", "L"} ->
            {InterfaceFile(<<>>, <<Method(3, {"public", "abstract"})>>, <<>>)}
      [] c = "K" ->
            {InterfaceFile(<<"L">>, <<>>, <<>>)}
      [] c = "J" ->
            {InterfaceFile(<<"I">>, <<Method(6, {"public", "abstract"}), Method(5, {"public", "abstract"})>>, <<>>),
             InterfaceFile(<<"I">>, <<Initializer, Method(2, {"public", "abstract"})>>,
                           <<Field(1, "int", {"public", "static", "final"}, "Integer")>>)}
      [] c = "A" ->
            {ClassFileOf("Object", interfaces, members[1], members[2]) :
                interfaces \in {<<>>, <<"I", "J">>, <<"J", "K">>}, members \in Members}
      [] c = "B" ->
            {ClassFileOf(super, interfaces, members[1], members[2]) :
                super \in {"Object", "A"}, interfaces \in {<<>>, <<"K">>},
                members \in Members}]

Resolved == INSTANCE Resolution WITH
    Class <- {"Object", "A", "B", "I", "J", "K", "L"}, Object <- "Object",
    InitKey <- 0, ClinitKey <- 1, Key <- {1, 2, 3}, Files <- MCFiles

-----------------------------------------------------------------------------

Verified == INSTANCE Text WITH
    Letters <- {"(", ")", "I", "J", "L", "[", "/", ";", "V", "1"},
    Bytes <- {0, 65, 128, 191, 195, 226, 240}, InternedBytes <- {65, 128, 195},
    Rests <- [type |-> {")", ";"}, utf8 |-> {65, 128}, intern |-> {65, 192}],
    MaxLength <- [type |-> 4, utf8 |-> 4, intern |-> 3]

\* [I, [LI; and p/A, and an int array of 17 dimensions.  A and p share an index with
\* five strings that are there from the start: p is the seventh string of the chain, and
\* the eighth where another is added twice.
ClassNamed(p, n, d, i) == [packageName |-> p, name |-> n, arrayDepth |-> d, isPrimitive |-> i]
Pooled == INSTANCE Pools WITH
    at <- from, Threads <- {"t1", "t2"},
    Classes <- {ClassNamed("", "I", 1, TRUE), ClassNamed("", "I", 1, FALSE),
                ClassNamed("", "I", 17, TRUE), ClassNamed("p", "A", 0, FALSE)},
    Literals <- {"s"}, Globals <- <<"", "I", "g1", "g2", "g3", "g4">>,
    Hash <- "" :> 0 @@ "p" :> 260 @@ "s" :> 8 @@ [string \in {"A", "I", "g1", "g2", "g3", "g4"} |-> 4],
    UTF8_STRING_TABLE_SIZE <- 256, INTERN_STRING_TABLE_SIZE <- 64, CLASS_TABLE_SIZE <- 3

ASSUME Resolved!ClassesAssumption
ASSUME ClassFileAssumption
ASSUME Parts \subseteq {"loading", "classes", "text", "pools", "file"}
ASSUME Verified!SignednessAssumption

-----------------------------------------------------------------------------

LoaderInit ==
    /\ part \in Parts
    /\ LoadInit
    /\ part # "loading" => parentsOf = A :> <<S, I>> @@ S :> <<I>> @@ NoParents
    /\ Resolved!ResolutionInit /\ Pooled!Init /\ FileInit
    /\ IF part = "text" THEN Verified!Init
       ELSE kind = "utf8" /\ text = <<>> /\ rest = 65 /\ chain = <<>> /\ signed = TRUE

LoadingStep ==
    part = "loading" /\ LoadNext /\ UNCHANGED <<part, classVars, textVars, poolVars, fileVars>>
ClassesStep ==
    /\ part = "classes" /\ Resolved!ResolutionNext
    /\ UNCHANGED <<part, allVars, textVars, poolVars, fileVars>>
TextStep ==
    part = "text" /\ Verified!Next /\ UNCHANGED <<part, allVars, classVars, poolVars, fileVars>>
PoolsStep ==
    part = "pools" /\ Pooled!Next /\ UNCHANGED <<part, allVars, classVars, textVars, fileVars>>
FileStep ==
    part = "file" /\ FileNext /\ UNCHANGED <<part, allVars, classVars, textVars, poolVars>>

LoaderNext == LoadingStep \/ ClassesStep \/ TextStep \/ PoolsStep \/ FileStep

\* Every thread that loads gets to run (SchedulerLiveness!RoundRobin).
LoaderSpec ==
    /\ LoaderInit /\ [][LoaderNext]_loaderVars
    /\ \A t \in Thread : WF_loaderVars(part = "loading" /\ LoadStep(t) /\ UNCHANGED
                                          <<part, classVars, textVars, poolVars, fileVars>>)

-----------------------------------------------------------------------------

\* However many threads load a class, it is defined once, and whoever returns, with an
\* error or without, has left the load monitors of all classes.
LoadedOnce == part = "loading" => DefinedOnce /\ LoadMonitorsAreLeft

\* The size computed for a class is what is laid out, but for interfaces with an
\* initializer, and no two fields overlap.
LayoutIsExact == part = "classes" => Resolved!SizeIsExact /\ Resolved!FieldsAreApart

\* Each entry of a virtual table is the nearest method of its key, at the index its
\* superclasses know it by.
VirtualTableIsRight == part = "classes" => Resolved!VirtualTableIsRight

\* The interfaces of a class, inherited ones included, lead its interface calls to its
\* methods.
InterfaceCallsAreRight == part = "classes" => Resolved!InterfaceCallsAreRight

\* What a quickened instruction calls or reads is the nearest definition of the member
\* resolved, in classes that are loaded later too.
ResolvedAreTheNearest ==
    part = "classes" =>
        /\ Resolved!CallsReachTheNearest
        /\ Resolved!ExactCallsAreRight
        /\ Resolved!FieldsAreTheNearest

\* instanceof and checkcast agree with the class files, arrays included.
TypeChecksAreRight == part = "classes" => Resolved!TypeChecksAreRight

\* The walks through a type accept its grammar and nothing else, and the collector's
\* map of the parameters is right.
TypesAreVerified ==
    part = "text" => Verified!TypesAreVerified /\ Verified!ParameterMapIsRight

\* Strings that were verified decode, where char is unsigned or they are ASCII, and
\* interned ones are found again, whatever char is.
StringsAreExact ==
    part = "text" => Verified!VerifiedStringsDecode /\ Verified!InternedIsFound

\* Keys lead back to their strings, classes have keys and slots of their own, while the
\* chain of a package and the depth of an array fit the bits keys.h has for them.
KeysAreExact ==
    part = "pools" =>
        /\ Pooled!KeysFindTheirStrings
        /\ Pooled!ClassKeysAreApart
        /\ Pooled!ClassesAreFoundAgain

-----------------------------------------------------------------------------
(* What comments and an assertion say and the code does not keep: Loader.cfg      *)
(* does not list these, README.md describes how each is violated.                *)

\* The block of every class, of interfaces with an initializer too, is filled to its end
\* and no further.
BlocksAreFilled == part = "classes" => Resolved!ConstructedAsCalculated

\* A class knows all the interfaces above it.
IncludesAllSuperInterfaces == part = "classes" => Resolved!IncludesAllSuperInterfaces

\* Strings that were verified decode, whatever char is.
StringsDecode == part = "text" => Verified!EveryVerifiedStringDecodes

\* The package of a class is found by its key, however many strings are in its chain.
PackagesAreFound == part = "pools" => Pooled!PackagesAreFound

\* Arrays of every depth the loader lets through have keys of their own.
DepthsAreApart == part = "pools" => Pooled!DepthsAreApart

\* A string has one entry in its pool, whoever else adds it.
StringsArePooledOnce == part = "pools" => Pooled!StringsArePooledOnce

=============================================================================
