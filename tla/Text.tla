-------------------------------- MODULE Text --------------------------------
(***************************************************************************)
(* The text algorithms of the loader: the names and the types a class file *)
(* may contain (preload.c), UTF8 strings and their characters              *)
(* (javaString.c), and the search of the interned strings (stringPool.c).  *)
(*                                                                         *)
(* The C functions walk pointers through a text that is not terminated; a  *)
(* pointer is a position here and what a walk reads behind the end is the  *)
(* value "rest", whatever is in memory there.                              *)
(*                                                                         *)
(* A behaviour spells out one text, a character at each step.              *)
(***************************************************************************)
EXTENDS Integers, Sequences, SequencesExt, FiniteSetsExt

CONSTANTS Letters,      \* the characters types are spelt with
          Bytes,        \* the bytes UTF8 strings are spelt with
          InternedBytes,  \* the bytes of strings that are interned
          Rests,        \* what may follow a text of a kind in memory
          MaxLength,    \* the longest text of a kind
          Signedness    \* whether char is signed: the compilers looked at

SignednessAssumption == Signedness \subseteq BOOLEAN /\ Signedness # {}

VARIABLES kind,         \* "type", "utf8" or "intern"
          text,         \* the text given to the functions
          rest,         \* what memory holds behind it
          chain,        \* the UTF8 strings interned so far in a chain
          signed        \* whether char is signed, which is up to the compiler

vars == <<kind, text, rest, chain, signed>>

NOWHERE == 0

Primitives == {"Z", "B", "C", "S", "I", "J", "F", "D"}
Doubles == {"J", "D"}
Digits == {"0", "1"}
IsNameChar(c) == c \notin {"/", ";", "(", ")", "[", ".", "<", ">"}

\* The character a pointer into s points at.
At(s, p) == IF p <= Len(s) THEN s[p] ELSE rest
-----------------------------------------------------------------------------
(***************************************************************************)
(* Names and types.                                                        *)
(***************************************************************************)
verifyName(s) == /\ s # <<>>
                 /\ s[1] \notin Digits
                 /\ \A i \in DOMAIN s : IsNameChar(s[i])

\* Where a name of at most the given length ends, and whether the length did.
skipName(s, p, length) ==
    IF At(s, p) \in Digits THEN [str |-> p, reachedEnd |-> FALSE]
    ELSE LET str == Min({q \in p..(p + length) : q = p + length \/ ~IsNameChar(At(s, q))})
         IN  [str |-> str, reachedEnd |-> str = p + length]

\* The length is not shortened by the names already skipped.
RECURSIVE skipClassName(_, _, _)
skipClassName(s, p, length) ==
    IF At(s, p) = "/" THEN p
    ELSE LET name == skipName(s, p, length)
         IN  IF name.reachedEnd \/ At(s, name.str) # "/" THEN name.str
             ELSE skipClassName(s, name.str + 1, length)

\* The end of a run of brackets that starts at p, within the length.
skipBrackets(s, p, length) ==
    Min({q \in (p + 1)..(p + length) : q = p + length \/ At(s, q) # "["})

RECURSIVE skipType(_, _, _)
skipType(s, p, length) ==
    IF length <= 2 THEN NOWHERE
    ELSE CASE At(s, p) \in Primitives -> p + 1
           [] At(s, p) = "L" ->
                LET str == skipClassName(s, p + 1, length - 1)
                IN  IF str - p > length - 3 \/ At(s, str) # ";" THEN NOWHERE ELSE str + 1
           [] At(s, p) = "[" ->
                LET str == skipBrackets(s, p, length) IN skipType(s, str, length - (str - p))
           [] OTHER -> NOWHERE

RECURSIVE verifyLoadedClassName(_, _, _)
verifyLoadedClassName(s, p, length) ==
    LET name == skipName(s, p, length)
    IN  /\ name.str # p
        /\ \/ name.reachedEnd
           \/ /\ At(s, name.str) = "/"
              /\ verifyLoadedClassName(s, name.str + 1, length - (name.str - p) - 1)

RECURSIVE verifyFieldType(_, _, _)
verifyFieldType(s, p, length) ==
    /\ length # 0
    /\ CASE At(s, p) \in Primitives -> length = 1
         [] At(s, p) = "L" -> /\ length > 2
                              /\ At(s, p + length - 1) = ";"
                              /\ verifyLoadedClassName(s, p + 1, length - 2)
         [] At(s, p) = "[" -> LET str == skipBrackets(s, p, length)
                              IN  verifyFieldType(s, str, length - (str - p))
         [] OTHER -> FALSE

\* The bug of a walk that accepts a class name without its semicolon.
verifyClassName_open(s) ==
    /\ s # <<>>
    /\ IF s[1] = "[" THEN verifyFieldType(s, 2, Len(s) - 1)
       ELSE verifyLoadedClassName(s, 1, Len(s) + 1)

verifyClassName(s) ==
    /\ s # <<>>
    /\ IF s[1] = "[" THEN verifyFieldType(s, 2, Len(s) - 1)
       ELSE verifyLoadedClassName(s, 1, Len(s))

\* The number of words the parameters take, or -1.
RECURSIVE verifyParameters(_, _, _, _)
verifyParameters(s, previous, length, numArgs) ==
    LET str == skipType(s, previous, length)
    IN  IF str = NOWHERE
        THEN IF /\ At(s, previous) = ")"
                /\ IF At(s, previous + 1) = "V" THEN length = 2
                   ELSE verifyFieldType(s, previous + 1, (length - 1) % 2^16)
             THEN numArgs ELSE -1
        ELSE verifyParameters(s, str, length - (str - previous),
                              numArgs + IF At(s, previous) \in Doubles THEN 2 ELSE 1)

verifyMethodType(s) ==
    IF s = <<>> \/ s[1] # "(" THEN -1 ELSE verifyParameters(s, 2, Len(s) - 1, 0)

\* The bug of a map in which a long takes one word.
RECURSIVE objectParameters_single(_, _, _)
objectParameters_single(s, str, index) ==
    CASE At(s, str) = ")" -> {}
      [] At(s, str) \in Primitives -> objectParameters_single(s, str + 1, index + 1)
      [] At(s, str) = "L" ->
           {index} \cup objectParameters_single(s, skipClassName(s, str + 1, Len(s) - (str - 1)) + 1, index + 1)
      [] OTHER ->
           LET element == Min({q \in str..Len(s) : s[q] # "["})
           IN  {index} \cup objectParameters_single(s, skipType(s, element, Len(s) - (element - 1)), index + 1)

\* The words of the parameters, from word index on, that hold objects: the
\* bits of the map.
RECURSIVE objectParameters(_, _, _)
objectParameters(s, str, index) ==
    CASE At(s, str) = ")" -> {}
      [] At(s, str) \in Doubles -> objectParameters(s, str + 1, index + 2)
      [] At(s, str) \in Primitives \ Doubles -> objectParameters(s, str + 1, index + 1)
      [] At(s, str) = "L" ->
           {index} \cup objectParameters(s, skipClassName(s, str + 1, Len(s) - (str - 1)) + 1, index + 1)
      [] OTHER ->
           LET element == Min({q \in str..Len(s) : s[q] # "["})
           IN  {index} \cup objectParameters(s, skipType(s, element, Len(s) - (element - 1)), index + 1)

createMethodTypeParameterMap(s, isInstanceMethod) ==
    IF isInstanceMethod THEN {0} \cup objectParameters(s, 2, 1) ELSE objectParameters(s, 2, 0)
-----------------------------------------------------------------------------
(***************************************************************************)
(* The grammar of the names and types, to compare with.                    *)
(***************************************************************************)
RECURSIVE IsClassName(_)
IsClassName(s) ==
    \/ verifyName(s)
    \/ \E i \in DOMAIN s : /\ s[i] = "/"
                           /\ verifyName(SubSeq(s, 1, i - 1))
                           /\ IsClassName(SubSeq(s, i + 1, Len(s)))

RECURSIVE IsFieldType(_)
IsFieldType(s) ==
    \/ Len(s) = 1 /\ s[1] \in Primitives
    \/ Len(s) > 2 /\ s[1] = "L" /\ s[Len(s)] = ";" /\ IsClassName(SubSeq(s, 2, Len(s) - 1))
    \/ Len(s) > 1 /\ s[1] = "[" /\ IsFieldType(Tail(s))

\* The type of a parameter.  The loader also lets class names through here
\* whose last part is empty.
RECURSIVE IsParameterType(_)
IsParameterType(s) ==
    \/ IsFieldType(s)
    \/ Len(s) > 1 /\ s[1] = "[" /\ IsParameterType(Tail(s))
    \/ s = <<"L", ";">>
    \/ Len(s) > 3 /\ s[1] = "L" /\ s[Len(s)] = ";" /\ s[Len(s) - 1] = "/"
                  /\ IsClassName(SubSeq(s, 2, Len(s) - 2))

\* The parameter types of which s is the concatenation, if it is one.
RECURSIVE ParameterTypes(_)
ParameterTypes(s) ==
    IF s = <<>> THEN { <<>> }
    ELSE UNION {{<<SubSeq(s, 1, k)>> \o types : types \in ParameterTypes(SubSeq(s, k + 1, Len(s)))} :
                k \in {n \in DOMAIN s : IsParameterType(SubSeq(s, 1, n))}}

\* The parameter types of a method type.
MethodParameters(s) ==
    UNION {ParameterTypes(SubSeq(s, 2, i - 1)) :
           i \in {n \in 2..Len(s) : /\ s[1] = "(" /\ s[n] = ")"
                                    /\ LET result == SubSeq(s, n + 1, Len(s))
                                       IN  result = <<"V">> \/ IsFieldType(result)}}

WordsOf(type) == IF type[1] \in Doubles THEN 2 ELSE 1
WordsBefore(types, n) == FoldLeft(LAMBDA sum, type : sum + WordsOf(type), 0, SubSeq(types, 1, n - 1))
-----------------------------------------------------------------------------
(***************************************************************************)
(* UTF8 strings.                                                           *)
(***************************************************************************)
IsContinuation(b) == (b \div 64) = 2

\* c >> 4: a signed character keeps its sign.
HighNibble(c) == (IF signed /\ c >= 128 THEN c - 256 ELSE c) \div 16

\* The bytes of the character at p.
charLength(s, p) ==
    CASE HighNibble(At(s, p)) \in {12, 13} -> IF IsContinuation(At(s, p + 1)) THEN 2 ELSE 1
      [] HighNibble(At(s, p)) = 14 -> IF ~IsContinuation(At(s, p + 1)) THEN 1
                                      ELSE IF IsContinuation(At(s, p + 2)) THEN 3 ELSE 2
      [] OTHER -> 1

getUnicodeCharFromUTF8Char(s, p) ==
    LET c == At(s, p)
    IN  CASE HighNibble(c) \in {12, 13} ->
               IF charLength(s, p) = 2 THEN (c % 32) * 64 + (At(s, p + 1) % 64) ELSE 0
          [] HighNibble(c) = 14 ->
               IF charLength(s, p) = 3
               THEN ((c % 16) * 64 + (At(s, p + 1) % 64)) * 64 + (At(s, p + 2) % 64) ELSE 0
          [] OTHER -> (IF signed /\ c >= 128 THEN c - 256 ELSE c) % 2^16

RECURSIVE getUnicodeLength(_, _)
getUnicodeLength(s, p) ==
    IF p > Len(s) THEN 0 ELSE 1 + getUnicodeLength(s, p + charLength(s, p))

\* The characters an array is filled with: as many as the length counted.
RECURSIVE charactersFrom(_, _, _)
charactersFrom(s, p, count) ==
    IF count = 0 THEN <<>>
    ELSE <<getUnicodeCharFromUTF8Char(s, p)>> \o charactersFrom(s, p + charLength(s, p), count - 1)
instantiateCharacterArray(s) == charactersFrom(s, 1, getUnicodeLength(s, 1))

\* The bug of a verification that looks at the first byte only.
RECURSIVE verifyUTF8From_lead(_, _)
verifyUTF8From_lead(s, p) ==
    \/ p > Len(s)
    \/ /\ s[p] # 0
       /\ CASE s[p] \div 16 \in {8, 9, 10, 11, 15} -> FALSE
            [] s[p] \div 16 = 14 -> verifyUTF8From_lead(s, p + 3)
            [] s[p] \div 16 \in {12, 13} -> verifyUTF8From_lead(s, p + 2)
            [] OTHER -> verifyUTF8From_lead(s, p + 1)

RECURSIVE verifyUTF8From(_, _)
verifyUTF8From(s, p) ==
    \/ p > Len(s)
    \/ /\ s[p] # 0
       /\ CASE s[p] \div 16 \in {8, 9, 10, 11, 15} -> FALSE
            [] s[p] \div 16 = 14 -> /\ p + 2 <= Len(s)
                                    /\ IsContinuation(s[p + 1]) /\ IsContinuation(s[p + 2])
                                    /\ verifyUTF8From(s, p + 3)
            [] s[p] \div 16 \in {12, 13} -> /\ p + 1 <= Len(s)
                                            /\ IsContinuation(s[p + 1])
                                            /\ verifyUTF8From(s, p + 2)
            [] OTHER -> verifyUTF8From(s, p + 1)
verifyUTF8String(s) == verifyUTF8From(s, 1)

\* The modified UTF8 the virtual machine specification prescribes: the
\* encodings of a character; only the shortest are canonical, the loader
\* takes the others too.
Encodings(c) ==
    (IF c \in 1..127 THEN {<<c>>} ELSE {})
        \cup (IF c < 2^11 THEN {<<192 + (c \div 64), 128 + (c % 64)>>} ELSE {})
        \cup {<<224 + (c \div 4096), 128 + ((c \div 64) % 64), 128 + (c % 64)>>}

\* s is a concatenation of encodings of the characters, one of each.
RECURSIVE Encodes(_, _)
Encodes(s, chars) ==
    IF chars = <<>> THEN s = <<>>
    ELSE \E e \in Encodings(Head(chars)) :
            IsPrefix(e, s) /\ Encodes(SubSeq(s, Len(e) + 1, Len(s)), Tail(chars))
-----------------------------------------------------------------------------
(***************************************************************************)
(* The search of the interned strings in a chain.  A Java string is the    *)
(* sequence of its characters, "rest" follows it in memory; the text to    *)
(* find is given by its characters, which the search decodes one by one.   *)
(***************************************************************************)
\* The characters of the text that match those at the start of a string.
matches(string, s) == \A i \in DOMAIN s : s[i] = At(string, i)

\* The bug of a search that takes a string the text is the beginning of.
findMatchingUnicodeString_prefix(strings, s) ==
    LET equal == {i \in DOMAIN strings : matches(strings[i], s)}
    IN  IF equal = {} THEN NOWHERE ELSE Min(equal)

\* The first loop compares the characters until a string matches all those of
\* the text, the second one compares the lengths first.
findMatchingUnicodeString(strings, s) ==
    LET first == {i \in DOMAIN strings : matches(strings[i], s)}
    IN  IF first = {} THEN NOWHERE
        ELSE LET i == Min(first)
                 later == {j \in first : j > i /\ Len(strings[j]) = Len(s)}
             IN  IF Len(strings[i]) = Len(s) THEN i
                 ELSE IF later = {} THEN NOWHERE ELSE Min(later)
-----------------------------------------------------------------------------
(***************************************************************************)
(* The texts.                                                              *)
(***************************************************************************)
Alphabet == CASE kind = "type" -> Letters [] kind = "utf8" -> Bytes [] OTHER -> InternedBytes

VerifiedTexts == {s \in SeqOf(InternedBytes, MaxLength["intern"]) : verifyUTF8String(s)}

Init ==
    /\ kind \in DOMAIN MaxLength
    /\ text = <<>>
    /\ rest \in Rests[kind]
    /\ chain \in IF kind = "intern" THEN SeqOf(VerifiedTexts, 2) ELSE { <<>> }
    /\ signed \in Signedness

\* Method types, which are the longest, get two characters more.
Next ==
    /\ Len(text) < MaxLength[kind] + (IF kind = "type" /\ text # <<>> /\ text[1] = "(" THEN 2 ELSE 0)
    /\ \E c \in Alphabet : text' = Append(text, c)
    /\ UNCHANGED <<kind, rest, chain, signed>>

Spec == Init /\ [][Next]_vars
-----------------------------------------------------------------------------
(***************************************************************************)
(* Properties.                                                             *)
(***************************************************************************)
\* The walks through a text accept the class names, field types and method
\* types of the grammar and no others, and count the words of the
\* parameters, whatever memory holds behind the text.
TypesAreVerified ==
    kind = "type" =>
        /\ (text # <<>> /\ text[1] # "[") => (verifyClassName(text) = IsClassName(text))
        /\ verifyFieldType(text, 1, Len(text)) = IsFieldType(text)
        /\ verifyMethodType(text) =
             IF MethodParameters(text) = {} THEN -1
             ELSE LET types == CHOOSE ts \in MethodParameters(text) : TRUE
                  IN  WordsBefore(types, Len(types) + 1)

\* The parameter map of a method type has a bit for the word of each object
\* or array and for no word of a primitive: the collector scans a frame's
\* parameters by it.
ParameterMapIsRight ==
    kind = "type" =>
        \A types \in MethodParameters(text) : \A isInstance \in BOOLEAN :
            createMethodTypeParameterMap(text, isInstance) =
                {WordsBefore(types, n) + (IF isInstance THEN 1 ELSE 0) :
                    n \in {i \in DOMAIN types : types[i][1] \notin Primitives}}
                \cup IF isInstance THEN {0} ELSE {}

\* A string decodes to characters it is a concatenation of encodings of.
Decodes(s) == Encodes(s, instantiateCharacterArray(s))

\* No string, verified or not, fills an array with more characters than it has
\* bytes; a verified one is made of whole characters, and decodes where char is
\* unsigned or its characters are single bytes.
VerifiedStringsDecode ==
    kind = "utf8" =>
        /\ getUnicodeLength(text, 1) <= Len(text)
        /\ verifyUTF8String(text) /\ (signed => \A i \in DOMAIN text : text[i] < 128) =>
               Decodes(text)

\* javaString.c: "conversion from UTF8 strings to Unicode", "character is
\* 110...  10...", "character is 1110... 10... 10...": every verified string
\* decodes, whatever the compiler takes char for.
EveryVerifiedStringDecodes ==
    kind \in {"utf8", "intern"} /\ verifyUTF8String(text) => Decodes(text)

\* A text is found exactly when it was interned, be char signed or not: the
\* first string of the chain made from the same bytes, however many begin
\* with its characters and whatever follows them in memory.  A text that
\* spells a character with more bytes than it needs is not asked for.
InternedIsFound ==
    kind = "intern" /\ verifyUTF8String(text) =>
        LET strings == [i \in DOMAIN chain |-> instantiateCharacterArray(chain[i])]
            equal   == {i \in DOMAIN chain : chain[i] = text}
        IN  findMatchingUnicodeString(strings, instantiateCharacterArray(text)) =
                IF equal = {} THEN NOWHERE ELSE Min(equal)
=============================================================================
