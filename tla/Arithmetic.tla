------------------------------ MODULE Arithmetic -----------------------------
(* The integers of the virtual machine: ints are unsigned words of Width bits *)
(* (32 in the code), longs are pairs of such words, and the handlers and      *)
(* macros make the two's complement operations of Java from them.  Each step  *)
(* computes an operation as the code does and as Java defines it.             *)
(* Shifting a word by Width or more is what the x86 does: the count is taken  *)
(* modulo Width.                                                              *)
EXTENDS Integers, Bitwise

CONSTANTS Width,       \* bits of a word, a power of two
          Words,       \* words the operands are made of
          Operations   \* those computed
VARIABLES x, y,        \* the operands, [high, low]; an int is the low word
          result, expected
vars == <<x, y, result, expected>>

M == 2 ^ Width
Top == M \div 2
Word(n) == n % M
(* A cast to INT32 and back.                                                  *)
Signed(w) == IF w < Top THEN w ELSE w - M

ShiftLeft(w, n)  == Word(w * 2 ^ (n % Width))
ShiftRight(w, n) == w \div 2 ^ (n % Width)
SignedShiftRight(w, n) == Word(Signed(w) \div 2 ^ (n % Width))
Bits(op, w, v) ==
    CASE op = "and" -> w & v
      [] op = "or"  -> w | v
      [] op = "xor" -> w ^^ v

Carry(b) == IF b THEN 1 ELSE 0
Pair(high, low) == [high |-> Word(high), low |-> Word(low)]

-----------------------------------------------------------------------------
(* As the code computes them.                                                 *)

jlongLessThan(a, b) == a.high < b.high \/ (a.high = b.high /\ a.low < b.low)
jlongGreaterThan(a, b) == jlongLessThan(b, a)
jint2Long(w) == Pair(IF Signed(w) < 0 THEN M - 1 ELSE 0, w)
jlong2Int(a) == a.low
jlongIncrement_noCarry(a, b) == Pair(a.high + b.high, a.low + b.low)
jlongIncrement(a, b) ==
    LET low == Word(a.low + b.low) IN Pair(a.high + b.high + Carry(low < b.low), low)
jlongDecrement(a, b) == Pair(a.high - (b.high + Carry(a.low < b.low)), a.low - b.low)
jlongNegate(a) == LET low == Word(-a.low) IN Pair(-(a.high + Carry(low # 0)), low)
jlongBitwise(op, a, b) == Pair(Bits(op, a.high, b.high), Bits(op, a.low, b.low))
(* The shifted parts are thrown away, and the carries of the middle ones with *)
(* them.                                                                      *)
jlongMultiply(a, b) ==
    LET half == 2 ^ (Width \div 2)
        lo(w) == w % half
        hi(w) == w \div half
        first  == Pair(a.low * b.high + b.low * a.high + a.high * b.high, lo(a.low) * lo(b.low))
        second == Pair(0, lo(a.low) * hi(b.low))
        third  == Pair(0, hi(a.low) * lo(b.low))
        fourth == Pair(0, hi(a.low) * hi(b.low))
    IN  jlongIncrement(jlongIncrement(jlongIncrement(first, second), third), fourth)
jlongDivide(a, b)    == Pair(0, a.low \div b.low)
jlongRemainder(a, b) == Pair(0, a.low % b.low)
jlongShiftLeft(a, n) ==
    IF n >= Width THEN Pair(ShiftLeft(a.low, n - Width), 0)
    ELSE Pair(Bits("or", ShiftLeft(a.high, n), ShiftRight(a.low, Width - n)), ShiftLeft(a.low, n))
jlongShiftRight(a, n) ==
    Pair(SignedShiftRight(a.high, n),
         IF n >= Width THEN SignedShiftRight(a.high, n - Width)
         ELSE Bits("or", ShiftRight(a.low, n), ShiftLeft(a.high, Width - n)))
jlongUnsignedShiftRight(a, n) ==
    IF n >= Width THEN Pair(0, ShiftRight(a.high, n - Width))
    ELSE Pair(ShiftRight(a.high, n), Bits("or", ShiftRight(a.low, n), ShiftLeft(a.high, Width - n)))

IntMath(op, w, v) ==
    CASE op = "iadd" -> Word(w + v)
      [] op = "isub" -> Word(w - v)
      [] op = "imul" -> Word(w * v)
      [] op = "iand" -> Bits("and", w, v)
      [] op = "ior"  -> Bits("or", w, v)
      [] op = "ixor" -> Bits("xor", w, v)
      [] op = "ineg" -> Word(-Signed(w))
IntShift(op, w, v) ==
    CASE op = "ishl"  -> Word(Signed(w) * 2 ^ (v % Width))
      [] op = "ishr"  -> SignedShiftRight(w, v)
      [] op = "iushr" -> ShiftRight(w, v)
MathQuick(op, w, v) ==
    CASE op = "iabs" -> IF Signed(w) < 0 THEN Word(-Signed(w)) ELSE w
      [] op = "imin" -> IF Signed(w) > Signed(v) THEN v ELSE w
      [] op = "imax" -> IF Signed(w) < Signed(v) THEN v ELSE w
IntDivide(op, w, v) == IF op = "idiv" THEN w \div v ELSE w % v
Compared(less, greater) == IF less THEN Word(-1) ELSE IF greater THEN 1 ELSE 0

IntOps   == {"iadd", "isub", "imul", "iand", "ior", "ixor", "ineg"}
ShiftOps == {"ishl", "ishr", "iushr"}
QuickOps == {"iabs", "imin", "imax"}
OfInt(w) == [high |-> 0, low |-> w]

Computed(op, a, b) ==
    LET n == b.low % (2 * Width)
    IN  CASE op \in IntOps   -> OfInt(IntMath(op, a.low, b.low))
          [] op \in ShiftOps -> OfInt(IntShift(op, a.low, b.low))
          [] op \in QuickOps -> OfInt(MathQuick(op, a.low, b.low))
          [] op \in {"idiv", "irem"} -> OfInt(IntDivide(op, a.low, b.low))
          [] op = "icmp"  -> OfInt(Compared(a.low < b.low, a.low > b.low))
          [] op = "lcmp"  -> OfInt(Compared(jlongLessThan(a, b), jlongGreaterThan(a, b)))
          [] op = "i2l"   -> jint2Long(a.low)
          [] op = "l2i"   -> OfInt(jlong2Int(a))
          [] op = "ladd"  -> jlongIncrement(a, b)
          [] op = "lsub"  -> jlongDecrement(a, b)
          [] op = "lneg"  -> jlongNegate(a)
          [] op = "land"  -> jlongBitwise("and", a, b)
          [] op = "lor"   -> jlongBitwise("or", a, b)
          [] op = "lxor"  -> jlongBitwise("xor", a, b)
          [] op = "lmul"  -> jlongMultiply(a, b)
          [] op = "ldiv"  -> jlongDivide(a, b)
          [] op = "lrem"  -> jlongRemainder(a, b)
          [] op = "lshl"  -> jlongShiftLeft(a, n)
          [] op = "lshr"  -> jlongShiftRight(a, n)
          [] op = "lushr" -> jlongUnsignedShiftRight(a, n)

-----------------------------------------------------------------------------
(* As Java defines them, on integers.                                         *)

Value(a) == LET n == a.high * M + a.low IN IF a.high < Top THEN n ELSE n - M * M
Long(n)  == [high |-> (n \div M) % M, low |-> n % M]
Truncated(n, d) == IF (n < 0) = (d < 0) THEN (IF d < 0 THEN (-n) \div (-d) ELSE n \div d)
                   ELSE -((IF n < 0 THEN -n ELSE n) \div (IF d < 0 THEN -d ELSE d))
Order(n, m) == OfInt(Word(IF n < m THEN -1 ELSE IF n > m THEN 1 ELSE 0))

Java(op, a, b) ==
    LET i == Signed(a.low)  j == Signed(b.low)
        m == Value(a)       n == Value(b)
        s == b.low % Width  t == b.low % (2 * Width)
    IN  CASE op = "iadd" -> OfInt(Word(i + j))      [] op = "isub" -> OfInt(Word(i - j))
          [] op = "imul" -> OfInt(Word(i * j))      [] op = "ineg" -> OfInt(Word(-i))
          [] op = "iand" -> OfInt(Bits("and", a.low, b.low))
          [] op = "ior"  -> OfInt(Bits("or", a.low, b.low))
          [] op = "ixor" -> OfInt(Bits("xor", a.low, b.low))
          [] op = "ishl" -> OfInt(Word(i * 2 ^ s))
          [] op = "ishr" -> OfInt(Word(i \div 2 ^ s))
          [] op = "iushr" -> OfInt(a.low \div 2 ^ s)
          [] op = "iabs" -> OfInt(Word(IF i < 0 THEN -i ELSE i))
          [] op = "imin" -> OfInt(Word(IF i < j THEN i ELSE j))
          [] op = "imax" -> OfInt(Word(IF i > j THEN i ELSE j))
          [] op = "idiv" -> OfInt(Word(Truncated(i, j)))
          [] op = "irem" -> OfInt(Word(i - j * Truncated(i, j)))
          [] op = "icmp" -> Order(i, j)           [] op = "lcmp" -> Order(m, n)
          [] op = "i2l"  -> Long(i)               [] op = "l2i"  -> OfInt(Word(m))
          [] op = "ladd" -> Long(m + n)           [] op = "lsub" -> Long(m - n)
          [] op = "lneg" -> Long(-m)              [] op = "lmul" -> Long(m * n)
          [] op = "land" -> jlongBitwise("and", a, b)
          [] op = "lor"  -> jlongBitwise("or", a, b)
          [] op = "lxor" -> jlongBitwise("xor", a, b)
          [] op = "ldiv" -> Long(Truncated(m, n))
          [] op = "lrem" -> Long(m - n * Truncated(m, n))
          [] op = "lshl" -> Long(m * 2 ^ t)
          [] op = "lshr" -> Long(m \div 2 ^ t)
          [] op = "lushr" -> Long((a.high * M + a.low) \div 2 ^ t)

(* The operands the code computes the operation rightly for: long shifts by   *)
(* nothing give the two halves mixed, and arithmetic ones by Width or more    *)
(* the wrong sign word.                                                       *)
Sound(op, b) ==
    LET n == b.low % (2 * Width)
    IN  CASE op \in {"lshl", "lushr"} -> n # 0
          [] op = "lshr"              -> n \in 1 .. Width - 1
          [] OTHER                    -> TRUE

Longs == [high : Words, low : Words]
Init == x \in Longs /\ y \in Longs /\ result = OfInt(0) /\ expected = OfInt(0)
Compute(op) ==
    /\ Sound(op, y)
    /\ op \in {"idiv", "irem", "ldiv", "lrem"} => y.low # 0
    /\ result' = Computed(op, x, y)
    /\ expected' = Java(op, x, y)
    /\ UNCHANGED <<x, y>>
Next == \E op \in Operations : Compute(op)
Spec == Init /\ [][Next]_vars

(* The unsigned words and the pairs of them give the two's complement results *)
(* of Java, carries, borrows, signs and shifts over the word boundary         *)
(* included.                                                                  *)
ArithmeticIsExact == result = expected
==============================================================================
