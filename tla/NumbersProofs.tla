---------------------------- MODULE NumbersProofs ----------------------------
(* What NumbersProperties says of the numbers holds for all widths of byte, *)
(* int and long, so for 8, 32 and 64 bits too, which no model checker can   *)
(* enumerate.  Computed is an invariant of the program; the rest is the     *)
(* arithmetic of what an operation computes once.                           *)
EXTENDS NumbersProperties, WellFoundedInduction, TLAPS

-----------------------------------------------------------------------------
(* Integers.                                                               *)

LEMMA DivMod ==
  ASSUME NEW a \in Int, NEW m \in Nat \ {0}
  PROVE  /\ a \div m \in Int /\ a % m \in 0 .. m - 1
         /\ a = m * (a \div m) + (a % m)
BY SMT

LEMMA DivModUnique ==
  ASSUME NEW m \in Nat \ {0}, NEW q \in Int, NEW r \in 0 .. m - 1
  PROVE  (m * q + r) \div m = q /\ (m * q + r) % m = r
BY SMT

LEMMA Least ==
  ASSUME NEW S \in SUBSET Nat, S # {}
  PROVE  \E m \in S : \A n \in S : m <= n
<1>1. PICK m \in S : \A n \in S : <<n, m>> \notin OpToRel(<, Nat)
  BY NatLessThanWellFounded, WFMin
<1>2. ASSUME NEW n \in S PROVE m <= n
  <2>1. <<n, m>> \in Nat \X Nat /\ <<n, m>>[1] = n /\ <<n, m>>[2] = m
    OBVIOUS
  <2>2. ~(n < m)
    BY <1>1, <2>1 DEF OpToRel
  <2> QED BY <2>2
<1> QED BY <1>2

(* Two numbers less than m apart that differ by a multiple of m are equal. *)
LEMMA OneMultiple ==
  ASSUME NEW m \in Nat \ {0}, NEW x \in Int, NEW y \in Int, NEW k \in Int,
         x - y = k * m, x - y < m, y - x < m
  PROVE  x = y
<1>1. k < 1 /\ k > -1 BY SMT
<1>2. k = 0 BY <1>1, SMT
<1> QED BY <1>2, SMT

-----------------------------------------------------------------------------
(* Powers of two and the types that have them for a width.                 *)

LEMMA Powers ==
  ASSUME NEW n \in 0 .. LongBits
  PROVE  /\ 2^n \in Nat \ {0}
         /\ n < LongBits => 2^(n + 1) = 2 * 2^n
         /\ n > 0 => 2^(n - 1) \in Nat \ {0} /\ 2^n = 2 * 2^(n - 1)
<1>1. LongBits \in Nat BY WidthAssumption
<1>2. n < LongBits => 2^(n + 1) = 2 * 2^n BY <1>1, PowerAssumption
<1>3. ASSUME n > 0 PROVE 2^(n - 1) \in Nat \ {0} /\ 2^n = 2 * 2^(n - 1)
  <2>1. n - 1 \in 0 .. LongBits - 1 /\ n - 1 \in 0 .. LongBits /\ (n - 1) + 1 = n
    BY <1>1, <1>3
  <2> QED BY <2>1, PowerAssumption
<1> QED BY <1>1, <1>2, <1>3, PowerAssumption

(* A narrower width divides a wider one.  Induction on b, by the least     *)
(* counterexample.                                                         *)
LEMMA PowerDivides ==
  ASSUME NEW a \in 0 .. LongBits, NEW b \in 0 .. LongBits, a <= b
  PROVE  \E k \in Nat \ {0} : 2^b = k * 2^a
<1>0. LongBits \in Nat BY WidthAssumption
<1> DEFINE Not == {n \in Nat : n <= LongBits /\ a <= n /\ ~\E k \in Nat \ {0} : 2^n = k * 2^a}
<1>1. SUFFICES ASSUME Not # {} PROVE FALSE
  <2>1. b \in Nat /\ b <= LongBits BY <1>0
  <2>2. b \notin Not => \E k \in Nat \ {0} : 2^b = k * 2^a BY <2>1
  <2> QED BY <2>2
<1>2. PICK n \in Not : \A i \in Not : n <= i BY <1>1, Least
<1>3. n # a
  <2>1. 2^a = 1 * 2^a BY Powers
  <2> QED BY <1>2, <2>1
<1>4. n \in 0 .. LongBits /\ n > a /\ n - 1 \in Nat /\ n - 1 < n /\ a <= n - 1
  BY <1>0, <1>2, <1>3
<1>5. n - 1 \notin Not BY <1>2, <1>4
<1>6. PICK k \in Nat \ {0} : 2^(n - 1) = k * 2^a BY <1>0, <1>4, <1>5
<1>7. 2^n = 2 * (k * 2^a) BY <1>4, <1>6, Powers
<1>8. 2 * (k * 2^a) = (2 * k) * 2^a BY Powers, SMT
<1>9. 2^n = (2 * k) * 2^a /\ 2 * k \in Nat \ {0} BY <1>7, <1>8
<1> QED BY <1>2, <1>9

LEMMA Wide ==
  ASSUME NEW t \in NumberTypes
  PROVE  /\ Bits(t) \in 1 .. LongBits
         /\ 2^Bits(t) \in Nat \ {0} /\ 2^(Bits(t) - 1) \in Nat \ {0}
         /\ 2^Bits(t) = 2 * 2^(Bits(t) - 1)
<1>1. Bits(t) \in 1 .. LongBits BY WidthAssumption DEF Bits, NumberTypes
<1>2. LongBits \in Nat BY WidthAssumption
<1> QED BY <1>1, <1>2, Powers

LEMMA Limits ==
  ASSUME NEW t \in NumberTypes
  PROVE  /\ Lowest(t) \in Int /\ Highest(t) \in Int
         /\ Highest(t) = Lowest(t) + 2^Bits(t) - 1
         /\ Lowest(t) <= 0 /\ Highest(t) >= 0
         /\ Highest(t) <= 2^Bits(t) - 1
         /\ Lowest(t) >= -(2^(Bits(t) - 1)) /\ Highest(t) >= 2^(Bits(t) - 1) - 1
BY Wide, SMT DEF Lowest, Highest

-----------------------------------------------------------------------------
(* Convert(t, v) is the number of type t that differs from v by a multiple *)
(* of the power of two of t; there is exactly one.                         *)

LEMMA ConvertIn ==
  ASSUME NEW t \in NumberTypes, NEW v \in Int
  PROVE  /\ Convert(t, v) \in Lowest(t) .. Highest(t)
         /\ Convert(t, v) \in Int
         /\ \E k \in Int : Convert(t, v) = v + k * 2^Bits(t)
<1> DEFINE m == 2^Bits(t)  q == v \div m  r == v % m
<1>1. m \in Nat \ {0} BY Wide
<1> HIDE DEF m
<1>2. q \in Int /\ r \in 0 .. m - 1 /\ v = m * q + r BY <1>1, DivMod
<1>3. Convert(t, v) = IF r > Highest(t) THEN r - m ELSE r BY DEF Convert, m
<1>4. /\ Highest(t) \in Int /\ Lowest(t) \in Int /\ Highest(t) = Lowest(t) + m - 1
      /\ Lowest(t) <= 0 /\ Highest(t) >= 0
  BY Limits DEF m
<1> HIDE DEF q, r
<1>5. CASE r > Highest(t)
  <2>1. Convert(t, v) = v + (-q - 1) * m BY <1>1, <1>2, <1>3, <1>5, SMT
  <2>0. r \in Int /\ r < m BY <1>1, <1>2
  <2>2. Convert(t, v) \in Lowest(t) .. Highest(t) BY <1>1, <1>3, <1>4, <1>5, <2>0, SMT
  <2>3. -q - 1 \in Int BY <1>2
  <2> QED BY <1>2, <1>4, <2>1, <2>2, <2>3 DEF m
<1>6. CASE ~(r > Highest(t))
  <2>1. Convert(t, v) = v + (-q) * m BY <1>1, <1>2, <1>3, <1>6, SMT
  <2>0. r \in Int /\ r >= 0 BY <1>1, <1>2
  <2>2. Convert(t, v) \in Lowest(t) .. Highest(t) BY <1>3, <1>4, <1>6, <2>0, SMT
  <2>3. -q \in Int BY <1>2
  <2> QED BY <1>2, <1>4, <2>1, <2>2, <2>3 DEF m
<1> QED BY <1>5, <1>6

LEMMA ConvertIs ==
  ASSUME NEW t \in NumberTypes, NEW v \in Int, NEW x \in Lowest(t) .. Highest(t),
         NEW k \in Int, x = v + k * 2^Bits(t)
  PROVE  Convert(t, v) = x
<1> DEFINE m == 2^Bits(t)
<1>1. m \in Nat \ {0} BY Wide
<1>2. PICK j \in Int : Convert(t, v) = v + j * m BY ConvertIn
<1>3. x = v + k * m OBVIOUS
<1>4. Highest(t) \in Int /\ Lowest(t) \in Int /\ Highest(t) = Lowest(t) + m - 1 BY Limits
<1>5. Convert(t, v) \in Lowest(t) .. Highest(t) BY ConvertIn
<1> HIDE DEF m
<1>6. Convert(t, v) - x = (j - k) * m BY <1>1, <1>2, <1>3, SMT
<1>7. /\ Convert(t, v) \in Int /\ x \in Int /\ j - k \in Int
      /\ Convert(t, v) - x < m /\ x - Convert(t, v) < m BY <1>1, <1>4, <1>5, SMT
<1> QED BY <1>1, <1>6, <1>7, OneMultiple

LEMMA ConvertKeeps ==
  ASSUME NEW t \in NumberTypes, NEW v \in Lowest(t) .. Highest(t)
  PROVE  Convert(t, v) = v
<1>1. v \in Int /\ v = v + 0 * 2^Bits(t) BY Limits, Wide
<1> QED BY <1>1, ConvertIs

LEMMA ConvertSame ==
  ASSUME NEW t \in NumberTypes, NEW v \in Int, NEW w \in Int,
         NEW k \in Int, v = w + k * 2^Bits(t)
  PROVE  Convert(t, v) = Convert(t, w)
<1>1. PICK j \in Int : Convert(t, v) = v + j * 2^Bits(t) BY ConvertIn
<1>2. Convert(t, v) = w + (k + j) * 2^Bits(t) /\ k + j \in Int BY <1>1, Wide, SMT
<1>3. Convert(t, v) \in Lowest(t) .. Highest(t) BY ConvertIn
<1> QED BY <1>2, <1>3, ConvertIs

(* A conversion to a wider type before is not seen.                        *)
LEMMA ConvertThrough ==
  ASSUME NEW t \in NumberTypes, NEW u \in NumberTypes, NEW v \in Int,
         Bits(t) <= Bits(u)
  PROVE  Convert(t, Convert(u, v)) = Convert(t, v)
<1> DEFINE m == 2^Bits(t)  w == Convert(u, v)
<1>1. PICK n \in Nat \ {0} : 2^Bits(u) = n * m
  <2>1. Bits(t) \in 0 .. LongBits /\ Bits(u) \in 0 .. LongBits BY Wide, WidthAssumption
  <2> QED BY <2>1, PowerDivides
<1>2. PICK j \in Int : w = v + j * 2^Bits(u) BY ConvertIn
<1>3. w \in Int /\ m \in Nat \ {0} BY ConvertIn, Wide
<1>4. w = v + j * (n * m) BY <1>1, <1>2
<1> HIDE DEF m, w
<1>5. w = v + (j * n) * m /\ j * n \in Int BY <1>3, <1>4, SMT
<1> QED BY <1>3, <1>5, ConvertSame DEF m, w

-----------------------------------------------------------------------------
(* What the tables find for a left operand that is a number.               *)

(* A number has no not.                                                    *)
Plain == UnaryOps \ {"not"}

LEMMA NumberOperand ==
  ASSUME NEW v \in Operand, v.type \in NumberTypes
  PROVE  /\ v.data \in Lowest(v.type) .. Highest(v.type) /\ v.data \in Int
         /\ v = [type |-> v.type, data |-> v.data]
         /\ Read(v.type, v) = v.data
<1>1. v \in Numbers
  <2>1. \A t \in NumberTypes : t \notin {"bool", "error", "string", "array", "object", "callable", "void"}
    BY DEF NumberTypes
  <2> QED BY <2>1 DEF Operand, Void
<1>2. PICK t \in NumberTypes : v \in [type : {t}, data : Lowest(t) .. Highest(t)]
  BY <1>1 DEF Numbers
<1>3. v.type = t /\ v.data \in Lowest(t) .. Highest(t) /\ v = [type |-> v.type, data |-> v.data]
  BY <1>2
<1>4. v.data \in Int BY <1>3, Limits
<1>5. Read(v.type, v) = v.data BY <1>3, ConvertKeeps DEF Read
<1> QED BY <1>3, <1>4, <1>5

LEMMA NumberTable ==
  ASSUME NEW v, v.type \in NumberTypes
  PROVE  op_tbl(v) = NumberOps
BY
    DEF op_tbl, OpTblArr, NumberTypes, OpTblByte, OpTblChar, OpTblInt, OpTblUint, OpTblLong, OpTblUlong

LEMMA UnaryIs ==
  ASSUME NEW v, v.type \in NumberTypes, NEW o \in Plain
  PROVE  CallUnary(o, v) = UnaryOf(v.type, o, v)
<1>1. o \in op_tbl(v) BY NumberTable DEF NumberOps, Plain
<1> QED
  BY <1>1
    DEF CallUnary, NumberTypes, ByteUnary, CharUnary, IntUnary, UintUnary, LongUnary, UlongUnary

LEMMA LogicIs ==
  ASSUME NEW v, v.type \in NumberTypes, NEW w, NEW o \in BitwiseOps \cup CompareOps
  PROVE  CallBinary(v, o, v, w) = LogicOf(v.type, o, v, w)
<1>1. o \in op_tbl(v) BY NumberTable DEF NumberOps
<1> QED
  BY <1>1
    DEF CallBinary, NumberTypes, ByteLogic, CharLogic, IntLogic, UintLogic, LongLogic, UlongLogic

LEMMA ArithIs ==
  ASSUME NEW v, v.type \in NumberTypes, NEW w, NEW o \in ShiftOps \cup ArithOps
  PROVE  CallBinary(v, o, v, w) = ArithOf(v.type, o, v, w)
<1>1. o \in op_tbl(v) BY NumberTable DEF NumberOps
<1>2. o \notin BitwiseOps \cup CompareOps
  BY DEF BitwiseOps, CompareOps, ShiftOps, ArithOps
<1> QED
  BY <1>1, <1>2
    DEF CallBinary, NumberTypes, ByteArith, CharArith, IntArith, UintArith, LongArith, UlongArith

LEMMA CastIs ==
  ASSUME NEW v, v.type \in NumberTypes, NEW to
  PROVE  CallCast(to, v) = CastOf(v.type, to, v)
<1>1. "cast" \in op_tbl(v) BY NumberTable DEF NumberOps
<1> QED
  BY <1>1
    DEF CallCast, NumberTypes, ByteCast, CharCast, IntCast, UintCast, LongCast, UlongCast

(* Every operation leaves its result with the operands it had.             *)
LEMMA Computes == Spec => []Computed
<1>1. Init => Computed
 
    BY
      DEF Init, Computed, UnaryOps, BinaryOps, BitwiseOps, CompareOps, ShiftOps, ArithOps, Targets, NumberTypes
<1>2. Computed /\ [Next]_vars => Computed'
  <2> SUFFICES ASSUME Computed, [Next]_vars PROVE Computed' OBVIOUS
  <2> USE DEF Computed, UnaryOps, BinaryOps, BitwiseOps, CompareOps, ShiftOps, ArithOps, Targets, NumberTypes
  <2>v. Void \in Operand BY DEF Operand
  <2>1. CASE UnaryStmt BY <2>1, <2>v DEF UnaryStmt, Ready
  <2>2. CASE BinaryStmt BY <2>2 DEF BinaryStmt, Ready, Trapped
  <2>3. CASE Trap BY <2>3 DEF Trap, Ready, Trapped, Traps
  <2>4. CASE GreaterStmt BY <2>4 DEF GreaterStmt, Ready
  <2>5. CASE CastStmt BY <2>5, <2>v DEF CastStmt, Ready
  <2>6. CASE IndexStmt BY <2>6 DEF IndexStmt, Ready
  <2>7. CASE MakeStmt BY <2>7, <2>v DEF MakeStmt, Ready
  <2>12. CASE MakeFails BY <2>12 DEF MakeFails, Ready
  <2>8. CASE LengthStmt BY <2>8, <2>v DEF LengthStmt, Ready
  <2>9. CASE GoOn BY <2>9 DEF GoOn, UseLeft, UseRight, Forget
  <2>10. CASE Dead BY <2>10 DEF Dead, vars, Trapped
  <2>11. CASE UNCHANGED vars BY <2>11 DEF vars, Trapped
  <2> QED BY <2>1, <2>2, <2>3, <2>4, <2>5, <2>6, <2>7, <2>8, <2>9, <2>10, <2>11, <2>12 DEF Next
<1> QED BY <1>1, <1>2, PTL DEF Spec

-----------------------------------------------------------------------------
(* Casts.                                                                  *)

LEMMA PromotedIs ==
  ASSUME NEW t \in NumberTypes
  PROVE  Promoted(t) \in NumberTypes /\ Bits(t) <= Bits(Promoted(t))
BY WidthAssumption DEF Promoted, NumberTypes, Bits

(* What is computed in the promoted type and stored in the type itself.    *)
LEMMA NumberIs ==
  ASSUME NEW t \in NumberTypes, NEW x \in Int
  PROVE  /\ Number(t, Convert(Promoted(t), x)) = Number(t, x)
         /\ Number(t, x).type = t
         /\ Number(t, x).data \in Lowest(t) .. Highest(t)
         /\ (Number(t, x).data - x) % 2^Bits(t) = 0
         /\ x \in Lowest(t) .. Highest(t) => Number(t, x).data = x
<1>1. Number(t, Convert(Promoted(t), x)) = Number(t, x)
  BY PromotedIs, ConvertThrough DEF Number
<1>2. Number(t, x).data = Convert(t, x) /\ Number(t, x).type = t BY DEF Number
<1>3. (Number(t, x).data - x) % 2^Bits(t) = 0
  <2> DEFINE m == 2^Bits(t)
  <2>1. m \in Nat \ {0} BY Wide
  <2>2. PICK k \in Int : Convert(t, x) = x + k * m BY ConvertIn
  <2> HIDE DEF m
  <2>3. Convert(t, x) - x = m * k + 0 BY <2>1, <2>2, SMT
  <2>4. 0 \in 0 .. m - 1 BY <2>1
  <2>5. (m * k + 0) % m = 0 BY <2>1, <2>4, DivModUnique
  <2> QED BY <1>2, <2>3, <2>5 DEF m
<1> QED BY <1>1, <1>2, <1>3, ConvertIn, ConvertKeeps

LEMMA NumberCast ==
  ASSUME NEW v, v.type \in NumberTypes, NEW t \in NumberTypes
  PROVE  CallCast(t, v) = Number(t, Read(v.type, v))
<1>1. CallCast(t, v) = CastOf(v.type, t, v) BY CastIs
<1>2. t \notin {"bool", "void"} BY DEF NumberTypes
<1> QED BY <1>1, <1>2 DEF CastOf

(* op_cast of byte.c ... ulong.c: casts keep what the new type can hold,   *)
(* compose, and lose nothing on the way through a wider type.              *)
THEOREM CastsAreRight == Spec => []CastsCompose
<1>1. Computed => CastsCompose
  <2> SUFFICES ASSUME Computed, op \in NumberTypes, lhs.type \in NumberTypes
               PROVE  /\ lhs.data \in Lowest(op) .. Highest(op) => out.data = lhs.data
                      /\ Bits(op) >= Bits(lhs.type) => CallCast(lhs.type, out) = lhs
                      /\ \A t \in NumberTypes :
                           Bits(t) <= Bits(op) => CallCast(t, out) = CallCast(t, lhs)
    BY DEF CastsCompose
  <2> DEFINE d == lhs.data
  <2>1. /\ d \in Lowest(lhs.type) .. Highest(lhs.type) /\ d \in Int
        /\ lhs = [type |-> lhs.type, data |-> d] /\ Read(lhs.type, lhs) = d
    BY NumberOperand DEF Computed
  <2>2. \A t \in NumberTypes : CallCast(t, lhs) = Number(t, d)
    BY <2>1, NumberCast
  <2>3. out = Number(op, d) BY <2>2 DEF Computed, Targets
  <2>4. out.type = op /\ out.data = Convert(op, d) BY <2>3 DEF Number
  <2>5. Read(op, out) = Convert(op, d) BY <2>1, <2>4, ConvertIn, ConvertKeeps DEF Read
  <2>6. ASSUME NEW t \in NumberTypes, Bits(t) <= Bits(op)
        PROVE  CallCast(t, out) = Number(t, d)
    <3>1. CallCast(t, out) = Number(t, Convert(op, d)) BY <2>4, <2>5, NumberCast
    <3>2. Convert(t, Convert(op, d)) = Convert(t, d) BY <2>1, <2>6, ConvertThrough
    <3> QED BY <3>1, <3>2 DEF Number
  <2>7. d \in Lowest(op) .. Highest(op) => out.data = d BY <2>4, ConvertKeeps
  <2>8. Number(lhs.type, d) = lhs BY <2>1, ConvertKeeps DEF Number
  <2>9. Bits(op) >= Bits(lhs.type) => CallCast(lhs.type, out) = lhs
    <3>1. Bits(op) \in Int /\ Bits(lhs.type) \in Int BY Wide
    <3> QED BY <2>6, <2>8, <3>1
  <2> QED BY <2>2, <2>6, <2>7, <2>9
<1> QED BY <1>1, Computes, PTL

-----------------------------------------------------------------------------
(* Division.                                                               *)

LEMMA QuotientLaw ==
  ASSUME NEW a \in Int, NEW b \in Int \ {0}
  PROVE  LET q == Quotient(a, b)
             r == a - b * q
         IN  /\ q \in Int /\ r \in Int /\ q * b + r = a
             /\ Magnitude(r) < Magnitude(b)
             /\ r # 0 => (r < 0) = (a < 0)
             /\ Magnitude(q) <= Magnitude(a) /\ Magnitude(r) <= Magnitude(a)
             /\ a >= 0 /\ b >= 0 => q >= 0
             /\ q = -a => a = 0 \/ b = -1
<1> DEFINE x == Magnitude(a)  y == Magnitude(b)  d == x \div y  e == x % y
<1>1. x \in Nat /\ y \in Nat \ {0} BY DEF Magnitude
<1>2. d \in Int /\ e \in 0 .. y - 1 /\ x = y * d + e
  <2> HIDE DEF x, y
  <2>1. x \in Int BY <1>1
  <2> QED BY <1>1, <2>1, DivMod
<1>3. d >= 0 /\ d <= x /\ e <= x
  <2> HIDE DEF x, y, d, e
  <2>1. d > -1
    <3> SUFFICES ASSUME d <= -1 PROVE FALSE BY <1>2
    <3>1. y * d <= -y BY <1>1, <1>2, SMT
    <3> QED BY <1>1, <1>2, <3>1
  <2>2. d >= 0 BY <1>2, <2>1
  <2>3. y * d >= d BY <1>1, <1>2, <2>2, SMT
  <2>4. y * d \in Int BY <1>1, <1>2
  <2> QED BY <1>1, <1>2, <2>2, <2>3, <2>4
<1>4. Quotient(a, b) = IF (a < 0) = (b < 0) THEN d ELSE -d BY DEF Quotient
<1> DEFINE q == Quotient(a, b)  r == a - b * q
<1>5. q \in Int BY <1>2, <1>4
<1>6. r = IF a < 0 THEN -e ELSE e
  <2>1. y * d \in Int /\ b * d \in Int BY <1>1, <1>2
  <2>2. CASE b < 0
    <3>0. y = -b BY <2>2 DEF Magnitude
    <3>1. y * d = -(b * d)
      <4>1. (-b) * d = -(b * d) BY <1>2, SMT
      <4> QED BY <3>0, <4>1
    <3>2. CASE a < 0
      <4>1. q = d BY <1>4, <2>2, <3>2
      <4> QED BY <1>2, <2>1, <3>1, <3>2, <4>1 DEF Magnitude
    <3>3. CASE ~(a < 0)
      <4>1. b * q = -(b * d) BY <1>2, <1>4, <2>2, <3>3, SMT
      <4> QED BY <1>2, <2>1, <3>1, <3>3, <4>1 DEF Magnitude
    <3> QED BY <3>2, <3>3
  <2>3. CASE ~(b < 0)
    <3>0. y = b BY <2>3 DEF Magnitude
    <3>1. y * d = b * d BY <3>0
    <3>2. CASE a < 0
      <4>1. b * q = -(b * d) BY <1>2, <1>4, <2>3, <3>2, SMT
      <4> QED BY <1>2, <2>1, <3>1, <3>2, <4>1 DEF Magnitude
    <3>3. CASE ~(a < 0)
      <4>1. q = d BY <1>4, <2>3, <3>3
      <4> QED BY <1>2, <2>1, <3>1, <3>3, <4>1 DEF Magnitude
    <3> QED BY <3>2, <3>3
  <2> QED BY <2>2, <2>3
<1>7. q * b + r = a /\ r \in Int BY <1>5, SMT
<1>8. Magnitude(r) = e BY <1>2, <1>6 DEF Magnitude
<1>9. Magnitude(q) = d BY <1>2, <1>3, <1>4 DEF Magnitude
<1>10. r # 0 => (r < 0) = (a < 0) BY <1>2, <1>6
<1>11. a >= 0 /\ b >= 0 => q >= 0 BY <1>3, <1>4
<1>12. q = -a => a = 0 \/ b = -1
  <2> SUFFICES ASSUME q = -a, a # 0 PROVE b = -1 OBVIOUS
  <2>1. d = x BY <1>9 DEF Magnitude
  <2>2. x > 0 BY <1>1 DEF Magnitude
  <2>3. y = 1
    <3> HIDE DEF x, y, d, e
    <3> SUFFICES ASSUME y >= 2 PROVE FALSE BY <1>1
    <3>1. y * x >= 2 * x BY <1>1, SMT
    <3> QED BY <1>1, <1>2, <2>1, <2>2, <3>1
  <2>4. b = 1 \/ b = -1 BY <2>3 DEF Magnitude
  <2>5. ASSUME b = 1 PROVE FALSE
    <3>1. q = a
      <4>1. CASE a < 0 BY <1>4, <2>1, <2>5, <4>1 DEF Magnitude
      <4>2. CASE ~(a < 0) BY <1>4, <2>1, <2>5, <4>2 DEF Magnitude
      <4> QED BY <4>1, <4>2
    <3> QED BY <3>1
  <2> QED BY <2>4, <2>5
<1> QED BY <1>1, <1>2, <1>3, <1>5, <1>7, <1>8, <1>9, <1>10, <1>11, <1>12

LEMMA ArithData ==
  ASSUME NEW v \in Operand, NEW w \in Operand, v.type \in NumberTypes, w.type = v.type
  PROVE  LET a == v.data  b == w.data  t == v.type
         IN  /\ CallBinary(v, "add", v, w) = Number(t, a + b)
             /\ CallBinary(v, "sub", v, w) = Number(t, a - b)
             /\ CallBinary(v, "mul", v, w) = Number(t, a * b)
             /\ b # 0 => CallBinary(v, "div", v, w) = Number(t, Quotient(a, b))
             /\ b # 0 => CallBinary(v, "rem", v, w) = Number(t, a - b * Quotient(a, b))
<1> DEFINE a == v.data  b == w.data  t == v.type
<1>1. a \in Int /\ b \in Int /\ Read(t, v) = a /\ Read(t, w) = b BY NumberOperand
<1>2. \A o \in ArithOps : CallBinary(v, o, v, w) = Number(t, Arithmetic(o, Promoted(t), a, b))
  <2> TAKE o \in ArithOps
  <2>1. o \notin ShiftOps BY DEF ArithOps, ShiftOps
  <2> QED BY <1>1, <2>1, ArithIs DEF ArithOf, Checked
<1>3. b # 0 => Quotient(a, b) \in Int /\ a - b * Quotient(a, b) \in Int
  BY <1>1, QuotientLaw
<1>4. a + b \in Int /\ a - b \in Int /\ a * b \in Int BY <1>1
<1>5. CallBinary(v, "add", v, w) = Number(t, a + b)
  BY <1>2, <1>4, NumberIs DEF Arithmetic, ArithOps
<1>6. CallBinary(v, "sub", v, w) = Number(t, a - b)
  BY <1>2, <1>4, NumberIs DEF Arithmetic, ArithOps
<1>7. CallBinary(v, "mul", v, w) = Number(t, a * b)
  BY <1>2, <1>4, NumberIs DEF Arithmetic, ArithOps
<1>8. b # 0 => CallBinary(v, "div", v, w) = Number(t, Quotient(a, b))
  BY <1>2, <1>3, NumberIs DEF Arithmetic, ArithOps
<1>9. b # 0 => CallBinary(v, "rem", v, w) = Number(t, a - b * Quotient(a, b))
  BY <1>2, <1>3, NumberIs DEF Arithmetic, ArithOps
<1> QED BY <1>5, <1>6, <1>7, <1>8, <1>9

(* Only the lowest number divided by -1 has no quotient of its type, and   *)
(* there the process traps.                                                *)
LEMMA QuotientFits ==
  ASSUME NEW t \in NumberTypes, NEW a \in Lowest(t) .. Highest(t),
         NEW b \in Lowest(t) .. Highest(t), b # 0,
         ~(IsSigned(t) /\ a = Lowest(t) /\ b = -1)
  PROVE  /\ Quotient(a, b) \in Lowest(t) .. Highest(t)
         /\ a - b * Quotient(a, b) \in Lowest(t) .. Highest(t)
<1> DEFINE q == Quotient(a, b)  r == a - b * q
<1>1. a \in Int /\ b \in Int \ {0} BY Limits
<1>2. /\ q \in Int /\ r \in Int
      /\ Magnitude(q) <= Magnitude(a) /\ Magnitude(r) <= Magnitude(a)
      /\ r # 0 => (r < 0) = (a < 0)
      /\ a >= 0 /\ b >= 0 => q >= 0
      /\ q = -a => a = 0 \/ b = -1
  BY <1>1, QuotientLaw
<1>3. Lowest(t) \in Int /\ Highest(t) \in Int /\ Lowest(t) <= 0 /\ Highest(t) >= 0
  BY Limits
<1>4. ~IsSigned(t) => Lowest(t) = 0 BY DEF Lowest
<1>5. IsSigned(t) => Highest(t) = -Lowest(t) - 1
  <2>1. 2^(Bits(t) - 1) \in Nat BY Wide
  <2> QED BY <2>1 DEF Highest, Lowest
<1> HIDE DEF q, r
<1>6. r \in Lowest(t) .. Highest(t)
  <2>1. CASE a < 0 BY <1>1, <1>2, <1>3, <2>1 DEF Magnitude
  <2>2. CASE a >= 0 BY <1>1, <1>2, <1>3, <2>2 DEF Magnitude
  <2> QED BY <1>1, <2>1, <2>2
<1>7. q \in Lowest(t) .. Highest(t)
  <2>1. CASE ~IsSigned(t) BY <1>1, <1>2, <1>3, <1>4, <2>1 DEF Magnitude
  <2>2. CASE IsSigned(t) /\ a # Lowest(t) BY <1>1, <1>2, <1>3, <1>5, <2>2 DEF Magnitude
  <2>3. CASE IsSigned(t) /\ a = Lowest(t)
    <3>1. a < 0 /\ q # -a BY <1>1, <1>2, <1>3, <1>5, <2>3
    <3> QED BY <1>1, <1>2, <1>3, <1>5, <2>3, <3>1 DEF Magnitude
  <2> QED BY <2>1, <2>2, <2>3
<1> QED BY <1>6, <1>7 DEF q, r

(* op_div and op_rem of byte.c ... ulong.c: whenever a division does not   *)
(* trap, quotient and remainder give the dividend back.                    *)
THEOREM DivisionIsRight == Spec => []DivisionLaw
<1>1. Computed => DivisionLaw
  <2> SUFFICES ASSUME Computed, op = "rem", alive, Same PROVE DivisionLaw
    BY DEF DivisionLaw
  <2> DEFINE t == lhs.type  a == lhs.data  b == rhs.data  q == Quotient(a, b)
  <2>1. t \in NumberTypes /\ rhs.type = t /\ lhs \in Operand /\ rhs \in Operand
    BY DEF Same, Computed
  <2>2. a \in Lowest(t) .. Highest(t) /\ b \in Lowest(t) .. Highest(t) /\ a \in Int /\ b \in Int
    BY <2>1, NumberOperand
  <2>3. out = CallBinary(lhs, "rem", lhs, rhs) /\ ~Trapped("rem")
    BY DEF Computed, BinaryOps, ArithOps
  <2>4. b # 0 /\ ~(IsSigned(t) /\ a = Lowest(t) /\ b = -1)
    <3>1. ~Traps("rem", Promoted(t), a, b) BY <2>1, <2>3 DEF Trapped
    <3>2. IsSigned(t) => Promoted(t) = t BY DEF IsSigned, Promoted
    <3> QED BY <3>1, <3>2 DEF Traps
  <2>5. q \in Lowest(t) .. Highest(t) /\ a - b * q \in Lowest(t) .. Highest(t)
    BY <2>1, <2>2, <2>4, QuotientFits
  <2>6. q \in Int /\ a - b * q \in Int BY <2>1, <2>2, <2>4, QuotientLaw
  <2>7. CallBinary(lhs, "div", lhs, rhs).data = q
    BY <2>1, <2>4, <2>5, <2>6, ArithData, NumberIs
  <2>8. out.data = a - b * q BY <2>1, <2>3, <2>4, <2>5, <2>6, ArithData, NumberIs
  <2> HIDE DEF q
  <2>9. /\ q * b + (a - b * q) = a
        /\ Magnitude(a - b * q) < Magnitude(b)
        /\ a - b * q # 0 => (a - b * q < 0) = (a < 0)
    BY <2>2, <2>4, QuotientLaw DEF q
  <2> QED BY <2>7, <2>8, <2>9 DEF DivisionLaw
<1> QED BY <1>1, Computes, PTL

-----------------------------------------------------------------------------
(* Indices and lengths.                                                    *)

LEMMA IndexIs ==
  ASSUME NEW v \in Operand, v.type \in NumberTypes,
         NEW n \in Nat \ {0}, n <= 2^(LongBits - 1)
  PROVE  /\ v.data \in 0 .. n - 1 => as_index(v) = v.data /\ as_index(v) # NoIndex
         /\ v.data \notin 0 .. n - 1 => as_index(v) = NoIndex \/ as_index(v) >= n
<1> DEFINE d == v.data  h == 2^(LongBits - 1)
<1>1. /\ h \in Nat \ {0} /\ 2^LongBits = 2 * h /\ n <= h /\ n \in Nat
      /\ Highest("ulong") = 2 * h - 1 /\ Lowest("ulong") = 0
  <2>1. "ulong" \in NumberTypes /\ Bits("ulong") = LongBits /\ ~IsSigned("ulong")
    BY DEF NumberTypes, Bits, IsSigned
  <2>2. h \in Nat \ {0} /\ 2^LongBits = 2 * h BY <2>1, Wide
  <2> HIDE DEF h
  <2>3. n <= h /\ n \in Nat BY DEF h
  <2> QED BY <2>1, <2>2, <2>3 DEF Highest, Lowest
<1>2. d \in Int /\ -h <= d /\ d <= 2 * h - 1
  <2> DEFINE t == v.type  m == 2^Bits(t)
  <2>1. PICK k \in Nat \ {0} : 2^LongBits = k * m
    <3>1. Bits(t) \in 0 .. LongBits /\ LongBits \in 0 .. LongBits /\ Bits(t) <= LongBits
      BY Wide, WidthAssumption
    <3> QED BY <3>1, PowerDivides
  <2>2. m \in Nat \ {0} /\ m = 2 * 2^(Bits(t) - 1) BY Wide
  <2>3. Lowest(t) >= -(2^(Bits(t) - 1)) /\ Highest(t) <= m - 1 /\ Lowest(t) \in Int /\ Highest(t) \in Int
    BY Limits
  <2>4. d \in Lowest(t) .. Highest(t) BY NumberOperand
  <2>5. 2^(Bits(t) - 1) \in Nat BY Wide
  <2> HIDE DEF m, d, h
  <2>6. m <= k * m BY <2>2, SMT
  <2>7. m <= 2 * h BY <1>1, <2>1, <2>6
  <2> QED BY <1>1, <2>2, <2>3, <2>4, <2>5, <2>7
<1>3. as_index(v) = Convert("ulong", d) BY NumberOperand DEF as_index
<1>4. NoIndex = 2 * h - 1 BY <1>1 DEF NoIndex
<1>5. "ulong" \in NumberTypes /\ Bits("ulong") = LongBits BY DEF NumberTypes, Bits
<1>6. CASE d >= 0
  <2>1. d \in Lowest("ulong") .. Highest("ulong") BY <1>1, <1>2, <1>6
  <2>2. as_index(v) = d BY <1>3, <1>5, <2>1, ConvertKeeps
  <2> HIDE DEF d, h
  <2>3. d \in 0 .. n - 1 => d # NoIndex BY <1>1, <1>2, <1>4
  <2> QED BY <1>1, <1>2, <1>6, <2>2, <2>3 DEF d
<1>7. CASE d < 0
  <2>1. d + 1 * 2^LongBits \in Lowest("ulong") .. Highest("ulong") /\ d + 1 * 2^LongBits >= h
    BY <1>1, <1>2, <1>7
  <2>2. as_index(v) = d + 1 * 2^LongBits BY <1>2, <1>3, <1>5, <2>1, ConvertIs
  <2> HIDE DEF d, h
  <2>3. as_index(v) >= n /\ d \notin 0 .. n - 1 BY <1>1, <1>2, <1>7, <2>1, <2>2
  <2> QED BY <2>3 DEF d
<1> QED BY <1>2, <1>6, <1>7

(* __x86_64_proxy_value_as_index and the op_index of array.c and object.c: *)
(* the element is found exactly at the index that the number is; the array *)
(* of __x86_64_make_array has exactly the length that the number is.       *)
THEOREM IndexIsExact == Spec => []IndexExact
<1>1. Computed => IndexExact
  <2> SUFFICES ASSUME Computed PROVE IndexExact OBVIOUS
  <2>1. ASSUME op = "index", lhs.type \in {"array", "object"}
        PROVE  out = IF IsNumberIn(rhs, 0 .. (lhs.data - 1)) THEN Element(rhs.data)
                                                             ELSE NewError
    <3> DEFINE i == as_index(rhs)  n == lhs.data
    <3>1. out = IF i = NoIndex \/ i >= n THEN NewError ELSE Element(i)
      <4>1. "index" \in op_tbl(lhs) BY <2>1 DEF op_tbl, OpTblArr, OpTblArray, OpTblObject
      <4> QED BY <2>1, <4>1 DEF Computed, CallIndex, ArrayIndex, ObjectIndex
    <3>2. n \in 1 .. MaxLength
      <4>1. lhs.type \notin NumberTypes BY <2>1 DEF NumberTypes
      <4> QED BY <2>1, <4>1 DEF Computed, Operand, Numbers, Void
    <3>3. n \in Nat \ {0} /\ n <= 2^(LongBits - 1)
      <4>1. "ulong" \in NumberTypes /\ Bits("ulong") = LongBits BY DEF NumberTypes, Bits
      <4>2. 2^(LongBits - 1) \in Nat BY <4>1, Wide
      <4> QED BY <3>2, <4>2, WidthAssumption
    <3>4. CASE rhs.type \notin NumberTypes
      <4>1. i = NoIndex BY <3>4 DEF as_index
      <4> QED BY <3>1, <3>4, <4>1 DEF IsNumberIn
    <3>5. CASE rhs.type \in NumberTypes
      <4>1. rhs.data \in Int /\ rhs \in Operand BY <3>5, NumberOperand DEF Computed
      <4>2. CASE rhs.data \in 0 .. n - 1
        <5>1. i = rhs.data /\ i # NoIndex BY <3>3, <3>5, <4>1, <4>2, IndexIs
        <5> QED BY <3>1, <3>3, <3>5, <4>1, <4>2, <5>1 DEF IsNumberIn
      <4>3. CASE rhs.data \notin 0 .. n - 1
        <5>1. i = NoIndex \/ i >= n BY <3>3, <3>5, <4>1, <4>3, IndexIs
        <5> QED BY <3>1, <4>3, <5>1 DEF IsNumberIn
      <4> QED BY <4>2, <4>3
    <3> QED BY <3>4, <3>5
  <2>2. ASSUME op = "make"
        PROVE  CASE IsNumberIn(lhs, 1 .. MaxLength) -> alive /\ out = Array(lhs.data)
                 [] IsNumberIn(lhs, {0})            -> alive /\ out = Void
                 [] lhs.type \notin NumberTypes     -> alive /\ out = NewError
                 [] OTHER                           -> ~alive \/ out = NewError
    <3> DEFINE n == as_index(lhs)  d == lhs.data  m == MaxLength + 1
    <3>1. IF TooLong(n) THEN ~alive ELSE alive /\ out = MakeArray(n, Void)
      BY <2>2 DEF Computed
    <3>2. ASSUME n = NoIndex PROVE alive /\ out = NewError
      <4> HIDE DEF n
      <4>1. ~TooLong(n) BY <3>2 DEF TooLong
      <4>2. NoIndex # 0
        <5>1. "ulong" \in NumberTypes /\ Bits("ulong") = LongBits BY DEF NumberTypes, Bits
        <5>2. 2^(LongBits - 1) \in Nat \ {0} /\ 2^LongBits = 2 * 2^(LongBits - 1) BY <5>1, Wide
        <5> QED BY <5>2 DEF NoIndex
      <4>3. MakeArray(n, Void) = NewError BY <3>2, <4>2 DEF MakeArray
      <4> QED BY <3>1, <4>1, <4>3
    <3>3. CASE lhs.type \notin NumberTypes
      <4>1. n = NoIndex BY <3>3 DEF as_index
      <4> QED BY <3>2, <3>3, <4>1 DEF IsNumberIn
    <3>4. CASE lhs.type \in NumberTypes
      <4>1. d \in Int /\ lhs \in Operand BY <3>4, NumberOperand DEF Computed
      <4>2. m \in Nat \ {0} /\ m <= 2^(LongBits - 1) /\ MaxLength \in Nat
        <5>1. "ulong" \in NumberTypes /\ Bits("ulong") = LongBits BY DEF NumberTypes, Bits
        <5>2. 2^(LongBits - 1) \in Nat BY <5>1, Wide
        <5> QED BY <5>2, WidthAssumption
      <4>3. CASE d \in 0 .. m - 1
        <5>1. n = d /\ n # NoIndex BY <3>4, <4>1, <4>2, <4>3, IndexIs
        <5>2. ~TooLong(n) BY <4>1, <4>2, <4>3, <5>1 DEF TooLong
        <5>3. alive /\ out = IF d = 0 THEN Void ELSE Array(d)
          BY <3>1, <5>1, <5>2 DEF MakeArray
        <5>4. d = 0 \/ d \in 1 .. MaxLength BY <4>1, <4>2, <4>3
        <5> QED BY <3>4, <5>3, <5>4 DEF IsNumberIn
      <4>4. CASE d \notin 0 .. m - 1
        <5>1. n = NoIndex \/ n >= m BY <3>4, <4>1, <4>2, <4>4, IndexIs
        <5>2. n \in Int
          <6>1. "ulong" \in NumberTypes BY DEF NumberTypes
          <6>2. n = Convert("ulong", d) BY <3>4, <4>1, NumberOperand DEF as_index
          <6> QED BY <4>1, <6>1, <6>2, ConvertIn
        <5>3. ~alive \/ out = NewError
          <6>1. n # NoIndex => TooLong(n) BY <4>2, <5>1, <5>2 DEF TooLong
          <6> QED BY <3>1, <3>2, <6>1
        <5>4. ~IsNumberIn(lhs, 1 .. MaxLength) /\ ~IsNumberIn(lhs, {0})
          BY <4>1, <4>2, <4>4 DEF IsNumberIn
        <5> QED BY <3>4, <5>3, <5>4
      <4> QED BY <4>3, <4>4
    <3> QED BY <3>3, <3>4
  <2> QED BY <2>1, <2>2 DEF IndexExact
<1> QED BY <1>1, Computes, PTL

-----------------------------------------------------------------------------
(* Shifts.                                                                 *)

LEMMA ShiftIs ==
  ASSUME NEW v \in Operand, NEW w \in Operand, v.type \in NumberTypes, w.type = v.type
  PROVE  LET f == 2^(w.data % Bits(Promoted(v.type)))
         IN  /\ f \in Nat \ {0}
             /\ CallBinary(v, "bit_shl", v, w) = Number(v.type, v.data * f)
             /\ CallBinary(v, "bit_shr", v, w) = Number(v.type, v.data \div f)
<1> DEFINE a == v.data  b == w.data  t == v.type  p == Promoted(t)  n == b % Bits(p)
           f == 2^n
<1>1. a \in Int /\ b \in Int /\ Read(t, v) = a /\ Read(t, w) = b BY NumberOperand
<1>2. p \in NumberTypes /\ Bits(p) \in 1 .. LongBits /\ LongBits \in Nat
  BY PromotedIs, Wide, WidthAssumption
<1>3. n \in 0 .. LongBits
  <2>1. Bits(p) \in Nat \ {0} BY <1>2
  <2> HIDE DEF p, b
  <2>2. n \in 0 .. Bits(p) - 1 BY <1>1, <2>1, DivMod
  <2> QED BY <1>2, <2>2
<1>4. f \in Nat \ {0} BY <1>3, Powers
<1>5. \A o \in ShiftOps : CallBinary(v, o, v, w) = Number(t, Shift(o, p, a, b))
  BY <1>1, ArithIs DEF ArithOf, Checked
<1>6. CallBinary(v, "bit_shl", v, w) = Number(t, Convert(p, a * f))
  BY <1>5 DEF Shift, ShiftOps, Count
<1>7. CallBinary(v, "bit_shr", v, w) = Number(t, a \div f)
  BY <1>5 DEF Shift, ShiftOps, Count
<1>8. a * f \in Int BY <1>1, <1>4
<1> QED BY <1>4, <1>6, <1>7, <1>8, NumberIs

LEMMA ShiftRightFits ==
  ASSUME NEW t \in NumberTypes, NEW a \in Lowest(t) .. Highest(t), NEW p \in Nat \ {0}
  PROVE  /\ a \div p \in Lowest(t) .. Highest(t)
         /\ (a \div p) * p <= a /\ a < ((a \div p) + 1) * p
<1> DEFINE s == a \div p  r == a % p
<1>1. a \in Int /\ Lowest(t) \in Int /\ Highest(t) \in Int /\ Lowest(t) <= 0 /\ Highest(t) >= 0
  BY Limits
<1>2. s \in Int /\ r \in 0 .. p - 1 /\ a = p * s + r BY <1>1, DivMod
<1> HIDE DEF s, r
<1>3. s * p <= a /\ a < (s + 1) * p
  <2>1. (s + 1) * p = p * s + p /\ s * p = p * s /\ p * s \in Int BY <1>2, SMT
  <2> QED BY <1>1, <1>2, <2>1
<1>4. CASE a >= 0
  <2>1. s > -1
    <3> SUFFICES ASSUME s + 1 <= 0 PROVE FALSE BY <1>2
    <3>1. (s + 1) * p <= 0 BY <1>2, SMT
    <3> QED BY <1>1, <1>2, <1>3, <1>4, <3>1
  <2>2. s * p >= s BY <1>2, <2>1, SMT
  <2>3. s * p \in Int BY <1>2
  <2> QED BY <1>1, <1>2, <1>3, <1>4, <2>1, <2>2, <2>3 DEF s
<1>5. CASE a < 0
  <2>1. s < 0
    <3> SUFFICES ASSUME s >= 0 PROVE FALSE BY <1>2
    <3>1. s * p >= 0 BY <1>2, SMT
    <3> QED BY <1>1, <1>2, <1>3, <1>5, <3>1
  <2>2. (s + 1) * p <= s + 1 BY <1>2, <2>1, SMT
  <2>3. (s + 1) * p \in Int BY <1>2
  <2> QED BY <1>1, <1>2, <1>3, <1>5, <2>1, <2>2, <2>3 DEF s
<1> QED BY <1>1, <1>3, <1>4, <1>5 DEF s

(* op_bit_shl and op_bit_shr of byte.c ... ulong.c: a shift multiplies, or *)
(* divides and rounds down, by a power of two.                             *)
THEOREM ShiftsAreRight == Spec => []ShiftsScale
<1>1. Computed => ShiftsScale
  <2> DEFINE t == lhs.type  a == lhs.data  f == 2^(rhs.data % Bits(Promoted(t)))
  <2> SUFFICES ASSUME Computed, Same, op \in ShiftOps
               PROVE  /\ op = "bit_shl" => Congruent(a * f)
                      /\ op = "bit_shr" => /\ out.type = t
                                           /\ out.data * f <= a /\ a < (out.data + 1) * f
    BY DEF ShiftsScale
  <2>1. t \in NumberTypes /\ rhs.type = t /\ lhs \in Operand /\ rhs \in Operand
    BY DEF Same, Computed
  <2>2. a \in Lowest(t) .. Highest(t) /\ a \in Int BY <2>1, NumberOperand
  <2>3. f \in Nat \ {0} BY <2>1, ShiftIs
  <2>4. alive /\ out = CallBinary(lhs, op, lhs, rhs)
    BY DEF Computed, BinaryOps, ShiftOps
  <2>5. ASSUME op = "bit_shl" PROVE Congruent(a * f)
    <3>1. out = Number(t, a * f) BY <2>1, <2>4, <2>5, ShiftIs
    <3>2. a * f \in Int BY <2>2, <2>3
    <3> HIDE DEF f
    <3> QED BY <2>1, <3>1, <3>2, NumberIs DEF Congruent
  <2>6. ASSUME op = "bit_shr" PROVE out.type = t /\ out.data * f <= a /\ a < (out.data + 1) * f
    <3>1. out = Number(t, a \div f) BY <2>1, <2>4, <2>6, ShiftIs
    <3> HIDE DEF f
    <3>2. /\ a \div f \in Lowest(t) .. Highest(t)
          /\ (a \div f) * f <= a /\ a < ((a \div f) + 1) * f
      BY <2>1, <2>2, <2>3, ShiftRightFits
    <3>3. a \div f \in Int BY <2>2, <2>3, DivMod
    <3>4. out.data = a \div f /\ out.type = t BY <2>1, <3>1, <3>2, <3>3, NumberIs
    <3> QED BY <3>2, <3>4
  <2> QED BY <2>5, <2>6
<1> QED BY <1>1, Computes, PTL

-----------------------------------------------------------------------------
(* Bits.  Low is the recursive function of Bitwise; that there is a        *)
(* function that recurs so (Sums, LowIs) is by the least counterexample.   *)

Low(o, t, a, b) ==
  CHOOSE low : low = [n \in 0 .. Bits(t) |->
    IF n = 0 THEN 0
             ELSE low[n - 1] + 2^(n - 1) * BitOf(o, Bit(a, n - 1), Bit(b, n - 1))]

LEMMA BitwiseIs ==
  ASSUME NEW o, NEW t, NEW a, NEW b
  PROVE  Bitwise(o, t, a, b) = Convert(t, Low(o, t, a, b)[Bits(t)])
BY DEF Bitwise, Low

LEMMA Sums ==
  ASSUME NEW B \in Nat, NEW c \in [1 .. B -> Int]
  PROVE  \E g \in [0 .. B -> Int] :
           g[0] = 0 /\ \A n \in 1 .. B : g[n] = g[n - 1] + c[n]
<1> DEFINE Has(m) == \E g \in [0 .. m -> Int] :
                       g[0] = 0 /\ \A n \in 1 .. m : g[n] = g[n - 1] + c[n]
           Not == {m \in Nat : m <= B /\ ~Has(m)}
<1>1. SUFFICES ASSUME Not # {} PROVE FALSE
  <2>1. B \notin Not BY <1>1
  <2>2. Has(B)
    <3> HIDE DEF Has
    <3> QED BY <2>1
  <2> QED BY <2>2
<1>2. PICK m \in Not : \A i \in Not : m <= i BY <1>1, Least
<1>3. m # 0
  <2>1. [n \in 0 .. 0 |-> 0] \in [0 .. 0 -> Int] BY SMT
  <2>2. [n \in 0 .. 0 |-> 0][0] = 0 BY SMT
  <2>3. 1 .. 0 = {} BY SMT
  <2>4. Has(0) BY <2>1, <2>2, <2>3
  <2> QED BY <1>2, <2>4
<1>4. m - 1 \in Nat /\ m - 1 <= B /\ m - 1 < m /\ m \in 1 .. B BY <1>2, <1>3
<1>5. m - 1 \notin Not
  <2> HIDE DEF Not
  <2> QED BY <1>2, <1>4
<1>6. PICK g \in [0 .. m - 1 -> Int] :
        g[0] = 0 /\ \A n \in 1 .. m - 1 : g[n] = g[n - 1] + c[n]
  BY <1>4, <1>5
<1> DEFINE f == [n \in 0 .. m |-> IF n = m THEN g[m - 1] + c[m] ELSE g[n]]
<1>7. f \in [0 .. m -> Int]
  <2>1. g[m - 1] + c[m] \in Int BY <1>4, <1>6
  <2>2. ASSUME NEW n \in 0 .. m, n # m PROVE g[n] \in Int BY <1>4, <1>6, <2>2
  <2> QED BY <2>1, <2>2
<1>8. f[0] = 0 BY <1>4, <1>6
<1>9. ASSUME NEW n \in 1 .. m PROVE f[n] = f[n - 1] + c[n]
  <2>1. n \in 0 .. m /\ n - 1 \in 0 .. m /\ n - 1 # m BY <1>4, <1>9
  <2>2. f[n - 1] = g[n - 1] BY <2>1
  <2>3. CASE n = m BY <2>1, <2>2, <2>3
  <2>4. CASE n # m
    <3>1. n \in 1 .. m - 1 BY <1>4, <1>9, <2>4
    <3>2. f[n] = g[n] BY <2>1, <2>4
    <3> QED BY <1>6, <2>2, <3>1, <3>2
  <2> QED BY <2>3, <2>4
<1>10. Has(m) BY <1>7, <1>8, <1>9
<1> QED BY <1>2, <1>10

LEMMA BitIs ==
  ASSUME NEW v \in Int, NEW n \in 0 .. LongBits
  PROVE  Bit(v, n) \in 0 .. 1
<1>1. 2^n \in Nat \ {0} BY Powers
<1>2. v \div 2^n \in Int BY <1>1, DivMod
<1> QED BY <1>2, SMT DEF Bit

LEMMA LowIs ==
  ASSUME NEW o \in {"bit_xor", "bit_and"}, NEW t \in NumberTypes, NEW a \in Int, NEW b \in Int
  PROVE  /\ Low(o, t, a, b)[0] = 0
         /\ \A n \in 1 .. Bits(t) :
              Low(o, t, a, b)[n] = Low(o, t, a, b)[n - 1]
                + 2^(n - 1) * BitOf(o, Bit(a, n - 1), Bit(b, n - 1))
<1> DEFINE B == Bits(t)
           term(n) == 2^(n - 1) * BitOf(o, Bit(a, n - 1), Bit(b, n - 1))
           c == [n \in 1 .. B |-> term(n)]
           F(low) == [n \in 0 .. B |-> IF n = 0 THEN 0 ELSE low[n - 1] + term(n)]
<1>1. B \in Nat BY Wide, WidthAssumption
<1>2. c \in [1 .. B -> Int]
  <2>1. ASSUME NEW n \in 1 .. B PROVE term(n) \in Int
    <3>1. n - 1 \in 0 .. LongBits BY Wide, WidthAssumption
    <3>2. Bit(a, n - 1) \in 0 .. 1 /\ Bit(b, n - 1) \in 0 .. 1 /\ 2^(n - 1) \in Nat
      BY <3>1, BitIs, Powers
    <3>3. BitOf(o, Bit(a, n - 1), Bit(b, n - 1)) \in Int BY <3>2, SMT DEF BitOf
    <3> QED BY <3>2, <3>3
  <2> HIDE DEF term, B
  <2> QED BY <2>1
<1>3. PICK g \in [0 .. B -> Int] : g[0] = 0 /\ \A n \in 1 .. B : g[n] = g[n - 1] + c[n]
  BY <1>1, <1>2, Sums
<1>4. g = F(g)
  <2> HIDE DEF term, B
  <2>1. ASSUME NEW n \in 0 .. B PROVE g[n] = IF n = 0 THEN 0 ELSE g[n - 1] + term(n)
    <3>1. CASE n = 0 BY <1>3, <3>1
    <3>2. CASE n # 0
      <4>1. n \in 1 .. B BY <1>1, <3>2
      <4> QED BY <1>3, <3>2, <4>1
    <3> QED BY <3>1, <3>2
  <2> QED BY <1>3, <2>1
<1> DEFINE low == CHOOSE f : f = F(f)
<1>5. low = F(low) BY <1>4
<1>6. Low(o, t, a, b) = low BY DEF Low
<1> HIDE DEF low, term, B
<1>7. low[0] = 0 BY <1>1, <1>5
<1>8. ASSUME NEW n \in 1 .. B PROVE low[n] = low[n - 1] + term(n)
  <2>1. n \in 0 .. B /\ n # 0 BY <1>1
  <2>2. low[n] = F(low)[n] BY <1>5
  <2>3. F(low)[n] = low[n - 1] + term(n) BY <2>1
  <2> QED BY <2>2, <2>3
<1> QED BY <1>6, <1>7, <1>8 DEF term, B

LEMMA BitStep ==
  ASSUME NEW a \in Int, NEW m \in Nat \ {0}
  PROVE  a % (2 * m) = (a % m) + m * ((a \div m) % 2)
<1> DEFINE q == a \div m  r == a % m  h == q \div 2  e == q % 2
<1>1. q \in Int /\ r \in 0 .. m - 1 /\ a = m * q + r BY DivMod
<1> HIDE DEF q, r
<1>2. h \in Int /\ e \in 0 .. 1 /\ q = 2 * h + e BY <1>1, SMT
<1> HIDE DEF h, e
<1>3. a = (2 * m) * h + (m * e + r) BY <1>1, <1>2, SMT
<1>4. m * e + r \in 0 .. 2 * m - 1
  <2>1. CASE e = 0 BY <1>1, <2>1
  <2>2. CASE e = 1 BY <1>1, <2>2
  <2> QED BY <1>2, <2>1, <2>2
<1>5. 2 * m \in Nat \ {0} BY SMT
<1>6. a % (2 * m) = m * e + r BY <1>2, <1>3, <1>4, <1>5, DivModUnique
<1>7. m * e \in Int /\ r \in Int BY <1>1, <1>2
<1>8. a % (2 * m) = r + m * e BY <1>6, <1>7
<1> QED BY <1>8 DEF q, r, e

(* A sum is the bits that differ and twice the bits that both have.        *)
LEMMA XorIsSum ==
  ASSUME NEW t \in NumberTypes, NEW a \in Int, NEW b \in Int
  PROVE  LET x == Low("bit_xor", t, a, b)[Bits(t)]
             y == Low("bit_and", t, a, b)[Bits(t)]
         IN  x \in Int /\ y \in Int /\ x + 2 * y = (a % 2^Bits(t)) + (b % 2^Bits(t))
<1> DEFINE B == Bits(t)  X == Low("bit_xor", t, a, b)  Y == Low("bit_and", t, a, b)
           Right(n) == /\ X[n] \in Int /\ Y[n] \in Int
                       /\ X[n] + 2 * Y[n] = (a % 2^n) + (b % 2^n)
           Not == {n \in Nat : n <= B /\ ~Right(n)}
<1>1. B \in Nat /\ B \in 1 .. LongBits /\ LongBits \in Nat BY Wide, WidthAssumption
<1>2. SUFFICES ASSUME Not # {} PROVE FALSE
  <2>1. Right(B)
    <3> HIDE DEF Right, B
    <3> QED BY <1>1, <1>2
  <2> QED BY <2>1
<1>3. PICK n \in Not : \A i \in Not : n <= i BY <1>2, Least
<1>4. n # 0
  <2>1. 2^0 = 1 BY PowerAssumption
  <2>2. a % 1 = 0 /\ b % 1 = 0 BY SMT
  <2>3. X[0] = 0 /\ Y[0] = 0 BY LowIs
  <2>4. Right(0) BY <2>1, <2>2, <2>3
  <2> QED BY <1>3, <2>4
<1> DEFINE i == n - 1
<1>5. i \in Nat /\ i < n /\ i <= B /\ n \in 1 .. B /\ i \in 0 .. LongBits /\ i + 1 = n /\ i < LongBits
  <2> HIDE DEF B
  <2> QED BY <1>1, <1>3, <1>4
<1>6. Right(i)
  <2>1. i \notin Not
    <3> HIDE DEF Not
    <3> QED BY <1>3, <1>5
  <2> HIDE DEF Right, B, i
  <2> QED BY <1>5, <2>1
<1> DEFINE m == 2^i  p == Bit(a, i)  q == Bit(b, i)
<1>7. m \in Nat \ {0} /\ 2^n = 2 * m BY <1>5, Powers
<1>8. p \in 0 .. 1 /\ q \in 0 .. 1 BY <1>5, BitIs
<1>9. a % 2^n = (a % m) + m * p /\ b % 2^n = (b % m) + m * q BY <1>7, BitStep DEF Bit
<1>10. X[n] = X[i] + m * ((p + q) % 2) BY <1>5, LowIs DEF BitOf
<1>11. Y[n] = Y[i] + m * (p * q) BY <1>5, LowIs DEF BitOf
<1>12. a % m \in Int /\ b % m \in Int BY <1>7, DivMod
<1>13. ((p + q) % 2) + 2 * (p * q) = p + q /\ (p + q) % 2 \in Int /\ p * q \in Int
  <2> HIDE DEF p, q
  <2>1. p = 0 \/ p = 1 BY <1>8
  <2>2. q = 0 \/ q = 1 BY <1>8
  <2> QED BY <2>1, <2>2, SMT
<1> DEFINE u == (p + q) % 2  w == p * q
<1>14. Right(n)
  <2>1. X[i] \in Int /\ Y[i] \in Int /\ X[i] + 2 * Y[i] = (a % m) + (b % m) BY <1>6
  <2>2. X[n] = X[i] + m * u /\ Y[n] = Y[i] + m * w BY <1>10, <1>11
  <2>3. u + 2 * w = p + q /\ u \in Int /\ w \in Int BY <1>13
  <2> HIDE DEF u, w, p, q, m, X, Y, i
  <2>4. m * u + 2 * (m * w) = m * p + m * q
    <3>1. m * (u + 2 * w) = m * u + 2 * (m * w) BY <1>7, <2>3, SMT
    <3>2. m * (p + q) = m * p + m * q BY <1>7, <1>8, SMT
    <3> QED BY <2>3, <3>1, <3>2
  <2>5. m * u \in Int /\ m * w \in Int /\ m * p \in Int /\ m * q \in Int
    BY <1>7, <1>8, <2>3
  <2>6. X[n] \in Int /\ Y[n] \in Int BY <2>1, <2>2, <2>5
  <2>7. X[n] + 2 * Y[n] = ((a % m) + m * p) + ((b % m) + m * q)
    BY <1>12, <2>1, <2>2, <2>4, <2>5
  <2> QED BY <1>9, <2>6, <2>7
<1> QED BY <1>3, <1>14

LEMMA LogicData ==
  ASSUME NEW v \in Operand, NEW w \in Operand, v.type \in NumberTypes, w.type = v.type
  PROVE  LET t == v.type
             p == Promoted(t)
             x == Low("bit_xor", p, v.data, w.data)[Bits(p)]
             y == Low("bit_and", p, v.data, w.data)[Bits(p)]
         IN  /\ CallBinary(v, "bit_xor", v, w) = Number(t, x)
             /\ LogicOf(t, "bit_and", v, w) = Number(t, y)
             /\ x \in Int /\ y \in Int
             /\ x + 2 * y = (v.data % 2^Bits(p)) + (w.data % 2^Bits(p))
<1> DEFINE a == v.data  b == w.data  t == v.type  p == Promoted(t)
           x == Low("bit_xor", p, a, b)[Bits(p)]
           y == Low("bit_and", p, a, b)[Bits(p)]
<1>1. a \in Int /\ b \in Int /\ Read(t, v) = a /\ Read(t, w) = b BY NumberOperand
<1>2. p \in NumberTypes BY PromotedIs
<1>3. x \in Int /\ y \in Int /\ x + 2 * y = (a % 2^Bits(p)) + (b % 2^Bits(p))
  BY <1>1, <1>2, XorIsSum
<1>4. \A o \in {"bit_xor", "bit_and"} :
        LogicOf(t, o, v, w) = Number(t, Convert(p, Low(o, p, a, b)[Bits(p)]))
  BY <1>1, BitwiseIs DEF LogicOf, Checked, CompareOps
<1>5. CallBinary(v, "bit_xor", v, w) = LogicOf(t, "bit_xor", v, w)
  BY LogicIs DEF BitwiseOps
<1>6. LogicOf(t, "bit_xor", v, w) = Number(t, x) BY <1>3, <1>4, NumberIs
<1>7. LogicOf(t, "bit_and", v, w) = Number(t, y) BY <1>3, <1>4, NumberIs
<1> QED BY <1>3, <1>5, <1>6, <1>7

LEMMA ModPromoted ==
  ASSUME NEW t \in NumberTypes, NEW a \in Int
  PROVE  \E k \in Int : a % 2^Bits(Promoted(t)) = a + k * 2^Bits(t)
<1> DEFINE p == Promoted(t)  m == 2^Bits(t)  M == 2^Bits(p)
<1>1. PICK n \in Nat \ {0} : M = n * m
  <2>1. p \in NumberTypes /\ Bits(t) <= Bits(p) BY PromotedIs
  <2>2. Bits(t) \in 0 .. LongBits /\ Bits(p) \in 0 .. LongBits
    BY <2>1, Wide, WidthAssumption
  <2> QED BY <2>1, <2>2, PowerDivides
<1>2. m \in Nat \ {0} /\ M \in Nat \ {0} BY PromotedIs, Wide
<1> HIDE DEF m, M
<1> DEFINE q == a \div M
<1>3. q \in Int /\ a % M \in Int /\ a = M * q + (a % M) BY <1>2, DivMod
<1> HIDE DEF q
<1>4. (n * m) * q = (q * n) * m /\ (n * m) * q \in Int BY <1>2, <1>3, SMT
<1>5. a % M = a - M * q BY <1>1, <1>3, <1>4
<1>6. a % M = a - (q * n) * m BY <1>1, <1>4, <1>5
<1>7. (-(q * n)) * m = -((q * n) * m) /\ -(q * n) \in Int BY <1>2, <1>3, SMT
<1>8. a % M = a + (-(q * n)) * m BY <1>1, <1>4, <1>6, <1>7
<1> QED BY <1>7, <1>8 DEF m, M

LEMMA XorModular ==
  ASSUME NEW v \in Operand, NEW w \in Operand, v.type \in NumberTypes, w.type = v.type
  PROVE  LET z == v.data + w.data - 2 * LogicOf(v.type, "bit_and", v, w).data
         IN  z \in Int /\ CallBinary(v, "bit_xor", v, w) = Number(v.type, z)
<1> DEFINE a == v.data  b == w.data  t == v.type  p == Promoted(t)  m == 2^Bits(t)
           x == Low("bit_xor", p, a, b)[Bits(p)]
           y == Low("bit_and", p, a, b)[Bits(p)]
           c == LogicOf(t, "bit_and", v, w).data
<1>1. a \in Int /\ b \in Int BY NumberOperand
<1>2. /\ CallBinary(v, "bit_xor", v, w) = Number(t, x)
      /\ c = Convert(t, y)
      /\ x \in Int /\ y \in Int
      /\ x + 2 * y = (a % 2^Bits(p)) + (b % 2^Bits(p))
  <2>1. LogicOf(t, "bit_and", v, w) = Number(t, y) BY LogicData
  <2>2. c = Convert(t, y) BY <2>1 DEF Number
  <2> QED BY <2>2, LogicData
<1> HIDE DEF x, y, c
<1>3. PICK i \in Int : c = y + i * m BY <1>2, ConvertIn
<1>4. PICK j \in Int : a % 2^Bits(p) = a + j * m BY <1>1, ModPromoted
<1>5. PICK k \in Int : b % 2^Bits(p) = b + k * m BY <1>1, ModPromoted
<1>6. m \in Nat \ {0} BY Wide
<1> DEFINE z == a + b - 2 * c
<1> HIDE DEF m, a, b, p
<1>7. x + 2 * y = (a + j * m) + (b + k * m) BY <1>2, <1>4, <1>5
<1>8. c \in Int /\ z \in Int BY <1>1, <1>2, <1>3, <1>6
<1>9. x = z + (j + k + 2 * i) * m
  <2>1. (j + k + 2 * i) * m = j * m + k * m + 2 * (i * m) BY <1>6, SMT
  <2>2. j * m \in Int /\ k * m \in Int /\ i * m \in Int BY <1>6
  <2> QED BY <1>1, <1>2, <1>3, <1>7, <1>8, <2>1, <2>2
<1>10. j + k + 2 * i \in Int OBVIOUS
<1>11. Convert(t, x) = Convert(t, z) BY <1>2, <1>8, <1>9, <1>10, ConvertSame DEF m
<1> QED BY <1>2, <1>8, <1>11 DEF Number, a, b, c

-----------------------------------------------------------------------------
(* The arithmetic of byte.c ... ulong.c is that of the integers modulo the *)
(* power of two of the type, whatever the promotions do on the way.        *)
THEOREM NumbersAreModular == Spec => []Modular
<1>1. Computed => Modular
  <2> SUFFICES ASSUME Computed PROVE Modular OBVIOUS
  <2> DEFINE a == lhs.data  b == rhs.data  t == lhs.type
  <2>1. \A x \in Int : t \in NumberTypes /\ out = Number(t, x) => Congruent(x)
    BY NumberIs DEF Congruent
  <2>2. t \in NumberTypes => a \in Int /\ Read(t, lhs) = a BY NumberOperand DEF Computed
  <2>3. ASSUME t \in NumberTypes, op \in {"minus", "bit_not", "inc", "dec"}
        PROVE  out = Number(t, Unary(op, Promoted(t), a))
    BY <2>2, <2>3, UnaryIs DEF Computed, UnaryOf, UnaryOps, Plain
  <2>4. op = "minus" /\ t \in NumberTypes => Congruent(-a)
    BY <2>1, <2>2, <2>3, NumberIs DEF Unary
  <2>5. op = "bit_not" /\ t \in NumberTypes => Congruent(-a - 1)
    BY <2>1, <2>2, <2>3, NumberIs DEF Unary
  <2>6. op = "inc" /\ t \in NumberTypes => Congruent(a + 1)
    BY <2>1, <2>2, <2>3, NumberIs DEF Unary
  <2>7. op = "dec" /\ t \in NumberTypes => Congruent(a - 1)
    BY <2>1, <2>2, <2>3, NumberIs DEF Unary
  <2>8. \A o \in {"add", "sub", "mul", "bit_xor"} : op = o => out = CallBinary(lhs, o, lhs, rhs)
    BY DEF Computed, BinaryOps, ArithOps, BitwiseOps
  <2>9. Same => /\ t \in NumberTypes /\ rhs.type = t /\ lhs \in Operand /\ rhs \in Operand
                /\ a \in Int /\ b \in Int
    BY NumberOperand DEF Same, Computed
  <2>10. Same => a + b \in Int /\ a - b \in Int /\ a * b \in Int BY <2>9
  <2>11. op = "add" /\ Same => Congruent(a + b) BY <2>1, <2>8, <2>9, <2>10, ArithData
  <2>12. op = "sub" /\ Same => Congruent(a - b) BY <2>1, <2>8, <2>9, <2>10, ArithData
  <2>13. op = "mul" /\ Same => Congruent(a * b) BY <2>1, <2>8, <2>9, <2>10, ArithData
  <2>14. op = "bit_xor" /\ Same =>
           Congruent(a + b - 2 * LogicOf(t, "bit_and", lhs, rhs).data)
    BY <2>1, <2>8, <2>9, XorModular
  <2> QED BY <2>4, <2>5, <2>6, <2>7, <2>11, <2>12, <2>13, <2>14 DEF Modular
<1> QED BY <1>1, Computes, PTL
=============================================================================
