------------------------------- MODULE Numbers -------------------------------
(***************************************************************************)
(* What the operations of a compiled program compute: the number types of  *)
(* x86_64_core/proxy/value at their widths, with C's promotions and x86's  *)
(* shifts, bool, and what happens between different types.                 *)
(*                                                                         *)
(* The program is a sequence of operations on two operands.  An operation  *)
(* is found in the table of its left operand (proxy/registry.c).           *)
(***************************************************************************)
EXTENDS Integers

CONSTANTS ByteBits, IntBits, LongBits,   \* 8, 32 and 64
          MaxLength,                     \* the most elements that memory holds
          MaxString                      \* the longest string of an operand

ASSUME WidthAssumption ==
  /\ ByteBits \in Nat \ {0} /\ IntBits \in Nat /\ LongBits \in Nat
  /\ ByteBits < IntBits /\ IntBits < LongBits
  /\ MaxLength \in Nat /\ MaxString \in Nat
  /\ MaxLength < 2^(LongBits - 1)   \* an element takes more than two bytes

\* What the definition of ^ says of the powers of two that are used.
ASSUME PowerAssumption ==
  /\ 2^0 = 1
  /\ \A n \in 0 .. LongBits : 2^n \in Nat \ {0}
  /\ \A n \in 0 .. (LongBits - 1) : 2^(n + 1) = 2 * 2^n

NumberTypes == {"byte", "char", "int", "uint", "long", "ulong"}

Bits(t) == CASE t \in {"byte", "char"} -> ByteBits
             [] t \in {"int", "uint"} -> IntBits
             [] OTHER -> LongBits
IsSigned(t) == t \in {"int", "long"}

Lowest(t) == IF IsSigned(t) THEN -(2^(Bits(t) - 1)) ELSE 0
Highest(t) == IF IsSigned(t) THEN 2^(Bits(t) - 1) - 1 ELSE 2^Bits(t) - 1

\* C converts an integer to a type of so many bits.
Convert(t, v) ==
  LET m == v % 2^Bits(t)
  IN  IF m > Highest(t) THEN m - 2^Bits(t) ELSE m

\* C computes with what is narrower than an int in an int.
Promoted(t) == IF t \in {"byte", "char"} THEN "int" ELSE t

Number(t, v) == [type |-> t, data |-> Convert(t, v)]
BoolOf(v)    == [type |-> "bool", data |-> IF Convert("byte", v) # 0 THEN 1 ELSE 0]
Truth(p)     == BoolOf(IF p THEN 1 ELSE 0)
Void         == [type |-> "void", data |-> 0]
NewError     == [type |-> "error", data |-> 0]
Element(i)   == [type |-> "element", data |-> i]    \* of an array, member of an object
Array(n)     == [type |-> "array", data |-> n]      \* n elements, as an object has members
String(n)    == [type |-> "string", data |-> n]     \* n characters

Numbers == UNION {[type : {t}, data : Lowest(t) .. Highest(t)] : t \in NumberTypes}
Operand == Numbers \cup [type : {"bool"}, data : 0 .. 1]
                   \cup [type : {"error"}, data : 0 .. 1]      \* which error it is
                   \cup [type : {"string"}, data : 0 .. MaxString]
                   \cup [type : {"array", "object"}, data : 1 .. MaxLength]
                   \cup [type : {"callable"}, data : {0}]
                   \cup {Void}

-------------------------------------------------------------------------------
\* C's operators on integers that are already promoted to type t.

Unary(op, t, a) ==
  Convert(t, CASE op = "plus" -> a
               [] op = "minus" -> -a
               [] op = "bit_not" -> -a - 1
               [] op = "inc" -> a + 1
               [] op = "dec" -> a - 1)

Bit(v, i) == (v \div 2^i) % 2
BitOf(op, p, q) == CASE op = "bit_or" -> IF p + q > 0 THEN 1 ELSE 0
                     [] op = "bit_xor" -> (p + q) % 2
                     [] op = "bit_and" -> p * q

\* The operation on each bit of the two's complement patterns.
Bitwise(op, t, a, b) ==
  LET low[n \in 0 .. Bits(t)] ==
        IF n = 0 THEN 0
                 ELSE low[n - 1] + 2^(n - 1) * BitOf(op, Bit(a, n - 1), Bit(b, n - 1))
  IN  Convert(t, low[Bits(t)])

Compare(op, a, b) == CASE op = "eq" -> a = b
                       [] op = "neq" -> a # b
                       [] op = "less" -> a < b
                       [] op = "less_eq" -> a <= b

\* x86 takes the count of a shift modulo the width of the register.
Count(t, b) == b % Bits(t)
ShiftLogical(op, t, a, b) ==
  IF op = "bit_shl" THEN Convert(t, a * 2^Count(t, b))
                    ELSE (a % 2^Bits(t)) \div 2^Count(t, b)
Shift(op, t, a, b) ==
  IF op = "bit_shl" THEN Convert(t, a * 2^Count(t, b)) ELSE a \div 2^Count(t, b)

Magnitude(a) == IF a < 0 THEN -a ELSE a
QuotientFloor(a, b) == IF b < 0 THEN (-a) \div (-b) ELSE a \div b
Quotient(a, b) ==
  LET q == Magnitude(a) \div Magnitude(b) IN IF (a < 0) = (b < 0) THEN q ELSE -q

Arithmetic(op, t, a, b) ==
  Convert(t, CASE op = "add" -> a + b
               [] op = "sub" -> a - b
               [] op = "mul" -> a * b
               [] op = "div" -> Quotient(a, b)
               [] op = "rem" -> a - b * Quotient(a, b))

\* idiv and div trap when there is no quotient.
Traps(op, t, a, b) ==
  op \in {"div", "rem"} /\ (b = 0 \/ (IsSigned(t) /\ a = Lowest(t) /\ b = -1))

BitwiseOps == {"bit_or", "bit_xor", "bit_and"}
CompareOps == {"eq", "neq", "less", "less_eq"}
ShiftOps   == {"bit_shl", "bit_shr"}
ArithOps   == {"add", "sub", "mul", "div", "rem"}
UnaryOps   == {"plus", "minus", "not", "bit_not", "inc", "dec"}
BinaryOps  == {"or", "and"} \cup BitwiseOps \cup CompareOps \cup ShiftOps \cup ArithOps

\* A binary operation checks the types first.  The error that a mismatch makes
\* is replaced by void.
Checked(self, rsv, result) == IF self.type = rsv.type THEN result ELSE Void

-------------------------------------------------------------------------------
\* The operations of a number type t, whose file reads its operands as x86_64_data_t
\* and passes the result to its init.

Read(t, v) == Convert(t, v.data)

UnaryOf(t, op, self) == Number(t, Unary(op, Promoted(t), Read(t, self)))

LogicOf(t, op, self, rsv) == Checked(self, rsv,
  IF op \in CompareOps
  THEN Truth(Compare(op, Read(t, self), Read(t, rsv)))
  ELSE Number(t, Bitwise(op, Promoted(t), Read(t, self), Read(t, rsv))))

ArithOf(t, op, self, rsv) == Checked(self, rsv,
  IF op \in ShiftOps
  THEN Number(t, Shift(op, Promoted(t), Read(t, self), Read(t, rsv)))
  ELSE Number(t, Arithmetic(op, Promoted(t), Read(t, self), Read(t, rsv))))

CastOf(t, to, self) ==
  CASE to \in NumberTypes -> Number(to, Read(t, self))
    [] to = "bool" -> BoolOf(Read(t, self))
    [] to = "void" -> Void
    [] OTHER -> NewError

ByteUnary(op, self) == UnaryOf("byte", op, self)
ByteLogic(op, self, rsv) == LogicOf("byte", op, self, rsv)
ByteArith(op, self, rsv) == ArithOf("byte", op, self, rsv)
ByteCast(to, self) == CastOf("byte", to, self)

CharUnary(op, self) == UnaryOf("char", op, self)
CharLogic(op, self, rsv) == LogicOf("char", op, self, rsv)
CharArith(op, self, rsv) == ArithOf("char", op, self, rsv)
CharCast(to, self) == CastOf("char", to, self)

IntUnary(op, self) == UnaryOf("int", op, self)
IntLogic(op, self, rsv) == LogicOf("int", op, self, rsv)
IntArith(op, self, rsv) == ArithOf("int", op, self, rsv)
IntCastUnsigned(to, self) == CastOf("uint", to, self)
IntCast(to, self) == CastOf("int", to, self)

UintUnary(op, self) == UnaryOf("uint", op, self)
UintLogic(op, self, rsv) == LogicOf("uint", op, self, rsv)
UintArith(op, self, rsv) == ArithOf("uint", op, self, rsv)
UintCast(to, self) == CastOf("uint", to, self)

LongUnary(op, self) == UnaryOf("long", op, self)
LongLogic(op, self, rsv) == LogicOf("long", op, self, rsv)
LongArithNarrow(op, self, rsv) == ArithOf("int", op, self, rsv)
LongArith(op, self, rsv) == ArithOf("long", op, self, rsv)
LongCast(to, self) == CastOf("long", to, self)

UlongUnary(op, self) == UnaryOf("ulong", op, self)
UlongLogic(op, self, rsv) == LogicOf("ulong", op, self, rsv)
UlongArith(op, self, rsv) == ArithOf("ulong", op, self, rsv)
UlongCast(to, self) == CastOf("ulong", to, self)

-------------------------------------------------------------------------------
\* The types that are not numbers.

BoolUnary(op, self) == Truth(self.data = 0)
BoolBinary(op, self, rsv) == Checked(self, rsv,
  Truth(CASE op = "or" -> self.data = 1 \/ rsv.data = 1
          [] op = "and" -> self.data = 1 /\ rsv.data = 1
          [] OTHER -> Compare(op, self.data, rsv.data)))
BoolCast(to, self) == CastOf("bool", to, self)

\* An operation on void is void.  An error stays the error that it is.
VoidOp(self) == Void
ErrorOp(self) == self

\* A string over one letter is its length.
StringCompare(op, self, rsv) ==
  Checked(self, rsv, Truth(Compare(op, self.data, rsv.data)))

\* Only here the error of a mismatch stays.
StringAdd(self, rsv) ==
  IF self.type = rsv.type THEN String(self.data + rsv.data) ELSE NewError

\* A number that indexes or that is a length; NoIndex (UINT64_MAX) if it is none.
NoIndex == 2^LongBits - 1
as_indexNarrow(v) ==
  IF v.type \in NumberTypes THEN Convert("uint", Read(v.type, v)) ELSE NoIndex
as_index(v) ==
  IF v.type \in NumberTypes THEN Convert("ulong", Read(v.type, v)) ELSE NoIndex

-------------------------------------------------------------------------------
\* The tables.  An operation that is not in the table is the default one, which
\* makes an error.

Undefined == NewError

LifeOps == {"assign", "drop", "copy", "repr", "type"}
NumberOps == (UnaryOps \ {"not"}) \cup BitwiseOps \cup CompareOps \cup ShiftOps
               \cup ArithOps \cup {"cast"} \cup LifeOps

OpTblByte   == NumberOps
OpTblChar   == NumberOps
OpTblInt    == NumberOps
OpTblUint   == NumberOps
OpTblLong   == NumberOps
OpTblUlong  == NumberOps
OpTblBool   == {"not", "or", "and", "eq", "neq", "cast"} \cup LifeOps
OpTblArray  == {"index", "index_ref", "member"} \cup LifeOps
OpTblString == CompareOps \cup {"add", "index", "index_ref", "member"} \cup LifeOps
OpTblError  == UnaryOps \cup BinaryOps \cup LifeOps
                 \cup {"index", "index_ref", "member", "member_ref", "deref", "call", "cast"}
OpTblVoid   == OpTblError \ {"not"}
OpTblObject == {"index", "index_ref", "member", "member_ref"} \cup LifeOps
OpTblCallable == {"call"} \cup LifeOps

OpTblArr == [byte |-> OpTblByte, char |-> OpTblChar, int |-> OpTblInt, uint |-> OpTblUint,
             long |-> OpTblLong, ulong |-> OpTblUlong, bool |-> OpTblBool,
             array |-> OpTblArray, string |-> OpTblString, error |-> OpTblError,
             object |-> OpTblObject, callable |-> OpTblCallable, void |-> OpTblVoid]

op_tbl(v) == OpTblArr[v.type]

CallUnary(op, self) ==
  CASE op \notin op_tbl(self) -> Undefined
    [] self.type = "byte" -> ByteUnary(op, self)
    [] self.type = "char" -> CharUnary(op, self)
    [] self.type = "int" -> IntUnary(op, self)
    [] self.type = "uint" -> UintUnary(op, self)
    [] self.type = "long" -> LongUnary(op, self)
    [] self.type = "ulong" -> UlongUnary(op, self)
    [] self.type = "bool" -> BoolUnary(op, self)
    [] self.type = "void" -> VoidOp(self)
    [] self.type = "error" -> ErrorOp(self)

\* An operation of the table of v with the operands self and rsv.
CallBinary(v, op, self, rsv) ==
  LET logic == op \in BitwiseOps \cup CompareOps
  IN  CASE op \notin op_tbl(v) -> Undefined
        [] v.type = "byte" -> IF logic THEN ByteLogic(op, self, rsv) ELSE ByteArith(op, self, rsv)
        [] v.type = "char" -> IF logic THEN CharLogic(op, self, rsv) ELSE CharArith(op, self, rsv)
        [] v.type = "int" -> IF logic THEN IntLogic(op, self, rsv) ELSE IntArith(op, self, rsv)
        [] v.type = "uint" -> IF logic THEN UintLogic(op, self, rsv) ELSE UintArith(op, self, rsv)
        [] v.type = "long" -> IF logic THEN LongLogic(op, self, rsv) ELSE LongArith(op, self, rsv)
        [] v.type = "ulong" -> IF logic THEN UlongLogic(op, self, rsv) ELSE UlongArith(op, self, rsv)
        [] v.type = "bool" -> BoolBinary(op, self, rsv)
        [] v.type = "string" -> IF op = "add" THEN StringAdd(self, rsv)
                                              ELSE StringCompare(op, self, rsv)
        [] v.type = "void" -> VoidOp(self)
        [] v.type = "error" -> ErrorOp(self)

CallCast(to, self) ==
  CASE "cast" \notin op_tbl(self) -> Undefined
    [] self.type = "byte" -> ByteCast(to, self)
    [] self.type = "char" -> CharCast(to, self)
    [] self.type = "int" -> IntCast(to, self)
    [] self.type = "uint" -> UintCast(to, self)
    [] self.type = "long" -> LongCast(to, self)
    [] self.type = "ulong" -> UlongCast(to, self)
    [] self.type = "bool" -> BoolCast(to, self)
    [] self.type = "void" -> VoidOp(self)
    [] self.type = "error" -> ErrorOp(self)

-------------------------------------------------------------------------------
VARIABLES lhs, rhs,    \* the operands
          op,          \* the operation that has been applied, or "none"
          out,         \* its result
          alive        \* the process has not been killed

vars == <<lhs, rhs, op, out, alive>>

Ready == alive /\ op = "none"

\* Constants, what is read, and what was computed before.
Init ==
  /\ lhs \in Operand /\ rhs \in Operand
  /\ op = "none" /\ out = Void /\ alive = TRUE

UnaryStmt == \E o \in UnaryOps :
  /\ Ready
  /\ op' = o /\ out' = CallUnary(o, lhs)
  /\ rhs' = Void
  /\ UNCHANGED <<lhs, alive>>

\* The trap of the operation in the table of lhs, if it comes to divide.
Trapped(o) ==
  /\ lhs.type \in NumberTypes /\ rhs.type = lhs.type
  /\ Traps(o, Promoted(lhs.type), lhs.data, rhs.data)

BinaryStmt == \E o \in BinaryOps :
  /\ Ready /\ ~Trapped(o)
  /\ op' = o /\ out' = CallBinary(lhs, o, lhs, rhs)
  /\ UNCHANGED <<lhs, rhs, alive>>

Trap == \E o \in BinaryOps :
  /\ Ready /\ Trapped(o)
  /\ op' = o /\ alive' = FALSE
  /\ UNCHANGED <<lhs, rhs, out>>

\* > and >= are < and <= of the left operand with the operands swapped.
GreaterStmt == \E o \in {"greater", "greater_eq"} :
  /\ Ready
  /\ op' = o
  /\ out' = CallBinary(lhs, IF o = "greater" THEN "less" ELSE "less_eq", rhs, lhs)
  /\ UNCHANGED <<lhs, rhs, alive>>

CastStmt == \E to \in NumberTypes \cup {"bool", "void", "string"} :
  /\ Ready
  /\ op' = to /\ out' = CallCast(to, lhs)
  /\ rhs' = Void
  /\ UNCHANGED <<lhs, alive>>

ArrayIndex(self, rsv) ==
  LET i == as_index(rsv)
  IN  IF i = NoIndex \/ i >= self.data THEN NewError ELSE Element(i)
ObjectIndex(self, rsv) ==
  LET i == as_index(rsv)
  IN  IF i = NoIndex \/ i >= self.data THEN NewError ELSE Element(i)

CallIndex(self, rsv) ==
  CASE "index" \notin op_tbl(self) -> Undefined
    [] self.type = "array" -> ArrayIndex(self, rsv)
    [] self.type = "object" -> ObjectIndex(self, rsv)
    [] self.type = "void" -> VoidOp(self)
    [] self.type = "error" -> ErrorOp(self)

\* Which character a string has at an index is not modelled.
IndexStmt ==
  /\ Ready /\ lhs.type # "string"
  /\ op' = "index" /\ out' = CallIndex(lhs, rhs)
  /\ UNCHANGED <<lhs, rhs, alive>>

\* make with one length.  With a length of zero the result stays unset.
MakeArray(n, unset) == CASE n = NoIndex -> NewError
                         [] n = 0 -> unset
                         [] OTHER -> Array(n)

\* A length, which may be a negative number, that memory does not hold.
TooLong(n) == n # NoIndex /\ n > MaxLength

MakeStmt ==
  /\ Ready /\ ~TooLong(as_index(lhs))
  /\ op' = "make" /\ out' = MakeArray(as_index(lhs), out)
  /\ rhs' = Void
  /\ UNCHANGED <<lhs, alive>>

\* malloc finds nothing, or too little when the size overflows; the array is written
\* all the same.
MakeFails ==
  /\ Ready /\ TooLong(as_index(lhs))
  /\ op' = "make" /\ alive' = FALSE
  /\ UNCHANGED <<lhs, rhs, out>>

\* The member length of an array or a string.
LengthStmt ==
  /\ Ready /\ lhs.type \in {"array", "string"}
  /\ op' = "length" /\ out' = Number("ulong", lhs.data)
  /\ rhs' = Void
  /\ UNCHANGED <<lhs, alive>>

\* The next operation has the result for an operand, or has not.
UseLeft == out \in Operand /\ lhs' = out /\ UNCHANGED rhs
UseRight == out \in Operand /\ rhs' = out /\ UNCHANGED lhs
Forget == UNCHANGED <<lhs, rhs>>

GoOn ==
  /\ alive /\ op # "none"
  /\ UseLeft \/ UseRight \/ Forget
  /\ op' = "none" /\ out' = Void
  /\ UNCHANGED alive

Dead == ~alive /\ UNCHANGED vars

Next == \/ UnaryStmt \/ BinaryStmt \/ Trap \/ GreaterStmt \/ CastStmt \/ IndexStmt
        \/ MakeStmt \/ MakeFails \/ LengthStmt \/ GoOn \/ Dead

Spec == Init /\ [][Next]_vars
=============================================================================
