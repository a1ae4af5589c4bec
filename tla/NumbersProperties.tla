-------------------------- MODULE NumbersProperties --------------------------
(***************************************************************************)
(* What the numbers of a program promise.                                  *)
(***************************************************************************)
EXTENDS Numbers

Same == lhs.type = rhs.type /\ lhs.type \in NumberTypes
Congruent(v) == out.type = lhs.type /\ (out.data - v) % 2^Bits(lhs.type) = 0

\* Numbers are the integers modulo the power of two of their type, whatever C
\* promotes them to on the way (proxy/value/byte.c ... ulong.c).
Modular ==
  /\ op = "minus" /\ lhs.type \in NumberTypes => Congruent(-lhs.data)
  /\ op = "bit_not" /\ lhs.type \in NumberTypes => Congruent(-lhs.data - 1)
  /\ op = "inc" /\ lhs.type \in NumberTypes => Congruent(lhs.data + 1)
  /\ op = "dec" /\ lhs.type \in NumberTypes => Congruent(lhs.data - 1)
  /\ op = "add" /\ Same => Congruent(lhs.data + rhs.data)
  /\ op = "sub" /\ Same => Congruent(lhs.data - rhs.data)
  /\ op = "mul" /\ Same => Congruent(lhs.data * rhs.data)
  /\ op = "bit_xor" /\ Same =>
       Congruent(lhs.data + rhs.data - 2 * LogicOf(lhs.type, "bit_and", lhs, rhs).data)

\* Quotient and remainder give the dividend back, the remainder is smaller than
\* the divisor and has the sign of the dividend (op_div and op_rem).
DivisionLaw ==
  op = "rem" /\ alive /\ Same =>
    LET q == CallBinary(lhs, "div", lhs, rhs)
    IN  /\ q.data * rhs.data + out.data = lhs.data
        /\ Magnitude(out.data) < Magnitude(rhs.data)
        /\ out.data # 0 => (out.data < 0) = (lhs.data < 0)

\* A cast keeps every number that the new type holds, gives the same number whether
\* it goes through a wider type or not, and through a wider type and back nothing is
\* lost (op_cast of the six files).
CastsCompose ==
  op \in NumberTypes /\ lhs.type \in NumberTypes =>
    /\ lhs.data \in Lowest(op) .. Highest(op) => out.data = lhs.data
    /\ Bits(op) >= Bits(lhs.type) => CallCast(lhs.type, out) = lhs
    /\ \A t \in NumberTypes :
         Bits(t) <= Bits(op) => CallCast(t, out) = CallCast(t, lhs)

\* An element is found exactly at the index that the number is
\* (__x86_64_proxy_value_as_index).  make!() makes an array of exactly the length that
\* the number is, nothing for zero, and an error for what is not a number; a number
\* that cannot be a length, negative or too large, never becomes an array: it is an
\* error or, since make.c refuses only what is no index, the process dies.
IsNumberIn(v, S) == v.type \in NumberTypes /\ v.data \in S
IndexExact ==
  /\ op = "index" /\ lhs.type \in {"array", "object"} =>
       out = IF IsNumberIn(rhs, 0 .. (lhs.data - 1)) THEN Element(rhs.data) ELSE NewError
  /\ op = "make" =>
       CASE IsNumberIn(lhs, 1 .. MaxLength) -> alive /\ out = Array(lhs.data)
         [] IsNumberIn(lhs, {0})            -> alive /\ out = Void
         [] lhs.type \notin NumberTypes     -> alive /\ out = NewError
         [] OTHER                           -> ~alive \/ out = NewError

\* A shift multiplies by a power of two modulo that of the type, or divides by it and
\* rounds down, for every count: a count that is negative or not less than the width
\* is taken modulo the width that C computes in, which for a byte is that of an int
\* (op_bit_shl, op_bit_shr).
ShiftsScale ==
  Same /\ op \in ShiftOps =>
    LET factor == 2^(rhs.data % Bits(Promoted(lhs.type)))
    IN  /\ op = "bit_shl" => Congruent(lhs.data * factor)
        /\ op = "bit_shr" => /\ out.type = lhs.type
                             /\ out.data * factor <= lhs.data
                             /\ lhs.data < (out.data + 1) * factor

-------------------------------------------------------------------------------
\* The inductive invariant behind them: the result is that of the operation on the
\* operands that are there, and a process is only dead of a division or of a length that memory does not hold.
Targets == NumberTypes \cup {"bool", "void", "string"}

Computed ==
  /\ lhs \in Operand /\ rhs \in Operand
  /\ op = "none" => out = Void
  /\ op \in UnaryOps => out = CallUnary(op, lhs)
  /\ op \in BinaryOps /\ alive => ~Trapped(op) /\ out = CallBinary(lhs, op, lhs, rhs)
  /\ op \in Targets => out = CallCast(op, lhs)
  /\ op = "index" => out = CallIndex(lhs, rhs)
  /\ op = "make" => IF TooLong(as_index(lhs)) THEN ~alive
                    ELSE alive /\ out = MakeArray(as_index(lhs), Void)
  /\ ~alive => op \in {"div", "rem", "make"}

=============================================================================
