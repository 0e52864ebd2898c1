------------------------------- MODULE CWord -------------------------------
(***************************************************************************)
(* The C integer arithmetic of the interpreter, on two's complement words  *)
(* of Width bits (32 in the code; TLC's own integers have 32 bits, so the  *)
(* runs use narrower words, on which every wrap-around is reached).        *)
(* Signed overflow is undefined in C; the interpreter's additions and      *)
(* multiplications are single machine instructions, which wrap.            *)
(***************************************************************************)
EXTENDS Integers
LOCAL INSTANCE Bitwise

CONSTANT Width

Span == 2^Width
MinInt == -(2^(Width - 1))
Words == MinInt..(-MinInt - 1)

\* The word with the same low bits as the integer x.
Wrap(x) == ((x - MinInt) % Span) + MinInt

\* The low bits of a word as an unsigned number, as the bit operators need.
Bits(x) == x % Span

\* C division truncates towards zero, % has the sign of the dividend.
Abs(x) == IF x < 0 THEN -x ELSE x
Quot(x, y) == IF (x < 0) = (y < 0) THEN Abs(x) \div Abs(y) ELSE -(Abs(x) \div Abs(y))
Rem(x, y) == x - y * Quot(x, y)

\* Shift counts out of range are undefined; the processor takes them modulo
\* the width.
Count(y) == y % Width

\* NEG and NOT.
UnaryWord(op, x) == IF op = "NEG" THEN Wrap(-x) ELSE -x - 1

\* The arithmetic cases of wvm_exec_binary_int; a zero divisor yields 0.
BinaryWord(op, x, y) ==
  CASE op = "ADD" -> Wrap(x + y)
    [] op = "SUB" -> Wrap(x - y)
    [] op = "MUL" -> Wrap(x * y)
    [] op = "DIV" -> IF y = 0 THEN 0 ELSE Wrap(Quot(x, y))
    [] op = "MOD" -> IF y = 0 THEN 0 ELSE Rem(x, y)
    [] op = "AND" -> Wrap(Bits(x) & Bits(y))
    [] op = "OR"  -> Wrap(Bits(x) | Bits(y))
    [] op = "XOR" -> Wrap(Bits(x) ^^ Bits(y))
    [] op = "SHL" -> Wrap(x * 2^Count(y))
    [] op = "SHR" -> x \div 2^Count(y)

\* The quotients the processor may refuse to compute.
TrapsWord(op, x, y) == op \in {"DIV", "MOD"} /\ x = MinInt /\ y = -1
=============================================================================
