---------------------------- MODULE Expressions ----------------------------
(***************************************************************************)
(* The expressions of the example frontend (frontend.c): trees of          *)
(* integers, negations and the four operators, folded to one integer       *)
(* before anything else sees them.  Folding computes in long long, of      *)
(* LongWidth bits.                                                         *)
(***************************************************************************)
EXTENDS Integers, Sequences

CONSTANT LongWidth

Long == INSTANCE CWord WITH Width <- LongWidth

\* wirbleExprInt, wirbleExprUnary (NEG is the only operator), wirbleExprBinary.
wirbleExprInt(x) == [kind |-> "INT", value |-> x]
wirbleExprUnary(e) == [kind |-> "UNARY", operand |-> e]
wirbleExprBinary(op, e, f) == [kind |-> "BINARY", op |-> op, lhs |-> e, rhs |-> f]

RECURSIVE wirble_expr_is_const(_), wirble_expr_fold_constants(_), FoldTraps(_), Exact(_),
          StaysInLong(_), Literals(_)

\* The value of an expression that has one, as a set: empty when some divisor
\* is zero.  Overflow wraps.
wirble_expr_is_const(e) ==
  CASE e.kind = "INT" -> {e.value}
    [] e.kind = "UNARY" -> {Long!Wrap(-x) : x \in wirble_expr_is_const(e.operand)}
    [] e.kind = "BINARY" ->
         {Long!BinaryWord(e.op, xy[1], xy[2]) :
            xy \in {xy \in wirble_expr_is_const(e.lhs) \X wirble_expr_is_const(e.rhs) :
                      ~(e.op = "DIV" /\ xy[2] = 0)}}

\* Every subexpression with a value becomes that integer.
wirble_expr_fold_constants(e) ==
  IF wirble_expr_is_const(e) # {}
  THEN wirbleExprInt(CHOOSE x \in wirble_expr_is_const(e) : TRUE)
  ELSE CASE e.kind = "UNARY" -> wirbleExprUnary(wirble_expr_fold_constants(e.operand))
         [] e.kind = "BINARY" -> wirbleExprBinary(e.op, wirble_expr_fold_constants(e.lhs),
                                                  wirble_expr_fold_constants(e.rhs))

\* LLONG_MIN / -1 is undefined: the quotient wraps, or the processor traps.
FoldTraps(e) ==
  CASE e.kind = "INT" -> FALSE
    [] e.kind = "UNARY" -> FoldTraps(e.operand)
    [] e.kind = "BINARY" ->
         \/ FoldTraps(e.lhs) \/ FoldTraps(e.rhs)
         \/ \E x \in wirble_expr_is_const(e.lhs), y \in wirble_expr_is_const(e.rhs) :
              Long!TrapsWord(e.op, x, y)

-----------------------------------------------------------------------------
(* The reference: what an expression means over the integers.              *)

Apply(op, x, y) ==
  CASE op = "ADD" -> x + y [] op = "SUB" -> x - y [] op = "MUL" -> x * y
    [] op = "DIV" -> Long!Quot(x, y)

Exact(e) ==
  CASE e.kind = "INT" -> {e.value}
    [] e.kind = "UNARY" -> {-x : x \in Exact(e.operand)}
    [] e.kind = "BINARY" ->
         {Apply(e.op, xy[1], xy[2]) :
            xy \in {xy \in Exact(e.lhs) \X Exact(e.rhs) : ~(e.op = "DIV" /\ xy[2] = 0)}}

\* No intermediate result needs more than LongWidth bits.
StaysInLong(e) ==
  /\ Exact(e) \subseteq Long!Words
  /\ e.kind = "UNARY" => StaysInLong(e.operand)
  /\ e.kind = "BINARY" => StaysInLong(e.lhs) /\ StaysInLong(e.rhs)

\* The integers of an expression.
Literals(e) ==
  CASE e.kind = "INT" -> {e.value}
    [] e.kind = "UNARY" -> Literals(e.operand)
    [] e.kind = "BINARY" -> Literals(e.lhs) \cup Literals(e.rhs)
=============================================================================
