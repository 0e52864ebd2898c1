------------------------------ MODULE StdRules ------------------------------
(***************************************************************************)
(* Patterns, rules and the three rule files of stdrewrite/ that            *)
(* wilRewriteSystemAddAllBuiltinRules loads, as wrs_pattern_from_sexp_node *)
(* reads them: `?x' is a variable, `true' and `false' are Boolean          *)
(* constants, a number is an integer constant, a list is a node pattern.   *)
(***************************************************************************)
EXTENDS Integers, Sequences

Pattern(kind, name, op, ins, k) ==
  [kind |-> kind, name |-> name, op |-> op, ins |-> ins, k |-> k]

wilPatVar(name) == Pattern("VAR", name, "", <<>>, 0)
wilPatConst(k) == Pattern("CONST", "", "CONST_INT", <<>>, k)
wilPatWildcard == Pattern("WILDCARD", "", "", <<>>, 0)
wilPatNode(op, ins) == Pattern("NODE", "", op, ins, 0)

\* Boolean constants have no constructor: the loader fills the pattern in.
True == Pattern("CONST", "", "CONST_BOOL", <<>>, 1)
False == Pattern("CONST", "", "CONST_BOOL", <<>>, 0)

wilRuleCreateSimple(name, lhs, rhs) == [name |-> name, lhs |-> lhs, rhs |-> rhs]

-----------------------------------------------------------------------------
LOCAL X == wilPatVar("x")
LOCAL Y == wilPatVar("y")
LOCAL Cond == wilPatVar("cond")
LOCAL I(k) == wilPatConst(k)
LOCAL U(op, x) == wilPatNode(op, <<x>>)
LOCAL B(op, x, y) == wilPatNode(op, <<x, y>>)
LOCAL Sel(c, x, y) == wilPatNode("SELECT", <<c, x, y>>)
LOCAL R(name, lhs, rhs) == wilRuleCreateSimple(name, lhs, rhs)

arithmetic_wrs == <<
  R("add-zero-right", B("ADD", X, I(0)), X),
  R("add-zero-left", B("ADD", I(0), X), X),
  R("sub-zero", B("SUB", X, I(0)), X),
  R("sub-zero-left", B("SUB", I(0), X), U("NEG", X)),
  R("sub-self", B("SUB", X, X), I(0)),
  R("mul-one-right", B("MUL", X, I(1)), X),
  R("mul-one-left", B("MUL", I(1), X), X),
  R("mul-zero-right", B("MUL", X, I(0)), I(0)),
  R("mul-zero-left", B("MUL", I(0), X), I(0)),
  R("div-one", B("DIV", X, I(1)), X),
  R("div-self", B("DIV", X, X), I(1)),
  R("mod-one", B("MOD", X, I(1)), I(0)),
  R("neg-zero", U("NEG", I(0)), I(0)),
  R("abs-zero", U("ABS", I(0)), I(0)),
  R("shl-zero", B("SHL", X, I(0)), X),
  R("shr-zero", B("SHR", X, I(0)), X),
  R("add-self", B("ADD", X, X), B("MUL", X, I(2))) >>

logic_wrs == <<
  R("and-true-right", B("AND", X, True), X),
  R("and-true-left", B("AND", True, X), X),
  R("and-false-right", B("AND", X, False), False),
  R("and-false-left", B("AND", False, X), False),
  R("and-idempotent", B("AND", X, X), X),
  R("or-false-right", B("OR", X, False), X),
  R("or-false-left", B("OR", False, X), X),
  R("or-true-right", B("OR", X, True), True),
  R("or-true-left", B("OR", True, X), True),
  R("or-idempotent", B("OR", X, X), X),
  R("xor-false-right", B("XOR", X, False), X),
  R("xor-false-left", B("XOR", False, X), X),
  R("not-not", U("NOT", U("NOT", X)), X),
  R("not-true", U("NOT", True), False),
  R("not-false", U("NOT", False), True),
  R("eq-self", B("EQ", X, X), True),
  R("ne-self", B("NE", X, X), False),
  R("select-true", Sel(True, X, Y), X),
  R("select-false", Sel(False, X, Y), Y),
  R("select-same-branches", Sel(Cond, X, X), X) >>

\* Deliberately wrong variant: a canonical form and its inverse.
canonical_cyclic == <<
  R("add-neg-right", B("ADD", X, U("NEG", Y)), B("SUB", X, Y)),
  R("sub-as-add", B("SUB", X, Y), B("ADD", X, U("NEG", Y))) >>

canonical_wrs == <<
  R("neg-neg", U("NEG", U("NEG", X)), X),
  R("abs-neg", U("ABS", U("NEG", X)), U("ABS", X)),
  R("add-neg-right", B("ADD", X, U("NEG", Y)), B("SUB", X, Y)),
  R("add-neg-left", B("ADD", U("NEG", Y), X), B("SUB", X, Y)),
  R("sub-neg-right", B("SUB", X, U("NEG", Y)), B("ADD", X, Y)),
  R("mul-neg-one-right", B("MUL", X, I(-1)), U("NEG", X)),
  R("mul-neg-one-left", B("MUL", I(-1), X), U("NEG", X)),
  R("not-eq", U("NOT", B("EQ", X, Y)), B("NE", X, Y)),
  R("not-ne", U("NOT", B("NE", X, Y)), B("EQ", X, Y)),
  R("not-lt", U("NOT", B("LT", X, Y)), B("GE", X, Y)),
  R("not-le", U("NOT", B("LE", X, Y)), B("GT", X, Y)),
  R("not-gt", U("NOT", B("GT", X, Y)), B("LE", X, Y)),
  R("not-ge", U("NOT", B("GE", X, Y)), B("LT", X, Y)),
  R("select-not-cond", Sel(U("NOT", Cond), X, Y), Sel(Cond, Y, X)) >>
=============================================================================
