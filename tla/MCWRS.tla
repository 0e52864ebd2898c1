------------------------------- MODULE MCWRS -------------------------------
(***************************************************************************)
(* WRS on 3-bit words.                                                     *)
(***************************************************************************)
EXTENDS WRS

C == INSTANCE CWord WITH Width <- 3

MCNarrow(x) == C!Wrap(x)
MCUnaryInt(op, x) == C!UnaryWord(op, x)
MCBinaryInt(op, x, y) == C!BinaryWord(op, x, y)

Const(k) == Node("CONST_INT", <<>>, k)
Param(k) == Node("PARAM", <<>>, k)

\* The rules in the order wilRewriteSystemAddAllBuiltinRules loads them, less
\* those for operators that no graph of the runs contains.
Builtin == SelectSeq(arithmetic_wrs \o logic_wrs \o canonical_wrs,
                     LAMBDA r : r.lhs.op \in {"ADD", "SUB", "MUL", "NEG"})

File(s, Test(_)) ==
  [strategy |-> s, rules |-> SelectSeq([i \in DOMAIN Builtin |-> i], LAMBDA i : Test(Builtin[i]))]

\* All rules, and those in which no variable occurs twice on the left.
MCFiles == {File("INNERMOST", LAMBDA r : TRUE),
            File("INNERMOST", LAMBDA r : IsInjective(VarsOf(r.lhs)))}
MCAllRules == {File("INNERMOST", LAMBDA r : TRUE)}

MCArgs == {-4, 3}
MCFewLeaves == <<Param(0), Const(0)>>
MCLeaves == <<Param(0), Param(1), Const(0), Const(-1)>>
=============================================================================
