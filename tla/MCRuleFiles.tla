---------------------------- MODULE MCRuleFiles ----------------------------
(* Rules of the shipped files and faulty ones, in every loader.            *)
EXTENDS LoadedRules, StdRules

ParseMC(s) == Trees!parse_sexp(s)
RulesMC(t, view, oom) == Trees!wrs_rule_from_tree(t, view, oom)
ValidMC(rule) == Trees!wilRuleValidate(rule)

Rule(name, lhs, rhs, guard) == Trees!Rule(name, lhs, rhs, guard)
NullPattern == Trees!NullPattern
NullSExpr == Trees!NullSExpr
SExpr(kind, atom, number, list) == Trees!SExpr(kind, atom, number, list)

VarNameMC == "?x" :> "x" @@ "?y" :> "y" @@ "?z" :> "z"
NumeralMC == "0" :> 0 @@ "1" :> 1
NodeKindMC == "add" :> "ADD" @@ "neg" :> "NEG" @@ "sub" :> "SUB"
MalOpcodeMC == "add" :> "ADD" @@ "copy" :> "COPY" @@ "div" :> "SDIV"
StrategyMC == "outermost" :> "OUTERMOST"

\* A word longer than a block, and a few lengths.
TextSizeMC(word) ==
  CASE word = "add-zero-right" -> 15 [] word = "neg-neg" -> 8
    [] word \in {":match", ":replace"} -> 5 [] OTHER -> 2

Form_(tokens, mal, bad, wil, shape) ==
  [tokens |-> tokens, mal |-> mal, bad |-> bad, wil |-> wil, shape |-> shape, strategy |-> ""]

WilRule(std, guard) == <<Rule(std.name, std.lhs, std.rhs, guard)>>
Var(x) == OperandPattern("VAR", x, 0)
Imm(k) == OperandPattern("IMM_INT", "", k)
MalRule_(name, op, ins, rop, rins) ==
  <<[name |-> name, matchOpcode |-> op, matchOperands |-> ins,
     replaceOpcode |-> rop, replaceOperands |-> rins]>>

\* The first rules of mal_peephole.wrs, arithmetic.wrs and canonical.wrs.
MalAddZero ==
  Form_(<<"(", "rule", ":name", "add-zero-right", ":match", "(", "add", "?x", "0", ")",
          ":replace", "(", "copy", "?x", ")", ")">>,
        MalRule_("add-zero-right", "ADD", <<Var("x"), Imm(0)>>, "COPY", <<Var("x")>>), FALSE,
        <<Rule("add-zero-right", wilPatNode("ADD", <<wilPatVar("x"), wilPatConst(0)>>),
               NullPattern, NullSExpr)>>, "ok")
AddZero ==
  Form_(<<"(", "rule", ":name", "add-zero-right", ":match", "(", "add", "?x", "0", ")",
          ":replace", "?x", ")">>, <<>>, TRUE, WilRule(arithmetic_wrs[1], NullSExpr), "ok")
NegNeg ==
  Form_(<<"(", "rule", ":name", "neg-neg", ":match", "(", "neg", "(", "neg", "?x", ")", ")",
          ":replace", "?x", ")">>, <<>>, TRUE, WilRule(canonical_wrs[1], NullSExpr), "ok")

\* No name, operands of every kind, a keyword that comes twice.
Nameless ==
  Form_(<<"(", "rule", ":match", "(", "div", "_", "1", ")", ":replace", "(", "copy", ")",
          ":replace", "?y", ")">>,
        MalRule_("rule", "SDIV", <<OperandPattern("ANY", "", 0), Imm(1)>>, "COPY", <<>>), FALSE,
        <<Rule("", NullPattern, NullPattern, NullSExpr)>>, "ok")

\* A condition; its number has a fraction, and a word is in quotes.
Guarded ==
  Form_(<<"(", "rule", ":name", "g", ":match", "(", "neg", "?x", ")", ":replace", "?x",
          ":when", "(", "lt", "?x", "1", "2.5", "'s'", ")", ")">>, <<>>, TRUE,
        <<Rule("g", wilPatNode("NEG", <<wilPatVar("x")>>), wilPatVar("x"),
               SExpr("LIST", "", <<>>,
                     <<SExpr("ATOM", "lt", <<>>, <<>>), SExpr("ATOM", "?x", <<>>, <<>>),
                       SExpr("NUMBER", "", Trees!Int64(1), <<>>),
                       SExpr("NUMBER", "", Trees!Double("2.5"), <<>>),
                       SExpr("STRING", "'s'", <<>>, <<>>)>>))>>, "ok")

\* Other kinds of patterns, and an operand that is none: a hole.
Fancy ==
  Form_(<<"(", "rule", ":name", "f", ":match", "(", "sub", "(", "seq", "?x", "?y", ")",
          "what", ")", ":replace", "(", "refine", "(", "neg", "?x", ")",
          ")", ")">>, <<>>, TRUE,
        <<Rule("f", wilPatNode("SUB", <<Trees!wilPatSequence("x", wilPatVar("y")), NullPattern>>),
               Trees!wilPatRefinement(wilPatNode("NEG", <<wilPatVar("x")>>)), NullSExpr)>>, "ok")

\* A replacement with a variable that nothing binds.
Unbound ==
  Form_(<<"(", "rule", ":name", "u", ":match", "(", "neg", "?x", ")",
          ":replace", "(", "refine", "?y", ")", ")">>, <<>>, TRUE,
        <<Rule("u", wilPatNode("NEG", <<wilPatVar("x")>>), Trees!wilPatRefinement(wilPatVar("y")),
               NullSExpr)>>, "ok")

\* More variables than a rule may have.
Crowded ==
  Form_(<<"(", "rule", ":name", "c", ":match", "(", "sub", "?x", "?y", "?z", ")",
          ":replace", "0", ")">>, <<>>, TRUE,
        <<Rule("c", wilPatNode("SUB", <<wilPatVar("x"), wilPatVar("y"), wilPatVar("z")>>),
               wilPatConst(0), NullSExpr)>>, "ok")

\* Replacements that cannot be built: a wildcard, a word that is no pattern, an
\* operand that is missing.
Unbuildable ==
  {Form_(<<"(", "rule", ":name", "b", ":match", "(", "neg", "?x", ")", ":replace">> \o tokens \o <<")">>,
         <<>>, TRUE, <<Rule("b", wilPatNode("NEG", <<wilPatVar("x")>>), rhs, NullSExpr)>>, "ok") :
     <<tokens, rhs>> \in
       {<< <<"_">>, wilPatWildcard>>,
        << <<"(", "neg", "what", ")">>, wilPatNode("NEG", <<NullPattern>>)>>,
        << <<"(", "add", "?x", ")">>, wilPatNode("ADD", <<wilPatVar("x")>>)>>}}

\* Two variables, one of them without a name.
NoName ==
  Form_(<<"(", "rule", ":name", "s", ":match", "(", "add", "(", "seq", ")", "?x", ")",
          ":replace", "?x", ")">>, <<>>, TRUE,
        <<Rule("s", wilPatNode("ADD", <<Trees!wilPatSequence("", NullPattern), wilPatVar("x")>>),
               wilPatVar("x"), NullSExpr)>>, "ok")

NoReplacement == Form_(<<"(", "rule", ":match", "(", "neg", "?x", ")", ")">>, <<>>, TRUE, <<>>, "ok")
NoOperand ==
  Form_(<<"(", "rule", ":name", "n", ":match", "(", "add", "?x", "?y", "what", ")",
          ":replace", "(", "copy", "?x", ")", ")">>, <<>>, TRUE,
        <<Rule("n", wilPatNode("ADD", <<wilPatVar("x"), wilPatVar("y"), NullPattern>>),
               NullPattern, NullSExpr)>>, "ok")
StrategyForm ==
  [Form_(<<"(", "strategy", "outermost", ")">>, <<>>, FALSE, <<>>, "ok") EXCEPT !.strategy = "OUTERMOST"]
OtherStrategy ==
  [Form_(<<"(", "strategy", "fastest", ")">>, <<>>, FALSE, <<>>, "ok") EXCEPT !.strategy = "INNERMOST"]
Word == Form_(<<"word">>, <<>>, FALSE, <<>>, "ok")
Stray == Form_(<<")">>, <<>>, FALSE, <<>>, "stray")
Open == Form_(<<"(", "rule">>, <<>>, TRUE, <<>>, "open")

\* The files of a scenario: the others are missing.
Paths == {"path", "std/path", "std", "cwd"}
NoEdit == [path |-> "", forms |-> <<>>]
Scenario(loader, files, edit, oom) ==
  [loader |-> loader, present |-> DOMAIN files, edit |-> edit, oom |-> oom,
   files |-> [p \in Paths |-> IF p \in DOMAIN files THEN files[p] ELSE <<>>]]
Edit(path, forms) == [path |-> path, forms |-> forms]

MalScenarios ==
  {Scenario("mrs", files, NoEdit, oom) : oom \in BOOLEAN,
     files \in {"path" :> <<MalAddZero, Nameless>>,
                "path" :> <<MalAddZero, NoOperand>> @@ "std" :> <<Nameless>>,
                "path" :> <<Open>> @@ "std/path" :> <<MalAddZero, Stray, NoOperand>>}}
  \cup
  {Scenario("mrs", files, NoEdit, FALSE) :
     files \in {"std" :> <<NoOperand>> @@ "cwd" :> <<Nameless>>,
                "std" :> <<Word, Open>> @@ "cwd" :> <<Nameless, Word, StrategyForm>>,
                "path" :> <<NoReplacement>>, "path" :> <<>>}}
  \cup
  {Scenario("mrs", "path" :> <<Nameless>> @@ "std" :> <<MalAddZero>>,
            Edit(path, forms), FALSE) :
     path \in {"path", "std/path"},
     forms \in {<<Nameless, NoOperand, MalAddZero>>, <<Nameless, MalAddZero>>}}

WilScenarios ==
  {Scenario(loader, "path" :> forms, NoEdit, FALSE) :
     loader \in {"wrs", "validate"},
     forms \in {<<AddZero, NegNeg, Guarded>>, <<StrategyForm, Fancy, NoReplacement, MalAddZero>>,
                <<Unbound>>, <<Crowded>>, <<Guarded, Fancy>>, <<Word, AddZero, Stray, NegNeg>>,
                <<OtherStrategy, NegNeg, StrategyForm>>, <<StrategyForm, OtherStrategy>>,
                <<AddZero, NoName>>}}
  \cup
  {Scenario("wrs", "path" :> forms, NoEdit, TRUE) :
     forms \in {<<NegNeg, Word>>, <<Unbound, StrategyForm, NoReplacement>>}}
  \cup
  {Scenario("validate", "path" :> <<AddZero>>, NoEdit, TRUE)}
  \cup
  {Scenario("validate", "path" :> <<NegNeg, form>>, NoEdit, FALSE) : form \in Unbuildable}
  \cup
  {Scenario("builtin", "std" :> <<Open>> @@ "cwd" :> <<AddZero, NegNeg>>, NoEdit, FALSE),
   Scenario("builtin", "std" :> <<Unbound>>, NoEdit, TRUE),
   Scenario("wrs", "path" :> <<Guarded>>, Edit("path", <<NegNeg, Unbound>>), FALSE),
   Scenario("wrs", "path" :> <<NegNeg>>, Edit("path", <<Unbound, AddZero>>), FALSE)}

ScenariosMC == MalScenarios \cup WilScenarios
=============================================================================
