----------------------------- MODULE RuleTrees -----------------------------
(***************************************************************************)
(* What is recursive in loading rules: the parser, which makes a tree of a *)
(* text, the readers of patterns and conditions (wrs_loader.c,             *)
(* wrs_parser.c), the walk of wilRuleValidate, and the matcher and the     *)
(* builder of wrs_match.c for patterns of every kind.  RuleFiles takes     *)
(* them as parameters.                                                     *)
(***************************************************************************)
EXTENDS SexpTree, StdRules, SequencesExt

CONSTANTS VarName, Numeral, Floats, Quoted, NodeKind,  \* words, see RuleFiles
          VarCap   \* variables a rule may have (128)

-----------------------------------------------------------------------------
(* The parser.                                                             *)

RECURSIVE After(_, _), AfterList(_, _), Kids(_, _)

\* The position behind the expression at i, and behind the list whose next
\* element is at i; 0 when the text ends before.
After(s, i) ==
  IF i \notin 1..Len(s) THEN 0 ELSE IF s[i] = "(" THEN AfterList(s, i + 1) ELSE i + 1
AfterList(s, i) ==
  IF i \notin 1..Len(s) THEN 0 ELSE IF s[i] = ")" THEN i + 1 ELSE AfterList(s, After(s, i))

\* The elements of a list from the one at i on.
Kids(s, i) == IF s[i] = ")" THEN <<>> ELSE <<i>> \o Kids(s, After(s, i))

Tree(s) ==
  [text |-> s, kids |-> [i \in DOMAIN s |-> IF s[i] = "(" THEN Kids(s, i + 1) ELSE <<>>]]

FirstExpression(s, end) == IF end = 0 THEN NoTree ELSE Tree(SubSeq(s, 1, end - 1))

\* The sfsexp library: the first complete expression; what follows is not
\* looked at, and text without one is an error.
parse_sexp(s) == FirstExpression(s, After(s, 1))

-----------------------------------------------------------------------------
(* WIL rules.  Patterns are allocated in the context and never freed one   *)
(* by one; a conversion is the set of its possible results, more than one  *)
(* only when memory may run out (oom).                                     *)

NullPattern == Pattern("NULL", "", "", <<>>, 0)
OrNull(oom, patterns) == patterns \cup IF oom THEN {NullPattern} ELSE {}
OrNoName(oom, name) == {name} \cup IF oom THEN {""} ELSE {}

\* The sequences with an element of each set.
OneOfEach(sets) == {c \in [DOMAIN sets -> UNION Range(sets)] : \A n \in DOMAIN sets : c[n] \in sets[n]}

\* A variable's name, without its question mark.
Bare(word) == IF word \in DOMAIN VarName THEN VarName[word] ELSE word

wilPatSequence(name, element) == Pattern("SEQUENCE", name, "", <<element>>, 0)
wilPatRefinement(base) == Pattern("REFINEMENT", "", "", <<base>>, 0)

\* Deliberately wrong variant: an input that could not be read is left out.
DropNulls(op, inputs) == wilPatNode(op, SelectSeq(inputs, LAMBDA p : p # NullPattern))

\* A null input stays where it is.
NodePattern(op, inputs) == wilPatNode(op, inputs)

RECURSIVE wrs_pattern_from_sexp_node(_, _, _)

wrs_const_pattern_from_atom(word) ==
  IF word = "true" THEN True ELSE IF word = "false" THEN False ELSE wilPatConst(Numeral[word])

wrs_pattern_from_list(t, i, oom) ==
  LET head == Text(t, wirble_sexp_node_child(t, i, 0))
      inputs == [n \in 1..(Len(t.kids[i]) - 1) |-> wrs_pattern_from_sexp_node(t, t.kids[i][n + 1], oom)]
  IN CASE head = "seq" ->
            OrNull(oom, {wilPatSequence(name, element) :
                      name \in OrNoName(oom, Bare(Text(t, wirble_sexp_node_child(t, i, 1)))),
                      element \in wrs_pattern_from_sexp_node(t, wirble_sexp_node_child(t, i, 2), oom)})
       [] head = "refine" ->
            OrNull(oom, {wilPatRefinement(base) :
                      base \in wrs_pattern_from_sexp_node(t, wirble_sexp_node_child(t, i, 1), oom)})
       [] head = "pred" -> OrNull(oom, {wilPatWildcard})
       [] head \in DOMAIN NodeKind ->
            OrNull(oom, {NodePattern(NodeKind[head], ins) : ins \in OneOfEach(inputs)})
       [] OTHER -> {NullPattern}

wrs_pattern_from_sexp_node(t, i, oom) ==
  LET word == Text(t, i) IN
  IF i = 0 THEN {NullPattern}
  ELSE IF wirble_sexp_node_is_list(t, i) THEN wrs_pattern_from_list(t, i, oom)
  ELSE CASE word = "_" -> OrNull(oom, {wilPatWildcard})
         [] word \in DOMAIN VarName -> OrNull(oom, {wilPatVar(name) : name \in OrNoName(oom, VarName[word])})
         [] word \in DOMAIN Numeral \cup {"true", "false"} ->
              OrNull(oom, {wrs_const_pattern_from_atom(word)})
         [] word \in DOMAIN NodeKind -> OrNull(oom, {wilPatNode(NodeKind[word], <<>>)})
         [] OTHER -> {NullPattern}

\* intVal and floatVal are the same bytes, and nothing says which was stored.
Int64(n) == <<"int64", n>>
Double(word) == <<"double", word>>

SExpr(kind, atom, number, list) == [kind |-> kind, atom |-> atom, number |-> number, list |-> list]
NullSExpr == SExpr("NULL", "", <<>>, <<>>)

RECURSIVE wrs_sexpr_from_tree(_, _, _)

\* A condition is kept as it was read; a null child stays where it is.
wrs_sexpr_from_tree(t, i, oom) ==
  LET word == Text(t, i)
      results ==
        IF wirble_sexp_node_is_list(t, i)
        THEN {SExpr("LIST", "", <<>>, list) :
                list \in OneOfEach([n \in DOMAIN t.kids[i] |-> wrs_sexpr_from_tree(t, t.kids[i][n], oom)])}
        ELSE CASE word \in Quoted -> {SExpr("STRING", atom, <<>>, <<>>) : atom \in OrNoName(oom, word)}
               [] word \in DOMAIN Numeral -> {SExpr("NUMBER", "", Int64(Numeral[word]), <<>>)}
               [] word \in Floats -> {SExpr("NUMBER", "", Double(word), <<>>)}
               [] OTHER -> {SExpr("ATOM", atom, <<>>, <<>>) : atom \in OrNoName(oom, word)}
  IN IF i = 0 THEN {NullSExpr}
     ELSE results \cup IF oom THEN {NullSExpr} ELSE {}

Rule(name, lhs, rhs, guard) == [name |-> name, lhs |-> lhs, rhs |-> rhs, guard |-> guard]

\* The rules a form may give, in sequences of one, or none.
wrs_rule_from_tree(t, view, oom) ==
  IF ~Complete(view) THEN {<<>>}
  ELSE {<<Rule(name, lhs, rhs, guard)>> :
          name \in OrNoName(oom, Text(t, view.name)),
          lhs \in wrs_pattern_from_sexp_node(t, view.match, oom),
          rhs \in wrs_pattern_from_sexp_node(t, view.replace, oom),
          guard \in wrs_sexpr_from_tree(t, view.condition, oom)}
       \cup IF oom THEN {<<>>} ELSE {}

-----------------------------------------------------------------------------
(* wilRuleValidate.                                                        *)

RECURSIVE VarNames(_), VarNamesTopOnly(_)

\* Deliberately wrong variant: a refinement's base is not looked at.
VarNamesTopOnly(p) ==
  CASE p.kind \in {"VAR", "SEQUENCE"} -> <<p.name>>
    [] p.kind = "NODE" -> FlattenSeq([n \in DOMAIN p.ins |-> VarNamesTopOnly(p.ins[n])])
    [] OTHER -> <<>>

\* The names wrs_rule_collect_vars comes by, in its order; "" is the null
\* pointer.  The element of a sequence is not looked at.
VarNames(p) ==
  CASE p.kind \in {"VAR", "SEQUENCE"} -> <<p.name>>
    [] p.kind \in {"NODE", "REFINEMENT"} -> FlattenSeq([n \in DOMAIN p.ins |-> VarNames(p.ins[n])])
    [] OTHER -> <<>>

\* A name is compared with the ones collected before it; strcmp does not take
\* a null pointer.
Collect(found, name) ==
  IF found.end # "" THEN found
  ELSE IF found.vars # <<>> /\ "" \in {name, found.vars[1]} THEN [found EXCEPT !.end = "crash"]
  ELSE IF name \in Range(found.vars) THEN found
  ELSE IF Len(found.vars) >= VarCap THEN [found EXCEPT !.end = "invalid"]
  ELSE [found EXCEPT !.vars = Append(@, name)]

\* The variables of p, each once, and how the collection ends if not well.
wrs_rule_collect_vars(p) == FoldLeft(Collect, [vars |-> <<>>, end |-> ""], VarNames(p))

\* "valid", "invalid", or "crash" when a null name is compared.
wilRuleValidate(rule) ==
  LET lhs == wrs_rule_collect_vars(rule.lhs)
      rhs == wrs_rule_collect_vars(rule.rhs)
  IN IF rule.lhs.kind \in {"NULL", "VAR"} \/ rule.rhs.kind = "NULL" THEN "invalid"
     ELSE IF lhs.end # "" THEN lhs.end
     ELSE IF rhs.end # "" THEN rhs.end
     ELSE IF lhs.vars # <<>> /\ rhs.vars # <<>> /\ "" \in Range(lhs.vars) \cup Range(rhs.vars)
     THEN "crash"
     ELSE IF Range(rhs.vars) \subseteq Range(lhs.vars) THEN "valid" ELSE "invalid"

-----------------------------------------------------------------------------
(* Applying a rule, for patterns of every kind: wrs_match.c on terms.      *)

Node(kind, ins, k) == [kind |-> kind, ins |-> ins, k |-> k]
NullNode == Node("NULL", <<>>, 0)

RECURSIVE wrs_match_pattern(_, _, _), MatchInputs(_, _, _)

\* The substitution after the match, in a set of one, or none.  A name that is
\* bound already stays bound: whether wrs_nodes_equivalent takes the second
\* node for the first is the subject of WRS, and here it always does.
wrs_match_pattern(subst, p, node) ==
  CASE p.kind = "WILDCARD" -> {subst}
    [] p.kind \in {"VAR", "SEQUENCE"} -> IF p.name = "" THEN {} ELSE {subst @@ (p.name :> node)}
    [] p.kind = "CONST" -> IF node.kind = p.op /\ node.k = p.k THEN {subst} ELSE {}
    [] p.kind = "REFINEMENT" -> wrs_match_pattern(subst, p.ins[1], node)
    [] p.kind = "NODE" -> IF node.kind = p.op /\ Len(node.ins) = Len(p.ins)
                          THEN MatchInputs({subst}, p.ins, node.ins) ELSE {}
    [] OTHER -> {}
MatchInputs(substs, patterns, nodes) ==
  IF patterns = <<>> THEN substs
  ELSE MatchInputs(UNION {wrs_match_pattern(s, Head(patterns), Head(nodes)) : s \in substs},
                   Tail(patterns), Tail(nodes))

wilPatternMatch(p, node) == wrs_match_pattern(<<>>, p, node)

\* The operands wrs_apply_pattern takes for the kinds it can build.
Arity == [op \in {"NEG", "NOT", "ABS"} |-> 1]
         @@ [op \in {"ADD", "SUB", "MUL", "DIV", "MOD", "AND", "OR", "XOR", "SHL", "SHR",
                     "EQ", "NE", "LT", "LE", "GT", "GE"} |-> 2]
         @@ [op \in {"SELECT"} |-> 3]

RECURSIVE wrs_apply_pattern(_, _)

\* A name that is not bound gives the null pointer, and a node is built all
\* the same when an operand is one.  An operand that is not in the pattern is
\* read behind the array: no node either.
wrs_apply_pattern(subst, p) ==
  CASE p.kind \in {"VAR", "SEQUENCE"} -> IF p.name \in DOMAIN subst THEN subst[p.name] ELSE NullNode
    [] p.kind = "CONST" -> Node(p.op, <<>>, p.k)
    [] p.kind = "REFINEMENT" -> wrs_apply_pattern(subst, p.ins[1])
    [] p.kind = "NODE" /\ p.op \in DOMAIN Arity ->
         Node(p.op, [n \in 1..Arity[p.op] |-> IF n \in DOMAIN p.ins THEN wrs_apply_pattern(subst, p.ins[n])
                                              ELSE NullNode], 0)
    [] OTHER -> NullNode

-----------------------------------------------------------------------------
(* The reference: patterns with parts missing, and terms without.          *)

RECURSIVE Holed(_, _)

\* p is q with some patterns or names missing.
Holed(p, q) ==
  \/ p = NullPattern
  \/ /\ p.kind = q.kind /\ p.op = q.op /\ p.k = q.k
     /\ p.name \in {q.name, ""}
     /\ Len(p.ins) = Len(q.ins)
     /\ \A n \in DOMAIN p.ins : Holed(p.ins[n], q.ins[n])

HoledRule(a, b) ==
  a.name \in {b.name, ""} /\ Holed(a.lhs, b.lhs) /\ Holed(a.rhs, b.rhs)

RECURSIVE Whole(_), IsReplacement(_)

\* A term without null pointers.
Whole(node) == node.kind # "NULL" /\ \A n \in DOMAIN node.ins : Whole(node.ins[n])

\* The replacements of the header: variables, constants, and nodes that can be
\* built, with their operands; the builder takes sequences and refinements too.
IsReplacement(p) ==
  \/ p.kind \in {"VAR", "SEQUENCE", "CONST"}
  \/ p.kind = "REFINEMENT" /\ IsReplacement(p.ins[1])
  \/ /\ p.kind = "NODE" /\ p.op \in DOMAIN Arity /\ Len(p.ins) = Arity[p.op]
     /\ \A n \in DOMAIN p.ins : IsReplacement(p.ins[n])

\* The replacement is a whole term for every one of the given terms that the
\* rule matches.
BuiltFromAll(rule, terms) ==
  \A node \in terms : \A subst \in wilPatternMatch(rule.lhs, node) :
    Whole(wrs_apply_pattern(subst, rule.rhs))
=============================================================================
