-------------------------------- MODULE WRS --------------------------------
(***************************************************************************)
(* The WIL rewrite system: the rule registry (wrs_system.c), the matcher   *)
(* and the builder of replacements (wrs_match.c), the equivalence that     *)
(* decides whether a repeated variable matches (wrs_equinox.c), and the    *)
(* strategies that drive them over a shared graph (wrs_apply.c).           *)
(*                                                                         *)
(* The graph is edited in place: a rewrite redirects every use of a node,  *)
(* also those outside the term being rewritten, while the recursion that   *)
(* found it still walks the graph.  Use lists are exact (WILGraph), so     *)
(* only the inputs are kept here.  A call is one action; inside it the     *)
(* program is sequential and the operators thread a heap record through    *)
(* the code's calls.  The heap never runs out.                             *)
(***************************************************************************)
EXTENDS StdRules, FiniteSets, SequencesExt

CONSTANTS Catalogue,     \* the rules that occur in rule files, as a sequence
          Files,         \* rule files: [strategy, rules : indices of rules]
          Leaves,        \* the constants and parameters of the graph
          Kinds,         \* operator kinds the caller builds
          MaxBuilt,      \* bound: operator nodes built by the caller
          Touched,       \* names of the rules the caller edits or applies
          Strategies,    \* strategies the caller sets
          MaxRules,      \* bound: rules in the system
          MaxCalls,      \* bound: calls on the rewrite system
          MaxIterations, \* maxIterations of the fixpoint calls
          StatsSlots,    \* length of stats.rulesApplied (256)
          Args,          \* argument values
          Narrow(_), UnaryInt(_, _), BinaryInt(_, _, _)

VARIABLES graph,     \* the nodes, in creation order
          object,    \* the rule objects created: [rule, enabled, slot], the
                     \* rule an index into the catalogue
          rules,     \* sys->rules: indices into object, in order of trial
          strategy,  \* sys->strategy
          stats,     \* sys->stats: [total, applied, iterations, normalForms]
          answer,    \* what the last wilRewriteSystemNormalize returned
          calls      \* calls made

vars == <<graph, object, rules, strategy, stats, answer, calls>>

NoNode == 0
Node(kind, ins, k) == [kind |-> kind, ins |-> ins, k |-> k]
Rule(o) == Catalogue[object[o].rule]
NoAnswer == [of |-> NoNode, is |-> NoNode, settled |-> FALSE]

-----------------------------------------------------------------------------
(* wrs_equinox.c.  The e-graph hash-conses an operator symbol and the      *)
(* classes of its inputs; a leaf is its kind alone, whatever its value or  *)
(* index.  Saturation closes the classes under commutativity and           *)
(* associativity of five kinds: two terms are then in one class if and     *)
(* only if their operands, flattened, agree as bags.  The library finds a  *)
(* part of that closure: a pattern meets only the first node of a class    *)
(* that fits, for a bounded number of rounds.  The two agree on the terms  *)
(* of at most two operators that the runs compare.                         *)

wrs_is_eqx_rewritable_kind(kind) == kind \in {"ADD", "MUL", "AND", "OR", "XOR"}

BagOf(s) == [e \in {s[i] : i \in DOMAIN s} |-> Cardinality({i \in DOMAIN s : s[i] = e})]

RECURSIVE Class(_, _, _), Flat(_, _, _)

Class(g, n, saturated) ==
  LET ins == g[n].ins IN
  IF saturated /\ wrs_is_eqx_rewritable_kind(g[n].kind)
  THEN <<g[n].kind, BagOf(Flat(g, n, g[n].kind))>>
  ELSE <<g[n].kind, [j \in DOMAIN ins |-> Class(g, ins[j], saturated)]>>
Flat(g, n, kind) ==
  IF g[n].kind = kind
  THEN Flat(g, g[n].ins[1], kind) \o Flat(g, g[n].ins[2], kind)
  ELSE <<Class(g, n, TRUE)>>

wrs_nodes_equivalent(g, a, b) ==
  \/ a = b
  \/ LET saturated == \E n \in {a, b} : wrs_is_eqx_rewritable_kind(g[n].kind)
     IN Class(g, a, saturated) = Class(g, b, saturated)

\* The nodes of the term below n in the order wrs_add_node records them:
\* inputs first, each node once.
RECURSIVE Below(_, _, _)
Below(g, n, seen) ==
  IF n \in Range(seen) THEN seen
  ELSE Append(FoldLeft(LAMBDA s, m : Below(g, m, s), seen, g[n].ins), n)

wrs_node_cost(g, n) ==
  IF g[n].kind \in {"CONST_INT", "CONST_BOOL", "PARAM"} THEN 1 ELSE 2 + Len(g[n].ins)

\* Deliberately wrong variant: the class of the root is not looked at.
BestOfAll(g, n) ==
  LET build == Below(g, n, <<>>)
      best == {i \in DOMAIN build : \A j \in DOMAIN build :
                 wrs_node_cost(g, build[i]) <= wrs_node_cost(g, build[j])}
  IN build[CHOOSE i \in best : \A j \in best : i <= j]

\* The first of the cheapest recorded nodes in the class of n.
wrs_normalize_with_egraph(g, n) ==
  LET build == Below(g, n, <<>>)
      same == {i \in DOMAIN build : Class(g, build[i], TRUE) = Class(g, n, TRUE)}
      cost(i) == wrs_node_cost(g, build[i])
      best == {i \in same : \A j \in same : cost(i) <= cost(j)}
  IN build[CHOOSE i \in best : \A j \in best : i <= j]

-----------------------------------------------------------------------------
(* wrs_match.c.                                                            *)

RECURSIVE Fits(_, _, _), Bindings(_, _, _)

\* Deliberately wrong variant: the value of a constant is not compared.
FitsAnyConst(g, pat, n) ==
  \/ pat.kind \in {"VAR", "WILDCARD"}
  \/ pat.kind \in {"CONST", "NODE"} /\ g[n].kind = pat.op
       /\ Len(g[n].ins) = Len(pat.ins)
       /\ \A j \in DOMAIN pat.ins : Fits(g, pat.ins[j], g[n].ins[j])

\* The shape of the pattern: everything but the bindings.
Fits(g, pat, n) ==
  CASE pat.kind \in {"VAR", "WILDCARD"} -> TRUE
    [] pat.kind = "CONST" -> g[n].kind = pat.op /\ g[n].k = pat.k
    [] pat.kind = "NODE" -> /\ g[n].kind = pat.op
                            /\ Len(g[n].ins) = Len(pat.ins)
                            /\ \A j \in DOMAIN pat.ins : Fits(g, pat.ins[j], g[n].ins[j])

\* What each occurrence of a variable stands for, from left to right.
Bindings(g, pat, n) ==
  CASE pat.kind = "VAR" -> <<[name |-> pat.name, node |-> n]>>
    [] pat.kind = "NODE" ->
         FlattenSeq([j \in DOMAIN pat.ins |-> Bindings(g, pat.ins[j], g[n].ins[j])])
    [] OTHER -> <<>>

\* The first occurrence binds the variable.
wilSubstitutionLookup(subst, name) ==
  LET i == SelectInSeq(subst, LAMBDA b : b.name = name)
  IN IF i = 0 THEN NoNode ELSE subst[i].node

\* Later occurrences must be equivalent to the first.
wrs_substitution_bind(g, subst, i) ==
  wrs_nodes_equivalent(g, wilSubstitutionLookup(subst, subst[i].name), subst[i].node)

wilPatternMatch(g, pat, n) ==
  /\ Fits(g, pat, n)
  /\ LET subst == Bindings(g, pat, n)
     IN \A i \in DOMAIN subst : wrs_substitution_bind(g, subst, i)

Built(g, node) == [graph |-> Append(g, node), node |-> Len(g) + 1]

\* The replacement, new nodes appended to the graph in the order of creation.
\* Made is the construction of the inputs: [graph, ins].
RECURSIVE wilSubstitutionApply(_, _, _)
wilSubstitutionApply(g, subst, pat) ==
  LET AddInput(made, r) == [graph |-> r.graph, ins |-> Append(made.ins, r.node)]
      BuildOver(made) == Built(made.graph, Node(pat.op, made.ins, 0))
  IN CASE pat.kind = "VAR" -> [graph |-> g, node |-> wilSubstitutionLookup(subst, pat.name)]
       [] pat.kind = "WILDCARD" -> [graph |-> g, node |-> NoNode]
       [] pat.kind = "CONST" -> Built(g, Node(pat.op, <<>>, pat.k))
       [] pat.kind = "NODE" ->
            BuildOver(FoldLeft(
              LAMBDA made, p : AddInput(made, wilSubstitutionApply(made.graph, subst, p)),
              [graph |-> g, ins |-> <<>>], pat.ins))

-----------------------------------------------------------------------------
(* wrs_apply.c.  A heap is [graph, total, applied, out]; out is the node   *)
(* the last call returned.                                                 *)

\* Deliberately wrong variant: the arguments are exchanged.
RedirectBack(g, old, new) ==
  [n \in DOMAIN g |-> [g[n] EXCEPT !.ins = ReplaceAll(@, new, old)]]

wil_node_replace_all_uses(g, old, new) ==
  [n \in DOMAIN g |-> [g[n] EXCEPT !.ins = ReplaceAll(@, old, new)]]

Failed(h) == [h EXCEPT !.out = NoNode]

\* The rule object o has built the node made.node to replace n.
Replaced(h, o, n, made) ==
  IF made.node = NoNode THEN Failed(h)
  ELSE [graph |-> wil_node_replace_all_uses(made.graph, n, made.node),
        total |-> h.total + 1,
        applied |-> IF object[o].slot < StatsSlots
                    THEN [h.applied EXCEPT ![object[o].slot] = @ + 1] ELSE h.applied,
        out |-> made.node]

wrs_apply_rule(h, o, n) ==
  LET lhs == Rule(o).lhs IN
  IF object[o].enabled /\ wilPatternMatch(h.graph, lhs, n)
  THEN Replaced(h, o, n, wilSubstitutionApply(h.graph, Bindings(h.graph, lhs, n), Rule(o).rhs))
  ELSE Failed(h)

\* The first rule that applies.
wilRewriteSystemApplyAt(h, n) ==
  LET Try(i) == IF i = 0 THEN Failed(h) ELSE wrs_apply_rule(h, rules[i], n)
  IN Try(SelectInSeq(rules, LAMBDA o : wrs_apply_rule(h, o, n).out # NoNode))

\* One pass below n, the inputs from left to right.  There is no mark on
\* visited nodes: a shared input is visited once for every path to it.
RECURSIVE wrs_apply_recursive(_, _)
Inputs(h, n) ==
  LET Put(r, i) == IF r.out = NoNode THEN r ELSE [r EXCEPT !.graph[n].ins[i] = r.out]
  IN FoldLeft(LAMBDA r, i : Put(wrs_apply_recursive(r, r.graph[n].ins[i]), i),
              h, [i \in DOMAIN h.graph[n].ins |-> i])
wrs_apply_recursive(h, n) ==
  LET OrInputs(r) == IF r.out # NoNode THEN r ELSE Failed(Inputs(r, n))
  IN IF strategy = "INNERMOST" THEN wilRewriteSystemApplyAt(Inputs(h, n), n)
     ELSE OrInputs(wilRewriteSystemApplyAt(h, n))

\* The loop of wilRewriteSystemApplyToFixpoint and wilRewriteSystemNormalize:
\* passes from the current root until the root is not replaced.
Iterate(h, n) ==
  LET After(s, r) == [heap |-> r, is |-> IF r.out = NoNode THEN s.is ELSE r.out,
                      passes |-> s.passes + 1, settled |-> r.out = NoNode]
  IN FoldLeft(LAMBDA s, i : IF s.settled THEN s
                            ELSE After(s, wrs_apply_recursive(s.heap, s.is)),
              [heap |-> h, is |-> n, passes |-> 0, settled |-> FALSE],
              [i \in 1..MaxIterations |-> i])

wilRewriteSystemIsNormalForm(g, n) ==
  \A i \in DOMAIN rules : ~(object[rules[i]].enabled /\ wilPatternMatch(g, Rule(rules[i]).lhs, n))

\* Deliberately wrong variant: the inputs are not visited.
RootIsNormal(g, n) == wilRewriteSystemIsNormalForm(g, n)

\* The node itself, then every input in turn: all nodes below it.
wilRewriteSystemIsGraphNormalForm(g, n) ==
  \A m \in Range(Below(g, n, <<>>)) : wilRewriteSystemIsNormalForm(g, m)

-----------------------------------------------------------------------------
(* Actions: the rule registry.                                             *)

NoStats == [total |-> 0, applied |-> [i \in 0..(StatsSlots - 1) |-> 0],
            iterations |-> 0, normalForms |-> 0]

\* wilRewriteSystemCreate, for a caller that has made the leaves.
Init ==
  /\ graph = Leaves
  /\ object = <<>> /\ rules = <<>>
  /\ strategy = "INNERMOST"
  /\ stats = NoStats
  /\ answer = NoAnswer
  /\ calls = 0

Call == calls < MaxCalls /\ calls' = calls + 1 /\ answer' = NoAnswer

\* Deliberately wrong variant: the index is not capped.
SlotUncapped(count) == count

Slot(count) == IF count < StatsSlots THEN count ELSE StatsSlots - 1

\* The registry holds the object itself: adding it again moves its slot.
wilRewriteSystemAddRule(o) ==
  /\ Call
  /\ Len(rules) < MaxRules
  /\ object' = [object EXCEPT ![o].slot = Slot(Len(rules))]
  /\ rules' = Append(rules, o)
  /\ UNCHANGED <<graph, strategy, stats>>

\* wrsFileLoad and wrsFileApplyToSystem: new objects, the file's strategy,
\* one wilRewriteSystemAddRule after the other.
wrsFileApplyToSystem(file) ==
  LET n == Len(file.rules) IN
  /\ Call
  /\ Len(rules) + n <= MaxRules
  /\ object' = object \o [i \in 1..n |-> [rule |-> file.rules[i], enabled |-> TRUE,
                                           slot |-> Slot(Len(rules) + i - 1)]]
  /\ rules' = rules \o [i \in 1..n |-> Len(object) + i]
  /\ strategy' = file.strategy
  /\ UNCHANGED <<graph, stats>>

\* The position of the first rule of that name; 0 when there is none.
wilRewriteSystemFindRule(name) ==
  SelectInSeq(rules, LAMBDA o : Rule(o).name = name)

wilRewriteSystemRemoveRule(name) ==
  LET i == wilRewriteSystemFindRule(name) IN
  /\ Call
  /\ i # 0
  /\ rules' = RemoveAt(rules, i)
  /\ UNCHANGED <<graph, object, strategy, stats>>

wilRewriteSystemClearRules ==
  /\ Call
  /\ rules' = <<>>
  /\ UNCHANGED <<graph, object, strategy, stats>>

wilRewriteSystemSetEnabled(name, flag) ==
  LET i == wilRewriteSystemFindRule(name) IN
  /\ Call
  /\ i # 0
  /\ object' = [object EXCEPT ![rules[i]].enabled = flag]
  /\ UNCHANGED <<graph, rules, strategy, stats>>

\* Every strategy but INNERMOST takes the same path; a custom strategy function
\* is stored and never called.
wilRewriteSystemSetStrategy(s) ==
  /\ Call
  /\ strategy' = s
  /\ UNCHANGED <<graph, object, rules, stats>>

wilRewriteSystemResetStats ==
  /\ Call
  /\ stats' = NoStats
  /\ UNCHANGED <<graph, object, rules, strategy>>

-----------------------------------------------------------------------------
(* Actions: the graph and its rewriting.                                   *)

\* A wil_make_* call of the caller, who builds the graph before the rewrite
\* system, as wirbleBuildPipelineArtifacts does.
wil_make(kind, ins) ==
  /\ calls = 0
  /\ Len(graph) < Len(Leaves) + MaxBuilt
  /\ graph' = Append(graph, Node(kind, ins, 0))
  /\ UNCHANGED <<object, rules, strategy, stats, answer, calls>>

Heap == [graph |-> graph, total |-> stats.total, applied |-> stats.applied, out |-> NoNode]

\* The heap h becomes the state, with the counters of the fixpoint loop.
Commit(h, iterations, normalForms) ==
  /\ graph' = h.graph
  /\ stats' = [total |-> h.total, applied |-> h.applied,
               iterations |-> stats.iterations + iterations,
               normalForms |-> stats.normalForms + normalForms]
  /\ UNCHANGED <<object, rules, strategy>>

ApplyRule(name, n) ==
  LET i == wilRewriteSystemFindRule(name) IN
  /\ Call
  /\ i # 0
  /\ Commit(wrs_apply_rule(Heap, rules[i], n), 0, 0)

ApplyAt(n) == Call /\ Commit(wilRewriteSystemApplyAt(Heap, n), 0, 0)

Apply(n) == Call /\ Commit(wrs_apply_recursive(Heap, n), 0, 0)

ApplyToFixpoint(n) ==
  LET End(r) == Commit(r.heap, r.passes, IF r.settled THEN 1 ELSE 0)
  IN Call /\ End(Iterate(Heap, n))

Normalize(n) ==
  LET End(r) == /\ Commit(r.heap, 0, 0)
                /\ answer' = [of |-> n, is |-> r.is, settled |-> r.settled]
  IN /\ calls < MaxCalls /\ calls' = calls + 1
     /\ End(Iterate(Heap, wrs_normalize_with_egraph(graph, n)))

Nodes == DOMAIN graph
UnaryKinds == {"NEG", "NOT"}

\* The terms a caller hands over: operator nodes that no node uses.
Roots == {n \in Nodes : /\ graph[n].ins # <<>>
                        /\ \A m \in Nodes : n \notin Range(graph[m].ins)}

Next ==
  \/ \E kind \in Kinds, x, y \in Nodes :
       wil_make(kind, IF kind \in UnaryKinds THEN <<x>> ELSE <<x, y>>)
  \/ \E file \in Files : wrsFileApplyToSystem(file)
  \/ \E o \in {q \in DOMAIN object : Rule(q).name \in Touched} : wilRewriteSystemAddRule(o)
  \/ \E name \in Touched : \/ wilRewriteSystemRemoveRule(name)
                           \/ \E flag \in BOOLEAN : wilRewriteSystemSetEnabled(name, flag)
                           \/ \E n \in Nodes : ApplyRule(name, n)
  \/ wilRewriteSystemClearRules
  \/ \E s \in Strategies : wilRewriteSystemSetStrategy(s)
  \/ wilRewriteSystemResetStats
  \/ \E n \in Nodes : ApplyAt(n)
  \/ \E n \in Roots : Apply(n) \/ ApplyToFixpoint(n) \/ Normalize(n)

Spec == Init /\ [][Next]_vars

-----------------------------------------------------------------------------
(* The reference: what a node means.                                       *)

Undefined == <<>>

\* The value of node n for the arguments, as a one-element sequence; Undefined
\* for kinds that do not compute an integer.
RECURSIVE Value(_, _, _)
Value(g, n, args) ==
  LET x == Value(g, g[n].ins[1], args)
      y == Value(g, g[n].ins[2], args)
  IN CASE g[n].kind = "CONST_INT" -> <<Narrow(g[n].k)>>
       [] g[n].kind = "PARAM" -> <<args[g[n].k]>>
       [] g[n].kind \in UnaryKinds ->
            IF x = Undefined THEN Undefined ELSE <<UnaryInt(g[n].kind, x[1])>>
       [] g[n].kind \in {"ADD", "SUB", "MUL", "AND", "OR", "XOR", "SHL", "SHR"} ->
            IF x = Undefined \/ y = Undefined THEN Undefined
            ELSE <<BinaryInt(g[n].kind, x[1], y[1])>>
       [] OTHER -> Undefined

\* The variables of a pattern, once for every occurrence.
RECURSIVE VarsOf(_)
VarsOf(pat) == IF pat.kind = "VAR" THEN <<pat.name>>
               ELSE FlattenSeq([j \in DOMAIN pat.ins |-> VarsOf(pat.ins[j])])

\* No rule of the system repeats a variable on its left-hand side.
LeftLinear == \A i \in DOMAIN rules : IsInjective(VarsOf(Rule(rules[i]).lhs))

Params == {Leaves[n].k : n \in {m \in DOMAIN Leaves : Leaves[m].kind = "PARAM"}}
Assignments == [Params -> Args]

-----------------------------------------------------------------------------
(* Properties.                                                             *)

\* No rewrite closes a cycle, although it redirects all uses of a node, those
\* in the replacement itself included: every recursion over the graph ends.
Acyclic ==
  LET up[i \in 0..Len(graph)] == IF i = 0 THEN {}
        ELSE LET low == up[i - 1] IN {n \in Nodes : Range(graph[n].ins) \subseteq low}
  IN up[Len(graph)] = Nodes

\* No call changes the value of any node the caller holds, on any arguments,
\* wherever the node is shared and whichever strategy is used; for rules that
\* name each variable once on the left.
MeaningKept ==
  [][LeftLinear => \A n \in Nodes, a \in Assignments :
       Value(graph, n, a) # Undefined => Value(graph', n, a) = Value(graph, n, a)]_vars

\* The documentation: rewrites preserve semantics.  The node that
\* wilRewriteSystemNormalize returns has the value of the node it was given.
AnswerMeans ==
  answer.of # NoNode => \A a \in Assignments :
    Value(graph, answer.of, a) # Undefined =>
      Value(graph, answer.is, a) = Value(graph, answer.of, a)

\* The same for rules that name each variable once on the left: after several
\* passes, each of which edits the graph in place, the answer stands for the
\* node that was given.  (The e-graph has no part in it: on these terms it
\* picks the node itself.)
LinearAnswerMeans == LeftLinear => AnswerMeans

\* A pass rewrites nothing exactly when IsGraphNormalForm accepts the term:
\* the two walks agree on what is left to do.
QuietMeansNormal ==
  \A n \in Roots : wrs_apply_recursive(Heap, n).total = stats.total
                     <=> wilRewriteSystemIsGraphNormalForm(graph, n)

\* The root stops changing before the iteration limit.
Settles == answer.of # NoNode => answer.settled

\* Every rewrite is counted for exactly one slot, also when there are more
\* rules than slots and after rules were removed, added again or reset.
StatsAddUp == stats.total = FoldLeft(LAMBDA s, i : s + stats.applied[i - 1], 0,
                                     [i \in 1..StatsSlots |-> i])
=============================================================================
