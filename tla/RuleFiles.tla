----------------------------- MODULE RuleFiles -----------------------------
(***************************************************************************)
(* Loading rewrite rules from a file: the S-expression reader, the loader  *)
(* of the MAL peephole rules (mrs_loader.c) and that of the WIL rules      *)
(* (wrs_loader.c), with the files they fall back to, another process that  *)
(* writes a file meanwhile, and memory that may run out.                   *)
(*                                                                         *)
(* A file is a sequence of tokens.  The constants say which words are      *)
(* variables, numbers and names of operators.  Every allocation in the     *)
(* tree's arena is a step; the other work of the loaders is one step for   *)
(* each top-level form.                                                    *)
(***************************************************************************)
EXTENDS Arena, SexpTree, SequencesExt

CONSTANTS Scenarios,    \* which loader, the files, the writer, the faults
          VarName,      \* "?x" -> "x"
          Numeral,      \* "0" -> 0
          MalOpcode,    \* "add" -> "ADD": mal_parse_opcode
          Strategy,     \* "outermost" -> OUTERMOST, ...
          NodeSize, NodeAlign,  \* of a WirbleSexpNode
          TextSize(_),  \* bytes of a word, with its NUL
          InitRules,    \* first capacity of an array of rules (8)
          \* What RuleTrees defines: parse_sexp, wrs_rule_from_tree,
          \* wilRuleValidate.
          ParseSexp(_), RulesFromTree(_, _, _), Validates(_)

VARIABLES scenario,  \* loader, files (path -> forms), present (the paths that
                     \* exist), edit (the path and forms written), oom
          disk,      \* path -> tokens
          written,   \* how much of the edit is on the disk; -1: not begun
          r          \* the loader's state

vars == <<scenario, disk, written, r, blocks, reserved, objects>>

Missing == <<"no file">>
Oom == scenario.oom

\* A form of a file: its tokens, and what the loaders should make of it (see
\* LoadedRules).
Tokens(forms) == FlattenSeq([n \in DOMAIN forms |-> forms[n].tokens])

\* What may be read of a file: its text, the first part of what the writer has
\* written, or the one with the other behind it.
Spliced(s, old, n) == old \o SubSeq(Tokens(s.edit.forms), Len(old) + 1, n)
Texts(s) ==
  {Spliced(s, old, n) : old \in {<<>>} \cup {Tokens(s.files[p]) : p \in s.present},
                        n \in 0..Len(Tokens(s.edit.forms))}

\* The uses of the loaders; every path they try names a file, there or not.
ASSUME ScenariosAssumption ==
  \A s \in Scenarios : /\ s.loader \in {"mrs", "wrs", "validate", "builtin"}
                       /\ {"path", "std/path", "std", "cwd"} \subseteq DOMAIN s.files
                       /\ \A p \in s.present : Tokens(s.files[p]) \in Seq(STRING)
                       /\ Tokens(s.edit.forms) \in Seq(STRING)

\* The parser gives the tree of a first part of the text, or none.
ASSUME ParserAssumption ==
  \A s \in Scenarios : \A text \in Texts(s) :
    \/ ParseSexp(wirble_sexp_wrap_input(text)) = NoTree
    \/ IsTreeOf(ParseSexp(wirble_sexp_wrap_input(text)), wirble_sexp_wrap_input(text))

\* The arena serves what the reader asks for.
ASSUME MemoryAssumption ==
  /\ InitRules \in Nat \ {0}
  /\ NodeSize \in Sizes /\ {NodeAlign, 1} \subseteq Alignments
  /\ \A s \in Scenarios : \A text \in Texts(s) : \A i \in DOMAIN wirble_sexp_wrap_input(text) :
       TextSize(wirble_sexp_wrap_input(text)[i]) \in Sizes

-----------------------------------------------------------------------------
(* MAL rules.  mal_load_rule is a list of steps; each checks something,    *)
(* or allocates an object of the rule, and the first that fails ends it.   *)

OperandPattern(kind, name, k) == [kind |-> kind, name |-> name, k |-> k]

mal_load_operand_pattern(t, i) ==
  LET word == Text(t, i) IN
  CASE word = "_" -> OperandPattern("ANY", "", 0)
    [] word \in DOMAIN VarName -> OperandPattern("VAR", VarName[word], 0)
    [] word \in DOMAIN Numeral -> OperandPattern("IMM_INT", "", Numeral[word])
    [] OTHER -> OperandPattern("BAD", "", 0)

Operands(t, list) ==
  [n \in 1..(Len(t.kids[list]) - 1) |-> mal_load_operand_pattern(t, t.kids[list][n + 1])]

\* An object of a rule: its name, an array of operands (0), an operand's name.
NoObject == <<"", 0>>
Check(ok) == [object |-> NoObject, ok |-> ok]
Get(field, n) == [object |-> <<field, n>>, ok |-> TRUE]

mal_load_pattern_list(t, list, field) ==
  IF Text(t, wirble_sexp_node_child(t, list, 0)) \notin DOMAIN MalOpcode THEN <<Check(FALSE)>>
  ELSE (IF Len(t.kids[list]) = 1 THEN <<>> ELSE <<Get(field, 0)>>)
       \o [n \in DOMAIN Operands(t, list) |->
             IF Operands(t, list)[n].kind = "VAR" THEN Get(field, n)
             ELSE Check(Operands(t, list)[n].kind # "BAD")]

\* The rule's array in the system is grown last.
LoadSteps(t, view) ==
  IF ~Complete(view) THEN <<Check(FALSE)>>
  ELSE <<IF view.name # 0 /\ wirble_sexp_node_is_list(t, view.name) THEN Check(FALSE)
         ELSE Get("name", 0)>>
       \o mal_load_pattern_list(t, view.match, "match")
       \o mal_load_pattern_list(t, view.replace, "replace")
       \o <<Get("rules", 0)>>

\* The steps at which loading the rule may end early.
StopsAt(steps) ==
  {n \in DOMAIN steps :
     /\ \A m \in 1..(n - 1) : steps[m].ok
     /\ ~steps[n].ok \/ (Oom /\ steps[n].object # NoObject)}

\* A condition of the rule (:when) is read and dropped.
MalRule(t, view) ==
  [name |-> IF view.name = 0 THEN "rule" ELSE t.text[view.name],
   matchOpcode |-> MalOpcode[Text(t, wirble_sexp_node_child(t, view.match, 0))],
   matchOperands |-> Operands(t, view.match),
   replaceOpcode |-> MalOpcode[Text(t, wirble_sexp_node_child(t, view.replace, 0))],
   replaceOperands |-> Operands(t, view.replace)]

\* The heap holds <<rule, field, n>>; what is no rule's has rule 0.
Storage == <<0, "storage", 0>>
System == <<0, "system", 0>>
RuleArray == <<0, "rules", 0>>
FileArray == <<0, "file", 0>>

\* The objects that the steps before n allocate for a rule.
Allocated(steps, n, rule) ==
  {<<IF steps[m].object[1] = "rules" THEN 0 ELSE rule, steps[m].object[1], steps[m].object[2]>> :
     m \in {m \in 1..(n - 1) : steps[m].object # NoObject}}

\* Deliberately wrong variant: the names of the operands are forgotten.
FreeMembersShallow(heap, rule) == {h \in heap : ~(h[1] = rule /\ h[3] = 0)}

\* The names of all counted operands, the arrays and the name.
mal_rule_free_members(heap, rule) == {h \in heap : h[1] # rule}

\* The rules counted, their array, the system.
mal_mrs_destroy(heap, count) ==
  {h \in heap : \A k \in 1..count : h \in mal_rule_free_members(heap, k)} \ {RuleArray, System}

-----------------------------------------------------------------------------
(* The loaders.                                                            *)

\* The files tried: mal_mrs_load with a path, and without one; wrsFileLoad;
\* the built-in WIL rules.
Attempts(loader) ==
  CASE loader = "mrs" -> <<"path", "std/path">>
    [] loader \in {"wrs", "validate"} -> <<"path">>
    [] loader = "builtin" -> <<"std", "cwd">>
DefaultAttempts == <<"std", "cwd", "std">>

Loader == scenario.loader
OfMal == Loader = "mrs"

Init ==
  /\ scenario \in Scenarios
  /\ disk = [p \in DOMAIN scenario.files |->
               IF p \in scenario.present THEN Tokens(scenario.files[p]) ELSE Missing]
  /\ written = -1
  /\ r = [stage |-> "try", attempts |-> Attempts(scenario.loader), fellBack |-> FALSE,
          path |-> "", buffer |-> <<>>, tree |-> NoTree, at |-> 0, form |-> 0,
          rules |-> <<>>, cap |-> 0, system |-> <<>>, systemCap |-> 0,
          strategy |-> "INNERMOST", systemStrategy |-> "INNERMOST", heap |-> {}, found |-> FALSE, valid |-> FALSE]
  /\ ArenaInit

\* Deliberately wrong variant: the blocks are used again.
TreeRewinds == blocks' = [b \in DOMAIN blocks |-> [blocks[b] EXCEPT !.used = 0]]
               /\ objects' = {} /\ UNCHANGED reserved

\* The arena's part of wirble_sexp_tree_reset and wirble_sexp_tree_destroy.
wirble_sexp_tree_reset == wirble_arena_reset

\* wirble_sexp_tree_destroy, for what is not in the arena.
Destroyed(l) == [l EXCEPT !.heap = @ \ {Storage}, !.tree = NoTree, !.buffer = <<>>, !.at = 0]

\* The load has failed: the frontend asks for the default MAL rules, the
\* built-in WIL rules are looked for in the current directory.
LoadFailed(l) ==
  IF OfMal /\ ~l.fellBack
  THEN [Destroyed(l) EXCEPT !.stage = "try", !.attempts = DefaultAttempts, !.fellBack = TRUE]
  ELSE IF l.attempts # <<>> /\ ~OfMal THEN [Destroyed(l) EXCEPT !.stage = "try"]
  ELSE [Destroyed(l) EXCEPT !.stage = "done"]

\* wirble_sexp_tree_parse_file returns 0: mal_mrs_load goes on with the same
\* tree while it has paths to try.
ParseFailed(l) ==
  IF OfMal /\ l.attempts # <<>>
  THEN r' = [l EXCEPT !.stage = "try", !.tree = NoTree, !.at = 0] /\ UNCHANGED arenaVars
  ELSE r' = LoadFailed(l) /\ wirble_sexp_tree_reset

Environment == <<scenario, disk, written>>

\* Deliberately wrong variant: a missing file goes back to the end of the search.
OpenFileAgain ==
  /\ r.stage = "try"
  /\ LET path == Head(r.attempts)
         l == [r EXCEPT !.path = path, !.attempts = Tail(@), !.tree = NoTree, !.buffer = <<>>]
     IN r' = IF disk[path] # Missing THEN [l EXCEPT !.stage = "read"]
             ELSE [l EXCEPT !.attempts = Append(@, path)]
  /\ wirble_sexp_tree_reset
  /\ UNCHANGED Environment

\* wirble_sexp_tree_parse_file up to the opened file.
OpenFile ==
  /\ r.stage = "try"
  /\ LET path == Head(r.attempts)
         l == [r EXCEPT !.path = path, !.attempts = Tail(@), !.tree = NoTree, !.buffer = <<>>]
     IN r' = IF disk[path] # Missing THEN [l EXCEPT !.stage = "read"]
             ELSE IF OfMal /\ l.attempts # <<>> THEN l
             ELSE LoadFailed(l)
  /\ wirble_sexp_tree_reset
  /\ UNCHANGED Environment

\* wirble_bytebuf_read_file reads on from where it is until there is nothing
\* more, so at least twice, and the file may be another one by then.  A rule
\* file is shorter than the 4096 bytes of a chunk.
ReadChunk ==
  /\ r.stage = "read"
  /\ LET text == disk[r.path]
         more == SubSeq(text, Len(r.buffer) + 1, Len(text))
     IN \/ /\ more # <<>>
           /\ r' = [r EXCEPT !.buffer = @ \o more] /\ UNCHANGED arenaVars
        \/ /\ more # <<>> /\ Oom
           /\ ParseFailed(r)
        \/ /\ more = <<>>
           /\ r' = [r EXCEPT !.stage = "parse"] /\ UNCHANGED arenaVars
  /\ UNCHANGED Environment

\* Wrapping and parsing; the buffer stays until the tree is destroyed.
wirble_sexp_parse_buffer ==
  /\ r.stage = "parse"
  /\ \E tree \in {ParseSexp(wirble_sexp_wrap_input(r.buffer))} :
       \/ /\ tree # NoTree
          /\ r' = [r EXCEPT !.stage = "node", !.tree = tree, !.at = 1, !.heap = @ \cup {Storage}]
          /\ UNCHANGED arenaVars
       \/ tree = NoTree /\ ParseFailed([r EXCEPT !.heap = @ \cup {Storage}])
       \/ Oom /\ \E heap \in {r.heap, r.heap \cup {Storage}} : ParseFailed([r EXCEPT !.heap = heap])
  /\ UNCHANGED Environment

\* The next node in the order of wirble_sexp_build_from_sfsexp, or the end.
NextNode(l) ==
  LET rest == {i \in DOMAIN l.tree.text : i > l.at /\ l.tree.text[i] # ")"}
  IN IF rest = {} THEN [l EXCEPT !.stage = "load"]
     ELSE [l EXCEPT !.stage = "node", !.at = Min(rest)]

wirble_sexp_alloc_node ==
  /\ r.stage = "node"
  /\ \/ /\ wirble_arena_alloc_from(NodeSize, NodeAlign)
        /\ r' = IF wirble_sexp_node_is_atom(r.tree, r.at) THEN [r EXCEPT !.stage = "text"]
                ELSE NextNode(r)
     \/ Oom /\ ~FitsHead(NodeSize, NodeAlign) /\ ParseFailed(r)
  /\ UNCHANGED Environment

wirble_sexp_copy_bytes ==
  /\ r.stage = "text"
  /\ LET size == TextSize(r.tree.text[r.at]) IN
     \/ wirble_arena_alloc_from(size, 1) /\ r' = NextNode(r)
     \/ Oom /\ ~FitsHead(size, 1) /\ ParseFailed(r)
  /\ UNCHANGED Environment

\* The allocation mal_load_tree and wrs_file_load_tree begin with; a WRSFile
\* is in the context.
StartLoad ==
  /\ r.stage = "load"
  /\ \/ /\ r' = [r EXCEPT !.stage = "form", !.form = 1, !.rules = <<>>, !.cap = 0,
                          !.strategy = "INNERMOST",
                          !.heap = IF OfMal THEN @ \cup {System} ELSE @]
        /\ UNCHANGED arenaVars
     \/ Oom /\ r' = LoadFailed(r) /\ wirble_sexp_tree_reset
  /\ UNCHANGED Environment

Form == wirble_sexp_node_child(r.tree, 1, r.form - 1)
Skip(l) == [l EXCEPT !.form = @ + 1]

\* mal_load_tree, one form: a rule that cannot be loaded ends it all.  The
\* operands are counted before their array is allocated, and freeing a rule
\* without the array follows a null pointer.
MalForm(view, steps) ==
  LET rule == Len(r.rules) + 1
      grown(n) == r.heap \cup Allocated(steps, n, rule)
  IN \/ /\ \A n \in DOMAIN steps : steps[n].ok
        /\ r' = Skip([r EXCEPT !.rules = Append(@, MalRule(r.tree, view)),
                               !.heap = grown(Len(steps) + 1)])
        /\ UNCHANGED arenaVars
     \/ \E n \in StopsAt(steps) :
          IF steps[n].object \in {<<"match", 0>>, <<"replace", 0>>}
          THEN r' = [r EXCEPT !.stage = "crashed"] /\ UNCHANGED arenaVars
          ELSE /\ r' = LoadFailed([r EXCEPT
                         !.heap = mal_mrs_destroy(mal_rule_free_members(grown(n), rule), rule - 1),
                         !.rules = <<>>])
               /\ wirble_sexp_tree_reset

mal_load_rule(view) == MalForm(view, LoadSteps(r.tree, view))

\* Deliberately wrong variant: the new capacity is not stored.
AppendForgets(rules, cap, rule) == {[rules |-> Append(rules, rule), cap |-> cap]}

\* [rules, cap] after appending, which may fail where the array must grow.
wrs_append_rule(rules, cap, rule) ==
  {[rules |-> Append(rules, rule),
    cap |-> IF Len(rules) < cap THEN cap ELSE IF cap = 0 THEN InitRules ELSE 2 * cap]}
  \cup IF Oom /\ Len(rules) = cap THEN {[rules |-> rules, cap |-> cap]} ELSE {}

\* wrs_file_load_tree, one form.
WilForm ==
  IF IsForm(r.tree, Form, "rule")
  THEN \E loaded \in RulesFromTree(r.tree, wirble_sexp_extract_rule(r.tree, Form), Oom) :
         IF loaded = <<>> THEN r' = Skip(r)
         ELSE \E a \in wrs_append_rule(r.rules, r.cap, loaded[1]) :
                r' = Skip([r EXCEPT !.rules = a.rules, !.cap = a.cap,
                                    !.heap = IF a.cap = 0 THEN @ ELSE @ \cup {FileArray}])
  ELSE LET word == Text(r.tree, wirble_sexp_node_child(r.tree, Form, 1)) IN
       r' = Skip(IF ~IsForm(r.tree, Form, "strategy") THEN r
                 ELSE [r EXCEPT !.strategy = IF word \in DOMAIN Strategy THEN Strategy[word]
                                             ELSE "INNERMOST"])

LoadForm ==
  /\ r.stage = "form" /\ Form # 0
  /\ IF ~OfMal THEN WilForm /\ UNCHANGED arenaVars
     ELSE IF IsForm(r.tree, Form, "rule") THEN mal_load_rule(wirble_sexp_extract_rule(r.tree, Form))
     ELSE r' = Skip(r) /\ UNCHANGED arenaVars
  /\ UNCHANGED Environment

\* The end of mal_mrs_load and of wrsFileLoad.
FinishLoad ==
  /\ r.stage = "form" /\ Form = 0
  /\ r' = [Destroyed(r) EXCEPT !.found = TRUE, !.form = 1,
                               !.stage = IF Loader = "validate" THEN "validate"
                                         ELSE IF OfMal THEN "use" ELSE "strategy"]
  /\ wirble_sexp_tree_reset
  /\ UNCHANGED Environment

wrsFileDestroy(l) == [l EXCEPT !.heap = @ \ {FileArray}]

\* The first rule that is not valid ends it, and if its variables cannot be
\* compared, the program too.
wrsFileValidate ==
  /\ r.stage = "validate"
  /\ LET failing == {n \in DOMAIN r.rules : Validates(r.rules[n]) # "valid"}
     IN r' = IF failing # {} /\ Validates(r.rules[Min(failing)]) = "crash"
             THEN [r EXCEPT !.stage = "crashed"]
             ELSE [wrsFileDestroy(r) EXCEPT !.stage = "done", !.valid = (failing = {})]
  /\ UNCHANGED <<scenario, disk, written, arenaVars>>

\* wrsFileApplyToSystem begins with the strategy: that of the file, or the
\* one a file without a strategy has.
wilRewriteSystemSetStrategy ==
  /\ r.stage = "strategy"
  /\ r' = [r EXCEPT !.stage = "apply", !.systemStrategy = r.strategy]
  /\ UNCHANGED <<scenario, disk, written, arenaVars>>

\* The rest of wrsFileApplyToSystem, a rule at a time.
wrsFileApplyToSystem ==
  /\ r.stage = "apply" /\ r.form <= Len(r.rules)
  /\ \E a \in wrs_append_rule(r.system, r.systemCap, r.rules[r.form]) :
       r' = Skip([r EXCEPT !.system = a.rules, !.systemCap = a.cap,
                           !.heap = IF a.cap = 0 THEN @ ELSE @ \cup {RuleArray}])
  /\ UNCHANGED <<scenario, disk, written, arenaVars>>

\* Nobody destroys the file of built-in rules.
Applied ==
  /\ r.stage = "apply" /\ r.form > Len(r.rules)
  /\ r' = [IF Loader = "builtin" THEN r ELSE wrsFileDestroy(r) EXCEPT !.stage = "use"]
  /\ UNCHANGED <<scenario, disk, written, arenaVars>>

\* The end of the build: mal_mrs_destroy, wilRewriteSystemDestroy.
Release ==
  /\ r.stage = "use"
  /\ r' = [r EXCEPT !.stage = "done",
                    !.heap = IF OfMal THEN mal_mrs_destroy(@, Len(r.rules)) ELSE @ \ {RuleArray}]
  /\ UNCHANGED <<scenario, disk, written, arenaVars>>

Load ==
  \/ OpenFile \/ ReadChunk \/ wirble_sexp_parse_buffer
  \/ wirble_sexp_alloc_node \/ wirble_sexp_copy_bytes \/ StartLoad \/ LoadForm \/ FinishLoad \/ wrsFileValidate
  \/ wilRewriteSystemSetStrategy \/ wrsFileApplyToSystem \/ Applied \/ Release

-----------------------------------------------------------------------------
(* Another process that writes one of the files: it empties the file, and  *)
(* the text arrives in up to two pieces.                                   *)

Write ==
  \E n \in 0..Len(Tokens(scenario.edit.forms)) :
    /\ scenario.edit.path # ""
    /\ IF written = -1 THEN n = 0
       ELSE n > written /\ (written = 0 \/ n = Len(Tokens(scenario.edit.forms)))
    /\ written' = n
    /\ disk' = [disk EXCEPT ![scenario.edit.path] = SubSeq(Tokens(scenario.edit.forms), 1, n)]
    /\ UNCHANGED <<scenario, r, arenaVars>>

Over == r.stage \in {"done", "crashed"}
Ended == Over /\ UNCHANGED vars

Next == Load \/ Write \/ Ended

Spec == Init /\ [][Next]_vars

\* The loader is a sequential program that waits for nothing: until the load is
\* over a step of it is possible (ENABLED Load), and in the end it is taken.
FairSpec == Spec /\ ([]<>Over \/ []<><<Load>>_vars)

-----------------------------------------------------------------------------
(* Properties.  What is loaded is the subject of LoadedRules.              *)

\* Types; no array holds more rules than it has room for.
TypeOK ==
  /\ scenario \in Scenarios
  /\ written >= -1
  /\ r.stage \in {"try", "read", "parse", "node", "text", "load", "form", "validate",
                  "strategy", "apply", "use", "done", "crashed"}
  /\ r.at \in 0..Len(r.tree.text)
  /\ \A i \in DOMAIN r.tree.kids : \A n \in DOMAIN r.tree.kids[i] :
       r.tree.kids[i][n] \in (i + 1)..Len(r.tree.text)
  /\ ~OfMal => Len(r.rules) <= r.cap /\ Len(r.system) <= r.systemCap

\* However loading ends, at whatever allocation it fails, everything is freed,
\* except for the array of a file of built-in rules, which nobody frees.
NothingLeft ==
  r.stage = "done" =>
    /\ blocks = <<>>
    /\ r.heap \subseteq IF Loader = "builtin" THEN {FileArray} ELSE {}

\* Every load comes to its end.
LoadEnds == <>Over
=============================================================================
