----------------------------- MODULE LoadedRules -----------------------------
(***************************************************************************)
(* The rules that RuleFiles loads, compared with what is written.  A form  *)
(* of a file comes with what it means: mal and wil, the rules it stands    *)
(* for (one or none), bad, that it is no MAL rule, the strategy it names,  *)
(* and its shape: "stray" is a closing parenthesis too many, "open" one    *)
(* that is missing.                                                        *)
(***************************************************************************)
EXTENDS RuleFiles

CONSTANTS Floats,    \* words with digits and a dot
          Quoted,    \* words in double quotes
          NodeKind,  \* "add" -> "ADD": wil_node_kind_str backwards
          VarCap     \* variables a rule may have (128)

Trees == INSTANCE RuleTrees

\* What is in front of the first stray parenthesis.
Before(forms) ==
  LET strays == {n \in DOMAIN forms : forms[n].shape = "stray"}
  IN IF strays = {} THEN forms ELSE SubSeq(forms, 1, Min(strays) - 1)

RulesOf(forms) ==
  FlattenSeq([n \in DOMAIN forms |-> IF OfMal THEN forms[n].mal ELSE forms[n].wil])

\* The last strategy a file names.
StrategyOf(forms) ==
  LET named == {n \in DOMAIN forms : forms[n].strategy # ""}
  IN IF named = {} THEN "INNERMOST" ELSE forms[Max(named)].strategy

Good(forms) == OfMal => \A n \in DOMAIN forms : ~forms[n].bad

Readable(path) ==
  path \in scenario.present /\ \A n \in DOMAIN scenario.files[path] :
                                 scenario.files[path][n].shape # "open"

\* The first of some paths that can be read: a set of one, or empty.
FirstReadable(paths) ==
  {paths[n] : n \in {n \in DOMAIN paths :
                       Readable(paths[n]) /\ \A m \in 1..(n - 1) : ~Readable(paths[m])}}

\* The file whose rules are used.
Answer ==
  LET asked == FirstReadable(Attempts(Loader)) IN
  IF ~OfMal THEN asked
  ELSE LET good == {p \in asked : Good(Before(scenario.files[p]))}
       IN IF good # {} THEN good
          ELSE {p \in FirstReadable(DefaultAttempts) : Good(Before(scenario.files[p]))}

Undisturbed == ~Oom /\ scenario.edit.path = ""

\* The loaders, the reader below them and the search for a file together: the
\* rules in use are those written in the first file of the search that can be
\* read, all of them, in their order, WIL rules with their conditions (a :when
\* of a MAL rule is dropped, and no document mentions one), and the strategy is
\* the last one that file names; for MAL, if they all are rules, and else those
\* of the default file.  The forms are those that the header and the loader read
\* alike; what the header writes otherwise is no form of these files.
LoadsWhatIsWritten ==
  r.stage = "done" /\ Undisturbed =>
    IF Answer = {} THEN ~r.found
    ELSE /\ r.found /\ r.path \in Answer
         /\ r.rules = RulesOf(Before(scenario.files[r.path]))
         /\ Loader \in {"wrs", "builtin"} =>
              /\ r.system = r.rules
              /\ r.systemStrategy = StrategyOf(Before(scenario.files[r.path]))

\* The forms that may be read of a file while it is written: the file as it
\* was, a first part of the new text, or all of the old one and what begins in
\* the new one where the old one ends.
Readings(path) ==
  LET new == IF path = scenario.edit.path THEN scenario.edit.forms ELSE <<>>
      firsts == {SubSeq(new, 1, k) : k \in 0..Len(new)}
      behind(old) == {SubSeq(new, j, k) : k \in 0..Len(new), j \in
                        {j \in DOMAIN new : Len(Tokens(SubSeq(new, 1, j - 1))) = Len(Tokens(old))}}
  IN IF path \notin scenario.present THEN firsts
     ELSE LET old == scenario.files[path]
          IN {old} \cup firsts \cup {old \o more : more \in behind(old)}

\* A file that is read while another process writes it, or that the writer
\* never finished, is refused, or gives all its old rules, or the first of the
\* new ones, or all the old ones and then some of the new.  The reader never
\* takes parts of two rules for one, and MAL rules are never loaded with a
\* faulty one left out.  (The old file has no parenthesis that is missing.)
RacedIsWhole ==
  /\ r.found /\ (Oom => OfMal)
  /\ r.path \in scenario.present => Readable(r.path)
  => \E forms \in Readings(r.path) : r.rules = RulesOf(Before(forms)) /\ Good(Before(forms))

\* Each rule of s is, up to holes, one of t's, in the same order.
FromInOrder(s, t) ==
  \E f \in [DOMAIN s -> DOMAIN t] :
    /\ \A m, n \in DOMAIN s : m < n => f[m] < f[n]
    /\ \A n \in DOMAIN s : Trees!HoledRule(s[n], t[f[n]])

\* Without memory the WIL loader goes on with what it has: rules are lost, and
\* patterns have holes, but an operand never takes another one's place and
\* the rules keep their order.
HoledNotWrong ==
  Oom /\ r.found /\ ~OfMal /\ scenario.edit.path = "" =>
    /\ FromInOrder(r.rules, RulesOf(Before(scenario.files[r.path])))
    /\ FromInOrder(r.system, r.rules)

\* No fault of the file, the disk or the memory makes a loader invent a rule:
\* every rule that is loaded is, up to holes, one written in the file, before or
\* after it was changed.
NeverMadeUp == RacedIsWhole /\ HoledNotWrong

\* Terms to apply rules to: two levels of operations.
Leaves == {Trees!Node("CONST_INT", <<>>, k) : k \in 0..1} \cup {Trees!Node("PARAM", <<>>, 0)}
WithOperations(terms) ==
  terms \cup {Trees!Node("NEG", <<a>>, 0) : a \in terms}
        \cup {Trees!Node(kind, <<a, b>>, 0) : kind \in {"ADD", "SUB"}, a, b \in terms}
SmallTerms == WithOperations(WithOperations(Leaves))

\* A rule of a file that wrsFileValidate accepts can be applied wherever it
\* matches, provided its replacement is one of those the header lists: the
\* builder finds every variable bound, and leaves no operand out.  (The check
\* looks at variables only: a wildcard, a hole or a missing operand in a
\* replacement is accepted too, and building it fails.)
ValidatedBuilds ==
  r.valid => \A n \in DOMAIN r.rules :
    Trees!IsReplacement(r.rules[n].rhs) => Trees!BuiltFromAll(r.rules[n], SmallTerms)
=============================================================================
