---------------------------- MODULE MCToolchain ----------------------------
(***************************************************************************)
(* Toolchain with bytes of 8 values: int32_t has 12 bits, long long 14.    *)
(***************************************************************************)
EXTENDS Toolchain

CONSTANTS IntWidth,   \* bits of int32_t: four bytes
          LongWidth   \* bits of long long

Int32 == INSTANCE CWord WITH Width <- IntWidth
Expr == INSTANCE Expressions

MCWord == Int32!Words
MCNarrow(x) == Int32!Wrap(x)
MCUnaryInt(op, x) == Int32!UnaryWord(op, x)
MCBinaryInt(op, x, y) == Int32!BinaryWord(op, x, y)
MCTraps(op, x, y) == Int32!TrapsWord(op, x, y)

MCFold(e) == Expr!wirble_expr_fold_constants(e)
MCFoldTraps(e) == Expr!FoldTraps(e)
MCLiterals(e) == Expr!Literals(e)
MCExact(e) == Expr!Exact(e)
MCStaysInLong(e) == Expr!StaysInLong(e)

MCOpOrder == <<"NOP", "HALT", "RETURN", "JUMP", "MOVE", "LOAD_CONST", "LOAD_IMM">>

I(x) == Expr!wirbleExprInt(x)
B(op, e, f) == Expr!wirbleExprBinary(op, I(e), I(f))
Missing == [kind |-> "MISSING"]
Malformed == [kind |-> "MALFORMED"]

\* Small and large constants, an overflow, a quotient that traps, zero divisors.
MCExprs ==
  {I(5), I(3000), Expr!wirbleExprUnary(I(5)), B("SUB", 2, 7), B("MUL", 90, 100),
   B("DIV", -8, 3), B("DIV", 6, 0), B("DIV", -8192, -1),
   Expr!wirbleExprBinary("SUB", B("MUL", 40, 60), Expr!wirbleExprUnary(B("DIV", 0, 5))),
   Expr!wirbleExprBinary("ADD", B("DIV", 1, 0), B("ADD", 2, 3)), Malformed}

ShortPath == <<3, 1>>
LongPath == [i \in 1..30 |-> 2]
\* The buffer is full before the number of constants.
BrimPath == [i \in 1..24 |-> 2]

MCJob(e, path, level) ==
  [wellFormed |-> TRUE, source |-> e, path |-> path, name |-> <<5, 4, 6, 7>>, level |-> level,
   target |-> "known", noRules |-> FALSE, symbolic |-> FALSE, lines |-> <<>>]
Runner == MCJob(Missing, <<>>, 0)

MCFaults(oom, denied, full, kill) == [oom |-> oom, denied |-> denied, diskFull |-> full, kill |-> kill]
MCScenario(jobs, f) ==
  [jobs |-> jobs, oom |-> f.oom, denied |-> f.denied, diskFull |-> f.diskFull, kill |-> f.kill]

Quiet == MCFaults(FALSE, FALSE, {}, FALSE)
NoMemory == MCFaults(TRUE, FALSE, {}, FALSE)

Eval(e, words) == [command |-> "eval", source |-> e, words |-> words, level |-> 0]
Opt(n) == [command |-> ":opt", source |-> Missing, words |-> <<>>, level |-> n]
Command(c) == [command |-> c, source |-> Missing, words |-> <<>>, level |-> 0]

\* One compiler and the reader, for every expression and level 0 or 2.
OneByOne ==
  {MCScenario([t \in {"wirblecc", "wvm-run"} |-> IF t = "wvm-run" THEN Runner ELSE job], Quiet) :
     job \in {MCJob(e, ShortPath, level) : e \in MCExprs, level \in {0, 2}}
             \cup {MCJob(Missing, ShortPath, 2), [MCJob(I(5), ShortPath, 2) EXCEPT !.wellFormed = FALSE],
                   [MCJob(I(5), ShortPath, 2) EXCEPT !.symbolic = TRUE],
                   [MCJob(I(5), ShortPath, 2) EXCEPT !.target = "unknown"]}}

\* Two compilers and the reader on one file, with and without faults.
Together ==
  {MCScenario([t \in {"wirblecc", "wvm-emit", "wvm-run"} |->
                 IF t = "wvm-run" THEN Runner
                 ELSE MCJob(I(IF t = "wirblecc" THEN 3000 ELSE -7),
                            IF t = "wirblecc" THEN ShortPath ELSE LongPath, 2)], f) :
     f \in {Quiet, MCFaults(FALSE, FALSE, {}, TRUE)}}
  \cup {MCScenario([t \in {"wirblecc", "wvm-emit", "wvm-run"} |->
                      IF t = "wvm-run" THEN Runner
                      ELSE MCJob(I(IF t = "wirblecc" THEN 3 ELSE -7), ShortPath, 2)],
                   MCFaults(FALSE, FALSE, {"wvm-emit"}, FALSE))}

\* No memory, no permission to write, no rules.
Failing ==
  {MCScenario([t \in {"wvm-emit", "wvm-run"} |->
                 IF t = "wvm-run" THEN Runner ELSE MCJob(I(3000), path, 2)], NoMemory) :
     path \in {ShortPath, BrimPath, LongPath, LongPath \o LongPath}}
  \cup {MCScenario([t \in {"wirblecc"} |->
                      [MCJob(I(3000), ShortPath, 0) EXCEPT !.symbolic = on]],
                   MCFaults(TRUE, TRUE, {}, FALSE)) : on \in BOOLEAN}
  \cup {MCScenario([t \in {"wirblecc", "wvm-emit"} |->
                      [MCJob(e, ShortPath, 2) EXCEPT !.noRules = (t = "wvm-emit")]], f) :
          e \in {I(3), B("DIV", 6, 0), Malformed}, f \in {Quiet, NoMemory}}

\* The interpreter, on a file and on lines.
Interpreting ==
  {MCScenario([t \in {"iwirble"} |-> job], f) : f \in {Quiet, NoMemory},
     job \in {MCJob(e, ShortPath, 2) : e \in MCExprs}
             \cup {[MCJob(Missing, <<>>, 2) EXCEPT !.lines = lines] : lines \in
                    {<<Eval(e, w), Opt(n), Eval(I(9), <<2, 1>>), Command(c), Eval(I(4), <<1>>)>> :
                       e \in {B("DIV", 6, 0), B("MUL", 3, 2)}, n \in {0, 7},
                       w \in {<<1>>, <<2, 2>>, <<3, 2>>, <<7>>}, c \in {":quit", ":help"}}}}

MCScenarios == OneByOne \cup Together \cup Failing \cup Interpreting
=============================================================================
