# A TLA+ verification of WIRBLE

WIRBLE is a compiler toolkit in C. A program is built as a sea-of-nodes graph
(WIL), rewritten (WRS), lowered to linear SSA code (MAL), improved by peepholes
(MRS), turned into machine instructions by pattern matching (MDS), laid out
(TOS), encoded and executed (WVM). Command line tools compile expressions to
object files and run them. This directory holds TLA+ models of that path, TLC
configurations that check them on small instances, and TLAPS proofs about the
graph, the compiler, the layout, the virtual machine, the tools with their object
files, and the loading of rules, for instances of any size.

Paths below are relative to `src/wirble/` of the repository unless they say
otherwise.

## 1. Inventory

Each program runs in one thread; there are no locks, messages or timers. What
several programs share is the disk: two compilers write the same file by default,
and a file is read while another process writes it. The rest of what is
hard is redundancy that is kept by hand (use lists, predecessor lists, cached
layouts), checks that are done once and trusted afterwards (bytecode
verification), silent failure (allocations, missing patterns), numbers at their
limits (16-bit registers, 32-bit jumps), and the order in which stages see what
earlier stages made.

| Component | State | Operations | What makes it correct |
|---|---|---|---|
| WIL graph, `wil/wil_nodes.c` | node table; per node: input slots, use list, REMOVED flag | create, add/replace/remove input, replace all uses, remove | use lists are the transposed slots; editing through them edits the whole graph |
| WIL verification, `wil/wil_validate.c` | `verify_error` | verify node, verify graph | accepts every graph made by the mutators (NULL operands apart) |
| WIL builders, `wil/wil_builder.c` | none | `wil_make_*` | a new node and its inputs |
| WRS, `wrs/`, `stdrewrite/` | rules, strategy, statistics; a temporary e-graph per match | register, match, apply, normalize | replaces a node by an equal one, everywhere; ends; reaches a normal form |
| MAL lowering, `mal/mal_ir.c` | functions, blocks, instructions, register counter, node-to-register table | `malLowerFromWIL` | SSA form, same value |
| MAL analysis, `mal/mal_validate.c` | successors, predecessors per block | `mal_compute_cfg`, `mal_verify_ssa` | edges agree with the terminators, in both directions |
| MRS, `mal/mrs_*.c`, `stdrewrite/mal_peephole.wrs` | rules | match, replace, fixpoint | same value, still SSA, ends |
| MDS, `mds/` | machine tables, patterns | select, lower | every instruction gets a fitting mnemonic, or the program is refused |
| TOS, `tos/` | instruction stream, block descriptors, order | build, finalize, validate | a permutation of the blocks, in reverse postorder, that validates |
| WVM encoder, `wvm/wvm_encoder.c` | prototype: registers, constants, code | encode, verify | the same value; operands in range |
| WVM interpreter, `wvm/wvm_runtime.c` | value stack, error, frame | push, pop, set register, execute | runs inside its registers; errors reported once and everywhere |
| Frontend, `examples/common/frontend.c` | artifacts of one compilation | build pipeline, execute source, fold constants | stages in order, each failure ends it, everything freed once |
| WVM object files, `wvm/wvm_emit.c` | byte streams | serialize, deserialize, write, read | round trip; a damaged file does no other program's work |
| Tools, `examples/iwirble`, `examples/wirblecc`, `toolchain/` | options, source, prototype, machine | `main`, the interpreter's commands | right values, old output kept on failure, always end |
| Rule files, `wrs/wrs_loader.c`, `mal/mrs_loader.c`, `support/sexp_reader.c` | a tree in an arena, arrays of rules | parse, load, validate, apply | the rules written are the rules used |
| Arena, `common/arena.c` | blocks | allocate, reset | aligned, disjoint, in bounds |
| Printers, string pool, diagnostics, VXT | buffers | formatting | - |

Components call each other in the order of the table; the only shared state is
the WIL graph, edited by builders and WRS through the same mutators, the
VM's stack, which is both the host's operand stack and the register file, and,
between processes, the files.

The hazards, each at its line and with the properties aimed at it, are listed
in `PROJECT.json`.

## 2. Modules

| Module | Models |
|---|---|
| `ValueGraph` | abstract specification: a graph of input slots, without use lists |
| `WILGraph` | WIL graph, builders, verifier, with failing allocations |
| `WILGraphProofs` | theorems about `WILGraph` |
| `WVM` | the virtual machine: host calls, bytecode verifier, interpreter |
| `CWord` | C integer arithmetic on words of a given width |
| `WVMProofs` | theorems about `WVM` |
| `Pipeline` | WIL graph to value: lowering, SSA check, peepholes, selection, encoding, execution on an instance of `WVM` |
| `PipelineProofs` | theorems about `Pipeline` |
| `MeaningProofs` | theorem: the pipeline computes what the graph means |
| `BlockLayout` | MAL control-flow edges, MDS/TOS block order and instruction stream |
| `BlockLayoutProofs` | theorems about `BlockLayout` |
| `StdRules` | patterns and the three built-in rule files |
| `WRS` | rule registry, matcher, equivalence, strategies and normalization over a shared graph |
| `ObjectFile` | the bytes of an object file: writer and reader |
| `Expressions` | the frontend's expressions and constant folding |
| `Toolchain` | the four tools on one disk, with faults; uses `ObjectFile` and an instance of `WVM` |
| `ToolchainProofs` | theorems about `Toolchain` |
| `Arena` | the arena allocator |
| `SexpTree` | the tree of a text, and what its users ask of it |
| `RuleTrees` | what is recursive about rules: the parser, the readers of patterns and conditions, the walk of `wilRuleValidate`, matching a pattern and building a replacement |
| `RuleFiles` | S-expression reader and both rule loaders, on `Arena`; takes the operators of `RuleTrees` as constants |
| `LoadedRules` | properties of `RuleFiles` that compare the rules loaded with those written |
| `RuleFilesProofs` | theorems about `Arena` and `RuleFiles` |
| `NumberFacts` | lemmas on least and greatest numbers, used by the proofs |
| `MC*` | constants for TLC |

### WILGraph

`inputs[n]` is the array of slots of node `n`, `uses[n][u]` how often `u` occurs
in its use list. The order of a use list is never read by the code, hence a bag.
`nodeCount`, `removed` and `verifyError` are the fields of the graph and the
context. There is one action per mutator; `wil_build_nary` stands for all
builders, which create a node and add its inputs. `wil_node_replace_all_uses`
is the whole loop over the snapshot. In a scenario with `oom` any registration of a
use may be lost (the code returns silently when `realloc` fails), a superset of
what capacities allow; a slot that could not be appended is an operand that was
never given.

`ImplementsValueGraph` says that, while allocations succeed, the graph behaves
as `ValueGraph`, in which `replace_all_uses` is a substitution in every slot of
the graph and only a node held by no slot is removed.

### WVM

The stack is a function on `0..stackCap-1`. `wvmPush`, `wvmPop`, `wvmSetReg`,
`wvmClearError`, `wvmExecuteRefused` and `wvmExecute` (entry) are the host's
calls, and so are two that leave an error without executing anything:
`wvmVerifyOnly`, the verifier called for its verdict, and `wvmReadObjectRefused`, a
file that is none. Each case of the interpreter's `switch` is an action. Values are a tag
and the low 32 bits as an integer; memory cleared by `memset` reads as the
float 0.0, which is what the NaN boxing gives. Reading a condition register
outside the stack yields any value. `INT_MIN / -1` wraps or ends the process
(`OpTrap`); shifts take their count modulo the width, as the processors do.
`wvmCall` is `wvmExecute` and a read, `wvmStep`, `wvmResume` and `wvmYield` do
nothing in the code. The error handler callback is left out.

### Pipeline

The stages of `wirbleBuildPipelineArtifacts` and `wirbleExecuteSource` for
integer graphs. A node has a kind, inputs and a constant or parameter index.
`wil_node_replace_all_uses` is the effect a WRS rule has on the graph: one node
replaced everywhere by another that does not depend on it. Lowering, selection
and encoding advance by one node or instruction per step; a peephole rewrite is
one step. Execution is `VM == INSTANCE WVM`. Mnemonics are written without the
target prefix: the four targets have the same tables. All values are `I32`, the
only type the frontend makes, so that the immediates of the peephole rules
(typed `I32`) match. `wil_verify_graph` is left out because it cannot fail here
(`VerifyBlamesOnlyNulls`), and so is the `HALT` added to a program without
instructions, since every function ends in a return.

The reference is `Values`: the meaning of the graph, by recursion over it.

### BlockLayout

Blocks of one or more functions with their last instruction; successor and
predecessor lists as `mal_compute_cfg` fills them, a block per step; then
`tosBuildFromMDS` and `tosFinalizeProgram` with its recursive search as an
explicit stack, a call per step. Ids start from 0 in every function, as in the
code, so that ids of two functions coincide. The selector is assumed to have a
pattern for every instruction (callers can add patterns for branches with
`mdsAddPattern`).

`mal_compute_cfg` frees the predecessor list of each block as it comes to it,
after earlier blocks have added their edges. The documentation promises the
predecessors of a block (`docs/vade-mecum/02_mal.md:256`); `PredsListed` states that,
and the run `block_layout_preds` refutes it. `PredsSound` states what does hold:
successors are the edges as they are now, whatever is listed as a predecessor is one
and as often as it should be, and the edges that close a loop are all listed.
Nothing in the repository reads the lists yet.

### WRS

A node has a kind, inputs and the value of a constant or the index of a
parameter. The graph is one sequence, edited in place; use lists are exact
(`WILGraph`), so `wil_node_replace_all_uses` is the substitution in all slots.
Each public call of `wrs_apply.c` and `wrs_system.c` is one action; the
recursion inside a call threads a heap through the same steps as the code:
inputs from left to right, a shared input once for every path to it, the first
rule that applies. `MeaningKept`, `AnswerMeans` compare with `Value`, the
meaning of a node by recursion over the graph.

The e-graph library decides equality of two terms by saturation with commutativity and
associativity. `Class` states the result: terms are equal if their operands,
flattened, agree as bags, and leaves if they have the same kind. This is more than the
library finds for large terms: its matcher takes the first fitting e-node of a class,
keeps the bindings of a failed attempt (`third_party/equinox/src/rewrite.c:119-147`),
and stops after a number of rounds. For terms of at most two operators, which is what
the runs build, the two agree. The node that the e-graph proposes for a term is the
term's root in all runs, so that nothing is shown about that choice. Rules with an
action function, the pattern kinds no built-in file uses, and conditions (stored but
never evaluated) are left out.

### ObjectFile, Expressions, Toolchain

A byte has `Base` values and all fields keep their widths in bytes, so that
`int32_t` is four bytes and can be given 12 bits. `ObjectFile` writes a
prototype as the chunks the code appends (a chunk that does not fit a buffer that
cannot grow is left out) and reads it field by field: a field behind the end is
0, an array has zeros where the file has ended, and the only checks are the magic
number and the bytecode verifier. The header's checksum is neither computed nor
compared. `MaxCells` is the largest array that can be allocated. Memory for the
strings of a file is taken to be there (`AfterString`).

`Toolchain` runs `wirblecc`, `wvm-emit`, `wvm-run` and `iwirble` side by side. The
steps that touch the disk are separate: `fopen` empties the file, `fclose` writes the
buffer (a file is smaller than a stdio buffer), `ftell` measures, `fread` reads.
Faults are part of a scenario: no memory (any allocation may fail), no permission, a
full disk for some tools, kills of compilers. The heap of a tool is a set of objects;
`Free` marks an object `bad` when it is freed twice, or while something that will
still use it is live. `wirbleBuildPipelineArtifacts` is one step whose outcomes are
all places where it may stop. `wvm-emit` alone names a file of rules; it may be
missing (`noRules`), and then a build with optimization stops after its rewrite
system. Without memory the process may also end in the middle, since
`mdsDestroyMachine` walks arrays that could not be allocated (`CompileTraps`). What it
computes for an expression is a constant, since `wirble_expr_fold_constants` leaves
nothing else but divisions by zero; `Pipeline` is about the graphs beyond that.
Folding and the arithmetic of `int32_t` are constants of the module, which
`MCToolchain` defines by `Expressions` and `CWord`. The machine variables are those of
one `WVM` used by one tool after the other, which is sound because a machine is
created, used and destroyed by its tool and nobody sees it. What the module asks of
its constants is stated in four assumptions (`ScenariosAssumption`,
`FoldingAssumption`, `SizesAssumption`, `NarrowAssumption`), which TLC evaluates for
every scenario of the run.

`ReadsOneProgram` says what `wvm-run` makes of a file. What it has read is the
beginning of what one compiler writes, or begins with all of it (`NeverMixed`); a
file that arrives whole is the program that was compiled (`RoundTrip`); of a file
that does not, the first instructions are run, and `NOP`s after them
(`CutKeepsPrefix`). The last part has two limits, which are limits of the code: a
file that ends in the strings before the code is read out of step, since the reader
takes fields behind the end for 0 and goes on, and so is a file from which a chunk
was left out when more bytes follow it than its buffer holds.

An expression counts as allocated once the parser has handed it over; what a
failed parse leaves behind belongs to the generated parser.

### Arena, RuleFiles

The arena's blocks and the objects handed out, as offsets. `RuleFiles` uses it
for the tree, and every step is a step of the arena or leaves it alone (`ArenaSpec`).

The parser, the readers of WIL patterns and the walk of `wilRuleValidate` are
recursive. `RuleFiles` has them as constants (`ParseSexp`, `RulesFromTree`,
`Validates`), which `MCRuleFiles` defines by `RuleTrees`, so that the loaders can be
proved about. All it needs to know of the parser is `ParserAssumption`: what it
returns for a text a loader may see is no tree, or the tree of a first part of the text
in which the elements of a list are behind its parenthesis. The run evaluates this
for every text of its scenarios, whole or partly written.

A file is a sequence of tokens, `parse_sexp` of the sfsexp library returns the
first complete expression (external), and a node is the position of its token.
Both loaders are there with their searches: `mal_mrs_load` tries a path, then the
standard directory, and the frontend then asks for the defaults; the built-in WIL
files are looked for in two places. One step is one allocation in the tree, one
top-level form, or one rule appended. Another process may rewrite a file: it
empties it and the text arrives in two pieces. `wirble_bytebuf_read_file` reads until
there is nothing more, so at least twice (`ReadChunk`), and the writer may come
between two reads: the buffer then has the old text and, behind it, what the new one
has from that position on. `RacedIsWhole` allows this outcome, and nothing else: whole
old rules, then whole new ones. Positions are counted in tokens, so that a splice in
the middle of a word or of a comment is not covered. Rule files are shorter than the
4096 bytes of one chunk (the shipped ones have at most 1438). With `oom` every
allocation may fail. The MAL loader then gives up and frees what it has; it counts
operands before it has their array, and freeing such a rule crashes (stage
`crashed`). The WIL loader goes on with null patterns and null names (`(seq)`
has none either); `wilRuleValidate` crashes when it compares such a name.

A form of a file comes with what the header and the documentation say it means, and
`LoadsWhatIsWritten` compares the rules loaded with that. The files of the run have
only forms that the header and the loader read alike. Not so are `(defrule ...)`
(`wirble-wrs.h:351`) and `(rule name (pattern ...) (replacement ...))`
(`docs/vade-mecum/03_wrs.md:353`), which give no rule and no error, and a pattern
`(pred ...)` (`wirble-wrs.h:435`), which becomes a wildcard; on these the code
disagrees with its documentation, and the property does not cover them. A `:when` of a
MAL rule is dropped by `mal_load_rule`; nothing documents one. `ValidatedBuilds` takes
the rules of an accepted file, matches them with small terms and builds the
replacement: all operands are there if the replacement is one the header lists.
`wrsFileValidate` compares variables only and accepts others too, a wildcard, a word
that is no pattern or a missing operand, from which a NULL or a node with a NULL
operand is built (`wrs_match.c:205`, `237-263`).

## 3. Runs

| Run | Instance | Shows |
|---|---|---|
| `wil_graph` | 3 nodes, 2 slots each; 2 nodes, 3 slots, failing allocations | use lists exact, removed nodes isolated, verifier accepts, refinement of `ValueGraph`; without memory uses are lost but never made up |
| `wvm` | 2-bit words, stack from 2 slots, 33 prototypes | operands and register window, cleared registers, error protocol, termination of forward code |
| `pipeline` | 4 nodes, 1 parameter, all operators but XOR, 3-bit words; 5 nodes, 2 parameters, 1 replacement, 3 register numbers | the compiled code computes the graph's value, also when numbers run out; SSA after every step; refusals only for a missing pattern; compilation ends |
| `block_layout` | 3 blocks with any edges; 2 functions of 2 blocks; 1 edit | nothing lost, validation passes, reverse postorder, no stale, doubled or missing loop edges in the lists, the search ends |
| `wrs` | 2 nodes (ADD, MUL, NEG) over a parameter and 0, all built-in rules for them or the left-linear ones, both strategies, 3 calls, 4 counters | no cycle, passes and normal form test agree, the limit is not reached, left-linear rules keep every value, statistics consistent |
| `toolchain` | up to 3 tools at once, 11 expressions, sources with short and long names, kills, full disk, no memory, no permission, no rules, sessions of 5 lines | object files survive the round trip; mixed files never arise; cut ones are refused or run as a prefix followed by NOPs; a failed compiler keeps the old output; every object freed once; the interpreter prints the values; all tools end |
| `rule_files` | 19 kinds of forms in files of up to 4, all four uses of the loaders, a writer, no memory | the rules in use are the ones written in the right file; raced files give whole rules, old, new, or old and then new; holes but no shifted operands without memory; nothing left allocated; validated rules with a documented replacement can be applied; the arena is sound; loading ends |
| `wvm_condition` | as `wvm` | violated: the condition register of a jump is not verified |
| `pipeline_xor` | XOR only | violated: XOR is encoded as OR |
| `pipeline_rewrite` | 1 replacement | violated: a node used before its place in the table reads register 0 |
| `wrs_meaning` | 2 nodes over 2 parameters, 0 and -1, all rules | violated: a repeated variable matches different parameters |
| `block_layout_preds` | as `block_layout` | violated: predecessors that stand before a block are lost |

The five violated runs are the findings of `PROJECT.json`, each with the line of the
documentation it disagrees with. `ComputesMeaning` in the passing runs is
restricted to what these leave: no XOR, nodes after their inputs, parameters in
the order of their indices (registers follow the order of creation and ignore the
index). `LinearAnswerMeans` and `MeaningKept` are restricted to rules that do not
repeat a variable.

`wilRewriteSystemNormalize` stops when a pass leaves the root alone, also if that
pass rewrote inner nodes: `(-p + p) + p` becomes `(p - p) + p`, to which `sub-self`
applies, although `wirble-wrs.h:247` promises a fixpoint. No property claims it:
`QuietMeansNormal` speaks of passes that rewrite nothing, `Settles` of the root.

Bounds. Three nodes with two slots give duplicate operands, self references, cycles
and chains of replacements; two nodes with three slots add lists with several lost
uses. Two-bit words reach every wrap-around of the arithmetic, and a stack that starts
with two slots has to be doubled once and twice. The 33 prototypes have every opcode
the interpreter implements, jumps before, inside and behind the code, and one fault of
each kind the verifier looks for; the theorems cover all others. Four nodes give
operators over operators, constants beyond the word (9 does not fit 3 bits) and dead
nodes; `RegMax = 3` makes the saturation of register numbers, at 65535 in the code,
happen with five nodes. Two operators over two leaves give shared operands, rewrites
below and above each other, and two more calls after rules have been loaded, which
reach rewriting after a removal, a repeated addition, a reset or a change of strategy,
and rewriting of what was rewritten. Differences arise from sums with a negation. The
four counters stand for the 256 of the code. Three blocks with two-way branches have
all shapes of loops, joins and unreachable blocks. Bytes of 8 values give 12-bit
`int32_t`, so that constants fit an immediate (5), need the pool (3000) or overflow
(90 * 100), and 14-bit folding, whose smallest value divided by -1 traps. A buffer of
54 bytes is filled by the short file name in the middle of the instructions, by the
long ones in front of them, and by one (`BrimPath`) just before the number of
constants. Blocks of 24 bytes hold two nodes, and one word is longer than the rest of
any block. A first array of one rule grows once and twice with three rules, and a rule
with three variables exceeds a limit of two (128 in the code). Deadlock is not checked
where the system may stop: a compilation that has ended, a machine that has trapped.

Fairness. `WVM!FairSpec` and `Pipeline!FairSpec` assume that the thread that
entered `wvmExecute` or the compiler goes on (weak fairness of the steps inside);
the host's and the builder's calls are never forced. `BlockLayout!FairSpec`
assumes it of the search in `tosFinalizeProgram`. This is one sequential thread
inside a call, which nothing can suspend for ever. `Toolchain!Scheduled` assumes
of every tool that it gets processor time as long as it can go on; kills are never
forced. It is weak fairness with `CanProceed` written out for ENABLED.
`RuleFiles!FairSpec` assumes the same of the loader; the writer is not forced, and
may stop between its pieces.

Every property has a mutant: a plausible slip in one mapped definition under
which TLC refutes it (the operators marked as deliberately wrong variants).
`ReadsOneProgram` in `Toolchain` and `NeverMadeUp` in `LoadedRules` are conjunctions
of named parts: no mixture of two files, round trip, and cut files; raced files
and files loaded without memory.

## 4. Proofs

TLAPS checks these for every value of the constants that satisfies the named
assumptions: `BoundsAssumption`, `ScenariosAssumption` in `WILGraph`;
`MachineAssumption`, `HostAssumption` in `WVM` (the word is a set of integers closed
under the operations, the prototypes are finite sequences of instructions);
`OptionsAssumption` in `Pipeline` (constants are integers, register numbers natural)
and `WordAssumption` (a constant narrowed and an operator applied to words give a
word, only a division may trap, and 0 and 1 are neutral or zero elements where the
peephole rules take them for it); `ProgramsAssumption`, `EditsAssumption` in
`BlockLayout` (the functions' blocks follow each other and have different ids in a
function); `ScenariosAssumption`, `SizesAssumption` in `Toolchain` (there are four
tools, the interpreter has no `--symbolic`, names are bytes and their lengths fit
their fields, `int32_t` is four bytes), `FoldingAssumption` (folding gives the value
of an expression no part of which overflows, and an `int32_t` is its own low 32 bits),
`NarrowAssumption` (the low 32 bits of a constant are an `int32_t`); `ArenaAssumption`
in `Arena` (positive sizes, alignments 1, 2, 4, 8); `ScenariosAssumption`,
`MemoryAssumption` in `RuleFiles` (the paths that are tried name files, there or not;
the sizes asked for are sizes of the arena) and `ParserAssumption` (see above). Each
is evaluated by the runs of its module.

`WILGraphProofs`. `TypeCorrect` first. `NoPhantomUses` is by induction on
"`uses[n][u]` is at most the number of slots of `u` that hold `n`", which is
inductive given the types; the work is in lemmas on how the number of
occurrences changes under append, update, deletion and substitution
(cardinalities of finite sets). With it, an unregistration always finds its
entry, which makes equality inductive while allocations succeed
(`UsesMirror`). `RemovedAreIsolated` and `VerifySound` follow by induction from
that equality, and `Refinement` maps each action to the action of `ValueGraph`
it implements: a snapshot of exact use lists visits all holders.

`WVMProofs`. `OperandsStayInFrame` rests on the invariant that a running
prototype has been verified and that `stackSize = regCount <= stackCap` until
it ends; each instruction then lies in range because the verifier has accepted
its encoding. The same invariant gives `WindowKept` and `TypeCorrect`.
`EntryIsFresh` and `ReturnsAgree` are about steps and are proved from the types, the
actions and `NoErrorRunning`: whatever error a host call has left, `wvmExecute` clears
it before it runs anything.

`RuleFilesProofs`. `ArenaIsSound` is by induction on `ArenaTypeOK` and `ArenaSound`
together: a new object starts at or behind `used`, all objects of the block end at
or before it (`Inside`), hence they are disjoint; `AlignUp` states what rounding
gives for each alignment. For the loaders the invariant is `DiskInv` (a file holds
one of the texts that may be found in it), `LoaderInv` and `BlocksInv` (the arena is
empty at the stages where the tree is gone). `LoaderInv` says of every stage where
the reader is in its text (`ReaderInv`), what it has read of a file that may have
changed meanwhile (`BufferInv`: the old text or nothing, and behind it a piece of the
new one), how far the array of rules is filled and
that it has room (`ArrayInv`), and which objects are then on the heap (`HeapInv`).
From it follow `TypeCorrect`, and `NothingIsLeft`: whatever allocation fails,
everything is freed in the end, except for the array of a file of built-in rules,
which no code frees. `ArenaRefined` maps each step to an allocation, a reset or no
step of the arena; with `ArenaIsSound` this gives `TreesAreSound`: the nodes and
texts of a tree of any size are aligned, disjoint and inside their blocks.

`PipelineProofs`. SSA form alone is not inductive: the operands of the next node
are registers of its inputs, so one needs `Lowered` (every node before `at` that is
no constant has a register that is defined), and `LowerInv` (registers are
numbered from 0, the parameters' first, the next one is free). `SSAKept` follows
by cases on the node lowered; a peephole keeps it because the replacement reads
registers the instruction read (`MalOK`). `OnlyUnselectableRefused` continues the
chain: what the patterns select is `Encodable` (`SelectInv`), and
what is encoded from it passes `wvmVerifyPrototype` if the registers fit
(`EncodeInv`), so that neither verifier ever gives a compilation up.

`MeaningProofs`. `MeaningComputed`: for graphs in creation order whose operators
meet integers only, a program that is executed ends with the value of the returned
node in register 0; it may be refused only if no register number was left for
immediates. The hypothesis `Supported` is what
the code needs: no XOR, for which the encoder emits OR (run `pipeline_xor`), and at
most `RegMax` parameters (65535). Every other operator, any constants, any mixture of
dead nodes and peepholes and any number of registers is covered, also register
numbers that run out.

The runs' property says something of the end only. The invariant (`IInv` of
`PipelineProofs` and `Rest`) says in between what the stages agree on: a valuation
`w` of the registers. `MeaningInv`: for every way to give the nodes their values
there is a `w` in which each MAL instruction holds as an equation (`Follows`);
lowering a node extends `w` by one register (`Extended`), a peephole keeps the
equations because of the laws of `WordAssumption` (`RuleSound`). `SelectedInv` and
`LayoutInv` say that the machine code is one `Chunk` for every instruction, in order:
the load of its immediate, then its operation, unless loading was all. `Running`:
the registers before the instruction the machine is at have the values of `w`.
What makes this step is `Room`: no register number wraps and the scratch register
lies at or above the next destination. If a number is left for it this is how it was chosen;
if not, the destinations are consecutive, so that one of them is `RegMax`,
and `wvmVerifyPrototype` has refused it. That the values exist at all is
`ValuesFacts`: `Values` is a recursive function, and its equation is proved by least
counterexample for a graph whose nodes come after their inputs.

`BlockLayoutProofs`. `PredsAreSound` is by induction on `CfgInv`, which says in the
middle of `mal_compute_cfg` which edges each predecessor list has: those of the
blocks that were computed after the list was freed. `LayoutIsComplete` needs
`SearchInv` (a block is on the stack or finished, once, so that the
number of seen blocks is the length of both) and `StreamInv` (stream and
descriptors are those of the blocks in one order). `SuccessorsFollowed` is the
correctness of the depth-first search: blocks on the stack are reachable from those
below (`Chain`), followed edges lead to seen blocks (`Followed`), and the edges of a
finished block lead to blocks finished earlier or back to it through a cycle
(`Finished`); `Entry` adds that the first search starts at block 1.

`ToolchainProofs`. `OwnInv` says of every tool at every stage which pointers it may
have (`Holds`), that exactly their objects are live (`Tidy`), and that its output
is untouched before `write` and its exit code is 1 only at the end (`Outcome`).
The lemmas `FreeRules`, `DestroyFacts`, `BuildFacts` give the heap after each
sequence of frees, after the cleanup of a build that stopped anywhere, and after the
prototype has changed hands. `FailuresKeepOutput` and `HeapIsSound` follow.

`InterpreterIsRight` adds `PrintInv`. It follows a line of the interpreter from its
text to the value printed: `ReplInv` says that what has been printed is right and that
the prototype at hand is the one of a constant, the value of the line if it has
one; `MachineInv` says that one tool at a time has the machine and finds it new, and how
far the prototype has run (`Runs`). `FoldingAssumption` gives the value when it is
compiled.

`OneProgramIsRead` is about bytes. First the encoding: `FourDigits` and
`NumbersReadBack` say that a number written byte by byte is read back, at any
position and for any `Base`, and from them every field, instruction and constant is
(`Codable`, `ConstantCodable`). Then the writer: `Positions` says for each chunk
where it lies in a buffer of limited size, or that it was left out. Then the reader:
`ReaderInStep` says that it meets each chunk where the writer put it, and takes
zeros for exactly those that were left out. `FrontRead` and `CodeRead` are this for
the fields before the instructions and for the instructions, `WholeRead` and
`CutRead` combine them into what the reader returns for a whole and for a cut file.
Last the processes: `FileInv` says of each compiler that its buffer is the file of
its prototype (`CompilerOK`), of `wvm-run` that its prototype is what the reader
makes of its buffer (`RunnerOK`), and of the disk and of what has been read that
they can be traced to one writer (`DiskInv`, `RunnerInv`); `FileStep` has one case
for each kind of step on the disk. The proof corrected the property:
`CutKeepsPrefix` as first stated had neither of the two limits given in section 2,
and it was false for scenarios the run did not have; `BrimPath` was added for them.

`NumberFacts` has the least element of a set of numbers, which is what inductions
over positions use (a counterexample of least size), `Min` and `Max`.

With TLC only:

- liveness (`Terminates`, `Finishes`, `ToolsEnd`, `LoadEnds`), which the prover does not
  support under fairness;
- `WRS` (`Acyclic`, `QuietMeansNormal`, `LinearAnswerMeans`, `Settles`, `StatsAddUp`,
  `MeaningKept`): each action is a recursion over terms of any depth, written with
  RECURSIVE operators, and the properties are about what it computes;
- `LoadsWhatIsWritten`, `NeverMadeUp`, `ValidatedBuilds` in `LoadedRules`: they
  say what the recursive parser and readers give, which needs induction over texts;
- that `CWord` satisfies `WordAssumption`, `Expressions` the `FoldingAssumption` and
  `RuleTrees` the `ParserAssumption`, evaluated by the runs for their words,
  expressions and texts.

## 5. Not modelled

- In WRS: rules with C actions, predicate, sequence and refinement patterns in the
  matcher of `WRS` (the loader and `RuleTrees` have them), the stubs for confluence
  and completion; the bounded search of the e-graph library.
- The generated parser of the expression grammar, the line editor of the interpreter,
  the sfsexp library: external, seen through what they return.
- Machine description files, printers, string pool, diagnostics: they store or format
  text and decide nothing.
- Graph traversals of `wil_nodes.c`, which only read, dominators and liveness of
  `mal_validate.c`, placeholders that nothing reads.
- Floats, casts, memory, calls and phis: the built-in patterns select none of them, so
  a function that contains one is refused.
- Calls of the machine from its own error handler: no tool installs a handler.
- Undefined behaviour the process does not survive in a describable state: a failed
  growth of the VM's stack, a rule without a name that is looked up, what becomes of a
  graph in which a replacement was built with a NULL operand. Also
  `wil_context_set_arena`, which destroys an owned arena under live nodes, and what a
  failed parse leaks.
- VXT and the coroutine, JIT and GC interfaces of the VM, which are stubs.

## 6. Plan

1. Done: `WILGraph` with its abstraction, `WVM`, `Pipeline`, `BlockLayout`, `WRS`,
   the tools with their object files, the rule files with the arena, the theorems
   above.
2. Left to prove: `WRS`, for which the walk over a term would have to become a step
   of its own, or its result a constant with assumptions.
3. Left to model: traversals of the WIL graph on cyclic graphs; machine description
   files.
