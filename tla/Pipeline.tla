------------------------------ MODULE Pipeline ------------------------------
(***************************************************************************)
(* From a WIL graph to its value: the pipeline of                          *)
(* wirbleBuildPipelineArtifacts and wirbleExecuteSource, for graphs of     *)
(* integer operators (straight-line code, one block).                      *)
(*                                                                         *)
(*   build     the wil_make_* calls, and the node replacements of WRS      *)
(*   lower     malLowerFromWIL, a node at a time, in index order           *)
(*   ssa       mal_verify_ssa                                              *)
(*   peephole  malApplyPeepholeToFixpoint, a rewrite at a time             *)
(*   select    mdsLowerFromMAL, an instruction at a time                   *)
(*   encode    wvmPrototypeFromTOS, an instruction at a time, and          *)
(*             wvmVerifyPrototype                                          *)
(*   load, run the arguments are pushed and WVM executes the prototype     *)
(*                                                                         *)
(* The instruction stream between select and encode has one block, which   *)
(* tosFinalizeProgram leaves as it is (module BlockLayout).  The graph     *)
(* passes wil_verify_graph: the builders and replacements used here keep   *)
(* it valid (module WILGraph).  All values are I32, as in the frontend.    *)
(***************************************************************************)
EXTENDS Integers, Sequences, FiniteSetsExt

CONSTANTS Options,          \* [optimize, verifyIR, scope] records, see below
          MaxParams,        \* bound: parameters of a graph, in any scope
          Narrow(_),        \* the low 32 bits of a constant
          Word, UnaryInt(_, _), BinaryInt(_, _, _), Traps(_, _, _), InitCap, PcSpan

\* Constants are int64_t, register numbers uint16_t.
ASSUME OptionsAssumption ==
  \A o \in Options : o.scope.consts \subseteq Int /\ o.scope.regMax \in Nat

VARIABLES options, stage,
          graph,     \* the nodes, in creation order: node n is graph[n]
          rewrites,  \* replacements done
          at,        \* the node or instruction the stage has come to
          nodeRegs,  \* node -> its MAL register; 0 before it has one
          nextReg,   \* fn->nextSSAReg
          mal,       \* the instructions of the MAL function
          mds,       \* the selected instructions
          code,      \* the prototype being encoded
          args       \* the argument values pushed so far

VARIABLES stack, stackCap, stackSize, hasError, frameDepth, status, proto, pc, result

VM == INSTANCE WVM WITH Prototypes <- {}, HostValues <- {}, HostRegs <- {}, MaxStack <- MaxParams

compiler == <<options, stage, graph, rewrites, at, nodeRegs, nextReg, mal, mds, code, args>>
machine == <<stack, stackCap, stackSize, hasError, frameDepth, status, proto, pc, result>>
vars == <<compiler, machine>>

-----------------------------------------------------------------------------
(* The WIL graph.  A node has a kind, its inputs, and k: the value of a    *)
(* constant or the index of a parameter.                                   *)

\* The bounds that options.scope sets, so that one run covers wide graphs and
\* small register files.
Kinds == options.scope.kinds        \* operator kinds a graph may contain
Consts == options.scope.consts      \* constants it may contain (int64_t)
Args == options.scope.args          \* argument values
MaxNodes == options.scope.nodes     \* nodes of a graph
Params == options.scope.params      \* parameters of a graph
MaxRewrites == options.scope.rewrites  \* node replacements before lowering
RegMax == options.scope.regMax      \* largest register number (UINT16_MAX)

UnaryKinds == {"NEG", "NOT"}
CompareKinds == {"EQ", "NE", "LT", "LE", "GT", "GE"}
ArithKinds == {"ADD", "SUB", "MUL", "DIV", "MOD", "AND", "OR", "XOR", "SHL", "SHR"}
BinaryKinds == CompareKinds \cup ArithKinds

\* int32_t: the operations stay in it, those of the peephole rules have their
\* neutral and zero elements, and only a division may trap.
ASSUME WordAssumption ==
  /\ Word \subseteq Int /\ {0, 1} \subseteq Word /\ InitCap \in Nat
  /\ \A x \in Word : Narrow(x) = x
  /\ \A o \in Options : o.scope.args \subseteq Word /\ \A k \in o.scope.consts : Narrow(k) \in Word
  /\ \A x \in Word, op \in UnaryKinds : UnaryInt(op, x) \in Word
  /\ \A x, y \in Word, op \in ArithKinds : BinaryInt(op, x, y) \in Word
  /\ \A x, y \in Word, op \in BinaryKinds : Traps(op, x, y) => op \in {"DIV", "MOD"}
  /\ \A x \in Word :
       /\ \A op \in {"ADD", "SUB", "OR", "XOR", "SHL", "SHR"} : BinaryInt(op, x, 0) = x
       /\ BinaryInt("ADD", 0, x) = x /\ BinaryInt("MUL", x, 1) = x /\ BinaryInt("MUL", 1, x) = x
       /\ BinaryInt("MUL", x, 0) = 0 /\ BinaryInt("MUL", 0, x) = 0 /\ BinaryInt("AND", x, 0) = 0

Node(kind, ins, k) == [kind |-> kind, ins |-> ins, k |-> k]
Nodes == DOMAIN graph
ValueNodes == {n \in Nodes : graph[n].kind \notin {"START", "RETURN"}}
ParamNodes == {n \in Nodes : graph[n].kind = "PARAM"}

Init ==
  /\ options \in Options
  /\ stage = "build"
  /\ graph = <<Node("START", <<>>, 0)>>
  /\ rewrites = 0 /\ at = 0
  /\ nodeRegs = <<>> /\ nextReg = 0
  /\ mal = <<>> /\ mds = <<>> /\ code = VM!NoProto
  /\ args = <<>>
  /\ VM!Init

Make(node) ==
  /\ stage = "build" /\ Len(graph) < MaxNodes
  /\ graph' = Append(graph, node)
  /\ UNCHANGED <<options, stage, rewrites, at, nodeRegs, nextReg, mal, mds, code, args, machine>>

wil_make_const_int(k) == Make(Node("CONST_INT", <<>>, k))

wil_make_param(index) ==
  /\ \A n \in ParamNodes : graph[n].k # index
  /\ Make(Node("PARAM", <<>>, index))

wil_build_unary(kind, x) == kind \in UnaryKinds /\ Make(Node(kind, <<x>>, 0))

wil_build_binary(kind, x, y) == kind \in BinaryKinds /\ Make(Node(kind, <<x, y>>, 0))

\* The nodes that have old among their inputs, or among theirs.
Above(old) ==
  LET grow[i \in Nat] ==
        IF i = 0 THEN {old}
        ELSE grow[i - 1] \cup {n \in Nodes : \E j \in DOMAIN graph[n].ins : graph[n].ins[j] \in grow[i - 1]}
  IN grow[Len(graph)]

\* wil_node_replace_all_uses, as wrs_apply_rule calls it: the replacement is
\* built from the inputs of old, not from old.
wil_node_replace_all_uses(old, new) ==
  /\ stage = "build" /\ rewrites < MaxRewrites
  /\ new \notin Above(old)
  /\ graph' = [n \in Nodes |-> [graph[n] EXCEPT !.ins =
                 [j \in DOMAIN @ |-> IF @[j] = old THEN new ELSE @[j]]]]
  /\ rewrites' = rewrites + 1
  /\ UNCHANGED <<options, stage, at, nodeRegs, nextReg, mal, mds, code, args, machine>>

\* wil_make_return, and the parameter scan with which malLowerFromWIL begins:
\* the first registers are the parameters'.  The caller has created parameters
\* 0 up to some number.
wil_make_return(value) ==
  /\ stage = "build"
  /\ \A i \in 0..(Cardinality(ParamNodes) - 1) : \E n \in ParamNodes : graph[n].k = i
  /\ graph' = Append(graph, Node("RETURN", <<1, value>>, 0))
  /\ stage' = "lower" /\ at' = 1
  /\ nodeRegs' = [n \in DOMAIN graph' |-> 0]
  /\ nextReg' = Cardinality(ParamNodes)
  /\ UNCHANGED <<options, rewrites, mal, mds, code, args, machine>>

-----------------------------------------------------------------------------
(* Lowering to MAL.                                                        *)

Reg(r) == [kind |-> "reg", n |-> r]
Imm(k) == [kind |-> "imm", n |-> k]
MAL_INVALID_REG == -1
Inst(op, dst, ops) == [op |-> op, dst |-> dst, ops |-> ops]

mal_opcode_from_wil(kind) ==
  CASE kind = "DIV" -> "SDIV" [] kind = "MOD" -> "SREM" [] kind = "SHR" -> "ASHR" [] OTHER -> kind

\* Deliberately wrong variant: node ids start at 1, the table at 0.
OperandOffByOne(n) ==
  IF graph[n].kind = "CONST_INT" THEN Imm(graph[n].k) ELSE Reg(nodeRegs[n] + 1)

\* Constants become immediates, other inputs the register noted for them:
\* register 0 when the input has not been lowered yet.
mal_operand_from_wil_input(n) ==
  IF graph[n].kind = "CONST_INT" THEN Imm(graph[n].k) ELSE Reg(nodeRegs[n])

\* Going on to the next node, or to the end of the lowering.
NextNode ==
  IF at < Len(graph) THEN stage' = stage /\ at' = at + 1
  ELSE stage' = (IF options.verifyIR THEN "ssa" ELSE "peephole") /\ at' = 1

LowerNothing ==
  /\ stage = "lower" /\ graph[at].kind \in {"START", "CONST_INT"}
  /\ NextNode
  /\ UNCHANGED <<options, graph, rewrites, nodeRegs, nextReg, mal, mds, code, args, machine>>

\* The register counts the parameters before it in the graph.
LowerParam ==
  /\ stage = "lower" /\ graph[at].kind = "PARAM"
  /\ nodeRegs' = [nodeRegs EXCEPT ![at] = Cardinality({n \in ParamNodes : n < at})]
  /\ NextNode
  /\ UNCHANGED <<options, graph, rewrites, nextReg, mal, mds, code, args, machine>>

LowerReturn ==
  /\ stage = "lower" /\ graph[at].kind = "RETURN"
  /\ LET value == mal_operand_from_wil_input(graph[at].ins[2]) IN
     \/ /\ value.kind = "reg"
        /\ mal' = Append(mal, Inst("RET", MAL_INVALID_REG, <<value>>))
        /\ UNCHANGED nextReg
     \/ /\ value.kind = "imm"
        /\ mal' = mal \o <<Inst("COPY", nextReg, <<value>>),
                           Inst("RET", MAL_INVALID_REG, <<Reg(nextReg)>>)>>
        /\ nextReg' = nextReg + 1
  /\ NextNode
  /\ UNCHANGED <<options, graph, rewrites, nodeRegs, mds, code, args, machine>>

LowerOperator ==
  /\ stage = "lower" /\ graph[at].kind \in UnaryKinds \cup BinaryKinds
  /\ mal' = Append(mal, Inst(mal_opcode_from_wil(graph[at].kind), nextReg,
              [j \in DOMAIN graph[at].ins |-> mal_operand_from_wil_input(graph[at].ins[j])]))
  /\ nodeRegs' = [nodeRegs EXCEPT ![at] = nextReg]
  /\ nextReg' = nextReg + 1
  /\ NextNode
  /\ UNCHANGED <<options, graph, rewrites, mds, code, args, machine>>

-----------------------------------------------------------------------------
(* Verification and peepholes.                                             *)

RegsOf(inst) == {inst.ops[j].n : j \in {i \in DOMAIN inst.ops : inst.ops[i].kind = "reg"}}

\* Deliberately wrong variant: the parameters count as undefined.
DefinedByInst(i) == {mal[j].dst : j \in 1..(i - 1)}

\* The registers that hold a value before instruction i.
DefinedBefore(i) ==
  0..(Cardinality(ParamNodes) - 1) \cup {mal[j].dst : j \in 1..(i - 1)}

\* Every register is assigned once, and before it is read.
mal_verify_ssa ==
  \A i \in DOMAIN mal :
    /\ RegsOf(mal[i]) \subseteq DefinedBefore(i) \cap (0..(nextReg - 1))
    /\ mal[i].dst # MAL_INVALID_REG => mal[i].dst \in (0..(nextReg - 1)) \ DefinedBefore(i)

\* The compilation is given up: no prototype.
GiveUp ==
  /\ stage' = "failed"
  /\ UNCHANGED <<options, graph, rewrites, at, nodeRegs, nextReg, mal, mds, code, args, machine>>

\* After the lowering ("ssa") and again after the peepholes ("ssa2").
VerifySSA ==
  /\ stage \in {"ssa", "ssa2"}
  /\ stage' = CASE ~mal_verify_ssa -> "failed"
                [] stage = "ssa" -> "peephole"
                [] OTHER -> "select"
  /\ at' = 1
  /\ UNCHANGED <<options, graph, rewrites, nodeRegs, nextReg, mal, mds, code, args, machine>>

\* The rules of stdrewrite/mal_peephole.wrs: <<op, operand, operand, result>>,
\* where "x" stands for the variable.
X == [kind |-> "x", n |-> 0]
Rules == << <<"ADD", X, Imm(0), X>>, <<"ADD", Imm(0), X, X>>, <<"SUB", X, Imm(0), X>>,
            <<"MUL", X, Imm(0), Imm(0)>>, <<"MUL", Imm(0), X, Imm(0)>>,
            <<"MUL", X, Imm(1), X>>, <<"MUL", Imm(1), X, X>>,
            <<"AND", X, Imm(0), Imm(0)>>, <<"OR", X, Imm(0), X>>, <<"XOR", X, Imm(0), X>>,
            <<"SHL", X, Imm(0), X>>, <<"ASHR", X, Imm(0), X>> >>

mal_mrs_match_rule(r, inst) ==
  /\ inst.op = r[1] /\ Len(inst.ops) = 2
  /\ \A j \in 1..2 : r[j + 1] \in {X, inst.ops[j]}

\* Deliberately wrong variants: the first operand, whatever the rule says; the
\* instruction itself.
ReplaceByFirst(r, inst) == Inst("COPY", inst.dst, <<inst.ops[1]>>)
ReplaceBySelf(r, inst) == inst

mal_mrs_build_replacement(r, inst) ==
  Inst("COPY", inst.dst,
       << IF r[4] # X THEN r[4] ELSE IF r[2] = X THEN inst.ops[1] ELSE inst.ops[2] >>)

Matches == {i \in DOMAIN mal : \E r \in DOMAIN Rules : mal_mrs_match_rule(Rules[r], mal[i])}

\* The first rule that matches the first instruction that has one.
malApplyOnePeephole ==
  /\ stage = "peephole" /\ options.optimize /\ Matches # {}
  /\ LET i == Min(Matches)
         r == Min({q \in DOMAIN Rules : mal_mrs_match_rule(Rules[q], mal[i])})
     IN mal' = [mal EXCEPT ![i] = mal_mrs_build_replacement(Rules[r], mal[i])]
  /\ UNCHANGED <<options, stage, graph, rewrites, at, nodeRegs, nextReg, mds, code, args, machine>>

PeepholesDone ==
  /\ stage = "peephole" /\ (options.optimize => Matches = {})
  /\ stage' = IF options.optimize /\ options.verifyIR THEN "ssa2" ELSE "select"
  /\ at' = 1
  /\ UNCHANGED <<options, graph, rewrites, nodeRegs, nextReg, mal, mds, code, args, machine>>

-----------------------------------------------------------------------------
(* Instruction selection.  The mnemonics are without the target's prefix.  *)

\* mdsLoadPatterns: MAL opcode, mnemonic, and the kinds of the operands.
Patterns ==
  { <<"COPY", "mov.rr", <<"reg">>>>, <<"COPY", "mov.ri", <<"imm">>>>,
    <<"ADD", "add.rr", <<"reg", "reg">>>>, <<"ADD", "add.ri", <<"reg", "imm">>>>,
    <<"SUB", "sub.rr", <<"reg", "reg">>>>, <<"SUB", "sub.ri", <<"reg", "imm">>>>,
    <<"MUL", "mul.rr", <<"reg", "reg">>>>, <<"NEG", "neg", <<"reg">>>>,
    <<"AND", "and.rr", <<"reg", "reg">>>>, <<"OR", "or.rr", <<"reg", "reg">>>>,
    <<"XOR", "xor.rr", <<"reg", "reg">>>>, <<"NOT", "not", <<"reg">>>>,
    <<"SHL", "shl.ri", <<"reg", "imm">>>>, <<"ASHR", "ashr.ri", <<"reg", "imm">>>>,
    <<"EQ", "icmp.eq", <<"reg", "reg">>>>, <<"NE", "icmp.ne", <<"reg", "reg">>>>,
    <<"LT", "icmp.slt", <<"reg", "reg">>>>, <<"LE", "icmp.sle", <<"reg", "reg">>>>,
    <<"GT", "icmp.sgt", <<"reg", "reg">>>>, <<"GE", "icmp.sge", <<"reg", "reg">>>>,
    <<"RET", "ret", <<"reg">>>> }

mds_pattern_matches_inst(p, inst) ==
  p[1] = inst.op /\ p[3] = [j \in DOMAIN inst.ops |-> inst.ops[j].kind]

Selectable(inst) == \E p \in Patterns : mds_pattern_matches_inst(p, inst)

\* One instruction: the mnemonic, then the destination and the operands.
SelectInst ==
  /\ stage = "select" /\ at <= Len(mal)
  /\ \E p \in Patterns :
       /\ mds_pattern_matches_inst(p, mal[at])
       /\ mds' = Append(mds, [mnemonic |-> p[2], ops |->
                   (IF mal[at].dst = MAL_INVALID_REG THEN <<>> ELSE <<Reg(mal[at].dst)>>) \o mal[at].ops])
  /\ at' = at + 1
  /\ UNCHANGED <<options, stage, graph, rewrites, nodeRegs, nextReg, mal, code, args, machine>>

\* One instruction without a pattern discards the whole program.
SelectFails == stage = "select" /\ at <= Len(mal) /\ ~Selectable(mal[at]) /\ GiveUp

-----------------------------------------------------------------------------
(* Encoding.                                                               *)

MaxReg == Max({0} \cup UNION {RegsOf(mds[i]) : i \in DOMAIN mds})

\* One register more than the program names, for immediates; registers have
\* 16 bits, and the count stops there.
wvm_compute_reg_count == IF MaxReg >= RegMax - 1 THEN RegMax ELSE MaxReg + 2

ToReg(r) == r % (RegMax + 1)

\* The constant pool starts empty.
SelectDone ==
  /\ stage = "select" /\ at > Len(mal)
  /\ code' = [VM!NoProto EXCEPT !.regCount = wvm_compute_reg_count]
  /\ stage' = "encode" /\ at' = 1
  /\ UNCHANGED <<options, graph, rewrites, nodeRegs, nextReg, mal, mds, args, machine>>

Op(op, a, b, c, k) == [op |-> op, a |-> a, b |-> b, c |-> c, k |-> k]

scratchReg == code.regCount - 1

\* wvm_operand_to_reg: the register of an operand, and the instructions and
\* constants added to have it there.
OperandReg(o) == IF o.kind = "reg" THEN ToReg(o.n) ELSE scratchReg
OperandCode(o) ==
  CASE o.kind = "reg" -> <<>>
    [] o.kind = "imm" /\ o.n \in Word -> <<Op("LOAD_IMM", scratchReg, 0, 0, o.n)>>
    [] OTHER -> <<Op("LOAD_CONST", scratchReg, 0, 0, Len(code.consts))>>
OperandConsts(o) ==
  IF o.kind = "imm" /\ o.n \notin Word THEN <<VM!FromInt(Narrow(o.n))>> ELSE <<>>

\* WVM_EMIT_BIN looks for "or." before "xor." and finds it in "xor.rr".
WVM_EMIT_BIN(mnemonic) ==
  CASE mnemonic \in {"add.rr", "add.ri"} -> "ADD" [] mnemonic \in {"sub.rr", "sub.ri"} -> "SUB"
    [] mnemonic = "mul.rr" -> "MUL" [] mnemonic = "and.rr" -> "AND"
    [] mnemonic \in {"or.rr", "xor.rr"} -> "OR"
    [] mnemonic = "shl.ri" -> "SHL" [] mnemonic = "ashr.ri" -> "SHR"
    [] mnemonic = "icmp.eq" -> "EQ" [] mnemonic = "icmp.ne" -> "NE"
    [] mnemonic = "icmp.slt" -> "LT" [] mnemonic = "icmp.sle" -> "LE"
    [] mnemonic = "icmp.sgt" -> "GT" [] mnemonic = "icmp.sge" -> "GE"

\* wvm_emit_from_mnemonic after its operands: at most one is an immediate.
Emitted(inst) ==
  LET dst == OperandReg(inst.ops[1])
      src(j) == OperandReg(inst.ops[j])
  IN CASE inst.mnemonic = "ret" -> <<Op("RETURN", dst, 0, 0, 0)>>
       [] inst.mnemonic = "mov.ri" /\ src(2) = dst -> <<>>
       [] inst.mnemonic = "mov.rr" \/ (inst.mnemonic = "mov.ri" /\ src(2) # dst) -> <<Op("MOVE", dst, src(2), 0, 0)>>
       [] inst.mnemonic = "neg" -> <<Op("NEG", dst, src(2), 0, 0)>>
       [] inst.mnemonic = "not" -> <<Op("NOT", dst, src(2), 0, 0)>>
       [] OTHER -> <<Op(WVM_EMIT_BIN(inst.mnemonic), dst, src(2), src(3), 0)>>

EncodeInst ==
  /\ stage = "encode" /\ at <= Len(mds)
  /\ LET last == mds[at].ops[Len(mds[at].ops)] IN
     code' = [code EXCEPT !.consts = @ \o OperandConsts(last),
                          !.instrs = @ \o OperandCode(last) \o Emitted(mds[at])]
  /\ at' = at + 1
  /\ UNCHANGED <<options, stage, graph, rewrites, nodeRegs, nextReg, mal, mds, args, machine>>

\* The prototype is complete; it is verified here when verifyIR is set, and
\* by wvmExecute in any case.
EncodeDone ==
  /\ stage = "encode" /\ at > Len(mds)
  /\ stage' = IF options.verifyIR /\ ~VM!wvmVerifyPrototype(code) THEN "failed" ELSE "load"
  /\ UNCHANGED <<options, graph, rewrites, at, nodeRegs, nextReg, mal, mds, code, args, machine>>

-----------------------------------------------------------------------------
(* Execution on a new machine: argument i is in register i.                *)

LoadArg(v) ==
  /\ stage = "load" /\ Len(args) < Cardinality(ParamNodes)
  /\ VM!wvmPush(VM!FromInt(v))
  /\ args' = Append(args, v)
  /\ UNCHANGED <<options, stage, graph, rewrites, at, nodeRegs, nextReg, mal, mds, code>>

Execute ==
  /\ stage = "load" /\ Len(args) = Cardinality(ParamNodes)
  /\ \/ VM!wvmExecute(code) /\ stage' = "run"
     \/ VM!wvmExecuteRefused(code) /\ stage' = "done"
  /\ UNCHANGED <<options, graph, rewrites, at, nodeRegs, nextReg, mal, mds, code, args>>

Run ==
  /\ stage = "run"
  /\ VM!Step
  /\ stage' = IF status' = "running" THEN "run" ELSE "done"
  /\ UNCHANGED <<options, graph, rewrites, at, nodeRegs, nextReg, mal, mds, code, args>>

-----------------------------------------------------------------------------
Build ==
  \/ \E k \in Consts : wil_make_const_int(k)
  \/ \E index \in 0..(Params - 1) : wil_make_param(index)
  \/ \E kind \in Kinds, x \in ValueNodes : wil_build_unary(kind, x)
  \/ \E kind \in Kinds, x, y \in ValueNodes : wil_build_binary(kind, x, y)
  \/ \E old, new \in ValueNodes : wil_node_replace_all_uses(old, new)
  \/ \E x \in ValueNodes : wil_make_return(x)

Compile ==
  \/ LowerNothing \/ LowerParam \/ LowerReturn \/ LowerOperator
  \/ VerifySSA \/ malApplyOnePeephole \/ PeepholesDone
  \/ SelectInst \/ SelectFails \/ SelectDone \/ EncodeInst \/ EncodeDone
  \/ \E v \in Args : LoadArg(v)
  \/ Execute \/ Run

Next == Build \/ Compile

Spec == Init /\ [][Next]_vars

\* One thread runs the stages to their end; building is up to the caller.
FairSpec == Spec /\ WF_vars(Compile)

-----------------------------------------------------------------------------
(* The reference: what the graph means.                                    *)

None == [tag |-> "none", n |-> 0]

\* The value of every node for the arguments; None where an operator meets
\* a truth value.
Values ==
  LET value[n \in ValueNodes] ==
        LET node == graph[n]
            x == value[node.ins[1]]
            y == value[node.ins[2]]
        IN CASE node.kind = "CONST_INT" -> VM!FromInt(Narrow(node.k))
             [] node.kind = "PARAM" -> VM!FromInt(args[node.k + 1])
             [] node.kind \in UnaryKinds ->
                  IF VM!IsInt(x) THEN VM!FromInt(UnaryInt(node.kind, x.n)) ELSE None
             [] OTHER ->
                  IF VM!IsInt(x) /\ VM!IsInt(y)
                  THEN VM!wvm_exec_binary_int(node.kind, x.n, y.n) ELSE None
  IN [n \in ValueNodes |-> value[n]]

\* Every node was created after its inputs, as the builders do it; a
\* replacement may be younger than the nodes that use it.
Scheduled == \A n \in Nodes : \A j \in DOMAIN graph[n].ins : graph[n].ins[j] < n

\* The parameters were created in the order of their indices.
ParamsInOrder == \A m, n \in ParamNodes : m < n => graph[m].k < graph[n].k

\* The program leaves a register number for the immediates.
Fits == MaxReg < RegMax - 1

-----------------------------------------------------------------------------
(* Properties.                                                             *)

\* If every operator of the graph is applied to integers and a number is left
\* for the scratch register then wvmExecute succeeds, and if it succeeds
\* register 0 holds the value of the returned node.
Correct ==
  (\A n \in ValueNodes : Values[n] # None) =>
    /\ status = "idle"
    /\ Fits => result = 1
    /\ result = 1 => stack[0] = Values[graph[Len(graph)].ins[2]]

\* The compiled program computes what the graph means, whatever the
\* immediates, the dead nodes and the peepholes did to the registers on the
\* way, for graphs in creation order; a program that runs out of register
\* numbers is refused or still right, never silently wrong.
ComputesMeaning == stage = "done" /\ Scheduled /\ ParamsInOrder => Correct

\* The same without the order of creation: the book says that lowering
\* schedules the nodes and preserves their semantics.
LoweringSchedules == stage = "done" /\ ParamsInOrder => Correct

\* Neither verifier ever refuses the compiler's own output: a compilation is
\* given up only for an instruction the target has no pattern for.
RefusedOnlyUnselectable ==
  stage = "failed" /\ Fits /\ Scheduled => \E i \in DOMAIN mal : ~Selectable(mal[i])

\* The MAL function is in SSA form after every lowered node and every
\* peephole, not only where mal_verify_ssa looks at it.
AlwaysSSA == Scheduled => mal_verify_ssa

\* Every compilation ends, in a finished run or given up: the peephole loop,
\* which has no bound, reaches its fixpoint.
Finishes == (stage = "lower") ~> (stage \in {"done", "failed"})
=============================================================================
