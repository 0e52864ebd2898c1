--------------------------- MODULE PipelineProofs ---------------------------
(***************************************************************************)
(* Proofs about Pipeline, for every graph, every set of options and every  *)
(* width of the registers.                                                 *)
(***************************************************************************)
EXTENDS Pipeline, NumberFacts, SequenceTheorems

-----------------------------------------------------------------------------
(* The inductive invariant.                                                *)

OperatorKinds == UnaryKinds \cup BinaryKinds
NodeRecord == [kind : {"START", "RETURN", "CONST_INT", "PARAM"} \cup OperatorKinds, ins : Seq(Nat), k : Int]
Operand == [kind : {"reg"}, n : Nat] \cup [kind : {"imm"}, n : Int]
MalRecord == [op : {"RET", "COPY", "SDIV", "SREM", "ASHR"} \cup OperatorKinds, dst : Nat \cup {-1}, ops : Seq(Operand)]
MdsRecord == [mnemonic : {p[2] : p \in Patterns}, ops : Seq(Operand)]
CodeRecord == [op : VM!Opcodes, a : Int, b : Int, c : Int, k : Int]
PoolValue == {VM!FromInt(Narrow(k)) : k \in Int}

Early == {"build", "lower", "ssa", "peephole", "ssa2"}

\* Operators and the return node take values; the return node is the last one.
GraphInv ==
  /\ options \in Options
  /\ graph \in Seq(NodeRecord)
  /\ \A n \in Nodes : graph[n].kind \in OperatorKinds =>
       \A j \in DOMAIN graph[n].ins : graph[n].ins[j] \in ValueNodes
  /\ \A n \in Nodes : graph[n].kind = "RETURN" => Len(graph[n].ins) = 2 /\ graph[n].ins[2] \in ValueNodes
  /\ stage # "build" => graph # <<>> /\ graph[Len(graph)].kind = "RETURN"

\* Well-formed MAL: RET alone has no destination, and no register is above next.
MalOK(m, next) ==
  /\ m \in Seq(MalRecord)
  /\ \A i \in DOMAIN m : /\ m[i].op = "RET" <=> m[i].dst = MAL_INVALID_REG
                         /\ m[i].dst <= next
                         /\ \A r \in RegsOf(m[i]) : r <= next

\* The registers are numbered from 0, the parameters' first.
LowerInv ==
  /\ nextReg \in Nat /\ MalOK(mal, nextReg)
  /\ stage = "build" => mal = <<>>
  /\ stage # "build" => nextReg >= Cardinality(ParamNodes) /\ nodeRegs \in [Nodes -> 0..nextReg]
  /\ stage = "lower" => at \in Nodes
  /\ stage \notin {"build", "lower"} => mal # <<>>

\* The nodes that have been lowered have registers that hold their values.
Defined == DefinedBefore(Len(mal) + 1) \cap (0..(nextReg - 1))
Lowered ==
  stage = "lower" =>
    \A n \in ValueNodes : n < at /\ graph[n].kind # "CONST_INT" => nodeRegs[n] \in Defined

\* An instruction that wvm_emit_from_mnemonic can encode: only the last operand
\* may be an immediate.
Encodable(inst) ==
  /\ Len(inst.ops) = CASE inst.mnemonic = "ret" -> 1
                       [] inst.mnemonic \in {"mov.rr", "mov.ri", "neg", "not"} -> 2
                       [] OTHER -> 3
  /\ \A j \in 1..(Len(inst.ops) - 1) : inst.ops[j].kind = "reg"
  /\ inst.mnemonic = "ret" => inst.ops[1].kind = "reg"
  /\ inst.mnemonic = "mov.ri" => inst.ops[2].kind = "imm"

SelectInv ==
  /\ mds \in Seq(MdsRecord) /\ \A i \in DOMAIN mds : Encodable(mds[i])
  /\ \A i \in DOMAIN mds : \A r \in RegsOf(mds[i]) : r <= nextReg
  /\ stage \in Early => mds = <<>>
  /\ stage = "select" => at \in Nat \ {0} /\ Len(mds) = at - 1
  /\ stage = "encode" => at \in Nat \ {0} /\ mds # <<>>

\* What has been encoded passes the verifier, if the registers fit.
Accepted(p) == {i \in CodeRecord : Fits => VM!VerifyInstr(p, i)}
EncodeInv ==
  stage = "encode" =>
    /\ code \in [regCount : Nat, consts : Seq(PoolValue), instrs : Seq(CodeRecord)]
    /\ code.regCount = wvm_compute_reg_count
    /\ code.instrs \in Seq(Accepted(code))
    /\ at > 1 => code.instrs # <<>>

IInv ==
  /\ GraphInv /\ LowerInv /\ SelectInv /\ EncodeInv
  /\ Scheduled => mal_verify_ssa /\ Lowered
  /\ RefusedOnlyUnselectable

-----------------------------------------------------------------------------
(* Facts about the graph and the registers.                                *)

LEMMA GraphFacts ==
  ASSUME GraphInv
  PROVE  /\ Nodes = 1..Len(graph) /\ Len(graph) \in Nat
         /\ \A n \in Nodes : /\ graph[n].kind \in {"START", "RETURN", "CONST_INT", "PARAM"} \cup OperatorKinds
                             /\ graph[n].ins \in Seq(Nat) /\ graph[n].k \in Int
<1>1. graph \in Seq(NodeRecord)
  BY DEF GraphInv
<1>2. Nodes = 1..Len(graph) /\ Len(graph) \in Nat
  BY <1>1 DEF Nodes
<1>3. \A n \in Nodes : graph[n] \in NodeRecord
  BY <1>1 DEF Nodes
<1> QED BY <1>2, <1>3 DEF NodeRecord

LEMMA MalFacts ==
  ASSUME LowerInv
  PROVE  /\ DOMAIN mal = 1..Len(mal) /\ Len(mal) \in Nat
         /\ \A i \in DOMAIN mal : /\ mal[i] \in MalRecord
                                  /\ mal[i].dst \in Nat \cup {-1} /\ mal[i].ops \in Seq(Operand)
<1>1. mal \in Seq(MalRecord)
  BY DEF LowerInv, MalOK
<1>2. \A i \in DOMAIN mal : mal[i] \in MalRecord
  BY <1>1
<1> QED BY <1>1, <1>2 DEF MalRecord

\* The registers of an instruction are those of its operands.
LEMMA RegsType ==
  ASSUME NEW inst, inst.ops \in Seq(Operand)
  PROVE  /\ RegsOf(inst) \subseteq Nat
         /\ \A j \in DOMAIN inst.ops : /\ inst.ops[j] \in Operand /\ inst.ops[j].n \in Int
                                       /\ inst.ops[j].kind \in {"reg", "imm"}
                                       /\ inst.ops[j].kind = "reg" => inst.ops[j].n \in RegsOf(inst)
<1>1. \A j \in DOMAIN inst.ops : inst.ops[j] \in Operand
  OBVIOUS
<1>2. \A o \in Operand : /\ o.kind \in {"reg", "imm"} /\ o.n \in Int
                         /\ o.kind = "reg" => o.n \in Nat
  BY DEF Operand
<1>3. RegsOf(inst) \subseteq Nat
  BY <1>1, <1>2 DEF RegsOf
<1> QED BY <1>1, <1>2, <1>3 DEF RegsOf

\* Parameters are among finitely many nodes.
LEMMA ParamCount ==
  ASSUME GraphInv
  PROVE  /\ IsFiniteSet(ParamNodes) /\ Cardinality(ParamNodes) \in Nat
         /\ \A m \in ParamNodes : Cardinality({n \in ParamNodes : n < m}) \in 0..(Cardinality(ParamNodes) - 1)
<1>1. IsFiniteSet(ParamNodes)
  <2>1. 1 \in Int /\ Len(graph) \in Int /\ ParamNodes \subseteq 1..Len(graph)
    BY GraphFacts DEF ParamNodes
  <2>2. IsFiniteSet(1..Len(graph))
    BY <2>1, FS_Interval
  <2> QED BY <2>1, <2>2, FS_Subset
<1>2. Cardinality(ParamNodes) \in Nat
  BY <1>1, FS_CardinalityType
<1>3. ASSUME NEW m \in ParamNodes
      PROVE  Cardinality({n \in ParamNodes : n < m}) \in 0..(Cardinality(ParamNodes) - 1)
  <2> DEFINE S == {n \in ParamNodes : n < m}
  <2>1. S \subseteq ParamNodes /\ m \notin S
    BY GraphFacts DEF ParamNodes
  <2>2. IsFiniteSet(S) /\ Cardinality(S) <= Cardinality(ParamNodes)
        /\ (Cardinality(S) = Cardinality(ParamNodes) => S = ParamNodes)
    BY <1>1, <2>1, FS_Subset
  <2>3. Cardinality(S) \in Nat
    BY <2>2, FS_CardinalityType
  <2>4. S # ParamNodes
    BY <2>1
  <2>5. Cardinality(S) \in 0..(Cardinality(ParamNodes) - 1)
    <3> HIDE DEF S
    <3> QED BY <1>2, <2>2, <2>3, <2>4
  <2> QED BY <2>5
<1> QED BY <1>1, <1>2, <1>3

LEMMA SameGraph ==
  ASSUME graph' = graph
  PROVE  /\ Nodes' = Nodes /\ ValueNodes' = ValueNodes /\ ParamNodes' = ParamNodes
         /\ Scheduled' <=> Scheduled
BY DEF Nodes, ValueNodes, ParamNodes, Scheduled

\* Only the destinations matter for what is defined.
LEMMA SameDefined ==
  ASSUME ParamNodes' = ParamNodes, NEW i, \A j \in 1..(i - 1) : mal'[j].dst = mal[j].dst
  PROVE  DefinedBefore(i)' = DefinedBefore(i)
<1>1. {mal'[j].dst : j \in 1..(i - 1)} = {mal[j].dst : j \in 1..(i - 1)}
  OBVIOUS
<1> QED BY <1>1 DEF DefinedBefore

LEMMA InitIInv == Init => IInv
<1> SUFFICES ASSUME Init PROVE IInv
  OBVIOUS
<1>1. /\ options \in Options /\ stage = "build" /\ graph = <<Node("START", <<>>, 0)>>
      /\ nodeRegs = <<>> /\ nextReg = 0 /\ mal = <<>> /\ mds = <<>>
  BY DEF Init
<1>2. GraphInv
  <2>1. Node("START", <<>>, 0) \in NodeRecord
    BY DEF Node, NodeRecord
  <2>2. graph \in Seq(NodeRecord) /\ Nodes = {1} /\ graph[1].kind = "START"
    BY <1>1, <2>1 DEF Nodes, Node
  <2> QED BY <1>1, <2>2 DEF GraphInv, OperatorKinds, UnaryKinds, BinaryKinds, ArithKinds, CompareKinds
<1>3. LowerInv
  BY <1>1 DEF LowerInv, MalOK
<1>4. SelectInv /\ EncodeInv
  BY <1>1 DEF SelectInv, EncodeInv
<1>5. mal_verify_ssa /\ Lowered
  BY <1>1 DEF mal_verify_ssa, Lowered
<1>6. RefusedOnlyUnselectable
  BY <1>1 DEF RefusedOnlyUnselectable
<1> QED BY <1>2, <1>3, <1>4, <1>5, <1>6 DEF IInv

-----------------------------------------------------------------------------
(* Building the graph.                                                     *)

\* While the graph is built nothing else has been done.
LEMMA BuildKept ==
  ASSUME IInv, stage = "build", stage' = "build", mal' = mal, mds' = mds, nextReg' = nextReg
  PROVE  (LowerInv /\ SelectInv /\ EncodeInv /\ RefusedOnlyUnselectable /\ mal_verify_ssa /\ Lowered)'
<1>1. mal = <<>> /\ mds = <<>> /\ nextReg \in Nat
  BY DEF IInv, LowerInv, SelectInv, Early
<1>2. LowerInv'
  BY <1>1 DEF LowerInv, MalOK
<1>3. SelectInv' /\ EncodeInv'
  BY <1>1 DEF SelectInv, EncodeInv
<1>4. mal_verify_ssa' /\ Lowered' /\ RefusedOnlyUnselectable'
  BY <1>1 DEF mal_verify_ssa, Lowered, RefusedOnlyUnselectable
<1> QED BY <1>2, <1>3, <1>4

\* A node appended to the graph.
LEMMA AppendFacts ==
  ASSUME GraphInv, NEW node \in NodeRecord, graph' = Append(graph, node)
  PROVE  /\ graph' \in Seq(NodeRecord) /\ Len(graph') = Len(graph) + 1 /\ graph' # <<>>
         /\ Nodes' = 1..(Len(graph) + 1) /\ Nodes \subseteq Nodes' /\ ValueNodes \subseteq ValueNodes'
         /\ \A n \in Nodes : graph'[n] = graph[n]
         /\ graph'[Len(graph) + 1] = node
         /\ \A n \in Nodes' : n \in Nodes \/ n = Len(graph) + 1
         /\ node.kind # "PARAM" => ParamNodes' = ParamNodes
<1>1. graph \in Seq(NodeRecord) /\ Nodes = 1..Len(graph) /\ Len(graph) \in Nat
  BY GraphFacts DEF GraphInv
<1>2. graph' \in Seq(NodeRecord) /\ Len(graph') = Len(graph) + 1
  BY <1>1
<1>3. Nodes' = 1..(Len(graph) + 1) /\ graph' # <<>>
  BY <1>1, <1>2 DEF Nodes
<1>4. \A n \in Nodes : graph'[n] = graph[n]
  BY <1>1
<1>5. graph'[Len(graph) + 1] = node
  BY <1>1
<1>6. Nodes \subseteq Nodes' /\ \A n \in Nodes' : n \in Nodes \/ n = Len(graph) + 1
  BY <1>1, <1>3
<1>7. ValueNodes \subseteq ValueNodes'
  BY <1>4, <1>6 DEF ValueNodes
<1>8. node.kind # "PARAM" => ParamNodes' = ParamNodes
  BY <1>4, <1>5, <1>6 DEF ParamNodes
<1> QED BY <1>2, <1>3, <1>4, <1>5, <1>6, <1>7, <1>8

LEMMA MakeStep ==
  ASSUME IInv, NEW node \in NodeRecord, Make(node), node.kind # "RETURN",
         node.kind \in OperatorKinds => \A j \in DOMAIN node.ins : node.ins[j] \in ValueNodes
  PROVE  IInv'
<1>1. GraphInv
  BY DEF IInv
<1>2. /\ stage = "build" /\ stage' = "build" /\ graph' = Append(graph, node) /\ options' = options
      /\ mal' = mal /\ mds' = mds /\ nextReg' = nextReg
  BY DEF Make
<1>3. GraphInv'
  <2> SUFFICES ASSUME NEW n \in Nodes'
               PROVE  /\ graph'[n].kind \in OperatorKinds =>
                           \A j \in DOMAIN graph'[n].ins : graph'[n].ins[j] \in ValueNodes'
                      /\ graph'[n].kind = "RETURN" => Len(graph'[n].ins) = 2 /\ graph'[n].ins[2] \in ValueNodes'
    BY <1>1, <1>2, AppendFacts DEF GraphInv
  <2>1. ValueNodes \subseteq ValueNodes'
    BY <1>1, <1>2, AppendFacts
  <2>2. CASE n \in Nodes
    <3>1. graph'[n] = graph[n]
      BY <1>1, <1>2, <2>2, AppendFacts
    <3> QED BY <1>1, <2>1, <2>2, <3>1 DEF GraphInv
  <2>3. CASE n = Len(graph) + 1
    <3>1. graph'[n] = node
      BY <1>1, <1>2, <2>3, AppendFacts
    <3> QED BY <2>1, <3>1
  <2> QED BY <1>1, <1>2, <2>2, <2>3, AppendFacts
<1> QED BY <1>2, <1>3, BuildKept DEF IInv

\* A replacement changes inputs and nothing else.
LEMMA ReplaceFacts ==
  ASSUME GraphInv, NEW old \in ValueNodes, NEW new \in ValueNodes, wil_node_replace_all_uses(old, new)
  PROVE  /\ graph' \in Seq(NodeRecord) /\ Nodes' = Nodes /\ ValueNodes' = ValueNodes /\ Len(graph') = Len(graph)
         /\ \A n \in Nodes :
              /\ graph'[n].kind = graph[n].kind /\ graph'[n].k = graph[n].k
              /\ graph'[n].ins \in Seq(Nat) /\ Len(graph'[n].ins) = Len(graph[n].ins)
              /\ DOMAIN graph'[n].ins = DOMAIN graph[n].ins
              /\ \A j \in DOMAIN graph'[n].ins : graph'[n].ins[j] = new \/ graph'[n].ins[j] = graph[n].ins[j]
<1> DEFINE Ins(n) == [j \in DOMAIN graph[n].ins |-> IF graph[n].ins[j] = old THEN new ELSE graph[n].ins[j]]
<1>1. graph' = [n \in Nodes |-> [graph[n] EXCEPT !.ins = Ins(n)]]
  BY DEF wil_node_replace_all_uses
<1>2. /\ Nodes = 1..Len(graph) /\ Len(graph) \in Nat /\ new \in Nat
      /\ \A n \in Nodes : graph[n] \in NodeRecord /\ graph[n].ins \in Seq(Nat)
  <2>1. \A n \in Nodes : graph[n] \in NodeRecord
    BY DEF GraphInv, Nodes
  <2> QED BY <2>1, GraphFacts DEF ValueNodes
<1>3. ASSUME NEW n \in Nodes
      PROVE  /\ Ins(n) \in Seq(Nat) /\ Len(Ins(n)) = Len(graph[n].ins) /\ DOMAIN Ins(n) = DOMAIN graph[n].ins
             /\ \A j \in DOMAIN Ins(n) : Ins(n)[j] = new \/ Ins(n)[j] = graph[n].ins[j]
  <2>1. graph[n].ins \in Seq(Nat)
    BY <1>2
  <2>2. PICK s \in Seq(Nat) : s = graph[n].ins
    BY <2>1
  <2>3. DOMAIN s = 1..Len(s) /\ Len(s) \in Nat /\ \A j \in DOMAIN s : s[j] \in Nat
    OBVIOUS
  <2>4. Ins(n) = [j \in 1..Len(s) |-> IF s[j] = old THEN new ELSE s[j]]
    BY <2>2, <2>3
  <2>5. Ins(n) \in [1..Len(s) -> Nat]
    BY <1>2, <2>3, <2>4
  <2>6. Ins(n) \in Seq(Nat)
    <3>1. PICK m \in Nat : Ins(n) \in [1..m -> Nat]
      BY <2>3, <2>5
    <3> HIDE DEF Ins
    <3> QED BY <3>1, SeqDef
  <2> QED BY <2>2, <2>3, <2>4, <2>6
<1> HIDE DEF Ins
<1>4. ASSUME NEW n \in Nodes
      PROVE  /\ graph'[n] \in NodeRecord /\ graph'[n].ins = Ins(n)
             /\ graph'[n].kind = graph[n].kind /\ graph'[n].k = graph[n].k
  <2>1. graph'[n] = [graph[n] EXCEPT !.ins = Ins(n)]
    BY <1>1
  <2> QED BY <1>2, <1>3, <2>1 DEF NodeRecord
<1>5. Nodes' = Nodes
  BY <1>1 DEF Nodes
<1>6. ValueNodes' = ValueNodes
  BY <1>4, <1>5 DEF ValueNodes
<1>7. graph' \in Seq(NodeRecord) /\ Len(graph') = Len(graph)
  <2>1. graph' \in [1..Len(graph) -> NodeRecord]
    BY <1>1, <1>2, <1>4
  <2>2. graph' \in Seq(NodeRecord)
    BY <1>2, <2>1, SeqDef
  <2> QED BY <1>2, <2>1, <2>2
<1> QED BY <1>3, <1>4, <1>5, <1>6, <1>7

LEMMA ReplaceStep ==
  ASSUME IInv, NEW old \in ValueNodes, NEW new \in ValueNodes, wil_node_replace_all_uses(old, new)
  PROVE  IInv'
<1>1. GraphInv
  BY DEF IInv
<1>2. /\ stage = "build" /\ stage' = "build" /\ options' = options
      /\ mal' = mal /\ mds' = mds /\ nextReg' = nextReg
  BY DEF wil_node_replace_all_uses
<1>3. /\ graph' \in Seq(NodeRecord) /\ Nodes' = Nodes /\ ValueNodes' = ValueNodes
      /\ \A n \in Nodes :
           /\ graph'[n].kind = graph[n].kind
           /\ graph'[n].ins \in Seq(Nat) /\ Len(graph'[n].ins) = Len(graph[n].ins)
           /\ DOMAIN graph'[n].ins = DOMAIN graph[n].ins
           /\ \A j \in DOMAIN graph'[n].ins : graph'[n].ins[j] = new \/ graph'[n].ins[j] = graph[n].ins[j]
  BY <1>1, ReplaceFacts
<1>4. GraphInv'
  <2> SUFFICES ASSUME NEW n \in Nodes
               PROVE  /\ graph'[n].kind \in OperatorKinds =>
                           \A j \in DOMAIN graph'[n].ins : graph'[n].ins[j] \in ValueNodes
                      /\ graph'[n].kind = "RETURN" => Len(graph'[n].ins) = 2 /\ graph'[n].ins[2] \in ValueNodes
    BY <1>1, <1>2, <1>3 DEF GraphInv
  <2>1. ASSUME graph'[n].kind \in OperatorKinds, NEW j \in DOMAIN graph'[n].ins
        PROVE  graph'[n].ins[j] \in ValueNodes
    BY <1>1, <1>3, <2>1 DEF GraphInv
  <2>2. ASSUME graph'[n].kind = "RETURN"
        PROVE  Len(graph'[n].ins) = 2 /\ graph'[n].ins[2] \in ValueNodes
    <3>1. Len(graph'[n].ins) = 2 /\ graph[n].ins[2] \in ValueNodes
      BY <1>1, <1>3, <2>2 DEF GraphInv
    <3>2. 2 \in DOMAIN graph'[n].ins
      BY <1>3, <3>1
    <3> QED BY <1>3, <3>1, <3>2
  <2> QED BY <2>1, <2>2
<1> QED BY <1>2, <1>4, BuildKept DEF IInv

LEMMA ReturnStep ==
  ASSUME IInv, NEW value \in ValueNodes, wil_make_return(value)
  PROVE  IInv'
<1>1. GraphInv /\ LowerInv /\ SelectInv
  BY DEF IInv
<1> DEFINE node == Node("RETURN", <<1, value>>, 0)
<1>2. /\ stage = "build" /\ stage' = "lower" /\ graph' = Append(graph, node) /\ options' = options
      /\ mal' = mal /\ mds' = mds /\ at' = 1 /\ nextReg' = Cardinality(ParamNodes)
      /\ nodeRegs' = [n \in DOMAIN graph' |-> 0]
  BY DEF wil_make_return
<1>3. value \in Nat /\ value \in Nodes
  BY <1>1, GraphFacts DEF ValueNodes
<1>4. /\ node \in NodeRecord /\ node.kind = "RETURN" /\ node.ins = <<1, value>>
  BY <1>3 DEF Node, NodeRecord
<1> HIDE DEF node
<1>5. /\ graph' \in Seq(NodeRecord) /\ Len(graph') = Len(graph) + 1 /\ graph' # <<>>
      /\ Nodes' = 1..(Len(graph) + 1) /\ ValueNodes \subseteq ValueNodes'
      /\ \A n \in Nodes : graph'[n] = graph[n]
      /\ graph'[Len(graph) + 1] = node
      /\ \A n \in Nodes' : n \in Nodes \/ n = Len(graph) + 1
      /\ ParamNodes' = ParamNodes
  BY <1>1, <1>2, <1>4, AppendFacts
<1>6. GraphInv'
  <2>1. ASSUME NEW n \in Nodes'
        PROVE  /\ graph'[n].kind \in OperatorKinds =>
                    \A j \in DOMAIN graph'[n].ins : graph'[n].ins[j] \in ValueNodes'
               /\ graph'[n].kind = "RETURN" => Len(graph'[n].ins) = 2 /\ graph'[n].ins[2] \in ValueNodes'
    <3>1. CASE n \in Nodes
      BY <1>1, <1>5, <3>1 DEF GraphInv
    <3>2. CASE n = Len(graph) + 1
      <4>1. graph'[n].kind = "RETURN" /\ graph'[n].ins = <<1, value>>
        BY <1>4, <1>5, <3>2
      <4>2. graph'[n].kind \notin OperatorKinds
        BY <4>1 DEF OperatorKinds, UnaryKinds, BinaryKinds, ArithKinds, CompareKinds
      <4>3. Len(<<1, value>>) = 2 /\ <<1, value>>[2] = value
        OBVIOUS
      <4> QED BY <1>5, <4>1, <4>2, <4>3
    <3> QED BY <1>5, <3>1, <3>2
  <2>2. graph'[Len(graph')].kind = "RETURN"
    BY <1>4, <1>5
  <2> QED BY <1>1, <1>2, <1>5, <2>1, <2>2 DEF GraphInv
<1>7. mal = <<>> /\ mds = <<>> /\ nextReg' \in Nat
  BY <1>1, <1>2, ParamCount DEF LowerInv, SelectInv, Early
<1>8. LowerInv'
  <2>1. 1 \in Nodes' /\ nodeRegs' \in [Nodes' -> 0..nextReg']
    BY <1>1, <1>2, <1>5, <1>7, GraphFacts DEF Nodes
  <2> QED BY <1>2, <1>5, <1>7, <2>1 DEF LowerInv, MalOK
<1>9. SelectInv' /\ EncodeInv'
  BY <1>2, <1>7 DEF SelectInv, EncodeInv
<1>10. mal_verify_ssa' /\ RefusedOnlyUnselectable'
  BY <1>2, <1>7 DEF mal_verify_ssa, RefusedOnlyUnselectable
<1>11. Lowered'
  <2>1. \A n \in ValueNodes' : ~ (n < at')
    BY <1>1, <1>2, <1>5, GraphFacts DEF ValueNodes
  <2> QED BY <2>1 DEF Lowered
<1> QED BY <1>6, <1>8, <1>9, <1>10, <1>11 DEF IInv

LEMMA BuildStep ==
  ASSUME IInv, Build
  PROVE  IInv'
<1>1. GraphInv
  BY DEF IInv
<1>2. ASSUME NEW k \in Consts, wil_make_const_int(k) PROVE IInv'
  <2>1. k \in Int
    BY <1>1, OptionsAssumption DEF GraphInv, Consts
  <2>2. Node("CONST_INT", <<>>, k) \in NodeRecord
    BY <2>1 DEF Node, NodeRecord
  <2> QED BY <1>2, <2>2, MakeStep DEF wil_make_const_int, Node
<1>3. ASSUME NEW index \in 0..(Params - 1), wil_make_param(index) PROVE IInv'
  <2>1. Node("PARAM", <<>>, index) \in NodeRecord
    BY DEF Node, NodeRecord
  <2> QED BY <1>3, <2>1, MakeStep DEF wil_make_param, Node
<1>4. \A x \in ValueNodes : x \in Nat
  BY <1>1, GraphFacts DEF ValueNodes
<1>5. ASSUME NEW kind \in Kinds, NEW x \in ValueNodes, wil_build_unary(kind, x) PROVE IInv'
  <2>1. kind \in OperatorKinds /\ kind # "RETURN" /\ Make(Node(kind, <<x>>, 0))
    BY <1>5 DEF wil_build_unary, OperatorKinds, UnaryKinds
  <2>2. Node(kind, <<x>>, 0) \in NodeRecord
    BY <1>4, <2>1 DEF Node, NodeRecord
  <2>3. \A j \in DOMAIN Node(kind, <<x>>, 0).ins : Node(kind, <<x>>, 0).ins[j] \in ValueNodes
    BY DEF Node
  <2> QED BY <2>1, <2>2, <2>3, MakeStep DEF Node
<1>6. ASSUME NEW kind \in Kinds, NEW x \in ValueNodes, NEW y \in ValueNodes, wil_build_binary(kind, x, y)
      PROVE  IInv'
  <2>1. kind \in OperatorKinds /\ kind # "RETURN" /\ Make(Node(kind, <<x, y>>, 0))
    BY <1>6 DEF wil_build_binary, OperatorKinds, BinaryKinds, ArithKinds, CompareKinds
  <2>2. Node(kind, <<x, y>>, 0) \in NodeRecord
    BY <1>4, <2>1 DEF Node, NodeRecord
  <2>3. \A j \in DOMAIN Node(kind, <<x, y>>, 0).ins : Node(kind, <<x, y>>, 0).ins[j] \in ValueNodes
    BY DEF Node
  <2> QED BY <2>1, <2>2, <2>3, MakeStep DEF Node
<1> QED BY <1>2, <1>3, <1>5, <1>6, ReplaceStep, ReturnStep DEF Build

-----------------------------------------------------------------------------
(* SSA form of a sequence of instructions with params parameters, whose    *)
(* registers are below next.                                               *)

DefinedIn(m, params, i) == 0..(params - 1) \cup {m[j].dst : j \in 1..(i - 1)}
SSA(m, params, next) ==
  \A i \in DOMAIN m :
    /\ RegsOf(m[i]) \subseteq DefinedIn(m, params, i) \cap (0..(next - 1))
    /\ m[i].dst # MAL_INVALID_REG => m[i].dst \in (0..(next - 1)) \ DefinedIn(m, params, i)

LEMMA SSANow ==
  /\ mal_verify_ssa <=> SSA(mal, Cardinality(ParamNodes), nextReg)
  /\ \A i : DefinedBefore(i) = DefinedIn(mal, Cardinality(ParamNodes), i)
BY DEF mal_verify_ssa, SSA, DefinedBefore, DefinedIn

\* One more instruction; its destination, if it has one, is the next register.
LEMMA AppendInst ==
  ASSUME NEW params \in Nat, NEW next \in Nat, NEW new \in Nat, NEW m, NEW inst \in MalRecord,
         params <= next, MalOK(m, next),
         \/ inst.op = "RET" /\ inst.dst = MAL_INVALID_REG /\ new = next
         \/ inst.op # "RET" /\ inst.dst = next /\ new = next + 1,
         \A r \in RegsOf(inst) : r <= next
  PROVE  /\ MalOK(Append(m, inst), new) /\ Len(Append(m, inst)) = Len(m) + 1 /\ Len(m) \in Nat
         /\ DefinedIn(Append(m, inst), params, Len(m) + 2) = DefinedIn(m, params, Len(m) + 1) \cup {inst.dst}
         /\ SSA(m, params, next) /\ RegsOf(inst) \subseteq DefinedIn(m, params, Len(m) + 1) \cap (0..(next - 1))
              => SSA(Append(m, inst), params, new)
<1> DEFINE a == Append(m, inst)
<1>1. m \in Seq(MalRecord) /\ DOMAIN m = 1..Len(m) /\ Len(m) \in Nat
  BY DEF MalOK
<1>2. /\ a \in Seq(MalRecord) /\ Len(a) = Len(m) + 1 /\ DOMAIN a = 1..(Len(m) + 1)
      /\ \A i \in 1..Len(m) : a[i] = m[i]
      /\ a[Len(m) + 1] = inst
  BY <1>1
<1> HIDE DEF a
<1>3. next <= new /\ inst.dst <= new
  BY DEF MAL_INVALID_REG
<1>4. \A i \in DOMAIN m : m[i] \in MalRecord
  BY <1>1
<1>5. \A i \in DOMAIN m : m[i].dst \in Int /\ m[i].ops \in Seq(Operand)
  BY <1>4 DEF MalRecord
<1>6. \A i \in DOMAIN m : RegsOf(m[i]) \subseteq Nat
  BY <1>5, RegsType
<1>7. RegsOf(inst) \subseteq Nat
  <2>1. inst.ops \in Seq(Operand)
    BY DEF MalRecord
  <2> QED BY <2>1, RegsType
<1>8. MalOK(a, new)
  <2> SUFFICES ASSUME NEW i \in DOMAIN a
               PROVE  /\ a[i].op = "RET" <=> a[i].dst = MAL_INVALID_REG
                      /\ a[i].dst <= new
                      /\ \A r \in RegsOf(a[i]) : r <= new
    BY <1>2 DEF MalOK
  <2>1. CASE i \in 1..Len(m)
    <3>1. /\ m[i].op = "RET" <=> m[i].dst = MAL_INVALID_REG
          /\ m[i].dst <= next
          /\ \A r \in RegsOf(m[i]) : r <= next
      BY <1>1, <2>1 DEF MalOK
    <3>2. a[i] = m[i] /\ i \in DOMAIN m
      BY <1>1, <1>2, <2>1
    <3>3. m[i].dst <= new
      BY <1>3, <1>5, <3>1, <3>2
    <3>4. \A r \in RegsOf(m[i]) : r <= new
      BY <1>3, <1>6, <3>1, <3>2
    <3> QED BY <3>1, <3>2, <3>3, <3>4
  <2>2. CASE i = Len(m) + 1
    <3>1. a[i] = inst
      BY <1>2, <2>2
    <3>2. inst.op = "RET" <=> inst.dst = MAL_INVALID_REG
      BY DEF MAL_INVALID_REG
    <3>3. \A r \in RegsOf(inst) : r <= new
      BY <1>3, <1>7
    <3> QED BY <1>3, <3>1, <3>2, <3>3
  <2> QED BY <1>2, <2>1, <2>2
<1>9. \A i \in 1..(Len(m) + 1) : DefinedIn(a, params, i) = DefinedIn(m, params, i)
  <2> SUFFICES ASSUME NEW i \in 1..(Len(m) + 1) PROVE DefinedIn(a, params, i) = DefinedIn(m, params, i)
    OBVIOUS
  <2>1. \A j \in 1..(i - 1) : a[j] = m[j]
    BY <1>1, <1>2
  <2>2. {a[j].dst : j \in 1..(i - 1)} = {m[j].dst : j \in 1..(i - 1)}
    BY <2>1
  <2> QED BY <2>2 DEF DefinedIn
<1>10. DefinedIn(a, params, Len(m) + 2) = DefinedIn(m, params, Len(m) + 1) \cup {inst.dst}
  <2>1. (Len(m) + 1) - 1 = Len(m) /\ (Len(m) + 2) - 1 = Len(m) + 1
    BY <1>1
  <2>2. {a[j].dst : j \in 1..(Len(m) + 1)} = {m[j].dst : j \in 1..Len(m)} \cup {inst.dst}
    <3>1. \A j \in 1..(Len(m) + 1) : j \in 1..Len(m) \/ j = Len(m) + 1
      BY <1>1
    <3>2. \A j \in 1..Len(m) : j \in 1..(Len(m) + 1) /\ a[j].dst = m[j].dst
      BY <1>1, <1>2
    <3>3. Len(m) + 1 \in 1..(Len(m) + 1) /\ a[Len(m) + 1].dst = inst.dst
      BY <1>1, <1>2
    <3> QED BY <3>1, <3>2, <3>3
  <2> QED BY <2>1, <2>2 DEF DefinedIn
<1>11. ASSUME SSA(m, params, next), RegsOf(inst) \subseteq DefinedIn(m, params, Len(m) + 1) \cap (0..(next - 1))
       PROVE  SSA(a, params, new)
  <2> SUFFICES ASSUME NEW i \in DOMAIN a
               PROVE  /\ RegsOf(a[i]) \subseteq DefinedIn(a, params, i) \cap (0..(new - 1))
                      /\ a[i].dst # MAL_INVALID_REG => a[i].dst \in (0..(new - 1)) \ DefinedIn(a, params, i)
    BY DEF SSA
  <2>1. 0..(next - 1) \subseteq 0..(new - 1)
    BY <1>3
  <2>2. DefinedIn(a, params, i) = DefinedIn(m, params, i)
    BY <1>2, <1>9
  <2>3. CASE i \in DOMAIN m
    <3>1. a[i] = m[i]
      BY <1>1, <1>2, <2>3
    <3> QED BY <1>11, <2>1, <2>2, <2>3, <3>1 DEF SSA
  <2>4. CASE i = Len(m) + 1
    <3>1. a[i] = inst
      BY <1>2, <2>4
    <3>2. ASSUME inst.dst # MAL_INVALID_REG PROVE inst.dst \in (0..(new - 1)) \ DefinedIn(m, params, i)
      <4>1. inst.dst = next /\ new = next + 1
        BY <3>2
      <4>2. \A j \in DOMAIN m : m[j].dst # next
        BY <1>11 DEF SSA, MAL_INVALID_REG
      <4>3. \A j \in 1..(i - 1) : j \in DOMAIN m
        BY <1>1, <2>4
      <4>4. next \notin {m[j].dst : j \in 1..(i - 1)}
        BY <4>2, <4>3
      <4>5. next \notin 0..(params - 1)
        OBVIOUS
      <4> QED BY <4>1, <4>4, <4>5 DEF DefinedIn
    <3> QED BY <1>11, <2>1, <2>2, <2>4, <3>1, <3>2
  <2> QED BY <1>1, <1>2, <2>3, <2>4
<1> QED BY <1>1, <1>2, <1>8, <1>10, <1>11 DEF a

-----------------------------------------------------------------------------
(* Lowering.                                                               *)

\* Going on to the next node; the last one is the return node.
LEMMA NextFacts ==
  ASSUME IInv, stage = "lower", NextNode
  PROVE  /\ stage' \in {"lower", "ssa", "peephole"} /\ at \in Nodes
         /\ stage' = "lower" => at' = at + 1 /\ at + 1 \in Nodes
         /\ stage' # "lower" => graph[at].kind = "RETURN"
<1>1. GraphInv /\ LowerInv
  BY DEF IInv
<1>2. at \in 1..Len(graph) /\ Nodes = 1..Len(graph) /\ Len(graph) \in Nat
  BY <1>1, GraphFacts DEF LowerInv
<1>3. CASE at < Len(graph)
  BY <1>2, <1>3 DEF NextNode
<1>4. CASE ~ (at < Len(graph))
  <2>1. at = Len(graph) /\ stage' \in {"ssa", "peephole"}
    BY <1>2, <1>4 DEF NextNode
  <2> QED BY <1>1, <1>2, <2>1 DEF GraphInv
<1> QED BY <1>3, <1>4

\* The rest of the state while a node is lowered.
LEMMA LowerKept ==
  ASSUME IInv, stage = "lower", NextNode, options' = options, graph' = graph, mds' = mds
  PROVE  GraphInv' /\ SelectInv' /\ EncodeInv' /\ RefusedOnlyUnselectable'
<1>1. stage' \in {"lower", "ssa", "peephole"}
  BY NextFacts
<1>2. GraphInv'
  BY SameGraph DEF IInv, GraphInv
<1>3. mds = <<>>
  BY DEF IInv, SelectInv, Early
<1>4. SelectInv' /\ EncodeInv'
  BY <1>1, <1>3 DEF SelectInv, EncodeInv
<1> QED BY <1>1, <1>2, <1>4 DEF RefusedOnlyUnselectable

\* An operand is an immediate or the register of its node.
LEMMA OperandFacts ==
  ASSUME IInv, stage = "lower", NEW n \in ValueNodes
  PROVE  LET o == mal_operand_from_wil_input(n) IN
         /\ o \in Operand
         /\ o.kind = "imm" \/ (o.kind = "reg" /\ o.n = nodeRegs[n] /\ o.n <= nextReg)
         /\ o.kind = "reg" /\ Scheduled /\ n < at => o.n \in Defined
<1>1. GraphInv /\ LowerInv /\ n \in Nodes /\ graph[n].k \in Int
  BY GraphFacts DEF IInv, ValueNodes
<1>2. nodeRegs[n] \in 0..nextReg /\ nextReg \in Nat
  BY <1>1 DEF LowerInv
<1>3. CASE graph[n].kind = "CONST_INT"
  <2>1. mal_operand_from_wil_input(n) = [kind |-> "imm", n |-> graph[n].k]
    BY <1>3 DEF mal_operand_from_wil_input, Imm
  <2>2. \A k \in Int : [kind |-> "imm", n |-> k] \in Operand
    BY DEF Operand
  <2> QED BY <1>1, <2>1, <2>2
<1>4. CASE graph[n].kind # "CONST_INT"
  <2>1. mal_operand_from_wil_input(n) = [kind |-> "reg", n |-> nodeRegs[n]]
    BY <1>4 DEF mal_operand_from_wil_input, Reg
  <2>2. Scheduled /\ n < at => nodeRegs[n] \in Defined
    BY <1>4 DEF IInv, Lowered
  <2> QED BY <1>2, <2>1, <2>2 DEF Operand
<1> QED BY <1>3, <1>4

LEMMA LowerNothingStep ==
  ASSUME IInv, LowerNothing
  PROVE  IInv'
<1>1. /\ stage = "lower" /\ NextNode /\ options' = options /\ graph' = graph /\ mds' = mds
      /\ mal' = mal /\ nodeRegs' = nodeRegs /\ nextReg' = nextReg
      /\ graph[at].kind \in {"START", "CONST_INT"}
  BY DEF LowerNothing
<1>2. GraphInv' /\ SelectInv' /\ EncodeInv' /\ RefusedOnlyUnselectable'
  BY <1>1, LowerKept
<1>3. stage' = "lower" /\ at' = at + 1 /\ at + 1 \in Nodes
  BY <1>1, NextFacts
<1>4. Nodes' = Nodes /\ ValueNodes' = ValueNodes /\ ParamNodes' = ParamNodes /\ (Scheduled' <=> Scheduled)
  BY <1>1, SameGraph
<1>5. LowerInv'
  BY <1>1, <1>3, <1>4 DEF IInv, LowerInv
<1>6. (Scheduled => mal_verify_ssa /\ Lowered)'
  <2>1. \A i : DefinedBefore(i)' = DefinedBefore(i)
    BY <1>1, <1>4 DEF DefinedBefore
  <2>2. mal_verify_ssa' <=> mal_verify_ssa
    BY <1>1, <2>1 DEF mal_verify_ssa
  <2>3. Defined' = Defined
    BY <1>1, <1>4 DEF Defined, DefinedBefore
  <2>4. ASSUME Scheduled, NEW n \in ValueNodes, n < at', graph[n].kind # "CONST_INT" PROVE nodeRegs[n] \in Defined
    <3>1. n < at
      <4>1. n # at
        BY <1>1, <2>4 DEF ValueNodes
      <4>2. n \in Nat /\ at \in Nat
        BY <1>1, GraphFacts DEF IInv, ValueNodes, LowerInv
      <4> QED BY <1>3, <2>4, <4>1, <4>2
    <3> QED BY <1>1, <2>4, <3>1 DEF IInv, Lowered
  <2> QED BY <1>1, <1>4, <2>2, <2>3, <2>4 DEF IInv, Lowered
<1> QED BY <1>2, <1>5, <1>6 DEF IInv

LEMMA LowerParamStep ==
  ASSUME IInv, LowerParam
  PROVE  IInv'
<1> DEFINE rank == Cardinality({n \in ParamNodes : n < at})
<1>1. /\ stage = "lower" /\ NextNode /\ options' = options /\ graph' = graph /\ mds' = mds
      /\ mal' = mal /\ nodeRegs' = [nodeRegs EXCEPT ![at] = rank] /\ nextReg' = nextReg
      /\ graph[at].kind = "PARAM"
  BY DEF LowerParam
<1>2. GraphInv' /\ SelectInv' /\ EncodeInv' /\ RefusedOnlyUnselectable'
  BY <1>1, LowerKept
<1>3. stage' = "lower" /\ at' = at + 1 /\ at + 1 \in Nodes /\ at \in Nodes
  BY <1>1, NextFacts
<1>4. Nodes' = Nodes /\ ValueNodes' = ValueNodes /\ ParamNodes' = ParamNodes /\ (Scheduled' <=> Scheduled)
  BY <1>1, SameGraph
<1>5. rank \in 0..(Cardinality(ParamNodes) - 1)
  <2>1. at \in ParamNodes /\ GraphInv
    BY <1>1, <1>3 DEF ParamNodes, IInv
  <2> QED BY <2>1, ParamCount
<1> HIDE DEF rank
<1>6. /\ nextReg \in Nat /\ nextReg >= Cardinality(ParamNodes) /\ nodeRegs \in [Nodes -> 0..nextReg]
      /\ Cardinality(ParamNodes) \in Nat
  BY <1>1, ParamCount DEF IInv, LowerInv
<1>7. rank \in 0..(nextReg - 1)
  BY <1>5, <1>6
<1>8. LowerInv'
  <2>1. nodeRegs' \in [Nodes -> 0..nextReg]
    <3>1. rank \in 0..nextReg
      BY <1>6, <1>7
    <3> QED BY <1>1, <1>3, <1>6, <3>1
  <2> QED BY <1>1, <1>3, <1>4, <2>1 DEF IInv, LowerInv
<1>9. (Scheduled => mal_verify_ssa /\ Lowered)'
  <2>1. \A i : DefinedBefore(i)' = DefinedBefore(i)
    BY <1>1, <1>4 DEF DefinedBefore
  <2>2. mal_verify_ssa' <=> mal_verify_ssa
    BY <1>1, <2>1 DEF mal_verify_ssa
  <2>3. Defined' = Defined /\ rank \in Defined
    BY <1>1, <1>4, <1>5, <1>7 DEF Defined, DefinedBefore
  <2>4. ASSUME Scheduled, NEW n \in ValueNodes, n < at', graph[n].kind # "CONST_INT" PROVE nodeRegs'[n] \in Defined
    <3>1. n \in Nodes /\ n \in Nat /\ at \in Nat
      BY <1>1, <1>3, GraphFacts DEF IInv, ValueNodes
    <3>2. CASE n = at
      BY <1>1, <1>6, <2>3, <3>1, <3>2
    <3>3. CASE n # at
      <4>1. n < at /\ nodeRegs'[n] = nodeRegs[n]
        BY <1>1, <1>3, <1>6, <2>4, <3>1, <3>3
      <4> QED BY <1>1, <2>4, <4>1 DEF IInv, Lowered
    <3> QED BY <3>2, <3>3
  <2> QED BY <1>1, <1>4, <2>2, <2>3, <2>4 DEF IInv, Lowered
<1> QED BY <1>2, <1>8, <1>9 DEF IInv

LEMMA LowerOperatorStep ==
  ASSUME IInv, LowerOperator
  PROVE  IInv'
<1> DEFINE ins == graph[at].ins
           ops == [j \in DOMAIN ins |-> mal_operand_from_wil_input(ins[j])]
           inst == Inst(mal_opcode_from_wil(graph[at].kind), nextReg, ops)
           params == Cardinality(ParamNodes)
<1>1. /\ stage = "lower" /\ NextNode /\ options' = options /\ graph' = graph /\ mds' = mds
      /\ mal' = Append(mal, inst) /\ nodeRegs' = [nodeRegs EXCEPT ![at] = nextReg] /\ nextReg' = nextReg + 1
      /\ graph[at].kind \in OperatorKinds
  BY DEF LowerOperator, OperatorKinds
<1>2. GraphInv' /\ SelectInv' /\ EncodeInv' /\ RefusedOnlyUnselectable'
  BY <1>1, LowerKept
<1>3. stage' = "lower" /\ at' = at + 1 /\ at + 1 \in Nodes /\ at \in Nodes
  <2>1. graph[at].kind # "RETURN"
    BY <1>1 DEF OperatorKinds, UnaryKinds, BinaryKinds, ArithKinds, CompareKinds
  <2> QED BY <1>1, <2>1, NextFacts
<1>4. Nodes' = Nodes /\ ValueNodes' = ValueNodes /\ ParamNodes' = ParamNodes /\ (Scheduled' <=> Scheduled)
  BY <1>1, SameGraph
<1>5. /\ nextReg \in Nat /\ nextReg >= params /\ nodeRegs \in [Nodes -> 0..nextReg]
      /\ params \in Nat /\ MalOK(mal, nextReg)
  BY <1>1, ParamCount DEF IInv, LowerInv
<1>6. PICK s \in Seq(Nat) : s = ins
  BY <1>3, GraphFacts DEF IInv
<1>7. DOMAIN s = 1..Len(s) /\ Len(s) \in Nat /\ \A j \in DOMAIN s : s[j] \in ValueNodes
  BY <1>1, <1>3, <1>6 DEF IInv, GraphInv
<1>8. /\ DOMAIN ops = 1..Len(s) /\ ops \in Seq(Operand)
      /\ \A j \in 1..Len(s) : ops[j] = mal_operand_from_wil_input(s[j])
  <2>1. /\ DOMAIN ops = 1..Len(s) /\ \A j \in 1..Len(s) : ops[j] = mal_operand_from_wil_input(s[j])
    BY <1>6, <1>7
  <2>2. ops \in [1..Len(s) -> Operand]
    BY <1>1, <1>6, <1>7, <2>1, OperandFacts
  <2> HIDE DEF ops
  <2>3. PICK k \in Nat : ops \in [1..k -> Operand]
    BY <1>7, <2>2
  <2> QED BY <2>1, <2>3, SeqDef
<1> HIDE DEF ops
<1>9. inst \in MalRecord /\ inst.op # "RET" /\ inst.dst = nextReg /\ inst.ops = ops
  <2>1. /\ mal_opcode_from_wil(graph[at].kind) \in {"RET", "COPY", "SDIV", "SREM", "ASHR"} \cup OperatorKinds
        /\ mal_opcode_from_wil(graph[at].kind) # "RET"
    BY <1>1 DEF mal_opcode_from_wil, OperatorKinds, UnaryKinds, BinaryKinds, ArithKinds, CompareKinds
  <2> QED BY <1>5, <1>8, <2>1 DEF Inst, MalRecord
<1>10. \A r \in RegsOf(inst) : \E j \in 1..Len(s) : ops[j].kind = "reg" /\ r = ops[j].n
  BY <1>8, <1>9 DEF RegsOf
<1> HIDE DEF inst, params
<1>11. \A r \in RegsOf(inst) : r <= nextReg
  <2> SUFFICES ASSUME NEW r \in RegsOf(inst) PROVE r <= nextReg
    OBVIOUS
  <2>1. PICK j \in 1..Len(s) : ops[j].kind = "reg" /\ r = ops[j].n
    BY <1>10
  <2>2. s[j] \in ValueNodes /\ ops[j] = mal_operand_from_wil_input(s[j])
    BY <1>7, <1>8
  <2> QED BY <1>1, <2>1, <2>2, OperandFacts
<1>12. /\ MalOK(Append(mal, inst), nextReg + 1) /\ Len(Append(mal, inst)) = Len(mal) + 1 /\ Len(mal) \in Nat
       /\ DefinedIn(Append(mal, inst), params, Len(mal) + 2) = DefinedIn(mal, params, Len(mal) + 1) \cup {inst.dst}
       /\ SSA(mal, params, nextReg) /\ RegsOf(inst) \subseteq DefinedIn(mal, params, Len(mal) + 1) \cap (0..(nextReg - 1))
            => SSA(Append(mal, inst), params, nextReg + 1)
  <2>1. PICK new \in Nat : new = nextReg + 1
    BY <1>5
  <2>2. params <= nextReg
    BY <1>5
  <2>3. /\ params \in Nat /\ nextReg \in Nat /\ MalOK(mal, nextReg) /\ inst \in MalRecord
        /\ \/ inst.op = "RET" /\ inst.dst = MAL_INVALID_REG /\ new = nextReg
           \/ inst.op # "RET" /\ inst.dst = nextReg /\ new = nextReg + 1
    BY <1>5, <1>9, <2>1
  <2>4. /\ MalOK(Append(mal, inst), new) /\ Len(Append(mal, inst)) = Len(mal) + 1 /\ Len(mal) \in Nat
        /\ DefinedIn(Append(mal, inst), params, Len(mal) + 2) = DefinedIn(mal, params, Len(mal) + 1) \cup {inst.dst}
        /\ SSA(mal, params, nextReg) /\ RegsOf(inst) \subseteq DefinedIn(mal, params, Len(mal) + 1) \cap (0..(nextReg - 1))
             => SSA(Append(mal, inst), params, new)
    BY <1>11, <2>2, <2>3, AppendInst
  <2> QED BY <2>1, <2>4
<1>13. LowerInv'
  <2>1. nodeRegs' \in [Nodes -> 0..(nextReg + 1)]
    <3>1. nextReg \in 0..(nextReg + 1) /\ 0..nextReg \subseteq 0..(nextReg + 1)
      BY <1>5
    <3> QED BY <1>1, <1>3, <1>5, <3>1
  <2>2. params' = params /\ nextReg + 1 \in Nat /\ nextReg + 1 >= params
    BY <1>4, <1>5 DEF params
  <2> QED BY <1>1, <1>3, <1>4, <1>12, <2>1, <2>2 DEF LowerInv, params
<1>14. ASSUME Scheduled PROVE mal_verify_ssa' /\ Lowered'
  <2>1. mal_verify_ssa /\ Lowered /\ Defined = DefinedIn(mal, params, Len(mal) + 1) \cap (0..(nextReg - 1))
    BY <1>14, SSANow DEF IInv, Defined, params
  <2>2. RegsOf(inst) \subseteq Defined
    <3> SUFFICES ASSUME NEW r \in RegsOf(inst) PROVE r \in Defined
      OBVIOUS
    <3>1. PICK j \in 1..Len(s) : ops[j].kind = "reg" /\ r = ops[j].n
      BY <1>10
    <3>2. s[j] \in ValueNodes /\ ops[j] = mal_operand_from_wil_input(s[j]) /\ s[j] < at
      BY <1>3, <1>6, <1>7, <1>8, <1>14 DEF Scheduled
    <3> QED BY <1>1, <1>14, <3>1, <3>2, OperandFacts
  <2>3. SSA(mal', params, nextReg')
    BY <1>1, <1>12, <2>1, <2>2, SSANow DEF params
  <2>4. mal_verify_ssa'
    BY <1>4, <2>3 DEF mal_verify_ssa, SSA, DefinedBefore, DefinedIn, params
  <2>5. Defined' = DefinedIn(mal', params, Len(mal) + 2) \cap (0..nextReg)
    <3>1. Len(mal') + 1 = Len(mal) + 2 /\ nextReg' - 1 = nextReg
      BY <1>1, <1>5, <1>12
    <3> QED BY <1>4, <3>1 DEF Defined, DefinedBefore, DefinedIn, params
  <2>6. Defined \subseteq Defined' /\ nextReg \in Defined'
    BY <1>1, <1>5, <1>9, <1>12, <2>1, <2>5
  <2>7. ASSUME NEW n \in ValueNodes, n < at', graph[n].kind # "CONST_INT" PROVE nodeRegs'[n] \in Defined'
    <3>1. n \in Nodes /\ n \in Nat /\ at \in Nat
      BY <1>1, <1>3, GraphFacts DEF IInv, ValueNodes
    <3>2. CASE n = at
      BY <1>1, <1>5, <2>6, <3>1, <3>2
    <3>3. CASE n # at
      <4>1. n < at /\ nodeRegs'[n] = nodeRegs[n]
        BY <1>1, <1>3, <1>5, <2>7, <3>1, <3>3
      <4> QED BY <1>1, <2>1, <2>6, <2>7, <4>1 DEF Lowered
    <3> QED BY <3>2, <3>3
  <2> QED BY <1>1, <1>4, <2>4, <2>7 DEF Lowered
<1> QED BY <1>2, <1>4, <1>13, <1>14 DEF IInv

LEMMA Below ==
  ASSUME NEW low \in Nat, NEW high \in Nat, low <= high
  PROVE  0..(low - 1) \subseteq 0..(high - 1)
OBVIOUS

\* Operands of one register or immediate.
LEMMA SingleOperand ==
  ASSUME NEW op \in {"RET", "COPY"}, NEW dst \in Nat \cup {-1}, NEW o \in Operand
  PROVE  /\ Inst(op, dst, <<o>>) \in MalRecord
         /\ Inst(op, dst, <<o>>).op = op /\ Inst(op, dst, <<o>>).dst = dst /\ Inst(op, dst, <<o>>).ops = <<o>>
         /\ RegsOf(Inst(op, dst, <<o>>)) \subseteq {o.n}
         /\ o.kind # "reg" => RegsOf(Inst(op, dst, <<o>>)) = {}
<1> DEFINE inst == Inst(op, dst, <<o>>)
<1>1. inst.op = op /\ inst.dst = dst /\ inst.ops = <<o>> /\ <<o>> \in Seq(Operand)
  BY DEF Inst
<1>2. inst \in MalRecord
  BY <1>1 DEF Inst, MalRecord
<1>3. DOMAIN <<o>> = {1} /\ <<o>>[1] = o
  OBVIOUS
<1>4. RegsOf(inst) = {<<o>>[j].n : j \in {i \in {1} : <<o>>[i].kind = "reg"}}
  BY <1>1, <1>3 DEF RegsOf
<1> QED BY <1>1, <1>2, <1>3, <1>4

LEMMA LowerReturnStep ==
  ASSUME IInv, LowerReturn
  PROVE  IInv'
<1> DEFINE source == graph[at].ins[2]
           value == mal_operand_from_wil_input(source)
           params == Cardinality(ParamNodes)
           ret(o) == Inst("RET", MAL_INVALID_REG, <<o>>)
           copy == Inst("COPY", nextReg, <<value>>)
<1>1. /\ stage = "lower" /\ NextNode /\ options' = options /\ graph' = graph /\ mds' = mds
      /\ nodeRegs' = nodeRegs /\ graph[at].kind = "RETURN"
      /\ \/ value.kind = "reg" /\ mal' = Append(mal, ret(value)) /\ nextReg' = nextReg
         \/ value.kind = "imm" /\ mal' = mal \o <<copy, ret(Reg(nextReg))>> /\ nextReg' = nextReg + 1
  BY DEF LowerReturn
<1>2. GraphInv' /\ SelectInv' /\ EncodeInv' /\ RefusedOnlyUnselectable'
  BY <1>1, LowerKept
<1>3. stage' \in {"lower", "ssa", "peephole"} /\ at \in Nodes /\ (stage' = "lower" => at' = at + 1 /\ at + 1 \in Nodes)
  BY <1>1, NextFacts
<1>4. Nodes' = Nodes /\ ValueNodes' = ValueNodes /\ ParamNodes' = ParamNodes /\ (Scheduled' <=> Scheduled)
  BY <1>1, SameGraph
<1>5. /\ nextReg \in Nat /\ params <= nextReg /\ nodeRegs \in [Nodes -> 0..nextReg]
      /\ params \in Nat /\ MalOK(mal, nextReg)
  <2>1. nextReg >= params /\ nextReg \in Nat /\ params \in Nat
    BY <1>1, ParamCount DEF IInv, LowerInv
  <2> QED BY <1>1, <2>1 DEF IInv, LowerInv
<1>6. source \in ValueNodes /\ (Scheduled => source < at)
  <2>1. Len(graph[at].ins) = 2 /\ source \in ValueNodes
    BY <1>1, <1>3 DEF IInv, GraphInv
  <2>2. 2 \in DOMAIN graph[at].ins
    BY <1>3, <2>1, GraphFacts DEF IInv
  <2> QED BY <1>3, <2>1, <2>2 DEF Scheduled
<1>7. /\ value \in Operand
      /\ value.kind = "reg" => value.n <= nextReg
      /\ value.kind = "reg" /\ Scheduled => value.n \in Defined
  BY <1>1, <1>6, OperandFacts
<1>8. /\ Defined = DefinedIn(mal, params, Len(mal) + 1) \cap (0..(nextReg - 1))
      /\ Scheduled => SSA(mal, params, nextReg)
  BY SSANow DEF IInv, Defined
<1> HIDE DEF source, value, params
<1>9. /\ nextReg' \in Nat /\ nextReg <= nextReg' /\ MalOK(mal', nextReg') /\ mal' # <<>>
      /\ Scheduled => SSA(mal', params, nextReg')
      /\ Defined \subseteq DefinedIn(mal', params, Len(mal') + 1)
  <2>1. CASE value.kind = "reg"
    <3> DEFINE inst == ret(value)
    <3>1. /\ inst \in MalRecord /\ inst.op = "RET" /\ inst.dst = MAL_INVALID_REG /\ RegsOf(inst) \subseteq {value.n}
      BY <1>7, SingleOperand DEF MAL_INVALID_REG
    <3>2. mal' = Append(mal, inst) /\ nextReg' = nextReg
      BY <1>1, <2>1
    <3> HIDE DEF inst
    <3>3. /\ params \in Nat /\ nextReg \in Nat /\ MalOK(mal, nextReg) /\ inst \in MalRecord /\ params <= nextReg
          /\ \/ inst.op = "RET" /\ inst.dst = MAL_INVALID_REG /\ nextReg = nextReg
             \/ inst.op # "RET" /\ inst.dst = nextReg /\ nextReg = nextReg + 1
      BY <1>5, <3>1
    <3>4. \A r \in RegsOf(inst) : r <= nextReg
      BY <1>7, <2>1, <3>1
    <3>5. /\ MalOK(Append(mal, inst), nextReg) /\ Len(Append(mal, inst)) = Len(mal) + 1 /\ Len(mal) \in Nat
          /\ DefinedIn(Append(mal, inst), params, Len(mal) + 2) = DefinedIn(mal, params, Len(mal) + 1) \cup {inst.dst}
          /\ SSA(mal, params, nextReg) /\ RegsOf(inst) \subseteq DefinedIn(mal, params, Len(mal) + 1) \cap (0..(nextReg - 1))
               => SSA(Append(mal, inst), params, nextReg)
      BY <3>3, <3>4, AppendInst
    <3>6. Len(mal') + 1 = Len(mal) + 2 /\ mal' # <<>>
      BY <3>2, <3>5
    <3>7. Scheduled => RegsOf(inst) \subseteq DefinedIn(mal, params, Len(mal) + 1) \cap (0..(nextReg - 1))
      BY <1>7, <1>8, <2>1, <3>1
    <3> QED BY <1>5, <1>8, <3>2, <3>5, <3>6, <3>7
  <2>2. CASE value.kind = "imm"
    <3> DEFINE mid == Append(mal, copy)
               inst == ret(Reg(nextReg))
               o == Reg(nextReg)
    <3>1. PICK new \in Nat : new = nextReg + 1
      BY <1>5
    <3>2. copy \in MalRecord /\ copy.op = "COPY" /\ copy.dst = nextReg /\ RegsOf(copy) = {}
      <4>1. nextReg \in Nat \cup {-1} /\ value.kind # "reg"
        BY <1>5, <2>2
      <4>2. PICK dst \in Nat \cup {-1} : dst = nextReg
        BY <4>1
      <4>3. copy = Inst("COPY", dst, <<value>>)
        BY <4>2
      <4> HIDE DEF copy
      <4> QED BY <1>7, <4>1, <4>2, <4>3, SingleOperand
    <3>3. o \in Operand /\ o.n = nextReg
      BY <1>5 DEF Reg, Operand
    <3>4. inst \in MalRecord /\ inst.op = "RET" /\ inst.dst = MAL_INVALID_REG /\ RegsOf(inst) \subseteq {nextReg}
      <4> HIDE DEF o
      <4>1. inst = Inst("RET", MAL_INVALID_REG, <<o>>)
        BY DEF o
      <4> HIDE DEF inst
      <4> QED BY <3>3, <4>1, SingleOperand DEF MAL_INVALID_REG
    <3>5. mal' = mal \o <<copy, inst>> /\ nextReg' = new
      BY <1>1, <2>2, <3>1
    <3> HIDE DEF copy, inst, o
    <3>6. mal' = Append(mid, inst)
      <4>1. mal \in Seq(MalRecord)
        BY <1>5 DEF MalOK
      <4> QED BY <3>2, <3>4, <3>5, <4>1
    <3>7. /\ params \in Nat /\ nextReg \in Nat /\ MalOK(mal, nextReg) /\ copy \in MalRecord /\ params <= nextReg
          /\ \/ copy.op = "RET" /\ copy.dst = MAL_INVALID_REG /\ new = nextReg
             \/ copy.op # "RET" /\ copy.dst = nextReg /\ new = nextReg + 1
          /\ \A r \in RegsOf(copy) : r <= nextReg
      BY <1>5, <3>1, <3>2
    <3>8. /\ MalOK(mid, new) /\ Len(mid) = Len(mal) + 1 /\ Len(mal) \in Nat
          /\ DefinedIn(mid, params, Len(mal) + 2) = DefinedIn(mal, params, Len(mal) + 1) \cup {copy.dst}
          /\ SSA(mal, params, nextReg) /\ RegsOf(copy) \subseteq DefinedIn(mal, params, Len(mal) + 1) \cap (0..(nextReg - 1))
               => SSA(mid, params, new)
      BY <3>7, AppendInst
    <3> HIDE DEF mid
    <3>9. /\ params \in Nat /\ new \in Nat /\ MalOK(mid, new) /\ inst \in MalRecord /\ params <= new
          /\ \/ inst.op = "RET" /\ inst.dst = MAL_INVALID_REG /\ new = new
             \/ inst.op # "RET" /\ inst.dst = new /\ new = new + 1
          /\ \A r \in RegsOf(inst) : r <= new
      BY <1>5, <3>1, <3>4, <3>8
    <3>10. /\ MalOK(mal', new) /\ Len(mal') = Len(mid) + 1 /\ Len(mid) \in Nat
           /\ DefinedIn(mal', params, Len(mid) + 2) = DefinedIn(mid, params, Len(mid) + 1) \cup {inst.dst}
           /\ SSA(mid, params, new) /\ RegsOf(inst) \subseteq DefinedIn(mid, params, Len(mid) + 1) \cap (0..(new - 1))
                => SSA(mal', params, new)
      BY <3>6, <3>9, AppendInst
    <3>11. Len(mal') + 1 = Len(mid) + 2 /\ Len(mid) + 1 = Len(mal) + 2 /\ mal' # <<>> /\ nextReg \in 0..(new - 1)
      BY <1>5, <3>1, <3>8, <3>10
    <3>12. RegsOf(inst) \subseteq DefinedIn(mid, params, Len(mid) + 1) \cap (0..(new - 1))
      BY <3>2, <3>4, <3>8, <3>11
    <3>13. nextReg <= new
      BY <1>5, <3>1
    <3> QED BY <1>8, <3>2, <3>5, <3>8, <3>10, <3>11, <3>12, <3>13
  <2> QED BY <1>7, <1>1, <2>1, <2>2
<1>10. LowerInv'
  <2>1. nodeRegs' \in [Nodes -> 0..nextReg']
    <3>1. 0..nextReg \subseteq 0..nextReg'
      BY <1>5, <1>9
    <3> QED BY <1>1, <1>5, <3>1
  <2>2. params' = params /\ nextReg' >= params
    BY <1>4, <1>5, <1>9 DEF params
  <2> QED BY <1>3, <1>4, <1>9, <2>1, <2>2 DEF LowerInv, params
<1>11. ASSUME Scheduled PROVE mal_verify_ssa' /\ Lowered'
  <2>1. mal_verify_ssa'
    BY <1>4, <1>9, <1>11 DEF mal_verify_ssa, SSA, DefinedBefore, DefinedIn, params
  <2>2. Defined' = DefinedIn(mal', params, Len(mal') + 1) \cap (0..(nextReg' - 1))
    BY <1>4 DEF Defined, DefinedBefore, DefinedIn, params
  <2>3. Defined \subseteq Defined'
    <3>1. 0..(nextReg - 1) \subseteq 0..(nextReg' - 1)
      <4>1. nextReg \in Nat /\ nextReg' \in Nat /\ nextReg <= nextReg'
        BY <1>5, <1>9
      <4> QED BY <4>1, Below
    <3> QED BY <1>8, <1>9, <2>2, <3>1
  <2>4. ASSUME stage' = "lower", NEW n \in ValueNodes, n < at', graph[n].kind # "CONST_INT"
        PROVE  nodeRegs'[n] \in Defined'
    <3>1. n \in Nat /\ at \in Nat /\ n # at
      BY <1>1, <1>3, GraphFacts DEF IInv, ValueNodes
    <3>2. n < at
      BY <1>3, <2>4, <3>1
    <3> QED BY <1>1, <1>11, <2>3, <2>4, <3>2 DEF IInv, Lowered
  <2> QED BY <1>1, <1>4, <2>1, <2>4 DEF Lowered
<1> QED BY <1>2, <1>4, <1>10, <1>11 DEF IInv

-----------------------------------------------------------------------------
(* Verification and peepholes.                                             *)

\* After the lowering only the peepholes change the MAL function.
LEMMA MalKept ==
  ASSUME IInv, stage \notin {"build", "lower"}, stage' \notin {"build", "lower"},
         UNCHANGED <<options, graph, nodeRegs, nextReg, mal>>
  PROVE  /\ GraphInv' /\ LowerInv' /\ (Scheduled => mal_verify_ssa /\ Lowered)'
         /\ Scheduled' <=> Scheduled
<1>1. Nodes' = Nodes /\ ValueNodes' = ValueNodes /\ ParamNodes' = ParamNodes /\ (Scheduled' <=> Scheduled)
  BY SameGraph
<1>2. GraphInv' /\ LowerInv'
  BY <1>1 DEF IInv, GraphInv, LowerInv
<1>3. mal_verify_ssa' <=> mal_verify_ssa
  <2>1. \A i : DefinedBefore(i)' = DefinedBefore(i)
    BY <1>1 DEF DefinedBefore
  <2> QED BY <2>1 DEF mal_verify_ssa
<1> QED BY <1>1, <1>2, <1>3 DEF IInv, Lowered

LEMMA VerifyStep ==
  ASSUME IInv, VerifySSA
  PROVE  IInv'
<1>1. /\ stage \in {"ssa", "ssa2"} /\ stage' \in {"failed", "peephole", "select"} /\ at' = 1
      /\ stage' = "failed" => ~mal_verify_ssa
      /\ UNCHANGED <<options, graph, nodeRegs, nextReg, mal>> /\ mds' = mds
  BY DEF VerifySSA
<1>2. /\ GraphInv' /\ LowerInv' /\ (Scheduled => mal_verify_ssa /\ Lowered)'
      /\ Scheduled' <=> Scheduled
  BY <1>1, MalKept
<1>3. mds = <<>>
  BY <1>1 DEF IInv, SelectInv, Early
<1>4. SelectInv' /\ EncodeInv'
  BY <1>1, <1>3 DEF SelectInv, EncodeInv
<1>5. RefusedOnlyUnselectable'
  BY <1>1, <1>2 DEF IInv, RefusedOnlyUnselectable
<1> QED BY <1>2, <1>4, <1>5 DEF IInv

LEMMA PeepholesDoneStep ==
  ASSUME IInv, PeepholesDone
  PROVE  IInv'
<1>1. /\ stage = "peephole" /\ stage' \in {"ssa2", "select"} /\ at' = 1
      /\ UNCHANGED <<options, graph, nodeRegs, nextReg, mal>> /\ mds' = mds
  BY DEF PeepholesDone
<1>2. GraphInv' /\ LowerInv' /\ (Scheduled => mal_verify_ssa /\ Lowered)'
  BY <1>1, MalKept
<1>3. mds = <<>>
  BY <1>1 DEF IInv, SelectInv, Early
<1>4. SelectInv' /\ EncodeInv'
  BY <1>1, <1>3 DEF SelectInv, EncodeInv
<1> QED BY <1>1, <1>2, <1>4 DEF IInv, RefusedOnlyUnselectable

\* Rules are about operators; their result is the variable or 0.
LEMMA RuleFacts ==
  /\ DOMAIN Rules = 1..12
  /\ \A r \in DOMAIN Rules :
       Rules[r][1] \in {"ADD", "SUB", "MUL", "AND", "OR", "XOR", "SHL", "ASHR"} /\ Rules[r][4] \in {X, Imm(0)}
<1>1. DOMAIN Rules = 1..12
  BY DEF Rules
<1>2. ASSUME NEW r \in 1..12
      PROVE  Rules[r][1] \in {"ADD", "SUB", "MUL", "AND", "OR", "XOR", "SHL", "ASHR"} /\ Rules[r][4] \in {X, Imm(0)}
  <2>1. \/ r = 1 \/ r = 2 \/ r = 3 \/ r = 4 \/ r = 5 \/ r = 6
        \/ r = 7 \/ r = 8 \/ r = 9 \/ r = 10 \/ r = 11 \/ r = 12
    OBVIOUS
  <2> QED BY <2>1 DEF Rules
<1> QED BY <1>1, <1>2

\* A replacement writes the same register and reads no other one.
LEMMA ReplacementFacts ==
  ASSUME NEW r \in DOMAIN Rules, NEW inst \in MalRecord, mal_mrs_match_rule(Rules[r], inst)
  PROVE  LET new == mal_mrs_build_replacement(Rules[r], inst) IN
         /\ new \in MalRecord /\ new.op = "COPY" /\ inst.op # "RET" /\ new.dst = inst.dst
         /\ RegsOf(new) \subseteq RegsOf(inst)
<1> DEFINE o == IF Rules[r][4] # X THEN Rules[r][4]
                ELSE IF Rules[r][2] = X THEN inst.ops[1] ELSE inst.ops[2]
<1>1. inst.op = Rules[r][1] /\ Len(inst.ops) = 2
  BY DEF mal_mrs_match_rule
<1>2. inst.ops \in Seq(Operand) /\ inst.dst \in Nat \cup {-1}
  BY DEF MalRecord
<1>3. 1 \in DOMAIN inst.ops /\ 2 \in DOMAIN inst.ops
  BY <1>1, <1>2
<1>4. Imm(0) \in Operand /\ Imm(0).kind # "reg"
  BY DEF Imm, Operand
<1>5. o = Imm(0) \/ o = inst.ops[1] \/ o = inst.ops[2]
  BY RuleFacts
<1>6. o \in Operand /\ (o.kind = "reg" => o.n \in RegsOf(inst))
  <2> HIDE DEF o
  <2>1. \A j \in DOMAIN inst.ops : /\ inst.ops[j] \in Operand
                                   /\ inst.ops[j].kind = "reg" => inst.ops[j].n \in RegsOf(inst)
    BY <1>2, RegsType
  <2> QED BY <1>3, <1>4, <1>5, <2>1
<1>7. mal_mrs_build_replacement(Rules[r], inst) = Inst("COPY", inst.dst, <<o>>)
  BY DEF mal_mrs_build_replacement
<1> HIDE DEF o
<1>8. PICK dst \in Nat \cup {-1} : dst = inst.dst
  BY <1>2
<1>9. LET new == Inst("COPY", dst, <<o>>) IN
      /\ new \in MalRecord /\ new.op = "COPY" /\ new.dst = dst
      /\ RegsOf(new) \subseteq {o.n} /\ (o.kind # "reg" => RegsOf(new) = {})
  BY <1>6, SingleOperand
<1>10. inst.op # "RET"
  BY <1>1, RuleFacts
<1> QED BY <1>6, <1>7, <1>8, <1>9, <1>10

LEMMA PeepholeStep ==
  ASSUME IInv, malApplyOnePeephole
  PROVE  IInv'
<1> DEFINE i == Min(Matches)
           R == {q \in DOMAIN Rules : mal_mrs_match_rule(Rules[q], mal[i])}
           new == mal_mrs_build_replacement(Rules[Min(R)], mal[i])
<1>1. /\ stage = "peephole" /\ stage' = stage /\ Matches # {}
      /\ mal' = [mal EXCEPT ![i] = new]
      /\ UNCHANGED <<options, graph, nodeRegs, nextReg, mds>>
  BY DEF malApplyOnePeephole
<1>2. /\ DOMAIN mal = 1..Len(mal) /\ Len(mal) \in Nat /\ \A j \in DOMAIN mal : mal[j] \in MalRecord
      /\ \A j \in DOMAIN mal : mal[j].ops \in Seq(Operand)
  BY MalFacts DEF IInv
<1>3. i \in DOMAIN mal /\ \E r \in DOMAIN Rules : mal_mrs_match_rule(Rules[r], mal[i])
  <2>1. Matches \in SUBSET Nat
    BY <1>2 DEF Matches
  <2>2. i \in Matches
    BY <1>1, <2>1, MinNat
  <2> QED BY <2>2 DEF Matches
<1> HIDE DEF i
<1>4. Min(R) \in DOMAIN Rules /\ mal_mrs_match_rule(Rules[Min(R)], mal[i])
  <2>1. R \in SUBSET Nat /\ R # {}
    BY <1>3, RuleFacts
  <2>2. Min(R) \in R
    BY <2>1, MinNat
  <2> QED BY <2>2
<1> HIDE DEF R
<1>5. /\ new \in MalRecord /\ new.op = "COPY" /\ mal[i].op # "RET" /\ new.dst = mal[i].dst
      /\ RegsOf(new) \subseteq RegsOf(mal[i])
  BY <1>2, <1>3, <1>4, ReplacementFacts
<1> HIDE DEF new
<1>6. /\ DOMAIN mal' = DOMAIN mal /\ mal'[i] = new /\ \A j \in DOMAIN mal : j # i => mal'[j] = mal[j]
      /\ mal' \in Seq(MalRecord)
  <2>1. mal \in Seq(MalRecord)
    BY DEF IInv, LowerInv, MalOK
  <2>2. DOMAIN mal' = DOMAIN mal /\ mal'[i] = new /\ \A j \in DOMAIN mal : j # i => mal'[j] = mal[j]
    BY <1>1, <1>2, <1>3, <2>1
  <2>3. \A j \in DOMAIN mal : mal'[j] \in MalRecord
    BY <1>2, <1>5, <2>2
  <2>4. mal' = [j \in DOMAIN mal |-> mal'[j]]
    BY <1>1, <2>1, <2>2
  <2>5. PICK n \in Nat : mal' \in [1..n -> MalRecord]
    BY <1>2, <2>2, <2>3, <2>4
  <2> QED BY <2>2, <2>5, SeqDef
<1>7. \A j \in DOMAIN mal : mal'[j].dst = mal[j].dst /\ RegsOf(mal'[j]) \subseteq RegsOf(mal[j])
  BY <1>5, <1>6
<1>8. Nodes' = Nodes /\ ValueNodes' = ValueNodes /\ ParamNodes' = ParamNodes /\ (Scheduled' <=> Scheduled)
  BY <1>1, SameGraph
<1>9. GraphInv' /\ SelectInv' /\ EncodeInv' /\ RefusedOnlyUnselectable'
  BY <1>1, <1>8 DEF IInv, GraphInv, SelectInv, EncodeInv, RefusedOnlyUnselectable
<1>10. LowerInv'
  <2>1. MalOK(mal, nextReg)
    BY DEF IInv, LowerInv
  <2>2. MalOK(mal', nextReg)
    <3> SUFFICES ASSUME NEW j \in DOMAIN mal
                 PROVE  /\ mal'[j].op = "RET" <=> mal'[j].dst = MAL_INVALID_REG
                        /\ mal'[j].dst <= nextReg
                        /\ \A r \in RegsOf(mal'[j]) : r <= nextReg
      BY <1>6 DEF MalOK
    <3>1. CASE j = i
      BY <1>5, <1>6, <2>1, <3>1 DEF MalOK
    <3>2. CASE j # i
      BY <1>6, <2>1, <3>2 DEF MalOK
    <3> QED BY <3>1, <3>2
  <2>3. mal' # <<>>
    BY <1>3, <1>6
  <2> QED BY <1>1, <1>8, <2>2, <2>3 DEF IInv, LowerInv
<1>11. ASSUME Scheduled PROVE mal_verify_ssa' /\ Lowered'
  <2> SUFFICES ASSUME NEW j \in DOMAIN mal'
               PROVE  /\ RegsOf(mal'[j]) \subseteq DefinedBefore(j)' \cap (0..(nextReg' - 1))
                      /\ mal'[j].dst # MAL_INVALID_REG => mal'[j].dst \in (0..(nextReg' - 1)) \ DefinedBefore(j)'
    BY <1>1 DEF mal_verify_ssa, Lowered
  <2>1. \A h \in 1..(j - 1) : mal'[h].dst = mal[h].dst
    BY <1>2, <1>6, <1>7
  <2>2. DefinedBefore(j)' = DefinedBefore(j)
    BY <1>8, <2>1, SameDefined
  <2>3. mal_verify_ssa /\ j \in DOMAIN mal
    BY <1>6, <1>11 DEF IInv
  <2> QED BY <1>1, <1>7, <2>2, <2>3 DEF mal_verify_ssa
<1> QED BY <1>8, <1>9, <1>10, <1>11 DEF IInv

-----------------------------------------------------------------------------
(* Instruction selection.                                                  *)

Mnemonics == {p[2] : p \in Patterns}
BinMnemonics == {"add.rr", "add.ri", "sub.rr", "sub.ri", "mul.rr", "and.rr", "or.rr", "xor.rr", "shl.ri",
                 "ashr.ri", "icmp.eq", "icmp.ne", "icmp.slt", "icmp.sle", "icmp.sgt", "icmp.sge"}

LEMMA PatternFacts ==
  ASSUME NEW p \in Patterns
  PROVE  /\ p[2] \in Mnemonics
         /\ \/ p[1] = "RET" /\ p[2] = "ret" /\ p[3] = <<"reg">>
            \/ p[1] # "RET" /\ p[2] \in {"mov.rr", "neg", "not"} /\ p[3] = <<"reg">>
            \/ p[1] # "RET" /\ p[2] = "mov.ri" /\ p[3] = <<"imm">>
            \/ p[1] # "RET" /\ p[2] \in BinMnemonics /\ p[3] = <<"reg", "reg">>
            \/ p[1] # "RET" /\ p[2] \in BinMnemonics /\ p[3] = <<"reg", "imm">>
<1>1. p[2] \in Mnemonics
  BY DEF Mnemonics
<1>2. \/ p[1] = "RET" /\ p[2] = "ret" /\ p[3] = <<"reg">>
      \/ p[1] # "RET" /\ p[2] \in {"mov.rr", "neg", "not"} /\ p[3] = <<"reg">>
      \/ p[1] # "RET" /\ p[2] = "mov.ri" /\ p[3] = <<"imm">>
      \/ p[1] # "RET" /\ p[2] \in BinMnemonics /\ p[3] = <<"reg", "reg">>
      \/ p[1] # "RET" /\ p[2] \in BinMnemonics /\ p[3] = <<"reg", "imm">>
  BY DEF Patterns, BinMnemonics
<1> QED BY <1>1, <1>2

LEMMA MnemonicFacts == Mnemonics = {"ret", "mov.rr", "mov.ri", "neg", "not"} \cup BinMnemonics
BY DEF Mnemonics, Patterns, BinMnemonics

\* The kinds of one or two operands.
LEMMA KindFacts ==
  ASSUME NEW s \in Seq(Operand), NEW t, t = [j \in DOMAIN s |-> s[j].kind]
  PROVE  /\ \A a : t = <<a>> => Len(s) = 1 /\ s[1].kind = a
         /\ \A a, b : t = <<a, b>> => Len(s) = 2 /\ s[1].kind = a /\ s[2].kind = b
<1>1. DOMAIN s = 1..Len(s) /\ Len(s) \in Nat /\ DOMAIN t = 1..Len(s) /\ \A j \in 1..Len(s) : t[j] = s[j].kind
  OBVIOUS
<1>2. PICK n \in Nat : n = Len(s) /\ DOMAIN t = 1..n /\ \A j \in 1..n : t[j] = s[j].kind
  BY <1>1
<1>3. ASSUME NEW a, t = <<a>> PROVE n = 1 /\ s[1].kind = a
  <2>1. 1..n = 1..1
    <3>1. DOMAIN <<a>> = 1..1
      OBVIOUS
    <3> QED BY <1>2, <1>3, <3>1
  <2>2. n = 1
    BY <2>1
  <2> QED BY <1>2, <1>3, <2>2
<1>4. ASSUME NEW a, NEW b, t = <<a, b>> PROVE n = 2 /\ s[1].kind = a /\ s[2].kind = b
  <2>1. 1..n = 1..2
    <3>1. DOMAIN <<a, b>> = 1..2
      OBVIOUS
    <3> QED BY <1>2, <1>4, <3>1
  <2>2. n = 2
    BY <2>1
  <2> QED BY <1>2, <1>4, <2>2
<1> QED BY <1>2, <1>3, <1>4

\* An operand put before others.
LEMMA PutBefore ==
  ASSUME NEW s \in Seq(Operand), NEW o \in Operand
  PROVE  /\ <<o>> \o s \in Seq(Operand) /\ Len(<<o>> \o s) = Len(s) + 1 /\ Len(s) \in Nat
         /\ (<<o>> \o s)[1] = o /\ \A j \in 1..Len(s) : (<<o>> \o s)[j + 1] = s[j]
<1>1. <<o>> \in Seq(Operand) /\ Len(<<o>>) = 1 /\ <<o>>[1] = o
  OBVIOUS
<1>2. PICK one \in Seq(Operand) : one = <<o>> /\ Len(one) = 1 /\ one[1] = o
  BY <1>1
<1>3. /\ one \o s \in Seq(Operand) /\ Len(one \o s) = Len(s) + 1 /\ Len(s) \in Nat
      /\ (one \o s)[1] = o /\ \A j \in 1..Len(s) : (one \o s)[j + 1] = s[j]
  BY <1>2
<1> QED BY <1>2, <1>3

\* The operands a pattern selects can be encoded.
LEMMA SelectedOps ==
  ASSUME NEW p \in Patterns, NEW inst \in MalRecord, mds_pattern_matches_inst(p, inst),
         inst.op = "RET" <=> inst.dst = MAL_INVALID_REG, NEW q,
         inst.dst = MAL_INVALID_REG => q = inst.ops,
         inst.dst # MAL_INVALID_REG => q = <<Reg(inst.dst)>> \o inst.ops
  PROVE  /\ q \in Seq(Operand)
         /\ \/ p[2] = "ret" /\ Len(q) = 1 /\ q[1].kind = "reg"
            \/ p[2] \in {"mov.rr", "neg", "not"} /\ Len(q) = 2 /\ q[1].kind = "reg"
            \/ p[2] = "mov.ri" /\ Len(q) = 2 /\ q[1].kind = "reg" /\ q[2].kind = "imm"
            \/ p[2] \in BinMnemonics /\ Len(q) = 3 /\ q[1].kind = "reg" /\ q[2].kind = "reg"
         /\ \A j \in DOMAIN q : q[j].kind = "reg" =>
              q[j].n \in RegsOf(inst) \/ (q[j].n = inst.dst /\ inst.dst # MAL_INVALID_REG)
<1>1. inst.op = p[1] /\ p[3] = [j \in DOMAIN inst.ops |-> inst.ops[j].kind]
  BY DEF mds_pattern_matches_inst
<1>2. inst.ops \in Seq(Operand) /\ inst.dst \in Nat \cup {-1}
  BY DEF MalRecord
<1>3. PICK s \in Seq(Operand) : s = inst.ops
  BY <1>2
<1>4. \A j \in DOMAIN s : s[j].kind = "reg" => s[j].n \in RegsOf(inst)
  BY <1>3, RegsType
<1>5. /\ \A a : p[3] = <<a>> => Len(s) = 1 /\ s[1].kind = a
      /\ \A a, b : p[3] = <<a, b>> => Len(s) = 2 /\ s[1].kind = a /\ s[2].kind = b
  <2>1. PICK t : t = p[3] /\ t = [j \in DOMAIN s |-> s[j].kind]
    BY <1>1, <1>3
  <2>2. /\ \A a : t = <<a>> => Len(s) = 1 /\ s[1].kind = a
        /\ \A a, b : t = <<a, b>> => Len(s) = 2 /\ s[1].kind = a /\ s[2].kind = b
    BY <2>1, KindFacts
  <2> QED BY <2>1, <2>2
<1>6. CASE inst.op = "RET"
  <2>1. p[2] = "ret" /\ p[3] = <<"reg">> /\ q = s
    BY <1>1, <1>3, <1>6, PatternFacts
  <2>2. Len(s) = 1 /\ s[1].kind = "reg"
    BY <1>5, <2>1
  <2> QED BY <1>4, <2>1, <2>2
<1>7. CASE inst.op # "RET"
  <2>1. inst.dst \in Nat /\ inst.dst # MAL_INVALID_REG /\ p[1] # "RET"
    BY <1>1, <1>2, <1>7 DEF MAL_INVALID_REG
  <2>2. PICK o \in Operand : o = Reg(inst.dst) /\ o.kind = "reg" /\ o.n = inst.dst
    BY <2>1 DEF Reg, Operand
  <2>3. q = <<o>> \o s
    BY <1>3, <2>1, <2>2
  <2>4. /\ q \in Seq(Operand) /\ Len(q) = Len(s) + 1 /\ Len(s) \in Nat
        /\ q[1] = o /\ \A j \in 1..Len(s) : q[j + 1] = s[j]
    BY <2>3, PutBefore
  <2>5. ASSUME NEW j \in DOMAIN q, q[j].kind = "reg"
        PROVE  q[j].n \in RegsOf(inst) \/ (q[j].n = inst.dst /\ inst.dst # MAL_INVALID_REG)
    <3>1. CASE j = 1
      BY <2>1, <2>2, <2>4, <3>1
    <3>2. CASE j # 1
      <4>1. j - 1 \in 1..Len(s) /\ (j - 1) + 1 = j /\ DOMAIN s = 1..Len(s)
        BY <2>4, <3>2
      <4>2. q[j] = s[j - 1]
        BY <2>4, <4>1
      <4> QED BY <1>4, <2>5, <4>1, <4>2
    <3> QED BY <3>1, <3>2
  <2>6. \A n \in 1..Len(s) : n = 1 => q[2] = s[1]
    BY <2>4
  <2>7. CASE p[2] \in {"mov.rr", "neg", "not"} /\ p[3] = <<"reg">>
    BY <1>5, <2>2, <2>4, <2>5, <2>7
  <2>8. CASE p[2] = "mov.ri" /\ p[3] = <<"imm">>
    <3>1. Len(s) = 1 /\ s[1].kind = "imm"
      BY <1>5, <2>8
    <3>2. q[2] = s[1]
      BY <2>6, <3>1
    <3> QED BY <2>2, <2>4, <2>5, <2>8, <3>1, <3>2
  <2>9. CASE p[2] \in BinMnemonics /\ (p[3] = <<"reg", "reg">> \/ p[3] = <<"reg", "imm">>)
    <3>1. Len(s) = 2 /\ s[1].kind = "reg"
      BY <1>5, <2>9
    <3>2. q[2] = s[1]
      BY <2>6, <3>1
    <3> QED BY <2>2, <2>4, <2>5, <2>9, <3>1, <3>2
  <2> QED BY <2>1, <2>7, <2>8, <2>9, PatternFacts
<1> QED BY <1>6, <1>7

LEMMA SelectedFacts ==
  ASSUME NEW m \in Mnemonics, NEW q \in Seq(Operand), NEW new, new = [mnemonic |-> m, ops |-> q],
         \/ m = "ret" /\ Len(q) = 1 /\ q[1].kind = "reg"
         \/ m \in {"mov.rr", "neg", "not"} /\ Len(q) = 2 /\ q[1].kind = "reg"
         \/ m = "mov.ri" /\ Len(q) = 2 /\ q[1].kind = "reg" /\ q[2].kind = "imm"
         \/ m \in BinMnemonics /\ Len(q) = 3 /\ q[1].kind = "reg" /\ q[2].kind = "reg"
  PROVE  new \in MdsRecord /\ Encodable(new)
<1>1. new.mnemonic = m /\ new.ops = q
  OBVIOUS
<1>2. new \in MdsRecord
  BY DEF MdsRecord, Mnemonics
<1>3. \A j \in 1..(Len(q) - 1) : q[j].kind = "reg"
  <2>1. \A j \in 1..(1 - 1) : FALSE
    OBVIOUS
  <2>2. \A j \in 1..(2 - 1) : j = 1
    OBVIOUS
  <2>3. \A j \in 1..(3 - 1) : j = 1 \/ j = 2
    OBVIOUS
  <2>4. \/ Len(q) = 1
        \/ Len(q) = 2 /\ q[1].kind = "reg"
        \/ Len(q) = 3 /\ q[1].kind = "reg" /\ q[2].kind = "reg"
    OBVIOUS
  <2>5. CASE Len(q) = 1
    BY <2>1, <2>5
  <2>6. CASE Len(q) = 2 /\ q[1].kind = "reg"
    BY <2>2, <2>6
  <2>7. CASE Len(q) = 3 /\ q[1].kind = "reg" /\ q[2].kind = "reg"
    BY <2>3, <2>7
  <2> QED BY <2>4, <2>5, <2>6, <2>7
<1>4. m \in BinMnemonics => m \notin {"ret", "mov.rr", "mov.ri", "neg", "not"}
  BY DEF BinMnemonics
<1>5. Len(q) = CASE m = "ret" -> 1
                 [] m \in {"mov.rr", "mov.ri", "neg", "not"} -> 2
                 [] OTHER -> 3
  BY <1>4
<1>6. (m = "ret" => q[1].kind = "reg") /\ (m = "mov.ri" => q[2].kind = "imm")
  BY <1>4
<1>7. Encodable(new)
  BY <1>1, <1>3, <1>5, <1>6 DEF Encodable
<1> QED BY <1>2, <1>7

LEMMA SelectInstStep ==
  ASSUME IInv, SelectInst
  PROVE  IInv'
<1>1. /\ stage = "select" /\ stage' = stage /\ at <= Len(mal) /\ at' = at + 1
      /\ UNCHANGED <<options, graph, nodeRegs, nextReg, mal>>
  BY DEF SelectInst
<1>2. PICK p \in Patterns :
        /\ mds_pattern_matches_inst(p, mal[at])
        /\ mds' = Append(mds, [mnemonic |-> p[2], ops |->
                    (IF mal[at].dst = MAL_INVALID_REG THEN <<>> ELSE <<Reg(mal[at].dst)>>) \o mal[at].ops])
  BY DEF SelectInst
<1>3. GraphInv' /\ LowerInv' /\ (Scheduled => mal_verify_ssa /\ Lowered)'
  BY <1>1, MalKept
<1>4. LowerInv /\ SelectInv /\ MalOK(mal, nextReg) /\ nextReg \in Nat
  BY DEF IInv, LowerInv
<1>5. at \in DOMAIN mal /\ at \in Nat \ {0} /\ Len(mds) = at - 1
  <2>1. DOMAIN mal = 1..Len(mal) /\ Len(mal) \in Nat
    BY <1>4, MalFacts
  <2> QED BY <1>1, <1>4, <2>1 DEF SelectInv
<1>6. /\ mal[at] \in MalRecord /\ (mal[at].op = "RET" <=> mal[at].dst = MAL_INVALID_REG)
      /\ mal[at].dst <= nextReg /\ \A r \in RegsOf(mal[at]) : r <= nextReg
  BY <1>4, <1>5, MalFacts DEF MalOK
<1>7. PICK q : /\ q = (IF mal[at].dst = MAL_INVALID_REG THEN <<>> ELSE <<Reg(mal[at].dst)>>) \o mal[at].ops
               /\ mds' = Append(mds, [mnemonic |-> p[2], ops |-> q])
  BY <1>2
<1>8. PICK new : new = [mnemonic |-> p[2], ops |-> q] /\ mds' = Append(mds, new)
  BY <1>7
<1>9. new \in MdsRecord /\ Encodable(new) /\ \A r \in RegsOf(new) : r <= nextReg
  <2>1. /\ mal[at].dst = MAL_INVALID_REG => q = mal[at].ops
        /\ mal[at].dst # MAL_INVALID_REG => q = <<Reg(mal[at].dst)>> \o mal[at].ops
    <3>1. mal[at].ops \in Seq(Operand)
      BY <1>4, <1>5, MalFacts
    <3>2. <<>> \o mal[at].ops = mal[at].ops
      BY <3>1, ConcatEmptySeq
    <3>3. CASE mal[at].dst = MAL_INVALID_REG
      BY <1>7, <3>2, <3>3
    <3>4. CASE mal[at].dst # MAL_INVALID_REG
      BY <1>7, <3>4
    <3> QED BY <3>3, <3>4
  <2>2. PICK inst \in MalRecord : inst = mal[at]
    BY <1>6
  <2>3. /\ q \in Seq(Operand)
        /\ \/ p[2] = "ret" /\ Len(q) = 1 /\ q[1].kind = "reg"
           \/ p[2] \in {"mov.rr", "neg", "not"} /\ Len(q) = 2 /\ q[1].kind = "reg"
           \/ p[2] = "mov.ri" /\ Len(q) = 2 /\ q[1].kind = "reg" /\ q[2].kind = "imm"
           \/ p[2] \in BinMnemonics /\ Len(q) = 3 /\ q[1].kind = "reg" /\ q[2].kind = "reg"
        /\ \A j \in DOMAIN q : q[j].kind = "reg" =>
             q[j].n \in RegsOf(inst) \/ (q[j].n = inst.dst /\ inst.dst # MAL_INVALID_REG)
    <3>1. mds_pattern_matches_inst(p, inst) /\ (inst.op = "RET" <=> inst.dst = MAL_INVALID_REG)
      BY <1>2, <1>6, <2>2
    <3>2. /\ inst.dst = MAL_INVALID_REG => q = inst.ops
          /\ inst.dst # MAL_INVALID_REG => q = <<Reg(inst.dst)>> \o inst.ops
      BY <2>1, <2>2
    <3> QED BY <3>1, <3>2, SelectedOps
  <2>4. p[2] \in Mnemonics
    BY PatternFacts
  <2>5. new \in MdsRecord /\ Encodable(new)
    BY <1>8, <2>3, <2>4, SelectedFacts
  <2>6. \A r \in RegsOf(new) : \E j \in DOMAIN q : q[j].kind = "reg" /\ r = q[j].n
    <3>1. new.ops = q
      BY <1>8
    <3> QED BY <3>1 DEF RegsOf
  <2>7. \A r \in RegsOf(new) : r <= nextReg
    BY <1>6, <2>2, <2>3, <2>6
  <2> QED BY <2>5, <2>7
<1>10. SelectInv'
  <2>1. mds \in Seq(MdsRecord) /\ Len(mds) \in Nat /\ DOMAIN mds = 1..Len(mds)
    BY <1>4 DEF SelectInv
  <2>2. /\ mds' \in Seq(MdsRecord) /\ Len(mds') = Len(mds) + 1 /\ DOMAIN mds' = 1..(Len(mds) + 1)
        /\ mds'[Len(mds) + 1] = new /\ \A i \in 1..Len(mds) : mds'[i] = mds[i]
    BY <1>8, <1>9, <2>1
  <2>3. ASSUME NEW i \in DOMAIN mds' PROVE Encodable(mds'[i]) /\ \A r \in RegsOf(mds'[i]) : r <= nextReg
    <3>1. CASE i \in DOMAIN mds
      BY <1>4, <2>1, <2>2, <3>1 DEF SelectInv
    <3>2. CASE i = Len(mds) + 1
      BY <1>9, <2>2, <3>2
    <3> QED BY <2>1, <2>2, <3>1, <3>2
  <2>4. at' \in Nat \ {0} /\ Len(mds') = at' - 1
    BY <1>1, <1>5, <2>2
  <2>5. stage' \notin Early /\ stage' # "encode"
    BY <1>1 DEF Early
  <2> QED BY <1>1, <2>2, <2>3, <2>4, <2>5 DEF SelectInv
<1>11. EncodeInv' /\ RefusedOnlyUnselectable'
  BY <1>1 DEF EncodeInv, RefusedOnlyUnselectable
<1> QED BY <1>3, <1>10, <1>11 DEF IInv

LEMMA SelectFailsStep ==
  ASSUME IInv, SelectFails
  PROVE  IInv'
<1>1. /\ stage = "select" /\ stage' = "failed" /\ at <= Len(mal) /\ ~Selectable(mal[at])
      /\ UNCHANGED <<options, graph, nodeRegs, nextReg, mal>> /\ mds' = mds
  BY DEF SelectFails, GiveUp
<1>2. GraphInv' /\ LowerInv' /\ (Scheduled => mal_verify_ssa /\ Lowered)'
  BY <1>1, MalKept
<1>3. SelectInv' /\ EncodeInv'
  BY <1>1 DEF IInv, SelectInv, EncodeInv, Early
<1>4. RefusedOnlyUnselectable'
  <2>1. at \in DOMAIN mal
    BY <1>1, MalFacts DEF IInv, SelectInv
  <2>2. ~Selectable(mal'[at])
    BY <1>1
  <2>3. at \in DOMAIN mal'
    BY <1>1, <2>1
  <2>4. \E i \in DOMAIN mal' : ~Selectable(mal'[i])
    BY <2>2, <2>3
  <2> QED BY <2>4 DEF RefusedOnlyUnselectable, Selectable
<1> QED BY <1>2, <1>3, <1>4 DEF IInv

-----------------------------------------------------------------------------
(* Encoding.                                                               *)

\* The largest register of the program bounds its registers.
LEMMA MaxRegFacts ==
  ASSUME IInv
  PROVE  /\ MaxReg \in Nat /\ \A i \in DOMAIN mds : \A r \in RegsOf(mds[i]) : r <= MaxReg
         /\ RegMax \in Nat /\ wvm_compute_reg_count \in Nat
         /\ Fits => wvm_compute_reg_count = MaxReg + 2
<1> DEFINE S == {0} \cup UNION {RegsOf(mds[i]) : i \in DOMAIN mds}
<1>1. nextReg \in Nat /\ SelectInv /\ options \in Options
  BY DEF IInv, LowerInv, GraphInv
<1>2. \A i \in DOMAIN mds : RegsOf(mds[i]) \subseteq Nat /\ \A r \in RegsOf(mds[i]) : r <= nextReg
  <2>1. \A i \in DOMAIN mds : mds[i] \in MdsRecord
    BY <1>1 DEF SelectInv
  <2>2. \A i \in DOMAIN mds : mds[i].ops \in Seq(Operand)
    BY <2>1 DEF MdsRecord
  <2> QED BY <1>1, <2>2, RegsType DEF SelectInv
<1>3. S \in SUBSET Nat /\ S # {} /\ \A k \in S : k <= nextReg
  BY <1>1, <1>2
<1>4. Max(S) \in S /\ \A k \in S : k <= Max(S)
  <2> HIDE DEF S
  <2> QED BY <1>1, <1>3, MaxNat
<1>5. MaxReg = Max(S)
  BY DEF MaxReg
<1>6. MaxReg \in Nat /\ \A i \in DOMAIN mds : \A r \in RegsOf(mds[i]) : r <= MaxReg
  BY <1>3, <1>4, <1>5
<1>7. RegMax \in Nat
  BY <1>1, OptionsAssumption DEF RegMax
<1> QED BY <1>6, <1>7 DEF wvm_compute_reg_count, Fits

\* The verifier looks at the operands only as far as they are in range.
LEMMA AcceptedOps ==
  ASSUME NEW p, NEW a \in Int, NEW b \in Int, NEW c \in Int, NEW k \in Int,
         a < p.regCount, b < p.regCount, c < p.regCount
  PROVE  /\ VM!VerifyInstr(p, Op("RETURN", a, 0, 0, 0)) /\ VM!VerifyInstr(p, Op("LOAD_IMM", a, 0, 0, k))
         /\ \A op \in {"MOVE", "NEG", "NOT"} : VM!VerifyInstr(p, Op(op, a, b, 0, 0))
         /\ \A op \in VM!BinaryOps : VM!VerifyInstr(p, Op(op, a, b, c, 0))
         /\ k < Len(p.consts) => VM!VerifyInstr(p, Op("LOAD_CONST", a, 0, 0, k))
<1> USE DEF VM!VerifyInstr, VM!Opcodes, VM!OP_R, VM!OP_RR, VM!OP_RRR, VM!OP_R_CONST, VM!OP_R_IMM32,
            VM!BinaryOps, VM!ArithOps, VM!CompareOps, VM!UnaryOps, Op
<1>1. VM!VerifyInstr(p, Op("RETURN", a, 0, 0, 0)) /\ VM!VerifyInstr(p, Op("LOAD_IMM", a, 0, 0, k))
  OBVIOUS
<1>2. \A op \in {"MOVE", "NEG", "NOT"} : VM!VerifyInstr(p, Op(op, a, b, 0, 0))
  OBVIOUS
<1>3. \A op \in VM!BinaryOps : VM!VerifyInstr(p, Op(op, a, b, c, 0))
  OBVIOUS
<1>4. k < Len(p.consts) => VM!VerifyInstr(p, Op("LOAD_CONST", a, 0, 0, k))
  OBVIOUS
<1> QED BY <1>1, <1>2, <1>3, <1>4

\* Instructions of the machine.
LEMMA CodeType ==
  ASSUME NEW a \in Int, NEW b \in Int, NEW c \in Int, NEW k \in Int,
         NEW op \in VM!BinaryOps \cup {"RETURN", "MOVE", "NEG", "NOT", "LOAD_IMM", "LOAD_CONST"}
  PROVE  Op(op, a, b, c, k) \in CodeRecord
<1>1. op \in VM!Opcodes
  BY DEF VM!Opcodes, VM!OP_R, VM!OP_RR, VM!OP_RRR, VM!OP_R_CONST, VM!OP_R_IMM32,
         VM!BinaryOps, VM!ArithOps, VM!CompareOps, VM!UnaryOps
<1> QED BY <1>1 DEF Op, CodeRecord

\* A longer constant pool keeps what was accepted.
LEMMA VerifyKept ==
  ASSUME NEW p, NEW q, NEW i \in CodeRecord, p.regCount = q.regCount,
         Len(p.consts) \in Nat, Len(q.consts) \in Nat, Len(p.consts) <= Len(q.consts), VM!VerifyInstr(p, i)
  PROVE  VM!VerifyInstr(q, i)
<1>1. i.k \in Int
  BY DEF CodeRecord
<1> QED BY <1>1 DEF VM!VerifyInstr

LEMMA EmitBin == \A m \in BinMnemonics : WVM_EMIT_BIN(m) \in VM!BinaryOps
BY DEF BinMnemonics, WVM_EMIT_BIN, VM!BinaryOps, VM!ArithOps, VM!CompareOps

\* The register an operand is in, if the registers fit.
LEMMA OperandRegFacts ==
  ASSUME IInv, stage = "encode", NEW o \in Operand, o.kind = "reg" => o.n <= MaxReg
  PROVE  /\ OperandReg(o) \in Int /\ scratchReg \in Int
         /\ Fits => OperandReg(o) < code.regCount /\ scratchReg < code.regCount
<1>1. code.regCount \in Nat /\ code.regCount = wvm_compute_reg_count
  BY DEF IInv, EncodeInv
<1>2. /\ MaxReg \in Nat /\ RegMax \in Nat
      /\ Fits => wvm_compute_reg_count = MaxReg + 2
  BY MaxRegFacts
<1>3. scratchReg \in Int /\ scratchReg < code.regCount
  BY <1>1 DEF scratchReg
<1>4. CASE o.kind = "reg"
  <2>1. PICK n \in Nat : n = o.n
    BY <1>4 DEF Operand
  <2>2. OperandReg(o) = n % (RegMax + 1)
    BY <1>4, <2>1 DEF OperandReg, ToReg
  <2>3. n % (RegMax + 1) \in Int
    BY <1>2
  <2>4. ASSUME Fits PROVE n % (RegMax + 1) < code.regCount
    <3>1. n <= MaxReg /\ MaxReg < RegMax - 1
      BY <1>4, <2>1, <2>4 DEF Fits
    <3>2. n < RegMax + 1
      BY <1>2, <3>1
    <3>3. n % (RegMax + 1) = n
      BY <1>2, <3>2
    <3>4. n < MaxReg + 2
      BY <1>2, <3>1
    <3> QED BY <1>1, <1>2, <2>4, <3>3, <3>4
  <2> QED BY <1>3, <2>2, <2>3, <2>4
<1>5. CASE o.kind # "reg"
  <2>1. OperandReg(o) = scratchReg
    BY <1>5 DEF OperandReg
  <2> QED BY <1>3, <2>1
<1> QED BY <1>4, <1>5

LEMMA SelectDoneStep ==
  ASSUME IInv, SelectDone
  PROVE  IInv'
<1>1. /\ stage = "select" /\ stage' = "encode" /\ at > Len(mal) /\ at' = 1
      /\ code' = [VM!NoProto EXCEPT !.regCount = wvm_compute_reg_count]
      /\ UNCHANGED <<options, graph, nodeRegs, nextReg, mal>> /\ mds' = mds
  BY DEF SelectDone
<1>2. GraphInv' /\ LowerInv' /\ (Scheduled => mal_verify_ssa /\ Lowered)'
  BY <1>1, MalKept
<1>3. SelectInv'
  <2>1. Len(mal) \in Nat /\ mal # <<>> /\ mal \in Seq(MalRecord)
    BY <1>1, MalFacts DEF IInv, LowerInv, MalOK
  <2>2. Len(mal) >= 1
    BY <2>1
  <2>3. mds # <<>>
    <3>1. Len(mds) = at - 1 /\ at \in Nat
      BY <1>1 DEF IInv, SelectInv
    <3>2. Len(mds) # 0
      BY <1>1, <2>1, <2>2, <3>1
    <3> QED BY <3>2
  <2> QED BY <1>1, <2>3 DEF IInv, SelectInv, Early
<1>4. EncodeInv'
  <2>1. wvm_compute_reg_count' = wvm_compute_reg_count /\ wvm_compute_reg_count \in Nat
    BY <1>1, MaxRegFacts DEF wvm_compute_reg_count, MaxReg, RegMax
  <2>2. code' = [regCount |-> wvm_compute_reg_count, consts |-> <<>>, instrs |-> <<>>]
    BY <1>1 DEF VM!NoProto
  <2>3. \A S : <<>> \in Seq(S)
    OBVIOUS
  <2>4. code' \in [regCount : Nat, consts : Seq(PoolValue), instrs : Seq(CodeRecord)]
    BY <2>1, <2>2, <2>3
  <2>5. code'.regCount = wvm_compute_reg_count' /\ code'.instrs = <<>>
    BY <2>1, <2>2
  <2>6. code'.instrs \in Seq(Accepted(code)')
    BY <2>3, <2>5
  <2> QED BY <1>1, <2>4, <2>5, <2>6 DEF EncodeInv
<1>5. RefusedOnlyUnselectable'
  BY <1>1 DEF RefusedOnlyUnselectable
<1> QED BY <1>2, <1>3, <1>4, <1>5 DEF IInv

\* The instruction a mnemonic stands for is accepted; only mov.ri may need none.
LEMMA EmittedFacts ==
  ASSUME IInv, stage = "encode", NEW inst \in MdsRecord, Encodable(inst), \A r \in RegsOf(inst) : r <= MaxReg
  PROVE  \/ Emitted(inst) = <<>> /\ inst.mnemonic = "mov.ri"
         \/ \E e \in CodeRecord : Emitted(inst) = <<e>> /\ (Fits => VM!VerifyInstr(code, e))
<1> DEFINE m == inst.mnemonic
           Good(e) == e \in CodeRecord /\ (Fits => VM!VerifyInstr(code, e))
<1>1. inst.ops \in Seq(Operand) /\ m \in Mnemonics
  BY DEF MdsRecord, Mnemonics
<1>2. \A j \in 1..Len(inst.ops) : /\ OperandReg(inst.ops[j]) \in Int
                                  /\ Fits => OperandReg(inst.ops[j]) < code.regCount
  <2> TAKE j \in 1..Len(inst.ops)
  <2>1. inst.ops[j] \in Operand /\ j \in DOMAIN inst.ops
    BY <1>1
  <2>2. inst.ops[j].kind = "reg" => inst.ops[j].n \in RegsOf(inst)
    BY <2>1 DEF RegsOf
  <2>3. inst.ops[j].kind = "reg" => inst.ops[j].n <= MaxReg
    BY <2>2
  <2> QED BY <2>1, <2>3, OperandRegFacts
<1>3. Len(inst.ops) \in Nat
  BY <1>1
<1>4. Len(inst.ops) >= 1
  BY DEF Encodable
<1>5. PICK a \in Int : a = OperandReg(inst.ops[1]) /\ (Fits => a < code.regCount)
  BY <1>2, <1>3, <1>4
<1>6. CASE m = "ret"
  <2>1. Emitted(inst) = <<Op("RETURN", a, 0, 0, 0)>>
    BY <1>5, <1>6 DEF Emitted
  <2>2. Good(Op("RETURN", a, 0, 0, 0))
    <3>1. Op("RETURN", a, 0, 0, 0) \in CodeRecord
      BY CodeType
    <3>2. Fits => VM!VerifyInstr(code, Op("RETURN", a, 0, 0, 0))
      BY <1>5, AcceptedOps
    <3> QED BY <3>1, <3>2
  <2> QED BY <2>1, <2>2
<1>7. CASE m \in {"mov.rr", "mov.ri", "neg", "not"}
  <2>1. Len(inst.ops) = 2
    BY <1>7 DEF Encodable
  <2>2. PICK b \in Int : b = OperandReg(inst.ops[2]) /\ (Fits => b < code.regCount)
    BY <1>2, <2>1
  <2>3. \A op \in {"MOVE", "NEG", "NOT"} : Good(Op(op, a, b, 0, 0))
    <3> TAKE op \in {"MOVE", "NEG", "NOT"}
    <3>1. Op(op, a, b, 0, 0) \in CodeRecord
      BY CodeType
    <3>2. Fits => VM!VerifyInstr(code, Op(op, a, b, 0, 0))
      BY <1>5, <2>2, AcceptedOps
    <3> QED BY <3>1, <3>2
  <2>4. \/ Emitted(inst) = <<>> /\ m = "mov.ri"
        \/ \E op \in {"MOVE", "NEG", "NOT"} : Emitted(inst) = <<Op(op, a, b, 0, 0)>>
    BY <1>5, <1>7, <2>2 DEF Emitted
  <2> QED BY <2>3, <2>4
<1>8. CASE m \in BinMnemonics
  <2>1. m \notin {"ret", "mov.rr", "mov.ri", "neg", "not"}
    BY <1>8 DEF BinMnemonics
  <2>2. Len(inst.ops) = 3
    BY <2>1 DEF Encodable
  <2>3. PICK b \in Int, c \in Int : /\ b = OperandReg(inst.ops[2]) /\ c = OperandReg(inst.ops[3])
                                    /\ Fits => b < code.regCount /\ c < code.regCount
    BY <1>2, <2>2
  <2>4. PICK op \in VM!BinaryOps : op = WVM_EMIT_BIN(m)
    BY <1>8, EmitBin
  <2>5. Emitted(inst) = <<Op(op, a, b, c, 0)>>
    BY <1>5, <2>1, <2>3, <2>4 DEF Emitted
  <2>6. Op(op, a, b, c, 0) \in CodeRecord
    BY CodeType
  <2>7. Fits => VM!VerifyInstr(code, Op(op, a, b, c, 0))
    BY <1>5, <2>3, AcceptedOps
  <2> QED BY <2>5, <2>6, <2>7
<1> QED BY <1>1, <1>6, <1>7, <1>8, MnemonicFacts

\* The instruction that loads an immediate is accepted once its constant is in the pool.
LEMMA OperandCodeFacts ==
  ASSUME IInv, stage = "encode", NEW o \in Operand, o.kind = "reg" => o.n <= MaxReg,
         NEW q, q.regCount = code.regCount, q.consts = code.consts \o OperandConsts(o)
  PROVE  /\ OperandConsts(o) \in Seq(PoolValue)
         /\ \/ OperandCode(o) = <<>> /\ o.kind = "reg"
            \/ \E e \in CodeRecord : OperandCode(o) = <<e>> /\ (Fits => VM!VerifyInstr(q, e))
<1>1. code.consts \in Seq(PoolValue)
  BY DEF IInv, EncodeInv
<1>2. PICK l \in Nat : l = Len(code.consts)
  BY <1>1
<1>3. PICK s \in Int : s = scratchReg /\ (Fits => s < q.regCount)
  BY OperandRegFacts
<1>4. CASE o.kind = "reg"
  BY <1>4 DEF OperandConsts, OperandCode
<1>5. CASE o.kind # "reg" /\ o.n \in Word
  <2>1. PICK k \in Int : k = o.n /\ o.kind = "imm"
    BY <1>5 DEF Operand
  <2>2. OperandConsts(o) = <<>> /\ OperandCode(o) = <<Op("LOAD_IMM", s, 0, 0, k)>>
    BY <1>3, <1>5, <2>1 DEF OperandConsts, OperandCode
  <2>3. Op("LOAD_IMM", s, 0, 0, k) \in CodeRecord
    BY CodeType
  <2>4. Fits => VM!VerifyInstr(q, Op("LOAD_IMM", s, 0, 0, k))
    BY <1>3, AcceptedOps
  <2> QED BY <2>2, <2>3, <2>4
<1>6. CASE o.kind # "reg" /\ o.n \notin Word
  <2>1. o.kind = "imm" /\ o.n \in Int
    BY <1>6 DEF Operand
  <2>2. OperandConsts(o) = <<VM!FromInt(Narrow(o.n))>> /\ OperandCode(o) = <<Op("LOAD_CONST", s, 0, 0, l)>>
    BY <1>2, <1>3, <1>6, <2>1 DEF OperandConsts, OperandCode
  <2>3. PICK v \in PoolValue : OperandConsts(o) = <<v>>
    BY <2>1, <2>2 DEF PoolValue
  <2>4. Len(q.consts) = l + 1
    BY <1>1, <1>2, <2>3
  <2>5. Op("LOAD_CONST", s, 0, 0, l) \in CodeRecord
    BY CodeType
  <2>6. l < Len(q.consts)
    BY <2>4
  <2>7. Fits => VM!VerifyInstr(q, Op("LOAD_CONST", s, 0, 0, l))
    <3> SUFFICES ASSUME Fits PROVE VM!VerifyInstr(q, Op("LOAD_CONST", s, 0, 0, l))
      OBVIOUS
    <3>1. s < q.regCount /\ l \in Int
      BY <1>3
    <3>2. l < Len(q.consts) => VM!VerifyInstr(q, Op("LOAD_CONST", s, 0, 0, l))
      BY <3>1, AcceptedOps
    <3> QED BY <2>6, <3>2
  <2>8. OperandConsts(o) \in Seq(PoolValue)
    BY <2>3
  <2> QED BY <2>2, <2>5, <2>7, <2>8
<1> QED BY <1>4, <1>5, <1>6

\* Both parts of an encoded instruction are accepted by the prototype that has its constant.
LEMMA EncodedFacts ==
  ASSUME IInv, stage = "encode", NEW inst \in MdsRecord, Encodable(inst), \A r \in RegsOf(inst) : r <= MaxReg,
         NEW o, o = inst.ops[Len(inst.ops)],
         NEW q, q.regCount = code.regCount, q.consts = code.consts \o OperandConsts(o),
         NEW S, S = Accepted(q)
  PROVE  /\ OperandConsts(o) \in Seq(PoolValue)
         /\ code.instrs \o OperandCode(o) \o Emitted(inst) \in Seq(S)
         /\ code.instrs \o OperandCode(o) \o Emitted(inst) # <<>>
<1>1. inst.ops \in Seq(Operand)
  BY DEF MdsRecord
<1>2. Len(inst.ops) \in Nat /\ Len(inst.ops) >= 1
  BY <1>1 DEF Encodable
<1>3. o \in Operand /\ Len(inst.ops) \in DOMAIN inst.ops
  BY <1>1, <1>2
<1>4. o.kind = "reg" => o.n <= MaxReg
  BY <1>3 DEF RegsOf
<1>5. /\ OperandConsts(o) \in Seq(PoolValue)
      /\ \/ OperandCode(o) = <<>> /\ o.kind = "reg"
         \/ \E e \in CodeRecord : OperandCode(o) = <<e>> /\ (Fits => VM!VerifyInstr(q, e))
  BY <1>3, <1>4, OperandCodeFacts
<1>6. code.consts \in Seq(PoolValue) /\ code.instrs \in Seq(Accepted(code))
  BY DEF IInv, EncodeInv
<1>7. Len(code.consts) \in Nat /\ Len(q.consts) \in Nat /\ Len(code.consts) <= Len(q.consts)
  <2>1. PICK c \in Seq(PoolValue), d \in Seq(PoolValue) : c = code.consts /\ d = OperandConsts(o)
    BY <1>5, <1>6
  <2>2. Len(c) \in Nat /\ Len(c \o d) = Len(c) + Len(d) /\ Len(d) \in Nat
    OBVIOUS
  <2>3. q.consts = c \o d
    BY <2>1
  <2>4. Len(q.consts) = Len(c) + Len(d) /\ Len(code.consts) = Len(c)
    BY <2>1, <2>2, <2>3
  <2>5. PICK l \in Nat, k \in Nat : l = Len(c) /\ k = Len(d)
    BY <2>2
  <2> QED BY <2>4, <2>5
<1>8. \A e \in CodeRecord : VM!VerifyInstr(code, e) => VM!VerifyInstr(q, e)
  BY <1>7, VerifyKept
<1>9. Accepted(code) \subseteq S
  BY <1>8 DEF Accepted
<1>10. code.instrs \in Seq(S)
  BY <1>6, <1>9
<1>11. OperandCode(o) \in Seq(S) /\ (o.kind = "imm" => OperandCode(o) # <<>>)
  <2>1. CASE OperandCode(o) = <<>> /\ o.kind = "reg"
    <3>1. <<>> \in Seq(S)
      OBVIOUS
    <3> QED BY <2>1, <3>1
  <2>2. ASSUME NEW e \in CodeRecord, OperandCode(o) = <<e>>, Fits => VM!VerifyInstr(q, e)
        PROVE  OperandCode(o) \in Seq(S) /\ OperandCode(o) # <<>>
    <3>1. e \in S
      BY <2>2 DEF Accepted
    <3>2. <<e>> \in Seq(S) /\ <<e>> # <<>>
      BY <3>1
    <3> QED BY <2>2, <3>2
  <2> QED BY <1>5, <2>1, <2>2
<1>12. Emitted(inst) \in Seq(S) /\ (inst.mnemonic # "mov.ri" => Emitted(inst) # <<>>)
  <2>1. \/ Emitted(inst) = <<>> /\ inst.mnemonic = "mov.ri"
        \/ \E e \in CodeRecord : Emitted(inst) = <<e>> /\ (Fits => VM!VerifyInstr(code, e))
    BY EmittedFacts
  <2>2. CASE Emitted(inst) = <<>> /\ inst.mnemonic = "mov.ri"
    <3>1. <<>> \in Seq(S)
      OBVIOUS
    <3> QED BY <2>2, <3>1
  <2>3. ASSUME NEW e \in CodeRecord, Emitted(inst) = <<e>>, Fits => VM!VerifyInstr(code, e)
        PROVE  Emitted(inst) \in Seq(S) /\ Emitted(inst) # <<>>
    <3>1. e \in S
      BY <1>8, <2>3 DEF Accepted
    <3>2. <<e>> \in Seq(S) /\ <<e>> # <<>>
      BY <3>1
    <3> QED BY <2>3, <3>2
  <2> QED BY <2>1, <2>2, <2>3
<1>13. inst.mnemonic = "mov.ri" => o.kind = "imm"
  BY DEF Encodable
<1>14. PICK x \in Seq(S), y \in Seq(S), z \in Seq(S) :
         x = code.instrs /\ y = OperandCode(o) /\ z = Emitted(inst) /\ (y # <<>> \/ z # <<>>)
  BY <1>10, <1>11, <1>12, <1>13
<1>15. x \o y \o z \in Seq(S) /\ x \o y \o z # <<>>
  <2>1. x \o y \o z \in Seq(S)
    OBVIOUS
  <2>2. Len(x \o y \o z) = Len(x) + Len(y) + Len(z) /\ Len(y) + Len(z) > 0
    BY <1>14
  <2>3. Len(x \o y \o z) # 0
    BY <2>2
  <2> QED BY <2>1, <2>3
<1> QED BY <1>5, <1>14, <1>15

LEMMA EncodeInstStep ==
  ASSUME IInv, EncodeInst
  PROVE  IInv'
<1> DEFINE inst == mds[at]
           last == inst.ops[Len(inst.ops)]
<1>1. /\ stage = "encode" /\ stage' = stage /\ at <= Len(mds) /\ at' = at + 1
      /\ code' = [code EXCEPT !.consts = @ \o OperandConsts(last),
                              !.instrs = @ \o OperandCode(last) \o Emitted(inst)]
      /\ UNCHANGED <<options, graph, nodeRegs, nextReg, mal>> /\ mds' = mds
  BY DEF EncodeInst
<1>2. GraphInv' /\ LowerInv' /\ (Scheduled => mal_verify_ssa /\ Lowered)'
  BY <1>1, MalKept
<1>3. /\ code \in [regCount : Nat, consts : Seq(PoolValue), instrs : Seq(CodeRecord)]
      /\ code.regCount = wvm_compute_reg_count
      /\ at \in Nat \ {0} /\ mds \in Seq(MdsRecord) /\ mds # <<>>
  BY <1>1 DEF IInv, EncodeInv, SelectInv
<1>4. SelectInv'
  BY <1>1, <1>3 DEF IInv, SelectInv, Early
<1>5. EncodeInv'
  <2>1. inst \in MdsRecord /\ at \in DOMAIN mds
    BY <1>1, <1>3
  <2>2. Encodable(inst)
    BY <2>1 DEF IInv, SelectInv
  <2>3. \A r \in RegsOf(inst) : r <= MaxReg
    BY <2>1, MaxRegFacts
  <2>4. PICK o : o = last
    OBVIOUS
  <2>5. PICK q : q = [code EXCEPT !.consts = @ \o OperandConsts(o),
                                  !.instrs = @ \o OperandCode(o) \o Emitted(inst)]
    OBVIOUS
  <2>6. code' = q
    BY <1>1, <2>4, <2>5
  <2>7. q = [regCount |-> code.regCount, consts |-> code.consts \o OperandConsts(o),
             instrs |-> code.instrs \o OperandCode(o) \o Emitted(inst)]
    BY <1>3, <2>5
  <2>8. /\ q.regCount = code.regCount /\ q.consts = code.consts \o OperandConsts(o)
        /\ q.instrs = code.instrs \o OperandCode(o) \o Emitted(inst)
    BY <2>7
  <2>9. PICK S : S = Accepted(q)
    OBVIOUS
  <2>10. /\ OperandConsts(o) \in Seq(PoolValue)
         /\ code.instrs \o OperandCode(o) \o Emitted(inst) \in Seq(S)
         /\ code.instrs \o OperandCode(o) \o Emitted(inst) # <<>>
    BY <1>1, <2>1, <2>2, <2>3, <2>4, <2>8, <2>9, EncodedFacts
  <2>11. MaxReg' = MaxReg /\ RegMax' = RegMax
    BY <1>1 DEF MaxReg, RegMax
  <2>12. wvm_compute_reg_count' = wvm_compute_reg_count /\ (Fits' <=> Fits)
    BY <2>11 DEF wvm_compute_reg_count, Fits
  <2>13. Accepted(code)' = S
    BY <2>6, <2>9, <2>12 DEF Accepted
  <2>14. q.instrs \in Seq(S) /\ q.instrs # <<>>
    BY <2>8, <2>10
  <2>15. S \subseteq CodeRecord
    BY <2>9 DEF Accepted
  <2>16. q.instrs \in Seq(CodeRecord)
    BY <2>14, <2>15
  <2>17. q.consts \in Seq(PoolValue)
    BY <1>3, <2>8, <2>10
  <2>18. q \in [regCount : Nat, consts : Seq(PoolValue), instrs : Seq(CodeRecord)]
    BY <1>3, <2>7, <2>8, <2>16, <2>17
  <2>19. q.regCount = wvm_compute_reg_count'
    BY <1>3, <2>8, <2>12
  <2> QED BY <2>6, <2>13, <2>14, <2>18, <2>19 DEF EncodeInv
<1>6. RefusedOnlyUnselectable'
  BY <1>1 DEF RefusedOnlyUnselectable
<1> QED BY <1>2, <1>4, <1>5, <1>6 DEF IInv

\* The verifier accepts the finished prototype.
LEMMA EncodeDoneStep ==
  ASSUME IInv, EncodeDone
  PROVE  IInv'
<1>1. /\ stage = "encode" /\ at > Len(mds)
      /\ stage' = IF options.verifyIR /\ ~VM!wvmVerifyPrototype(code) THEN "failed" ELSE "load"
      /\ UNCHANGED <<options, graph, nodeRegs, nextReg, mal>> /\ mds' = mds
  BY DEF EncodeDone
<1>2. stage' \in {"failed", "load"}
  BY <1>1
<1>3. GraphInv' /\ LowerInv' /\ (Scheduled => mal_verify_ssa /\ Lowered)'
  BY <1>1, <1>2, MalKept
<1>4. SelectInv' /\ EncodeInv'
  BY <1>1, <1>2 DEF IInv, SelectInv, EncodeInv, Early
<1>5. Fits => VM!wvmVerifyPrototype(code)
  <2>1. at \in Nat /\ mds \in Seq(MdsRecord) /\ mds # <<>> /\ code.instrs \in Seq(Accepted(code))
        /\ (at > 1 => code.instrs # <<>>)
    BY <1>1 DEF IInv, SelectInv, EncodeInv
  <2>2. Len(mds) \in Nat /\ Len(mds) >= 1
    BY <2>1
  <2>3. code.instrs # <<>>
    BY <1>1, <2>1, <2>2
  <2>4. \A i \in DOMAIN code.instrs : code.instrs[i] \in Accepted(code)
    BY <2>1
  <2> QED BY <2>3, <2>4 DEF Accepted, VM!wvmVerifyPrototype
<1>6. Fits' <=> Fits
  BY <1>1 DEF Fits, MaxReg, RegMax
<1>7. Fits' => stage' = "load"
  BY <1>1, <1>5, <1>6
<1>8. RefusedOnlyUnselectable'
  BY <1>7 DEF RefusedOnlyUnselectable
<1> QED BY <1>3, <1>4, <1>8 DEF IInv

-----------------------------------------------------------------------------
(* Execution, and the theorems.                                            *)

LEMMA RunSteps ==
  ASSUME IInv, Execute \/ Run \/ (\E v \in Args : LoadArg(v))
  PROVE  IInv'
<1>1. /\ stage \in {"load", "run"} /\ stage' \in {"load", "run", "done"}
      /\ UNCHANGED <<options, graph, nodeRegs, nextReg, mal>> /\ mds' = mds
  BY DEF Execute, Run, LoadArg
<1>2. GraphInv' /\ LowerInv' /\ (Scheduled => mal_verify_ssa /\ Lowered)'
  BY <1>1, MalKept
<1>3. SelectInv' /\ EncodeInv' /\ RefusedOnlyUnselectable'
  BY <1>1 DEF IInv, SelectInv, EncodeInv, Early, RefusedOnlyUnselectable
<1> QED BY <1>2, <1>3 DEF IInv

LEMMA NextIInv == IInv /\ [Next]_vars => IInv'
<1>1. ASSUME IInv, UNCHANGED vars PROVE IInv'
  <2>1. UNCHANGED <<options, stage, graph, at, nodeRegs, nextReg, mal, mds, code>>
    BY <1>1 DEF vars, compiler
  <2>2. Nodes' = Nodes /\ ValueNodes' = ValueNodes /\ ParamNodes' = ParamNodes /\ (Scheduled' <=> Scheduled)
    BY <2>1, SameGraph
  <2>3. GraphInv' /\ LowerInv' /\ SelectInv'
    BY <1>1, <2>1, <2>2 DEF IInv, GraphInv, LowerInv, SelectInv
  <2>4. (\A i : DefinedBefore(i)' = DefinedBefore(i)) /\ (Fits' <=> Fits)
        /\ wvm_compute_reg_count' = wvm_compute_reg_count
    BY <2>1, <2>2 DEF DefinedBefore, Fits, MaxReg, RegMax, wvm_compute_reg_count
  <2>5. EncodeInv'
    BY <1>1, <2>1, <2>4 DEF IInv, EncodeInv, Accepted
  <2>6. (mal_verify_ssa' <=> mal_verify_ssa) /\ (Lowered' <=> Lowered)
    BY <2>1, <2>2, <2>4 DEF mal_verify_ssa, Lowered, Defined
  <2>7. RefusedOnlyUnselectable'
    BY <1>1, <2>1, <2>2, <2>4 DEF IInv, RefusedOnlyUnselectable
  <2> QED BY <1>1, <2>2, <2>3, <2>5, <2>6, <2>7 DEF IInv
<1>2. ASSUME IInv, Compile PROVE IInv'
  BY <1>2, LowerNothingStep, LowerParamStep, LowerReturnStep, LowerOperatorStep, VerifyStep, PeepholeStep,
     PeepholesDoneStep, SelectInstStep, SelectFailsStep, SelectDoneStep, EncodeInstStep, EncodeDoneStep,
     RunSteps DEF Compile
<1> QED BY <1>1, <1>2, BuildStep DEF Next

LEMMA InvIInv == Spec => []IInv
BY InitIInv, NextIInv, PTL DEF Spec

\* For every graph built in creation order the MAL function is in SSA form after
\* every node malLowerFromWIL lowers and every rewrite of
\* malApplyPeepholeToFixpoint, so that neither call of mal_verify_ssa refuses it.
THEOREM SSAKept == Spec => []AlwaysSSA
<1>1. IInv => AlwaysSSA
  BY DEF IInv, AlwaysSSA
<1> QED BY <1>1, InvIInv, PTL

\* For every graph built in creation order whose registers leave a number for the
\* scratch register, whatever the options, a compilation is given up only by
\* mdsLowerFromMAL, for want of a pattern: mal_verify_ssa and wvmVerifyPrototype
\* accept all that the stages before them produce.
THEOREM OnlyUnselectableRefused == Spec => []RefusedOnlyUnselectable
<1>1. IInv => RefusedOnlyUnselectable
  BY DEF IInv
<1> QED BY <1>1, InvIInv, PTL
=============================================================================
