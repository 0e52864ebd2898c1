----------------------------- MODULE MeaningProofs -----------------------------
(***************************************************************************)
(* Proof that the compiled program computes what the graph means, for      *)
(* every graph without XOR, every set of options, every width of the words *)
(* and of the register numbers, and all arguments.                         *)
(*                                                                         *)
(* A valuation w of the registers ties the stages together.  For every way *)
(* v to give the nodes of the graph their values there is a w in which     *)
(* every MAL instruction holds as an equation; lowering extends w, the     *)
(* peepholes keep the equations, and the machine computes w, register by   *)
(* register.                                                               *)
(***************************************************************************)
EXTENDS PipelineProofs

\* The target has OR for XOR, and a register is needed for every parameter.
Supported ==
  \A o \in Options : "XOR" \notin o.scope.kinds /\ o.scope.params \in 0..o.scope.regMax

SingleOps == {"RET", "COPY"} \cup UnaryKinds
ParamTotal == Cardinality(ParamNodes)
Ordered == Scheduled /\ ParamsInOrder

-----------------------------------------------------------------------------
(* The invariant.                                                          *)

\* Operators have their operands, parameters different indices, and nothing
\* follows the return node.
ShapeInv ==
  /\ \A n \in Nodes : graph[n].kind \in OperatorKinds => graph[n].kind \in Kinds
  /\ \A n \in Nodes : graph[n].kind = "CONST_INT" => graph[n].k \in Consts
  /\ \A n \in Nodes : graph[n].kind \in OperatorKinds =>
       Len(graph[n].ins) = IF graph[n].kind \in UnaryKinds THEN 1 ELSE 2
  /\ \A n \in ParamNodes : graph[n].k \in 0..(Params - 1)
  /\ \A m, n \in ParamNodes : graph[m].k = graph[n].k => m = n
  /\ \A n \in Nodes : graph[n].kind = "RETURN" => stage # "build" /\ n = Len(graph)
  /\ stage # "build" => \A i \in 0..(ParamTotal - 1) : \E n \in ParamNodes : graph[n].k = i

\* The instructions write the registers in order, and the last one returns.
Numbered(m) ==
  \A i \in DOMAIN m : /\ m[i].op # "RET" => m[i].dst = ParamTotal + (i - 1)
                      /\ Len(m[i].ops) = IF m[i].op \in SingleOps THEN 1 ELSE 2
                      /\ m[i].op # "XOR"

NumberInv ==
  /\ Numbered(mal)
  /\ stage = "lower" => nextReg = ParamTotal + Len(mal) /\ \A i \in DOMAIN mal : mal[i].op # "RET"
  /\ stage \notin {"build", "lower"} => \A i \in DOMAIN mal : mal[i].op = "RET" <=> i = Len(mal)

\* Values, and the values of the nodes of a graph.
WordValues == {VM!FromInt(x) : x \in Word}
Plain == WordValues \cup {VM!True, VM!False}

NodeHolds(n, v) ==
  LET x == v[graph[n].ins[1]]
      y == v[graph[n].ins[2]]
  IN /\ graph[n].kind = "CONST_INT" => v[n] = VM!FromInt(Narrow(graph[n].k))
     /\ graph[n].kind \in UnaryKinds =>
          x \in WordValues /\ v[n] = VM!FromInt(UnaryInt(graph[n].kind, x.n))
     /\ graph[n].kind \in BinaryKinds =>
          x \in WordValues /\ y \in WordValues /\ v[n] = VM!wvm_exec_binary_int(graph[n].kind, x.n, y.n)

GoodValues == {v \in [ValueNodes -> Plain] : \A n \in ValueNodes : NodeHolds(n, v)}

\* What an instruction says of the registers.
Arg(o, w) == IF o.kind = "imm" THEN VM!FromInt(Narrow(o.n)) ELSE w[o.n]

MachineOp(op) ==
  CASE op = "SDIV" -> "DIV" [] op = "SREM" -> "MOD" [] op = "ASHR" -> "SHR" [] OTHER -> op

Holds(inst, w, ret) ==
  LET x == Arg(inst.ops[1], w)
      y == Arg(inst.ops[2], w)
  IN /\ inst.op = "RET" => x = ret
     /\ inst.op = "COPY" => w[inst.dst] = x
     /\ inst.op \in UnaryKinds => x \in WordValues /\ w[inst.dst] = VM!FromInt(UnaryInt(inst.op, x.n))
     /\ inst.op \notin SingleOps =>
          /\ x \in WordValues /\ y \in WordValues
          /\ w[inst.dst] = VM!wvm_exec_binary_int(MachineOp(inst.op), x.n, y.n)

Returned == graph[Len(graph)].ins[2]

Follows(m, w, v) ==
  /\ \A n \in ParamNodes : w[graph[n].k] = v[n]
  /\ \A i \in DOMAIN m : Holds(m[i], w, v[Returned])

Tracks(regs, limit, w, v) ==
  \A n \in ValueNodes : n < limit /\ graph[n].kind # "CONST_INT" => w[regs[n]] = v[n]

MeaningInv ==
  stage # "build" /\ Ordered =>
    \A v \in GoodValues : \E w \in [Nat -> Plain] :
      Follows(mal, w, v) /\ (stage = "lower" => Tracks(nodeRegs, at, w, v))

\* The selected instructions are those of the MAL function.
Chosen(i) ==
  \E p \in Patterns :
    /\ mds_pattern_matches_inst(p, mal[i])
    /\ mds[i] = [mnemonic |-> p[2], ops |->
                   (IF mal[i].dst = MAL_INVALID_REG THEN <<>> ELSE <<Reg(mal[i].dst)>>) \o mal[i].ops]

SelectedInv ==
  /\ \A i \in DOMAIN mds : i \in DOMAIN mal /\ Chosen(i)
  /\ stage \in {"encode", "load", "run"} => Len(mds) = Len(mal)

\* What c has between a and b for an instruction: its immediate is loaded,
\* then it is done, unless the load was all there is to do.
LastOf(inst) == inst.ops[Len(inst.ops)]
Source(c, o) == IF o.kind = "reg" THEN ToReg(o.n) ELSE c.regCount - 1

Body(c, inst) ==
  CASE inst.op = "RET" -> Op("RETURN", Source(c, inst.ops[1]), 0, 0, 0)
    [] inst.op = "COPY" -> Op("MOVE", ToReg(inst.dst), Source(c, inst.ops[1]), 0, 0)
    [] inst.op \in UnaryKinds -> Op(inst.op, ToReg(inst.dst), Source(c, inst.ops[1]), 0, 0)
    [] OTHER -> Op(MachineOp(inst.op), ToReg(inst.dst), Source(c, inst.ops[1]), Source(c, inst.ops[2]), 0)

Loads(c, a, o) ==
  \/ c.instrs[a] = Op("LOAD_IMM", c.regCount - 1, 0, 0, Narrow(o.n))
  \/ \E k \in 0..(Len(c.consts) - 1) :
       c.instrs[a] = Op("LOAD_CONST", c.regCount - 1, 0, 0, k) /\ c.consts[k + 1] = VM!FromInt(Narrow(o.n))

BodyAt(inst, a) == IF LastOf(inst).kind = "imm" THEN a + 1 ELSE a

Chunk(c, inst, a, b) ==
  /\ 1 <= a /\ b <= Len(c.instrs) + 1
  /\ LastOf(inst).kind = "imm" => a <= Len(c.instrs) /\ Loads(c, a, LastOf(inst))
  /\ \/ b = BodyAt(inst, a) + 1 /\ c.instrs[BodyAt(inst, a)] = Body(c, inst)
     \/ /\ b = BodyAt(inst, a) /\ inst.op = "COPY" /\ LastOf(inst).kind = "imm"
        /\ ToReg(inst.dst) = c.regCount - 1

\* pos says where the code of every instruction begins.
Layout(pos) ==
  /\ pos \in [1..at -> Nat] /\ pos[1] = 1 /\ pos[at] = Len(code.instrs) + 1
  /\ \A i \in 1..(at - 1) : Chunk(code, mal[i], pos[i], pos[i + 1])

LayoutInv ==
  stage \in {"encode", "load", "run"} =>
    /\ at \in 1..(Len(mds) + 1) /\ (stage # "encode" => at = Len(mds) + 1)
    /\ code.regCount = wvm_compute_reg_count
    /\ code.consts \in Seq(PoolValue) /\ code.instrs \in Seq(CodeRecord)
    /\ \E pos : Layout(pos)

\* The machine before the program runs.
FrameOK == stackCap \in Nat /\ DOMAIN stack = 0..(stackCap - 1)

Waiting ==
  /\ FrameOK /\ status = "idle" /\ result = 1
  /\ args \in Seq(Word) /\ stackSize = Len(args) /\ Len(args) <= stackCap
  /\ \A i \in 0..(Len(args) - 1) : stack[i] = VM!FromInt(args[i + 1])

WaitInv ==
  /\ stage \notin {"run", "done", "failed"} => Waiting
  /\ stage = "load" => (Fits => VM!wvmVerifyPrototype(code))

\* The machine while it runs: the registers before the i-th instruction have
\* the values of w, and so has what an immediate was loaded into.
AllValues == \A n \in ValueNodes : Values[n] # None

Reached(i, pos, w) ==
  /\ \A r \in 0..(ParamTotal + (i - 1) - 1) : stack[r] = w[r]
  /\ \/ pc = pos[i] - 1
     \/ /\ pc = pos[i] /\ LastOf(mal[i]).kind = "imm" /\ pos[i + 1] = pos[i] + 2
        /\ stack[code.regCount - 1] = VM!FromInt(Narrow(LastOf(mal[i]).n))

Running ==
  /\ FrameOK /\ status = "running" /\ proto = code /\ VM!wvmVerifyPrototype(code)
  /\ code.regCount <= stackCap
  /\ \E w \in [Nat -> Plain], i \in DOMAIN mal : \E pos :
       /\ Follows(mal, w, Values) /\ Layout(pos) /\ Reached(i, pos, w)

RunInv == stage = "run" /\ Ordered /\ AllValues => Running

\* With IInv, the inductive invariant.
Rest == /\ ShapeInv /\ NumberInv /\ MeaningInv /\ SelectedInv /\ LayoutInv
        /\ WaitInv /\ RunInv /\ ComputesMeaning

-----------------------------------------------------------------------------
(* The parameters have the indices 0, 1, ... in their order.               *)

LEMMA KindNames ==
  /\ UnaryKinds \cap BinaryKinds = {} /\ OperatorKinds = UnaryKinds \cup BinaryKinds
  /\ \A kind \in OperatorKinds : kind \notin {"START", "RETURN", "CONST_INT", "PARAM", "RET", "COPY"}
BY DEF OperatorKinds, UnaryKinds, BinaryKinds, ArithKinds, CompareKinds

LEMMA SameSize ==
  ASSUME NEW S, NEW T, IsFiniteSet(S), NEW f \in [S -> T],
         \A x, y \in S : f[x] = f[y] => x = y, \A z \in T : \E x \in S : f[x] = z
  PROVE  IsFiniteSet(T) /\ Cardinality(T) = Cardinality(S)
<1>1. f \in Bijection(S, T)
  BY DEF Bijection, Injection, IsInjective, Surjection
<1>2. ExistsBijection(S, T)
  BY <1>1 DEF ExistsBijection
<1> QED BY <1>2, FS_Bijection

LEMMA CountTo ==
  ASSUME NEW n \in Nat
  PROVE  IsFiniteSet(0..(n - 1)) /\ Cardinality(0..(n - 1)) = n
<1>1. PICK a \in Int, b \in Int : a = 0 /\ b = n - 1
  OBVIOUS
<1>2. IsFiniteSet(a..b) /\ Cardinality(a..b) = IF a > b THEN 0 ELSE b - a + 1
  BY FS_Interval
<1> QED BY <1>1, <1>2

LEMMA ParamIndices ==
  ASSUME GraphInv, ShapeInv, stage # "build"
  PROVE  /\ ParamTotal \in Nat
         /\ \A n \in ParamNodes : graph[n].k \in 0..(ParamTotal - 1)
         /\ Supported => ParamTotal <= RegMax
<1>1. IsFiniteSet(ParamNodes) /\ ParamTotal \in Nat
  BY ParamCount DEF ParamTotal
<1> DEFINE K == {graph[n].k : n \in ParamNodes}
<1>2. PICK f : f = [n \in ParamNodes |-> graph[n].k]
  OBVIOUS
<1>3. f \in [ParamNodes -> K] /\ \A z \in K : \E x \in ParamNodes : f[x] = z
  BY <1>2
<1>4. \A x, y \in ParamNodes : f[x] = f[y] => x = y
  BY <1>2 DEF ShapeInv
<1>5. 0..(ParamTotal - 1) \subseteq K
  BY DEF ShapeInv
<1>6. \A n \in ParamNodes : graph[n].k \in K /\ graph[n].k \in 0..(Params - 1)
  BY DEF ShapeInv
<1> HIDE DEF K
<1>7. IsFiniteSet(K) /\ Cardinality(K) = ParamTotal
  BY <1>1, <1>3, <1>4, SameSize DEF ParamTotal
<1>8. K = 0..(ParamTotal - 1)
  <2>1. IsFiniteSet(0..(ParamTotal - 1)) /\ Cardinality(0..(ParamTotal - 1)) = ParamTotal
    BY <1>1, CountTo
  <2> QED BY <1>5, <1>7, <2>1, FS_Subset
<1>9. ASSUME Supported PROVE ParamTotal <= RegMax
  <2>1. options \in Options /\ Params \in 0..RegMax /\ RegMax \in Nat
    BY <1>9, OptionsAssumption DEF GraphInv, Supported, Params, RegMax
  <2>2. CASE ParamTotal = 0
    BY <2>1, <2>2
  <2>3. CASE ParamTotal # 0
    <3>1. ParamTotal - 1 \in 0..(ParamTotal - 1)
      BY <1>1, <2>3
    <3>2. PICK n \in ParamNodes : graph[n].k = ParamTotal - 1
      BY <3>1 DEF ShapeInv
    <3>3. ParamTotal - 1 \in 0..(Params - 1)
      BY <1>6, <3>2
    <3> QED BY <1>1, <2>1, <3>3
  <2> QED BY <2>2, <2>3
<1> QED BY <1>1, <1>6, <1>8, <1>9

LEMMA ParamRank ==
  ASSUME GraphInv, ShapeInv, stage # "build", ParamsInOrder, NEW m \in ParamNodes
  PROVE  Cardinality({n \in ParamNodes : n < m}) = graph[m].k
<1> DEFINE S == {n \in ParamNodes : n < m}
<1>1. PICK c \in Nat : c = graph[m].k /\ c \in 0..(ParamTotal - 1)
  BY ParamIndices
<1>2. IsFiniteSet(S)
  <2>1. IsFiniteSet(ParamNodes) /\ S \subseteq ParamNodes
    BY ParamCount
  <2> QED BY <2>1, FS_Subset
<1>3. PICK f : f = [n \in S |-> graph[n].k]
  OBVIOUS
<1>4. f \in [S -> 0..(c - 1)]
  <2> SUFFICES ASSUME NEW n \in S PROVE graph[n].k \in 0..(c - 1)
    BY <1>3
  <2>1. graph[n].k \in 0..(ParamTotal - 1) /\ graph[n].k < graph[m].k
    BY ParamIndices DEF ParamsInOrder
  <2> QED BY <1>1, <2>1
<1>5. \A x, y \in S : f[x] = f[y] => x = y
  BY <1>3 DEF ShapeInv
<1>6. ASSUME NEW z \in 0..(c - 1) PROVE \E x \in S : f[x] = z
  <2>1. ParamTotal \in Nat
    BY ParamIndices
  <2>2. z \in 0..(ParamTotal - 1)
    BY <1>1, <2>1
  <2>3. PICK x \in ParamNodes : graph[x].k = z
    BY <2>2 DEF ShapeInv
  <2>4. x # m /\ ~ (m < x)
    BY <1>1, <2>3 DEF ParamsInOrder
  <2>5. x \in Nat /\ m \in Nat
    BY GraphFacts DEF ParamNodes
  <2>6. x < m
    BY <2>4, <2>5
  <2> QED BY <1>3, <2>3, <2>6
<1> HIDE DEF S
<1>7. Cardinality(0..(c - 1)) = Cardinality(S)
  BY <1>2, <1>4, <1>5, <1>6, SameSize
<1>8. Cardinality(0..(c - 1)) = c
  BY CountTo
<1> QED BY <1>1, <1>7, <1>8 DEF S

-----------------------------------------------------------------------------
(* The values of a scheduled graph satisfy their equations.                *)

\* The value of node n, from those of its inputs in f.
ValueFrom(f, n) ==
  LET node == graph[n]
      x == f[node.ins[1]]
      y == f[node.ins[2]]
  IN CASE node.kind = "CONST_INT" -> VM!FromInt(Narrow(node.k))
       [] node.kind = "PARAM" -> VM!FromInt(args[node.k + 1])
       [] node.kind \in UnaryKinds ->
            IF VM!IsInt(x) THEN VM!FromInt(UnaryInt(node.kind, x.n)) ELSE None
       [] OTHER ->
            IF VM!IsInt(x) /\ VM!IsInt(y)
            THEN VM!wvm_exec_binary_int(node.kind, x.n, y.n) ELSE None

\* Nodes, and the inputs a node has.
LEMMA NodeFacts ==
  ASSUME GraphInv, ShapeInv, NEW n \in ValueNodes
  PROVE  /\ n \in Nodes /\ n \in Nat
         /\ graph[n].kind \in {"CONST_INT", "PARAM"} \cup UnaryKinds \cup BinaryKinds
         /\ graph[n].kind \in OperatorKinds =>
              graph[n].ins[1] \in ValueNodes /\ (Scheduled => graph[n].ins[1] < n)
         /\ graph[n].kind \in BinaryKinds =>
              graph[n].ins[2] \in ValueNodes /\ (Scheduled => graph[n].ins[2] < n)
<1>1. /\ n \in Nodes /\ n \in Nat /\ graph[n].ins \in Seq(Nat)
      /\ graph[n].kind \in {"CONST_INT", "PARAM"} \cup UnaryKinds \cup BinaryKinds
  BY GraphFacts DEF ValueNodes, OperatorKinds
<1>2. \A j \in DOMAIN graph[n].ins : Scheduled => graph[n].ins[j] < n
  BY <1>1 DEF Scheduled
<1>3. ASSUME graph[n].kind \in OperatorKinds
      PROVE  \A j \in 1..Len(graph[n].ins) : graph[n].ins[j] \in ValueNodes /\ (Scheduled => graph[n].ins[j] < n)
  <2>1. DOMAIN graph[n].ins = 1..Len(graph[n].ins)
    BY <1>1
  <2> QED BY <1>1, <1>2, <1>3, <2>1 DEF GraphInv
<1>4. /\ graph[n].kind \in UnaryKinds => Len(graph[n].ins) = 1
      /\ graph[n].kind \in BinaryKinds => Len(graph[n].ins) = 2
  BY <1>1, KindNames DEF ShapeInv
<1>5. 1 \in 1..1 /\ 1 \in 1..2 /\ 2 \in 1..2
  OBVIOUS
<1> QED BY <1>1, <1>3, <1>4, <1>5, KindNames

LEMMA ValueSame ==
  ASSUME GraphInv, ShapeInv, Scheduled, NEW n \in ValueNodes, NEW f, NEW g,
         \A m \in ValueNodes : m < n => f[m] = g[m]
  PROVE  ValueFrom(f, n) = ValueFrom(g, n)
<1>1. /\ graph[n].kind \in OperatorKinds => f[graph[n].ins[1]] = g[graph[n].ins[1]]
      /\ graph[n].kind \in BinaryKinds => f[graph[n].ins[2]] = g[graph[n].ins[2]]
  BY NodeFacts
<1>2. graph[n].kind \in {"CONST_INT", "PARAM"} \cup UnaryKinds \cup BinaryKinds
  BY NodeFacts
<1>3. CASE graph[n].kind = "CONST_INT"
  BY <1>3 DEF ValueFrom, UnaryKinds
<1>6. CASE graph[n].kind = "PARAM"
  BY <1>6 DEF ValueFrom, UnaryKinds
<1>4. CASE graph[n].kind \in UnaryKinds
  <2>1. graph[n].kind \notin {"CONST_INT", "PARAM"}
    BY <1>4, KindNames
  <2> QED BY <1>1, <1>4, <2>1, KindNames DEF ValueFrom
<1>5. CASE graph[n].kind \in BinaryKinds
  <2>1. graph[n].kind \notin {"CONST_INT", "PARAM"} \cup UnaryKinds
    BY <1>5, KindNames
  <2> QED BY <1>1, <1>5, <2>1, KindNames DEF ValueFrom
<1> QED BY <1>2, <1>3, <1>4, <1>5, <1>6

LEMMA ValuesExist ==
  ASSUME GraphInv, ShapeInv, Scheduled
  PROVE  \E f : f = [n \in ValueNodes |-> ValueFrom(f, n)]
<1> DEFINE Upto(m) == \E f : DOMAIN f = ValueNodes /\ \A n \in ValueNodes : n <= m => f[n] = ValueFrom(f, n)
           S == {m \in Nat : ~Upto(m)}
<1>1. Upto(0)
  <2>1. PICK f : f = [n \in ValueNodes |-> 0]
    OBVIOUS
  <2>2. \A n \in ValueNodes : ~ (n <= 0)
    BY GraphFacts DEF ValueNodes
  <2> QED BY <2>1, <2>2
<1>2. ASSUME NEW m \in Nat, Upto(m) PROVE Upto(m + 1)
  <2>1. PICK f : DOMAIN f = ValueNodes /\ \A n \in ValueNodes : n <= m => f[n] = ValueFrom(f, n)
    BY <1>2
  <2>2. PICK g : g = [n \in ValueNodes |-> IF n <= m THEN f[n] ELSE ValueFrom(f, n)]
    OBVIOUS
  <2>3. \A n \in ValueNodes : n \in Nat
    BY NodeFacts
  <2>4. ASSUME NEW n \in ValueNodes, n <= m + 1 PROVE g[n] = ValueFrom(g, n)
    <3>1. \A k \in ValueNodes : k < n => f[k] = g[k]
      BY <2>2, <2>3, <2>4
    <3>2. ValueFrom(f, n) = ValueFrom(g, n)
      BY <3>1, ValueSame
    <3> QED BY <2>1, <2>2, <3>2
  <2> QED BY <2>2, <2>4
<1>3. Upto(Len(graph))
  <2> SUFFICES ASSUME ~Upto(Len(graph)) PROVE FALSE
    OBVIOUS
  <2>1. Len(graph) \in Nat
    BY GraphFacts
  <2>2. S \in SUBSET Nat /\ S # {}
    BY <2>1
  <2>3. PICK m \in S : \A k \in S : m <= k
    BY <2>2, SmallestNat
  <2>4. m # 0 /\ m \in Nat
    BY <1>1, <2>3
  <2>5. m - 1 \in Nat /\ m - 1 \notin S
    BY <2>3, <2>4
  <2> HIDE DEF Upto
  <2>6. Upto(m - 1) /\ ~Upto(m)
    BY <2>3, <2>5
  <2>7. Upto((m - 1) + 1) /\ (m - 1) + 1 = m
    BY <1>2, <2>4, <2>5, <2>6
  <2> QED BY <2>6, <2>7
<1>4. PICK f : DOMAIN f = ValueNodes /\ \A n \in ValueNodes : n <= Len(graph) => f[n] = ValueFrom(f, n)
  BY <1>3
<1>5. \A n \in ValueNodes : n <= Len(graph)
  BY GraphFacts DEF ValueNodes
<1>6. PICK g : g = [n \in ValueNodes |-> f[n]]
  OBVIOUS
<1>7. ASSUME NEW n \in ValueNodes PROVE g[n] = ValueFrom(g, n)
  <2>1. \A m \in ValueNodes : m < n => f[m] = g[m]
    BY <1>6
  <2>2. ValueFrom(f, n) = ValueFrom(g, n)
    BY <2>1, ValueSame
  <2> QED BY <1>4, <1>5, <1>6, <2>2
<1>8. g = [n \in ValueNodes |-> ValueFrom(g, n)]
  BY <1>6, <1>7
<1> QED BY <1>8

LEMMA ValuesFacts ==
  ASSUME GraphInv, ShapeInv, Scheduled
  PROVE  DOMAIN Values = ValueNodes /\ \A n \in ValueNodes : Values[n] = ValueFrom(Values, n)
<1> DEFINE value == CHOOSE f : f = [n \in ValueNodes |-> ValueFrom(f, n)]
<1>1. value = [n \in ValueNodes |-> ValueFrom(value, n)]
  BY ValuesExist
<1>2. Values = [n \in ValueNodes |-> value[n]]
  BY DEF Values, ValueFrom
<1> HIDE DEF value
<1>3. Values = value
  BY <1>1, <1>2
<1> QED BY <1>1, <1>3

LEMMA WordFacts ==
  /\ \A x \in Word : /\ VM!FromInt(x) \in WordValues /\ VM!FromInt(x) \in Plain
                     /\ VM!FromInt(x).n = x /\ VM!IsInt(VM!FromInt(x))
  /\ \A v \in WordValues : v \in Plain /\ VM!IsInt(v) /\ v.n \in Word /\ v = VM!FromInt(v.n)
  /\ \A v \in Plain : VM!IsInt(v) => v \in WordValues
<1>1. \A x \in Word : VM!FromInt(x) \in WordValues /\ VM!FromInt(x).n = x /\ VM!IsInt(VM!FromInt(x))
  BY DEF WordValues, VM!FromInt, VM!IsInt
<1>2. \A v \in WordValues : VM!IsInt(v) /\ v.n \in Word /\ v = VM!FromInt(v.n)
  BY <1>1 DEF WordValues
<1>3. ~VM!IsInt(VM!True) /\ ~VM!IsInt(VM!False)
  BY DEF VM!IsInt, VM!True, VM!False
<1> QED BY <1>1, <1>2, <1>3 DEF Plain

LEMMA OpNames ==
  /\ VM!CompareOps = CompareKinds /\ VM!ArithOps = ArithKinds
  /\ VM!BinaryOps = BinaryKinds /\ VM!UnaryOps = UnaryKinds
BY DEF VM!CompareOps, VM!ArithOps, VM!BinaryOps, VM!UnaryOps, CompareKinds, ArithKinds, BinaryKinds, UnaryKinds

LEMMA OperatorPlain ==
  ASSUME NEW x \in Word, NEW y \in Word
  PROVE  /\ \A op \in UnaryKinds : VM!FromInt(UnaryInt(op, x)) \in Plain
         /\ \A op \in BinaryKinds : VM!wvm_exec_binary_int(op, x, y) \in Plain
<1>1. \A op \in UnaryKinds : UnaryInt(op, x) \in Word
  BY WordAssumption
<1>2. \A op \in BinaryKinds : op \notin CompareKinds => BinaryInt(op, x, y) \in Word
  BY WordAssumption DEF BinaryKinds
<1>3. ASSUME NEW op \in BinaryKinds PROVE VM!wvm_exec_binary_int(op, x, y) \in Plain
  <2>1. VM!True \in Plain /\ VM!False \in Plain
    BY DEF Plain
  <2>2. CASE op \in CompareKinds
    BY <2>1, <2>2, OpNames DEF VM!wvm_exec_binary_int
  <2>3. CASE op \notin CompareKinds
    <3>1. VM!wvm_exec_binary_int(op, x, y) = VM!FromInt(BinaryInt(op, x, y))
      BY <2>3, OpNames DEF VM!wvm_exec_binary_int
    <3> QED BY <1>2, <2>3, <3>1, WordFacts
  <2> QED BY <2>2, <2>3
<1> QED BY <1>1, <1>3, WordFacts

\* Where every value is defined, the operators meet integers.
LEMMA ValuesGood ==
  ASSUME GraphInv, ShapeInv, Scheduled, AllValues, stage # "build",
         args \in Seq(Word), Len(args) = ParamTotal
  PROVE  /\ Values \in GoodValues
         /\ \A n \in ParamNodes : Values[n] = VM!FromInt(args[graph[n].k + 1])
<1>1. PICK v : v = Values /\ DOMAIN v = ValueNodes /\ \A n \in ValueNodes : v[n] = ValueFrom(v, n) /\ v[n] # None
  BY ValuesFacts DEF AllValues
<1>2. v = [n \in ValueNodes |-> v[n]]
  BY <1>1 DEF Values
<1>3. ASSUME NEW n \in ParamNodes
      PROVE  n \in ValueNodes /\ v[n] = VM!FromInt(args[graph[n].k + 1]) /\ v[n] \in Plain
  <2>1. n \in ValueNodes /\ graph[n].kind = "PARAM"
    BY DEF ValueNodes, ParamNodes
  <2>2. v[n] = VM!FromInt(args[graph[n].k + 1])
    BY <1>1, <2>1 DEF ValueFrom, UnaryKinds
  <2>3. graph[n].k + 1 \in 1..Len(args)
    BY ParamIndices
  <2>4. args[graph[n].k + 1] \in Word
    BY <2>3
  <2> QED BY <2>1, <2>2, <2>4, WordFacts
<1>4. ASSUME NEW n \in ValueNodes, graph[n].kind = "CONST_INT"
      PROVE  v[n] = VM!FromInt(Narrow(graph[n].k)) /\ v[n] \in Plain
  <2>1. v[n] = VM!FromInt(Narrow(graph[n].k))
    BY <1>1, <1>4 DEF ValueFrom, UnaryKinds
  <2>2. Narrow(graph[n].k) \in Word
    <3>1. graph[n].k \in options.scope.consts /\ options \in Options
      BY <1>4, NodeFacts DEF ShapeInv, GraphInv, Consts
    <3> QED BY <3>1, WordAssumption
  <2> QED BY <2>1, <2>2, WordFacts
<1>5. ASSUME NEW n \in ValueNodes, graph[n].kind \in UnaryKinds
      PROVE  LET x == v[graph[n].ins[1]] IN VM!IsInt(x) /\ v[n] = VM!FromInt(UnaryInt(graph[n].kind, x.n))
  <2>1. graph[n].kind \notin {"CONST_INT", "PARAM"}
    BY <1>5, KindNames
  <2>2. v[n] = ValueFrom(v, n) /\ v[n] # None
    BY <1>1
  <2> QED BY <1>5, <2>1, <2>2 DEF ValueFrom
<1>6. ASSUME NEW n \in ValueNodes, graph[n].kind \in BinaryKinds
      PROVE  LET x == v[graph[n].ins[1]]
                 y == v[graph[n].ins[2]]
             IN VM!IsInt(x) /\ VM!IsInt(y) /\ v[n] = VM!wvm_exec_binary_int(graph[n].kind, x.n, y.n)
  <2>1. graph[n].kind \notin {"CONST_INT", "PARAM"} \cup UnaryKinds
    BY <1>6, KindNames
  <2>2. v[n] = ValueFrom(v, n) /\ v[n] # None
    BY <1>1
  <2> QED BY <1>6, <2>1, <2>2 DEF ValueFrom
<1>7. \A n \in ValueNodes : v[n] \in Plain
  <2> DEFINE S == {n \in ValueNodes : v[n] \notin Plain}
  <2> SUFFICES ASSUME S # {} PROVE FALSE
    OBVIOUS
  <2>1. S \in SUBSET Nat
    BY NodeFacts
  <2>2. PICK n \in S : \A k \in S : n <= k
    BY <2>1, SmallestNat
  <2>3. n \in ValueNodes /\ n \in Nat /\ v[n] \notin Plain
    BY <2>2, NodeFacts
  <2>4. ASSUME NEW m \in ValueNodes, m < n PROVE v[m] \in Plain
    <3>1. m \in Nat
      BY NodeFacts
    <3>2. m \notin S
      BY <2>2, <2>3, <2>4, <3>1
    <3> QED BY <3>2
  <2>5. graph[n].kind \notin {"CONST_INT", "PARAM"}
    BY <1>3, <1>4, <2>3, NodeFacts DEF ParamNodes
  <2>6. CASE graph[n].kind \in UnaryKinds
    <3>1. PICK x : x = v[graph[n].ins[1]] /\ VM!IsInt(x) /\ v[n] = VM!FromInt(UnaryInt(graph[n].kind, x.n))
      BY <1>5, <2>3, <2>6
    <3>2. x \in Plain
      <4>1. graph[n].ins[1] \in ValueNodes /\ graph[n].ins[1] < n
        BY <2>3, <2>6, NodeFacts, KindNames
      <4> QED BY <2>4, <3>1, <4>1
    <3>3. x.n \in Word
      BY <3>1, <3>2, WordFacts
    <3> QED BY <2>3, <2>6, <3>1, <3>3, OperatorPlain
  <2>7. CASE graph[n].kind \in BinaryKinds
    <3>1. PICK x, y : /\ x = v[graph[n].ins[1]] /\ y = v[graph[n].ins[2]] /\ VM!IsInt(x) /\ VM!IsInt(y)
                      /\ v[n] = VM!wvm_exec_binary_int(graph[n].kind, x.n, y.n)
      BY <1>6, <2>3, <2>7
    <3>2. x \in Plain /\ y \in Plain
      <4>1. /\ graph[n].ins[1] \in ValueNodes /\ graph[n].ins[1] < n
            /\ graph[n].ins[2] \in ValueNodes /\ graph[n].ins[2] < n
        BY <2>3, <2>7, NodeFacts, KindNames
      <4> QED BY <2>4, <3>1, <4>1
    <3>3. x.n \in Word /\ y.n \in Word
      BY <3>1, <3>2, WordFacts
    <3> QED BY <2>3, <2>7, <3>1, <3>3, OperatorPlain
  <2> QED BY <2>3, <2>5, <2>6, <2>7, NodeFacts
<1>8. ASSUME NEW n \in ValueNodes PROVE NodeHolds(n, v)
  <2>1. graph[n].kind \in OperatorKinds => graph[n].ins[1] \in ValueNodes
    BY NodeFacts
  <2>2. graph[n].kind \in BinaryKinds => graph[n].ins[2] \in ValueNodes
    BY NodeFacts
  <2>3. ASSUME graph[n].kind \in UnaryKinds PROVE v[graph[n].ins[1]] \in WordValues
    BY <1>5, <1>7, <2>1, <2>3, WordFacts, KindNames
  <2>4. ASSUME graph[n].kind \in BinaryKinds PROVE v[graph[n].ins[1]] \in WordValues /\ v[graph[n].ins[2]] \in WordValues
    BY <1>6, <1>7, <2>1, <2>2, <2>4, WordFacts, KindNames
  <2> QED BY <1>4, <1>5, <1>6, <2>3, <2>4 DEF NodeHolds
<1>9. v \in [ValueNodes -> Plain]
  BY <1>2, <1>7
<1> QED BY <1>1, <1>3, <1>8, <1>9 DEF GoodValues

-----------------------------------------------------------------------------
(* Instructions as equations.                                              *)

ShapedInst(inst) ==
  /\ inst.ops \in Seq(Operand) /\ Len(inst.ops) = IF inst.op \in SingleOps THEN 1 ELSE 2

LEMMA ShapedOps ==
  ASSUME NEW inst, ShapedInst(inst)
  PROVE  /\ inst.ops[1] \in Operand /\ (inst.ops[1].kind = "reg" => inst.ops[1].n \in RegsOf(inst))
         /\ inst.op \notin SingleOps =>
              inst.ops[2] \in Operand /\ (inst.ops[2].kind = "reg" => inst.ops[2].n \in RegsOf(inst))
<1>1. 1 \in DOMAIN inst.ops /\ (inst.op \notin SingleOps => 2 \in DOMAIN inst.ops)
  BY DEF ShapedInst
<1> QED BY <1>1, RegsType DEF ShapedInst

LEMMA ArgSame ==
  ASSUME NEW o \in Operand, NEW w, NEW u, o.kind = "reg" => u[o.n] = w[o.n]
  PROVE  Arg(o, u) = Arg(o, w)
<1>1. o.kind = "imm" \/ o.kind = "reg"
  BY DEF Operand
<1> QED BY <1>1 DEF Arg

\* An instruction speaks of its own registers only.
LEMMA HoldsSame ==
  ASSUME NEW inst, ShapedInst(inst), NEW w, NEW u, NEW ret, Holds(inst, w, ret),
         \A r \in RegsOf(inst) : u[r] = w[r], inst.op # "RET" => u[inst.dst] = w[inst.dst]
  PROVE  Holds(inst, u, ret)
<1>1. Arg(inst.ops[1], u) = Arg(inst.ops[1], w)
  BY ShapedOps, ArgSame
<1>2. inst.op \notin SingleOps => Arg(inst.ops[2], u) = Arg(inst.ops[2], w)
  BY ShapedOps, ArgSame
<1>3. inst.op \in UnaryKinds => inst.op # "RET"
  BY DEF UnaryKinds
<1>4. inst.op \notin SingleOps => inst.op # "RET"
  BY DEF SingleOps
<1> QED BY <1>1, <1>2, <1>3, <1>4 DEF Holds

-----------------------------------------------------------------------------
(* Building the graph.                                                     *)

\* The stages before the machine is used.
Compiling == {"build", "lower", "ssa", "peephole", "ssa2", "select", "encode"}

LEMMA InitRest ==
  ASSUME Init
  PROVE  Rest
<1>1. /\ stage = "build" /\ graph = <<Node("START", <<>>, 0)>> /\ mal = <<>> /\ mds = <<>> /\ args = <<>>
      /\ stackCap = InitCap /\ stack = [r \in 0..(InitCap - 1) |-> VM!Zeroed]
      /\ stackSize = 0 /\ status = "idle" /\ result = 1
  BY DEF Init, VM!Init
<1>2. ShapeInv
  <2>1. Nodes = {1} /\ graph[1].kind = "START"
    BY <1>1 DEF Nodes, Node
  <2>2. ParamNodes = {}
    BY <2>1 DEF ParamNodes
  <2>3. "START" \notin OperatorKinds
    BY KindNames
  <2> QED BY <1>1, <2>1, <2>2, <2>3 DEF ShapeInv
<1>3. NumberInv /\ MeaningInv /\ SelectedInv /\ LayoutInv
  BY <1>1 DEF NumberInv, Numbered, MeaningInv, SelectedInv, LayoutInv
<1>4. Waiting
  <2>1. InitCap \in Nat
    BY WordAssumption
  <2>2. <<>> \in Seq(Word) /\ Len(<<>>) = 0
    OBVIOUS
  <2>3. FrameOK
    BY <1>1, <2>1 DEF FrameOK
  <2> QED BY <1>1, <2>1, <2>2, <2>3 DEF Waiting
<1>5. WaitInv /\ RunInv /\ ComputesMeaning
  BY <1>1, <1>4 DEF WaitInv, RunInv, ComputesMeaning
<1> QED BY <1>2, <1>3, <1>5 DEF Rest

\* While compiling the machine is left alone.
LEMMA MachineKept ==
  ASSUME Rest, stage \in Compiling, stage' \in Compiling \cup {"failed"}, UNCHANGED <<args, machine>>
  PROVE  WaitInv' /\ RunInv' /\ ComputesMeaning'
<1>1. /\ args' = args /\ stack' = stack /\ stackCap' = stackCap /\ stackSize' = stackSize
      /\ status' = status /\ result' = result
  BY DEF machine
<1>2. stage \notin {"run", "done", "failed"} /\ stage' \notin {"load", "run", "done"}
  BY DEF Compiling
<1>3. Waiting
  BY <1>2 DEF Rest, WaitInv
<1>4. Waiting'
  BY <1>1, <1>3 DEF Waiting, FrameOK
<1> QED BY <1>2, <1>4 DEF WaitInv, RunInv, ComputesMeaning

\* While the graph is built there is nothing else.
LEMMA BuildRest ==
  ASSUME IInv, Rest, stage = "build", stage' = "build", mal' = mal, mds' = mds,
         UNCHANGED <<args, machine>>
  PROVE  ShapeInv' => Rest'
<1>1. mal = <<>> /\ mds = <<>>
  BY DEF IInv, LowerInv, SelectInv, Early
<1>2. NumberInv' /\ MeaningInv' /\ SelectedInv' /\ LayoutInv'
  BY <1>1 DEF NumberInv, Numbered, MeaningInv, SelectedInv, LayoutInv
<1>3. WaitInv' /\ RunInv' /\ ComputesMeaning'
  BY MachineKept DEF Compiling
<1> QED BY <1>2, <1>3 DEF Rest

LEMMA MakeRest ==
  ASSUME IInv, Rest, NEW node \in NodeRecord, Make(node), node.kind # "RETURN",
         node.kind \in OperatorKinds =>
           node.kind \in Kinds /\ Len(node.ins) = IF node.kind \in UnaryKinds THEN 1 ELSE 2,
         node.kind = "CONST_INT" => node.k \in Consts,
         node.kind = "PARAM" => node.k \in 0..(Params - 1) /\ \A n \in ParamNodes : graph[n].k # node.k
  PROVE  Rest'
<1>1. /\ stage = "build" /\ stage' = "build" /\ graph' = Append(graph, node) /\ options' = options
      /\ mal' = mal /\ mds' = mds /\ UNCHANGED <<args, machine>>
  BY DEF Make
<1>2. GraphInv /\ ShapeInv
  BY DEF IInv, Rest
<1>3. /\ Len(graph') = Len(graph) + 1
      /\ \A n \in Nodes : graph'[n] = graph[n]
      /\ graph'[Len(graph) + 1] = node
      /\ \A n \in Nodes' : n \in Nodes \/ n = Len(graph) + 1
  BY <1>1, <1>2, AppendFacts
<1>4. Kinds' = Kinds /\ Consts' = Consts /\ Params' = Params
  BY <1>1 DEF Kinds, Consts, Params
<1>5. \A n \in ParamNodes' : /\ n \in Nodes'
                             /\ n \in ParamNodes \/ (n = Len(graph) + 1 /\ node.kind = "PARAM")
  BY <1>3 DEF ParamNodes
<1>6. ASSUME NEW n \in Nodes'
      PROVE  /\ graph'[n].kind \in OperatorKinds => graph'[n].kind \in Kinds
             /\ graph'[n].kind = "CONST_INT" => graph'[n].k \in Consts
             /\ graph'[n].kind \in OperatorKinds =>
                  Len(graph'[n].ins) = IF graph'[n].kind \in UnaryKinds THEN 1 ELSE 2
             /\ graph'[n].kind # "RETURN"
  <2>1. CASE n \in Nodes
    BY <1>1, <1>2, <1>3, <2>1 DEF ShapeInv
  <2>2. CASE n = Len(graph) + 1
    BY <1>3, <2>2
  <2> QED BY <1>3, <2>1, <2>2
<1>7. ASSUME NEW n \in ParamNodes'
      PROVE  graph'[n].k \in 0..(Params - 1) /\ \A m \in ParamNodes' : graph'[m].k = graph'[n].k => m = n
  <2>1. \A m \in ParamNodes : graph'[m] = graph[m]
    BY <1>3 DEF ParamNodes
  <2> QED BY <1>2, <1>3, <1>5, <2>1 DEF ShapeInv
<1>8. ShapeInv'
  BY <1>1, <1>4, <1>6, <1>7 DEF ShapeInv
<1> QED BY <1>1, <1>8, BuildRest

LEMMA ReplaceRest ==
  ASSUME IInv, Rest, NEW old \in ValueNodes, NEW new \in ValueNodes, wil_node_replace_all_uses(old, new)
  PROVE  Rest'
<1>1. /\ stage = "build" /\ stage' = "build" /\ options' = options
      /\ mal' = mal /\ mds' = mds /\ UNCHANGED <<args, machine>>
  BY DEF wil_node_replace_all_uses
<1>2. GraphInv /\ ShapeInv
  BY DEF IInv, Rest
<1>3. /\ Nodes' = Nodes /\ Len(graph') = Len(graph)
      /\ \A n \in Nodes : /\ graph'[n].kind = graph[n].kind /\ graph'[n].k = graph[n].k
                          /\ Len(graph'[n].ins) = Len(graph[n].ins)
  BY <1>2, ReplaceFacts
<1>4. Kinds' = Kinds /\ Consts' = Consts /\ Params' = Params
  BY <1>1 DEF Kinds, Consts, Params
<1>5. ParamNodes' = ParamNodes /\ \A n \in ParamNodes : n \in Nodes
  BY <1>3 DEF ParamNodes
<1>6. ShapeInv'
  BY <1>1, <1>2, <1>3, <1>4, <1>5 DEF ShapeInv
<1> QED BY <1>1, <1>6, BuildRest

LEMMA SameMeaning ==
  ASSUME graph' = graph
  PROVE  /\ ParamTotal' = ParamTotal /\ (Ordered' <=> Ordered) /\ GoodValues' = GoodValues
         /\ \A m, w, v : Follows(m, w, v)' <=> Follows(m, w, v)
         /\ \A regs, limit, w, v : Tracks(regs, limit, w, v)' <=> Tracks(regs, limit, w, v)
<1>1. Nodes' = Nodes /\ ValueNodes' = ValueNodes /\ ParamNodes' = ParamNodes /\ (Scheduled' <=> Scheduled)
  BY SameGraph
<1>2. ParamTotal' = ParamTotal /\ (Ordered' <=> Ordered)
  BY <1>1 DEF ParamTotal, Ordered, ParamsInOrder
<1>3. GoodValues' = GoodValues
  BY <1>1 DEF GoodValues, NodeHolds
<1>4. \A m, w, v : Follows(m, w, v)' <=> Follows(m, w, v)
  BY <1>1 DEF Follows, Returned
<1>5. \A regs, limit, w, v : Tracks(regs, limit, w, v)' <=> Tracks(regs, limit, w, v)
  BY <1>1 DEF Tracks
<1> QED BY <1>2, <1>3, <1>4, <1>5

LEMMA ReturnRest ==
  ASSUME IInv, Rest, NEW value \in ValueNodes, wil_make_return(value)
  PROVE  Rest'
<1> DEFINE node == Node("RETURN", <<1, value>>, 0)
<1>1. /\ stage = "build" /\ stage' = "lower" /\ graph' = Append(graph, node) /\ options' = options
      /\ mal' = mal /\ mds' = mds /\ at' = 1 /\ nextReg' = Cardinality(ParamNodes)
      /\ \A i \in 0..(ParamTotal - 1) : \E n \in ParamNodes : graph[n].k = i
      /\ UNCHANGED <<args, machine>>
  BY DEF wil_make_return, ParamTotal
<1>2. GraphInv /\ ShapeInv
  BY DEF IInv, Rest
<1>3. node \in NodeRecord /\ node.kind = "RETURN"
  <2>1. value \in Nat
    BY <1>2, NodeFacts
  <2> QED BY <2>1 DEF Node, NodeRecord
<1> HIDE DEF node
<1>4. /\ Len(graph') = Len(graph) + 1
      /\ \A n \in Nodes : graph'[n] = graph[n]
      /\ graph'[Len(graph) + 1] = node
      /\ \A n \in Nodes' : n \in Nodes \/ n = Len(graph) + 1
      /\ ParamNodes' = ParamNodes
  BY <1>1, <1>2, <1>3, AppendFacts
<1>5. Kinds' = Kinds /\ Consts' = Consts /\ Params' = Params /\ ParamTotal' = ParamTotal
  BY <1>1, <1>4 DEF Kinds, Consts, Params, ParamTotal
<1>6. \A n \in ParamNodes : graph'[n] = graph[n]
  BY <1>4 DEF ParamNodes
<1>7. ShapeInv'
  <2>1. ASSUME NEW n \in Nodes'
        PROVE  /\ graph'[n].kind \in OperatorKinds => graph'[n].kind \in Kinds
               /\ graph'[n].kind = "CONST_INT" => graph'[n].k \in Consts
               /\ graph'[n].kind \in OperatorKinds =>
                    Len(graph'[n].ins) = IF graph'[n].kind \in UnaryKinds THEN 1 ELSE 2
               /\ graph'[n].kind = "RETURN" => n = Len(graph')
    <3>1. CASE n \in Nodes
      BY <1>1, <1>2, <1>4, <3>1 DEF ShapeInv
    <3>2. CASE n = Len(graph) + 1
      BY <1>3, <1>4, <3>2, KindNames
    <3> QED BY <1>4, <3>1, <3>2
  <2>2. \A n \in ParamNodes' : graph'[n].k \in 0..(Params - 1)
    BY <1>2, <1>4, <1>6 DEF ShapeInv
  <2>3. \A m, n \in ParamNodes' : graph'[m].k = graph'[n].k => m = n
    BY <1>2, <1>4, <1>6 DEF ShapeInv
  <2>4. \A i \in 0..(ParamTotal - 1) : \E n \in ParamNodes' : graph'[n].k = i
    BY <1>1, <1>4, <1>6
  <2> QED BY <1>1, <1>5, <2>1, <2>2, <2>3, <2>4 DEF ShapeInv
<1>8. mal = <<>> /\ mds = <<>> /\ ParamTotal \in Nat
  BY <1>1, <1>2, ParamCount DEF IInv, LowerInv, SelectInv, Early, ParamTotal
<1>9. NumberInv' /\ SelectedInv' /\ LayoutInv'
  BY <1>1, <1>5, <1>8 DEF NumberInv, Numbered, SelectedInv, LayoutInv, ParamTotal
<1>10. MeaningInv'
  <2> SUFFICES ASSUME NEW v \in GoodValues'
               PROVE  \E w \in [Nat -> Plain] : Follows(mal, w, v)' /\ Tracks(nodeRegs, at, w, v)'
    BY DEF MeaningInv
  <2>1. PICK w : w = [r \in Nat |-> IF \E n \in ParamNodes' : graph'[n].k = r
                                    THEN v[CHOOSE n \in ParamNodes' : graph'[n].k = r] ELSE VM!False]
    OBVIOUS
  <2>2. v \in [ValueNodes' -> Plain] /\ VM!False \in Plain
    BY DEF GoodValues, Plain
  <2>3. \A n \in ParamNodes' : n \in ValueNodes'
    BY DEF ParamNodes, ValueNodes
  <2>4. w \in [Nat -> Plain]
    BY <2>1, <2>2, <2>3
  <2>5. ASSUME NEW n \in ParamNodes' PROVE w[graph'[n].k] = v[n]
    <3>1. graph'[n].k \in Nat
      BY <1>7 DEF ShapeInv
    <3>2. \A m \in ParamNodes' : graph'[m].k = graph'[n].k => m = n
      BY <1>7 DEF ShapeInv
    <3> QED BY <2>1, <3>1, <3>2
  <2>6. Follows(mal, w, v)'
    <3>1. DOMAIN mal' = {}
      BY <1>1, <1>8
    <3> QED BY <2>5, <3>1 DEF Follows
  <2>7. \A n \in ValueNodes' : ~ (n < 1)
    BY <1>2, <1>4, GraphFacts DEF ValueNodes
  <2>8. Tracks(nodeRegs, at, w, v)'
    BY <1>1, <2>7 DEF Tracks
  <2> QED BY <2>4, <2>6, <2>8
<1>11. WaitInv' /\ RunInv' /\ ComputesMeaning'
  BY <1>1, MachineKept DEF Compiling
<1> QED BY <1>7, <1>9, <1>10, <1>11 DEF Rest

LEMMA BuildStepRest ==
  ASSUME IInv, Rest, Build
  PROVE  Rest'
<1>1. GraphInv
  BY DEF IInv
<1>2. ASSUME NEW k \in Consts, wil_make_const_int(k) PROVE Rest'
  <2>1. k \in Int
    BY <1>1, OptionsAssumption DEF GraphInv, Consts
  <2>2. Node("CONST_INT", <<>>, k) \in NodeRecord
    BY <2>1 DEF Node, NodeRecord
  <2>3. /\ Node("CONST_INT", <<>>, k).kind = "CONST_INT" /\ Node("CONST_INT", <<>>, k).k = k
        /\ "CONST_INT" \notin OperatorKinds
    BY KindNames DEF Node
  <2> QED BY <1>2, <2>2, <2>3, MakeRest DEF wil_make_const_int
<1>3. ASSUME NEW index \in 0..(Params - 1), wil_make_param(index) PROVE Rest'
  <2>1. Node("PARAM", <<>>, index) \in NodeRecord
    BY DEF Node, NodeRecord
  <2>2. /\ Node("PARAM", <<>>, index).kind = "PARAM" /\ Node("PARAM", <<>>, index).k = index
        /\ "PARAM" \notin OperatorKinds
    BY KindNames DEF Node
  <2> QED BY <1>3, <2>1, <2>2, MakeRest DEF wil_make_param
<1>4. \A x \in ValueNodes : x \in Nat
  BY <1>1, GraphFacts DEF ValueNodes
<1>5. ASSUME NEW kind \in Kinds, NEW x \in ValueNodes, wil_build_unary(kind, x) PROVE Rest'
  <2>1. PICK node : node = Node(kind, <<x>>, 0)
    OBVIOUS
  <2>2. kind \in OperatorKinds /\ kind \in UnaryKinds /\ Make(node) /\ kind \notin {"RETURN", "CONST_INT", "PARAM"}
    BY <1>5, <2>1, KindNames DEF wil_build_unary
  <2>3. node \in NodeRecord /\ node.kind = kind /\ Len(node.ins) = 1
    BY <1>4, <2>1, <2>2 DEF Node, NodeRecord
  <2> QED BY <2>2, <2>3, MakeRest
<1>6. ASSUME NEW kind \in Kinds, NEW x \in ValueNodes, NEW y \in ValueNodes, wil_build_binary(kind, x, y)
      PROVE  Rest'
  <2>1. PICK node : node = Node(kind, <<x, y>>, 0)
    OBVIOUS
  <2>2. kind \in OperatorKinds /\ kind \notin UnaryKinds /\ Make(node) /\ kind \notin {"RETURN", "CONST_INT", "PARAM"}
    BY <1>6, <2>1, KindNames DEF wil_build_binary
  <2>3. node \in NodeRecord /\ node.kind = kind /\ Len(node.ins) = 2
    BY <1>4, <2>1, <2>2 DEF Node, NodeRecord
  <2> QED BY <2>2, <2>3, MakeRest
<1> QED BY <1>2, <1>3, <1>5, <1>6, ReplaceRest, ReturnRest DEF Build

-----------------------------------------------------------------------------
(* Lowering.                                                               *)

LEMMA MeaningNext ==
  ASSUME graph' = graph,
         Ordered => \A v \in GoodValues : \E w \in [Nat -> Plain] :
           Follows(mal', w, v) /\ (stage' = "lower" => Tracks(nodeRegs', at', w, v))
  PROVE  MeaningInv'
<1>1. /\ ParamNodes' = ParamNodes /\ ValueNodes' = ValueNodes
      /\ (Ordered' <=> Ordered) /\ GoodValues' = GoodValues
  BY SameGraph, SameMeaning
<1>2. \A w, v : Follows(mal, w, v)' <=> Follows(mal', w, v)
  BY <1>1 DEF Follows, Returned
<1>3. \A w, v : Tracks(nodeRegs, at, w, v)' <=> Tracks(nodeRegs', at', w, v)
  BY <1>1 DEF Tracks
<1> QED BY <1>1, <1>2, <1>3 DEF MeaningInv

LEMMA ShapeKept ==
  ASSUME ShapeInv, graph' = graph, options' = options, stage # "build", stage' # "build"
  PROVE  ShapeInv'
BY SameGraph DEF ShapeInv, Kinds, Consts, Params, ParamTotal

LEMMA LowerOthers ==
  ASSUME IInv, Rest, stage = "lower", NextNode, options' = options, graph' = graph, mds' = mds,
         UNCHANGED <<args, machine>>
  PROVE  /\ ShapeInv' /\ SelectedInv' /\ LayoutInv' /\ WaitInv' /\ RunInv' /\ ComputesMeaning'
         /\ ParamTotal' = ParamTotal /\ stage' \in {"lower", "ssa", "peephole"} /\ ParamTotal \in Nat
<1>1. stage' \in {"lower", "ssa", "peephole"}
  BY NextFacts
<1>2. ShapeInv' /\ ParamTotal' = ParamTotal
  BY <1>1, ShapeKept, SameMeaning DEF Rest
<1>3. mds = <<>>
  BY DEF IInv, SelectInv, Early
<1>4. SelectedInv' /\ LayoutInv'
  BY <1>1, <1>3 DEF SelectedInv, LayoutInv
<1>5. WaitInv' /\ RunInv' /\ ComputesMeaning'
  BY <1>1, MachineKept DEF Compiling
<1>6. ParamTotal \in Nat
  BY ParamCount DEF IInv, ParamTotal
<1> QED BY <1>1, <1>2, <1>4, <1>5, <1>6

LEMMA LowerNothingRest ==
  ASSUME IInv, Rest, LowerNothing
  PROVE  Rest'
<1>1. /\ stage = "lower" /\ NextNode /\ options' = options /\ graph' = graph /\ mds' = mds
      /\ mal' = mal /\ nodeRegs' = nodeRegs /\ nextReg' = nextReg /\ UNCHANGED <<args, machine>>
      /\ graph[at].kind \in {"START", "CONST_INT"}
  BY DEF LowerNothing
<1>2. /\ ShapeInv' /\ SelectedInv' /\ LayoutInv' /\ WaitInv' /\ RunInv' /\ ComputesMeaning'
      /\ ParamTotal' = ParamTotal
  BY <1>1, LowerOthers
<1>3. stage' = "lower" /\ at' = at + 1 /\ at \in Nodes
  BY <1>1, NextFacts
<1>4. NumberInv'
  BY <1>1, <1>2, <1>3 DEF Rest, NumberInv, Numbered
<1>5. ASSUME NEW w, NEW v, Tracks(nodeRegs, at, w, v) PROVE Tracks(nodeRegs', at', w, v)
  <2> SUFFICES ASSUME NEW n \in ValueNodes, n < at + 1, graph[n].kind # "CONST_INT" PROVE w[nodeRegs[n]] = v[n]
    BY <1>1, <1>3 DEF Tracks
  <2>1. n # at
    BY <1>1 DEF ValueNodes
  <2>2. n \in Nat /\ at \in Nat
    BY <1>3, GraphFacts DEF IInv, ValueNodes
  <2>3. n < at
    BY <2>1, <2>2
  <2> QED BY <1>5, <2>3 DEF Tracks
<1>6. MeaningInv'
  <2>1. Ordered => \A v \in GoodValues : \E w \in [Nat -> Plain] :
          Follows(mal', w, v) /\ (stage' = "lower" => Tracks(nodeRegs', at', w, v))
    BY <1>1, <1>5 DEF Rest, MeaningInv
  <2> QED BY <1>1, <2>1, MeaningNext
<1> QED BY <1>2, <1>4, <1>6 DEF Rest

LEMMA LowerParamRest ==
  ASSUME IInv, Rest, LowerParam
  PROVE  Rest'
<1>1. /\ stage = "lower" /\ NextNode /\ options' = options /\ graph' = graph /\ mds' = mds
      /\ mal' = mal /\ nextReg' = nextReg /\ UNCHANGED <<args, machine>> /\ graph[at].kind = "PARAM"
      /\ nodeRegs' = [nodeRegs EXCEPT ![at] = Cardinality({n \in ParamNodes : n < at})]
  BY DEF LowerParam
<1>2. /\ ShapeInv' /\ SelectedInv' /\ LayoutInv' /\ WaitInv' /\ RunInv' /\ ComputesMeaning'
      /\ ParamTotal' = ParamTotal
  BY <1>1, LowerOthers
<1>3. stage' = "lower" /\ at' = at + 1 /\ at \in Nodes
  BY <1>1, NextFacts
<1>4. NumberInv'
  BY <1>1, <1>2, <1>3 DEF Rest, NumberInv, Numbered
<1>5. ASSUME Ordered, NEW w, NEW v, Follows(mal, w, v), Tracks(nodeRegs, at, w, v)
      PROVE  Tracks(nodeRegs', at', w, v)
  <2> SUFFICES ASSUME NEW n \in ValueNodes, n < at + 1, graph[n].kind # "CONST_INT" PROVE w[nodeRegs'[n]] = v[n]
    BY <1>1, <1>3 DEF Tracks
  <2>1. n \in Nat /\ n \in Nodes /\ at \in Nat /\ DOMAIN nodeRegs = Nodes
    <3>1. nodeRegs \in [Nodes -> 0..nextReg]
      BY <1>1 DEF IInv, LowerInv
    <3>2. n \in Nat /\ n \in Nodes /\ at \in Nat
      BY <1>3, GraphFacts DEF IInv, ValueNodes
    <3> QED BY <3>1, <3>2
  <2>2. CASE n = at
    <3>1. at \in ParamNodes
      BY <1>1, <1>3 DEF ParamNodes
    <3>2. nodeRegs'[at] = graph[at].k
      BY <1>1, <1>3, <1>5, <2>1, <3>1, ParamRank DEF IInv, Rest, Ordered
    <3> QED BY <1>5, <2>2, <3>1, <3>2 DEF Follows
  <2>3. CASE n # at
    <3>1. n < at /\ nodeRegs'[n] = nodeRegs[n]
      BY <1>1, <2>1, <2>3
    <3> QED BY <1>5, <3>1 DEF Tracks
  <2> QED BY <2>2, <2>3
<1>6. MeaningInv'
  <2>1. Ordered => \A v \in GoodValues : \E w \in [Nat -> Plain] :
          Follows(mal', w, v) /\ (stage' = "lower" => Tracks(nodeRegs', at', w, v))
    BY <1>1, <1>5 DEF Rest, MeaningInv
  <2> QED BY <1>1, <2>1, MeaningNext
<1> QED BY <1>2, <1>4, <1>6 DEF Rest

LEMMA MalShaped ==
  ASSUME IInv, Rest
  PROVE  /\ \A i \in DOMAIN mal : ShapedInst(mal[i])
         /\ Ordered => \A i \in DOMAIN mal : /\ RegsOf(mal[i]) \subseteq 0..(nextReg - 1)
                                             /\ mal[i].op # "RET" => mal[i].dst \in 0..(nextReg - 1)
<1>1. LowerInv /\ Numbered(mal)
  BY DEF IInv, Rest, NumberInv
<1>2. \A i \in DOMAIN mal : ShapedInst(mal[i])
  BY <1>1, MalFacts DEF Numbered, ShapedInst
<1>3. \A i \in DOMAIN mal : mal[i].op # "RET" => mal[i].dst # MAL_INVALID_REG
  BY <1>1 DEF LowerInv, MalOK
<1>4. Ordered => mal_verify_ssa
  BY DEF IInv, Ordered
<1> QED BY <1>2, <1>3, <1>4 DEF mal_verify_ssa

\* u is w with the value x for the next register.
Extends(u, w, x, v) ==
  u \in [Nat -> Plain] /\ Follows(mal, u, v) /\ u[nextReg] = x /\ \A r \in 0..(nextReg - 1) : u[r] = w[r]

LEMMA Extended ==
  ASSUME IInv, Rest, Ordered, stage = "lower", NEW v, NEW w, w \in [Nat -> Plain], Follows(mal, w, v),
         NEW x, x \in Plain
  PROVE  \E u : Extends(u, w, x, v)
<1>1. /\ nextReg \in Nat /\ nextReg >= ParamTotal /\ ParamTotal \in Nat
      /\ \A n \in ParamNodes : graph[n].k \in 0..(ParamTotal - 1)
  BY ParamIndices DEF IInv, Rest, LowerInv, ParamTotal
<1>2. PICK u : u = [w EXCEPT ![nextReg] = x]
  OBVIOUS
<1>3. u \in [Nat -> Plain] /\ u[nextReg] = x /\ \A r \in 0..(nextReg - 1) : u[r] = w[r]
  BY <1>1, <1>2
<1>4. \A n \in ParamNodes : u[graph[n].k] = v[n]
  <2> SUFFICES ASSUME NEW n \in ParamNodes PROVE u[graph[n].k] = v[n]
    OBVIOUS
  <2>1. graph[n].k \in 0..(nextReg - 1)
    BY <1>1
  <2> QED BY <1>3, <2>1 DEF Follows
<1>5. ASSUME NEW i \in DOMAIN mal PROVE Holds(mal[i], u, v[Returned])
  <2>1. PICK inst : inst = mal[i]
    OBVIOUS
  <2>2. ShapedInst(inst) /\ Holds(inst, w, v[Returned])
    BY <2>1, MalShaped DEF Follows
  <2>3. (\A r \in RegsOf(inst) : u[r] = w[r]) /\ (inst.op # "RET" => u[inst.dst] = w[inst.dst])
    BY <1>3, <2>1, MalShaped
  <2> QED BY <2>1, <2>2, <2>3, HoldsSame
<1>6. Follows(mal, u, v)
  BY <1>4, <1>5 DEF Follows
<1> QED BY <1>3, <1>6 DEF Extends

\* Lowered operands have the values of their nodes.
LEMMA OperandValue ==
  ASSUME IInv, Rest, Ordered, stage = "lower", NEW v \in GoodValues, NEW w, NEW u, Tracks(nodeRegs, at, w, v),
         \A r \in 0..(nextReg - 1) : u[r] = w[r], NEW n \in ValueNodes, n < at
  PROVE  Arg(mal_operand_from_wil_input(n), u) = v[n]
<1>1. CASE graph[n].kind = "CONST_INT"
  <2>1. v[n] = VM!FromInt(Narrow(graph[n].k))
    BY <1>1 DEF GoodValues, NodeHolds
  <2>2. mal_operand_from_wil_input(n) = [kind |-> "imm", n |-> graph[n].k]
    BY <1>1 DEF mal_operand_from_wil_input, Imm
  <2> QED BY <2>1, <2>2 DEF Arg
<1>2. CASE graph[n].kind # "CONST_INT"
  <2>1. mal_operand_from_wil_input(n) = [kind |-> "reg", n |-> nodeRegs[n]]
    BY <1>2 DEF mal_operand_from_wil_input, Reg
  <2>2. w[nodeRegs[n]] = v[n]
    BY <1>2 DEF Tracks
  <2>3. nodeRegs[n] \in 0..(nextReg - 1)
    BY <1>2 DEF IInv, Ordered, Lowered, Defined
  <2> QED BY <2>1, <2>2, <2>3 DEF Arg
<1> QED BY <1>1, <1>2

\* The opcodes of operators.
LEMMA OpcodeFacts ==
  ASSUME NEW kind \in OperatorKinds, NEW op, op = mal_opcode_from_wil(kind)
  PROVE  /\ op \notin {"RET", "COPY"} /\ (op = "XOR" => kind = "XOR")
         /\ kind \in UnaryKinds => op = kind /\ op \in SingleOps
         /\ kind \in BinaryKinds => op \notin SingleOps /\ op \notin UnaryKinds /\ MachineOp(op) = kind
BY DEF OperatorKinds, UnaryKinds, BinaryKinds, ArithKinds, CompareKinds, mal_opcode_from_wil, MachineOp, SingleOps

\* One more instruction.
LEMMA FollowsAppend ==
  ASSUME NEW m \in Seq(MalRecord), NEW inst \in MalRecord, NEW w, NEW v,
         Follows(m, w, v), Holds(inst, w, v[Returned])
  PROVE  Follows(Append(m, inst), w, v)
<1>1. PICK a : a = Append(m, inst)
  OBVIOUS
<1>2. DOMAIN m = 1..Len(m) /\ DOMAIN a = 1..(Len(m) + 1) /\ Len(m) \in Nat
      /\ (\A i \in 1..Len(m) : a[i] = m[i]) /\ a[Len(m) + 1] = inst
  BY <1>1
<1>3. ASSUME NEW i \in DOMAIN a PROVE Holds(a[i], w, v[Returned])
  <2>1. i \in 1..Len(m) \/ i = Len(m) + 1
    BY <1>2
  <2>2. \A j \in 1..Len(m) : Holds(m[j], w, v[Returned])
    BY <1>2 DEF Follows
  <2>3. CASE i \in 1..Len(m)
    <3>1. a[i] = m[i] /\ Holds(m[i], w, v[Returned])
      BY <1>2, <2>2, <2>3
    <3> QED BY <3>1
  <2>4. CASE i = Len(m) + 1
    <3>1. a[i] = inst
      BY <1>2, <2>4
    <3> QED BY <3>1
  <2> QED BY <2>1, <2>3, <2>4
<1> QED BY <1>1, <1>3 DEF Follows

LEMMA NumberedAppend ==
  ASSUME NEW m \in Seq(MalRecord), NEW inst \in MalRecord, Numbered(m), ParamTotal \in Nat,
         inst.op # "RET" => inst.dst = ParamTotal + Len(m), inst.op # "XOR",
         Len(inst.ops) = IF inst.op \in SingleOps THEN 1 ELSE 2
  PROVE  /\ Numbered(Append(m, inst)) /\ Append(m, inst) \in Seq(MalRecord) /\ Len(Append(m, inst)) = Len(m) + 1
         /\ Append(m, inst)[Len(m) + 1] = inst /\ \A i \in 1..Len(m) : Append(m, inst)[i] = m[i]
<1>1. PICK a : a = Append(m, inst)
  OBVIOUS
<1>2. /\ DOMAIN m = 1..Len(m) /\ DOMAIN a = 1..(Len(m) + 1) /\ Len(m) \in Nat /\ Len(a) = Len(m) + 1
      /\ (\A i \in 1..Len(m) : a[i] = m[i]) /\ a[Len(m) + 1] = inst /\ a \in Seq(MalRecord)
  BY <1>1
<1>3. ASSUME NEW i \in DOMAIN a
      PROVE  /\ a[i].op # "RET" => a[i].dst = ParamTotal + (i - 1)
             /\ Len(a[i].ops) = IF a[i].op \in SingleOps THEN 1 ELSE 2
             /\ a[i].op # "XOR"
  <2>1. i \in 1..Len(m) \/ i = Len(m) + 1
    BY <1>2
  <2>2. CASE i \in 1..Len(m)
    <3>1. a[i] = m[i] /\ i \in DOMAIN m
      BY <1>2, <2>2
    <3> QED BY <3>1 DEF Numbered
  <2>3. CASE i = Len(m) + 1
    <3>1. a[i] = inst /\ i - 1 = Len(m)
      BY <1>2, <2>3
    <3> QED BY <3>1
  <2> QED BY <2>1, <2>2, <2>3
<1> QED BY <1>1, <1>2, <1>3 DEF Numbered

\* The instruction of an operator.
LEMMA LoweredInst ==
  ASSUME IInv, Rest, Supported, stage = "lower", at \in Nodes, graph[at].kind \in OperatorKinds,
         NEW inst, inst = Inst(mal_opcode_from_wil(graph[at].kind), nextReg,
                    [j \in DOMAIN graph[at].ins |-> mal_operand_from_wil_input(graph[at].ins[j])])
  PROVE  /\ inst \in MalRecord /\ inst.op = mal_opcode_from_wil(graph[at].kind) /\ inst.dst = nextReg
         /\ inst.op # "RET" /\ inst.op # "XOR" /\ Len(inst.ops) = IF inst.op \in SingleOps THEN 1 ELSE 2
         /\ at \in ValueNodes
         /\ inst.ops[1] = mal_operand_from_wil_input(graph[at].ins[1])
         /\ graph[at].kind \in BinaryKinds => inst.ops[2] = mal_operand_from_wil_input(graph[at].ins[2])
<1>1. GraphInv /\ ShapeInv /\ nextReg \in Nat
  BY DEF IInv, Rest, LowerInv
<1>kind. PICK kind \in OperatorKinds : kind = graph[at].kind
  OBVIOUS
<1>2. PICK op : kind = graph[at].kind /\ op = mal_opcode_from_wil(kind)
  BY <1>kind
<1>3. PICK s \in Seq(Nat) : s = graph[at].ins
  BY <1>1, GraphFacts
<1>4. /\ DOMAIN s = 1..Len(s) /\ Len(s) \in Nat /\ \A j \in DOMAIN s : s[j] \in ValueNodes
      /\ Len(s) = IF kind \in UnaryKinds THEN 1 ELSE 2
  BY <1>1, <1>2, <1>3 DEF GraphInv, ShapeInv
<1>5. PICK ops : ops = [j \in 1..Len(s) |-> mal_operand_from_wil_input(s[j])]
  OBVIOUS
<1>6. inst = Inst(op, nextReg, ops)
  BY <1>2, <1>3, <1>4, <1>5
<1>7. ops \in [1..Len(s) -> Operand]
  BY <1>4, <1>5, OperandFacts
<1>8. ops \in Seq(Operand) /\ Len(ops) = Len(s)
  <2>1. PICK k \in Nat : k = Len(s) /\ ops \in [1..k -> Operand]
    BY <1>4, <1>7
  <2>2. ops \in Seq(Operand)
    BY <2>1, SeqDef
  <2>3. DOMAIN ops = 1..k
    BY <2>1
  <2> QED BY <2>1, <2>2, <2>3
<1>9. /\ op \notin {"RET", "COPY"} /\ (op = "XOR" => kind = "XOR")
      /\ kind \in UnaryKinds => op = kind /\ op \in SingleOps
      /\ kind \in BinaryKinds => op \notin SingleOps
      /\ kind \in UnaryKinds \/ kind \in BinaryKinds
  BY <1>2, OpcodeFacts DEF OperatorKinds
<1>10. op # "XOR"
  <2>1. kind \in Kinds /\ options \in Options
    BY <1>1, <1>2 DEF ShapeInv, GraphInv
  <2>2. kind # "XOR"
    BY <2>1 DEF Supported, Kinds
  <2> QED BY <1>9, <2>2
<1>11. op \in {"RET", "COPY", "SDIV", "SREM", "ASHR"} \cup OperatorKinds
  BY <1>2 DEF mal_opcode_from_wil
<1>12. inst \in MalRecord /\ inst.op = op /\ inst.dst = nextReg /\ inst.ops = ops
  BY <1>1, <1>6, <1>8, <1>11 DEF Inst, MalRecord
<1>13. Len(ops) = IF op \in SingleOps THEN 1 ELSE 2
  BY <1>4, <1>8, <1>9, KindNames
<1>14. at \in ValueNodes
  BY <1>2, KindNames DEF ValueNodes
<1>15. ops[1] = mal_operand_from_wil_input(s[1]) /\ (kind \in BinaryKinds => ops[2] = mal_operand_from_wil_input(s[2]))
  <2>1. kind \in BinaryKinds => Len(s) = 2
    BY <1>4, KindNames
  <2>2. 1 \in 1..Len(s) /\ (kind \in BinaryKinds => 2 \in 1..Len(s))
    BY <1>4, <2>1
  <2> QED BY <1>5, <2>2
<1> QED BY <1>2, <1>3, <1>9, <1>10, <1>12, <1>13, <1>14, <1>15

\* The instruction says what its node says.
LEMMA LoweredHolds ==
  ASSUME IInv, Rest, Supported, Ordered, stage = "lower", at \in Nodes, graph[at].kind \in OperatorKinds,
         NEW inst, inst = Inst(mal_opcode_from_wil(graph[at].kind), nextReg,
                    [j \in DOMAIN graph[at].ins |-> mal_operand_from_wil_input(graph[at].ins[j])]),
         NEW v \in GoodValues, NEW w, NEW u, Tracks(nodeRegs, at, w, v),
         \A r \in 0..(nextReg - 1) : u[r] = w[r], u[nextReg] = v[at], NEW ret
  PROVE  Holds(inst, u, ret)
<1>1. /\ inst.op = mal_opcode_from_wil(graph[at].kind) /\ inst.dst = nextReg /\ at \in ValueNodes
      /\ inst.ops[1] = mal_operand_from_wil_input(graph[at].ins[1])
      /\ graph[at].kind \in BinaryKinds => inst.ops[2] = mal_operand_from_wil_input(graph[at].ins[2])
  BY LoweredInst
<1>2. /\ graph[at].ins[1] \in ValueNodes /\ graph[at].ins[1] < at
      /\ graph[at].kind \in BinaryKinds => graph[at].ins[2] \in ValueNodes /\ graph[at].ins[2] < at
  BY <1>1, NodeFacts DEF IInv, Rest, Ordered
<1>3. Arg(inst.ops[1], u) = v[graph[at].ins[1]]
  BY <1>1, <1>2, OperandValue
<1>4. graph[at].kind \in BinaryKinds => Arg(inst.ops[2], u) = v[graph[at].ins[2]]
  BY <1>1, <1>2, OperandValue
<1>5. NodeHolds(at, v)
  BY <1>1 DEF GoodValues
<1>6. /\ inst.op \notin {"RET", "COPY"}
      /\ graph[at].kind \in UnaryKinds => inst.op = graph[at].kind /\ inst.op \in SingleOps
      /\ graph[at].kind \in BinaryKinds =>
           inst.op \notin SingleOps /\ inst.op \notin UnaryKinds /\ MachineOp(inst.op) = graph[at].kind
      /\ graph[at].kind \in UnaryKinds \/ graph[at].kind \in BinaryKinds
  BY <1>1, OpcodeFacts DEF OperatorKinds
<1>7. CASE graph[at].kind \in UnaryKinds
  BY <1>1, <1>3, <1>5, <1>6, <1>7 DEF Holds, NodeHolds
<1>8. CASE graph[at].kind \in BinaryKinds
  BY <1>1, <1>3, <1>4, <1>5, <1>6, <1>8 DEF Holds, NodeHolds
<1> QED BY <1>6, <1>7, <1>8

LEMMA LowerOperatorRest ==
  ASSUME IInv, Rest, Supported, LowerOperator
  PROVE  Rest'
<1>1. PICK inst : inst = Inst(mal_opcode_from_wil(graph[at].kind), nextReg,
                    [j \in DOMAIN graph[at].ins |-> mal_operand_from_wil_input(graph[at].ins[j])])
  OBVIOUS
<1>2. /\ stage = "lower" /\ NextNode /\ options' = options /\ graph' = graph /\ mds' = mds
      /\ mal' = Append(mal, inst) /\ nodeRegs' = [nodeRegs EXCEPT ![at] = nextReg] /\ nextReg' = nextReg + 1
      /\ UNCHANGED <<args, machine>> /\ graph[at].kind \in OperatorKinds
  BY <1>1 DEF LowerOperator, OperatorKinds
<1>3. /\ ShapeInv' /\ SelectedInv' /\ LayoutInv' /\ WaitInv' /\ RunInv' /\ ComputesMeaning'
      /\ ParamTotal' = ParamTotal /\ ParamTotal \in Nat
  BY <1>2, LowerOthers
<1>4. stage' = "lower" /\ at' = at + 1 /\ at \in Nodes
  BY <1>2, NextFacts, KindNames
<1>5. /\ inst \in MalRecord /\ inst.op = mal_opcode_from_wil(graph[at].kind) /\ inst.dst = nextReg
      /\ inst.op # "RET" /\ inst.op # "XOR" /\ Len(inst.ops) = IF inst.op \in SingleOps THEN 1 ELSE 2
      /\ at \in ValueNodes
  BY <1>1, <1>2, <1>4, LoweredInst
<1>6. /\ mal \in Seq(MalRecord) /\ nextReg \in Nat /\ nodeRegs \in [Nodes -> 0..nextReg]
      /\ Numbered(mal) /\ nextReg = ParamTotal + Len(mal) /\ \A i \in DOMAIN mal : mal[i].op # "RET"
  BY <1>2 DEF IInv, Rest, LowerInv, MalOK, NumberInv
<1>7. NumberInv'
  <2>1. /\ Numbered(mal') /\ mal' \in Seq(MalRecord) /\ Len(mal') = Len(mal) + 1
        /\ mal'[Len(mal) + 1] = inst /\ \A i \in 1..Len(mal) : mal'[i] = mal[i]
    BY <1>2, <1>3, <1>5, <1>6, NumberedAppend
  <2>2. DOMAIN mal' = 1..(Len(mal) + 1) /\ DOMAIN mal = 1..Len(mal) /\ Len(mal) \in Nat
    BY <1>6, <2>1
  <2>3. \A i \in DOMAIN mal' : mal'[i].op # "RET"
    BY <1>5, <1>6, <2>1, <2>2
  <2>4. nextReg' = ParamTotal' + Len(mal')
    BY <1>2, <1>3, <1>6, <2>1, <2>2
  <2>5. Numbered(mal)'
    BY <1>3, <2>1 DEF Numbered
  <2> QED BY <1>4, <2>3, <2>4, <2>5 DEF NumberInv
<1>8. ASSUME Ordered, NEW v \in GoodValues
      PROVE  \E u \in [Nat -> Plain] : Follows(mal', u, v) /\ Tracks(nodeRegs', at', u, v)
  <2>1. PICK w \in [Nat -> Plain] : Follows(mal, w, v) /\ Tracks(nodeRegs, at, w, v)
    BY <1>2, <1>8 DEF Rest, MeaningInv
  <2>2. v[at] \in Plain
    BY <1>5 DEF GoodValues
  <2>3. PICK u \in [Nat -> Plain] :
          Follows(mal, u, v) /\ u[nextReg] = v[at] /\ \A r \in 0..(nextReg - 1) : u[r] = w[r]
    <3>1. PICK x \in Plain : x = v[at]
      BY <2>2
    <3>2. \E u : Extends(u, w, x, v)
      <4>1. stage = "lower" /\ Ordered /\ Follows(mal, w, v)
        BY <1>2, <1>8, <2>1
      <4> QED BY <4>1, Extended
    <3> QED BY <3>1, <3>2 DEF Extends
  <2>4. Holds(inst, u, v[Returned])
    BY <1>1, <1>2, <1>4, <1>8, <2>1, <2>3, LoweredHolds
  <2>5. Follows(mal', u, v)
    BY <1>2, <1>5, <1>6, <2>3, <2>4, FollowsAppend
  <2>6. Tracks(nodeRegs', at', u, v)
    <3> SUFFICES ASSUME NEW n \in ValueNodes, n < at + 1, graph[n].kind # "CONST_INT" PROVE u[nodeRegs'[n]] = v[n]
      BY <1>4 DEF Tracks
    <3>1. n \in Nat /\ n \in Nodes /\ at \in Nat
      BY <1>4, GraphFacts DEF IInv, ValueNodes
    <3>2. CASE n = at
      BY <1>2, <1>6, <2>3, <3>1, <3>2
    <3>3. CASE n # at
      <4>1. n < at /\ nodeRegs'[n] = nodeRegs[n]
        BY <1>2, <1>6, <3>1, <3>3
      <4>2. nodeRegs[n] \in 0..(nextReg - 1)
        BY <1>2, <1>8, <4>1 DEF IInv, Ordered, Lowered, Defined
      <4>3. w[nodeRegs[n]] = v[n]
        BY <2>1, <4>1 DEF Tracks
      <4> QED BY <2>3, <4>1, <4>2, <4>3
    <3> QED BY <3>2, <3>3
  <2> QED BY <2>5, <2>6
<1>9. MeaningInv'
  <2>1. Ordered => \A v \in GoodValues : \E w \in [Nat -> Plain] :
          Follows(mal', w, v) /\ (stage' = "lower" => Tracks(nodeRegs', at', w, v))
    BY <1>8
  <2> QED BY <1>2, <2>1, MeaningNext
<1> QED BY <1>3, <1>7, <1>9 DEF Rest

\* The return instruction, after a copy if it returns a constant.
LEMMA LowerReturnRest ==
  ASSUME IInv, Rest, LowerReturn
  PROVE  Rest'
<1>1. PICK value, copy, ret, o :
        /\ value = mal_operand_from_wil_input(graph[at].ins[2]) /\ o = Reg(nextReg)
        /\ copy = Inst("COPY", nextReg, <<value>>)
        /\ ret = Inst("RET", MAL_INVALID_REG, IF value.kind = "reg" THEN <<value>> ELSE <<o>>)
  OBVIOUS
<1>2. /\ stage = "lower" /\ NextNode /\ options' = options /\ graph' = graph /\ mds' = mds
      /\ nodeRegs' = nodeRegs /\ UNCHANGED <<args, machine>> /\ graph[at].kind = "RETURN"
      /\ \/ value.kind = "reg" /\ mal' = Append(mal, ret)
         \/ value.kind = "imm" /\ mal' = mal \o <<copy, ret>>
  BY <1>1 DEF LowerReturn
<1>3. /\ ShapeInv' /\ SelectedInv' /\ LayoutInv' /\ WaitInv' /\ RunInv' /\ ComputesMeaning'
      /\ ParamTotal' = ParamTotal /\ ParamTotal \in Nat
  BY <1>2, LowerOthers
<1>4. stage' \in {"ssa", "peephole"} /\ at \in Nodes /\ at = Len(graph)
  <2>1. at \in Nodes
    BY <1>2, NextFacts
  <2>2. at = Len(graph) /\ Len(graph) \in Nat
    BY <1>2, <2>1, GraphFacts DEF IInv, Rest, ShapeInv
  <2> QED BY <1>2, <2>1, <2>2 DEF NextNode
<1>5. /\ mal \in Seq(MalRecord) /\ nextReg \in Nat
      /\ Numbered(mal) /\ nextReg = ParamTotal + Len(mal) /\ \A i \in DOMAIN mal : mal[i].op # "RET"
  BY <1>2 DEF IInv, Rest, LowerInv, MalOK, NumberInv
<1>6. Returned \in ValueNodes /\ (Ordered => Returned < at) /\ Returned = graph[at].ins[2]
  <2>1. Len(graph[at].ins) = 2 /\ Returned \in ValueNodes /\ Returned = graph[at].ins[2]
    BY <1>2, <1>4 DEF IInv, GraphInv, Returned
  <2>2. 2 \in DOMAIN graph[at].ins
    BY <1>4, <2>1, GraphFacts DEF IInv
  <2> QED BY <1>4, <2>1, <2>2 DEF Scheduled, Ordered
<1>7. value \in Operand /\ o \in Operand /\ o.kind = "reg" /\ o.n = nextReg
  <2>1. value \in Operand
    BY <1>1, <1>2, <1>6, OperandFacts
  <2> QED BY <1>1, <1>5, <2>1 DEF Reg, Operand
<1>8. PICK q \in Operand : /\ ret = Inst("RET", MAL_INVALID_REG, <<q>>)
                           /\ value.kind = "reg" => q = value
                           /\ value.kind = "imm" => q = o
  BY <1>1, <1>7
<1>9. ret \in MalRecord /\ ret.op = "RET" /\ ret.ops = <<q>> /\ Len(ret.ops) = 1 /\ ret.ops[1] = q
  <2>1. MAL_INVALID_REG \in Nat \cup {-1}
    BY DEF MAL_INVALID_REG
  <2>2. ret \in MalRecord /\ ret.op = "RET" /\ ret.ops = <<q>>
    BY <1>8, <2>1, SingleOperand
  <2> QED BY <2>2
<1>10. copy \in MalRecord /\ copy.op = "COPY" /\ copy.dst = nextReg /\ Len(copy.ops) = 1 /\ copy.ops[1] = value
  <2>1. PICK dst \in Nat \cup {-1} : dst = nextReg
    BY <1>5
  <2>2. copy \in MalRecord /\ copy.op = "COPY" /\ copy.dst = dst /\ copy.ops = <<value>>
    BY <1>1, <1>7, <2>1, SingleOperand
  <2> QED BY <2>1, <2>2
<1>11. PICK mid \in Seq(MalRecord) :
         /\ mal' = Append(mid, ret) /\ Numbered(mid) /\ \A i \in DOMAIN mid : mid[i].op # "RET"
         /\ value.kind = "reg" => mid = mal
         /\ value.kind = "imm" => mid = Append(mal, copy)
  <2>1. CASE value.kind = "reg"
    BY <1>2, <1>5, <2>1
  <2>2. CASE value.kind = "imm"
    <3>1. mal' = mal \o <<copy, ret>>
      BY <1>2, <2>2
    <3>2. mal \o <<copy, ret>> = Append(Append(mal, copy), ret)
      BY <1>5, <1>9, <1>10
    <3>3. copy.op \in SingleOps /\ copy.op # "XOR" /\ copy.op # "RET"
      BY <1>10 DEF SingleOps
    <3>4. /\ Numbered(Append(mal, copy)) /\ Append(mal, copy) \in Seq(MalRecord)
          /\ Len(Append(mal, copy)) = Len(mal) + 1
          /\ Append(mal, copy)[Len(mal) + 1] = copy /\ \A i \in 1..Len(mal) : Append(mal, copy)[i] = mal[i]
      <4>1. copy.dst = ParamTotal + Len(mal) /\ Len(copy.ops) = IF copy.op \in SingleOps THEN 1 ELSE 2
        BY <1>5, <1>10, <3>3
      <4> QED BY <1>3, <1>5, <1>10, <3>3, <4>1, NumberedAppend
    <3>5. PICK a \in Seq(MalRecord) : a = Append(mal, copy)
      BY <3>4
    <3>6. DOMAIN a = 1..(Len(mal) + 1) /\ DOMAIN mal = 1..Len(mal) /\ Len(mal) \in Nat
      BY <1>5, <3>4, <3>5
    <3>7. ASSUME NEW i \in DOMAIN a PROVE a[i].op # "RET"
      <4>1. CASE i = Len(mal) + 1
        BY <3>3, <3>4, <3>5, <4>1
      <4>2. CASE i \in 1..Len(mal)
        BY <1>5, <3>4, <3>5, <3>6, <4>2
      <4> QED BY <3>6, <4>1, <4>2
    <3> QED BY <2>2, <3>1, <3>2, <3>4, <3>5, <3>7
  <2> QED BY <1>2, <2>1, <2>2
<1>12. NumberInv'
  <2>1. ret.op \in SingleOps /\ ret.op # "XOR"
    BY <1>9 DEF SingleOps
  <2>2. /\ Numbered(mal') /\ mal' \in Seq(MalRecord) /\ Len(mal') = Len(mid) + 1
        /\ mal'[Len(mid) + 1] = ret /\ \A i \in 1..Len(mid) : mal'[i] = mid[i]
    BY <1>3, <1>9, <1>11, <2>1, NumberedAppend
  <2>3. DOMAIN mal' = 1..(Len(mid) + 1) /\ DOMAIN mid = 1..Len(mid) /\ Len(mid) \in Nat
    BY <1>11, <2>2
  <2>4. ASSUME NEW i \in DOMAIN mal' PROVE mal'[i].op = "RET" <=> i = Len(mal')
    <3>1. CASE i = Len(mid) + 1
      BY <1>9, <2>2, <3>1
    <3>2. CASE i \in 1..Len(mid)
      <4>1. i # Len(mal') /\ i \in DOMAIN mid /\ mal'[i] = mid[i]
        BY <2>2, <2>3, <3>2
      <4> QED BY <1>11, <4>1
    <3> QED BY <2>3, <3>1, <3>2
  <2>5. Numbered(mal)'
    BY <1>3, <2>2 DEF Numbered
  <2> QED BY <1>4, <2>4, <2>5 DEF NumberInv
<1>13. ASSUME Ordered, NEW v \in GoodValues PROVE \E u \in [Nat -> Plain] : Follows(mal', u, v)
  <2>1. PICK w \in [Nat -> Plain] : Follows(mal, w, v) /\ Tracks(nodeRegs, at, w, v)
    BY <1>2, <1>13 DEF Rest, MeaningInv
  <2>2. PICK x \in Plain : x = v[Returned]
    BY <1>6 DEF GoodValues
  <2>3. PICK u \in [Nat -> Plain] :
          Follows(mal, u, v) /\ u[nextReg] = x /\ \A r \in 0..(nextReg - 1) : u[r] = w[r]
    <3>1. stage = "lower" /\ Ordered /\ Follows(mal, w, v)
      BY <1>2, <1>13, <2>1
    <3>2. \E u : Extends(u, w, x, v)
      BY <3>1, Extended
    <3> QED BY <3>2 DEF Extends
  <2>4. Arg(value, u) = v[Returned]
    <3>1. Arg(mal_operand_from_wil_input(Returned), u) = v[Returned]
      BY <1>2, <1>6, <1>13, <2>1, <2>3, OperandValue
    <3> QED BY <1>1, <1>6, <3>1
  <2>5. Arg(o, u) = v[Returned]
    BY <1>7, <2>2, <2>3 DEF Arg
  <2>6. Holds(ret, u, v[Returned])
    <3>1. Arg(q, u) = v[Returned]
      <4>1. value.kind = "reg" \/ value.kind = "imm"
        BY <1>2
      <4> QED BY <1>8, <2>4, <2>5, <4>1
    <3>2. ret.op \notin UnaryKinds /\ ret.op \in SingleOps /\ ret.op # "COPY"
      BY <1>9 DEF UnaryKinds, SingleOps
    <3> QED BY <1>9, <3>1, <3>2 DEF Holds
  <2>7. Holds(copy, u, v[Returned])
    <3>1. copy.op \notin UnaryKinds /\ copy.op \in SingleOps /\ copy.op # "RET"
      BY <1>10 DEF UnaryKinds, SingleOps
    <3>2. u[copy.dst] = Arg(copy.ops[1], u)
      BY <1>10, <2>2, <2>3, <2>4
    <3> QED BY <1>10, <3>1, <3>2 DEF Holds
  <2>8. Follows(mid, u, v)
    <3>1. CASE value.kind = "reg"
      BY <1>11, <2>3, <3>1
    <3>2. CASE value.kind = "imm"
      BY <1>5, <1>10, <1>11, <2>3, <2>7, <3>2, FollowsAppend
    <3> QED BY <1>2, <3>1, <3>2
  <2>9. Follows(mal', u, v)
    BY <1>9, <1>11, <2>6, <2>8, FollowsAppend
  <2> QED BY <2>9
<1>14. MeaningInv'
  <2>1. Ordered => \A v \in GoodValues : \E w \in [Nat -> Plain] :
          Follows(mal', w, v) /\ (stage' = "lower" => Tracks(nodeRegs', at', w, v))
    BY <1>4, <1>13
  <2> QED BY <1>2, <2>1, MeaningNext
<1> QED BY <1>3, <1>12, <1>14 DEF Rest

-----------------------------------------------------------------------------
(* Verification, peepholes and selection.                                  *)

LEMMA MalRest ==
  ASSUME IInv, Rest, stage \notin {"build", "lower"}, stage' \notin {"build", "lower"},
         UNCHANGED <<options, graph, mal>>
  PROVE  ShapeInv' /\ NumberInv' /\ MeaningInv' /\ ParamTotal' = ParamTotal
<1>1. ShapeInv' /\ ParamTotal' = ParamTotal
  BY ShapeKept, SameMeaning DEF Rest
<1>2. NumberInv'
  BY <1>1 DEF Rest, NumberInv, Numbered
<1>3. Ordered => \A v \in GoodValues : \E w \in [Nat -> Plain] :
        Follows(mal', w, v) /\ (stage' = "lower" => Tracks(nodeRegs', at', w, v))
  BY DEF Rest, MeaningInv
<1> QED BY <1>1, <1>2, <1>3, MeaningNext

\* Nothing has been selected yet, and nothing is.
LEMMA EarlyRest ==
  ASSUME IInv, Rest, stage \in {"ssa", "peephole", "ssa2"}, stage' \in {"ssa2", "peephole", "select", "failed"},
         mds' = mds, UNCHANGED <<args, machine>>
  PROVE  SelectedInv' /\ LayoutInv' /\ WaitInv' /\ RunInv' /\ ComputesMeaning'
<1>1. mds = <<>>
  BY DEF IInv, SelectInv, Early
<1>2. SelectedInv' /\ LayoutInv'
  BY <1>1 DEF SelectedInv, LayoutInv
<1>3. WaitInv' /\ RunInv' /\ ComputesMeaning'
  BY MachineKept DEF Compiling
<1> QED BY <1>2, <1>3

LEMMA VerifyRest ==
  ASSUME IInv, Rest, VerifySSA \/ PeepholesDone
  PROVE  Rest'
<1>1. /\ stage \in {"ssa", "peephole", "ssa2"} /\ stage' \in {"ssa2", "peephole", "select", "failed"}
      /\ mds' = mds /\ UNCHANGED <<options, graph, mal>> /\ UNCHANGED <<args, machine>>
  BY DEF VerifySSA, PeepholesDone
<1>2. ShapeInv' /\ NumberInv' /\ MeaningInv'
  BY <1>1, MalRest
<1> QED BY <1>1, <1>2, EarlyRest DEF Rest

LEMMA RuleTable ==
  ASSUME NEW r \in DOMAIN Rules
  PROVE  \E op : \/ op \in {"ADD", "SUB", "OR", "XOR", "SHL", "ASHR"} /\ Rules[r] = <<op, X, Imm(0), X>>
                 \/ op = "MUL" /\ Rules[r] = <<op, X, Imm(1), X>>
                 \/ op = "ADD" /\ Rules[r] = <<op, Imm(0), X, X>>
                 \/ op = "MUL" /\ Rules[r] = <<op, Imm(1), X, X>>
                 \/ op \in {"MUL", "AND"} /\ Rules[r] = <<op, X, Imm(0), Imm(0)>>
                 \/ op = "MUL" /\ Rules[r] = <<op, Imm(0), X, Imm(0)>>
<1>1. \/ r = 1 \/ r = 2 \/ r = 3 \/ r = 4 \/ r = 5 \/ r = 6
      \/ r = 7 \/ r = 8 \/ r = 9 \/ r = 10 \/ r = 11 \/ r = 12
  BY RuleFacts
<1> QED BY <1>1 DEF Rules

\* The operands of an arithmetic instruction, and its equation.
LEMMA ArithHolds ==
  ASSUME NEW inst, NEW w, NEW ret, Holds(inst, w, ret),
         inst.op \in {"ADD", "SUB", "MUL", "AND", "OR", "XOR", "SHL", "ASHR"}
  PROVE  \E x, y \in Word :
           /\ Arg(inst.ops[1], w) = VM!FromInt(x) /\ Arg(inst.ops[2], w) = VM!FromInt(y)
           /\ w[inst.dst] = VM!FromInt(BinaryInt(MachineOp(inst.op), x, y))
<1>1. inst.op \notin SingleOps
  BY DEF SingleOps, UnaryKinds
<1>2. PICK a, b : /\ a = Arg(inst.ops[1], w) /\ b = Arg(inst.ops[2], w) /\ a \in WordValues /\ b \in WordValues
                  /\ w[inst.dst] = VM!wvm_exec_binary_int(MachineOp(inst.op), a.n, b.n)
  BY <1>1 DEF Holds
<1>3. MachineOp(inst.op) \notin CompareKinds
  BY DEF MachineOp, CompareKinds
<1>4. w[inst.dst] = VM!FromInt(BinaryInt(MachineOp(inst.op), a.n, b.n))
  BY <1>2, <1>3, OpNames DEF VM!wvm_exec_binary_int
<1>5. a.n \in Word /\ b.n \in Word /\ a = VM!FromInt(a.n) /\ b = VM!FromInt(b.n)
  BY <1>2, WordFacts
<1> QED BY <1>2, <1>4, <1>5

\* Every rule of mal_peephole.wrs replaces an instruction by one that follows from it.
LEMMA RuleSound ==
  ASSUME NEW r \in DOMAIN Rules, NEW inst \in MalRecord, mal_mrs_match_rule(Rules[r], inst),
         NEW w, NEW ret, Holds(inst, w, ret), NEW new, new = mal_mrs_build_replacement(Rules[r], inst)
  PROVE  Holds(new, w, ret) /\ Len(new.ops) = 1
<1>1. PICK rule : rule = Rules[r]
  OBVIOUS
<1>2. PICK op : \/ op \in {"ADD", "SUB", "OR", "XOR", "SHL", "ASHR"} /\ rule = <<op, X, Imm(0), X>>
                \/ op = "MUL" /\ rule = <<op, X, Imm(1), X>>
                \/ op = "ADD" /\ rule = <<op, Imm(0), X, X>>
                \/ op = "MUL" /\ rule = <<op, Imm(1), X, X>>
                \/ op \in {"MUL", "AND"} /\ rule = <<op, X, Imm(0), Imm(0)>>
                \/ op = "MUL" /\ rule = <<op, Imm(0), X, Imm(0)>>
  BY <1>1, RuleTable
<1>3. inst.op = op /\ rule[2] \in {X, inst.ops[1]} /\ rule[3] \in {X, inst.ops[2]}
  <2>1. inst.op = rule[1] /\ \A j \in 1..2 : rule[j + 1] \in {X, inst.ops[j]}
    BY <1>1 DEF mal_mrs_match_rule
  <2>2. rule[1] = op
    BY <1>2
  <2>3. 1 \in 1..2 /\ 2 \in 1..2 /\ 1 + 1 = 2 /\ 2 + 1 = 3
    OBVIOUS
  <2> QED BY <2>1, <2>2, <2>3
<1>4. PICK x \in Word, y \in Word :
        /\ Arg(inst.ops[1], w) = VM!FromInt(x) /\ Arg(inst.ops[2], w) = VM!FromInt(y)
        /\ w[inst.dst] = VM!FromInt(BinaryInt(MachineOp(op), x, y))
  <2>1. inst.op \in {"ADD", "SUB", "MUL", "AND", "OR", "XOR", "SHL", "ASHR"}
    BY <1>2, <1>3
  <2> QED BY <1>3, <2>1, ArithHolds
<1>5. X # Imm(0) /\ X # Imm(1)
  BY DEF X, Imm
<1>6. Narrow(0) = 0 /\ Narrow(1) = 1 /\ 0 \in Word /\ 1 \in Word
  BY WordAssumption
<1>7. Arg(Imm(0), w) = VM!FromInt(0) /\ Arg(Imm(1), w) = VM!FromInt(1)
  BY <1>6 DEF Arg, Imm
<1>8. \A a, b \in Word : VM!FromInt(a) = VM!FromInt(b) => a = b
  BY WordFacts
<1>9. PICK o : /\ o = (IF rule[4] # X THEN rule[4] ELSE IF rule[2] = X THEN inst.ops[1] ELSE inst.ops[2])
               /\ new = Inst("COPY", inst.dst, <<o>>)
  BY <1>1 DEF mal_mrs_build_replacement
<1>10. w[inst.dst] = Arg(o, w)
  <2>1. CASE op \in {"ADD", "SUB", "OR", "XOR", "SHL", "ASHR"} /\ rule = <<op, X, Imm(0), X>>
    <3>1. rule[2] = X /\ rule[3] = Imm(0) /\ rule[4] = X
      BY <2>1
    <3>2. inst.ops[2] = Imm(0) /\ o = inst.ops[1]
      BY <1>3, <1>5, <1>9, <3>1
    <3>3. y = 0
      BY <1>4, <1>6, <1>7, <1>8, <3>2
    <3>4. MachineOp(op) \in {"ADD", "SUB", "OR", "XOR", "SHL", "SHR"}
      BY <2>1 DEF MachineOp
    <3>5. BinaryInt(MachineOp(op), x, 0) = x
      BY <3>4, WordAssumption
    <3> QED BY <1>4, <3>2, <3>3, <3>5
  <2>2. CASE op = "MUL" /\ rule = <<op, X, Imm(1), X>>
    <3>1. rule[2] = X /\ rule[3] = Imm(1) /\ rule[4] = X
      BY <2>2
    <3>2. inst.ops[2] = Imm(1) /\ o = inst.ops[1]
      BY <1>3, <1>5, <1>9, <3>1
    <3>3. y = 1 /\ MachineOp(op) = "MUL"
      BY <1>4, <1>6, <1>7, <1>8, <2>2, <3>2 DEF MachineOp
    <3>4. BinaryInt("MUL", x, 1) = x
      BY WordAssumption
    <3> QED BY <1>4, <3>2, <3>3, <3>4
  <2>3. CASE op = "ADD" /\ rule = <<op, Imm(0), X, X>>
    <3>1. rule[2] = Imm(0) /\ rule[3] = X /\ rule[4] = X
      BY <2>3
    <3>2. inst.ops[1] = Imm(0) /\ o = inst.ops[2]
      BY <1>3, <1>5, <1>9, <3>1
    <3>3. x = 0 /\ MachineOp(op) = "ADD"
      BY <1>4, <1>6, <1>7, <1>8, <2>3, <3>2 DEF MachineOp
    <3>4. BinaryInt("ADD", 0, y) = y
      BY WordAssumption
    <3> QED BY <1>4, <3>2, <3>3, <3>4
  <2>4. CASE op = "MUL" /\ rule = <<op, Imm(1), X, X>>
    <3>1. rule[2] = Imm(1) /\ rule[3] = X /\ rule[4] = X
      BY <2>4
    <3>2. inst.ops[1] = Imm(1) /\ o = inst.ops[2]
      BY <1>3, <1>5, <1>9, <3>1
    <3>3. x = 1 /\ MachineOp(op) = "MUL"
      BY <1>4, <1>6, <1>7, <1>8, <2>4, <3>2 DEF MachineOp
    <3>4. BinaryInt("MUL", 1, y) = y
      BY WordAssumption
    <3> QED BY <1>4, <3>2, <3>3, <3>4
  <2>5. CASE op \in {"MUL", "AND"} /\ rule = <<op, X, Imm(0), Imm(0)>>
    <3>1. rule[2] = X /\ rule[3] = Imm(0) /\ rule[4] = Imm(0)
      BY <2>5
    <3>2. inst.ops[2] = Imm(0) /\ o = Imm(0)
      BY <1>3, <1>5, <1>9, <3>1
    <3>3. y = 0
      BY <1>4, <1>6, <1>7, <1>8, <3>2
    <3>4. MachineOp(op) \in {"MUL", "AND"}
      BY <2>5 DEF MachineOp
    <3>5. BinaryInt(MachineOp(op), x, 0) = 0
      BY <3>4, WordAssumption
    <3> QED BY <1>4, <1>7, <3>2, <3>3, <3>5
  <2>6. CASE op = "MUL" /\ rule = <<op, Imm(0), X, Imm(0)>>
    <3>1. rule[2] = Imm(0) /\ rule[3] = X /\ rule[4] = Imm(0)
      BY <2>6
    <3>2. inst.ops[1] = Imm(0) /\ o = Imm(0)
      BY <1>3, <1>5, <1>9, <3>1
    <3>3. x = 0 /\ MachineOp(op) = "MUL"
      BY <1>4, <1>6, <1>7, <1>8, <2>6, <3>2 DEF MachineOp
    <3>4. BinaryInt("MUL", 0, y) = 0
      BY WordAssumption
    <3> QED BY <1>4, <1>7, <3>2, <3>3, <3>4
  <2> QED BY <1>2, <2>1, <2>2, <2>3, <2>4, <2>5, <2>6
<1>11. new.op = "COPY" /\ new.dst = inst.dst /\ new.ops = <<o>> /\ new.ops[1] = o /\ Len(new.ops) = 1
  BY <1>9 DEF Inst
<1>12. "COPY" \notin UnaryKinds /\ "COPY" \in SingleOps
  BY DEF UnaryKinds, SingleOps
<1> QED BY <1>10, <1>11, <1>12 DEF Holds

LEMMA PeepholeRest ==
  ASSUME IInv, Rest, malApplyOnePeephole
  PROVE  Rest'
<1>1. PICK i : i = Min(Matches)
  OBVIOUS
<1>2. PICK r : r = Min({q \in DOMAIN Rules : mal_mrs_match_rule(Rules[q], mal[i])})
  OBVIOUS
<1>3. PICK new : new = mal_mrs_build_replacement(Rules[r], mal[i])
  OBVIOUS
<1>4. /\ stage = "peephole" /\ stage' = stage /\ Matches # {} /\ mal' = [mal EXCEPT ![i] = new]
      /\ mds' = mds /\ UNCHANGED <<options, graph>> /\ UNCHANGED <<args, machine>>
  BY <1>1, <1>2, <1>3 DEF malApplyOnePeephole
<1>5. /\ DOMAIN mal = 1..Len(mal) /\ Len(mal) \in Nat /\ mal \in Seq(MalRecord)
      /\ \A j \in DOMAIN mal : mal[j] \in MalRecord
  BY MalFacts DEF IInv, LowerInv, MalOK
<1>6. i \in DOMAIN mal /\ \E q \in DOMAIN Rules : mal_mrs_match_rule(Rules[q], mal[i])
  <2>1. Matches \in SUBSET Nat
    BY <1>5 DEF Matches
  <2>2. i \in Matches
    BY <1>1, <1>4, <2>1, MinNat
  <2> QED BY <2>2 DEF Matches
<1>7. r \in DOMAIN Rules /\ mal_mrs_match_rule(Rules[r], mal[i])
  <2> DEFINE R == {q \in DOMAIN Rules : mal_mrs_match_rule(Rules[q], mal[i])}
  <2>1. R \in SUBSET Nat /\ R # {} /\ r = Min(R)
    BY <1>2, <1>6, RuleFacts
  <2>2. Min(R) \in R
    <3> HIDE DEF R
    <3> QED BY <2>1, MinNat
  <2> QED BY <2>1, <2>2
<1>8. PICK inst \in MalRecord : inst = mal[i]
  BY <1>5, <1>6
<1>9. new.op = "COPY" /\ inst.op # "RET" /\ new.dst = inst.dst
  BY <1>3, <1>7, <1>8, ReplacementFacts
<1>10. /\ DOMAIN mal' = DOMAIN mal /\ mal'[i] = new /\ \A j \in DOMAIN mal : j # i => mal'[j] = mal[j]
       /\ Len(mal') = Len(mal)
  <2>1. DOMAIN mal' = DOMAIN mal /\ mal'[i] = new /\ \A j \in DOMAIN mal : j # i => mal'[j] = mal[j]
    BY <1>4, <1>5, <1>6
  <2>2. Len(mal') = Len(mal)
    BY <1>4, <1>5
  <2> QED BY <2>1, <2>2
<1>11. ShapeInv' /\ ParamTotal' = ParamTotal
  BY <1>4, ShapeKept, SameMeaning DEF Rest
<1>13. Len(new.ops) = 1
  <2>1. PICK o : new = Inst("COPY", mal[i].dst, <<o>>)
    BY <1>3 DEF mal_mrs_build_replacement
  <2> QED BY <2>1 DEF Inst
<1>14. NumberInv'
  <2>1. NumberInv
    BY DEF Rest
  <2>2. ASSUME NEW j \in DOMAIN mal'
        PROVE  /\ mal'[j].op # "RET" => mal'[j].dst = ParamTotal + (j - 1)
               /\ Len(mal'[j].ops) = IF mal'[j].op \in SingleOps THEN 1 ELSE 2
               /\ mal'[j].op # "XOR"
               /\ mal'[j].op = "RET" <=> j = Len(mal')
    <3>1. CASE j = i
      <4>1. i # Len(mal) /\ mal[i].dst = ParamTotal + (i - 1)
        BY <1>4, <1>6, <1>8, <1>9, <2>1 DEF NumberInv, Numbered
      <4>2. new.op \in SingleOps /\ new.op # "RET" /\ new.op # "XOR"
        BY <1>9 DEF SingleOps
      <4> QED BY <1>8, <1>9, <1>10, <1>13, <3>1, <4>1, <4>2
    <3>2. CASE j # i
      <4>1. mal'[j] = mal[j] /\ j \in DOMAIN mal
        BY <1>10, <3>2
      <4> QED BY <1>4, <1>10, <2>1, <4>1 DEF NumberInv, Numbered
    <3> QED BY <3>1, <3>2
  <2> QED BY <1>4, <1>11, <2>2 DEF NumberInv, Numbered
<1>15. ASSUME Ordered, NEW v \in GoodValues PROVE \E w \in [Nat -> Plain] : Follows(mal', w, v)
  <2>1. PICK w \in [Nat -> Plain] : Follows(mal, w, v)
    BY <1>4, <1>15 DEF Rest, MeaningInv
  <2>2. ASSUME NEW j \in DOMAIN mal' PROVE Holds(mal'[j], w, v[Returned])
    <3>1. Holds(mal[j], w, v[Returned])
      BY <1>10, <2>1 DEF Follows
    <3>2. CASE j = i
      <4>1. Holds(new, w, v[Returned])
        BY <1>3, <1>7, <1>8, <3>1, <3>2, RuleSound
      <4> QED BY <1>10, <3>2, <4>1
    <3>3. CASE j # i
      <4>1. mal'[j] = mal[j]
        BY <1>10, <3>3
      <4> QED BY <3>1, <4>1
    <3> QED BY <3>2, <3>3
  <2>3. Follows(mal', w, v)
    BY <2>1, <2>2 DEF Follows
  <2> QED BY <2>3
<1>16. MeaningInv'
  <2>1. Ordered => \A v \in GoodValues : \E w \in [Nat -> Plain] :
          Follows(mal', w, v) /\ (stage' = "lower" => Tracks(nodeRegs', at', w, v))
    BY <1>4, <1>15
  <2> QED BY <1>4, <2>1, MeaningNext
<1>17. SelectedInv' /\ LayoutInv' /\ WaitInv' /\ RunInv' /\ ComputesMeaning'
  BY <1>4, EarlyRest
<1> QED BY <1>11, <1>14, <1>16, <1>17 DEF Rest

\* The selected instructions are those of the instructions before at.
LEMMA SelectInstRest ==
  ASSUME IInv, Rest, SelectInst
  PROVE  Rest'
<1>1. /\ stage = "select" /\ stage' = stage /\ at <= Len(mal) /\ at' = at + 1
      /\ UNCHANGED <<options, graph, mal>> /\ UNCHANGED <<args, machine>>
  BY DEF SelectInst
<1>match. PICK p \in Patterns :
        /\ mds_pattern_matches_inst(p, mal[at])
        /\ mds' = Append(mds, [mnemonic |-> p[2], ops |->
                    (IF mal[at].dst = MAL_INVALID_REG THEN <<>> ELSE <<Reg(mal[at].dst)>>) \o mal[at].ops])
  BY DEF SelectInst
<1>2. PICK new :
        /\ mds_pattern_matches_inst(p, mal[at]) /\ mds' = Append(mds, new)
        /\ new = [mnemonic |-> p[2], ops |->
                    (IF mal[at].dst = MAL_INVALID_REG THEN <<>> ELSE <<Reg(mal[at].dst)>>) \o mal[at].ops]
  BY <1>match
<1>3. ShapeInv' /\ NumberInv' /\ MeaningInv'
  BY <1>1, MalRest
<1>4. WaitInv' /\ RunInv' /\ ComputesMeaning' /\ LayoutInv'
  BY <1>1, MachineKept DEF Compiling, LayoutInv
<1>5. /\ mds \in Seq(MdsRecord) /\ at \in Nat \ {0} /\ Len(mds) = at - 1
      /\ DOMAIN mal = 1..Len(mal) /\ Len(mal) \in Nat
  BY <1>1, MalFacts DEF IInv, SelectInv
<1>6. PICK k \in Nat : k = Len(mds) /\ k + 1 = at
  BY <1>5
<1>7. /\ DOMAIN mds' = 1..(k + 1) /\ DOMAIN mds = 1..k /\ mds'[k + 1] = new
      /\ \A i \in 1..k : mds'[i] = mds[i]
  BY <1>2, <1>5, <1>6
<1>8. ASSUME NEW i \in DOMAIN mds' PROVE i \in DOMAIN mal' /\ Chosen(i)'
  <2>1. CASE i = k + 1
    <3>1. at \in DOMAIN mal' /\ i = at /\ mds'[i] = new
      BY <1>1, <1>5, <1>6, <1>7, <2>1
    <3>2. /\ mds_pattern_matches_inst(p, mal'[i])
          /\ mds'[i] = [mnemonic |-> p[2], ops |->
               (IF mal'[i].dst = MAL_INVALID_REG THEN <<>> ELSE <<Reg(mal'[i].dst)>>) \o mal'[i].ops]
      BY <1>1, <1>2, <3>1
    <3> QED BY <3>1, <3>2 DEF Chosen
  <2>2. CASE i \in 1..k
    <3>1. i \in DOMAIN mds /\ mds'[i] = mds[i] /\ mal' = mal
      BY <1>1, <1>7, <2>2
    <3>2. i \in DOMAIN mal /\ Chosen(i)
      BY <3>1 DEF Rest, SelectedInv
    <3> QED BY <3>1, <3>2 DEF Chosen
  <2> QED BY <1>7, <2>1, <2>2
<1>9. SelectedInv'
  BY <1>1, <1>8 DEF SelectedInv
<1> QED BY <1>3, <1>4, <1>9 DEF Rest

LEMMA SelectFailsRest ==
  ASSUME IInv, Rest, SelectFails
  PROVE  Rest'
<1>1. /\ stage = "select" /\ stage' = "failed" /\ mds' = mds
      /\ UNCHANGED <<options, graph, mal>> /\ UNCHANGED <<args, machine>>
  BY DEF SelectFails, GiveUp
<1>2. ShapeInv' /\ NumberInv' /\ MeaningInv'
  BY <1>1, MalRest
<1>3. WaitInv' /\ RunInv' /\ ComputesMeaning' /\ LayoutInv'
  BY <1>1, MachineKept DEF Compiling, LayoutInv
<1>4. SelectedInv'
  BY <1>1 DEF Rest, SelectedInv, Chosen
<1> QED BY <1>2, <1>3, <1>4 DEF Rest

LEMMA SelectDoneRest ==
  ASSUME IInv, Rest, SelectDone
  PROVE  Rest'
<1>1. /\ stage = "select" /\ stage' = "encode" /\ at > Len(mal) /\ at' = 1 /\ mds' = mds
      /\ code' = [VM!NoProto EXCEPT !.regCount = wvm_compute_reg_count]
      /\ UNCHANGED <<options, graph, mal>> /\ UNCHANGED <<args, machine>>
  BY DEF SelectDone
<1>2. ShapeInv' /\ NumberInv' /\ MeaningInv'
  BY <1>1, MalRest
<1>3. WaitInv' /\ RunInv' /\ ComputesMeaning'
  BY <1>1, MachineKept DEF Compiling
<1>4. SelectedInv'
  <2>1. /\ mds \in Seq(MdsRecord) /\ at \in Nat \ {0} /\ Len(mds) = at - 1
        /\ DOMAIN mal = 1..Len(mal) /\ Len(mal) \in Nat
    BY <1>1, MalFacts DEF IInv, SelectInv
  <2>2. PICK k \in Nat : k = Len(mds) /\ DOMAIN mds = 1..k /\ k >= Len(mal)
    BY <1>1, <2>1
  <2>3. k <= Len(mal)
    <3>1. CASE k = 0
      BY <2>1, <3>1
    <3>2. CASE k # 0
      <4>1. k \in DOMAIN mds
        BY <2>2, <3>2
      <4>2. k \in DOMAIN mal
        BY <4>1 DEF Rest, SelectedInv
      <4> QED BY <2>1, <4>2
    <3> QED BY <3>1, <3>2
  <2>4. Len(mds) = Len(mal)
    BY <2>1, <2>2, <2>3
  <2> QED BY <1>1, <2>4 DEF Rest, SelectedInv, Chosen
<1>5. LayoutInv'
  <2>1. wvm_compute_reg_count' = wvm_compute_reg_count
    BY <1>1 DEF wvm_compute_reg_count, MaxReg, RegMax
  <2>2. code' = [regCount |-> wvm_compute_reg_count, consts |-> <<>>, instrs |-> <<>>]
    BY <1>1 DEF VM!NoProto
  <2>3. \A S : <<>> \in Seq(S)
    OBVIOUS
  <2>4. /\ code'.regCount = wvm_compute_reg_count' /\ code'.instrs = <<>> /\ code'.consts = <<>>
        /\ code'.instrs \in Seq(CodeRecord) /\ code'.consts \in Seq(PoolValue)
    BY <2>1, <2>2, <2>3
  <2>5. PICK pos : pos = [i \in 1..1 |-> 1]
    OBVIOUS
  <2>6. pos \in [1..1 -> Nat] /\ pos[1] = 1
    BY <2>5
  <2>7. Len(<<>>) = 0 /\ \A i \in 1..(1 - 1) : FALSE
    OBVIOUS
  <2>8. Layout(pos)'
    BY <1>1, <2>4, <2>6, <2>7 DEF Layout
  <2>9. 1 \in 1..(Len(mds) + 1)
    BY DEF IInv, SelectInv
  <2> QED BY <1>1, <2>4, <2>8, <2>9 DEF LayoutInv
<1> QED BY <1>2, <1>3, <1>4, <1>5 DEF Rest

-----------------------------------------------------------------------------
(* Encoding.                                                               *)

\* What the patterns and WVM_EMIT_BIN make of an opcode; OR for XOR apart,
\* the machine's opcode is the one meant, and never a division.
LEMMA PatternOps ==
  ASSUME NEW p \in Patterns, p[1] # "XOR"
  PROVE  \/ p[1] = "RET" /\ p[2] = "ret"
         \/ p[1] = "COPY" /\ p[2] = "mov.rr" /\ p[3] = <<"reg">>
         \/ p[1] = "COPY" /\ p[2] = "mov.ri" /\ p[3] = <<"imm">>
         \/ p[1] = "NEG" /\ p[2] = "neg"
         \/ p[1] = "NOT" /\ p[2] = "not"
         \/ /\ p[1] \notin SingleOps /\ p[2] \in BinMnemonics
            /\ WVM_EMIT_BIN(p[2]) = MachineOp(p[1]) /\ MachineOp(p[1]) \in BinaryKinds \ {"DIV", "MOD"}
<1>1. \/ p[1] = "RET" /\ p[2] = "ret"
      \/ p[1] = "COPY" /\ p[2] = "mov.rr" /\ p[3] = <<"reg">>
      \/ p[1] = "COPY" /\ p[2] = "mov.ri" /\ p[3] = <<"imm">>
      \/ p[1] = "NEG" /\ p[2] = "neg"
      \/ p[1] = "NOT" /\ p[2] = "not"
      \/ p[1] = "ADD" /\ p[2] \in {"add.rr", "add.ri"}
      \/ p[1] = "SUB" /\ p[2] \in {"sub.rr", "sub.ri"}
      \/ p[1] = "MUL" /\ p[2] = "mul.rr"
      \/ p[1] = "AND" /\ p[2] = "and.rr"
      \/ p[1] = "OR" /\ p[2] = "or.rr"
      \/ p[1] = "SHL" /\ p[2] = "shl.ri"
      \/ p[1] = "ASHR" /\ p[2] = "ashr.ri"
      \/ p[1] = "EQ" /\ p[2] = "icmp.eq"
      \/ p[1] = "NE" /\ p[2] = "icmp.ne"
      \/ p[1] = "LT" /\ p[2] = "icmp.slt"
      \/ p[1] = "LE" /\ p[2] = "icmp.sle"
      \/ p[1] = "GT" /\ p[2] = "icmp.sgt"
      \/ p[1] = "GE" /\ p[2] = "icmp.sge"
  BY DEF Patterns
<1>2. /\ \A m \in {"add.rr", "add.ri"} : WVM_EMIT_BIN(m) = "ADD"
      /\ \A m \in {"sub.rr", "sub.ri"} : WVM_EMIT_BIN(m) = "SUB"
      /\ WVM_EMIT_BIN("mul.rr") = "MUL" /\ WVM_EMIT_BIN("and.rr") = "AND" /\ WVM_EMIT_BIN("or.rr") = "OR"
      /\ WVM_EMIT_BIN("shl.ri") = "SHL" /\ WVM_EMIT_BIN("ashr.ri") = "SHR"
      /\ WVM_EMIT_BIN("icmp.eq") = "EQ" /\ WVM_EMIT_BIN("icmp.ne") = "NE" /\ WVM_EMIT_BIN("icmp.slt") = "LT"
      /\ WVM_EMIT_BIN("icmp.sle") = "LE" /\ WVM_EMIT_BIN("icmp.sgt") = "GT" /\ WVM_EMIT_BIN("icmp.sge") = "GE"
  BY DEF WVM_EMIT_BIN
<1>3. /\ \A op \in {"ADD", "SUB", "MUL", "AND", "OR", "SHL", "EQ", "NE", "LT", "LE", "GT", "GE"} :
           /\ MachineOp(op) = op /\ op \notin SingleOps /\ op \in BinaryKinds \ {"DIV", "MOD"}
      /\ MachineOp("ASHR") = "SHR" /\ "ASHR" \notin SingleOps /\ "SHR" \in BinaryKinds \ {"DIV", "MOD"}
  BY DEF MachineOp, SingleOps, UnaryKinds, BinaryKinds, ArithKinds, CompareKinds
<1>4. {"add.rr", "add.ri", "sub.rr", "sub.ri", "mul.rr", "and.rr", "or.rr", "shl.ri", "ashr.ri",
       "icmp.eq", "icmp.ne", "icmp.slt", "icmp.sle", "icmp.sgt", "icmp.sge"} \subseteq BinMnemonics
  BY DEF BinMnemonics
<1> QED BY <1>1, <1>2, <1>3, <1>4

\* The instructions that have been selected.
LEMMA ChosenOps ==
  ASSUME IInv, Rest, NEW i \in DOMAIN mds
  PROVE  /\ i \in DOMAIN mal /\ mal[i] \in MalRecord /\ ShapedInst(mal[i])
         /\ \E p \in Patterns : p[1] = mal[i].op
         /\ mal[i].op \in UnaryKinds \cup {"RET", "COPY"} \/ MachineOp(mal[i].op) \in BinaryKinds \ {"DIV", "MOD"}
         /\ mal[i].op = "RET" => mal[i].ops[1].kind = "reg"
         /\ \A j \in DOMAIN mal[i].ops : j < Len(mal[i].ops) => mal[i].ops[j].kind = "reg"
<1>1. i \in DOMAIN mal /\ Chosen(i) /\ Numbered(mal) /\ LowerInv
  BY DEF Rest, SelectedInv, NumberInv, IInv
<1>2. PICK p \in Patterns : mds_pattern_matches_inst(p, mal[i])
  BY <1>1 DEF Chosen
<1>3. PICK inst \in MalRecord : inst = mal[i]
  BY <1>1, MalFacts
<1>4. p[1] = inst.op /\ inst.op # "XOR"
  BY <1>1, <1>2, <1>3 DEF mds_pattern_matches_inst, Numbered
<1>5. inst.op \in UnaryKinds \cup {"RET", "COPY"} \/ MachineOp(inst.op) \in BinaryKinds \ {"DIV", "MOD"}
  BY <1>4, PatternOps DEF UnaryKinds
<1>6. PICK s \in Seq(Operand) : s = inst.ops
  BY <1>3 DEF MalRecord
<1>7. PICK t : t = p[3] /\ t = [j \in DOMAIN s |-> s[j].kind]
  BY <1>2, <1>3, <1>6 DEF mds_pattern_matches_inst
<1>8. /\ \A a : t = <<a>> => Len(s) = 1 /\ s[1].kind = a
      /\ \A a, b : t = <<a, b>> => Len(s) = 2 /\ s[1].kind = a /\ s[2].kind = b
  BY <1>7, KindFacts
<1>9. \/ inst.op = "RET" /\ t = <<"reg">>
      \/ inst.op # "RET" /\ t = <<"reg">>
      \/ inst.op # "RET" /\ t = <<"imm">>
      \/ inst.op # "RET" /\ t = <<"reg", "reg">>
      \/ inst.op # "RET" /\ t = <<"reg", "imm">>
  BY <1>4, <1>7, PatternFacts
<1>10. inst.op = "RET" => s[1].kind = "reg"
  BY <1>8, <1>9
<1>11. ASSUME NEW j \in DOMAIN s, j < Len(s) PROVE s[j].kind = "reg"
  <2>1. j \in Nat /\ j >= 1
    BY <1>11
  <2>2. CASE Len(s) = 1
    BY <1>11, <2>1, <2>2
  <2>3. CASE Len(s) = 2 /\ s[1].kind = "reg"
    BY <1>11, <2>1, <2>3
  <2> QED BY <1>8, <1>9, <2>2, <2>3
<1>12. ShapedInst(mal[i])
  BY <1>1, MalShaped
<1> QED BY <1>1, <1>2, <1>3, <1>4, <1>5, <1>6, <1>10, <1>11, <1>12

LEMMA OneOrTwo ==
  ASSUME NEW n, n = 1 \/ n = 2
  PROVE  n \in 1..n /\ n >= 1
OBVIOUS

\* The machine instruction of a selected instruction.
LEMMA EmittedIs ==
  ASSUME NEW p \in Patterns, NEW inst \in MalRecord, mds_pattern_matches_inst(p, inst), inst.op # "XOR",
         inst.op = "RET" <=> inst.dst = MAL_INVALID_REG, NEW q,
         inst.dst = MAL_INVALID_REG => q = inst.ops,
         inst.dst # MAL_INVALID_REG => q = <<Reg(inst.dst)>> \o inst.ops,
         NEW new, new = [mnemonic |-> p[2], ops |-> q]
  PROVE  /\ q[Len(q)] = LastOf(inst) /\ LastOf(inst) \in Operand
         /\ \/ Emitted(new) = <<Body(code, inst)>>
            \/ /\ Emitted(new) = <<>> /\ inst.op = "COPY" /\ LastOf(inst).kind = "imm"
               /\ ToReg(inst.dst) = code.regCount - 1
<1>1. p[1] = inst.op /\ p[3] = [j \in DOMAIN inst.ops |-> inst.ops[j].kind] /\ new.mnemonic = p[2] /\ new.ops = q
  BY DEF mds_pattern_matches_inst
<1>2. PICK s \in Seq(Operand) : s = inst.ops
  BY DEF MalRecord
<1>3. PICK t : t = p[3] /\ t = [j \in DOMAIN s |-> s[j].kind]
  BY <1>1, <1>2
<1>4. /\ \A a : t = <<a>> => Len(s) = 1 /\ s[1].kind = a
      /\ \A a, b : t = <<a, b>> => Len(s) = 2 /\ s[1].kind = a /\ s[2].kind = b
  BY <1>3, KindFacts
<1>5. (p[2] \in BinMnemonics => Len(s) = 2) /\ (p[2] \notin BinMnemonics => Len(s) = 1)
  <2>1. \A m \in {"ret", "mov.rr", "mov.ri", "neg", "not"} : m \notin BinMnemonics
    BY DEF BinMnemonics
  <2>2. \/ p[2] \notin BinMnemonics /\ t = <<"reg">>
        \/ p[2] \notin BinMnemonics /\ t = <<"imm">>
        \/ p[2] \in BinMnemonics /\ t = <<"reg", "reg">>
        \/ p[2] \in BinMnemonics /\ t = <<"reg", "imm">>
    BY <1>3, <2>1, PatternFacts
  <2> QED BY <1>4, <2>2
<1>6. LastOf(inst) \in Operand /\ LastOf(inst) = s[Len(s)]
  <2>1. Len(s) \in 1..Len(s)
    BY <1>5, OneOrTwo
  <2> QED BY <1>2, <2>1 DEF LastOf
<1>7. \A o : OperandReg(o) = Source(code, o)
  BY DEF OperandReg, Source, scratchReg
<1>8. CASE inst.op = "RET"
  <2>1. q = s /\ p[2] = "ret" /\ Len(s) = 1
    BY <1>1, <1>2, <1>5, <1>8, PatternFacts DEF BinMnemonics
  <2>2. Emitted(new) = <<Op("RETURN", Source(code, s[1]), 0, 0, 0)>>
    BY <1>1, <1>7, <2>1 DEF Emitted
  <2>3. Body(code, inst) = Op("RETURN", Source(code, s[1]), 0, 0, 0)
    BY <1>2, <1>8 DEF Body, UnaryKinds
  <2> QED BY <1>6, <2>1, <2>2, <2>3
<1>9. CASE inst.op # "RET"
  <2>1. inst.dst \in Nat /\ inst.dst # MAL_INVALID_REG
    BY <1>9 DEF MalRecord, MAL_INVALID_REG
  <2>2. PICK o \in Operand : o = Reg(inst.dst) /\ o.kind = "reg" /\ o.n = inst.dst
    BY <2>1 DEF Reg, Operand
  <2>3. q = <<o>> \o s
    BY <1>2, <2>1, <2>2
  <2>4. /\ q \in Seq(Operand) /\ Len(q) = Len(s) + 1 /\ Len(s) \in Nat
        /\ q[1] = o /\ \A j \in 1..Len(s) : q[j + 1] = s[j]
    BY <2>3, PutBefore
  <2>5. q[2] = s[1] /\ (Len(s) = 2 => q[3] = s[2]) /\ q[Len(q)] = s[Len(s)]
    <3>1. Len(s) >= 1
      BY <1>5, OneOrTwo
    <3>2. 1 \in 1..Len(s) /\ 1 + 1 = 2
      BY <2>4, <3>1
    <3>3. q[2] = s[1]
      BY <2>4, <3>2
    <3>4. Len(s) \in 1..Len(s)
      BY <2>4, <3>1
    <3>5. q[Len(q)] = s[Len(s)]
      BY <2>4, <3>4
    <3>6. Len(s) = 2 => q[3] = s[2]
      BY <2>4, <3>5
    <3> QED BY <3>3, <3>5, <3>6
  <2>6. OperandReg(q[1]) = ToReg(inst.dst)
    BY <2>2, <2>4 DEF OperandReg
  <2>7. PICK d, b, c : d = ToReg(inst.dst) /\ b = Source(code, s[1]) /\ c = Source(code, s[2])
    OBVIOUS
  <2>8. OperandReg(q[1]) = d /\ OperandReg(q[2]) = b /\ (Len(s) = 2 => OperandReg(q[3]) = c)
    BY <1>7, <2>5, <2>6, <2>7
  <2>9. CASE inst.op = "COPY"
    <3>1. Body(code, inst) = Op("MOVE", d, b, 0, 0)
      BY <1>2, <2>7, <2>9 DEF Body, UnaryKinds
    <3>2. p[2] = "mov.rr" \/ (p[2] = "mov.ri" /\ p[3] = <<"imm">>)
      BY <1>1, <2>9, PatternOps DEF SingleOps
    <3>3. CASE p[2] = "mov.rr"
      <4>1. Emitted(new) = <<Op("MOVE", d, b, 0, 0)>>
        BY <1>1, <2>8, <3>3 DEF Emitted
      <4> QED BY <1>6, <2>5, <3>1, <4>1
    <3>4. CASE p[2] = "mov.ri" /\ p[3] = <<"imm">> /\ b # d
      <4>1. Emitted(new) = <<Op("MOVE", d, b, 0, 0)>>
        BY <1>1, <2>8, <3>4 DEF Emitted
      <4> QED BY <1>6, <2>5, <3>1, <4>1
    <3>5. CASE p[2] = "mov.ri" /\ p[3] = <<"imm">> /\ b = d
      <4>1. Emitted(new) = <<>>
        BY <1>1, <2>8, <3>5 DEF Emitted
      <4>2. Len(s) = 1 /\ s[1].kind = "imm"
        BY <1>3, <1>4, <3>5
      <4>3. b = code.regCount - 1
        BY <2>7, <4>2 DEF Source
      <4> QED BY <1>6, <2>5, <2>7, <2>9, <3>5, <4>1, <4>2, <4>3
    <3> QED BY <3>2, <3>3, <3>4, <3>5
  <2>10. CASE inst.op \in UnaryKinds
    <3>1. inst.op \notin {"RET", "COPY"} /\ inst.op \in SingleOps
      BY <2>10 DEF UnaryKinds, SingleOps
    <3>2. Body(code, inst) = Op(inst.op, d, b, 0, 0)
      BY <1>2, <2>7, <2>10, <3>1 DEF Body
    <3>3. (p[2] = "neg" /\ inst.op = "NEG") \/ (p[2] = "not" /\ inst.op = "NOT")
      BY <1>1, <3>1, PatternOps
    <3>4. Emitted(new) = <<Op(inst.op, d, b, 0, 0)>>
      BY <1>1, <2>8, <3>3 DEF Emitted
    <3> QED BY <1>6, <2>5, <3>2, <3>4
  <2>11. CASE inst.op # "COPY" /\ inst.op \notin UnaryKinds
    <3>1. p[2] \in BinMnemonics /\ WVM_EMIT_BIN(p[2]) = MachineOp(inst.op)
      BY <1>1, <1>9, <2>11, PatternOps DEF UnaryKinds
    <3>2. Body(code, inst) = Op(MachineOp(inst.op), d, b, c, 0)
      BY <1>2, <1>9, <2>7, <2>11 DEF Body
    <3>3. p[2] \notin {"ret", "mov.rr", "mov.ri", "neg", "not"} /\ Len(s) = 2
      BY <1>5, <3>1 DEF BinMnemonics
    <3>4. Emitted(new) = <<Op(WVM_EMIT_BIN(p[2]), d, b, c, 0)>>
      BY <1>1, <2>8, <3>3 DEF Emitted
    <3> QED BY <1>6, <2>5, <3>1, <3>2, <3>4
  <2> QED BY <2>9, <2>10, <2>11
<1> QED BY <1>8, <1>9

\* The code of the earlier instructions is not touched.
LEMMA ChunkKept ==
  ASSUME NEW c, NEW d, NEW inst, NEW a \in Nat, NEW b \in Nat, Chunk(c, inst, a, b), c.regCount = d.regCount,
         Len(c.instrs) \in Nat, Len(d.instrs) \in Nat, Len(c.consts) \in Nat, Len(d.consts) \in Nat,
         Len(c.instrs) <= Len(d.instrs), Len(c.consts) <= Len(d.consts),
         \A k \in 1..Len(c.instrs) : d.instrs[k] = c.instrs[k],
         \A k \in 1..Len(c.consts) : d.consts[k] = c.consts[k]
  PROVE  Chunk(d, inst, a, b)
<1>1. Body(d, inst) = Body(c, inst)
  BY DEF Body, Source
<1>2. PICK o : o = LastOf(inst)
  OBVIOUS
<1>3. PICK p : p = BodyAt(inst, a)
  OBVIOUS
<1>4. p \in Nat /\ 1 <= a /\ a <= p
  BY <1>3 DEF BodyAt, Chunk
<1>5. 1 <= a /\ b <= Len(d.instrs) + 1
  BY DEF Chunk
<1>6. ASSUME o.kind = "imm" PROVE a <= Len(d.instrs) /\ Loads(d, a, o)
  <2>1. a <= Len(c.instrs) /\ Loads(c, a, o)
    BY <1>2, <1>6 DEF Chunk
  <2>2. a \in 1..Len(c.instrs) /\ d.instrs[a] = c.instrs[a] /\ a <= Len(d.instrs)
    BY <1>5, <2>1
  <2>3. CASE c.instrs[a] = Op("LOAD_IMM", c.regCount - 1, 0, 0, Narrow(o.n))
    <3>1. Loads(d, a, o)
      BY <2>2, <2>3 DEF Loads
    <3> QED BY <2>2, <3>1
  <2>4. CASE \E k \in 0..(Len(c.consts) - 1) :
               c.instrs[a] = Op("LOAD_CONST", c.regCount - 1, 0, 0, k) /\ c.consts[k + 1] = VM!FromInt(Narrow(o.n))
    <3>1. PICK k \in 0..(Len(c.consts) - 1) :
               c.instrs[a] = Op("LOAD_CONST", c.regCount - 1, 0, 0, k) /\ c.consts[k + 1] = VM!FromInt(Narrow(o.n))
      BY <2>4
    <3>2. k + 1 \in 1..Len(c.consts) /\ k \in 0..(Len(d.consts) - 1)
      OBVIOUS
    <3>3. d.consts[k + 1] = VM!FromInt(Narrow(o.n)) /\ d.instrs[a] = Op("LOAD_CONST", d.regCount - 1, 0, 0, k)
      BY <2>2, <3>1, <3>2
    <3>4. Loads(d, a, o)
      BY <3>2, <3>3 DEF Loads
    <3> QED BY <2>2, <3>4
  <2> QED BY <2>1, <2>3, <2>4 DEF Loads
<1>7. CASE b = p + 1 /\ c.instrs[p] = Body(c, inst)
  <2>1. p \in 1..Len(c.instrs)
    BY <1>4, <1>7 DEF Chunk
  <2>2. d.instrs[p] = Body(d, inst)
    BY <1>1, <1>7, <2>1
  <2> QED BY <1>2, <1>3, <1>5, <1>6, <1>7, <2>2 DEF Chunk
<1>8. CASE b = p /\ inst.op = "COPY" /\ o.kind = "imm" /\ ToReg(inst.dst) = c.regCount - 1
  BY <1>2, <1>3, <1>5, <1>6, <1>8 DEF Chunk
<1> QED BY <1>2, <1>3, <1>7, <1>8 DEF Chunk

\* One or two elements at the end of a sequence.
LEMMA PutAfter ==
  ASSUME NEW S, NEW s \in Seq(S), NEW x, NEW y
  PROVE  /\ s \o <<>> = s /\ Len(s) \in Nat
         /\ Len(s \o <<x>>) = Len(s) + 1 /\ (s \o <<x>>)[Len(s) + 1] = x
         /\ \A k \in 1..Len(s) : (s \o <<x>>)[k] = s[k]
         /\ s \o <<x>> \o <<>> = s \o <<x>>
         /\ Len(s \o <<x>> \o <<y>>) = Len(s) + 2
         /\ (s \o <<x>> \o <<y>>)[Len(s) + 1] = x /\ (s \o <<x>> \o <<y>>)[Len(s) + 2] = y
         /\ \A k \in 1..Len(s) : (s \o <<x>> \o <<y>>)[k] = s[k]
<1>1. PICK T : T = S \cup {x, y}
  OBVIOUS
<1>2. s \in Seq(T) /\ x \in T /\ y \in T
  BY <1>1
<1>3. <<x>> \in Seq(T) /\ <<y>> \in Seq(T) /\ Len(<<x>>) = 1 /\ Len(<<y>>) = 1
  BY <1>2
<1>4. PICK t \in Seq(T) : t = s \o <<x>>
  <2>1. s \o <<x>> \in Seq(T)
    BY <1>2, <1>3, ConcatProperties
  <2> QED BY <2>1
<1>5. Len(t) = Len(s) + 1 /\ Len(s) \in Nat /\ t[Len(s) + 1] = x /\ \A k \in 1..Len(s) : t[k] = s[k]
  BY <1>2, <1>3, <1>4
<1>6. PICK u \in Seq(T) : u = t \o <<y>>
  <2>1. t \o <<y>> \in Seq(T)
    BY <1>3, ConcatProperties
  <2> QED BY <2>1
<1>7. Len(u) = Len(t) + 1 /\ u[Len(t) + 1] = y /\ \A k \in 1..Len(t) : u[k] = t[k]
  BY <1>3, <1>6
<1>8. Len(u) = Len(s) + 2 /\ u[Len(s) + 1] = x /\ u[Len(s) + 2] = y /\ \A k \in 1..Len(s) : u[k] = s[k]
  BY <1>5, <1>7
<1>9. s \o <<>> = s /\ t \o <<>> = t
  BY <1>2, <1>4, ConcatEmptySeq
<1> QED BY <1>4, <1>5, <1>6, <1>8, <1>9

\* The code that wvm_operand_to_reg and wvm_emit_from_mnemonic add.
Added(q, o, e, inst) ==
  /\ code.instrs \in Seq(CodeRecord) /\ code.consts \in Seq(PoolValue)
  /\ q.regCount = code.regCount /\ q.consts = code.consts \o OperandConsts(o)
  /\ q.instrs = code.instrs \o OperandCode(o) \o e
  /\ \/ e = <<Body(code, inst)>>
     \/ e = <<>> /\ inst.op = "COPY" /\ o.kind = "imm" /\ ToReg(inst.dst) = code.regCount - 1

Lengthened(q, inst) ==
  /\ Chunk(q, inst, Len(code.instrs) + 1, Len(q.instrs) + 1)
  /\ Len(code.instrs) \in Nat /\ Len(q.instrs) \in Nat /\ Len(code.consts) \in Nat /\ Len(q.consts) \in Nat
  /\ Len(code.instrs) <= Len(q.instrs) /\ Len(code.consts) <= Len(q.consts)
  /\ \A k \in 1..Len(code.instrs) : q.instrs[k] = code.instrs[k]
  /\ \A k \in 1..Len(code.consts) : q.consts[k] = code.consts[k]

LEMMA NewChunk ==
  ASSUME NEW inst, NEW o \in Operand, o = LastOf(inst), NEW q, NEW e, Added(q, o, e, inst)
  PROVE  Lengthened(q, inst)
<1> USE DEF Added, Lengthened
<1>1. PICK s \in Seq(CodeRecord) : s = code.instrs
  OBVIOUS
<1>2. PICK t \in Seq(PoolValue) : t = code.consts
  OBVIOUS
<1>3. PICK x : x = Body(code, inst)
  OBVIOUS
<1>4. PICK n \in Nat : n = Len(s)
  BY <1>1
<1>5. PICK m \in Nat : m = Len(t)
  BY <1>2
<1>6. Body(q, inst) = x
  BY <1>3 DEF Body, Source
<1>7. CASE o.kind = "reg"
  <2>1. OperandCode(o) = <<>> /\ OperandConsts(o) = <<>> /\ e = <<x>>
    BY <1>3, <1>7 DEF OperandCode, OperandConsts
  <2>2. s \o <<>> = s /\ t \o <<>> = t
    BY PutAfter
  <2>3. PICK u : u = s \o <<x>>
    OBVIOUS
  <2>4. Len(u) = n + 1 /\ u[n + 1] = x /\ \A k \in 1..n : u[k] = s[k]
    BY <1>4, <2>3, PutAfter
  <2>5. q.instrs = u /\ q.consts = t
    BY <1>1, <1>2, <2>1, <2>2, <2>3
  <2>6. BodyAt(inst, n + 1) = n + 1 /\ LastOf(inst).kind # "imm"
    BY <1>7 DEF BodyAt
  <2>7. Chunk(q, inst, n + 1, Len(u) + 1)
    BY <1>6, <2>4, <2>5, <2>6 DEF Chunk
  <2> QED BY <1>1, <1>2, <1>4, <1>5, <2>4, <2>5, <2>7
<1>8. CASE o.kind = "imm"
  <2>1. PICK l, c : /\ OperandCode(o) = <<l>> /\ q.consts = c
                    /\ \/ o.n \in Word /\ c = t /\ l = Op("LOAD_IMM", scratchReg, 0, 0, o.n)
                       \/ o.n \notin Word /\ c = t \o <<VM!FromInt(Narrow(o.n))>> /\ l = Op("LOAD_CONST", scratchReg, 0, 0, m)
    <3>1. CASE o.n \in Word
      <4>1. OperandCode(o) = <<Op("LOAD_IMM", scratchReg, 0, 0, o.n)>> /\ OperandConsts(o) = <<>>
        BY <1>8, <3>1 DEF OperandCode, OperandConsts
      <4>2. t \o <<>> = t
        BY PutAfter
      <4> QED BY <1>2, <3>1, <4>1, <4>2
    <3>2. CASE o.n \notin Word
      <4>1. /\ OperandCode(o) = <<Op("LOAD_CONST", scratchReg, 0, 0, Len(code.consts))>>
            /\ OperandConsts(o) = <<VM!FromInt(Narrow(o.n))>>
        BY <1>8, <3>2 DEF OperandCode, OperandConsts
      <4> QED BY <1>2, <1>5, <3>2, <4>1
    <3> QED BY <3>1, <3>2
  <2>2. /\ Len(c) \in Nat /\ m <= Len(c) /\ \A k \in 1..m : c[k] = t[k]
        /\ \/ l = Op("LOAD_IMM", q.regCount - 1, 0, 0, Narrow(o.n))
           \/ l = Op("LOAD_CONST", q.regCount - 1, 0, 0, m) /\ Len(c) = m + 1 /\ c[m + 1] = VM!FromInt(Narrow(o.n))
    <3>1. CASE o.n \in Word
      <4>1. Narrow(o.n) = o.n
        BY <3>1, WordAssumption
      <4>2. c = t /\ l = Op("LOAD_IMM", q.regCount - 1, 0, 0, o.n)
        BY <2>1, <3>1 DEF scratchReg
      <4>3. Len(c) \in Nat /\ m <= Len(c) /\ \A k \in 1..m : c[k] = t[k]
        BY <1>5, <4>2
      <4> QED BY <4>1, <4>2, <4>3
    <3>2. CASE o.n \notin Word
      <4>1. PICK z : z = VM!FromInt(Narrow(o.n))
        OBVIOUS
      <4>2. c = t \o <<z>> /\ l = Op("LOAD_CONST", q.regCount - 1, 0, 0, m)
        BY <2>1, <3>2, <4>1 DEF scratchReg
      <4>3. Len(c) = m + 1 /\ c[m + 1] = z /\ \A k \in 1..m : c[k] = t[k]
        BY <1>5, <4>2, PutAfter
      <4> QED BY <4>1, <4>2, <4>3
    <3> QED BY <3>1, <3>2
  <2>3. ASSUME NEW u, u = q.instrs, Len(u) \in Nat, Len(u) >= n + 1, u[n + 1] = l
        PROVE  Loads(q, n + 1, o)
    <3>1. CASE l = Op("LOAD_IMM", q.regCount - 1, 0, 0, Narrow(o.n))
      BY <2>3, <3>1 DEF Loads
    <3>2. CASE l = Op("LOAD_CONST", q.regCount - 1, 0, 0, m) /\ Len(c) = m + 1 /\ c[m + 1] = VM!FromInt(Narrow(o.n))
      <4>1. m \in 0..(Len(q.consts) - 1) /\ q.consts[m + 1] = VM!FromInt(Narrow(o.n))
        BY <2>1, <3>2
      <4> QED BY <2>3, <3>2, <4>1 DEF Loads
    <3> QED BY <2>2, <3>1, <3>2
  <2>4. BodyAt(inst, n + 1) = n + 2 /\ LastOf(inst).kind = "imm" /\ LastOf(inst) = o
    BY <1>8 DEF BodyAt
  <2>5. CASE e = <<x>>
    <3>1. PICK u : u = s \o <<l>> \o <<x>>
      OBVIOUS
    <3>2. Len(u) = n + 2 /\ u[n + 1] = l /\ u[n + 2] = x /\ \A k \in 1..n : u[k] = s[k]
      BY <1>4, <3>1, PutAfter
    <3>3. q.instrs = u
      BY <1>1, <2>1, <2>5, <3>1
    <3>4. Loads(q, n + 1, o)
      BY <2>3, <3>2, <3>3
    <3>5. Chunk(q, inst, n + 1, Len(u) + 1)
      BY <1>6, <2>4, <3>2, <3>3, <3>4 DEF Chunk
    <3> QED BY <1>1, <1>2, <1>4, <1>5, <2>1, <2>2, <3>2, <3>3, <3>5
  <2>6. CASE e = <<>> /\ inst.op = "COPY" /\ ToReg(inst.dst) = code.regCount - 1
    <3>1. PICK u : u = s \o <<l>>
      OBVIOUS
    <3>2. Len(u) = n + 1 /\ u[n + 1] = l /\ \A k \in 1..n : u[k] = s[k]
      BY <1>4, <3>1, PutAfter
    <3>3. q.instrs = u
      <4>1. s \o <<l>> \o <<>> = s \o <<l>>
        BY PutAfter
      <4> QED BY <1>1, <2>1, <2>6, <3>1, <4>1
    <3>4. Loads(q, n + 1, o)
      BY <2>3, <3>2, <3>3
    <3>5. Chunk(q, inst, n + 1, Len(u) + 1)
      BY <2>4, <2>6, <3>2, <3>3, <3>4 DEF Chunk
    <3> QED BY <1>1, <1>2, <1>4, <1>5, <2>1, <2>2, <3>2, <3>3, <3>5
  <2> QED BY <1>3, <2>5, <2>6
<1> QED BY <1>7, <1>8 DEF Operand

LEMMA SameChunk ==
  ASSUME options' = options
  PROVE  \A c, inst, a, b : Chunk(c, inst, a, b)' <=> Chunk(c, inst, a, b)
<1>1. \A r : ToReg(r)' = ToReg(r)
  BY DEF ToReg, RegMax
<1>2. \A c, inst : Body(c, inst)' = Body(c, inst)
  BY <1>1 DEF Body, Source
<1> QED BY <1>1, <1>2 DEF Chunk

\* The registers of the program are counted once.
LEMMA SameCount ==
  ASSUME options' = options, mds' = mds
  PROVE  wvm_compute_reg_count' = wvm_compute_reg_count /\ (Fits' <=> Fits)
<1>1. MaxReg' = MaxReg /\ RegMax' = RegMax
  BY DEF MaxReg, RegMax
<1> QED BY <1>1 DEF wvm_compute_reg_count, Fits

LEMMA EncodeInstRest ==
  ASSUME IInv, Rest, EncodeInst
  PROVE  Rest'
<1> DEFINE last == mds[at].ops[Len(mds[at].ops)]
<1>1. /\ stage = "encode" /\ stage' = stage /\ at <= Len(mds) /\ at' = at + 1 /\ mds' = mds
      /\ code' = [code EXCEPT !.consts = @ \o OperandConsts(last),
                              !.instrs = @ \o OperandCode(last) \o Emitted(mds[at])]
      /\ UNCHANGED <<options, graph, mal>> /\ UNCHANGED <<args, machine>>
  BY DEF EncodeInst
<1>2. ShapeInv' /\ NumberInv' /\ MeaningInv'
  BY <1>1, MalRest
<1>3. WaitInv' /\ RunInv' /\ ComputesMeaning'
  BY <1>1, MachineKept DEF Compiling
<1>4. SelectedInv'
  BY <1>1 DEF Rest, SelectedInv, Chosen
<1>5. /\ at \in Nat /\ 1 <= at /\ mds \in Seq(MdsRecord) /\ Len(mds) \in Nat /\ at \in DOMAIN mds
      /\ code \in [regCount : Nat, consts : Seq(PoolValue), instrs : Seq(CodeRecord)]
  BY <1>1 DEF IInv, EncodeInv, SelectInv
<1>6. /\ at \in DOMAIN mal /\ Chosen(at) /\ mal[at].op # "XOR" /\ mal[at].ops \in Seq(Operand)
      /\ mal[at].op = "RET" <=> mal[at].dst = MAL_INVALID_REG
      /\ mal[at] \in MalRecord
  <2>1. at \in DOMAIN mal /\ Chosen(at)
    BY <1>5 DEF Rest, SelectedInv
  <2>2. mal[at].op # "XOR"
    BY <2>1 DEF Rest, NumberInv, Numbered
  <2>3. mal[at].op = "RET" <=> mal[at].dst = MAL_INVALID_REG
    BY <2>1 DEF IInv, LowerInv, MalOK
  <2> QED BY <2>1, <2>2, <2>3, MalFacts DEF IInv
<1>7. PICK inst \in MalRecord : inst = mal[at] /\ inst.ops \in Seq(Operand)
  BY <1>6
<1>match. PICK p \in Patterns :
        /\ mds_pattern_matches_inst(p, inst)
        /\ mds[at] = [mnemonic |-> p[2], ops |->
             (IF inst.dst = MAL_INVALID_REG THEN <<>> ELSE <<Reg(inst.dst)>>) \o inst.ops]
  BY <1>6, <1>7 DEF Chosen
<1>8. PICK ops, new :
        /\ mds_pattern_matches_inst(p, inst) /\ mds[at] = new /\ new = [mnemonic |-> p[2], ops |-> ops]
        /\ ops = (IF inst.dst = MAL_INVALID_REG THEN <<>> ELSE <<Reg(inst.dst)>>) \o inst.ops
  BY <1>match
<1>9. /\ inst.dst = MAL_INVALID_REG => ops = inst.ops
      /\ inst.dst # MAL_INVALID_REG => ops = <<Reg(inst.dst)>> \o inst.ops
  <2>1. <<>> \o inst.ops = inst.ops
    BY <1>7, ConcatEmptySeq
  <2> QED BY <1>8, <2>1
<1>10. /\ ops[Len(ops)] = LastOf(inst) /\ LastOf(inst) \in Operand
       /\ \/ Emitted(new) = <<Body(code, inst)>>
          \/ /\ Emitted(new) = <<>> /\ inst.op = "COPY" /\ LastOf(inst).kind = "imm"
             /\ ToReg(inst.dst) = code.regCount - 1
  <2>1. /\ mds_pattern_matches_inst(p, inst) /\ inst.op # "XOR" /\ new = [mnemonic |-> p[2], ops |-> ops]
        /\ inst.op = "RET" <=> inst.dst = MAL_INVALID_REG
    BY <1>6, <1>7, <1>8
  <2> HIDE DEF last
  <2> QED BY <1>9, <2>1, EmittedIs
<1>11. PICK o \in Operand : o = LastOf(inst) /\ o = last
  <2>1. mds[at] = new /\ new = [mnemonic |-> p[2], ops |-> ops]
    BY <1>8
  <2>2. mds[at].ops = ops
    BY <2>1
  <2>3. last = ops[Len(ops)]
    BY <2>2
  <2> QED BY <1>10, <2>3
<1>12. PICK e : e = Emitted(mds[at])
  OBVIOUS
<1>13. PICK q : q = [code EXCEPT !.consts = @ \o OperandConsts(o), !.instrs = @ \o OperandCode(o) \o e]
  OBVIOUS
<1>14. code' = q
  BY <1>1, <1>11, <1>12, <1>13
<1>15. q = [regCount |-> code.regCount, consts |-> code.consts \o OperandConsts(o),
            instrs |-> code.instrs \o OperandCode(o) \o e]
  BY <1>5, <1>13
<1>16. /\ q.regCount = code.regCount /\ q.consts = code.consts \o OperandConsts(o)
       /\ q.instrs = code.instrs \o OperandCode(o) \o e
       /\ code.instrs \in Seq(CodeRecord) /\ code.consts \in Seq(PoolValue)
  BY <1>5, <1>15
<1>17. \/ e = <<Body(code, inst)>>
       \/ e = <<>> /\ inst.op = "COPY" /\ o.kind = "imm" /\ ToReg(inst.dst) = code.regCount - 1
  BY <1>8, <1>10, <1>11, <1>12
<1>18. /\ Chunk(q, inst, Len(code.instrs) + 1, Len(q.instrs) + 1)
       /\ Len(code.instrs) \in Nat /\ Len(q.instrs) \in Nat /\ Len(code.consts) \in Nat /\ Len(q.consts) \in Nat
       /\ Len(code.instrs) <= Len(q.instrs) /\ Len(code.consts) <= Len(q.consts)
       /\ \A k \in 1..Len(code.instrs) : q.instrs[k] = code.instrs[k]
       /\ \A k \in 1..Len(code.consts) : q.consts[k] = code.consts[k]
  <2>1. o = LastOf(inst) /\ Added(q, o, e, inst)
    BY <1>11, <1>16, <1>17 DEF Added
  <2>2. Lengthened(q, inst)
    BY <2>1, NewChunk
  <2> QED BY <2>2 DEF Lengthened
<1>19. PICK pos : Layout(pos)
  BY <1>1 DEF Rest, LayoutInv
<1>20. /\ pos \in [1..at -> Nat] /\ pos[1] = 1 /\ pos[at] = Len(code.instrs) + 1
       /\ \A i \in 1..(at - 1) : Chunk(code, mal[i], pos[i], pos[i + 1])
  BY <1>19 DEF Layout
<1>21. PICK new2 : new2 = [i \in 1..(at + 1) |-> IF i = at + 1 THEN Len(q.instrs) + 1 ELSE pos[i]]
  OBVIOUS
<1>22. /\ new2 \in [1..(at + 1) -> Nat] /\ new2[at + 1] = Len(q.instrs) + 1
       /\ \A i \in 1..at : new2[i] = pos[i]
  <2>1. \A i \in 1..(at + 1) : i # at + 1 => i \in 1..at
    BY <1>5
  <2>2. \A i \in 1..at : i \in 1..(at + 1) /\ i # at + 1
    BY <1>5
  <2>3. at + 1 \in 1..(at + 1)
    BY <1>5
  <2>4. \A i \in 1..(at + 1) : new2[i] \in Nat
    BY <1>18, <1>20, <1>21, <2>1
  <2> QED BY <1>21, <2>2, <2>3, <2>4
<1>23. ASSUME NEW i \in 1..at PROVE Chunk(q, mal[i], new2[i], new2[i + 1])
  <2>1. CASE i = at
    <3>1. new2[i] = Len(code.instrs) + 1 /\ new2[i + 1] = Len(q.instrs) + 1 /\ mal[i] = inst
      BY <1>5, <1>7, <1>20, <1>22, <2>1
    <3> QED BY <1>18, <3>1
  <2>2. CASE i # at
    <3>1. i \in 1..(at - 1) /\ i \in 1..at /\ i + 1 \in 1..at
      BY <1>5, <2>2
    <3>2. new2[i] = pos[i] /\ new2[i + 1] = pos[i + 1] /\ pos[i] \in Nat /\ pos[i + 1] \in Nat
      BY <1>20, <1>22, <3>1
    <3>3. Chunk(code, mal[i], pos[i], pos[i + 1])
      BY <1>20, <3>1
    <3>4. Chunk(q, mal[i], pos[i], pos[i + 1])
      BY <1>16, <1>18, <3>2, <3>3, ChunkKept
    <3> QED BY <3>2, <3>4
  <2> QED BY <2>1, <2>2
<1>24. Layout(new2)'
  <2>1. at' = at + 1 /\ mal' = mal /\ code' = q /\ options' = options /\ (at + 1) - 1 = at
    BY <1>1, <1>5, <1>14
  <2>2. 1 \in 1..at
    BY <1>5
  <2>3. new2[1] = 1
    BY <1>20, <1>22, <2>2
  <2>4. ASSUME NEW i \in 1..(at' - 1) PROVE Chunk(code, mal[i], new2[i], new2[i + 1])'
    <3>1. Chunk(q, mal[i], new2[i], new2[i + 1])
      BY <1>23, <2>1
    <3> QED BY <2>1, <3>1, SameChunk
  <2> QED BY <1>22, <2>1, <2>3, <2>4 DEF Layout
<1>25. LayoutInv'
  <2>1. wvm_compute_reg_count' = wvm_compute_reg_count
    BY <1>1, SameCount
  <2>2. code.regCount = wvm_compute_reg_count
    BY <1>1 DEF Rest, LayoutInv
  <2>3. at' \in 1..(Len(mds') + 1) /\ stage' = "encode"
    BY <1>1, <1>5
  <2>4. code'.regCount = wvm_compute_reg_count'
    BY <1>14, <1>16, <2>1, <2>2
  <2>5. code'.consts \in Seq(PoolValue) /\ code'.instrs \in Seq(CodeRecord)
    <3>1. EncodeInv' /\ stage' = "encode"
      BY <1>1, EncodeInstStep DEF IInv
    <3> QED BY <3>1 DEF EncodeInv
  <2> QED BY <1>24, <2>3, <2>4, <2>5 DEF LayoutInv
<1> QED BY <1>2, <1>3, <1>4, <1>25 DEF Rest

\* The verifier accepts the finished prototype, if the registers fit.
LEMMA Verified ==
  ASSUME IInv, stage = "encode", at > Len(mds), Fits
  PROVE  VM!wvmVerifyPrototype(code)
<1>1. /\ at \in Nat /\ mds \in Seq(MdsRecord) /\ mds # <<>> /\ code.instrs \in Seq(Accepted(code))
      /\ (at > 1 => code.instrs # <<>>)
  BY DEF IInv, SelectInv, EncodeInv
<1>2. Len(mds) \in Nat /\ Len(mds) >= 1
  BY <1>1
<1>3. code.instrs # <<>>
  BY <1>1, <1>2
<1>4. \A i \in DOMAIN code.instrs : code.instrs[i] \in Accepted(code)
  BY <1>1
<1> QED BY <1>3, <1>4 DEF Accepted, VM!wvmVerifyPrototype

\* The layout of the finished prototype.
LEMMA LayoutKept ==
  ASSUME Rest, stage \in {"encode", "load", "run"}, stage' \in {"load", "run"}, at = Len(mds) + 1,
         UNCHANGED <<options, at, mal, mds, code>>
  PROVE  LayoutInv' /\ SelectedInv' /\ \A pos : Layout(pos)' <=> Layout(pos)
<1>1. \A pos : Layout(pos)' <=> Layout(pos)
  BY SameChunk DEF Layout
<1>2. wvm_compute_reg_count' = wvm_compute_reg_count
  BY SameCount
<1>3. LayoutInv'
  BY <1>1, <1>2 DEF Rest, LayoutInv
<1>4. SelectedInv'
  BY DEF Rest, SelectedInv, Chosen
<1> QED BY <1>1, <1>3, <1>4

LEMMA EncodeDoneRest ==
  ASSUME IInv, Rest, EncodeDone
  PROVE  Rest'
<1>1. /\ stage = "encode" /\ at > Len(mds) /\ at' = at /\ mds' = mds /\ code' = code
      /\ stage' = IF options.verifyIR /\ ~VM!wvmVerifyPrototype(code) THEN "failed" ELSE "load"
      /\ UNCHANGED <<options, graph, mal>> /\ UNCHANGED <<args, machine>>
  BY DEF EncodeDone
<1>2. stage' \in {"failed", "load"}
  BY <1>1
<1>3. ShapeInv' /\ NumberInv' /\ MeaningInv'
  BY <1>1, <1>2, MalRest
<1>4. at = Len(mds) + 1
  <2>1. at \in 1..(Len(mds) + 1) /\ mds \in Seq(MdsRecord)
    BY <1>1 DEF Rest, LayoutInv, IInv, SelectInv
  <2>2. Len(mds) \in Nat
    BY <2>1
  <2> QED BY <1>1, <2>1, <2>2
<1>5. LayoutInv' /\ SelectedInv'
  <2>1. CASE stage' = "load"
    BY <1>1, <1>4, <2>1, LayoutKept
  <2>2. CASE stage' = "failed"
    BY <1>1, <2>2 DEF LayoutInv, Rest, SelectedInv, Chosen
  <2> QED BY <1>2, <2>1, <2>2
<1>6. RunInv' /\ ComputesMeaning'
  BY <1>2 DEF RunInv, ComputesMeaning
<1>7. Waiting'
  <2>1. Waiting
    BY <1>1 DEF Rest, WaitInv
  <2>2. /\ args' = args /\ stack' = stack /\ stackCap' = stackCap /\ stackSize' = stackSize
        /\ status' = status /\ result' = result
    BY <1>1 DEF machine
  <2> QED BY <2>1, <2>2 DEF Waiting, FrameOK
<1>8. WaitInv'
  <2>1. Fits' <=> Fits
    BY <1>1, SameCount
  <2>2. Fits => VM!wvmVerifyPrototype(code)
    BY <1>1, Verified
  <2>3. VM!wvmVerifyPrototype(code)' <=> VM!wvmVerifyPrototype(code)
    BY <1>1 DEF VM!wvmVerifyPrototype, VM!VerifyInstr
  <2> QED BY <1>7, <2>1, <2>2, <2>3 DEF WaitInv
<1> QED BY <1>3, <1>5, <1>6, <1>8 DEF Rest

-----------------------------------------------------------------------------
(* Execution.                                                              *)

\* The prototype is not changed any more.
LEMMA LateRest ==
  ASSUME IInv, Rest, stage \in {"load", "run"}, stage' \in {"load", "run", "done"},
         UNCHANGED <<options, graph, at, mal, mds, code>>
  PROVE  /\ ShapeInv' /\ NumberInv' /\ MeaningInv' /\ SelectedInv' /\ LayoutInv'
         /\ (Fits' <=> Fits) /\ ParamTotal' = ParamTotal
         /\ VM!wvmVerifyPrototype(code)' <=> VM!wvmVerifyPrototype(code)
         /\ \A pos : Layout(pos)' <=> Layout(pos)
<1>1. ShapeInv' /\ NumberInv' /\ MeaningInv' /\ ParamTotal' = ParamTotal
  BY MalRest
<1>2. at = Len(mds) + 1
  BY DEF Rest, LayoutInv
<1>3. LayoutInv' /\ SelectedInv'
  <2>1. CASE stage' = "done"
    BY <2>1 DEF LayoutInv, Rest, SelectedInv, Chosen
  <2>2. CASE stage' # "done"
    BY <1>2, <2>2, LayoutKept
  <2> QED BY <2>1, <2>2
<1>4. Fits' <=> Fits
  BY SameCount
<1>5. VM!wvmVerifyPrototype(code)' <=> VM!wvmVerifyPrototype(code)
  BY DEF VM!wvmVerifyPrototype, VM!VerifyInstr
<1>6. \A pos : Layout(pos)' <=> Layout(pos)
  BY SameChunk DEF Layout
<1> QED BY <1>1, <1>3, <1>4, <1>5, <1>6

\* The values do not depend on the machine.
LEMMA SameValues ==
  ASSUME graph' = graph, args' = args
  PROVE  /\ Values' = Values /\ (AllValues' <=> AllValues) /\ (Ordered' <=> Ordered)
         /\ \A m, w : Follows(m, w, Values)' <=> Follows(m, w, Values)
<1>1. ValueNodes' = ValueNodes
  BY SameGraph
<1>2. Values' = Values
  BY <1>1, SMT DEF Values
<1>3. AllValues' <=> AllValues
  BY <1>1, <1>2 DEF AllValues
<1>4. (Ordered' <=> Ordered) /\ \A m, w, v : Follows(m, w, v)' <=> Follows(m, w, v)
  BY SameMeaning
<1>5. ASSUME NEW m, NEW w PROVE Follows(m, w, Values)' <=> Follows(m, w, Values)
  <2>1. ParamNodes' = ParamNodes
    BY SameGraph
  <2> QED BY <1>2, <2>1 DEF Follows, Returned, Holds, Arg
<1> QED BY <1>2, <1>3, <1>4, <1>5

\* wvmEnsureStack: the capacity grows enough, and keeps what is there.
LEMMA GrownFacts ==
  ASSUME FrameOK, NEW needed \in Nat, NEW cap \in VM!NewCaps(stackCap, needed)
  PROVE  /\ cap \in Nat /\ needed <= cap /\ stackCap <= cap
         /\ DOMAIN VM!Grown(cap) = 0..(cap - 1)
         /\ \A r \in 0..(stackCap - 1) : VM!Grown(cap)[r] = stack[r]
<1>1. stackCap \in Nat /\ cap \in stackCap..(stackCap + 2 * needed) /\ cap >= needed
  BY DEF VM!NewCaps, FrameOK
<1>2. cap \in Nat /\ needed <= cap /\ stackCap <= cap
  BY <1>1
<1>3. \A r \in 0..(stackCap - 1) : r \in 0..(cap - 1) /\ r < stackCap
  BY <1>1, <1>2
<1> QED BY <1>2, <1>3 DEF VM!Grown

LEMMA LoadArgRest ==
  ASSUME IInv, Rest, NEW v \in Args, LoadArg(v)
  PROVE  Rest'
<1>1. /\ stage = "load" /\ stage' = stage /\ Len(args) < ParamTotal /\ args' = Append(args, v)
      /\ VM!wvmPush(VM!FromInt(v)) /\ UNCHANGED <<options, graph, at, mal, mds, code>>
  BY DEF LoadArg, ParamTotal
<1>2. /\ ShapeInv' /\ NumberInv' /\ MeaningInv' /\ SelectedInv' /\ LayoutInv' /\ (Fits' <=> Fits)
      /\ VM!wvmVerifyPrototype(code)' <=> VM!wvmVerifyPrototype(code)
  BY <1>1, LateRest
<1>3. RunInv' /\ ComputesMeaning'
  BY <1>1 DEF RunInv, ComputesMeaning
<1>4. Waiting /\ (Fits => VM!wvmVerifyPrototype(code))
  BY <1>1 DEF Rest, WaitInv
<1>5. PICK n \in Nat : n = Len(args) /\ n = stackSize /\ n <= stackCap /\ stackCap \in Nat /\ args \in Seq(Word)
  BY <1>4 DEF Waiting, FrameOK
<1>6. PICK cap \in VM!NewCaps(stackCap, n + 1) :
        stackCap' = cap /\ stack' = [VM!Grown(cap) EXCEPT ![n] = VM!FromInt(v)]
  BY <1>1, <1>5 DEF VM!wvmPush
<1>7. stackSize' = n + 1 /\ status' = "idle" /\ result' = 1
  <2>1. stackSize' = stackSize + 1 /\ status' = status /\ result' = result
    BY <1>1 DEF VM!wvmPush
  <2> QED BY <1>4, <1>5, <2>1 DEF Waiting
<1>8. PICK old : old = VM!Grown(cap)
  OBVIOUS
<1>9. /\ cap \in Nat /\ n + 1 <= cap /\ stackCap <= cap /\ DOMAIN old = 0..(cap - 1)
      /\ \A r \in 0..(stackCap - 1) : old[r] = stack[r]
  <2>1. FrameOK /\ n + 1 \in Nat
    BY <1>4 DEF Waiting
  <2> QED BY <1>8, <2>1, GrownFacts
<1>10. /\ DOMAIN stack' = 0..(cap - 1) /\ stack'[n] = VM!FromInt(v)
       /\ \A r \in 0..(cap - 1) : r # n => stack'[r] = old[r]
  <2>1. stack' = [old EXCEPT ![n] = VM!FromInt(v)] /\ n \in 0..(cap - 1)
    BY <1>6, <1>8, <1>9
  <2> QED BY <1>9, <2>1
<1>11. v \in Word
  <2>1. options \in Options
    BY DEF IInv, GraphInv
  <2> QED BY <2>1, WordAssumption DEF Args
<1>12. /\ args' \in Seq(Word) /\ Len(args') = n + 1 /\ args'[n + 1] = v
       /\ \A i \in 1..n : args'[i] = args[i]
  <2>1. PICK a \in Seq(Word) : a = args
    BY <1>5
  <2>2. PICK b : b = Append(a, v)
    OBVIOUS
  <2>3. Len(a) = n /\ args' = b
    BY <1>1, <1>5, <2>1, <2>2
  <2>4. b \in Seq(Word) /\ Len(b) = n + 1 /\ b[n + 1] = v /\ \A i \in 1..n : b[i] = a[i]
    BY <1>11, <2>2, <2>3
  <2> QED BY <2>1, <2>3, <2>4
<1>13. ASSUME NEW i \in 0..((n + 1) - 1) PROVE stack'[i] = VM!FromInt(args'[i + 1])
  <2>1. CASE i = n
    BY <1>10, <1>12, <2>1
  <2>2. CASE i # n
    <3>1. i \in 0..(n - 1) /\ i \in 0..(stackCap - 1) /\ i \in 0..(cap - 1) /\ i + 1 \in 1..n
      BY <1>5, <1>9, <2>2
    <3>2. stack[i] = VM!FromInt(args[i + 1])
      BY <1>4, <1>5, <3>1 DEF Waiting
    <3> QED BY <1>9, <1>10, <1>12, <2>2, <3>1, <3>2
  <2> QED BY <2>1, <2>2
<1>14. Waiting'
  <2>1. FrameOK'
    BY <1>6, <1>9, <1>10 DEF FrameOK
  <2>2. Len(args') <= stackCap'
    BY <1>6, <1>9, <1>12
  <2> QED BY <1>7, <1>12, <1>13, <2>1, <2>2 DEF Waiting
<1>15. WaitInv'
  BY <1>1, <1>2, <1>4, <1>14 DEF WaitInv
<1> QED BY <1>2, <1>3, <1>15 DEF Rest

\* wvmExecute: a prototype that fits is not refused, and the run begins with
\* the arguments in the first registers.
LEMMA ExecuteRest ==
  ASSUME IInv, Rest, Execute
  PROVE  Rest'
<1>1. /\ stage = "load" /\ Len(args) = ParamTotal /\ args' = args
      /\ UNCHANGED <<options, graph, at, mal, mds, code>>
      /\ \/ VM!wvmExecute(code) /\ stage' = "run"
         \/ VM!wvmExecuteRefused(code) /\ stage' = "done"
  BY DEF Execute, ParamTotal
<1>2. /\ ShapeInv' /\ NumberInv' /\ MeaningInv' /\ SelectedInv' /\ LayoutInv' /\ (Fits' <=> Fits)
      /\ VM!wvmVerifyPrototype(code)' <=> VM!wvmVerifyPrototype(code)
      /\ ParamTotal' = ParamTotal /\ \A pos : Layout(pos)' <=> Layout(pos)
  BY <1>1, LateRest
<1>3. Waiting /\ (Fits => VM!wvmVerifyPrototype(code))
  BY <1>1 DEF Rest, WaitInv
<1>4. CASE VM!wvmExecuteRefused(code) /\ stage' = "done"
  <2>1. ~VM!wvmVerifyPrototype(code) /\ result' = 0 /\ status' = "idle"
    BY <1>4 DEF VM!wvmExecuteRefused
  <2>2. ~Fits'
    BY <1>2, <1>3, <2>1
  <2>3. Correct'
    BY <2>1, <2>2 DEF Correct
  <2>4. ComputesMeaning' /\ WaitInv' /\ RunInv'
    BY <1>4, <2>3 DEF ComputesMeaning, WaitInv, RunInv
  <2> QED BY <1>2, <2>4 DEF Rest
<1>5. CASE VM!wvmExecute(code) /\ stage' = "run"
  <2>1. WaitInv' /\ ComputesMeaning'
    BY <1>5 DEF WaitInv, ComputesMeaning
  <2>2. PICK n \in Nat : n = ParamTotal /\ n = Len(args) /\ n = stackSize /\ n <= stackCap /\ stackCap \in Nat
    BY <1>1, <1>3 DEF Waiting, FrameOK
  <2>3. PICK c \in Nat : c = code.regCount
    <3>1. code.regCount = wvm_compute_reg_count
      BY <1>1 DEF Rest, LayoutInv
    <3> QED BY <3>1, MaxRegFacts
  <2>4. /\ VM!wvmVerifyPrototype(code) /\ status' = "running" /\ proto' = code /\ pc' = 0
        /\ \E cap \in VM!NewCaps(stackCap, n + c) : stackCap' = cap /\ stack' = VM!EntryStack(cap, c)
    BY <1>5, <2>2, <2>3 DEF VM!wvmExecute
  <2>5. PICK cap \in VM!NewCaps(stackCap, n + c) : stackCap' = cap /\ stack' = VM!EntryStack(cap, c)
    BY <2>4
  <2>6. /\ cap \in Nat /\ n + c <= cap /\ stackCap <= cap
        /\ \A r \in 0..(stackCap - 1) : VM!Grown(cap)[r] = stack[r]
    <3>1. FrameOK /\ n + c \in Nat
      BY <1>3 DEF Waiting
    <3> QED BY <3>1, GrownFacts
  <2>7. DOMAIN stack' = 0..(cap - 1) /\ \A r \in 0..(n - 1) : stack'[r] = VM!FromInt(args[r + 1])
    <3>1. stack' = [r \in 0..(cap - 1) |-> IF r \in n..(c - 1) THEN VM!Zeroed ELSE VM!Grown(cap)[r]]
      BY <2>2, <2>5 DEF VM!EntryStack
    <3>2. ASSUME NEW r \in 0..(n - 1) PROVE stack'[r] = VM!FromInt(args[r + 1])
      <4>1. r \in 0..(cap - 1) /\ r \notin n..(c - 1) /\ r \in 0..(stackCap - 1)
        BY <2>2, <2>3, <2>6
      <4>2. stack'[r] = stack[r]
        BY <2>6, <3>1, <4>1
      <4> QED BY <1>3, <2>2, <4>2 DEF Waiting
    <3> QED BY <3>1, <3>2
  <2>8. ASSUME Ordered, AllValues PROVE Running'
    <3>1. Scheduled /\ GraphInv /\ ShapeInv /\ stage # "build" /\ args \in Seq(Word)
      BY <1>1, <1>3, <2>8 DEF Ordered, IInv, Rest, Waiting
    <3>2. Values \in GoodValues /\ \A m \in ParamNodes : Values[m] = VM!FromInt(args[graph[m].k + 1])
      BY <1>1, <2>8, <3>1, ValuesGood
    <3>3. PICK w \in [Nat -> Plain] : Follows(mal, w, Values)
      BY <2>8, <3>1, <3>2 DEF Rest, MeaningInv
    <3>4. PICK pos : Layout(pos)
      BY <1>1 DEF Rest, LayoutInv
    <3>5. 1 \in DOMAIN mal
      <4>1. mal # <<>> /\ mal \in Seq(MalRecord)
        BY <1>1 DEF IInv, LowerInv, MalOK
      <4> QED BY <4>1
    <3>6. ASSUME NEW r \in 0..(n - 1) PROVE stack'[r] = w[r]
      <4>1. PICK m \in ParamNodes : graph[m].k = r
        BY <2>2, <3>1 DEF ShapeInv
      <4>2. w[r] = Values[m]
        BY <3>3, <4>1 DEF Follows
      <4> QED BY <2>7, <3>2, <4>1, <4>2
    <3>7. Reached(1, pos, w)'
      <4>1. pos[1] - 1 = 0
        BY <3>4 DEF Layout
      <4>2. \A r \in 0..(ParamTotal' + (1 - 1) - 1) : stack'[r] = w[r]
        BY <1>2, <2>2, <3>6
      <4> QED BY <2>4, <4>1, <4>2 DEF Reached
    <3>8. Follows(mal, w, Values)' /\ Layout(pos)' /\ 1 \in DOMAIN mal'
      <4>1. Follows(mal, w, Values)'
        BY <1>1, <3>3, SameValues
      <4> QED BY <1>1, <1>2, <3>4, <3>5, <4>1
    <3>9. FrameOK' /\ code'.regCount <= stackCap' /\ proto' = code' /\ VM!wvmVerifyPrototype(code)'
      BY <1>1, <1>2, <2>2, <2>3, <2>4, <2>5, <2>6, <2>7 DEF FrameOK
    <3> QED BY <2>4, <3>7, <3>8, <3>9 DEF Running
  <2>9. RunInv'
    BY <1>1, <2>8, SameValues DEF RunInv
  <2> QED BY <1>2, <2>1, <2>9 DEF Rest
<1> QED BY <1>1, <1>4, <1>5

\* Where the code of the finished prototype is.
LEMMA LayoutFacts ==
  ASSUME IInv, Rest, stage = "run", NEW pos, Layout(pos)
  PROVE  /\ Len(mal) \in Nat /\ DOMAIN mal = 1..Len(mal) /\ DOMAIN mds = DOMAIN mal
         /\ pos \in [1..(Len(mal) + 1) -> Nat] /\ pos[Len(mal) + 1] = Len(code.instrs) + 1
         /\ \A i \in DOMAIN mal : /\ Chunk(code, mal[i], pos[i], pos[i + 1])
                                  /\ pos[i] \in Nat /\ pos[i + 1] \in Nat
         /\ Len(code.instrs) \in Nat /\ DOMAIN code.instrs = 1..Len(code.instrs) /\ Len(code.consts) \in Nat
         /\ code.regCount = wvm_compute_reg_count /\ code.regCount \in Nat
<1>1. /\ at = Len(mds) + 1 /\ code.regCount = wvm_compute_reg_count
      /\ code.consts \in Seq(PoolValue) /\ code.instrs \in Seq(CodeRecord)
      /\ Len(mds) = Len(mal)
  BY DEF Rest, LayoutInv, SelectedInv
<1>2. Len(mal) \in Nat /\ DOMAIN mal = 1..Len(mal) /\ mds \in Seq(MdsRecord)
  BY MalFacts DEF IInv, SelectInv
<1>3. DOMAIN mds = 1..Len(mds)
  BY <1>2
<1>4. PICK n \in Nat : n = Len(mal)
  BY <1>2
<1>5. at = n + 1 /\ at - 1 = n
  BY <1>1, <1>4
<1>6. /\ pos \in [1..(n + 1) -> Nat] /\ pos[n + 1] = Len(code.instrs) + 1
      /\ \A i \in 1..n : Chunk(code, mal[i], pos[i], pos[i + 1])
  BY <1>5 DEF Layout
<1>7. \A i \in 1..n : pos[i] \in Nat /\ pos[i + 1] \in Nat
  BY <1>6
<1>8. code.regCount \in Nat
  BY <1>1, MaxRegFacts
<1> QED BY <1>1, <1>2, <1>3, <1>4, <1>6, <1>7, <1>8

LEMMA ToRegSmall ==
  ASSUME RegMax \in Nat, NEW r \in Nat
  PROVE  ToReg(r) \in Int /\ (r <= RegMax => ToReg(r) = r)
<1>1. r % (RegMax + 1) \in Int
  OBVIOUS
<1>2. ASSUME r <= RegMax PROVE r % (RegMax + 1) = r
  <2>1. r < RegMax + 1
    BY <1>2
  <2> QED BY <2>1
<1> QED BY <1>1, <1>2 DEF ToReg

\* What the machine does for an instruction that has a destination.
LEMMA BodyOp ==
  ASSUME IInv, Rest, NEW i \in DOMAIN mds, mal[i].op # "RET"
  PROVE  LET inst == mal[i]
             e == Body(code, inst)
         IN /\ e.a = ToReg(inst.dst) /\ e.b = Source(code, inst.ops[1])
            /\ inst.op = "COPY" => e.op = "MOVE"
            /\ inst.op \in UnaryKinds => e.op = inst.op
            /\ inst.op \notin SingleOps => e.op = MachineOp(inst.op) /\ e.c = Source(code, inst.ops[2])
            /\ e.op \in {"MOVE"} \cup UnaryKinds \cup BinaryKinds
<1>1. PICK inst : inst = mal[i]
  OBVIOUS
<1>2. PICK e : e = Body(code, inst)
  OBVIOUS
<1>3. inst.op \in UnaryKinds \cup {"COPY"} \/ MachineOp(inst.op) \in BinaryKinds \ {"DIV", "MOD"}
  BY <1>1, ChosenOps
<1>4. CASE inst.op = "COPY"
  <2>1. e = Op("MOVE", ToReg(inst.dst), Source(code, inst.ops[1]), 0, 0)
    BY <1>2, <1>4 DEF Body, UnaryKinds
  <2>2. inst.op \notin UnaryKinds /\ inst.op \in SingleOps
    BY <1>4 DEF SingleOps, UnaryKinds
  <2> QED BY <1>1, <1>2, <1>4, <2>1, <2>2 DEF Op
<1>5. CASE inst.op \in UnaryKinds
  <2>1. inst.op \notin {"RET", "COPY"} /\ inst.op \in SingleOps
    BY <1>5 DEF SingleOps, UnaryKinds
  <2>2. e = Op(inst.op, ToReg(inst.dst), Source(code, inst.ops[1]), 0, 0)
    BY <1>2, <1>5, <2>1 DEF Body
  <2> QED BY <1>1, <1>2, <1>5, <2>1, <2>2 DEF Op
<1>6. CASE inst.op \notin UnaryKinds \cup {"COPY"}
  <2>1. e = Op(MachineOp(inst.op), ToReg(inst.dst), Source(code, inst.ops[1]), Source(code, inst.ops[2]), 0)
    BY <1>1, <1>2, <1>6 DEF Body
  <2> QED BY <1>1, <1>2, <1>3, <1>6, <2>1 DEF Op
<1> QED BY <1>4, <1>5, <1>6

\* The verifier has seen every destination.
LEMMA DestInRange ==
  ASSUME IInv, Rest, stage = "run", VM!wvmVerifyPrototype(code), NEW pos, Layout(pos),
         NEW i \in DOMAIN mal, mal[i].op # "RET"
  PROVE  ToReg(mal[i].dst) < code.regCount
<1>1. /\ Chunk(code, mal[i], pos[i], pos[i + 1]) /\ pos[i] \in Nat /\ pos[i + 1] \in Nat
      /\ Len(code.instrs) \in Nat /\ DOMAIN code.instrs = 1..Len(code.instrs)
      /\ code.regCount \in Nat /\ DOMAIN mds = DOMAIN mal
  BY LayoutFacts
<1>2. PICK p : p = BodyAt(mal[i], pos[i])
  OBVIOUS
<1>3. p \in Nat /\ 1 <= p
  BY <1>1, <1>2 DEF BodyAt, Chunk
<1>4. CASE pos[i + 1] = p + 1 /\ code.instrs[p] = Body(code, mal[i])
  <2>1. p \in DOMAIN code.instrs
    BY <1>1, <1>3, <1>4 DEF Chunk
  <2>2. VM!VerifyInstr(code, code.instrs[p])
    BY <2>1 DEF VM!wvmVerifyPrototype
  <2>3. PICK e : e = Body(code, mal[i]) /\ e.a = ToReg(mal[i].dst) /\ e.op \in {"MOVE"} \cup UnaryKinds \cup BinaryKinds
    BY <1>1, BodyOp
  <2>4. VM!VerifyInstr(code, e)
    BY <1>4, <2>2, <2>3
  <2>5. e.op \in VM!OP_RR \cup VM!OP_RRR
    BY <2>3, OpNames DEF VM!OP_RR, VM!OP_RRR
  <2>6. e.a < code.regCount
    BY <2>4, <2>5 DEF VM!VerifyInstr
  <2> QED BY <2>3, <2>6
<1>5. CASE ToReg(mal[i].dst) = code.regCount - 1
  BY <1>1, <1>5
<1> QED BY <1>1, <1>2, <1>4, <1>5 DEF Chunk

\* The destination is a register the program names.
LEMMA DestNamed ==
  ASSUME IInv, Rest, NEW i \in DOMAIN mds, mal[i].op # "RET"
  PROVE  mal[i].dst \in Nat /\ mal[i].dst <= MaxReg
<1>1. i \in DOMAIN mal /\ Chosen(i)
  BY DEF Rest, SelectedInv
<1>2. mal[i] \in MalRecord /\ mal[i].dst # MAL_INVALID_REG
  BY <1>1, MalFacts DEF IInv, LowerInv, MalOK
<1>3. PICK d \in Nat : d = mal[i].dst
  BY <1>2 DEF MalRecord, MAL_INVALID_REG
<1>4. PICK s \in Seq(Operand) : s = mal[i].ops
  BY <1>2 DEF MalRecord
<1>5. PICK o \in Operand : o = Reg(d) /\ o.kind = "reg" /\ o.n = d
  <2>1. Reg(d) \in Operand /\ Reg(d).kind = "reg" /\ Reg(d).n = d
    BY DEF Reg, Operand
  <2> QED BY <2>1
<1>6. PICK q : q = <<o>> \o s
  OBVIOUS
<1>7. q \in Seq(Operand) /\ Len(q) = Len(s) + 1 /\ Len(s) \in Nat /\ q[1] = o
  BY <1>6, PutBefore
<1>8. mds[i].ops = q
  BY <1>1, <1>2, <1>3, <1>4, <1>5, <1>6 DEF Chosen
<1>9. 1 \in DOMAIN q
  BY <1>7
<1>10. d \in RegsOf(mds[i])
  BY <1>5, <1>7, <1>8, <1>9 DEF RegsOf
<1> QED BY <1>3, <1>10, MaxRegFacts

\* The registers are numbered without wrapping, and the scratch register is not
\* below a register in use: with a number left for it it is above all of them,
\* and without one the instruction that names register RegMax is refused.
LEMMA Room ==
  ASSUME IInv, Rest, Supported, stage = "run", VM!wvmVerifyPrototype(code), NEW pos, Layout(pos),
         NEW i \in DOMAIN mal, mal[i].op # "RET"
  PROVE  /\ ParamTotal \in Nat /\ ParamTotal <= RegMax /\ RegMax \in Nat
         /\ mal[i].dst = ParamTotal + (i - 1) /\ mal[i].dst \in Nat
         /\ mal[i].dst <= RegMax /\ ToReg(mal[i].dst) = mal[i].dst /\ mal[i].dst < code.regCount
<1>1. /\ Len(mal) \in Nat /\ DOMAIN mal = 1..Len(mal) /\ DOMAIN mds = DOMAIN mal
      /\ code.regCount = wvm_compute_reg_count /\ code.regCount \in Nat
  BY LayoutFacts
<1>2. MaxReg \in Nat /\ RegMax \in Nat
  BY MaxRegFacts
<1>3. ParamTotal \in Nat /\ ParamTotal <= RegMax
  BY ParamIndices DEF IInv, Rest
<1>4. PICK t \in Nat : t = ParamTotal
  BY <1>3
<1>5. \A k \in DOMAIN mal : mal[k].op # "RET" => mal[k].dst = t + (k - 1)
  BY <1>4 DEF Rest, NumberInv, Numbered
<1>6. PICK d \in Nat : d = mal[i].dst /\ d = t + (i - 1) /\ d <= MaxReg
  BY <1>1, <1>5, DestNamed
<1>7. CASE Fits
  <2>1. MaxReg < RegMax - 1 /\ code.regCount = MaxReg + 2
    BY <1>1, <1>7, MaxRegFacts DEF Fits
  <2>2. d <= RegMax /\ d < code.regCount
    BY <1>2, <1>6, <2>1
  <2> QED BY <1>2, <1>3, <1>4, <1>6, <2>2, ToRegSmall
<1>8. CASE ~Fits
  <2>1. code.regCount = RegMax
    BY <1>1, <1>2, <1>8 DEF Fits, wvm_compute_reg_count
  <2>2. ASSUME d >= RegMax PROVE FALSE
    <3>1. PICK k \in Int : k = RegMax - t + 1
      BY <1>2
    <3>2. k \in 1..i /\ t + (k - 1) = RegMax
      BY <1>1, <1>2, <1>3, <1>4, <1>6, <2>2, <3>1
    <3>3. k \in DOMAIN mal
      BY <1>1, <3>2
    <3>4. mal[k].op # "RET"
      <4>1. CASE k = i
        BY <4>1
      <4>2. CASE k # i
        <5>1. PICK n \in Nat : n = Len(mal)
          BY <1>1
        <5>2. i \in 1..n /\ k \in 1..i
          BY <1>1, <3>2, <5>1
        <5>3. k # n
          BY <4>2, <5>2
        <5> QED BY <3>3, <5>1, <5>3 DEF Rest, NumberInv
      <4> QED BY <4>1, <4>2
    <3>5. mal[k].dst = RegMax
      BY <1>5, <3>2, <3>3, <3>4
    <3>6. ToReg(RegMax) < RegMax
      BY <2>1, <3>3, <3>4, <3>5, DestInRange
    <3>7. ToReg(RegMax) = RegMax
      BY <1>2, ToRegSmall
    <3> QED BY <1>2, <3>6, <3>7
  <2>3. d <= RegMax /\ d < code.regCount
    BY <1>2, <2>1, <2>2
  <2> QED BY <1>2, <1>3, <1>4, <1>6, <2>3, ToRegSmall
<1> QED BY <1>7, <1>8

\* A step of the interpreter, by the opcode it is at.
LEMMA StepOf ==
  ASSUME VM!Step, status = "running", pc \in Nat, Len(proto.instrs) \in Nat, pc < Len(proto.instrs),
         NEW e, e = proto.instrs[pc + 1]
  PROVE  /\ e.op = "LOAD_IMM" => VM!Store(VM!FromInt(e.k))
         /\ e.op = "LOAD_CONST" => VM!Store(proto.consts[e.k + 1])
         /\ e.op = "MOVE" => VM!Store(stack[e.b])
         /\ e.op \in UnaryKinds => VM!Store(VM!FromInt(UnaryInt(e.op, stack[e.b].n)))
         /\ e.op \in BinaryKinds \ {"DIV", "MOD"} /\ stack[e.b] \in WordValues /\ stack[e.c] \in WordValues =>
              VM!Store(VM!wvm_exec_binary_int(e.op, stack[e.b].n, stack[e.c].n))
         /\ e.op = "RETURN" => VM!OpReturn
<1>1. ~VM!EndOfCode /\ VM!instr = e
  BY DEF VM!EndOfCode, VM!instr
<1>2. \/ e.op = "NOP" \/ e.op = "HALT" \/ (e.op = "RETURN" /\ VM!OpReturn)
      \/ (e.op = "MOVE" /\ VM!OpMove)
      \/ (e.op \in {"LOAD_IMM", "LOAD_CONST", "LOAD_NIL", "LOAD_TRUE", "LOAD_FALSE"} /\ VM!OpLoad)
      \/ (e.op \in UnaryKinds /\ VM!OpUnary)
      \/ (e.op \in BinaryKinds /\ (VM!OpBinary \/ VM!OpTrap \/ VM!OpBinaryTypeError))
      \/ e.op \in {"JUMP", "JUMP_IF_TRUE", "JUMP_IF_FALSE"} \/ e.op \notin VM!Implemented
  BY <1>1, OpNames DEF VM!Step, VM!OpNop, VM!OpHalt, VM!OpReturn, VM!OpMove, VM!OpLoad, VM!OpUnary, VM!OpBinary,
     VM!OpTrap, VM!OpBinaryTypeError, VM!OpJump, VM!OpJumpIf, VM!OpUnimplemented, VM!AtOp
<1>3. /\ BinaryKinds \cup UnaryKinds \cup {"RETURN", "MOVE", "LOAD_IMM", "LOAD_CONST"} \subseteq VM!Implemented
      /\ UnaryKinds \cap BinaryKinds = {}
      /\ \A op \in BinaryKinds \cup UnaryKinds :
           op \notin {"NOP", "HALT", "RETURN", "MOVE", "LOAD_IMM", "LOAD_CONST", "LOAD_NIL", "LOAD_TRUE", "LOAD_FALSE",
                      "JUMP", "JUMP_IF_TRUE", "JUMP_IF_FALSE"}
  <2>1. BinaryKinds \cup UnaryKinds \cup {"RETURN", "MOVE", "LOAD_IMM", "LOAD_CONST"} \subseteq VM!Implemented
    BY OpNames DEF VM!Implemented
  <2> QED BY <2>1 DEF UnaryKinds, BinaryKinds, ArithKinds, CompareKinds
<1>4. e.op = "RETURN" => VM!OpReturn
  BY <1>2, <1>3
<1>5. e.op = "MOVE" => VM!Store(stack[e.b])
  <2>1. e.op = "MOVE" => VM!OpMove
    BY <1>2, <1>3
  <2> QED BY <1>1, <2>1 DEF VM!OpMove
<1>6. /\ e.op = "LOAD_IMM" => VM!Store(VM!FromInt(e.k))
      /\ e.op = "LOAD_CONST" => VM!Store(proto.consts[e.k + 1])
  <2>1. e.op \in {"LOAD_IMM", "LOAD_CONST"} => VM!OpLoad
    BY <1>2, <1>3
  <2> QED BY <1>1, <2>1 DEF VM!OpLoad, VM!AtOp
<1>7. e.op \in UnaryKinds => VM!Store(VM!FromInt(UnaryInt(e.op, stack[e.b].n)))
  <2>1. e.op \in UnaryKinds => VM!OpUnary
    BY <1>2, <1>3
  <2> QED BY <1>1, <2>1 DEF VM!OpUnary, VM!AsInt
<1>8. ASSUME e.op \in BinaryKinds \ {"DIV", "MOD"}, stack[e.b] \in WordValues, stack[e.c] \in WordValues
      PROVE  VM!Store(VM!wvm_exec_binary_int(e.op, stack[e.b].n, stack[e.c].n))
  <2>1. VM!OpBinary \/ VM!OpTrap \/ VM!OpBinaryTypeError
    BY <1>2, <1>3, <1>8
  <2>2. VM!IsInt(stack[e.b]) /\ VM!IsInt(stack[e.c]) /\ stack[e.b].n \in Word /\ stack[e.c].n \in Word
    BY <1>8, WordFacts
  <2>3. ~VM!OpBinaryTypeError
    BY <1>1, <2>2 DEF VM!OpBinaryTypeError, VM!BothInt
  <2>4. ~Traps(e.op, stack[e.b].n, stack[e.c].n)
    BY <1>8, <2>2, WordAssumption
  <2>5. ~VM!OpTrap
    BY <1>1, <2>4 DEF VM!OpTrap, VM!AsInt
  <2>6. VM!OpBinary
    BY <2>1, <2>3, <2>5
  <2> QED BY <1>1, <2>6 DEF VM!OpBinary, VM!AsInt
<1> QED BY <1>4, <1>5, <1>6, <1>7, <1>8

\* A register is stored.
LEMMA Stored ==
  ASSUME FrameOK, NEW c \in Nat, c <= stackCap, NEW d \in 0..(c - 1), NEW value,
         VM!instr.a = d, VM!Store(value)
  PROVE  /\ FrameOK' /\ stackCap' = stackCap /\ status' = status /\ proto' = proto /\ pc' = pc + 1
         /\ stack'[d] = value /\ \A r \in 0..(c - 1) : r # d => stack'[r] = stack[r]
<1>1. /\ stack' = [stack EXCEPT ![d] = value] /\ pc' = pc + 1
      /\ stackCap' = stackCap /\ status' = status /\ proto' = proto
  BY DEF VM!Store
<1>2. stackCap \in Nat /\ DOMAIN stack = 0..(stackCap - 1)
  BY DEF FrameOK
<1>3. \A r \in 0..(c - 1) : r \in 0..(stackCap - 1)
  BY <1>2
<1>4. DOMAIN stack' = 0..(stackCap - 1) /\ stack'[d] = value /\ \A r \in 0..(c - 1) : r # d => stack'[r] = stack[r]
  BY <1>1, <1>2, <1>3
<1> QED BY <1>1, <1>2, <1>4 DEF FrameOK

\* The machine is at the i-th instruction.
Context(i, pos, w) ==
  /\ IInv /\ Rest /\ Supported /\ stage = "run" /\ Ordered
  /\ FrameOK /\ status = "running" /\ proto = code /\ VM!wvmVerifyPrototype(code)
  /\ code.regCount <= stackCap /\ i \in DOMAIN mal /\ w \in [Nat -> Plain]
  /\ Follows(mal, w, Values) /\ Layout(pos)
  /\ \A r \in 0..(ParamTotal + (i - 1) - 1) : stack[r] = w[r]

\* Its immediate, if it has one, has been loaded.
InPlace(i, pos) ==
  /\ pc = BodyAt(mal[i], pos[i]) - 1 /\ pos[i + 1] = BodyAt(mal[i], pos[i]) + 1
  /\ LastOf(mal[i]).kind = "imm" => stack[code.regCount - 1] = VM!FromInt(Narrow(LastOf(mal[i]).n))

\* The registers it reads have their values.
LEMMA Readable ==
  ASSUME NEW i, NEW pos, NEW w, Context(i, pos, w), NEW r \in RegsOf(mal[i])
  PROVE  r \in 0..(ParamTotal + (i - 1) - 1) /\ ToReg(r) = r
<1>1. /\ IInv /\ Rest /\ Supported /\ stage = "run" /\ Ordered /\ i \in DOMAIN mal /\ Layout(pos)
      /\ VM!wvmVerifyPrototype(code)
  BY DEF Context
<1>2. Len(mal) \in Nat /\ DOMAIN mal = 1..Len(mal)
  BY <1>1, LayoutFacts
<1>3. PICK n \in Nat : n = Len(mal) /\ DOMAIN mal = 1..n /\ i \in 1..n
  BY <1>1, <1>2
<1>4. PICK t \in Nat : t = ParamTotal /\ t <= RegMax /\ RegMax \in Nat
  <2>1. ParamTotal \in Nat /\ ParamTotal <= RegMax
    BY <1>1, ParamIndices DEF IInv, Rest
  <2> QED BY <1>1, <2>1, MaxRegFacts
<1>5. r \in DefinedBefore(i)
  BY <1>1 DEF IInv, mal_verify_ssa, Ordered
<1>6. r \in 0..(t - 1) \/ \E j \in 1..(i - 1) : r = mal[j].dst
  BY <1>4, <1>5 DEF DefinedBefore, ParamTotal
<1>7. CASE r \in 0..(t - 1)
  <2>1. r \in Nat /\ r <= RegMax /\ r \in 0..(t + (i - 1) - 1)
    BY <1>3, <1>4, <1>7
  <2> QED BY <1>4, <2>1, ToRegSmall
<1>8. CASE \E j \in 1..(i - 1) : r = mal[j].dst
  <2>1. PICK j \in 1..(i - 1) : r = mal[j].dst
    BY <1>8
  <2>2. j \in 1..n /\ j # n /\ j < i
    BY <1>3
  <2>3. mal[j].op # "RET"
    BY <1>1, <1>3, <2>2 DEF Rest, NumberInv
  <2>4. mal[j].dst = t + (j - 1) /\ ToReg(mal[j].dst) = mal[j].dst
    BY <1>1, <1>3, <1>4, <2>2, <2>3, Room
  <2>5. r \in 0..(t + (i - 1) - 1)
    BY <1>3, <2>1, <2>2, <2>4
  <2> QED BY <1>4, <2>1, <2>4, <2>5
<1> QED BY <1>6, <1>7, <1>8

LEMMA SourceValue ==
  ASSUME NEW i, NEW pos, NEW w, Context(i, pos, w), InPlace(i, pos), NEW j \in DOMAIN mal[i].ops
  PROVE  stack[Source(code, mal[i].ops[j])] = Arg(mal[i].ops[j], w)
<1>1. IInv /\ Rest /\ i \in DOMAIN mal /\ stage = "run" /\ Layout(pos)
  BY DEF Context
<1>2. i \in DOMAIN mds
  BY <1>1, LayoutFacts
<1>3. PICK s \in Seq(Operand) : s = mal[i].ops /\ DOMAIN s = 1..Len(s) /\ Len(s) \in Nat /\ j \in 1..Len(s)
  BY <1>1, MalFacts DEF IInv
<1>4. PICK o \in Operand : o = s[j]
  BY <1>3
<1>5. CASE o.kind = "reg"
  <2>1. o.n \in RegsOf(mal[i])
    BY <1>3, <1>4, <1>5 DEF RegsOf
  <2>2. o.n \in 0..(ParamTotal + (i - 1) - 1) /\ ToReg(o.n) = o.n
    BY <2>1, Readable
  <2>3. stack[o.n] = w[o.n]
    BY <2>2 DEF Context
  <2>4. Source(code, o) = o.n /\ Arg(o, w) = w[o.n]
    BY <1>5, <2>2 DEF Source, Arg
  <2> QED BY <1>3, <1>4, <2>3, <2>4
<1>6. CASE o.kind # "reg"
  <2>1. o.kind = "imm"
    BY <1>6 DEF Operand
  <2>2. ~(j < Len(s))
    BY <1>1, <1>2, <1>3, <1>4, <1>6, ChosenOps
  <2>3. j = Len(s)
    BY <1>3, <2>2
  <2>4. o = LastOf(mal[i])
    BY <1>3, <1>4, <2>3 DEF LastOf
  <2>5. Source(code, o) = code.regCount - 1 /\ Arg(o, w) = VM!FromInt(Narrow(o.n))
    BY <2>1 DEF Source, Arg
  <2> QED BY <1>3, <1>4, <2>1, <2>4, <2>5 DEF InPlace
<1> QED BY <1>5, <1>6

\* The instruction that is executed.
LEMMA AtBody ==
  ASSUME NEW i, NEW pos, NEW w, Context(i, pos, w), InPlace(i, pos)
  PROVE  /\ pc \in Nat /\ Len(proto.instrs) \in Nat /\ pc < Len(proto.instrs)
         /\ proto.instrs[pc + 1] = Body(code, mal[i]) /\ Holds(mal[i], w, Values[Returned])
         /\ 1 \in DOMAIN mal[i].ops /\ (mal[i].op \notin SingleOps => 2 \in DOMAIN mal[i].ops)
         /\ i \in DOMAIN mds
<1>1. IInv /\ Rest /\ i \in DOMAIN mal /\ stage = "run" /\ Layout(pos) /\ proto = code
  BY DEF Context
<1>2. /\ Chunk(code, mal[i], pos[i], pos[i + 1]) /\ pos[i] \in Nat /\ Len(code.instrs) \in Nat /\ i \in DOMAIN mds
  BY <1>1, LayoutFacts
<1>3. PICK p \in Nat : p = BodyAt(mal[i], pos[i]) /\ 1 <= p
  BY <1>2 DEF BodyAt, Chunk
<1>4. pc = p - 1 /\ pos[i + 1] = p + 1
  BY <1>3 DEF InPlace
<1>5. p + 1 <= Len(code.instrs) + 1 /\ code.instrs[p] = Body(code, mal[i])
  BY <1>2, <1>3, <1>4 DEF Chunk
<1>6. pc \in Nat /\ pc < Len(code.instrs) /\ pc + 1 = p
  BY <1>2, <1>3, <1>4, <1>5
<1>7. Holds(mal[i], w, Values[Returned])
  BY <1>1 DEF Context, Follows
<1>8. PICK s \in Seq(Operand) : s = mal[i].ops
  BY <1>1, MalFacts DEF IInv
<1>9. (mal[i].op \in SingleOps => Len(s) = 1) /\ (mal[i].op \notin SingleOps => Len(s) = 2)
  BY <1>1, <1>8 DEF Rest, NumberInv, Numbered
<1>10. 1 \in DOMAIN s /\ (mal[i].op \notin SingleOps => 2 \in DOMAIN s)
  BY <1>9
<1> QED BY <1>1, <1>2, <1>5, <1>6, <1>7, <1>8, <1>10

\* The machine stores in the destination what the instruction says of it.
LEMMA BodyStored ==
  ASSUME NEW i, NEW pos, NEW w, Context(i, pos, w), InPlace(i, pos), VM!Step, mal[i].op # "RET"
  PROVE  VM!Store(w[mal[i].dst]) /\ VM!instr.a = mal[i].dst
<1>1. PICK e : e = proto.instrs[pc + 1]
  OBVIOUS
<1>2. PICK inst : inst = mal[i]
  OBVIOUS
<1>3. /\ pc \in Nat /\ Len(proto.instrs) \in Nat /\ pc < Len(proto.instrs) /\ status = "running"
      /\ e = Body(code, inst) /\ Holds(inst, w, Values[Returned]) /\ i \in DOMAIN mds /\ i \in DOMAIN mal
      /\ IInv /\ Rest /\ Supported /\ stage = "run" /\ VM!wvmVerifyPrototype(code) /\ Layout(pos)
  BY <1>1, <1>2, AtBody DEF Context
<1>4. /\ e.a = ToReg(inst.dst) /\ e.b = Source(code, inst.ops[1])
      /\ inst.op = "COPY" => e.op = "MOVE"
      /\ inst.op \in UnaryKinds => e.op = inst.op
      /\ inst.op \notin SingleOps => e.op = MachineOp(inst.op) /\ e.c = Source(code, inst.ops[2])
  BY <1>2, <1>3, BodyOp
<1>5. e.a = inst.dst /\ VM!instr = e
  <2>1. ToReg(mal[i].dst) = mal[i].dst
    BY <1>3, Room
  <2> QED BY <1>1, <1>2, <1>4, <2>1 DEF VM!instr
<1>6. /\ stack[e.b] = Arg(inst.ops[1], w)
      /\ inst.op \notin SingleOps => stack[e.c] = Arg(inst.ops[2], w)
  BY <1>2, <1>4, AtBody, SourceValue
<1>7. CASE inst.op = "COPY"
  <2>1. VM!Store(stack[e.b])
    BY <1>1, <1>3, <1>4, <1>7, StepOf
  <2>2. w[inst.dst] = stack[e.b]
    BY <1>3, <1>6, <1>7 DEF Holds
  <2> QED BY <1>2, <1>5, <2>1, <2>2
<1>8. CASE inst.op \in UnaryKinds
  <2>1. VM!Store(VM!FromInt(UnaryInt(inst.op, stack[e.b].n)))
    BY <1>1, <1>3, <1>4, <1>8, StepOf
  <2>2. w[inst.dst] = VM!FromInt(UnaryInt(inst.op, stack[e.b].n))
    BY <1>3, <1>6, <1>8 DEF Holds
  <2> QED BY <1>2, <1>5, <2>1, <2>2
<1>9. CASE inst.op \notin SingleOps
  <2>1. MachineOp(inst.op) \in BinaryKinds \ {"DIV", "MOD"}
    BY <1>2, <1>3, <1>9, ChosenOps DEF SingleOps
  <2>2. /\ stack[e.b] \in WordValues /\ stack[e.c] \in WordValues
        /\ w[inst.dst] = VM!wvm_exec_binary_int(MachineOp(inst.op), stack[e.b].n, stack[e.c].n)
    BY <1>3, <1>6, <1>9 DEF Holds
  <2>3. VM!Store(VM!wvm_exec_binary_int(e.op, stack[e.b].n, stack[e.c].n))
    BY <1>1, <1>3, <1>4, <1>9, <2>1, <2>2, StepOf
  <2> QED BY <1>2, <1>4, <1>5, <1>9, <2>2, <2>3
<1> QED BY <1>2, <1>7, <1>8, <1>9 DEF SingleOps

\* The machine returns the value of the returned node.
LEMMA BodyReturned ==
  ASSUME NEW i, NEW pos, NEW w, Context(i, pos, w), InPlace(i, pos), VM!Step, mal[i].op = "RET"
  PROVE  /\ status' = "idle" /\ result' = 1 /\ stack'[0] = Values[Returned]
<1>1. PICK e : e = proto.instrs[pc + 1]
  OBVIOUS
<1>2. /\ pc \in Nat /\ Len(proto.instrs) \in Nat /\ pc < Len(proto.instrs) /\ status = "running"
      /\ e = Body(code, mal[i]) /\ Holds(mal[i], w, Values[Returned]) /\ 1 \in DOMAIN mal[i].ops
      /\ i \in DOMAIN mds /\ IInv /\ Rest /\ FrameOK /\ code.regCount <= stackCap
      /\ VM!wvmVerifyPrototype(code) /\ proto = code
  BY <1>1, AtBody DEF Context
<1>3. e = Op("RETURN", Source(code, mal[i].ops[1]), 0, 0, 0)
  BY <1>2 DEF Body, UnaryKinds
<1>4. e.op = "RETURN" /\ e.a = Source(code, mal[i].ops[1])
  BY <1>3 DEF Op
<1>5. VM!OpReturn /\ VM!instr = e
  BY <1>1, <1>2, <1>4, StepOf DEF VM!instr
<1>6. stack' = [stack EXCEPT ![0] = stack[e.a]] /\ status' = "idle" /\ result' = 1
  BY <1>5 DEF VM!OpReturn, VM!Leave
<1>7. stack[e.a] = Arg(mal[i].ops[1], w) /\ Arg(mal[i].ops[1], w) = Values[Returned]
  BY <1>2, <1>4, SourceValue DEF Holds
<1>8. 0 \in DOMAIN stack
  <2>1. PICK o : o = mal[i].ops[1]
    OBVIOUS
  <2>2. o.kind = "reg" /\ o.n \in RegsOf(mal[i])
    <3>1. o.kind = "reg"
      BY <1>2, <2>1, ChosenOps
    <3> QED BY <1>2, <2>1, <3>1 DEF RegsOf
  <2>3. o.n \in 0..(ParamTotal + (i - 1) - 1) /\ ToReg(o.n) = o.n
    BY <2>2, Readable
  <2>4. e.a \in Nat
    BY <1>4, <2>1, <2>2, <2>3 DEF Source
  <2>5. e.a < code.regCount
    <3>1. pc + 1 \in DOMAIN code.instrs
      <4>1. code.instrs \in Seq(CodeRecord) /\ Len(code.instrs) \in Nat
        BY DEF Context, Rest, LayoutInv
      <4> QED BY <1>2, <4>1
    <3>2. VM!VerifyInstr(code, e)
      BY <1>1, <1>2, <3>1 DEF VM!wvmVerifyPrototype
    <3> QED BY <1>4, <3>2 DEF VM!VerifyInstr, VM!OP_R
  <2>6. stackCap \in Nat /\ DOMAIN stack = 0..(stackCap - 1) /\ code.regCount \in Nat
    BY <1>2, MaxRegFacts DEF FrameOK, Context, Rest, LayoutInv
  <2> QED BY <1>2, <2>4, <2>5, <2>6
<1> QED BY <1>6, <1>7, <1>8

\* What the machine's next state must have.
LEMMA RunningNext ==
  ASSUME NEW w \in [Nat -> Plain], NEW i, NEW pos, IInv, Rest, stage = "run", i \in DOMAIN mal,
         Follows(mal, w, Values), Layout(pos), VM!wvmVerifyPrototype(code), proto = code, code.regCount <= stackCap,
         UNCHANGED <<options, graph, at, mal, mds, code>>, args' = args, stage' = "run",
         FrameOK', status' = "running", proto' = proto, stackCap' = stackCap, Reached(i, pos, w)'
  PROVE  Running'
<1>1. Follows(mal, w, Values)'
  BY SameValues
<1>2. VM!wvmVerifyPrototype(code)' /\ Layout(pos)'
  BY LateRest
<1>3. i \in DOMAIN mal' /\ proto' = code' /\ code'.regCount <= stackCap'
  OBVIOUS
<1> QED BY <1>1, <1>2, <1>3 DEF Running

\* The load of an immediate.
LEMMA LoadStored ==
  ASSUME NEW i, NEW pos, NEW w, Context(i, pos, w), VM!Step, LastOf(mal[i]).kind = "imm", pc = pos[i] - 1
  PROVE  VM!Store(VM!FromInt(Narrow(LastOf(mal[i]).n))) /\ VM!instr.a = code.regCount - 1
<1>1. PICK e : e = proto.instrs[pc + 1]
  OBVIOUS
<1>2. IInv /\ Rest /\ i \in DOMAIN mal /\ stage = "run" /\ Layout(pos) /\ proto = code /\ status = "running"
  BY DEF Context
<1>3. PICK a \in Nat : a = pos[i] /\ Chunk(code, mal[i], a, pos[i + 1]) /\ Len(code.instrs) \in Nat
  BY <1>2, LayoutFacts
<1>4. PICK o : o = LastOf(mal[i])
  OBVIOUS
<1>5. 1 <= a /\ a <= Len(code.instrs) /\ Loads(code, a, o)
  BY <1>3, <1>4 DEF Chunk
<1>6. pc \in Nat /\ pc < Len(proto.instrs) /\ Len(proto.instrs) \in Nat /\ pc + 1 = a
  BY <1>2, <1>3, <1>5
<1>7. e = code.instrs[a] /\ VM!instr = e
  BY <1>1, <1>2, <1>6 DEF VM!instr
<1>8. CASE e = Op("LOAD_IMM", code.regCount - 1, 0, 0, Narrow(o.n))
  <2>1. e.op = "LOAD_IMM" /\ e.k = Narrow(o.n) /\ e.a = code.regCount - 1
    BY <1>8 DEF Op
  <2>2. VM!Store(VM!FromInt(e.k))
    BY <1>1, <1>2, <1>6, <2>1, StepOf
  <2> QED BY <1>4, <1>7, <2>1, <2>2
<1>9. CASE \E k \in 0..(Len(code.consts) - 1) :
             e = Op("LOAD_CONST", code.regCount - 1, 0, 0, k) /\ code.consts[k + 1] = VM!FromInt(Narrow(o.n))
  <2>1. PICK k : e = Op("LOAD_CONST", code.regCount - 1, 0, 0, k) /\ code.consts[k + 1] = VM!FromInt(Narrow(o.n))
    BY <1>9
  <2>2. e.op = "LOAD_CONST" /\ e.k = k /\ e.a = code.regCount - 1
    BY <2>1 DEF Op
  <2>3. VM!Store(proto.consts[e.k + 1])
    BY <1>1, <1>2, <1>6, <2>2, StepOf
  <2> QED BY <1>2, <1>4, <1>7, <2>1, <2>2, <2>3
<1> QED BY <1>5, <1>7, <1>8, <1>9 DEF Loads

\* One step of a program that computes the values of a graph.
LEMMA RunComputes ==
  ASSUME IInv, Rest, Supported, Run, Ordered, AllValues
  PROVE  IF status' = "running" THEN Running' ELSE Correct'
<1>1. /\ stage = "run" /\ VM!Step /\ stage' = IF status' = "running" THEN "run" ELSE "done"
      /\ UNCHANGED <<options, graph, at, mal, mds, code>> /\ args' = args
  BY DEF Run
<1>2. Running
  BY <1>1 DEF Rest, RunInv
<1>start. PICK w \in [Nat -> Plain], i \in DOMAIN mal :
        \E pos : Follows(mal, w, Values) /\ Layout(pos) /\ Reached(i, pos, w)
  BY <1>2 DEF Running
<1>3. PICK pos : Follows(mal, w, Values) /\ Layout(pos) /\ Reached(i, pos, w)
  BY <1>start
<1>4. /\ FrameOK /\ status = "running" /\ proto = code /\ VM!wvmVerifyPrototype(code) /\ code.regCount <= stackCap
  BY <1>2 DEF Running
<1>5. Context(i, pos, w)
  BY <1>1, <1>3, <1>4 DEF Context, Reached
<1>6. PICK n \in Nat : n = Len(mal) /\ DOMAIN mal = 1..n /\ i \in 1..n
  BY <1>1, <1>3, LayoutFacts
<1>7. /\ Chunk(code, mal[i], pos[i], pos[i + 1]) /\ pos[i] \in Nat /\ pos[i + 1] \in Nat /\ i \in DOMAIN mds
  BY <1>1, <1>3, LayoutFacts
<1>8. PICK c \in Nat : c = code.regCount
  BY <1>1, <1>3, LayoutFacts
<1>9. PICK t \in Nat : t = ParamTotal /\ ParamTotal' = t
  <2>1. ParamTotal \in Nat /\ ParamTotal' = ParamTotal
    BY <1>1, ParamIndices, LateRest DEF IInv, Rest
  <2> QED BY <2>1
<1>10. ASSUME mal[i].op # "RET"
       PROVE  /\ i + 1 \in DOMAIN mal /\ mal[i].dst = t + (i - 1) /\ mal[i].dst \in 0..(c - 1)
              /\ ToReg(mal[i].dst) = mal[i].dst
  <2>1. i # n
    BY <1>1, <1>3, <1>6, <1>10 DEF Rest, NumberInv
  <2>2. i + 1 \in 1..n
    BY <1>6, <2>1
  <2>3. /\ mal[i].dst = ParamTotal + (i - 1) /\ mal[i].dst \in Nat /\ mal[i].dst < code.regCount
        /\ ToReg(mal[i].dst) = mal[i].dst
    BY <1>1, <1>3, <1>4, <1>10, Room
  <2> QED BY <1>6, <1>8, <1>9, <2>2, <2>3
<1>11. \A r \in 0..(t + (i - 1) - 1) : stack[r] = w[r]
  BY <1>3, <1>9 DEF Reached
<1>12. ASSUME FrameOK', status' = "running", proto' = proto, stackCap' = stackCap,
              NEW k \in DOMAIN mal, Reached(k, pos, w)'
       PROVE  Running'
  BY <1>1, <1>3, <1>4, <1>12, RunningNext
<1>13. CASE InPlace(i, pos)
  <2>1. CASE mal[i].op = "RET"
    <3>1. status' = "idle" /\ result' = 1 /\ stack'[0] = Values[Returned]
      BY <1>1, <1>5, <1>13, <2>1, BodyReturned
    <3>2. Values' = Values /\ graph' = graph
      BY <1>1, SameValues
    <3>3. Correct'
      BY <3>1, <3>2 DEF Correct, Returned
    <3> QED BY <3>1, <3>3
  <2>2. CASE mal[i].op # "RET"
    <3>1. PICK d \in 0..(c - 1) : d = mal[i].dst /\ d = t + (i - 1) /\ i + 1 \in DOMAIN mal
      BY <1>10, <2>2
    <3>2. VM!Store(w[d]) /\ VM!instr.a = d
      BY <1>1, <1>5, <1>13, <2>2, <3>1, BodyStored
    <3>3. /\ FrameOK' /\ stackCap' = stackCap /\ status' = status /\ proto' = proto /\ pc' = pc + 1
          /\ stack'[d] = w[d] /\ \A r \in 0..(c - 1) : r # d => stack'[r] = stack[r]
      BY <1>4, <1>8, <3>2, Stored
    <3>4. ASSUME NEW r \in 0..(t + ((i + 1) - 1) - 1) PROVE stack'[r] = w[r]
      <4>1. r = d \/ (r # d /\ r \in 0..(t + (i - 1) - 1) /\ r \in 0..(c - 1))
        <5>1. i \in Nat /\ r \in Nat /\ r <= d
          BY <1>6, <3>1
        <5>2. r # d => r < t + (i - 1)
          BY <3>1, <5>1
        <5> QED BY <3>1, <5>1, <5>2
      <4> QED BY <1>11, <3>3, <4>1
    <3>5. pc' = pos[i + 1] - 1
      <4>1. PICK p \in Nat : p = BodyAt(mal[i], pos[i])
        BY <1>7 DEF BodyAt
      <4>2. pc = p - 1 /\ pos[i + 1] = p + 1
        BY <1>13, <4>1 DEF InPlace
      <4> QED BY <3>3, <4>1, <4>2
    <3>6. Reached(i + 1, pos, w)'
      BY <1>9, <3>4, <3>5 DEF Reached
    <3>7. Running'
      BY <1>4, <1>12, <3>1, <3>3, <3>6
    <3> QED BY <1>4, <3>3, <3>7
  <2> QED BY <2>1, <2>2
<1>14. CASE ~InPlace(i, pos)
  <2>1. LastOf(mal[i]).kind = "imm" /\ pc = pos[i] - 1
    <3>1. CASE pc = pos[i] - 1 /\ LastOf(mal[i]).kind # "imm"
      <4>1. BodyAt(mal[i], pos[i]) = pos[i]
        BY <3>1 DEF BodyAt
      <4>2. pos[i + 1] = pos[i] + 1
        BY <1>7, <3>1, <4>1 DEF Chunk
      <4> QED BY <1>14, <3>1, <4>1, <4>2 DEF InPlace
    <3>2. CASE /\ pc = pos[i] /\ LastOf(mal[i]).kind = "imm" /\ pos[i + 1] = pos[i] + 2
               /\ stack[code.regCount - 1] = VM!FromInt(Narrow(LastOf(mal[i]).n))
      <4>1. BodyAt(mal[i], pos[i]) = pos[i] + 1
        BY <3>2 DEF BodyAt
      <4>2. pc = BodyAt(mal[i], pos[i]) - 1 /\ pos[i + 1] = BodyAt(mal[i], pos[i]) + 1
        BY <1>7, <3>2, <4>1
      <4> QED BY <1>14, <3>2, <4>2 DEF InPlace
    <3> QED BY <1>3, <3>1, <3>2 DEF Reached
  <2>2. PICK value : value = VM!FromInt(Narrow(LastOf(mal[i]).n))
    OBVIOUS
  <2>3. mal[i].op # "RET"
    <3>1. ASSUME mal[i].op = "RET" PROVE FALSE
      <4>1. mal[i].ops[1].kind = "reg" /\ Len(mal[i].ops) = 1
        BY <1>1, <1>7, <3>1, ChosenOps DEF ShapedInst, SingleOps
      <4> QED BY <2>1, <4>1 DEF LastOf
    <3> QED BY <3>1
  <2>4. PICK d \in 0..(c - 1) :
          d = mal[i].dst /\ d = t + (i - 1) /\ i + 1 \in DOMAIN mal /\ ToReg(mal[i].dst) = d
    BY <1>10, <2>3
  <2>5. PICK s \in 0..(c - 1) : s = code.regCount - 1 /\ d <= s
    BY <1>8
  <2>6. VM!Store(value) /\ VM!instr.a = s
    BY <1>1, <1>5, <2>1, <2>2, <2>5, LoadStored
  <2>7. /\ FrameOK' /\ stackCap' = stackCap /\ status' = status /\ proto' = proto /\ pc' = pc + 1
        /\ stack'[s] = value /\ \A r \in 0..(c - 1) : r # s => stack'[r] = stack[r]
    BY <1>4, <1>8, <2>6, Stored
  <2>8. ASSUME NEW r \in 0..(t + (i - 1) - 1) PROVE stack'[r] = w[r]
    <3>1. r # s /\ r \in 0..(c - 1)
      BY <1>6, <1>8, <2>4, <2>5
    <3> QED BY <1>11, <2>7, <3>1
  <2>9. pc' = pos[i]
    BY <1>7, <2>1, <2>7
  <2>10. BodyAt(mal[i], pos[i]) = pos[i] + 1
    BY <2>1 DEF BodyAt
  <2>11. CASE pos[i + 1] = BodyAt(mal[i], pos[i]) + 1
    <3>1. pos[i + 1] = pos[i] + 2
      BY <1>7, <2>10, <2>11
    <3>2. stack'[code'.regCount - 1] = VM!FromInt(Narrow(LastOf(mal'[i]).n)) /\ LastOf(mal'[i]).kind = "imm"
      BY <1>1, <2>1, <2>2, <2>5, <2>7
    <3>3. Reached(i, pos, w)'
      BY <1>9, <2>8, <2>9, <3>1, <3>2 DEF Reached, LastOf
    <3>4. Running'
      BY <1>4, <1>12, <2>7, <3>3
    <3> QED BY <1>4, <2>7, <3>4
  <2>12. CASE pos[i + 1] = BodyAt(mal[i], pos[i]) /\ mal[i].op = "COPY" /\ ToReg(mal[i].dst) = code.regCount - 1
    <3>1. d = s /\ pos[i + 1] - 1 = pos[i]
      BY <1>7, <2>4, <2>5, <2>10, <2>12
    <3>2. w[d] = value
      <4>1. Holds(mal[i], w, Values[Returned])
        BY <1>3 DEF Follows
      <4>2. w[d] = Arg(mal[i].ops[1], w)
        BY <2>4, <2>12, <4>1 DEF Holds
      <4>3. LastOf(mal[i]) = mal[i].ops[1]
        <5>1. Len(mal[i].ops) = 1
          BY <1>1, <1>7, <2>12, ChosenOps DEF ShapedInst, SingleOps
        <5> QED BY <5>1 DEF LastOf
      <4> QED BY <2>1, <2>2, <4>2, <4>3 DEF Arg
    <3>3. ASSUME NEW r \in 0..(t + ((i + 1) - 1) - 1) PROVE stack'[r] = w[r]
      <4>1. r = d \/ r \in 0..(t + (i - 1) - 1)
        BY <1>6, <2>4
      <4> QED BY <2>7, <2>8, <3>1, <3>2, <4>1
    <3>4. Reached(i + 1, pos, w)'
      BY <1>9, <2>9, <3>1, <3>3 DEF Reached
    <3>5. Running'
      BY <1>4, <1>12, <2>4, <2>7, <3>4
    <3> QED BY <1>4, <2>7, <3>5
  <2> QED BY <1>7, <2>11, <2>12 DEF Chunk
<1> QED BY <1>13, <1>14

LEMMA RunRest ==
  ASSUME IInv, Rest, Supported, Run
  PROVE  Rest'
<1>1. /\ stage = "run" /\ stage' = IF status' = "running" THEN "run" ELSE "done"
      /\ UNCHANGED <<options, graph, at, mal, mds, code>> /\ args' = args
  BY DEF Run
<1>2. stage' \in {"run", "done"}
  BY <1>1
<1>3. ShapeInv' /\ NumberInv' /\ MeaningInv' /\ SelectedInv' /\ LayoutInv'
  BY <1>1, <1>2, LateRest
<1>4. WaitInv'
  BY <1>2 DEF WaitInv
<1>5. (Ordered' <=> Ordered) /\ (AllValues' <=> AllValues)
  BY <1>1, SameValues
<1>6. RunInv'
  <2>1. ASSUME stage' = "run", Ordered, AllValues PROVE Running'
    BY <1>1, <2>1, RunComputes
  <2> QED BY <1>5, <2>1 DEF RunInv
<1>7. ComputesMeaning'
  <2>1. ASSUME stage' = "done", Ordered, AllValues PROVE Correct'
    BY <1>1, <2>1, RunComputes
  <2>2. ~AllValues' => Correct'
    BY DEF AllValues, Correct
  <2> QED BY <1>5, <2>1, <2>2 DEF ComputesMeaning, Ordered
<1> QED BY <1>3, <1>4, <1>6, <1>7 DEF Rest

-----------------------------------------------------------------------------
(* The theorem.                                                            *)

LEMMA StutterRest ==
  ASSUME IInv, Rest, UNCHANGED vars
  PROVE  Rest'
<1>1. UNCHANGED <<options, stage, graph, at, nodeRegs, nextReg, mal, mds, code, args>> /\ UNCHANGED machine
  BY DEF vars, compiler
<1>2. UNCHANGED <<stack, stackCap, stackSize, status, proto, pc, result>>
  BY <1>1 DEF machine
<1>3. /\ Nodes' = Nodes /\ ParamNodes' = ParamNodes /\ ParamTotal' = ParamTotal
      /\ (Ordered' <=> Ordered) /\ GoodValues' = GoodValues
      /\ \A m, w, v : Follows(m, w, v)' <=> Follows(m, w, v)
      /\ \A regs, limit, w, v : Tracks(regs, limit, w, v)' <=> Tracks(regs, limit, w, v)
  BY <1>1, SameGraph, SameMeaning
<1>4. ShapeInv'
  BY <1>1, <1>3 DEF Rest, ShapeInv, Kinds, Consts, Params
<1>5. NumberInv'
  BY <1>1, <1>3 DEF Rest, NumberInv, Numbered
<1>6. MeaningInv'
  BY <1>1, <1>3 DEF Rest, MeaningInv
<1>7. SelectedInv'
  BY <1>1 DEF Rest, SelectedInv, Chosen
<1>8. /\ wvm_compute_reg_count' = wvm_compute_reg_count /\ (Fits' <=> Fits)
      /\ \A pos : Layout(pos)' <=> Layout(pos)
      /\ VM!wvmVerifyPrototype(code)' <=> VM!wvmVerifyPrototype(code)
  <2>1. \A pos : Layout(pos)' <=> Layout(pos)
    BY <1>1, SameChunk DEF Layout
  <2>2. VM!wvmVerifyPrototype(code)' <=> VM!wvmVerifyPrototype(code)
    BY <1>1 DEF VM!wvmVerifyPrototype, VM!VerifyInstr
  <2> QED BY <1>1, <2>1, <2>2, SameCount
<1>9. LayoutInv'
  BY <1>1, <1>8 DEF Rest, LayoutInv
<1>10. WaitInv'
  BY <1>1, <1>2, <1>8 DEF Rest, WaitInv, Waiting, FrameOK
<1>11. Values' = Values /\ (AllValues' <=> AllValues)
  BY <1>1, SameValues
<1>12. RunInv'
  <2>1. \A i, pos, w : Reached(i, pos, w)' <=> Reached(i, pos, w)
    BY <1>1, <1>2, <1>3 DEF Reached, LastOf
  <2>2. \A w : Follows(mal, w, Values)' <=> Follows(mal, w, Values)
    BY <1>1, SameValues
  <2>3. Running' <=> Running
    BY <1>1, <1>2, <1>8, <2>1, <2>2 DEF Running, FrameOK
  <2> QED BY <1>1, <1>3, <1>11, <2>3 DEF Rest, RunInv
<1>13. ComputesMeaning'
  <2>1. Correct' <=> Correct
    <3>1. ValueNodes' = ValueNodes
      BY <1>1, SameGraph
    <3> QED BY <1>1, <1>2, <1>8, <1>11, <3>1 DEF Correct
  <2> QED BY <1>1, <1>3, <2>1 DEF Rest, ComputesMeaning, Ordered
<1> QED BY <1>4, <1>5, <1>6, <1>7, <1>9, <1>10, <1>12, <1>13 DEF Rest

LEMMA NextRest ==
  ASSUME Supported
  PROVE  IInv /\ Rest /\ [Next]_vars => IInv' /\ Rest'
<1> SUFFICES ASSUME IInv, Rest, [Next]_vars PROVE IInv' /\ Rest'
  OBVIOUS
<1>1. IInv'
  BY NextIInv
<1>2. CASE Compile
  BY <1>1, <1>2, LowerNothingRest, LowerParamRest, LowerReturnRest, LowerOperatorRest, VerifyRest, PeepholeRest,
     SelectInstRest, SelectFailsRest, SelectDoneRest, EncodeInstRest, EncodeDoneRest,
     LoadArgRest, ExecuteRest, RunRest DEF Compile
<1>3. CASE Build
  BY <1>1, <1>3, BuildStepRest
<1>4. CASE UNCHANGED vars
  BY <1>1, <1>4, StutterRest
<1> QED BY <1>1, <1>2, <1>3, <1>4 DEF Next

\* The compiled program computes what the graph means: for every graph in
\* creation order that has no XOR, whatever lowering, the peepholes of
\* malApplyOnePeephole, selection and wvmPrototypeFromTOS made of it, wvmExecute
\* ends with the value of the returned node, or refuses a program that leaves
\* no register number for the immediates.
THEOREM MeaningComputed ==
  ASSUME Supported
  PROVE  Spec => []ComputesMeaning
<1>1. Init => IInv /\ Rest
  BY InitIInv, InitRest
<1>2. IInv /\ Rest /\ [Next]_vars => (IInv /\ Rest)'
  BY NextRest
<1>3. IInv /\ Rest => ComputesMeaning
  BY DEF Rest
<1> QED BY <1>1, <1>2, <1>3, PTL DEF Spec
=============================================================================
