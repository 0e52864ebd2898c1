----------------------------- MODULE WVMProofs -----------------------------
(***************************************************************************)
(* Proofs about WVM, for every set of prototypes, every word size and      *)
(* every stack.                                                            *)
(***************************************************************************)
EXTENDS WVM, TLAPS

\* What the loop relies on: the prototype was verified, its registers are the
\* stack in use, and the frame is there exactly as long as the loop runs.
FrameOK ==
  /\ status # "idle" => /\ proto \in Prototypes /\ wvmVerifyPrototype(proto)
                        /\ stackSize = proto.regCount
  /\ status = "idle" => frameDepth = 0

\* wvmExecute clears the error of an earlier call before its loop, and every
\* error the loop raises leaves it.
NoErrorRunning == status # "idle" => ~hasError

IInv == TypeOK /\ FrameOK /\ NoErrorRunning

\* A capacity chosen by wvmEnsureStack is large enough and never smaller.
LEMMA CapGrows ==
  ASSUME NEW cap \in Nat \ {0}, NEW needed \in Nat, NEW c \in NewCaps(cap, needed)
  PROVE  c \in Nat \ {0} /\ c >= cap /\ c >= needed
BY DEF NewCaps

\* Growing keeps the values and yields a stack of the new capacity.
LEMMA GrownType ==
  ASSUME TypeOK, NEW c \in Nat \ {0}, c >= stackCap
  PROVE  Grown(c) \in [0..(c - 1) -> Value]
BY DEF TypeOK, Grown, Value

\* Every value is a record whose integer part is a machine word.
LEMMA AsIntType == ASSUME NEW v \in Value PROVE AsInt(v) \in Word
BY MachineAssumption DEF Value, AsInt, FromInt, Nil, False, True, Zeroed

\* The initial machine.
LEMMA InitIInv == Init => IInv
<1> SUFFICES ASSUME Init PROVE IInv
  OBVIOUS
<1>1. hasError \in BOOLEAN /\ NoErrorRunning
  BY Zenon DEF Init, NoErrorRunning
<1>2. stack \in [0..(InitCap - 1) -> Value] /\ InitCap \in Nat \ {0}
  BY MachineAssumption DEF Init, Value
<1>3. TypeOK
  BY <1>1, <1>2 DEF Init, TypeOK
<1> QED BY <1>1, <1>3 DEF IInv, FrameOK, Init

\* wvmPush.
LEMMA PushStep ==
  ASSUME IInv, NEW v \in HostValues, wvmPush(v)
  PROVE  IInv'
<1>1. TypeOK /\ v \in Value
  BY HostAssumption DEF IInv
<1>2. PICK cap \in NewCaps(stackCap, stackSize + 1) :
        stackCap' = cap /\ stack' = [Grown(cap) EXCEPT ![stackSize] = v]
  BY DEF wvmPush
<1>3. stackSize + 1 \in Nat /\ stackSize \in Nat /\ stackCap \in Nat \ {0}
  BY <1>1 DEF TypeOK
<1>4. cap \in Nat \ {0} /\ cap >= stackCap /\ cap >= stackSize + 1
  BY <1>2, <1>3, CapGrows
<1>5. Grown(cap) \in [0..(cap - 1) -> Value]
  BY <1>1, <1>4, GrownType
<1>6. stack' \in [0..(cap - 1) -> Value]
  BY <1>1, <1>2, <1>5
<1>7. TypeOK'
  BY <1>1, <1>2, <1>3, <1>4, <1>6 DEF TypeOK, wvmPush
<1> QED BY <1>7 DEF IInv, FrameOK, NoErrorRunning, wvmPush

\* wvmSetReg.
LEMMA SetRegStep ==
  ASSUME IInv, NEW reg \in HostRegs, NEW v \in HostValues, wvmSetReg(reg, v)
  PROVE  IInv'
<1>1. TypeOK /\ v \in Value /\ reg \in Nat
  BY HostAssumption DEF IInv
<1>2. PICK cap \in NewCaps(stackCap, reg + 1) :
        stackCap' = cap /\ stack' = [Grown(cap) EXCEPT ![reg] = v]
  BY DEF wvmSetReg
<1>3. stackSize \in Nat /\ stackSize <= stackCap /\ stackCap \in Nat \ {0}
  BY <1>1 DEF TypeOK
<1>4. cap \in Nat \ {0} /\ cap >= stackCap /\ cap >= reg + 1
  BY <1>1, <1>2, <1>3, CapGrows
<1>5. Grown(cap) \in [0..(cap - 1) -> Value]
  BY <1>1, <1>4, GrownType
<1>6. stack' \in [0..(cap - 1) -> Value]
  BY <1>1, <1>2, <1>5
<1>7. TypeOK'
  BY <1>1, <1>2, <1>3, <1>4, <1>6 DEF TypeOK, wvmSetReg
<1> QED BY <1>7 DEF IInv, FrameOK, NoErrorRunning, wvmSetReg

\* wvmExecute up to the loop: the registers fit the stack.
LEMMA ExecuteStep ==
  ASSUME IInv, NEW p \in Prototypes, wvmExecute(p)
  PROVE  IInv'
<1>1. TypeOK /\ p.regCount \in Nat
  BY HostAssumption DEF IInv, Prototype
<1>2. PICK cap \in NewCaps(stackCap, stackSize + p.regCount) :
        stackCap' = cap /\ stack' = EntryStack(cap, p.regCount)
  BY DEF wvmExecute
<1>3. stackSize \in Nat /\ stackCap \in Nat \ {0}
  BY <1>1 DEF TypeOK
<1>4. cap \in Nat \ {0} /\ cap >= stackCap /\ cap >= stackSize + p.regCount
  BY <1>1, <1>2, <1>3, CapGrows
<1>5. Grown(cap) \in [0..(cap - 1) -> Value]
  BY <1>1, <1>4, GrownType
<1>6. stack' \in [0..(cap - 1) -> Value]
  BY <1>2, <1>5 DEF EntryStack, Value
<1>7. hasError' \in BOOLEAN /\ NoErrorRunning'
  BY Zenon DEF wvmExecute, NoErrorRunning
<1>8. /\ stackSize' = p.regCount /\ frameDepth' = 1 /\ status' = "running"
      /\ proto' = p /\ pc' = 0 /\ result' = result /\ wvmVerifyPrototype(p)
  BY DEF wvmExecute
<1>9. TypeOK'
  <2>1. result' \in 0..1
    BY <1>1, <1>8 DEF TypeOK
  <2>2. stackSize' \in 0..stackCap'
    BY <1>1, <1>2, <1>3, <1>4, <1>8
  <2> QED BY <1>2, <1>4, <1>6, <1>7, <1>8, <2>1, <2>2 DEF TypeOK
<1>10. FrameOK'
  BY <1>8 DEF FrameOK, wvmVerifyPrototype, VerifyInstr
<1> QED BY <1>7, <1>9, <1>10 DEF IInv

-----------------------------------------------------------------------------
(* The loop.                                                               *)

\* A prototype being executed has been verified instruction by instruction,
\* and its registers are slots of the stack.
LEMMA VerifiedInstr ==
  ASSUME IInv, NEW ops, AtOp(ops)
  PROVE  /\ status = "running" /\ instr.op \in ops
         /\ proto \in Prototypes
         /\ instr \in Instr /\ pc + 1 \in DOMAIN proto.instrs
         /\ VerifyInstr(proto, instr)
         /\ proto.regCount \in Nat /\ proto.regCount = stackSize
         /\ proto.regCount <= stackCap
         /\ proto.consts \in Seq(Value)
<1>1. status = "running" /\ pc < Len(proto.instrs) /\ instr.op \in ops
  BY DEF AtOp
<1>2. proto \in Prototypes /\ wvmVerifyPrototype(proto) /\ proto.regCount = stackSize
  BY <1>1 DEF IInv, FrameOK
<1>3. /\ proto.regCount \in Nat /\ proto.instrs \in Seq(Instr)
      /\ proto.consts \in Seq(Value)
  BY <1>2, HostAssumption DEF Prototype
<1>4. pc \in Nat /\ stackSize <= stackCap
  BY DEF IInv, TypeOK
<1>5. pc + 1 \in 1..Len(proto.instrs) /\ DOMAIN proto.instrs = 1..Len(proto.instrs)
  BY <1>1, <1>3, <1>4
<1>6. instr \in Instr /\ VerifyInstr(proto, instr)
  BY <1>2, <1>3, <1>5 DEF instr, wvmVerifyPrototype
<1> QED BY <1>1, <1>2, <1>3, <1>4, <1>5, <1>6

\* Storing a value in a register that was checked.
LEMMA StoreStep ==
  ASSUME IInv, NEW ops, AtOp(ops), NEW v \in Value, Store(v),
         instr.a < proto.regCount
  PROVE  IInv'
<1>1. /\ UNCHANGED <<stackCap, stackSize, hasError, frameDepth, status, proto, result>>
      /\ stack' = [stack EXCEPT ![instr.a] = v] /\ pc' = pc + 1
  BY DEF Store
<1>2. TypeOK'
  <2>1. stack \in [0..(stackCap - 1) -> Value] /\ pc \in Nat
    BY DEF IInv, TypeOK
  <2> DEFINE a == instr.a
  <2>2. stack' = [stack EXCEPT ![a] = v]
    BY <1>1
  <2> HIDE DEF a
  <2>3. stack' \in [0..(stackCap - 1) -> Value]
    BY <2>1, <2>2
  <2>4. pc' \in Nat
    BY <1>1, <2>1
  <2> QED BY <1>1, <2>3, <2>4 DEF IInv, TypeOK
<1>3. FrameOK'
  BY <1>1 DEF IInv, FrameOK, wvmVerifyPrototype, VerifyInstr
<1>4. NoErrorRunning'
  BY <1>1 DEF IInv, NoErrorRunning
<1> QED BY <1>2, <1>3, <1>4 DEF IInv

\* Moving the program counter.
LEMMA GoToStep ==
  ASSUME IInv, NEW t \in Nat, GoTo(t)
  PROVE  IInv'
<1>1. /\ UNCHANGED <<stack, stackCap, stackSize, hasError, frameDepth, status, proto, result>>
      /\ pc' = t
  BY DEF GoTo
<1>2. TypeOK'
  BY <1>1 DEF IInv, TypeOK
<1>3. FrameOK'
  BY <1>1 DEF IInv, FrameOK, wvmVerifyPrototype, VerifyInstr
<1>4. NoErrorRunning'
  BY <1>1 DEF IInv, NoErrorRunning
<1> QED BY <1>2, <1>3, <1>4 DEF IInv

\* Leaving with an error.
LEMMA FailStep ==
  ASSUME IInv, Fail
  PROVE  IInv'
<1>1. hasError' \in BOOLEAN
  BY Zenon DEF Fail
<1>2. /\ UNCHANGED <<stack, stackCap, stackSize>> /\ status' = "idle" /\ frameDepth' = 0
      /\ result' = 0 /\ proto' = NoProto /\ pc' = 0
  BY DEF Fail, Leave
<1>3. TypeOK'
  BY <1>1, <1>2 DEF IInv, TypeOK
<1> QED BY <1>2, <1>3 DEF IInv, FrameOK, NoErrorRunning

\* Leaving with success: no error can be pending while the loop runs.
LEMMA SuccessStep ==
  ASSUME IInv, status = "running", Leave(1), hasError' = hasError, stackCap' = stackCap,
         stack' \in [0..(stackCap - 1) -> Value], stackSize' = stackSize
  PROVE  IInv'
<1>1. /\ status' = "idle" /\ frameDepth' = 0 /\ result' = 1
      /\ proto' = NoProto /\ pc' = 0
  BY DEF Leave
<1>2. TypeOK'
  BY <1>1 DEF IInv, TypeOK
<1>3. ~hasError'
  BY DEF IInv, NoErrorRunning
<1> QED BY <1>1, <1>2, <1>3 DEF IInv, FrameOK, NoErrorRunning

\* Values the loop computes are values.
LEMMA ReadType ==
  ASSUME IInv, NEW r \in Nat, r < stackCap
  PROVE  stack[r] \in Value /\ AsInt(stack[r]) \in Word
<1>1. stack[r] \in Value
  BY DEF IInv, TypeOK
<1> QED BY <1>1, AsIntType

\* The interpreter's steps that store a value.
LEMMA ComputeStep ==
  ASSUME IInv, OpMove \/ OpLoad \/ OpUnary \/ OpBinary
  PROVE  IInv'
<1>1. CASE OpMove
  <2>1. AtOp({"MOVE"}) /\ Store(stack[instr.b])
    BY <1>1 DEF OpMove
  <2>2. instr.a < proto.regCount /\ instr.b < stackCap /\ instr.b \in Nat
    BY <2>1, VerifiedInstr DEF VerifyInstr, OP_RR, Instr, IInv, TypeOK
  <2> QED BY <2>1, <2>2, ReadType, StoreStep
<1>2. CASE OpLoad
  <2>1. CASE AtOp({"LOAD_IMM"}) /\ Store(FromInt(instr.k))
    <3>1. /\ instr.op = "LOAD_IMM" /\ VerifyInstr(proto, instr) /\ proto \in Prototypes
          /\ pc + 1 \in DOMAIN proto.instrs
      BY <2>1, VerifiedInstr
    <3>2. instr.a < proto.regCount
      BY <3>1 DEF VerifyInstr, OP_R_IMM32
    <3>3. FromInt(instr.k) \in Value
      BY <3>1, HostAssumption DEF instr, Value
    <3> QED BY <2>1, <3>2, <3>3, StoreStep
  <2>2. CASE AtOp({"LOAD_CONST"}) /\ Store(proto.consts[instr.k + 1])
    <3>1. /\ instr.op = "LOAD_CONST" /\ VerifyInstr(proto, instr) /\ proto \in Prototypes
          /\ pc + 1 \in DOMAIN proto.instrs /\ proto.consts \in Seq(Value)
      BY <2>2, VerifiedInstr
    <3>2. instr.a < proto.regCount /\ instr.k < Len(proto.consts)
      BY <3>1 DEF VerifyInstr, OP_R_CONST
    <3>3. instr.k \in Nat
      BY <3>1, HostAssumption DEF instr
    <3>4. proto.consts[instr.k + 1] \in Value
      BY <3>1, <3>2, <3>3
    <3> QED BY <2>2, <3>2, <3>4, StoreStep
  <2>3. ASSUME NEW op \in {"LOAD_NIL", "LOAD_TRUE", "LOAD_FALSE"},
               NEW v \in {Nil, True, False}, AtOp({op}), Store(v)
        PROVE  IInv'
    <3>1. instr.op = op /\ VerifyInstr(proto, instr)
      BY <2>3, VerifiedInstr
    <3>2. instr.a < proto.regCount
      BY <3>1 DEF VerifyInstr, OP_R
    <3>3. v \in Value
      BY DEF Value
    <3> QED BY <2>3, <3>2, <3>3, StoreStep
  <2> QED BY <1>2, <2>1, <2>2, <2>3 DEF OpLoad
<1>3. CASE OpUnary
  <2> DEFINE v == FromInt(UnaryInt(instr.op, AsInt(stack[instr.b])))
  <2>1. AtOp(UnaryOps) /\ Store(v)
    BY <1>3 DEF OpUnary
  <2>2. instr.op \in UnaryOps /\ VerifyInstr(proto, instr) /\ instr \in Instr
        /\ proto.regCount \in Nat /\ proto.regCount <= stackCap
    BY <2>1, VerifiedInstr
  <2>3. instr.a < proto.regCount /\ instr.b < stackCap /\ instr.b \in Nat
    BY <2>2 DEF VerifyInstr, OP_RR, Instr, IInv, TypeOK
  <2>4. v \in Value
    <3>1. AsInt(stack[instr.b]) \in Word
      BY <2>3, ReadType
    <3> QED BY <2>2, <3>1, MachineAssumption DEF Value
  <2> HIDE DEF v
  <2> QED BY <2>1, <2>3, <2>4, StoreStep
<1>4. CASE OpBinary
  <2> DEFINE v == wvm_exec_binary_int(instr.op, AsInt(stack[instr.b]), AsInt(stack[instr.c]))
  <2>1. AtOp(BinaryOps) /\ Store(v)
    BY <1>4 DEF OpBinary
  <2>2. instr.op \in BinaryOps /\ VerifyInstr(proto, instr) /\ instr \in Instr
        /\ proto.regCount \in Nat /\ proto.regCount <= stackCap
    BY <2>1, VerifiedInstr
  <2>3. /\ instr.a < proto.regCount
        /\ instr.b < stackCap /\ instr.b \in Nat
        /\ instr.c < stackCap /\ instr.c \in Nat
    BY <2>2 DEF VerifyInstr, OP_RRR, Instr, IInv, TypeOK
  <2>4. v \in Value
    <3>1. AsInt(stack[instr.b]) \in Word /\ AsInt(stack[instr.c]) \in Word
      BY <2>3, ReadType
    <3>2. instr.op \notin CompareOps => instr.op \in ArithOps
      BY <2>2 DEF BinaryOps
    <3> QED BY <3>1, <3>2, MachineAssumption DEF wvm_exec_binary_int, Value
  <2> HIDE DEF v
  <2> QED BY <2>1, <2>3, <2>4, StoreStep
<1> QED BY <1>1, <1>2, <1>3, <1>4

\* The steps that only move the program counter.
LEMMA ControlStep ==
  ASSUME IInv, OpNop \/ OpHalt \/ OpJump \/ OpJumpIf
  PROVE  IInv'
<1>1. pc \in Nat /\ pc + 1 \in Nat
  BY DEF IInv, TypeOK
<1>2. ASSUME NEW ops, AtOp(ops)
      PROVE  Target \in Nat /\ Len(proto.instrs) \in Nat
  <2>1. instr.k \in Int /\ proto.instrs \in Seq(Instr)
    BY <1>2, VerifiedInstr, HostAssumption DEF Instr, Prototype
  <2> QED BY <1>1, <2>1, MachineAssumption DEF Target
<1>3. CASE OpNop
  BY <1>1, <1>3, GoToStep DEF OpNop, GoTo
<1>4. CASE OpHalt
  BY <1>2, <1>4, GoToStep DEF OpHalt, GoTo
<1>5. CASE OpJump
  BY <1>2, <1>5, GoToStep DEF OpJump
<1>6. CASE OpJumpIf
  BY <1>1, <1>2, <1>6, GoToStep DEF OpJumpIf
<1> QED BY <1>3, <1>4, <1>5, <1>6

\* The steps that end the run.
LEMMA ExitStep ==
  ASSUME IInv, OpReturn \/ OpTrap \/ OpBinaryTypeError \/ OpUnimplemented \/ EndOfCode
  PROVE  IInv'
<1>1. CASE OpReturn
  <2>1. AtOp({"RETURN"}) /\ stack' = [stack EXCEPT ![0] = stack[instr.a]]
        /\ stackSize' = proto.regCount /\ Leave(1) /\ UNCHANGED <<stackCap, hasError>>
    BY <1>1 DEF OpReturn
  <2>2. /\ instr.op = "RETURN" /\ VerifyInstr(proto, instr) /\ instr \in Instr
        /\ proto.regCount = stackSize /\ status = "running"
        /\ proto.regCount \in Nat /\ proto.regCount <= stackCap
    BY <2>1, VerifiedInstr
  <2>3. instr.a < stackCap /\ instr.a \in Nat
    BY <2>2 DEF VerifyInstr, OP_R, Instr, IInv, TypeOK
  <2>4. stack' \in [0..(stackCap - 1) -> Value]
    <3> DEFINE v == stack[instr.a]
    <3>1. v \in Value
      BY <2>3, ReadType
    <3>2. stack' = [stack EXCEPT ![0] = v] /\ stack \in [0..(stackCap - 1) -> Value]
      BY <2>1 DEF IInv, TypeOK
    <3> HIDE DEF v
    <3> QED BY <3>1, <3>2
  <2> QED BY <2>1, <2>2, <2>4, SuccessStep
<1>2. CASE EndOfCode
  <2>1. status = "running" /\ Leave(1) /\ UNCHANGED <<stack, stackCap, stackSize, hasError>>
    BY <1>2 DEF EndOfCode
  <2>2. stack' \in [0..(stackCap - 1) -> Value]
    BY <2>1 DEF IInv, TypeOK
  <2> QED BY <2>1, <2>2, SuccessStep
<1>3. CASE OpBinaryTypeError \/ OpUnimplemented
  BY <1>3, FailStep DEF OpBinaryTypeError, OpUnimplemented
<1>4. CASE OpTrap
  <2>1. /\ status = "running" /\ status' = "trapped"
        /\ UNCHANGED <<stack, stackCap, stackSize, hasError, frameDepth, proto, pc, result>>
    BY <1>4 DEF OpTrap, AtOp
  <2>2. TypeOK'
    BY <2>1 DEF IInv, TypeOK
  <2>3. FrameOK'
    BY <2>1 DEF IInv, FrameOK, wvmVerifyPrototype, VerifyInstr
  <2>4. NoErrorRunning'
    BY <2>1 DEF IInv, NoErrorRunning
  <2> QED BY <2>2, <2>3, <2>4 DEF IInv
<1> QED BY <1>1, <1>2, <1>3, <1>4

\* The host operations that leave the stack's slots alone.
LEMMA HostStep ==
  ASSUME IInv, wvmPop \/ wvmClearError \/ wvmReadObjectRefused
               \/ (\E p \in Prototypes : wvmVerifyOnly(p) \/ wvmExecuteRefused(p))
  PROVE  IInv'
<1>1. CASE wvmPop
  <2>1. TypeOK'
    BY <1>1 DEF IInv, TypeOK, wvmPop
  <2> QED BY <1>1, <2>1 DEF IInv, FrameOK, NoErrorRunning, wvmPop
<1>2. CASE wvmClearError
  <2>1. hasError' \in BOOLEAN /\ NoErrorRunning'
    BY <1>2, Zenon DEF wvmClearError, NoErrorRunning
  <2>2. TypeOK'
    BY <1>2, <2>1 DEF IInv, TypeOK, wvmClearError
  <2> QED BY <1>2, <2>1, <2>2 DEF IInv, FrameOK, wvmClearError
<1>3. CASE \E p \in Prototypes : wvmExecuteRefused(p)
  <2>1. hasError' \in BOOLEAN
    BY <1>3, Zenon DEF wvmExecuteRefused
  <2>2. /\ status = "idle" /\ result' = 0
        /\ UNCHANGED <<stack, stackCap, stackSize, frameDepth, status, proto, pc>>
    BY <1>3 DEF wvmExecuteRefused
  <2>3. TypeOK'
    BY <2>1, <2>2 DEF IInv, TypeOK
  <2> QED BY <2>2, <2>3 DEF IInv, FrameOK, NoErrorRunning
<1>4. CASE wvmReadObjectRefused \/ \E p \in Prototypes : wvmVerifyOnly(p)
  <2>1. hasError' \in BOOLEAN
    BY <1>4, Zenon DEF wvmReadObjectRefused, wvmVerifyOnly
  <2>2. /\ status = "idle"
        /\ UNCHANGED <<stack, stackCap, stackSize, frameDepth, status, proto, pc, result>>
    BY <1>4 DEF wvmReadObjectRefused, wvmVerifyOnly
  <2>3. TypeOK'
    BY <2>1, <2>2 DEF IInv, TypeOK
  <2> QED BY <2>2, <2>3 DEF IInv, FrameOK, NoErrorRunning
<1> QED BY <1>1, <1>2, <1>3, <1>4

-----------------------------------------------------------------------------
(* The theorems.                                                           *)

\* Every host operation and every instruction preserves the invariant.
LEMMA NextIInv == ASSUME IInv, [Next]_vars PROVE IInv'
<1>1. CASE Step
  BY <1>1, ComputeStep, ControlStep, ExitStep DEF Step
<1>2. CASE Host
  BY <1>2, PushStep, SetRegStep, ExecuteStep, HostStep DEF Host
<1>3. CASE UNCHANGED vars
  BY <1>3 DEF vars, IInv, TypeOK, FrameOK, NoErrorRunning, wvmVerifyPrototype, VerifyInstr
<1> QED BY <1>1, <1>2, <1>3 DEF Next

LEMMA InvIInv == Spec => []IInv
BY InitIInv, NextIInv, PTL DEF Spec

\* The stack in use never exceeds the stack allocated, and every slot holds a
\* value.
THEOREM TypeCorrect == Spec => []TypeOK
<1>1. IInv => TypeOK
  BY DEF IInv
<1> QED BY <1>1, InvIInv, PTL

\* One verification before the loop is enough: at every instruction a run
\* reaches, the operands are registers and the registers are stack slots.
THEOREM OperandsStayInFrame == Spec => []OperandsInFrame
<1>1. ASSUME IInv PROVE OperandsInFrame
  <2>1. status = "running" => proto.regCount = stackSize
    BY <1>1 DEF IInv, FrameOK
  <2>2. ASSUME AtOp(Implemented)
        PROVE  /\ Touched(instr) \subseteq 0..(proto.regCount - 1)
               /\ instr.op = "LOAD_CONST" => instr.k < Len(proto.consts)
    <3>1. instr \in Instr /\ VerifyInstr(proto, instr) /\ proto.regCount \in Nat
      BY <1>1, <2>2, VerifiedInstr
    <3>2. instr.a \in Nat /\ instr.b \in Nat /\ instr.c \in Nat
      BY <3>1 DEF Instr
    <3>3. instr.op = "LOAD_CONST" => instr.k < Len(proto.consts)
      BY <3>1 DEF VerifyInstr, OP_R_CONST
    <3>4. instr.op = "RETURN" => instr.op \in OP_R
      BY DEF OP_R
    <3> QED BY <3>1, <3>2, <3>3, <3>4 DEF Touched, VerifyInstr
  <2> QED BY <2>1, <2>2 DEF OperandsInFrame
<1> QED BY <1>1, InvIInv, PTL

\* Host operations are taken only while no prototype runs.
LEMMA HostIsIdle == Host => status = "idle"
BY DEF Host, wvmPush, wvmSetReg, wvmPop, wvmClearError, wvmReadObjectRefused, wvmVerifyOnly,
       wvmExecuteRefused, wvmExecute

\* The slots a step of the loop may change.
LEMMA StepWindow ==
  ASSUME IInv, Step
  PROVE  /\ stackCap' = stackCap
         /\ \A r \in proto.regCount..(stackCap - 1) : stack'[r] = stack[r]
<1>1. stack \in [0..(stackCap - 1) -> Value]
  BY DEF IInv, TypeOK
<1>2. ASSUME NEW a \in Nat, NEW v, a < proto.regCount, proto.regCount \in Nat,
             stack' = [stack EXCEPT ![a] = v]
      PROVE  \A r \in proto.regCount..(stackCap - 1) : stack'[r] = stack[r]
  BY <1>1, <1>2
<1>3. ASSUME NEW ops, AtOp(ops), NEW v, Store(v),
             ops \subseteq OP_R \cup OP_RR \cup OP_RRR \cup OP_R_CONST \cup OP_R_IMM32
      PROVE  /\ stackCap' = stackCap
             /\ \A r \in proto.regCount..(stackCap - 1) : stack'[r] = stack[r]
  <2>1. instr.op \in ops /\ VerifyInstr(proto, instr) /\ proto.regCount \in Nat
        /\ instr \in Instr
    BY <1>3, VerifiedInstr
  <2>2. instr.a \in Nat /\ instr.a < proto.regCount
    BY <1>3, <2>1 DEF VerifyInstr, Instr
  <2>3. stackCap' = stackCap /\ stack' = [stack EXCEPT ![instr.a] = v]
    BY <1>3 DEF Store
  <2> QED BY <1>2, <2>1, <2>2, <2>3
<1>4. CASE OpMove
  BY <1>3, <1>4 DEF OpMove, OP_RR
<1>5. CASE OpLoad
  BY <1>3, <1>5 DEF OpLoad, OP_R, OP_R_CONST, OP_R_IMM32
<1>6. CASE OpUnary
  BY <1>3, <1>6 DEF OpUnary, OP_RR
<1>7. CASE OpBinary
  BY <1>3, <1>7 DEF OpBinary, OP_RRR
<1>8. CASE OpReturn
  <2>1. AtOp({"RETURN"}) /\ stack' = [stack EXCEPT ![0] = stack[instr.a]]
        /\ stackCap' = stackCap
    BY <1>8 DEF OpReturn
  <2>2. instr.op = "RETURN" /\ VerifyInstr(proto, instr) /\ proto.regCount \in Nat
        /\ instr \in Instr
    BY <2>1, VerifiedInstr
  <2>3. instr.a \in Nat /\ instr.a < proto.regCount
    BY <2>2 DEF VerifyInstr, Instr, OP_R
  <2>4. 0 < proto.regCount
    BY <2>2, <2>3
  <2> QED BY <1>2, <2>1, <2>2, <2>4
<1>9. CASE OpNop \/ OpHalt \/ OpJump \/ OpJumpIf
  BY <1>9 DEF OpNop, OpHalt, OpJump, OpJumpIf, GoTo
<1>10. CASE OpTrap \/ OpBinaryTypeError \/ OpUnimplemented \/ EndOfCode
  BY <1>10 DEF OpTrap, OpBinaryTypeError, OpUnimplemented, EndOfCode, Fail
<1> QED BY <1>4, <1>5, <1>6, <1>7, <1>8, <1>9, <1>10 DEF Step

\* No instruction changes a slot above the registers of its prototype.
THEOREM WindowKept == Spec => RegisterWindow
<1> DEFINE A == status = "running" =>
                  /\ stackCap' = stackCap
                  /\ \A r \in proto.regCount..(stackCap - 1) : stack'[r] = stack[r]
<1>1. IInv /\ [Next]_vars => [A]_vars
  BY StepWindow, HostIsIdle DEF Next
<1> QED BY <1>1, InvIInv, PTL DEF Spec, RegisterWindow

\* Registers above the stack in use are cleared on entry.
THEOREM EntryIsFresh == Spec => FreshRegisters
<1> DEFINE A == status = "idle" /\ status' = "running" =>
                  \A r \in stackSize..(proto'.regCount - 1) : stack'[r] = Zeroed
<1>1. ASSUME IInv, [Next]_vars, status = "idle", status' = "running"
      PROVE  \A r \in stackSize..(proto'.regCount - 1) : stack'[r] = Zeroed
  <2>1. ~Step /\ ~UNCHANGED vars
    BY <1>1 DEF Step, OpNop, OpHalt, OpReturn, OpMove, OpLoad, OpUnary, OpBinary,
                OpTrap, OpBinaryTypeError, OpJump, OpJumpIf, OpUnimplemented, EndOfCode,
                AtOp, vars
  <2>2. PICK p \in Prototypes : wvmExecute(p)
    BY <1>1, <2>1 DEF Next, Host, wvmPush, wvmSetReg, wvmPop, wvmClearError,
                      wvmReadObjectRefused, wvmVerifyOnly, wvmExecuteRefused
  <2>3. PICK cap \in NewCaps(stackCap, stackSize + p.regCount) :
          stackCap' = cap /\ stack' = EntryStack(cap, p.regCount) /\ proto' = p
    BY <2>2 DEF wvmExecute
  <2>4. stackSize \in Nat /\ stackCap \in Nat \ {0} /\ p.regCount \in Nat
    BY <1>1, HostAssumption DEF IInv, TypeOK, Prototype
  <2>5. cap \in Nat /\ cap >= stackSize + p.regCount
    BY <2>3, <2>4, CapGrows
  <2> QED BY <2>3, <2>4, <2>5 DEF EntryStack
<1>2. IInv /\ [Next]_vars => [A]_vars
  BY <1>1
<1> QED BY <1>2, InvIInv, PTL DEF Spec, FreshRegisters

\* wvmExecute returns 0 exactly when it leaves an error behind.
THEOREM ReturnsAgree == Spec => ReturnAgrees
<1> DEFINE A == status = "running" /\ status' = "idle" => (result' = 0 <=> hasError')
<1>1. ASSUME IInv, Step, status' = "idle" PROVE result' = 0 <=> hasError'
  <2>1. CASE OpBinaryTypeError \/ OpUnimplemented
    <3>1. result' = 0 /\ hasError' = TRUE
      BY <2>1 DEF OpBinaryTypeError, OpUnimplemented, Fail, Leave
    <3> QED BY <3>1
  <2>2. CASE OpReturn \/ EndOfCode
    <3>1. result' = 1 /\ hasError' = hasError /\ status = "running"
      BY <2>2 DEF OpReturn, EndOfCode, Leave, AtOp
    <3>2. ~hasError
      BY <1>1, <3>1 DEF IInv, NoErrorRunning
    <3> QED BY <3>1, <3>2
  <2> QED BY <1>1, <2>1, <2>2 DEF Step, OpNop, OpHalt, OpMove, OpLoad, OpUnary, OpBinary,
             OpTrap, OpJump, OpJumpIf, Store, GoTo, AtOp
<1>2. IInv /\ [Next]_vars => [A]_vars
  BY <1>1, HostIsIdle DEF Next
<1> QED BY <1>2, InvIInv, PTL DEF Spec, ReturnAgrees
=============================================================================
