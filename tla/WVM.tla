-------------------------------- MODULE WVM --------------------------------
(***************************************************************************)
(* The WIRBLE virtual machine (wvm_runtime.c) and its bytecode verifier    *)
(* (wvmVerifyPrototype of wvm_encoder.c).  One value stack is both the     *)
(* host's operand stack (wvmPush, wvmPop, wvmSetReg) and, from slot 0 up,  *)
(* the register file of the prototype being executed: wvmExecute verifies, *)
(* grows and clears the stack once, then indexes it with the registers of  *)
(* each instruction without looking at a bound again.                      *)
(*                                                                         *)
(* The host calls and the interpreter loop are one thread: host operations *)
(* happen while no prototype runs, and the loop takes one step per         *)
(* instruction.  The error handler callback is not modelled.               *)
(***************************************************************************)
EXTENDS Integers, Sequences

CONSTANTS Prototypes,       \* prototypes the host may execute
          HostValues,       \* values the host may push or store
          HostRegs,         \* registers the host may set
          Word,             \* the machine integers (int32_t)
          UnaryInt(_, _),   \* UnaryInt(op, x): NEG and NOT on Word
          BinaryInt(_, _, _),  \* BinaryInt(op, x, y): arithmetic on Word
          Traps(_, _, _),   \* Traps(op, x, y): the processor may refuse
          InitCap,          \* stack slots of a new machine (32)
          MaxStack,         \* bound: slots the host keeps in use
          PcSpan            \* number of values of a program counter (2^32)

VARIABLES stack,       \* vm->stack: [0..stackCap-1 -> Value]
          stackCap,    \* vm->stackCap
          stackSize,   \* vm->stackSize
          hasError,    \* vm->hasError
          frameDepth,  \* vm->frameDepth
          status,      \* "idle", in the loop ("running"), or "trapped"
          proto,       \* the prototype being executed
          pc,          \* its program counter, from 0
          result       \* what the last wvmExecute returned

vars == <<stack, stackCap, stackSize, hasError, frameDepth, status, proto, pc, result>>

-----------------------------------------------------------------------------
(* Values: a tag, and the low 32 bits as an integer.  Only integers have   *)
(* low bits set; cleared memory reads as the float 0.0.                    *)

FromInt(x) == [tag |-> "int", n |-> x]
Nil   == [tag |-> "nil", n |-> 0]
False == [tag |-> "false", n |-> 0]
True  == [tag |-> "true", n |-> 0]
Zeroed == [tag |-> "float", n |-> 0]
Value == {FromInt(x) : x \in Word} \cup {Nil, False, True, Zeroed}

IsInt(v) == v.tag = "int"
AsInt(v) == v.n
IsTruthy(v) == v.tag \notin {"nil", "false"}

-----------------------------------------------------------------------------
(* Instructions are records [op, a, b, c, k]: three register fields and an *)
(* immediate, constant index or jump offset k.                             *)

ArithOps == {"ADD", "SUB", "MUL", "DIV", "MOD", "AND", "OR", "XOR", "SHL", "SHR"}
CompareOps == {"EQ", "NE", "LT", "LE", "GT", "GE"}
BinaryOps == ArithOps \cup CompareOps
UnaryOps == {"NEG", "NOT"}
CondJumps == {"JUMP_IF_TRUE", "JUMP_IF_FALSE"}

\* wvmOpcodeEncodings, for the encodings the verifier looks at.
OP_R == {"RETURN", "LOAD_NIL", "LOAD_TRUE", "LOAD_FALSE", "INC", "DEC",
         "NEW_TABLE", "PUSH", "POP"}
OP_RR == UnaryOps \cup {"MOVE", "GET_LEN", "TO_INT", "TO_FLOAT", "TO_STRING", "TO_BOOL"}
OP_RRR == BinaryOps \cup {"CALL", "TAILCALL", "GET_INDEX", "SET_INDEX"}
OP_R_CONST == {"LOAD_CONST", "LOAD_GLOBAL", "STORE_GLOBAL", "CLOSURE"}
OP_R_IMM32 == {"LOAD_IMM"}
\* Encodings without a check: the bare opcodes, jumps, upvalues, fields, guards.
OP_Unchecked == CondJumps \cup {"NOP", "HALT", "JUMP", "LOAD_UPVAL", "STORE_UPVAL",
                 "LOAD_FIELD", "STORE_FIELD", "GUARD_TYPE", "GUARD_TRUE", "GUARD_FALSE",
                 "GUARD_NOT_NIL", "GUARD_CLASS", "GUARD_RANGE", "GUARD_RESOURCE"}
Opcodes == OP_R \cup OP_RR \cup OP_RRR \cup OP_R_CONST \cup OP_R_IMM32 \cup OP_Unchecked

\* Opcodes the interpreter's switch has a case for.
Implemented == BinaryOps \cup UnaryOps \cup CondJumps
               \cup {"NOP", "HALT", "RETURN", "MOVE", "LOAD_IMM", "LOAD_CONST",
                     "LOAD_NIL", "LOAD_TRUE", "LOAD_FALSE", "JUMP"}

Instr == [op : STRING, a : Nat, b : Nat, c : Nat, k : Int]
Prototype == [regCount : Nat, consts : Seq(Value), instrs : Seq(Instr)]
NoProto == [regCount |-> 0, consts |-> <<>>, instrs |-> <<>>]

ASSUME MachineAssumption ==
  /\ 0 \in Word /\ Word \subseteq Int
  /\ \A op \in UnaryOps, x \in Word : UnaryInt(op, x) \in Word
  /\ \A op \in ArithOps, x, y \in Word : BinaryInt(op, x, y) \in Word
  /\ InitCap \in Nat \ {0} /\ MaxStack \in Nat /\ PcSpan \in Nat \ {0}
ASSUME HostAssumption ==
  /\ HostValues \subseteq Value /\ HostRegs \subseteq Nat
  /\ Prototypes \subseteq Prototype
  /\ \A p \in Prototypes : \A i \in DOMAIN p.instrs :
       p.instrs[i].op = "LOAD_IMM" => p.instrs[i].k \in Word
  /\ \A p \in Prototypes : \A i \in DOMAIN p.instrs :
       p.instrs[i].op = "LOAD_CONST" => p.instrs[i].k \in Nat

\* Deliberately wrong variants: the destination is not checked; > for >=.
VerifyReadsOnly(p, i) ==
  /\ i.op \in Opcodes
  /\ i.op \in OP_RR \cup OP_RRR => i.b < p.regCount
  /\ i.op \in OP_RRR => i.c < p.regCount
  /\ i.op \in OP_R_CONST => i.k < Len(p.consts)
VerifyOffByOne(p, i) ==
  /\ i.op \in Opcodes
  /\ i.op \in OP_R \cup OP_RR \cup OP_RRR \cup OP_R_CONST \cup OP_R_IMM32
       => i.a <= p.regCount
  /\ i.op \in OP_RR \cup OP_RRR => i.b <= p.regCount
  /\ i.op \in OP_RRR => i.c <= p.regCount
  /\ i.op \in OP_R_CONST => i.k <= Len(p.consts)

\* One iteration of the verifier: the opcode exists and the registers and the
\* constant its encoding names are in range.
VerifyInstr(p, i) ==
  /\ i.op \in Opcodes
  /\ i.op \in OP_R \cup OP_RR \cup OP_RRR \cup OP_R_CONST \cup OP_R_IMM32
       => i.a < p.regCount
  /\ i.op \in OP_RR \cup OP_RRR => i.b < p.regCount
  /\ i.op \in OP_RRR => i.c < p.regCount
  /\ i.op \in OP_R_CONST => i.k < Len(p.consts)

\* A prototype without instructions has no bytecode array and is refused.
wvmVerifyPrototype(p) ==
  /\ p.instrs # <<>>
  /\ \A i \in DOMAIN p.instrs : VerifyInstr(p, p.instrs[i])

-----------------------------------------------------------------------------
(* Growing the stack: the capacity is doubled until it is large enough,    *)
(* and the new slots are cleared.                                          *)

\* Deliberately wrong variant: a single doubling.
DoubledOnce(cap, needed) == {IF needed <= cap THEN cap ELSE cap * 2}

\* The capacity after wvmEnsureStack: cap, doubled as often as needed.
NewCaps(cap, needed) ==
  {c \in cap..(cap + 2 * needed) :
     \E d \in 0..needed : /\ c = cap * 2^d /\ c >= needed
                          /\ \A e \in 0..(d - 1) : cap * 2^e < needed}

Grown(cap) == [r \in 0..(cap - 1) |-> IF r < stackCap THEN stack[r] ELSE Zeroed]

-----------------------------------------------------------------------------
(* The host's operations.                                                  *)

Init ==
  /\ stackCap = InitCap
  /\ stack = [r \in 0..(InitCap - 1) |-> Zeroed]
  /\ stackSize = 0
  /\ hasError = FALSE
  /\ frameDepth = 0
  /\ status = "idle"
  /\ proto = NoProto
  /\ pc = 0
  /\ result = 1

wvmPush(v) ==
  /\ status = "idle" /\ stackSize < MaxStack
  /\ \E cap \in NewCaps(stackCap, stackSize + 1) :
       /\ stackCap' = cap
       /\ stack' = [Grown(cap) EXCEPT ![stackSize] = v]
  /\ stackSize' = stackSize + 1
  /\ UNCHANGED <<hasError, frameDepth, status, proto, pc, result>>

\* The slot keeps its content.
wvmPop ==
  /\ status = "idle" /\ stackSize > 0
  /\ stackSize' = stackSize - 1
  /\ UNCHANGED <<stack, stackCap, hasError, frameDepth, status, proto, pc, result>>

wvmSetReg(reg, v) ==
  /\ status = "idle"
  /\ \E cap \in NewCaps(stackCap, reg + 1) :
       /\ stackCap' = cap
       /\ stack' = [Grown(cap) EXCEPT ![reg] = v]
  /\ stackSize' = IF reg >= stackSize THEN reg + 1 ELSE stackSize
  /\ UNCHANGED <<hasError, frameDepth, status, proto, pc, result>>

wvmClearError ==
  /\ status = "idle"
  /\ hasError' = FALSE
  /\ UNCHANGED <<stack, stackCap, stackSize, frameDepth, status, proto, pc, result>>

\* wvmVerifyPrototype called by the host, for a prototype it built or for one
\* wvmReadObjectMemory just read: a verdict, left in hasError either way.
wvmVerifyOnly(p) ==
  /\ status = "idle"
  /\ hasError' = ~wvmVerifyPrototype(p)
  /\ UNCHANGED <<stack, stackCap, stackSize, frameDepth, status, proto, pc, result>>

\* wvmReadObjectMemory given too few bytes or another kind of file.
wvmReadObjectRefused ==
  /\ status = "idle"
  /\ hasError' = TRUE
  /\ UNCHANGED <<stack, stackCap, stackSize, frameDepth, status, proto, pc, result>>

\* wvmExecute refuses a prototype that does not verify.
wvmExecuteRefused(p) ==
  /\ status = "idle" /\ ~wvmVerifyPrototype(p)
  /\ hasError' = TRUE
  /\ result' = 0
  /\ UNCHANGED <<stack, stackCap, stackSize, frameDepth, status, proto, pc>>

\* Deliberately wrong variant: registers above the stack are not cleared.
EntryNotCleared(cap, regCount) == Grown(cap)

\* The register file on entry: the registers above the stack in use are
\* cleared; those below it are the host's values, or the last run's.
EntryStack(cap, regCount) ==
  [r \in 0..(cap - 1) |-> IF r \in stackSize..(regCount - 1) THEN Zeroed ELSE Grown(cap)[r]]

\* wvmExecute up to its loop.
wvmExecute(p) ==
  /\ status = "idle" /\ wvmVerifyPrototype(p)
  /\ hasError' = FALSE
  /\ \E cap \in NewCaps(stackCap, stackSize + p.regCount) :
       /\ stackCap' = cap
       /\ stack' = EntryStack(cap, p.regCount)
  /\ stackSize' = p.regCount
  /\ frameDepth' = 1
  /\ status' = "running"
  /\ proto' = p
  /\ pc' = 0
  /\ UNCHANGED result

-----------------------------------------------------------------------------
(* The interpreter loop.                                                   *)

instr == proto.instrs[pc + 1]

AtOp(ops) == status = "running" /\ pc < Len(proto.instrs) /\ instr.op \in ops

\* Leaving wvmExecute with the given return value; its locals are gone.
Leave(r) ==
  /\ status' = "idle" /\ frameDepth' = 0 /\ result' = r
  /\ proto' = NoProto /\ pc' = 0

\* Storing v in register a and going on to the next instruction.
Store(v) ==
  /\ stack' = [stack EXCEPT ![instr.a] = v]
  /\ pc' = pc + 1
  /\ UNCHANGED <<stackCap, stackSize, hasError, frameDepth, status, proto, result>>

OpNop ==
  /\ AtOp({"NOP"})
  /\ pc' = pc + 1
  /\ UNCHANGED <<stack, stackCap, stackSize, hasError, frameDepth, status, proto, result>>

OpHalt ==
  /\ AtOp({"HALT"})
  /\ pc' = Len(proto.instrs)
  /\ UNCHANGED <<stack, stackCap, stackSize, hasError, frameDepth, status, proto, result>>

\* The result is left in slot 0.
OpReturn ==
  /\ AtOp({"RETURN"})
  /\ stack' = [stack EXCEPT ![0] = stack[instr.a]]
  /\ stackSize' = proto.regCount
  /\ Leave(1)
  /\ UNCHANGED <<stackCap, hasError>>

OpMove == AtOp({"MOVE"}) /\ Store(stack[instr.b])

OpLoad ==
  \/ AtOp({"LOAD_IMM"}) /\ Store(FromInt(instr.k))
  \/ AtOp({"LOAD_CONST"}) /\ Store(proto.consts[instr.k + 1])
  \/ AtOp({"LOAD_NIL"}) /\ Store(Nil)
  \/ AtOp({"LOAD_TRUE"}) /\ Store(True)
  \/ AtOp({"LOAD_FALSE"}) /\ Store(False)

\* No type check: the low bits of any value are taken for an integer.
OpUnary ==
  /\ AtOp(UnaryOps)
  /\ Store(FromInt(UnaryInt(instr.op, AsInt(stack[instr.b]))))

\* Deliberately wrong variant: the error path falls through to the loop.
FailSilently ==
  /\ Leave(0)
  /\ UNCHANGED <<stack, stackCap, stackSize, hasError>>

\* Leaving wvmExecute on an error.
Fail ==
  /\ hasError' = TRUE
  /\ Leave(0)
  /\ UNCHANGED <<stack, stackCap, stackSize>>

BothInt(v, w) == IsInt(v) /\ IsInt(w)

Compare(op, x, y) ==
  \/ op = "EQ" /\ x = y
  \/ op = "NE" /\ x # y
  \/ op \in {"LT", "LE"} /\ x < y
  \/ op \in {"GT", "GE"} /\ x > y
  \/ op \in {"LE", "GE"} /\ x = y

\* The value wvm_exec_binary_int stores for two integers.
wvm_exec_binary_int(op, x, y) ==
  IF op \in CompareOps THEN IF Compare(op, x, y) THEN True ELSE False
  ELSE FromInt(BinaryInt(op, x, y))

OpBinary ==
  /\ AtOp(BinaryOps)
  /\ BothInt(stack[instr.b], stack[instr.c])
  /\ Store(wvm_exec_binary_int(instr.op, AsInt(stack[instr.b]), AsInt(stack[instr.c])))

\* INT_MIN / -1 is undefined in C: the quotient wraps (OpBinary) or the
\* processor traps and the process ends.
OpTrap ==
  /\ AtOp(BinaryOps)
  /\ BothInt(stack[instr.b], stack[instr.c])
  /\ Traps(instr.op, AsInt(stack[instr.b]), AsInt(stack[instr.c]))
  /\ status' = "trapped"
  /\ UNCHANGED <<stack, stackCap, stackSize, hasError, frameDepth, proto, pc, result>>

OpBinaryTypeError ==
  /\ AtOp(BinaryOps)
  /\ ~BothInt(stack[instr.b], stack[instr.c])
  /\ Fail

\* Deliberately wrong variant: a forward jump stays at the jump itself.
TargetIgnoresSign == IF instr.k > 0 THEN pc ELSE (pc + instr.k) % PcSpan

\* The jump target is reduced to the width of the program counter, and not
\* compared with anything.
Target == (pc + instr.k) % PcSpan

GoTo(t) ==
  /\ pc' = t
  /\ UNCHANGED <<stack, stackCap, stackSize, hasError, frameDepth, status, proto, result>>

OpJump == AtOp({"JUMP"}) /\ GoTo(Target)

\* The condition register was not verified: it may lie outside the register
\* file, and outside the stack, where any value may be read.
Conditions == IF instr.a < stackCap THEN {stack[instr.a]} ELSE Value

OpJumpIf ==
  \/ /\ AtOp({"JUMP_IF_TRUE"})
     /\ \E v \in Conditions : GoTo(IF IsTruthy(v) THEN Target ELSE pc + 1)
  \/ /\ AtOp({"JUMP_IF_FALSE"})
     /\ \E v \in Conditions : GoTo(IF ~IsTruthy(v) THEN Target ELSE pc + 1)

OpUnimplemented == AtOp(Opcodes \ Implemented) /\ Fail

\* Running past the code, by HALT, by a jump or at its end, is a success.
EndOfCode ==
  /\ status = "running" /\ pc >= Len(proto.instrs)
  /\ Leave(1)
  /\ UNCHANGED <<stack, stackCap, stackSize, hasError>>

Step == \/ OpNop \/ OpHalt \/ OpReturn \/ OpMove \/ OpLoad \/ OpUnary
        \/ OpBinary \/ OpTrap \/ OpBinaryTypeError
        \/ OpJump \/ OpJumpIf \/ OpUnimplemented \/ EndOfCode

Host == \/ \E v \in HostValues : wvmPush(v) \/ \E r \in HostRegs : wvmSetReg(r, v)
        \/ wvmPop \/ wvmClearError \/ wvmReadObjectRefused
        \/ \E p \in Prototypes : wvmVerifyOnly(p) \/ wvmExecuteRefused(p) \/ wvmExecute(p)

Next == Host \/ Step

Spec == Init /\ [][Next]_vars

\* Once in wvmExecute the calling thread only runs the loop.
FairSpec == Spec /\ WF_vars(Step)

-----------------------------------------------------------------------------
(* Properties.                                                             *)

\* Types; the stack in use never exceeds the stack allocated.
TypeOK ==
  /\ stackCap \in Nat \ {0}
  /\ stack \in [0..(stackCap - 1) -> Value]
  /\ stackSize \in 0..stackCap
  /\ hasError \in BOOLEAN
  /\ frameDepth \in 0..1
  /\ status \in {"idle", "running", "trapped"}
  /\ proto \in Prototypes \cup {NoProto}
  /\ pc \in Nat
  /\ result \in 0..1

\* The slots the next instruction reads or writes.
Touched(i) ==
  (IF i.op \in (OP_R \cup OP_RR \cup OP_RRR \cup OP_R_CONST \cup OP_R_IMM32) THEN {i.a} ELSE {})
  \cup (IF i.op \in OP_RR \cup OP_RRR THEN {i.b} ELSE {})
  \cup (IF i.op \in OP_RRR THEN {i.c} ELSE {})
  \cup (IF i.op = "RETURN" THEN {0} ELSE {})

\* Verification, done once before the loop, keeps every operand inside the
\* register file and the register file inside the stack, at every
\* instruction a run reaches (the condition of a jump apart).
OperandsInFrame ==
  /\ status = "running" => proto.regCount = stackSize
  /\ AtOp(Implemented) => /\ Touched(instr) \subseteq 0..(proto.regCount - 1)
                          /\ instr.op = "LOAD_CONST" => instr.k < Len(proto.consts)

\* The header says wvmVerifyPrototype checks bounds: then the condition
\* register of a conditional jump is in the register file too.
ConditionInFrame == AtOp(CondJumps) => instr.a < proto.regCount

\* A running prototype changes no slot above its registers: what the host
\* left there, and the capacity, survive any run, failed ones included.
RegisterWindow ==
  [][status = "running" =>
       /\ stackCap' = stackCap
       /\ \A r \in proto.regCount..(stackCap - 1) : stack'[r] = stack[r]]_vars

\* A prototype never starts with a value the host popped or a longer run
\* left behind: registers above the stack in use read as cleared.
FreshRegisters ==
  [][status = "idle" /\ status' = "running" =>
       \A r \in stackSize..(proto'.regCount - 1) : stack'[r] = Zeroed]_vars

\* wvmExecute returns 0 exactly when it reports an error, on all its exits.
ReturnAgrees ==
  [][status = "running" /\ status' = "idle" => (result' = 0 <=> hasError')]_vars

\* Jumps of p lead forwards.
Forward(p) == \A i \in DOMAIN p.instrs :
                p.instrs[i].op \in CondJumps \cup {"JUMP"} => p.instrs[i].k > 0

\* A prototype whose jumps lead forwards leaves wvmExecute, wherever the
\* jumps land (inside the code, at its end or far beyond it).
Terminates == (status = "running" /\ Forward(proto)) ~> status # "running"
=============================================================================
