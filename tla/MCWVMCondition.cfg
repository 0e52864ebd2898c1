SPECIFICATION Spec
CONSTANTS
  Prototypes <- MCPrototypes
  HostValues <- MCHostValues
  HostRegs <- MCHostRegs
  Word <- MCWord
  UnaryInt <- MCUnaryInt
  BinaryInt <- MCBinaryInt
  Traps <- MCTraps
  InitCap = 2
  MaxStack = 2
  PcSpan = 64
INVARIANT ConditionInFrame
CHECK_DEADLOCK FALSE
