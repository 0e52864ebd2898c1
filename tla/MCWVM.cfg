SPECIFICATION FairSpec
CONSTANTS
  Prototypes <- MCPrototypes
  HostValues <- MCHostValues
  HostRegs <- MCHostRegs
  Word <- MCWord
  UnaryInt <- MCUnaryInt
  BinaryInt <- MCBinaryInt
  Traps <- MCTraps
  InitCap = 2
  MaxStack = 2
  PcSpan = 64
INVARIANTS
  TypeOK
  OperandsInFrame
PROPERTIES
  RegisterWindow
  FreshRegisters
  ReturnAgrees
  Terminates
CHECK_DEADLOCK FALSE
