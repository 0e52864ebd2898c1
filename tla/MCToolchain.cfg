SPECIFICATION FairSpec
CONSTANTS
  Scenarios <- MCScenarios
  Base = 8
  HeaderSize = 6
  InitBuf = 54
  MaxCells = 8
  OpOrder <- MCOpOrder
  IntWidth = 12
  LongWidth = 14
  LineCap = 8
  Word <- MCWord
  Narrow <- MCNarrow
  UnaryInt <- MCUnaryInt
  BinaryInt <- MCBinaryInt
  Traps <- MCTraps
  Folded <- MCFold
  FoldingTraps <- MCFoldTraps
  LiteralsOf <- MCLiterals
  ExactValues <- MCExact
  InLong <- MCStaysInLong
INVARIANTS
  InterpreterRight
  ReadsOneProgram
  FailureKeepsOutput
  HeapSound
PROPERTIES
  ToolsEnd
