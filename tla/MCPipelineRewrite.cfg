SPECIFICATION FairSpec
CONSTANTS
  Options <- MCRewriteOptions
  MaxParams = 2
  InitCap = 2
  PcSpan = 64
  Word <- MCWord
  Narrow <- MCNarrow
  UnaryInt <- MCUnaryInt
  BinaryInt <- MCBinaryInt
  Traps <- MCTraps
INVARIANTS
  LoweringSchedules
CHECK_DEADLOCK FALSE
