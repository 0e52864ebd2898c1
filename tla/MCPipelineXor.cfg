SPECIFICATION FairSpec
CONSTANTS
  Options <- MCXorOptions
  MaxParams = 1
  InitCap = 2
  PcSpan = 64
  Word <- MCWord
  Narrow <- MCNarrow
  UnaryInt <- MCUnaryInt
  BinaryInt <- MCBinaryInt
  Traps <- MCTraps
INVARIANTS
  ComputesMeaning
CHECK_DEADLOCK FALSE
