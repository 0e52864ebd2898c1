SPECIFICATION FairSpec
CONSTANTS
  Options <- MCAllOptions
  MaxParams = 2
  InitCap = 2
  PcSpan = 64
  Word <- MCWord
  Narrow <- MCNarrow
  UnaryInt <- MCUnaryInt
  BinaryInt <- MCBinaryInt
  Traps <- MCTraps
INVARIANTS
  ComputesMeaning
  RefusedOnlyUnselectable
  AlwaysSSA
PROPERTIES
  Finishes
CHECK_DEADLOCK FALSE
