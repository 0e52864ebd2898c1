SPECIFICATION Spec
CONSTANTS
  Catalogue <- Builtin
  Files <- MCFiles
  Leaves <- MCFewLeaves
  Kinds = {"ADD", "MUL", "NEG"}
  MaxBuilt = 2
  Touched = {"add-zero-right"}
  Strategies = {"OUTERMOST"}
  MaxRules = 18
  MaxCalls = 3
  MaxIterations = 6
  StatsSlots = 4
  Args <- MCArgs
  Narrow <- MCNarrow
  UnaryInt <- MCUnaryInt
  BinaryInt <- MCBinaryInt
INVARIANTS
  Acyclic
  QuietMeansNormal
  LinearAnswerMeans
  Settles
  StatsAddUp
PROPERTIES
  MeaningKept
CHECK_DEADLOCK FALSE
