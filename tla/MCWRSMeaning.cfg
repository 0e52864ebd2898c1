SPECIFICATION Spec
CONSTANTS
  Catalogue <- Builtin
  Files <- MCAllRules
  Leaves <- MCLeaves
  Kinds = {"ADD", "SUB", "MUL", "NEG"}
  MaxBuilt = 2
  Touched = {}
  Strategies = {}
  MaxRules = 17
  MaxCalls = 2
  MaxIterations = 6
  StatsSlots = 17
  Args <- MCArgs
  Narrow <- MCNarrow
  UnaryInt <- MCUnaryInt
  BinaryInt <- MCBinaryInt
INVARIANTS
  AnswerMeans
CHECK_DEADLOCK FALSE
