SPECIFICATION Spec
CONSTANTS
  MaxNodes = 3
  MaxInputs = 3
  Scenarios <- MCScenarios
INVARIANTS
  TypeOK
  NoPhantomUse
  UsesMirrorInputs
  RemovedIsolated
  VerifyBlamesOnlyNulls
PROPERTY ImplementsValueGraph
