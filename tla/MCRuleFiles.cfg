CONSTANTS
  BlockSize = 24
  Sizes = {1, 2, 5, 8, 12, 15}
  Alignments = {1, 4}
  NodeSize = 12
  NodeAlign = 4
  TextSize <- TextSizeMC
  VarName <- VarNameMC
  Numeral <- NumeralMC
  Floats = {"2.5"}
  Quoted = {"'s'"}
  NodeKind <- NodeKindMC
  MalOpcode <- MalOpcodeMC
  Strategy <- StrategyMC
  InitRules = 1
  VarCap = 2
  ParseSexp <- ParseMC
  RulesFromTree <- RulesMC
  Validates <- ValidMC
  Scenarios <- ScenariosMC
SPECIFICATION FairSpec
INVARIANTS TypeOK ArenaSound LoadsWhatIsWritten NeverMadeUp NothingLeft ValidatedBuilds
PROPERTIES ArenaSpec LoadEnds
