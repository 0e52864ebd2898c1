SPECIFICATION FairSpec
CONSTANTS
  Programs <- MCPrograms
  Endings <- MCEndings
  MaxEdits = 1
INVARIANTS
  PredsListed
CHECK_DEADLOCK FALSE
