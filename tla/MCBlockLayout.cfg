SPECIFICATION FairSpec
CONSTANTS
  Programs <- MCPrograms
  Endings <- MCEndings
  MaxEdits = 1
INVARIANTS
  TypeOK
  PredsSound
  LayoutComplete
  SuccessorsFollow
PROPERTIES
  Finishes
CHECK_DEADLOCK FALSE
