CONSTANTS
  Typed <- MCTyped
  Setups <- MCSetups
  MaxPartitions = 4
  NameLimit = 4
  HddSize = 6
  MaxSize = 1
SPECIFICATION Spec
CHECK_DEADLOCK FALSE
INVARIANTS TypeOK ListMatchesDisk TitlesAgree
PROPERTIES IdleWhenChanged
