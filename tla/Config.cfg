CONSTANTS
  CardSlots <- MCCardSlots
  Setups <- MCSetups
  PageCount = 2
  MaxColor = 2
SPECIFICATION Spec
INVARIANTS TypeOK KeysLive ChosenComesBack
PROPERTIES CancelGivesBack
