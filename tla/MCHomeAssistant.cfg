CONSTANTS
  NumSensors = 2
  MaxWire = 3
SPECIFICATION FairSpec
INVARIANTS
  SeenInOrder
PROPERTIES
  OfflineWhenGone
  ComesBack
  ImplementsAvailability
