CONSTANTS
  Window = 3

SPECIFICATION FairSpec

INVARIANTS
  MisdirectedByFailureOnly
  SerialIsItsOwn
  ForeignReadingFollowsFailure

PROPERTIES
  SensorsRecover
