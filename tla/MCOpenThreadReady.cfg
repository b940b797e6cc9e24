SPECIFICATION FairSpec

INVARIANTS
  RoleIsKnown
  ReadyIsCurrent

PROPERTIES
  GoodNetworkEndsWait
