CONSTANT
  OtherCauses = {"software"}

SPECIFICATION FairSpec

INVARIANTS
  TypeOK
  CauseIsTrue
  CauseIsHeeded
  OwnChannels

PROPERTIES
  BootsOrResets
