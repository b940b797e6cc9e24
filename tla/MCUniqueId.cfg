CONSTANTS
  Words <- MCWords
  MaxLength = 31
SPECIFICATION Spec
INVARIANTS
  AcceptedAsSent
  IdsAreUnique
