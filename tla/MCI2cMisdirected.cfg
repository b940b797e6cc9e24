CONSTANTS
  Window = 3

SPECIFICATION Spec

INVARIANTS
  ScdReadIsDirected
