SPECIFICATION Spec

INVARIANTS
  ReadyIsRemembered
