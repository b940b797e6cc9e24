CONSTANTS
  NumSensors = 2
  MaxWire = 3
SPECIFICATION Spec
INVARIANT RegisteredFirst
