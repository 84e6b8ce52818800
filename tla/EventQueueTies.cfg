SPECIFICATION Spec
CONSTANTS
  Times = {16}
  Precision = 3
  MaxEvents = 3
PROPERTY
  TiesInOrder
CHECK_DEADLOCK FALSE
