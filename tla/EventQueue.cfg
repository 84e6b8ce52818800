SPECIFICATION Spec
CONSTANTS
  Times = {0, 7, 8, 32}
  Precision = 3
  MaxEvents = 6
INVARIANTS
  TypeOK
  HeapOrdered
PROPERTIES
  ImplementsEventBag
  ClockNearlyMonotone
  ExactTiesInOrder
CHECK_DEADLOCK FALSE
