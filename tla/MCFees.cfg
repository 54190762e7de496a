SPECIFICATION Spec
CONSTANTS
  Rates = {0, 1, 2500, 3333, 5000, 9999, 10000}
  MaxAmount = 300
CHECK_DEADLOCK FALSE
INVARIANTS ThreeWayIsExact TwoWayIsExact
PROPERTIES SharesGrow
