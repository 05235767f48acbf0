SPECIFICATION Spec
CONSTANTS
  Cell = {a, b, c}
  MaxMessages = 3
  Faults = {}
PROPERTIES
  ListFinished
CHECK_DEADLOCK FALSE
