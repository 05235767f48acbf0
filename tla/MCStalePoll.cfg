SPECIFICATION Spec
CONSTANTS
  Conn = {c1, c2}
  NoConn = NoConn
  MaxFd = 2
  MaxMessages = 2
  MaxBadRecords = 1
  Faults = {"abort"}
PROPERTIES
  OnlyDepartedDropped
CHECK_DEADLOCK FALSE
