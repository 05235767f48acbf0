SPECIFICATION Spec
CONSTANTS
  Conn = {c1, c2}
  NoConn = NoConn
  MaxFd = 2
  MaxMessages = 2
  MaxBadRecords = 1
  Faults = {"abort", "slow", "limit", "stop"}
INVARIANTS
  TypeOK
  FdsOwned
PROPERTIES
  BroadcastReachesAll
  DropsMatchEvents
  DepartedIsForgotten
  RequestsAreRead
CHECK_DEADLOCK FALSE
