SPECIFICATION ClSpec
CONSTANTS
  Cell = {a, b, c}
  MaxMessages = 3
  Faults = {"short", "spurious", "pieces", "foreign"}
  Programs = {"listDevs", "flashLed", "openNetwork"}
  Word = 8
  Loops = {0, 1, 3, 7}
  StartWith = 0
  MaxRequests = 3
INVARIANTS
  ClTypeOK
  HandledInOrder
  ListIsExclusive
  ActedAsAsked
  FlashesAsTold
PROPERTIES
  NewestIsHandled
  RequestsAreCarriedOut
CHECK_DEADLOCK FALSE
