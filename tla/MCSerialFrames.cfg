SPECIFICATION PrSpec
CONSTANTS
  Byte = 8
  SOF = 6
  Lengths = {0, 1}
  Fill = {1, 4}
  MaxRetries = 2
  MaxFrames = 3
  MaxUnasked = 2
  EmptyRead = "fails"
  Programs = {"gateway", "zbFwStart", "getFwModel"}
  InfoLen = 0
  ModelLen = 1
  MaxTimeouts = 5
  InfoTimeouts = 3
INVARIANTS
  PrTypeOK
  FramesProcessed
  GarbledNeedsStartByte
  UnknownNeedsLosses
PROPERTIES
  ReaderReturns
  ProbeEnds
CHECK_DEADLOCK FALSE
