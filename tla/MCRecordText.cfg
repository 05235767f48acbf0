SPECIFICATION Spec
CONSTANTS
  DeviceRecords <- MCDevices
  GroupRecords <- MCGroups
  HandLines <- MCHandLines
  PlainName = {"lamp", ""}
  LongName = {"long"}
  QuoteName = {"quote"}
  NewlineName = {"feed"}
  NoRec = NoRec
  HexLen = 2
  MaxMembers = 2
  ULongMax = 1000000
  MaxLines = 3
INVARIANTS
  ReadsBack
PROPERTIES
  FindsFirst
  GoodLinesSurvive
  RestartKeepsAnswers
