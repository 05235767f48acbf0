SPECIFICATION Spec
CONSTANTS
  d1 = d1
  d2 = d2
  a1 = a1
  a2 = a2
  a3 = a3
  Ieee = {d1, d2}
  NwkAddr = {a1, a2, a3}
  Endpoint = {1}
  NoName = NoName
  Name = {NoName}
  Garbage = Garbage
  NoDevice = NoDevice
  UnreadableAddr = {}
  UnreadableName = {}
  Assign <- MCAssign
  TouchLinked = {}
  Faults = {}
  MaxLines = 2
PROPERTIES
  AnswersFindRecord
