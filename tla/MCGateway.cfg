SPECIFICATION GwSpec
CONSTANTS
  d1 = d1
  a1 = a1
  a2 = a2
  Ieee = {d1}
  NwkAddr = {a1, a2}
  Endpoint = {1, 2}
  NoName = NoName
  Name = {NoName}
  Garbage = Garbage
  NoDevice = NoDevice
  UnreadableAddr = {}
  UnreadableName = {}
  Assign <- MCAssign
  TouchLinked = {}
  Faults = {"crash", "missed"}
  MaxLines = 4
INVARIANTS
  UniqueEndpoint
  MirrorAgrees
PROPERTIES
  AnsweredIsListed
  RegistrySpec
