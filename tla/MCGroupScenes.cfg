SPECIFICATION GrSpec
CONSTANTS
  Member = {m1, m2, m3}
  NoName = NoName
  GroupName = {"g1", "g2", NoName}
  SceneName = {"s1", "s2", NoName}
  BadName = {"bad"}
  BadMember = {}
  GroupIds = 2
  SceneIds = 3
  MaxMembers = 2
  MaxGroups = 2
  MaxScenes = 3
  Faults = {"crash"}
  GroupTyped = {"g1", "g2"}
  SceneTyped = {"s1", "s2"}
  MaxRequests = 2
  MaxItems = 2
  MaxPresses = 5
  MaxUnread = 1
SYMMETRY Lights
INVARIANTS
  GrTypeOK
  GroupIdsStable
  RecallsWhatWasStored
  ButtonsMeanWhatIsShown
PROPERTIES
  MembersKept
