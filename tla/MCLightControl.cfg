SPECIFICATION MCSpec
CONSTANTS
  colour = colour
  plug = plug
  far = far
  Light = {colour, plug, far}
  FirstLight = colour
  HighEndpoint = {far}
  Order <- TwoAttributes
  Has <- HasWhat
  Group = {g1}
  Members <- BothIn
  Setting <- Commands
  Rounds = 2
  AskEvery = 1
  MaxInputs = 2
  MaxReads = 1
  MaxAnswers = 1
INVARIANTS
  TypeOK
  ShownWasHad
  MarksAreTrue
PROPERTIES
  WaitSeesAnswers
CHECK_DEADLOCK FALSE
