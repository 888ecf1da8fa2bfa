SPECIFICATION FairSpec
CONSTANTS
  p1 = p1
  p2 = p2
  Params = {p1, p2}
  InCap = 1
  OutCap = 1
  MaxReq = 2
  MaxDeath = 1
PROPERTIES
  ConversationsEnd
  ObjectsLand
